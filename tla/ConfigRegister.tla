--------------------------- MODULE ConfigRegister ---------------------------
(***************************************************************************)
(* What a user of the gateway may rely on: the configuration in effect is  *)
(* a register.  A full reload writes it or refuses.  An incremental reload *)
(* writes it or refuses as long as it is whole, and may also tear it; what *)
(* is torn stays torn until a full reload succeeds.                        *)
(***************************************************************************)
CONSTANTS
  Contents,  \* the configurations that can be in effect
  Torn       \* the register's value after a reload stopped half way

VARIABLES content, op, reply

vars == <<content, op, reply>>

Init ==
  /\ content \in Contents
  /\ op = "start"
  /\ reply = "ok"

Write == content' \in Contents /\ reply' = "ok"

Refuse == UNCHANGED content /\ reply' = "error"

FullReload == op' = "full" /\ (Write \/ Refuse)

DiffReload ==
  /\ op' = "diff"
  /\ \/ content # Torn /\ (Write \/ Refuse)
     \/ content' = Torn /\ reply' = "error"
     \/ content = Torn /\ UNCHANGED content /\ reply' \in {"ok", "error"}

Next == FullReload \/ DiffReload

Spec == Init /\ [][Next]_vars
=============================================================================
