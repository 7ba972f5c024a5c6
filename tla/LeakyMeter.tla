----------------------------- MODULE LeakyMeter -----------------------------
(***************************************************************************)
(* What the rate limiter promises: one meter for each address, and one     *)
(* answer at a time.  A request that is let through raises the level of    *)
(* its meter by one, time drains it, and a request that finds the meter    *)
(* full is refused.  There are no threads and no lock, the numbers of a    *)
(* meter never change, and no arithmetic wraps.                            *)
(***************************************************************************)
EXTENDS Integers

CONSTANTS
  Ip,       \* the addresses
  Sizes,    \* the sizes a meter may have
  Drains,   \* and what it may lose in a second
  Second    \* ticks in a second

VARIABLES
  meters,   \* the meters of the addresses seen so far
  admitted, \* how many requests of each address have been let through
  now       \* the time

vars == <<meters, admitted, now>>

Init ==
  /\ DOMAIN meters = {}
  /\ admitted = [i \in Ip |-> 0]
  /\ now = 0

Tick == now' = now + 1 /\ UNCHANGED <<meters, admitted>>

\* An address gets an empty meter, once.
Install(i) ==
  /\ i \notin DOMAIN meters
  /\ \E s \in Sizes, d \in Drains :
       meters' = [j \in DOMAIN meters \union {i} |->
                    IF j = i THEN [size |-> s, drain |-> d, level |-> 0, since |-> now]
                    ELSE meters[j]]
  /\ UNCHANGED <<admitted, now>>

Seconds(m) == (now - m.since) \div Second

\* It drains by whole seconds; what is left of one is not kept.
Drained(m) ==
  LET loss == Seconds(m) * m.drain
  IN  IF Seconds(m) = 0 THEN m
      ELSE [m EXCEPT !.level = IF loss < m.level THEN m.level - loss ELSE 0, !.since = now]

Admit(i) ==
  LET m == Drained(meters[i])
  IN  /\ i \in DOMAIN meters
      /\ m.level < m.size
      /\ meters' = [meters EXCEPT ![i] = [m EXCEPT !.level = m.level + 1]]
      /\ admitted' = [admitted EXCEPT ![i] = @ + 1]
      /\ UNCHANGED now

Refuse(i) ==
  LET m == Drained(meters[i])
  IN  /\ i \in DOMAIN meters
      /\ m.level = m.size
      /\ meters' = [meters EXCEPT ![i] = m]
      /\ UNCHANGED <<admitted, now>>

Next == Tick \/ \E i \in Ip : Install(i) \/ Admit(i) \/ Refuse(i)

Spec == Init /\ [][Next]_vars
=============================================================================
