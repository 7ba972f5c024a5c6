--------------------------- MODULE Gateway_proofs ---------------------------
(***************************************************************************)
(* Theorems about Gateway: the composition is a GatewayState whose calls   *)
(* come one at a time, and a ControlPlane whose reloads have the outcome   *)
(* that the contents of the file decide.                                   *)
(***************************************************************************)
EXTENDS Gateway, GatewayState_proofs

LEMMA NumbersAre == Numbers = 0 .. 2 * MaxVersion /\ Numbers = C!Content /\ 0 \in Numbers
BY ContentAssumption, ThreadsAssumption DEF Numbers, C!Content

LEMMA ParsedIsConfig ==
  ASSUME NEW k \in Numbers, Parses(k)
  PROVE  ContentOf[k] \in Configs
BY NumbersAre, ContentAssumption DEF Parses

(* What a full rebuild accepts with less of the outside world it accepts   *)
(* with more.                                                              *)
LEMMA BuildsWithMore ==
  ASSUME NEW c, NEW lost \in SUBSET Fallible, NEW more \in SUBSET lost, FromConfigOk(c, lost)
  PROVE  FromConfigOk(c, more)
BY DEF FromConfigOk, Builds, KeyLoads

-----------------------------------------------------------------------------
(* The composition is a GatewayState.                                      *)

LEMMA StateStep == Prepared /\ [GatewayNext]_<<state, threads>> => [Next]_vars
<1> SUFFICES ASSUME Prepared, [GatewayNext]_<<state, threads>>, ~UNCHANGED vars
             PROVE  Next
  OBVIOUS
<1>1. CASE Outside \/ Listen
  BY <1>1 DEF Outside, Listen, state
<1>2. CASE Boot
  BY <1>2 DEF Boot, Next
<1>3. ASSUME NEW p \in C!Threads, Begin(p) \/ Load(p) \/ Lock(p)
      PROVE  FALSE
  BY <1>3 DEF Begin, Load, Lock, state
<1>4. ASSUME NEW p \in C!Threads, Apply(p)
      PROVE  Next
  <2>1. loaded[p] \in Numbers /\ Parses(loaded[p])
    BY <1>4 DEF Apply, C!MayApply, Prepared, MayBuild
  <2>2. ContentOf[loaded[p]] \in Configs
    BY <2>1, ParsedIsConfig
  <2> QED
    BY <1>4, <2>2 DEF Apply, Install, Update, Next
<1>5. ASSUME NEW r \in Requests, ReadLock(r) \/ ReadUnlock(r)
      PROVE  FALSE
  BY <1>5 DEF ReadLock, ReadUnlock, state
<1> QED
  BY <1>1, <1>2, <1>3, <1>4, <1>5 DEF GatewayNext, state

LEMMA PreparedInit == GatewayInit => Prepared
<1> SUFFICES ASSUME GatewayInit PROVE Prepared
  OBVIOUS
<1>1. C!Init
  BY DEF GatewayInit
<1> QED
  BY <1>1, NumbersAre DEF GatewayInit, Prepared, C!Init, C!Threads, C!Stages

LEMMA PreparedNext == Prepared /\ [GatewayNext]_<<state, threads>> => Prepared'
<1> SUFFICES ASSUME Prepared, [GatewayNext]_<<state, threads>> PROVE Prepared'
  OBVIOUS
<1>1. ASSUME UNCHANGED state
      PROVE  snapshot' = snapshot /\ version' = version /\ booted' = booted
  BY <1>1 DEF state, vars
<1>2. CASE Outside
  <2>1. UNCHANGED <<pc, loaded, readers>>
    BY <1>2 DEF Outside, C!WriteFile, C!OtherFile, C!Deliver, C!locks
  <2>2. file' \in Numbers
    BY <1>2, NumbersAre, ThreadsAssumption
       DEF Outside, C!WriteFile, C!OtherFile, C!Deliver, Prepared
  <2> QED
    BY <1>1, <1>2, <2>1, <2>2 DEF Outside, Prepared
<1>3. CASE Listen
  <2>1. /\ UNCHANGED <<file, loaded, readers>>
        /\ \E s \in {"recv", "settle", "load"} : pc' \in {pc, [pc EXCEPT ![Watcher] = s]}
    BY <1>3 DEF Listen, C!Watch, C!Recv, C!Settle, C!locks
  <2> QED
    BY <1>1, <1>3, <2>1 DEF Listen, Prepared, C!Threads, C!Stages
<1>4. CASE Boot
  BY <1>4 DEF Boot, RegisterHealthServices, threads, Prepared
<1>5. ASSUME NEW p \in C!Threads, Begin(p)
      PROVE  Prepared'
  BY <1>1, <1>5 DEF Begin, C!Begin, C!locks, C!Stages, Prepared
<1>6. ASSUME NEW p \in C!Threads, Load(p)
      PROVE  Prepared'
  <2>1. PICK lost \in SUBSET Fallible : C!Read(p, Likes(p, lost))
    BY <1>6 DEF Load
  <2>2. /\ loaded' = [loaded EXCEPT ![p] = file] /\ UNCHANGED <<file, readers>>
        /\ \E s \in {"recv", "idle", "lock"} : pc' = [pc EXCEPT ![p] = s]
    BY <2>1 DEF C!Read, C!Rest, C!locks
  <2>3. pc'[p] = "lock" => IF p = Watcher THEN Parses(file) ELSE file \in MayBuild
    <3>1. pc'[p] = "lock" => Likes(p, lost)
      BY <2>1 DEF C!Read, C!Rest, Prepared
    <3>2. Likes(p, lost) => IF p = Watcher THEN Parses(file) ELSE file \in MayBuild
      BY BuildsWithMore DEF Likes, MayBuild, Prepared
    <3> QED
      BY <3>1, <3>2
  <2>4. pc' \in [C!Threads -> C!Stages] /\ loaded' \in [C!Threads -> Numbers]
    BY <2>2 DEF Prepared, C!Stages
  <2>5. ASSUME NEW t \in C!Threads, pc'[t] \in {"lock", "wait", "apply"}
        PROVE  IF t = Watcher THEN Parses(loaded'[t]) ELSE loaded'[t] \in MayBuild
    <3>1. CASE t = p
      BY <2>2, <2>3, <2>5, <3>1 DEF Prepared
    <3>2. CASE t # p
      BY <2>2, <2>5, <3>2 DEF Prepared
    <3> QED
      BY <3>1, <3>2
  <2>6. UNCHANGED <<file, version, snapshot, booted, readers>>
    <3>1. UNCHANGED state
      BY <1>6, Zenon DEF Load
    <3> QED
      BY <1>1, <2>2, <3>1
  <2> QED
    BY <2>4, <2>5, <2>6 DEF Prepared
<1>7. ASSUME NEW p \in C!Threads, Lock(p)
      PROVE  Prepared'
  <2>1. /\ UNCHANGED <<file, loaded, readers>>
        /\ pc[p] \in {"lock", "wait"}
        /\ \E s \in {"wait", "apply"} : pc' = [pc EXCEPT ![p] = s]
    BY <1>7 DEF Lock, C!AskLock, C!Lock, C!locks
  <2> QED
    BY <1>1, <1>7, <2>1 DEF Lock, Prepared, C!Stages
<1>8. ASSUME NEW p \in C!Threads, Apply(p)
      PROVE  Prepared'
  <2>1. /\ UNCHANGED <<file, loaded, readers>>
        /\ \E s \in {"recv", "idle"} : pc' = [pc EXCEPT ![p] = s]
    BY <1>8 DEF Apply, C!Release, C!Rest
  <2>2. version' \in Numbers /\ snapshot' = ContentOf[version']
    <3>1. CASE Install(p)
      <4>1. FromConfigOk(ContentOf[loaded[p]], {})
        BY <1>8, <3>1 DEF Apply, Install, C!MayApply, Prepared, MayBuild
      <4> QED
        BY <3>1, <4>1 DEF Install, ReloadSimple, Rebuild, Prepared
    <3>2. CASE Update(p)
      BY <3>2 DEF Update, DiffUpdate, DiffRejected, DiffFailsInRoutes, DiffFailsInClusters,
                  DiffFailsInAuth, DiffApplied, Prepared
    <3> QED
      BY <1>8, <3>1, <3>2 DEF Apply
  <2>3. booted' = booted
    BY <1>8 DEF Apply, Install, Update, ReloadSimple, DiffUpdate
  <2> QED
    BY <2>1, <2>2, <2>3 DEF Prepared, C!Stages
<1>9. ASSUME NEW r \in Requests, ReadLock(r) \/ ReadUnlock(r)
      PROVE  Prepared'
  BY <1>1, <1>9 DEF ReadLock, ReadUnlock, C!ReadLock, C!ReadUnlock, Prepared
<1>10. CASE UNCHANGED <<state, threads>>
  BY <1>1, <1>10 DEF threads, Prepared
<1> QED
  BY <1>2, <1>3, <1>4, <1>5, <1>6, <1>7, <1>8, <1>9, <1>10 DEF GatewayNext

(* The composition only takes steps of GatewayState, so that every theorem *)
(* about GatewayState holds of it.                                         *)
THEOREM ImplementsState == GatewaySpec => Spec /\ []Prepared
<1>1. GatewayInit => Init
  BY DEF GatewayInit
<1> QED
  BY <1>1, PreparedInit, PreparedNext, StateStep, PTL DEF GatewaySpec, Spec

(* The whole gateway is a register of configurations: requests, the        *)
(* watcher and the admin API read and write it as ConfigRegister allows,   *)
(* and a torn state stays torn until a full reload: ActsAsRegister.        *)
THEOREM ImplementsRegisterToo == GatewaySpec => ActsAsRegister
BY ImplementsState, ImplementsRegister, PTL

(* Unless an update was torn, the whole of the content read by the reload  *)
(* that came last is in effect: VersionInEffect.                           *)
THEOREM WholeVersionInEffect == GatewaySpec => []VersionInEffect
<1>1. Prepared /\ CleanServesSnapshot => VersionInEffect
  BY DEF Prepared, CleanServesSnapshot, VersionInEffect
<1> QED
  BY <1>1, ImplementsState, DiffEqualsRebuild, PTL

-----------------------------------------------------------------------------
(* The composition is a ControlPlane.                                      *)

(* A content that from_config refuses now may be refused; when it is valid *)
(* all the same, an update to it may stop half way.                        *)
LEMMA RefusedMayFail ==
  ASSUME NEW k \in Numbers, NEW lost \in SUBSET Fallible,
         Parses(k) => ~FromConfigOk(ContentOf[k], lost)
  PROVE  k \in MayFail /\ (Parses(k) /\ Valid(ContentOf[k]) => k \in MayTear)
<1>1. Parses(k) => ~FromConfigOk(ContentOf[k], Fallible)
  BY BuildsWithMore
<1> QED
  BY <1>1 DEF MayFail, MayTear

LEMMA LoadMaps ==
  ASSUME Prepared, NEW p \in C!Threads, Load(p)
  PROVE  C!Load(p)
<1>1. PICK lost \in SUBSET Fallible : C!Read(p, Likes(p, lost))
  BY DEF Load
<1>2. CASE Likes(p, lost)
  <2>1. C!Read(p, TRUE)
    BY <1>1, <1>2 DEF C!Read
  <2>2. file \in MayBuild \/ p = Watcher
    BY <1>2, BuildsWithMore DEF Likes, MayBuild, Prepared
  <2> QED
    BY <2>1, <2>2 DEF C!Load
<1>3. CASE ~Likes(p, lost)
  <2>1. C!Read(p, FALSE)
    BY <1>1, <1>3 DEF C!Read
  <2>2. Parses(file) => ~FromConfigOk(ContentOf[file], lost)
    BY <1>3 DEF Likes, FromConfigOk, Valid
  <2>3. file \in MayFail
    BY <2>2, RefusedMayFail DEF Prepared
  <2> QED
    BY <2>1, <2>3 DEF C!Load
<1> QED
  BY <1>2, <1>3

LEMMA UpdateMaps ==
  ASSUME IInv, IInv', Prepared, pc[Watcher] = "apply", Update(Watcher)
  PROVE  C!Update(Watcher)
<1> DEFINE k == loaded[Watcher]
           c == ContentOf[k]
<1>1. k \in Numbers /\ Parses(k) /\ c \in Configs
  BY ParsedIsConfig DEF Prepared, C!Threads
<1>2. PICK lost \in SUBSET Fallible : DiffUpdate(c, lost)
  BY DEF Update
<1>3. version' = IF reply' = "ok" THEN k ELSE version
  BY DEF Update
<1>4. CASE DiffRejected(c)
  <2>1. k \in MayFail
    BY <1>1, <1>4, RefusedMayFail DEF DiffRejected, FromConfigOk
  <2>2. clean' = clean /\ version' = version
    BY <1>3, <1>4 DEF DiffRejected
  <2> QED
    BY <2>1, <2>2 DEF C!Update
<1>5. CASE DiffApplied(c, lost)
  <2>1. clean' = clean /\ version' = k /\ snapshot' = c
    BY <1>3, <1>5 DEF DiffApplied
  <2>2. k \in MayBuild
    BY <1>1, <2>1 DEF IInv, SnapshotIsBuildable, MayBuild, FromConfigOk, Builds, KeyLoads, Valid,
                      UniqueIds, UpstreamsExist
  <2>3. k # Torn /\ version # Torn
    BY <1>1, NumbersAre, ThreadsAssumption DEF Prepared
  <2> QED
    BY <2>1, <2>2, <2>3 DEF C!Update
<1>6. CASE DiffFailsInRoutes(c) \/ DiffFailsInClusters(c, lost) \/ DiffFailsInAuth(c, lost)
  <2>1. Valid(c) /\ reply' = "error" /\ ~clean' /\ version' = version
    BY <1>3, <1>6 DEF DiffFailsInRoutes, DiffFailsInClusters, DiffFailsInAuth
  <2>2. CASE clean
    <3>1. ~FromConfigOk(c, lost)
      BY <1>1, <1>2, <2>1, <2>2, CleanAccepts
    <3>2. k \in MayTear
      BY <1>1, <2>1, <3>1, RefusedMayFail
    <3> QED
      BY <2>1, <3>2 DEF C!Update
  <2>3. CASE ~clean
    BY <2>1, <2>3 DEF C!Update
  <2> QED
    BY <2>2, <2>3
<1> QED
  BY <1>2, <1>4, <1>5, <1>6 DEF DiffUpdate

LEMMA InstallMaps ==
  ASSUME Prepared, NEW p \in C!Threads, pc[p] = "apply", Install(p)
  PROVE  C!Replace(p)
<1>1. FromConfigOk(ContentOf[loaded[p]], {})
  BY DEF Install, Prepared, MayBuild
<1>2. clean' /\ version' = loaded[p]
  BY <1>1 DEF Install, ReloadSimple
<1> QED
  BY <1>2 DEF C!Replace, Install

LEMMA ControlStep ==
  IInv /\ IInv' /\ Prepared /\ [GatewayNext]_<<state, threads>> => [C!Next]_(C!vars)
<1> SUFFICES ASSUME IInv, IInv', Prepared, [GatewayNext]_<<state, threads>>
             PROVE  [C!Next]_(C!vars)
  OBVIOUS
<1>1. CASE Outside \/ Listen
  BY <1>1 DEF Outside, Listen, C!Next
<1>2. CASE Boot
  BY <1>2 DEF Boot, RegisterHealthServices, threads, C!vars
<1>3. ASSUME NEW p \in C!Threads, Begin(p) \/ Lock(p)
      PROVE  C!Next
  BY <1>3 DEF Begin, Lock, C!Next
<1>4. ASSUME NEW p \in C!Threads, Load(p)
      PROVE  C!Next
  BY <1>4, LoadMaps DEF C!Next
<1>5. ASSUME NEW p \in C!Threads, Apply(p)
      PROVE  C!Next
  <2>1. C!MayApply(p) /\ C!Release(p) /\ pc[p] = "apply"
    BY <1>5 DEF Apply, C!MayApply
  <2>2. C!Replace(p) \/ C!Update(p)
    BY <1>5, <2>1, UpdateMaps, InstallMaps DEF Apply, Update
  <2> QED
    BY <2>1, <2>2 DEF C!Apply, C!Next
<1>6. ASSUME NEW r \in Requests, ReadLock(r) \/ ReadUnlock(r)
      PROVE  C!Next
  BY <1>6 DEF ReadLock, ReadUnlock, C!Next
<1>7. CASE UNCHANGED <<state, threads>>
  BY <1>7 DEF state, threads, vars, C!vars
<1> QED
  BY <1>1, <1>2, <1>3, <1>4, <1>5, <1>6, <1>7 DEF GatewayNext

(* Every step of the composition is one that ControlPlane allows for the   *)
(* content that was read: ActsAsControlPlane.                              *)
THEOREM ImplementsControlPlane == GatewaySpec => ActsAsControlPlane
<1>1. GatewayInit => C!Init
  BY DEF GatewayInit
<1> QED
  BY <1>1, ControlStep, ImplementsState, Invariance, PTL DEF GatewaySpec, ActsAsControlPlane

-----------------------------------------------------------------------------
(* What is proved of ControlPlane holds of the composition: its theorems   *)
(* for the contents of the file, the threads and the lock there are here.  *)

CP == INSTANCE ControlPlane_proofs WITH
        Accepted   <- MayBuild,
        Refused    <- MayFail,
        Tearing    <- MayTear,
        HasLimiter <- Limited,
        Callers    <- {},
        serving    <- IF clean THEN version ELSE Torn

\* The assumptions of ControlPlane.
LEMMA ControlPlaneAssumptions ==
  /\ MaxVersion \in Nat /\ MaxQueue \in Nat \ {0}
  /\ MayBuild \union MayFail = CP!Content
  /\ MayTear \subseteq MayFail /\ Limited \subseteq CP!Content
  /\ Torn \notin CP!Content
  /\ OpensReported \in BOOLEAN
  /\ Watcher \notin Admins \union {}
  /\ Admins \intersect {} = {}
  /\ Nobody \notin CP!Threads
<1>1. CP!Content = Numbers
  BY NumbersAre DEF CP!Content
<1>2. MayBuild \union MayFail = Numbers
  BY BuildsWithMore DEF MayBuild, MayFail
<1>3. MayTear \subseteq MayFail /\ Limited \subseteq Numbers
  BY DEF MayTear, Limited
<1> QED
  BY <1>1, <1>2, <1>3, NumbersAre, ThreadsAssumption DEF CP!Threads

\* C and CP are one instance of ControlPlane.
LEMMA OneControlPlane ==
  /\ C!Init => CP!Init
  /\ [C!Next]_(C!vars) => [CP!Next]_(CP!vars)
  /\ CP!NoLostWakeup => C!NoLostWakeup
  /\ CP!OnlyIfOvertaken => C!OnlyIfOvertaken
<1> USE DEF C!Threads, CP!Threads, C!vars, CP!vars
<1>1. C!Init => CP!Init
  BY DEF C!Init, CP!Init
<1>2. [C!Next]_(C!vars) => [CP!Next]_(CP!vars)
  BY DEF C!Next, C!WriteFile, C!OtherFile, C!Deliver, C!Watch, C!Recv, C!Settle, C!Begin, C!Load, C!Read,
         C!Peek, C!AskLock, C!Lock, C!Apply, C!MayApply, C!Release, C!Replace, C!Update, C!AskAgain,
         C!ReadLock, C!ReadUnlock, C!Rest, C!More, C!Notice, C!Watched, C!Half, C!locks, C!Content,
         CP!Next, CP!WriteFile, CP!OtherFile, CP!Deliver, CP!Watch, CP!Recv, CP!Settle, CP!Begin, CP!Load,
         CP!Read, CP!Peek, CP!AskLock, CP!Lock, CP!Apply, CP!MayApply, CP!Release, CP!Replace,
         CP!Update, CP!AskAgain, CP!ReadLock, CP!ReadUnlock, CP!Rest, CP!More, CP!Notice, CP!Watched, CP!Half, CP!locks,
         CP!Content
<1>3. CP!NoLostWakeup => C!NoLostWakeup
  BY DEF C!NoLostWakeup, CP!NoLostWakeup
<1>4. CP!OnlyIfOvertaken => C!OnlyIfOvertaken
  BY DEF C!OnlyIfOvertaken, CP!OnlyIfOvertaken
<1> QED
  BY <1>1, <1>2, <1>3, <1>4

\* Its invariants, from the lemmas of its proofs.
ControlInv == CP!TypeOK /\ CP!WakeupInv /\ CP!ReadInv /\ CP!LockInv

LEMMA ControlInvStep ==
  /\ CP!Init => ControlInv
  /\ ControlInv /\ [CP!Next]_(CP!vars) => ControlInv' /\ CP!OnlyIfOvertaken
<1>1. CP!Init => ControlInv
  BY ControlPlaneAssumptions, CP!InitType, CP!WakeupInit, CP!ReadInit, CP!LockInit DEF ControlInv
<1>2. ControlInv /\ [CP!Next]_(CP!vars) => CP!TypeOK'
  BY ControlPlaneAssumptions, CP!NextType DEF ControlInv
<1>3. ControlInv /\ [CP!Next]_(CP!vars) => CP!WakeupInv'
  BY ControlPlaneAssumptions, CP!WakeupNext DEF ControlInv
<1>4. ControlInv /\ [CP!Next]_(CP!vars) => CP!ReadInv'
  BY ControlPlaneAssumptions, CP!ReadNext DEF ControlInv
<1>5. ControlInv /\ [CP!Next]_(CP!vars) => CP!LockInv'
  BY ControlPlaneAssumptions, CP!LockNext DEF ControlInv
<1>6. ControlInv /\ [CP!Next]_(CP!vars) => CP!OnlyIfOvertaken
  BY ControlPlaneAssumptions, CP!OvertakenAlways DEF ControlInv
<1> QED
  BY <1>1, <1>2, <1>3, <1>4, <1>5, <1>6 DEF ControlInv

(* In the whole gateway no change of the file is missed, and the version   *)
(* in effect goes back only when one reload overtakes another:             *)
(* NoLostWakeup and GoesBackOnlyIfOvertaken of ControlPlane.               *)
THEOREM ControlPlaneHolds ==
  GatewaySpec => []ControlInv /\ []C!NoLostWakeup /\ C!GoesBackOnlyIfOvertaken
<1>1. ControlInv => CP!NoLostWakeup
  BY DEF ControlInv, CP!WakeupInv
<1> QED
  BY <1>1, ImplementsControlPlane, OneControlPlane, ControlInvStep, PTL
     DEF ActsAsControlPlane, C!GoesBackOnlyIfOvertaken

-----------------------------------------------------------------------------
(* The lock protects a request from every part of a reload.                *)

(* Nothing a request looks at changes while it holds the read lock:        *)
(* RequestsSeeOneState.                                                    *)
THEOREM OneStatePerRequest == GatewaySpec => RequestsSeeOneState
<1>1. Prepared /\ ControlInv /\ [GatewayNext]_<<state, threads>> =>
        [readers \intersect readers' # {} => UNCHANGED served]_<<served, readers>>
  <2> SUFFICES ASSUME Prepared, ControlInv, [GatewayNext]_<<state, threads>>, ~UNCHANGED served
               PROVE  readers \intersect readers' = {}
    OBVIOUS
  <2>1. UNCHANGED state => UNCHANGED served
    BY DEF state, vars, served
  <2>2. CASE \E p \in C!Threads : Apply(p)
    BY <2>2, ThreadsAssumption
       DEF Apply, C!MayApply, ControlInv, CP!LockInv, C!Threads, CP!Threads
  <2>3. CASE Boot
    BY <2>3 DEF Boot, RegisterHealthServices, Prepared
  <2> QED
    BY <2>1, <2>2, <2>3 DEF GatewayNext, Outside, Listen, Begin, Load, Lock, ReadLock, ReadUnlock
<1> QED
  BY <1>1, ControlPlaneHolds, ImplementsState, PTL DEF GatewaySpec, RequestsSeeOneState
=============================================================================
