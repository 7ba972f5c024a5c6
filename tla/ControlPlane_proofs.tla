------------------------- MODULE ControlPlane_proofs -------------------------
(***************************************************************************)
(* Theorems about ControlPlane, for any number of versions, admin          *)
(* connections, callers and requests.                                      *)
(***************************************************************************)
EXTENDS ControlPlane, TLAPS

LEMMA MoreType ==
  ASSUME NEW n \in 0 .. MaxQueue
  PROVE  More(n) \in 0 .. MaxQueue /\ More(n) > 0 /\ More(n) >= n
BY BoundsAssumption DEF More

(* Events of the directory are counted, or there is no watch yet.          *)
LEMMA NoticeType ==
  ASSUME kernel \in 0 .. MaxQueue, Notice \/ UNCHANGED kernel
  PROVE  /\ kernel' \in 0 .. MaxQueue /\ kernel' >= kernel
         /\ Notice /\ Watched => kernel' > 0
<1>1. kernel' = kernel \/ kernel' = More(kernel)
  BY DEF Notice
<1> QED
  BY <1>1, MoreType, BoundsAssumption DEF Notice

LEMMA PositiveSum ==
  ASSUME NEW a \in Nat, NEW b \in Nat, a > 0
  PROVE  a + b > 0
OBVIOUS

LEMMA SumStaysPositive ==
  ASSUME NEW a \in Nat, NEW b \in Nat, NEW c \in Nat, c >= a, a + b > 0
  PROVE  c + b > 0
OBVIOUS

LEMMA InitType == Init => TypeOK
<1> SUFFICES ASSUME Init PROVE TypeOK
  OBVIOUS
<1>1. 0 \in Content
  BY BoundsAssumption DEF Content
<1>2. pc \in [Threads -> Stages]
  BY DEF Init, Stages
<1>3. loaded \in [Threads -> Content]
  BY <1>1 DEF Init
<1>4. 0 \in 0 .. MaxQueue
  BY BoundsAssumption
<1> QED
  BY <1>1, <1>2, <1>3, <1>4 DEF Init, TypeOK

(* A step of a thread moves it to a stage.                                 *)
LEMMA PcType ==
  ASSUME TypeOK, NEW p \in Threads, NEW s \in Stages, pc' = [pc EXCEPT ![p] = s]
  PROVE  pc' \in [Threads -> Stages]
BY DEF TypeOK

LEMMA NextType == TypeOK /\ [Next]_vars => TypeOK'
<1> SUFFICES ASSUME TypeOK, [Next]_vars PROVE TypeOK'
  OBVIOUS
<1> USE DEF locks
<1>1. CASE WriteFile
  <2>1. file' \in Content /\ kernel' \in 0 .. MaxQueue
    BY <1>1, NoticeType, BoundsAssumption DEF WriteFile, TypeOK, Content
  <2> QED
    BY <1>1, <2>1 DEF WriteFile, Watched, TypeOK
<1>2. CASE OtherFile
  BY <1>2, NoticeType DEF OtherFile, TypeOK
<1>3. CASE Deliver
  <2>1. kernel' \in 0 .. MaxQueue /\ queue' \in 0 .. MaxQueue
    BY <1>3, MoreType, BoundsAssumption DEF Deliver, TypeOK
  <2> QED
    BY <1>3, <2>1 DEF Deliver, TypeOK
<1>4. CASE Recv
  BY <1>4, BoundsAssumption DEF Recv, TypeOK, Stages, Threads
<1>5. CASE Settle
  BY <1>5, BoundsAssumption DEF Settle, TypeOK, Stages, Threads
<1>6. ASSUME NEW p \in Threads, Begin(p)
      PROVE  TypeOK'
  BY <1>6 DEF Begin, TypeOK, Stages
<1>7. ASSUME NEW p \in Threads, Load(p)
      PROVE  TypeOK'
  <2>1. kernel' \in 0 .. MaxQueue
    BY <1>7, NoticeType DEF Load, Read, TypeOK
  <2>2. loaded' \in [Threads -> Content]
    BY <1>7 DEF Load, Read, TypeOK
  <2>3. pc' \in [Threads -> Stages]
    BY <1>7 DEF Load, Read, TypeOK, Stages, Rest
  <2> QED
    BY <1>7, <2>1, <2>2, <2>3 DEF Load, Read, TypeOK
<1>8. ASSUME NEW p \in Threads, Peek(p)
      PROVE  TypeOK'
  <2>1. peeked' \subseteq Callers
    BY <1>8 DEF Peek, TypeOK
  <2> QED
    BY <1>8, <2>1 DEF Peek, TypeOK, Stages
<1>9. ASSUME NEW p \in Threads, AskLock(p)
      PROVE  TypeOK'
  BY <1>9 DEF AskLock, TypeOK, Stages
<1>10. ASSUME NEW p \in Threads, Lock(p)
       PROVE  TypeOK'
  BY <1>10 DEF Lock, TypeOK, Stages
<1>11. ASSUME NEW p \in Threads, Apply(p)
       PROVE  TypeOK'
  <2>1. pc' \in [Threads -> Stages]
    BY <1>11 DEF Apply, Release, TypeOK, Stages, Rest
  <2>2. serving' \in Content \union {Torn}
    BY <1>11 DEF Apply, Replace, Update, TypeOK
  <2> QED
    BY <1>11, <2>1, <2>2 DEF Apply, Release, TypeOK
<1>12. ASSUME NEW p \in Threads, AskAgain(p)
       PROVE  TypeOK'
  BY <1>12 DEF AskAgain, TypeOK, Stages
<1>13. ASSUME NEW r \in Requests, ReadLock(r) \/ ReadUnlock(r)
       PROVE  TypeOK'
  BY <1>13 DEF ReadLock, ReadUnlock, TypeOK
<1>14. CASE UNCHANGED vars
  BY <1>14 DEF vars, TypeOK
<1>15. CASE Watch
  BY <1>15 DEF Watch, TypeOK, Stages
<1> QED
  BY <1>1, <1>2, <1>3, <1>4, <1>5, <1>6, <1>7, <1>8, <1>9, <1>10, <1>11, <1>12, <1>13, <1>14,
     <1>15
     DEF Next

(* Every variable keeps its type: TypeOK.                                  *)
THEOREM TypeCorrect == Spec => []TypeOK
BY InitType, NextType, PTL DEF Spec

-----------------------------------------------------------------------------
(* No lost wake-up.                                                        *)

\* Before there is a watch, no content was written after it.
WakeupInv == (early \/ Watched) /\ NoLostWakeup

LEMMA WakeupNext == TypeOK /\ WakeupInv /\ [Next]_vars => WakeupInv'
<1> SUFFICES ASSUME TypeOK, WakeupInv, [Next]_vars PROVE WakeupInv'
  OBVIOUS
<1>1. kernel \in Nat /\ queue \in Nat /\ kernel \in 0 .. MaxQueue /\ queue \in 0 .. MaxQueue
  BY BoundsAssumption DEF TypeOK
<1>2. ASSUME UNCHANGED <<file, loaded, kernel, queue, early>>,
             pc'[Watcher] = "start" => pc[Watcher] = "start",
             pc[Watcher] \in {"settle", "load"} => pc'[Watcher] \in {"settle", "load"}
      PROVE  WakeupInv'
  BY <1>2 DEF WakeupInv, NoLostWakeup, Watched
<1>3. CASE WriteFile
  <2>1. kernel' \in Nat /\ (Watched => kernel' > 0) /\ queue' = queue
    BY <1>3, NoticeType, BoundsAssumption DEF WriteFile, TypeOK
  <2>2. pc' = pc /\ early' = ~Watched
    BY <1>3 DEF WriteFile
  <2>3. ASSUME Watched PROVE kernel' + queue' > 0
    <3>1. kernel' \in Nat /\ kernel' > 0 /\ queue' \in Nat
      BY <1>1, <2>1, <2>3
    <3> QED
      BY <3>1, PositiveSum
  <2> QED
    BY <2>2, <2>3 DEF WakeupInv, NoLostWakeup, Watched
<1>4. CASE OtherFile
  <2>1. kernel' \in Nat /\ kernel' >= kernel /\ UNCHANGED <<queue, pc, early, file, loaded>>
    BY <1>4, NoticeType, BoundsAssumption DEF OtherFile, TypeOK
  <2>2. kernel + queue > 0 => kernel' + queue' > 0
    BY <1>1, <2>1, SumStaysPositive
  <2> QED
    BY <2>1, <2>2 DEF WakeupInv, NoLostWakeup, Watched
<1>5. CASE Deliver
  BY <1>1, <1>5, MoreType, BoundsAssumption DEF Deliver, WakeupInv, NoLostWakeup, Watched
<1>6. CASE Recv
  BY <1>6 DEF Recv, WakeupInv, NoLostWakeup, Watched, TypeOK, Threads
<1>7. CASE Settle
  BY <1>7 DEF Settle, WakeupInv, NoLostWakeup, Watched, TypeOK, Threads
<1>8. ASSUME NEW p \in Threads, Load(p)
      PROVE  WakeupInv'
  <2>1. CASE p = Watcher
    BY <1>8, <2>1 DEF Load, Read, Rest, WakeupInv, NoLostWakeup, Watched, TypeOK
  <2>2. CASE p # Watcher
    <3>1. loaded'[Watcher] = loaded[Watcher] /\ pc'[Watcher] = pc[Watcher]
      BY <1>8, <2>2 DEF Load, Read, TypeOK, Threads
    <3>2. kernel' \in Nat /\ kernel' >= kernel /\ UNCHANGED <<queue, file, early>>
      BY <1>1, <1>8, NoticeType, BoundsAssumption DEF Load, Read
    <3>3. kernel + queue > 0 => kernel' + queue' > 0
      BY <1>1, <3>2, SumStaysPositive
    <3> QED
      BY <3>1, <3>2, <3>3 DEF WakeupInv, NoLostWakeup, Watched
  <2> QED
    BY <2>1, <2>2
<1>9. ASSUME NEW p \in Threads,
             Begin(p) \/ Peek(p) \/ AskLock(p) \/ Lock(p) \/ Apply(p) \/ AskAgain(p)
      PROVE  WakeupInv'
  <2>1. UNCHANGED <<file, loaded, kernel, queue, early>>
    BY <1>9 DEF Begin, Peek, AskLock, Lock, Apply, MayApply, Release, AskAgain, locks
  <2>2. pc[p] \notin {"settle", "load"}
    BY <1>9 DEF Begin, Peek, AskLock, Lock, Apply, MayApply, AskAgain
  <2>3. p # Watcher => pc'[Watcher] = pc[Watcher]
    BY <1>9 DEF Begin, Peek, AskLock, Lock, Apply, Release, AskAgain, TypeOK, Threads
  <2>4. p = Watcher => pc'[Watcher] # "start"
    BY <1>9 DEF Begin, Peek, AskLock, Lock, Apply, Release, Rest, AskAgain, TypeOK
  <2> QED
    BY <1>2, <2>1, <2>2, <2>3, <2>4
<1>10. ASSUME NEW r \in Requests, ReadLock(r) \/ ReadUnlock(r)
       PROVE  WakeupInv'
  BY <1>2, <1>10 DEF ReadLock, ReadUnlock
<1>11. CASE UNCHANGED vars
  BY <1>2, <1>11 DEF vars
<1>12. CASE Watch
  BY <1>2, <1>12 DEF Watch, TypeOK, Threads
<1> QED
  BY <1>3, <1>4, <1>5, <1>6, <1>7, <1>8, <1>9, <1>10, <1>11, <1>12 DEF Next

LEMMA WakeupInit == Init => WakeupInv
BY DEF Init, WakeupInv, NoLostWakeup, Threads

(* When the file was written after the watch was registered and is not what *)
(* the watcher read last, an event is pending or the watcher is about to   *)
(* read: NoLostWakeup.                                                     *)
THEOREM WakeupNeverLost == Spec => []NoLostWakeup
<1>1. WakeupInv => NoLostWakeup
  BY DEF WakeupInv
<1> QED
  BY <1>1, WakeupInit, WakeupNext, TypeCorrect, PTL DEF Spec

-----------------------------------------------------------------------------
(* What is read, and what is in effect.                                    *)

\* Contents are numbers, and the file never goes back.
LEMMA FileGrows ==
  ASSUME TypeOK, [Next]_vars
  PROVE  file \in Nat /\ file' \in Nat /\ file <= file' /\ \A p \in Threads : loaded[p] \in Nat
<1>1. Content \subseteq Nat
  BY BoundsAssumption DEF Content
<1>2. file \in Nat /\ \A p \in Threads : loaded[p] \in Nat
  BY <1>1 DEF TypeOK
<1>3. CASE WriteFile
  BY <1>2, <1>3 DEF WriteFile
<1>4. CASE ~WriteFile
  <2>1. file' = file
    BY <1>4 DEF Next, vars, OtherFile, Deliver, Watch, Recv, Settle, Begin, Load, Read, Peek, AskLock,
                Lock, Apply, Release, AskAgain, ReadLock, ReadUnlock
  <2> QED
    BY <1>2, <2>1
<1> QED
  BY <1>2, <1>3, <1>4

\* A thread that reads has read the newest.
LEMMA LoadedStep ==
  ASSUME TypeOK, [Next]_vars, NEW p \in Threads
  PROVE  \/ loaded'[p] = loaded[p]
         \/ loaded'[p] = file /\ file' = file /\ serving' = serving
<1>1. CASE \E t \in Threads : Load(t)
  <2>1. PICK t \in Threads : Load(t)
    BY <1>1
  <2>2. loaded' = [loaded EXCEPT ![t] = file] /\ file' = file /\ serving' = serving
    BY <2>1 DEF Load, Read
  <2> QED
    BY <2>2 DEF TypeOK
<1>2. CASE ~\E t \in Threads : Load(t)
  BY <1>2 DEF Next, vars, WriteFile, OtherFile, Deliver, Watch, Recv, Settle, Begin, Peek, AskLock,
              Lock, Apply, Release, AskAgain, ReadLock, ReadUnlock
<1> QED
  BY <1>1, <1>2

\* What is in effect changes only in Apply.
LEMMA OnlyApplyChanges ==
  ASSUME [Next]_vars, serving' # serving
  PROVE  \E p \in Threads : Apply(p)
BY DEF Next, vars, WriteFile, OtherFile, Deliver, Watch, Recv, Settle, Begin, Load, Read, Peek, AskLock,
       Lock, AskAgain, ReadLock, ReadUnlock

\* It becomes what the thread has read, or Torn.
LEMMA ApplyInstalls ==
  ASSUME [Next]_vars, serving' # serving, serving' # Torn
  PROVE  \E p \in Threads : pc[p] = "apply" /\ serving' = loaded[p] /\ UNCHANGED loaded
<1>1. PICK p \in Threads : Apply(p)
  BY OnlyApplyChanges
<1> QED
  BY <1>1 DEF Apply, MayApply, Release, Replace, Update

\* No thread is ahead of the file, and what is in effect is not ahead of all of
\* them.
LEMMA ReadNext == TypeOK /\ ReadInv /\ [Next]_vars => ReadInv'
<1> SUFFICES ASSUME TypeOK, ReadInv, [Next]_vars PROVE ReadInv'
  OBVIOUS
<1>1. \A p \in Threads : loaded[p] <= file /\ loaded[p] \in Nat
  BY FileGrows DEF ReadInv
<1>2. file \in Nat /\ file' \in Nat /\ file <= file'
  BY FileGrows
<1>3. ASSUME NEW p \in Threads PROVE loaded'[p] <= file' /\ loaded[p] <= loaded'[p]
  BY <1>1, <1>2, LoadedStep
<1>4. ASSUME serving' # Torn PROVE \E q \in Threads : serving' <= loaded'[q]
  <2>1. CASE serving' = serving
    <3>1. PICK q \in Threads : serving <= loaded[q]
      BY <1>4, <2>1 DEF ReadInv
    <3>2. serving \in Nat
      BY <1>4, <2>1, BoundsAssumption DEF TypeOK, Content
    <3>3. loaded'[q] \in Nat
      BY <1>1, <1>2, LoadedStep
    <3>4. serving <= loaded'[q]
      BY <1>1, <1>3, <3>1, <3>2, <3>3
    <3> QED
      BY <2>1, <3>4
  <2>2. CASE serving' # serving
    <3>1. PICK p \in Threads : serving' = loaded[p] /\ UNCHANGED loaded
      BY <1>4, <2>2, ApplyInstalls
    <3> QED
      BY <1>1, <3>1
  <2> QED
    BY <2>1, <2>2
<1> QED
  BY <1>3, <1>4 DEF ReadInv

LEMMA ReadInit == Init => ReadInv
<1> SUFFICES ASSUME Init PROVE ReadInv
  OBVIOUS
<1>1. Watcher \in Threads /\ \A p \in Threads : loaded[p] = 0
  BY DEF Init, Threads
<1> QED
  BY <1>1 DEF Init, ReadInv

\* An older content is put in place by a thread that another has overtaken.
LEMMA OvertakenStep ==
  ASSUME TypeOK, ReadInv, [Next]_vars, serving # Torn, serving' # Torn, serving' < serving
  PROVE  \E p, q \in Threads : /\ pc[p] = "apply" /\ serving' = loaded[p]
                               /\ loaded[p] < loaded[q] /\ serving <= loaded[q]
<1>1. serving \in Nat /\ \A p \in Threads : loaded[p] \in Nat
  BY FileGrows, BoundsAssumption DEF TypeOK, Content
<1>2. PICK p \in Threads : pc[p] = "apply" /\ serving' = loaded[p]
  BY <1>1, ApplyInstalls
<1>3. PICK q \in Threads : serving <= loaded[q]
  BY DEF ReadInv
<1>4. loaded[p] < loaded[q]
  BY <1>1, <1>2, <1>3
<1> QED
  BY <1>2, <1>3, <1>4

LEMMA OvertakenAlways == TypeOK /\ ReadInv /\ [Next]_vars => OnlyIfOvertaken
BY OvertakenStep DEF OnlyIfOvertaken

(* What is in effect goes back only when a reload overtakes another, for   *)
(* any number of threads: GoesBackOnlyIfOvertaken.                         *)
THEOREM NeverBackAlone == Spec => GoesBackOnlyIfOvertaken
BY ReadInit, ReadNext, OvertakenAlways, TypeCorrect, PTL DEF Spec, GoesBackOnlyIfOvertaken

-----------------------------------------------------------------------------
(* The lock.                                                               *)

LEMMA LockNext == TypeOK /\ LockInv /\ [Next]_vars => LockInv'
<1> SUFFICES ASSUME TypeOK, LockInv, [Next]_vars PROVE LockInv'
  OBVIOUS
<1>1. ASSUME UNCHANGED locks,
             NEW p \in Threads, NEW s \in Stages, pc' = [pc EXCEPT ![p] = s],
             s \in {"apply", "relock"} => pc[p] = "apply"
      PROVE  LockInv'
  BY <1>1 DEF LockInv, locks, TypeOK
<1>2. CASE WriteFile \/ OtherFile \/ Deliver
  BY <1>2 DEF WriteFile, OtherFile, Deliver, LockInv, locks
<1>12. CASE Watch
  BY <1>1, <1>12 DEF Watch, Stages, Threads
<1>3. CASE Recv
  BY <1>1, <1>3 DEF Recv, Stages, Threads
<1>4. CASE Settle
  <2>1. CASE UNCHANGED pc
    BY <1>4, <2>1 DEF Settle, LockInv, locks
  <2>2. CASE pc' = [pc EXCEPT ![Watcher] = "load"]
    BY <1>1, <1>4, <2>2 DEF Settle, Stages, Threads
  <2> QED
    BY <1>4, <2>1, <2>2 DEF Settle
<1>5. ASSUME NEW p \in Threads, Begin(p) \/ Peek(p) \/ AskLock(p)
      PROVE  LockInv'
  <2>1. CASE Begin(p)
    BY <1>1, <2>1 DEF Begin, Stages
  <2>2. CASE Peek(p)
    BY <1>1, <2>2 DEF Peek, Stages
  <2>3. CASE AskLock(p)
    BY <1>1, <2>3 DEF AskLock, Stages
  <2> QED
    BY <1>5, <2>1, <2>2, <2>3
<1>6. ASSUME NEW p \in Threads, Load(p)
      PROVE  LockInv'
  <2>1. \E s \in {"recv", "idle", "peek", "lock"} : pc' = [pc EXCEPT ![p] = s]
    BY <1>6 DEF Load, Read, Rest
  <2>2. PICK s \in {"recv", "idle", "peek", "lock"} : pc' = [pc EXCEPT ![p] = s]
    BY <2>1
  <2>3. s \in Stages /\ s \notin {"apply", "relock"} /\ UNCHANGED locks
    BY <1>6 DEF Load, Read, Stages
  <2> QED
    BY <1>1, <2>2, <2>3
<1>7. ASSUME NEW p \in Threads, Lock(p)
      PROVE  LockInv'
  <2>1. \A t \in Threads : pc[t] \notin {"apply", "relock"}
    BY <1>7, ThreadsAssumption DEF Lock, LockInv
  <2> QED
    BY <1>7, <2>1 DEF Lock, LockInv, TypeOK
<1>8. ASSUME NEW p \in Threads, Apply(p)
      PROVE  LockInv'
  <2>1. writer = p
    BY <1>8 DEF Apply, MayApply, LockInv
  <2>2. \A t \in Threads : t # p => pc[t] \notin {"apply", "relock"}
    BY <2>1 DEF LockInv
  <2> QED
    BY <1>8, <2>2 DEF Apply, Release, LockInv, TypeOK, Rest
<1>9. ASSUME NEW p \in Threads, AskAgain(p)
      PROVE  LockInv'
  BY <1>1, <1>9 DEF AskAgain, Stages
<1>10. ASSUME NEW r \in Requests, ReadLock(r) \/ ReadUnlock(r)
       PROVE  LockInv'
  BY <1>10 DEF ReadLock, ReadUnlock, LockInv
<1>11. CASE UNCHANGED vars
  BY <1>11 DEF vars, LockInv
<1> QED
  BY <1>2, <1>3, <1>4, <1>5, <1>6, <1>7, <1>8, <1>9, <1>10, <1>11, <1>12
     DEF Next

LEMMA LockInit == Init => LockInv
BY DEF Init, LockInv

(* The write lock excludes the readers and the other threads.              *)
THEOREM LockDiscipline == Spec => []LockInv
BY LockInit, LockNext, TypeCorrect, PTL DEF Spec

LEMMA ReadersStep ==
  ASSUME LockInv, [Next]_vars, serving' # serving
  PROVE  readers \intersect readers' = {}
<1>1. PICK p \in Threads : Apply(p)
  BY OnlyApplyChanges
<1>2. writer = p /\ p # Nobody
  BY <1>1, ThreadsAssumption DEF Apply, MayApply, LockInv
<1> QED
  BY <1>2 DEF LockInv

(* A request sees one configuration while it holds the read lock.          *)
THEOREM OneVersionPerRead == Spec => ReadersSeeOneVersion
<1>1. LockInv /\ [Next]_vars => (readers \intersect readers' # {} => serving' = serving)
  BY ReadersStep
<1> QED
  BY <1>1, LockDiscipline, PTL DEF Spec, ReadersSeeOneVersion
=============================================================================
