---------------------------- MODULE ControlPlane ----------------------------
(***************************************************************************)
(* How a change of the configuration file reaches the shared state: the    *)
(* watcher thread with its event channel and debounce loop, the reload     *)
(* handlers of the admin API, load_and_apply, and the read-write lock they *)
(* share with the requests.  Every reload reads the file before it asks    *)
(* for the lock, so the file can change, and another reload can run, in    *)
(* between.  The first read is main's, and the watch is registered later, *)
(* in the thread it has spawned.                                           *)
(*                                                                         *)
(* The contents the file has had are numbered: 2n is its n-th version and  *)
(* 2n - 1 the same version half written.  What is in effect is the number  *)
(* of a content, or Torn once an incremental update has failed half way;   *)
(* GatewayState says how, and module Gateway puts the two together.        *)
(***************************************************************************)
EXTENDS Integers

CONSTANTS
  Watcher,        \* the watcher thread
  Admins,         \* the connections that may post /admin/reload
  Callers,        \* the threads that may call load_and_apply
  Requests,       \* the requests that may hold the read lock at a time
  Nobody,         \* no thread
  Accepted,       \* the contents that a reload may find good
  Refused,        \* the contents that a reload may refuse: with the outside world
                  \* a file depends on, the same one may be both
  Tearing,        \* the contents that may fail after validation
  HasLimiter,     \* the contents with a rate_limit section
  Torn,           \* what is in effect after an update stopped half way
  OpensReported,  \* the platform's watcher also reports that a file was opened
  MaxVersion,     \* bound: how many times the file is written
  MaxQueue        \* bound: queues count up to here, and the rest as one

Threads == {Watcher} \union Admins \union Callers
Content == 0 .. 2 * MaxVersion
Stages  == {"idle", "start", "recv", "settle", "load", "peek", "lock", "wait", "apply", "relock"}

ASSUME BoundsAssumption ==
  /\ MaxVersion \in Nat /\ MaxQueue \in Nat \ {0}
  /\ Accepted \union Refused = Content
  /\ Tearing \subseteq Refused /\ HasLimiter \subseteq Content
  /\ Torn \notin Content
  /\ OpensReported \in BOOLEAN
ASSUME ThreadsAssumption ==
  /\ Watcher \notin Admins \union Callers
  /\ Admins \intersect Callers = {}
  /\ Nobody \notin Threads

VARIABLES
  file,     \* the content of the configuration file
  kernel,   \* events of the watched directory not delivered yet
  queue,    \* events in the watcher's channel
  pc,       \* the place of each thread
  loaded,   \* the content a thread has read
  peeked,   \* the calls of load_and_apply that have seen a limiter in the old state
  serving,  \* the content in effect, or Torn
  writer,   \* the thread that holds the write lock, or Nobody
  readers,  \* the requests that hold the read lock
  early     \* history: the file was last written before the watch was registered

vars == <<file, kernel, queue, pc, loaded, peeked, serving, writer, readers, early>>
locks == <<writer, readers>>

Half(k) == k % 2 = 1

More(n) == IF n < MaxQueue THEN n + 1 ELSE n

\* The content that main has read is in effect, and nothing is watched yet.
Init ==
  /\ file = 0
  /\ kernel = 0
  /\ queue = 0
  /\ pc = [p \in Threads |-> IF p = Watcher THEN "start" ELSE "idle"]
  /\ loaded = [p \in Threads |-> 0]
  /\ peeked = {}
  /\ serving = 0
  /\ writer = Nobody
  /\ readers = {}
  /\ early = TRUE

-----------------------------------------------------------------------------
(* The file and the events about its directory.                            *)

\* What happens in the directory is an event once there is a watch.
Watched == pc[Watcher] # "start"

Notice == kernel' = IF Watched THEN More(kernel) ELSE kernel

\* The file is rewritten in place, in two steps, or replaced in one.
WriteFile ==
  /\ \/ file < 2 * MaxVersion /\ file' = file + 1
     \/ file < 2 * MaxVersion - 1 /\ ~Half(file) /\ file' = file + 2
  /\ Notice
  /\ early' = ~Watched
  /\ UNCHANGED <<queue, pc, loaded, peeked, serving, locks>>

OtherFile ==
  /\ Notice
  /\ UNCHANGED <<file, queue, pc, loaded, peeked, serving, locks, early>>

Deliver ==
  /\ kernel > 0
  /\ kernel' = kernel - 1
  /\ queue' = More(queue)
  /\ UNCHANGED <<file, pc, loaded, peeked, serving, locks, early>>

-----------------------------------------------------------------------------
(* The watcher thread.                                                     *)

\* The watch is registered.  The file is not read again on that account.
Watch ==
  /\ pc[Watcher] = "start"
  /\ pc' = [pc EXCEPT ![Watcher] = "recv"]
  /\ UNCHANGED <<file, kernel, queue, loaded, peeked, serving, locks, early>>

\* rx.recv() wakes up the thread.
Recv ==
  /\ pc[Watcher] = "recv"
  /\ queue > 0
  /\ queue' = queue - 1
  /\ pc' = [pc EXCEPT ![Watcher] = "settle"]
  /\ UNCHANGED <<file, kernel, loaded, peeked, serving, locks, early>>

\* Fault: the channel is not found empty.
SettleUnchecked ==
  /\ pc[Watcher] = "settle"
  /\ \/ queue' = queue - 1 /\ UNCHANGED pc
     \/ UNCHANGED queue /\ pc' = [pc EXCEPT ![Watcher] = "load"]
  /\ UNCHANGED <<file, kernel, loaded, peeked, serving, locks, early>>

\* Fault: an event during the wait ends it without a reload.
SettleGivesUp ==
  /\ pc[Watcher] = "settle"
  /\ \/ queue > 0 /\ queue' = queue - 1 /\ pc' = [pc EXCEPT ![Watcher] = "recv"]
     \/ queue = 0 /\ UNCHANGED queue /\ pc' = [pc EXCEPT ![Watcher] = "load"]
  /\ UNCHANGED <<file, kernel, loaded, peeked, serving, locks, early>>

\* After each sleep, one more event is taken, or the wait is over.
Settle ==
  /\ pc[Watcher] = "settle"
  /\ \/ queue > 0 /\ queue' = queue - 1 /\ UNCHANGED pc
     \/ queue = 0 /\ UNCHANGED queue /\ pc' = [pc EXCEPT ![Watcher] = "load"]
  /\ UNCHANGED <<file, kernel, loaded, peeked, serving, locks, early>>

-----------------------------------------------------------------------------
(* The steps of a reload, by thread p.                                     *)

\* Where a thread is when it does not reload.
Rest(p) == IF p = Watcher THEN "recv" ELSE "idle"

\* POST /admin/reload, or a call of load_and_apply.
Begin(p) ==
  /\ p # Watcher
  /\ pc[p] = "idle"
  /\ pc' = [pc EXCEPT ![p] = "load"]
  /\ UNCHANGED <<file, kernel, queue, loaded, peeked, serving, locks, early>>

\* Thread p reads the file, and goes on when it likes it.  Opening the file may
\* be an event of the directory.
Read(p, good) ==
  /\ pc[p] = "load"
  /\ loaded' = [loaded EXCEPT ![p] = file]
  /\ IF OpensReported THEN Notice ELSE UNCHANGED kernel
  /\ pc' = [pc EXCEPT ![p] = IF ~good THEN Rest(p) ELSE IF p \in Callers THEN "peek" ELSE "lock"]
  /\ UNCHANGED <<file, queue, peeked, serving, locks, early>>

\* reload_simple and load_and_apply build the new state here; reload_diff only
\* parses the file and looks for the upstreams its routes name.
Load(p) ==
  \/ file \in Refused /\ Read(p, FALSE)
  \/ (file \in Accepted \/ p = Watcher) /\ Read(p, TRUE)

\* load_and_apply looks, under the read lock, whether there is a limiter.
Peek(p) ==
  /\ p \in Callers /\ pc[p] = "peek"
  /\ writer = Nobody
  /\ \A t \in Threads : pc[t] # "wait"
  /\ \/ serving \in HasLimiter \union {Torn} /\ peeked' = peeked \union {p}
     \/ serving \notin HasLimiter /\ peeked' = peeked \ {p}
  /\ pc' = [pc EXCEPT ![p] = "lock"]
  /\ UNCHANGED <<file, kernel, queue, loaded, serving, locks, early>>

\* The thread calls write() and queues up.
AskLock(p) ==
  /\ pc[p] = "lock"
  /\ pc' = [pc EXCEPT ![p] = "wait"]
  /\ UNCHANGED <<file, kernel, queue, loaded, peeked, serving, locks, early>>

\* Fault: the state is replaced while requests read it.
LockBesideReaders(p) ==
  /\ pc[p] = "wait"
  /\ writer = Nobody
  /\ writer' = p
  /\ pc' = [pc EXCEPT ![p] = "apply"]
  /\ UNCHANGED <<file, kernel, queue, loaded, peeked, serving, readers, early>>

Lock(p) ==
  /\ pc[p] = "wait"
  /\ writer = Nobody /\ readers = {}
  /\ writer' = p
  /\ pc' = [pc EXCEPT ![p] = "apply"]
  /\ UNCHANGED <<file, kernel, queue, loaded, peeked, serving, readers, early>>

\* Fault: a full reload, too, starts from what is there.
ReplaceKeepsTorn(p) ==
  p # Watcher /\ serving' = IF serving = Torn THEN Torn ELSE loaded[p]

\* reload_simple and load_and_apply put the state they have built in place.
Replace(p) == p # Watcher /\ serving' = loaded[p]

\* Fault: an update that is refused goes back to the configuration of the start.
UpdateFallsBack(p) ==
  /\ p = Watcher
  /\ \/ serving # Torn /\ loaded[p] \in Accepted /\ serving' = loaded[p]
     \/ loaded[p] \in Refused /\ serving' = 0
     \/ loaded[p] \in Tearing /\ serving' = Torn
     \/ serving = Torn /\ UNCHANGED serving

\* reload_diff validates only now, under the lock.
Update(p) ==
  /\ p = Watcher
  /\ \/ serving # Torn /\ loaded[p] \in Accepted /\ serving' = loaded[p]
     \/ loaded[p] \in Refused /\ UNCHANGED serving
     \/ loaded[p] \in Tearing /\ serving' = Torn
     \/ serving = Torn /\ UNCHANGED serving

\* A thread that has the lock, and does not ask for it a second time.
MayApply(p) ==
  /\ pc[p] = "apply"
  /\ p \in peeked => loaded[p] \notin HasLimiter

\* Fault: events that came during the reload are thrown away.
ReleaseDrains(p) ==
  /\ queue' = 0
  /\ writer' = Nobody
  /\ pc' = [pc EXCEPT ![p] = Rest(p)]
  /\ UNCHANGED <<file, kernel, loaded, peeked, readers, early>>

\* The guard is dropped; the watcher waits for the next event.
Release(p) ==
  /\ writer' = Nobody
  /\ pc' = [pc EXCEPT ![p] = Rest(p)]
  /\ UNCHANGED <<file, kernel, queue, loaded, peeked, readers, early>>

Apply(p) == MayApply(p) /\ Release(p) /\ (Replace(p) \/ Update(p))

\* load_and_apply asks for the write lock again, with the first guard alive,
\* when the old state and the new one both have a limiter.  Nothing grants it.
AskAgain(p) ==
  /\ p \in Callers
  /\ pc[p] = "apply"
  /\ p \in peeked /\ loaded[p] \in HasLimiter
  /\ pc' = [pc EXCEPT ![p] = "relock"]
  /\ UNCHANGED <<file, kernel, queue, loaded, peeked, serving, locks, early>>

-----------------------------------------------------------------------------
(* The requests and the admin queries, as far as the lock is concerned.    *)

\* The lock lets no reader in while a writer holds it or waits for it.
ReadLock(r) ==
  /\ r \notin readers
  /\ writer = Nobody
  /\ \A p \in Threads : pc[p] # "wait"
  /\ readers' = readers \union {r}
  /\ UNCHANGED <<file, kernel, queue, pc, loaded, peeked, serving, writer, early>>

ReadUnlock(r) ==
  /\ r \in readers
  /\ readers' = readers \ {r}
  /\ UNCHANGED <<file, kernel, queue, pc, loaded, peeked, serving, writer, early>>

Next ==
  \/ WriteFile \/ OtherFile \/ Deliver
  \/ Watch \/ Recv \/ Settle
  \/ \E p \in Threads :
       Begin(p) \/ Load(p) \/ Peek(p) \/ AskLock(p) \/ Lock(p) \/ Apply(p) \/ AskAgain(p)
  \/ \E r \in Requests : ReadLock(r) \/ ReadUnlock(r)

\* Threads that can run do.  Between several threads that wait for the lock
\* any may be first, but none is passed over for ever.
Fairness ==
  /\ WF_vars(Deliver) /\ WF_vars(Watch) /\ WF_vars(Recv) /\ WF_vars(Settle)
  /\ \A p \in Threads :
       /\ WF_vars(Load(p)) /\ WF_vars(AskLock(p))
       /\ WF_vars(Apply(p)) /\ WF_vars(AskAgain(p))
       /\ SF_vars(Peek(p)) /\ SF_vars(Lock(p))
  /\ \A r \in Requests : WF_vars(ReadUnlock(r))

Spec == Init /\ [][Next]_vars /\ Fairness

-----------------------------------------------------------------------------
(* Properties.                                                             *)

\* Every variable holds a value of its type.
TypeOK ==
  /\ file \in Content /\ early \in BOOLEAN /\ serving \in Content \union {Torn}
  /\ kernel \in 0 .. MaxQueue /\ queue \in 0 .. MaxQueue
  /\ pc \in [Threads -> Stages]
  /\ loaded \in [Threads -> Content]
  /\ peeked \subseteq Callers
  /\ writer \in Threads \union {Nobody}
  /\ readers \subseteq Requests

\* No wake-up is lost: when the file has changed since the watch was registered
\* and is not what the watcher read last, an event is on its way or the thread is
\* going to read again.  The debounce loop may swallow events only before it reads.
NoLostWakeup ==
  ~early /\ loaded[Watcher] # file
    => kernel + queue > 0 \/ pc[Watcher] \in {"settle", "load"}

\* Reloading is documented to be automatic: while the watcher waits and no event
\* is on its way, the content of the file has been read.
WatchedFileIsRead ==
  pc[Watcher] = "recv" /\ kernel + queue = 0 => \E p \in Threads : loaded[p] = file

\* A request sees one configuration from its read lock to its unlock.
ReadersSeeOneVersion == [][readers \intersect readers' # {} => serving' = serving]_vars

\* When an older content replaces a newer one, one thread has read before, and
\* applies after, another.
OnlyIfOvertaken ==
  serving # Torn /\ serving' # Torn /\ serving' < serving =>
    \E p, q \in Threads :
      /\ pc[p] = "apply" /\ serving' = loaded[p]
      /\ loaded[p] < loaded[q] /\ serving <= loaded[q]

\* Nothing keeps a reload that has read an older content from being applied after
\* one that has read a newer: the gateway goes back to what the file was before,
\* but only so.  Where one thread reloads, or each reload ends before the next
\* reads the file, an older content never replaces a newer one, however often
\* updates are refused.
GoesBackOnlyIfOvertaken == [][OnlyIfOvertaken]_vars

\* What it rests on: no thread is ahead of the file, and some thread has read
\* what is in effect, or a later content.
ReadInv ==
  /\ \A p \in Threads : loaded[p] <= file
  /\ serving # Torn => \E q \in Threads : serving <= loaded[q]

\* What the lock guarantees, and makes ReadersSeeOneVersion inductive.
LockInv ==
  /\ writer # Nobody => readers = {}
  /\ \A p \in Threads : pc[p] \in {"apply", "relock"} => writer = p

Good == {k \in Content : ~Half(k) /\ k \notin Refused}

\* Nobody waits for a lock he holds: see NoSelfDeadlock.
Live == \A p \in Threads : pc[p] # "relock"

\* Without an end of events about other files the debounce loop may have none.
Quiet == <>[][~OtherFile]_vars

\* When the file is left alone in a good version, written after the watch was
\* registered, and no update fails half way any more, that version is in effect
\* for good in the end, whatever events about other files, half-written reads, other
\* reloads and requests came in between.
Converges ==
  Quiet => \A k \in Good :
    <>[](file = k /\ ~early /\ serving # Torn /\ Live) => <>[](serving = k)

\* After an update that failed half way, correcting the file is not enough, but
\* a full reload of the corrected file repairs it, and nothing that still comes
\* from the watcher tears it again.
FullReloadRepairs ==
  \A k \in Good :
    <>[](file = k /\ Live) /\ []<>(\E p \in Admins \union Callers : pc[p] = "load")
      => <>[](serving = k)

\* load_and_apply is documented as one of three ways to reload: it returns.  A
\* thread must not wait for a lock that it holds.
NoSelfDeadlock == \A p \in Threads : pc[p] = "relock" => writer # p
=============================================================================
