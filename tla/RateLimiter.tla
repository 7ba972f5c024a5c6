---------------------------- MODULE RateLimiter ----------------------------
(***************************************************************************)
(* One rate limiter (RateLimiter): token buckets by client address behind  *)
(* a mutex, and the two atomics of the policy.  A request takes a          *)
(* reference to the limiter under the read lock of the gateway's state and *)
(* checks after it has let the lock go; update_policy runs under the write *)
(* lock.  So an update can fall between the steps of checks that have      *)
(* begun, and a check that begins finds no update half done.  The stores   *)
(* and loads are relaxed: the two stores show up in either order.          *)
(*                                                                         *)
(* Time is counted in ticks.  Arithmetic on usize wraps at Word, as in a   *)
(* release build.  Which limiter is in effect is GatewayState's subject.   *)
(***************************************************************************)
EXTENDS Integers

CONSTANTS
  Ip,       \* the client addresses
  Thread,   \* the requests checked at a time
  Policies, \* the pairs the rate_limit section may have
  Nobody,   \* no thread
  None,     \* no bucket
  Second,   \* ticks in a second
  Word,     \* 2^64 in the code
  MaxTime   \* bound: the last tick

ASSUME BoundsAssumption ==
  Second \in Nat \ {0} /\ Word \in Nat \ {0} /\ MaxTime \in Nat

\* validate_rate_limit refuses zeros.
ASSUME PoliciesAssumption ==
  Policies \subseteq [capacity : 1 .. Word - 1, rate : 1 .. Word - 1]

Time   == 0 .. MaxTime
Atomic == {"capacity", "rate"}
Capacities == {p.capacity : p \in Policies}
Rates      == {p.rate : p \in Policies}

Bucket == [capacity : Capacities, tokens : Nat, rate : Rates, last : Time]

ASSUME NamesAssumption == Nobody \notin Thread /\ None \notin Bucket

\* History of an address: requests let through, tokens that found the bucket
\* full, seconds paid for and when its bucket was made; and, since the window
\* was opened, requests let through and seconds paid for from the first of them
\* on.
Book == [ granted : Nat, spilt : Nat, paid : Nat, born : Time,
          burst : Nat, burstPaid : Nat ]

VARIABLES
  atomics,   \* capacity and refill_rate, as a thread that loads them sees them
  target,    \* the policy last handed to update_policy, or to new
  unstored,  \* the stores of update_policy still to come
  buckets,   \* the buckets by address
  mutex,     \* the thread that holds the mutex on buckets, or Nobody
  pc,        \* the place of each request
  client,    \* the address of each request
  seen,      \* the capacity a request has loaded for a new bucket
  now,       \* the time
  book,      \* history, by address
  offered,   \* history: the policies in force since a request took its reference
  window     \* history: when the window was opened, or -1

policy  == <<atomics, target, unstored>>
threads == <<pc, client, seen, offered>>
vars    == <<atomics, target, unstored, buckets, mutex, pc, client, seen, now,
             book, offered, window>>

\* RateLimiter::new
Init ==
  /\ target \in Policies
  /\ atomics = target
  /\ unstored = {}
  /\ buckets = [i \in Ip |-> None]
  /\ mutex = Nobody
  /\ pc = [t \in Thread |-> "idle"]
  /\ client \in [Thread -> Ip]
  /\ seen = [t \in Thread |-> 0]
  /\ now = 0
  /\ book = [i \in Ip |-> [granted |-> 0, spilt |-> 0, paid |-> 0, born |-> 0,
                           burst |-> 0, burstPaid |-> 0]]
  /\ offered = [t \in Thread |-> {}]
  /\ window = -1

Tick ==
  /\ now < MaxTime
  /\ now' = now + 1
  /\ UNCHANGED <<policy, buckets, mutex, threads, book, window>>

\* Any moment may be taken as the start of a window.
OpenWindow ==
  /\ window = -1
  /\ window' = now
  /\ UNCHANGED <<policy, buckets, mutex, threads, now, book>>

-----------------------------------------------------------------------------
(* update_policy, called with the write lock held.                         *)

UpdatePolicy(p) ==
  /\ unstored = {}
  /\ p # target
  /\ target' = p
  /\ unstored' = Atomic
  /\ offered' = [t \in Thread |-> IF pc[t] = "idle" THEN {} ELSE offered[t] \union {p}]
  /\ UNCHANGED <<atomics, buckets, mutex, pc, client, seen, now, book, window>>

\* Fault: only the capacity is stored.
StoreOne(a) ==
  /\ a \in unstored
  /\ unstored' = {}
  /\ atomics' = [atomics EXCEPT !["capacity"] = target["capacity"]]
  /\ UNCHANGED <<target, buckets, mutex, threads, now, book, window>>

Store(a) ==
  /\ a \in unstored
  /\ unstored' = unstored \ {a}
  /\ atomics' = [atomics EXCEPT ![a] = target[a]]
  /\ UNCHANGED <<target, buckets, mutex, threads, now, book, window>>

-----------------------------------------------------------------------------
(* A request that passes the filter: check.                                *)

\* The filter takes its reference under the read lock.
Enter(t, i) ==
  /\ pc[t] = "idle"
  /\ unstored = {}
  /\ pc' = [pc EXCEPT ![t] = "lock"]
  /\ client' = [client EXCEPT ![t] = i]
  /\ offered' = [offered EXCEPT ![t] = {target}]
  /\ UNCHANGED <<policy, buckets, mutex, seen, now, book, window>>

\* Fault: the map is not locked.
LockFree(t) ==
  /\ pc[t] = "lock"
  /\ mutex' = t
  /\ pc' = [pc EXCEPT ![t] = IF buckets[client[t]] = None THEN "capacity" ELSE "try"]
  /\ UNCHANGED <<policy, buckets, client, seen, offered, now, book, window>>

Lock(t) ==
  /\ pc[t] = "lock"
  /\ mutex = Nobody
  /\ mutex' = t
  /\ pc' = [pc EXCEPT ![t] = IF buckets[client[t]] = None THEN "capacity" ELSE "try"]
  /\ UNCHANGED <<policy, buckets, client, seen, offered, now, book, window>>

LoadCapacity(t) ==
  /\ pc[t] = "capacity"
  /\ seen' = [seen EXCEPT ![t] = atomics["capacity"]]
  /\ pc' = [pc EXCEPT ![t] = "rate"]
  /\ UNCHANGED <<policy, buckets, mutex, client, offered, now, book, window>>

\* TokenBucket::new: the bucket is full, and made now.
NewBucket(c, r) == [capacity |-> c, tokens |-> c, rate |-> r, last |-> now]

LoadRate(t) ==
  /\ pc[t] = "rate"
  /\ buckets' = [buckets EXCEPT ![client[t]] = NewBucket(seen[t], atomics["rate"])]
  /\ pc' = [pc EXCEPT ![t] = "try"]
  /\ book' = [book EXCEPT ![client[t]].born = now]
  /\ UNCHANGED <<policy, mutex, client, seen, offered, now, window>>

Elapsed(b) == (now - b.last) \div Second

Least(m, n) == IF m <= n THEN m ELSE n

\* calculate_refill_tokens: both operations wrap.
RefillTokens(elapsed, b) ==
  Least((b.tokens + ((elapsed * b.rate) % Word)) % Word, b.capacity)

\* Fault: each check restarts the clock.
RefilledAlways(b) ==
  [b EXCEPT !.tokens = IF Elapsed(b) > 0 THEN RefillTokens(Elapsed(b), b) ELSE @,
            !.last = now]

Refilled(b) ==
  IF Elapsed(b) > 0 THEN [b EXCEPT !.tokens = RefillTokens(Elapsed(b), b), !.last = now] ELSE b

\* try_acquire_decision
Allowed(b) == b.tokens > 0

\* Fault: a token is taken though there is none.
TakenUnguarded(b) == [b EXCEPT !.tokens = @ - 1]

Taken(b)   == [b EXCEPT !.tokens = IF Allowed(b) THEN @ - 1 ELSE @]

\* The tokens a refill of b has no room for.
Excess(b) ==
  LET due == b.tokens + Elapsed(b) * b.rate
  IN  IF due > b.capacity THEN due - b.capacity ELSE 0

One(b) == IF Allowed(b) THEN 1 ELSE 0

\* The history after a check of bucket b that refills it to r.
Booked(h, b, r) ==
  [h EXCEPT
     !.granted   = @ + One(r),
     !.spilt     = @ + Excess(b),
     !.paid      = @ + Elapsed(b),
     !.burst     = IF window = -1 THEN 0 ELSE @ + One(r),
     !.burstPaid = IF h.burst = 0 THEN 0 ELSE @ + Elapsed(b)]

\* try_acquire, the reply, and the release of the mutex.
Try(t) ==
  LET i == client[t]
      b == buckets[i]
      r == Refilled(b)
  IN /\ pc[t] = "try"
     /\ buckets' = [buckets EXCEPT ![i] = Taken(r)]
     /\ book' = [book EXCEPT ![i] = Booked(@, b, r)]
     /\ mutex' = Nobody
     /\ pc' = [pc EXCEPT ![t] = "idle"]
     /\ offered' = [offered EXCEPT ![t] = {}]
     /\ UNCHANGED <<policy, client, seen, now, window>>

Next ==
  \/ Tick \/ OpenWindow
  \/ \E p \in Policies : UpdatePolicy(p)
  \/ \E a \in Atomic : Store(a)
  \/ \E t \in Thread :
       \/ \E i \in Ip : Enter(t, i)
       \/ Lock(t) \/ LoadCapacity(t) \/ LoadRate(t) \/ Try(t)

Spec == Init /\ [][Next]_vars

-----------------------------------------------------------------------------
(* Properties.                                                             *)

\* Every variable holds a value of its type.
TypeOK ==
  /\ atomics \in [capacity : Capacities, rate : Rates]
  /\ target \in Policies
  /\ unstored \subseteq Atomic
  /\ buckets \in [Ip -> Bucket \union {None}]
  /\ mutex \in Thread \union {Nobody}
  /\ pc \in [Thread -> {"idle", "lock", "capacity", "rate", "try"}]
  /\ client \in [Thread -> Ip]
  /\ seen \in [Thread -> Capacities \union {0}]
  /\ now \in Time
  /\ book \in [Ip -> Book]
  /\ offered \in [Thread -> SUBSET Policies]
  /\ window \in Time \union {-1}

Open == {i \in Ip : buckets[i] # None}

\* In any window of time an address gets at most its capacity, and its rate
\* for each second of the window and one more: whatever requests of the same
\* address run at once, whatever updates fall among them, and however the
\* arithmetic wraps.
BurstBound ==
  window # -1 =>
    \A i \in Open :
      book[i].burst <= buckets[i].capacity + buckets[i].rate * ((now - window) \div Second + 1)

\* In this step thread t makes the bucket of its address.
Makes(t) == pc[t] = "rate" /\ pc'[t] = "try"

\* A bucket that is made has the capacity of a policy, and the rate of a policy,
\* that was in force while its request was on the way: a policy that had gone
\* when the request took its reference gives it nothing, though the two numbers
\* are written one at a time.  If no update came in between, both are of the
\* one policy; if one came, the code may pair the old capacity with the new
\* rate, or the other way round, but no third number gets in.
BucketsFollowPolicy ==
  [][\A t \in Thread : Makes(t) =>
       /\ \E p \in offered[t] : buckets'[client[t]].capacity = p.capacity
       /\ \E p \in offered[t] : buckets'[client[t]].rate = p.rate]_vars

\* The meters that the buckets stand for: a level is the tokens that are gone.
MeterOf(b) ==
  [size |-> b.capacity, drain |-> b.rate, level |-> b.capacity - b.tokens, since |-> b.last]

Meters == INSTANCE LeakyMeter WITH
  Sizes <- Capacities, Drains <- Rates,
  meters <- [i \in Open |-> MeterOf(buckets[i])],
  admitted <- [i \in Ip |-> book[i].granted]

\* Checks that wait for each other, and updates that come in two stores, come
\* to answers given at once, one after the other: no request sees another's
\* check half done, no bucket is made twice or changes its numbers, and each
\* answer depends on the level and the time alone.  This needs NoWrap.
ActsAsMeter == Meters!Spec

\* No operation on usize wraps before MaxTime.
NoWrap ==
  \A p, q \in Policies : p.capacity + (MaxTime \div Second) * q.rate < Word

\* The inductive invariant behind the theorems of RateLimiter_proofs: the mutex
\* and the stages of a check,
Holds(t) == pc[t] \in {"capacity", "rate", "try"}

MutexInv ==
  \A t \in Thread :
    /\ Holds(t) => mutex = t
    /\ pc[t] \in {"capacity", "rate"} => buckets[client[t]] = None
    /\ pc[t] = "try" => buckets[client[t]] # None

\* what a request may load: each number is of a policy it was offered,
PolicyInv ==
  /\ \A a \in Atomic \ unstored : atomics[a] = target[a]
  /\ \A t \in Thread :
       /\ pc[t] # "idle" => /\ target \in offered[t]
                            /\ \A a \in Atomic : \E p \in offered[t] : atomics[a] = p[a]
       /\ pc[t] = "rate" => \E p \in offered[t] : seen[t] = p["capacity"]

\* and the books of an address with bucket b and history h at time n, when the
\* window was opened at w: no token comes from nowhere, ...
Balanced(b, h) == h.granted + b.tokens + h.spilt = b.capacity + h.paid * b.rate

\* ... less than half of the time goes unpaid, ...
HalfPaid(b, h) == h.born <= b.last /\ b.last - h.born <= 2 * Second * h.paid

\* ... and what the window has seen is covered by what it paid for.
Covered(b, h, w) ==
  /\ w = -1 => h.burst = 0
  /\ h.burst = 0 => h.burstPaid = 0
  /\ h.burst + b.tokens <= b.capacity + h.burstPaid * b.rate
  /\ h.burst > 0 => h.burstPaid * Second <= b.last - w + Second - 1

Sound(b, h, n, w) ==
  /\ b.tokens <= b.capacity
  /\ b.last <= n
  /\ NoWrap => Balanced(b, h)
  /\ HalfPaid(b, h) /\ Covered(b, h, w)

Blank(h) == h.granted = 0 /\ h.spilt = 0 /\ h.paid = 0 /\ h.burst = 0 /\ h.burstPaid = 0

BooksInv ==
  /\ window <= now
  /\ \A i \in Ip : IF buckets[i] = None THEN Blank(book[i])
                    ELSE Sound(buckets[i], book[i], now, window)

IInv == TypeOK /\ MutexInv /\ PolicyInv /\ BooksInv

\* In this step thread t's request is refused.
Denies(t) == pc[t] = "try" /\ pc'[t] = "idle" /\ book'[client[t]].granted = book[client[t]].granted

HalfSpent(b, h, n) ==
  2 * Second * ((h.granted + h.spilt) - b.capacity) >= b.rate * (n - h.born - Second)

\* An address is refused only when it has spent its capacity and at least half
\* of what its rate comes to since its first request, apart from the last
\* second; tokens that found the bucket full count as spent.  This needs NoWrap.
DenialJustified ==
  [][\A t \in Thread :
       Denies(t) => HalfSpent(buckets[client[t]], book'[client[t]], now)]_vars
=============================================================================
