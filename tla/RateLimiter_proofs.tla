-------------------------- MODULE RateLimiter_proofs --------------------------
(***************************************************************************)
(* Proofs about RateLimiter, for any number of addresses, requests and     *)
(* policies and any MaxTime.                                               *)
(***************************************************************************)
EXTENDS RateLimiter, TLAPS

(***************************************************************************)
(* Arithmetic.                                                             *)
(***************************************************************************)

LEMMA Division ==
  ASSUME NEW a \in Nat, NEW s \in Nat \ {0}
  PROVE  /\ a \div s \in Nat
         /\ (a \div s) * s <= a
         /\ a < (a \div s + 1) * s
  OBVIOUS

LEMMA Remainder ==
  ASSUME NEW a \in Nat, NEW s \in Nat \ {0}
  PROVE  a % s \in Nat /\ a % s < s /\ a % s <= a
  OBVIOUS

LEMMA SmallRemainder ==
  ASSUME NEW a \in Nat, NEW s \in Nat \ {0}, a < s
  PROVE  a % s = a
  OBVIOUS

LEMMA MoreTimes ==
  ASSUME NEW m \in Nat, NEW n \in Nat, NEW k \in Nat, m <= n
  PROVE  m * k \in Nat /\ m * k <= n * k
  OBVIOUS

LEMMA QuotientGrows ==
  ASSUME NEW a \in Nat, NEW b \in Nat, NEW s \in Nat \ {0}, a <= b
  PROVE  a \div s <= b \div s
  OBVIOUS

LEMMA Distributes ==
  ASSUME NEW m \in Int, NEW n \in Int, NEW k \in Int
  PROVE  (m + n) * k = m * k + n * k
  OBVIOUS

LEMMA SumsOrdered ==
  ASSUME NEW x \in Int, NEW t \in Int, NEW u \in Int,
         NEW c \in Int, NEW p \in Int, NEW q \in Int,
         x + t <= c + p, u <= t + q
  PROVE  x + u <= c + (p + q)
  OBVIOUS

(***************************************************************************)
(* One check of one bucket.                                                *)
(***************************************************************************)

LEMMA PolicyNumbers ==
  /\ Capacities \subseteq Nat \ {0} /\ Rates \subseteq Nat \ {0}
  /\ \A c \in Capacities : c < Word
BY PoliciesAssumption, BoundsAssumption DEF Capacities, Rates

LEMMA CapacitiesPositive == \A c \in Capacities : c > 0
BY PolicyNumbers

LEMMA TimeNumbers == \A n \in Time : n \in Nat /\ n <= MaxTime
BY BoundsAssumption DEF Time

LEMMA BucketFields ==
  ASSUME NEW b \in Bucket
  PROVE  /\ b.capacity \in Capacities /\ b.rate \in Rates /\ b.last \in Time
         /\ b.tokens \in Nat /\ b.last \in Nat
         /\ b.capacity \in Nat \ {0} /\ b.rate \in Nat \ {0}
<1>1. /\ b.capacity \in Capacities /\ b.rate \in Rates /\ b.last \in Time
      /\ b.tokens \in Nat
  BY DEF Bucket
<1> QED BY <1>1, PolicyNumbers, TimeNumbers

\* What a refill does to a bucket, wrapping or not.
LEMMA Refilling ==
  ASSUME NEW b \in Bucket, now \in Time, b.last <= now, b.tokens <= b.capacity
  PROVE  /\ Elapsed(b) \in Nat
         /\ Refilled(b) \in Bucket
         /\ Refilled(b).capacity = b.capacity /\ Refilled(b).rate = b.rate
         /\ Refilled(b).tokens <= b.capacity
         /\ Refilled(b).tokens <= b.tokens + Elapsed(b) * b.rate
         /\ b.last <= Refilled(b).last /\ Refilled(b).last <= now
         /\ now - Refilled(b).last < Second
         /\ Elapsed(b) * Second <= Refilled(b).last - b.last
         /\ Refilled(b).last - b.last <= 2 * Second * Elapsed(b)
<1> DEFINE e == Elapsed(b)
<1> DEFINE sum == b.tokens + ((e * b.rate) % Word)
<1>1. /\ b.tokens \in Nat /\ b.last \in Nat /\ now \in Nat
      /\ b.capacity \in Nat \ {0} /\ b.rate \in Nat \ {0}
      /\ Second \in Nat \ {0} /\ Word \in Nat \ {0}
  BY BucketFields, TimeNumbers, BoundsAssumption
<1>2. e \in Nat /\ e * Second <= now - b.last /\ now - b.last < (e + 1) * Second
  <2>1. now - b.last \in Nat
    BY <1>1
  <2> QED BY <1>1, <2>1, Division DEF Elapsed
<1>3. e * b.rate \in Nat /\ e * Second \in Nat /\ 2 * Second * e = 2 * (e * Second)
  BY <1>1, <1>2
<1>4. (e * b.rate) % Word \in Nat /\ (e * b.rate) % Word <= e * b.rate
  BY <1>1, <1>3, Remainder
<1>5. sum % Word \in Nat /\ sum % Word <= sum
  BY <1>1, <1>4, Remainder
<1>6. CASE e > 0
  <2>1. Refilled(b) = [b EXCEPT !.tokens = RefillTokens(e, b), !.last = now]
    BY <1>6 DEF Refilled
  <2>2. /\ RefillTokens(e, b) \in Nat
        /\ RefillTokens(e, b) <= b.capacity
        /\ RefillTokens(e, b) <= b.tokens + e * b.rate
    BY <1>1, <1>3, <1>4, <1>5 DEF RefillTokens, Least
  <2>3. Second <= e * Second
    BY <1>1, <1>2, <1>6
  <2>4. now - b.last <= 2 * (e * Second)
    <3>1. (e + 1) * Second = e * Second + Second
      BY <1>1, <1>2, Distributes
    <3> QED BY <3>1, <2>3, <1>1, <1>2, <1>3
  <2>5. /\ Refilled(b) \in Bucket
        /\ Refilled(b).capacity = b.capacity /\ Refilled(b).rate = b.rate
        /\ Refilled(b).tokens = RefillTokens(e, b) /\ Refilled(b).last = now
    BY <2>1, <2>2 DEF Bucket
  <2> HIDE DEF e
  <2> QED BY <2>2, <2>4, <2>5, <1>1, <1>2, <1>3 DEF e
<1>7. CASE e = 0
  <2>1. Refilled(b) = b
    BY <1>7 DEF Refilled
  <2>2. e * Second = 0 /\ e * b.rate = 0 /\ 2 * Second * e = 0 /\ now - b.last < Second
    BY <1>7, <1>1, <1>2
  <2>3. Elapsed(b) = e
    OBVIOUS
  <2> HIDE DEF e
  <2> QED BY <2>1, <2>2, <2>3, <1>1, <1>2
<1> QED BY <1>2, <1>6, <1>7

\* Without wrapping, a refill gives exactly what is due and fits.
LEMMA RefillingExactly ==
  ASSUME NoWrap, NEW b \in Bucket, now \in Time, b.last <= now, b.tokens <= b.capacity
  PROVE  /\ Excess(b) \in Nat
         /\ Refilled(b).tokens + Excess(b) = b.tokens + Elapsed(b) * b.rate
<1> DEFINE e == Elapsed(b)
<1>1. /\ b.tokens \in Nat /\ b.last \in Nat /\ now \in Nat /\ now <= MaxTime
      /\ b.capacity \in Nat \ {0} /\ b.rate \in Nat \ {0}
      /\ Second \in Nat \ {0} /\ Word \in Nat \ {0} /\ MaxTime \in Nat
  BY BucketFields, TimeNumbers, BoundsAssumption
<1>2. e \in Nat /\ e <= MaxTime \div Second /\ MaxTime \div Second \in Nat
  <2>1. now - b.last \in Nat /\ now - b.last <= MaxTime
    BY <1>1
  <2> QED BY <1>1, <2>1, Division, QuotientGrows DEF Elapsed
<1>3. e * b.rate \in Nat /\ e * b.rate <= (MaxTime \div Second) * b.rate
  BY <1>1, <1>2, MoreTimes
<1>4. b.capacity + (MaxTime \div Second) * b.rate < Word
  BY PoliciesAssumption DEF NoWrap, Bucket, Capacities, Rates
<1>5. b.tokens + e * b.rate < Word /\ e * b.rate < Word
  BY <1>1, <1>2, <1>3, <1>4
<1>6. RefillTokens(e, b) = Least(b.tokens + e * b.rate, b.capacity)
  <2>1. (e * b.rate) % Word = e * b.rate
    BY <1>1, <1>3, <1>5, SmallRemainder
  <2>2. b.tokens + e * b.rate \in Nat
    BY <1>1, <1>3
  <2>3. (b.tokens + e * b.rate) % Word = b.tokens + e * b.rate
    BY <1>1, <1>5, <2>2, SmallRemainder
  <2> QED BY <2>1, <2>3 DEF RefillTokens
<1>7. e = 0 => e * b.rate = 0
  BY <1>1
<1> QED BY <1>1, <1>2, <1>3, <1>6, <1>7 DEF Refilled, Least, Excess, Bucket

\* A check keeps the books of its address sound.
LEMMA CheckKeepsSound ==
  ASSUME now \in Time, window \in Time \union {-1}, window <= now,
         NEW b \in Bucket, NEW h \in Book, Sound(b, h, now, window)
  PROVE  /\ Taken(Refilled(b)) \in Bucket
         /\ Booked(h, b, Refilled(b)) \in Book
         /\ Sound(Taken(Refilled(b)), Booked(h, b, Refilled(b)), now, window)
<1> DEFINE e == Elapsed(b)
           r == Refilled(b)
           k == Taken(r)
           g == Booked(h, b, r)
<1>1. /\ b.tokens \in Nat /\ b.last \in Nat /\ now \in Nat
      /\ b.capacity \in Nat \ {0} /\ b.rate \in Nat \ {0}
      /\ Second \in Nat \ {0} /\ window \in Int
      /\ b.tokens <= b.capacity /\ b.last <= now
  BY BucketFields, TimeNumbers, BoundsAssumption DEF Sound
<1>2. /\ e \in Nat /\ r \in Bucket
      /\ r.capacity = b.capacity /\ r.rate = b.rate
      /\ r.tokens <= b.capacity /\ r.tokens <= b.tokens + e * b.rate
      /\ b.last <= r.last /\ r.last <= now /\ now - r.last < Second
      /\ e * Second <= r.last - b.last /\ r.last - b.last <= 2 * Second * e
  BY <1>1, Refilling
<1>3. r.tokens \in Nat /\ r.last \in Nat
  BY <1>2 DEF Bucket, Time
<1>4. One(r) \in {0, 1} /\ k.tokens \in Nat /\ k.tokens + One(r) = r.tokens
  BY <1>2, <1>3 DEF One, Taken, Allowed, Bucket
<1>5. k \in Bucket /\ k.capacity = b.capacity /\ k.rate = b.rate /\ k.last = r.last
  BY <1>2, <1>4 DEF Taken, Bucket
<1>6. e * b.rate \in Nat /\ e * Second \in Nat
  BY <1>1, <1>2
<1>7. Excess(b) \in Nat
  BY <1>1, <1>6 DEF Excess
<1>8. /\ h.granted \in Nat /\ h.spilt \in Nat /\ h.paid \in Nat /\ h.born \in Nat
      /\ h.burst \in Nat /\ h.burstPaid \in Nat
  BY DEF Book, Time
<1>9. /\ g.granted = h.granted + One(r)
      /\ g.spilt = h.spilt + Excess(b)
      /\ g.paid = h.paid + e
      /\ g.born = h.born
      /\ g.burst = IF window = -1 THEN 0 ELSE h.burst + One(r)
      /\ g.burstPaid = IF h.burst = 0 THEN 0 ELSE h.burstPaid + e
  BY DEF Booked, Book
<1>10. g \in Book
  <2>1. /\ h.granted + One(r) \in Nat /\ h.spilt + Excess(b) \in Nat
        /\ h.paid + e \in Nat
        /\ (IF window = -1 THEN 0 ELSE h.burst + One(r)) \in Nat
        /\ (IF h.burst = 0 THEN 0 ELSE h.burstPaid + e) \in Nat
    BY <1>2, <1>4, <1>7, <1>8
  <2> QED BY <2>1 DEF Booked, Book
<1>11. NoWrap => Balanced(k, g)
  <2> SUFFICES ASSUME NoWrap PROVE Balanced(k, g)
    OBVIOUS
  <2>1. r.tokens + Excess(b) = b.tokens + e * b.rate
    BY <1>1, RefillingExactly
  <2>2. h.granted + b.tokens + h.spilt = b.capacity + h.paid * b.rate
    BY DEF Sound, Balanced
  <2>3. (h.paid + e) * b.rate = h.paid * b.rate + e * b.rate /\ h.paid * b.rate \in Nat
    BY <1>1, <1>2, <1>8, Distributes
  <2> QED BY <2>1, <2>2, <2>3, <1>1, <1>3, <1>4, <1>5, <1>6, <1>7, <1>8, <1>9 DEF Balanced
<1>12. HalfPaid(k, g)
  <2>1. h.born <= b.last /\ b.last - h.born <= 2 * Second * h.paid
    BY DEF Sound, HalfPaid
  <2>2. 2 * Second * (h.paid + e) = 2 * Second * h.paid + 2 * Second * e
    BY <1>1, <1>2, <1>8
  <2>3. 2 * Second * h.paid \in Nat /\ 2 * Second * e \in Nat
    BY <1>1, <1>2, <1>8
  <2> QED BY <2>1, <2>2, <2>3, <1>1, <1>2, <1>3, <1>5, <1>8, <1>9 DEF HalfPaid
<1>13. Covered(k, g, window)
  <2>1. /\ window = -1 => h.burst = 0
        /\ h.burst = 0 => h.burstPaid = 0
        /\ h.burst + b.tokens <= b.capacity + h.burstPaid * b.rate
        /\ h.burst > 0 => h.burstPaid * Second <= b.last - window + Second - 1
    BY DEF Sound, Covered
  <2>2. CASE h.burst = 0
    <3>1. g.burst \in {0, 1} /\ g.burstPaid = 0 /\ g.burst <= One(r)
      BY <2>2, <1>4, <1>9
    <3>2. g.burst + k.tokens <= k.capacity + g.burstPaid * k.rate
      BY <3>1, <1>1, <1>2, <1>3, <1>4, <1>5
    <3>3. g.burstPaid * Second <= k.last - window + Second - 1
      BY <3>1, <1>1, <1>2, <1>3, <1>5
    <3> QED BY <3>1, <3>2, <3>3, <1>9 DEF Covered
  <2>3. CASE h.burst # 0
    <3>1. g.burst = h.burst + One(r) /\ g.burstPaid = h.burstPaid + e /\ window # -1
      BY <2>1, <2>3, <1>9
    <3>2. /\ (h.burstPaid + e) * b.rate = h.burstPaid * b.rate + e * b.rate
          /\ (h.burstPaid + e) * Second = h.burstPaid * Second + e * Second
          /\ h.burstPaid * b.rate \in Nat /\ h.burstPaid * Second \in Nat
      BY <1>1, <1>2, <1>8, Distributes
    <3>3. g.burst + k.tokens <= k.capacity + g.burstPaid * k.rate
      <4>1. g.burst + k.tokens = h.burst + r.tokens
        BY <3>1, <1>3, <1>4, <1>8
      <4>2. k.capacity + g.burstPaid * k.rate
              = b.capacity + (h.burstPaid * b.rate + e * b.rate)
        BY <3>1, <3>2, <1>5
      <4>3. h.burst + r.tokens <= b.capacity + (h.burstPaid * b.rate + e * b.rate)
        BY <2>1, <3>2, <1>1, <1>2, <1>3, <1>6, <1>8, SumsOrdered
      <4> QED BY <4>1, <4>2, <4>3
    <3>4. g.burstPaid * Second <= k.last - window + Second - 1
      BY <2>1, <2>3, <3>1, <3>2, <1>1, <1>2, <1>3, <1>5, <1>6, <1>8
    <3> QED BY <2>3, <3>1, <3>3, <3>4, <1>4, <1>8 DEF Covered
  <2> QED BY <2>2, <2>3
<1> QED
  BY <1>1, <1>2, <1>3, <1>4, <1>5, <1>10, <1>11, <1>12, <1>13 DEF Sound

(***************************************************************************)
(* The inductive invariant.                                                *)
(***************************************************************************)

\* A bucket made now is full, and its books are blank.
LEMMA NewBucketIsSound ==
  ASSUME now \in Time, window \in Time \union {-1}, window <= now,
         NEW c \in Capacities, NEW r \in Rates, NEW h \in Book, Blank(h)
  PROVE  /\ NewBucket(c, r) \in Bucket
         /\ [h EXCEPT !.born = now] \in Book
         /\ Sound(NewBucket(c, r), [h EXCEPT !.born = now], now, window)
<1> DEFINE b == NewBucket(c, r)
           g == [h EXCEPT !.born = now]
<1>1. c \in Nat /\ r \in Nat /\ now \in Nat /\ Second \in Nat
  BY PolicyNumbers, TimeNumbers, BoundsAssumption
<1>2. /\ b \in Bucket /\ b.capacity = c /\ b.tokens = c /\ b.rate = r /\ b.last = now
  BY <1>1 DEF NewBucket, Bucket
<1>3. g \in Book
  BY DEF Book
<1>4. /\ g.granted = 0 /\ g.spilt = 0 /\ g.paid = 0 /\ g.born = now
      /\ g.burst = 0 /\ g.burstPaid = 0
  BY DEF Book, Blank
<1>5. 0 * r = 0 /\ 2 * Second * 0 = 0
  BY <1>1
<1> HIDE DEF b, g
<1>6. Balanced(b, g) /\ HalfPaid(b, g) /\ Covered(b, g, window)
  BY <1>1, <1>2, <1>4, <1>5 DEF Balanced, HalfPaid, Covered
<1> QED BY <1>1, <1>2, <1>3, <1>6 DEF Sound, b, g

\* Neither the passing of time nor the opening of a window disturbs the books.
LEMMA TimePasses ==
  ASSUME now \in Time, NEW w \in Int, NEW b \in Bucket, NEW h, Sound(b, h, now, w)
  PROVE  Sound(b, h, now + 1, w)
<1>1. b.last \in Nat /\ now \in Nat
  BY BucketFields, TimeNumbers
<1> QED BY <1>1 DEF Sound

LEMMA WindowOpens ==
  ASSUME now \in Time, NEW b \in Bucket, NEW h \in Book, Sound(b, h, now, -1)
  PROVE  Sound(b, h, now, now)
<1>1. h.burst = 0 /\ now \in Nat
  BY TimeNumbers DEF Sound, Covered
<1> QED BY <1>1 DEF Sound, Covered

LEMMA InitInv == Init => IInv
<1> SUFFICES ASSUME Init PROVE IInv
  OBVIOUS
<1> USE DEF Init
<1>1. TypeOK
  <2>1. target.capacity \in Capacities /\ target.rate \in Rates
    BY DEF Capacities, Rates
  <2>2. atomics \in [capacity : Capacities, rate : Rates]
    BY <2>1, PoliciesAssumption
  <2>3. 0 \in Time /\ book \in [Ip -> Book]
    BY BoundsAssumption DEF Time, Book
  <2> QED BY <2>2, <2>3 DEF TypeOK
<1>2. MutexInv /\ PolicyInv
  BY DEF MutexInv, PolicyInv, Holds
<1>3. BooksInv
  BY DEF BooksInv, Blank
<1> QED BY <1>1, <1>2, <1>3 DEF IInv

\* What a request with the mutex finds, by its place.
LEMMA AtLoadRate ==
  ASSUME IInv, NEW t \in Thread, LoadRate(t)
  PROVE  /\ seen[t] \in Capacities /\ atomics["rate"] \in Rates
         /\ client[t] \in Ip /\ Blank(book[client[t]])
         /\ NewBucket(seen[t], atomics["rate"]) \in Bucket
         /\ NewBucket(seen[t], atomics["rate"]) # None
         /\ [book[client[t]] EXCEPT !.born = now] \in Book
         /\ Sound(NewBucket(seen[t], atomics["rate"]),
                  [book[client[t]] EXCEPT !.born = now], now, window)
<1>1. pc[t] = "rate" /\ client[t] \in Ip /\ buckets[client[t]] = None
  BY DEF LoadRate, IInv, TypeOK, MutexInv
<1>2. seen[t] \in Capacities
  <2>1. PICK p \in offered[t] : seen[t] = p["capacity"]
    BY <1>1 DEF IInv, PolicyInv
  <2>2. p \in Policies
    BY DEF IInv, TypeOK
  <2> QED BY <2>1, <2>2 DEF Capacities
<1>3. atomics["rate"] \in Rates /\ book[client[t]] \in Book
  BY <1>1 DEF IInv, TypeOK
<1>4. Blank(book[client[t]]) /\ window <= now
  BY <1>1 DEF IInv, BooksInv
<1>5. now \in Time /\ window \in Time \union {-1}
  BY DEF IInv, TypeOK
<1>6. \A b \in Bucket : b # None
  BY NamesAssumption
<1> QED BY <1>1, <1>2, <1>3, <1>4, <1>5, <1>6, NewBucketIsSound

LEMMA AtTry ==
  ASSUME IInv, NEW t \in Thread, Try(t), NEW b, b = buckets[client[t]]
  PROVE  /\ client[t] \in Ip /\ b \in Bucket /\ book[client[t]] \in Book
         /\ now \in Time /\ window \in Time \union {-1} /\ window <= now
         /\ Sound(b, book[client[t]], now, window)
         /\ Taken(Refilled(b)) \in Bucket
         /\ Booked(book[client[t]], b, Refilled(b)) \in Book
         /\ Sound(Taken(Refilled(b)), Booked(book[client[t]], b, Refilled(b)), now, window)
<1>1. client[t] \in Ip /\ b # None /\ book[client[t]] \in Book
  BY DEF Try, IInv, TypeOK, MutexInv
<1>2. b \in Bucket /\ now \in Time /\ window \in Time \union {-1}
  BY <1>1 DEF IInv, TypeOK
<1>3. Sound(b, book[client[t]], now, window) /\ window <= now
  BY <1>1 DEF IInv, BooksInv
<1> QED BY <1>1, <1>2, <1>3, CheckKeepsSound

LEMMA TypeStep == IInv /\ [Next]_vars => TypeOK'
<1> SUFFICES ASSUME IInv, [Next]_vars PROVE TypeOK'
  OBVIOUS
<1>0. TypeOK
  BY DEF IInv
<1> USE <1>0 DEF TypeOK, policy, threads
<1>1. CASE Tick
  BY <1>1, BoundsAssumption DEF Tick, Time
<1>2. CASE OpenWindow
  BY <1>2 DEF OpenWindow
<1>3. ASSUME NEW p \in Policies, UpdatePolicy(p) PROVE TypeOK'
  BY <1>3 DEF UpdatePolicy
<1>4. ASSUME NEW a \in Atomic, Store(a) PROVE TypeOK'
  <2>1. target.capacity \in Capacities /\ target.rate \in Rates
    BY DEF Capacities, Rates
  <2>2. atomics' \in [capacity : Capacities, rate : Rates]
    BY <1>4, <2>1 DEF Store, Atomic
  <2> QED BY <1>4, <2>2 DEF Store
<1>5. ASSUME NEW t \in Thread, NEW i \in Ip, Enter(t, i) PROVE TypeOK'
  BY <1>5 DEF Enter
<1>6. ASSUME NEW t \in Thread, Lock(t) PROVE TypeOK'
  BY <1>6 DEF Lock
<1>7. ASSUME NEW t \in Thread, LoadCapacity(t) PROVE TypeOK'
  BY <1>7 DEF LoadCapacity
<1>8. ASSUME NEW t \in Thread, LoadRate(t) PROVE TypeOK'
  <2>1. /\ buckets' = [buckets EXCEPT ![client[t]] = NewBucket(seen[t], atomics["rate"])]
        /\ book' = [book EXCEPT ![client[t]] =
                      [book[client[t]] EXCEPT !.born = now]]
    BY <1>8 DEF LoadRate
  <2>2. buckets' \in [Ip -> Bucket \union {None}] /\ book' \in [Ip -> Book]
    BY <1>8, <2>1, AtLoadRate
  <2> QED BY <1>8, <2>2 DEF LoadRate
<1>9. ASSUME NEW t \in Thread, Try(t) PROVE TypeOK'
  <2>1. buckets' \in [Ip -> Bucket \union {None}] /\ book' \in [Ip -> Book]
    BY <1>9, AtTry DEF Try
  <2> QED BY <1>9, <2>1 DEF Try
<1>10. CASE UNCHANGED vars
  BY <1>10 DEF vars
<1> QED
  BY <1>1, <1>2, <1>3, <1>4, <1>5, <1>6, <1>7, <1>8, <1>9, <1>10 DEF Next

LEMMA MutexStep == IInv /\ [Next]_vars => MutexInv'
<1> SUFFICES ASSUME IInv, [Next]_vars PROVE MutexInv'
  OBVIOUS
<1>0. TypeOK /\ MutexInv
  BY DEF IInv
<1> USE <1>0 DEF TypeOK, MutexInv, Holds, policy, threads
<1>1. CASE Tick
  BY <1>1 DEF Tick
<1>2. CASE OpenWindow
  BY <1>2 DEF OpenWindow
<1>3. ASSUME NEW p \in Policies, UpdatePolicy(p) PROVE MutexInv'
  BY <1>3 DEF UpdatePolicy
<1>4. ASSUME NEW a \in Atomic, Store(a) PROVE MutexInv'
  BY <1>4 DEF Store
<1>5. ASSUME NEW t \in Thread, NEW i \in Ip, Enter(t, i) PROVE MutexInv'
  BY <1>5 DEF Enter
<1>6. ASSUME NEW t \in Thread, Lock(t) PROVE MutexInv'
  BY <1>6, NamesAssumption DEF Lock
<1>7. ASSUME NEW t \in Thread, LoadCapacity(t) PROVE MutexInv'
  BY <1>7 DEF LoadCapacity
<1>8. ASSUME NEW t \in Thread, LoadRate(t) PROVE MutexInv'
  <2>1. NewBucket(seen[t], atomics["rate"]) # None
    BY <1>8, AtLoadRate
  <2> QED BY <1>8, <2>1 DEF LoadRate
<1>9. ASSUME NEW t \in Thread, Try(t) PROVE MutexInv'
  BY <1>9, NamesAssumption DEF Try
<1>10. CASE UNCHANGED vars
  BY <1>10 DEF vars
<1> QED
  BY <1>1, <1>2, <1>3, <1>4, <1>5, <1>6, <1>7, <1>8, <1>9, <1>10 DEF Next

LEMMA PolicyStep == IInv /\ [Next]_vars => PolicyInv'
<1> SUFFICES ASSUME IInv, [Next]_vars PROVE PolicyInv'
  OBVIOUS
<1>0. TypeOK /\ MutexInv /\ PolicyInv
  BY DEF IInv
<1> USE <1>0 DEF TypeOK, PolicyInv, policy, threads
<1>1. CASE Tick
  BY <1>1 DEF Tick
<1>2. CASE OpenWindow
  BY <1>2 DEF OpenWindow
<1>3. ASSUME NEW p \in Policies, UpdatePolicy(p) PROVE PolicyInv'
  BY <1>3 DEF UpdatePolicy
<1>4. ASSUME NEW a \in Atomic, Store(a) PROVE PolicyInv'
  <2>1. /\ atomics' = [atomics EXCEPT ![a] = target[a]]
        /\ UNCHANGED <<target, pc, seen, offered>>
    BY <1>4 DEF Store
  <2>2. \A k \in Atomic : atomics'[k] = IF k = a THEN target[a] ELSE atomics[k]
    BY <2>1 DEF Atomic
  <2> QED BY <1>4, <2>1, <2>2 DEF Store
<1>5. ASSUME NEW t \in Thread, NEW i \in Ip, Enter(t, i) PROVE PolicyInv'
  BY <1>5 DEF Enter
<1>6. ASSUME NEW t \in Thread, Lock(t) PROVE PolicyInv'
  BY <1>6 DEF Lock
<1>7. ASSUME NEW t \in Thread, LoadCapacity(t) PROVE PolicyInv'
  <2>1. pc[t] # "idle" /\ \E p \in offered[t] : atomics["capacity"] = p["capacity"]
    BY <1>7 DEF LoadCapacity, Atomic
  <2> QED BY <1>7, <2>1 DEF LoadCapacity
<1>8. ASSUME NEW t \in Thread, LoadRate(t) PROVE PolicyInv'
  BY <1>8 DEF LoadRate
<1>9. ASSUME NEW t \in Thread, Try(t) PROVE PolicyInv'
  BY <1>9 DEF Try
<1>10. CASE UNCHANGED vars
  BY <1>10 DEF vars
<1> QED
  BY <1>1, <1>2, <1>3, <1>4, <1>5, <1>6, <1>7, <1>8, <1>9, <1>10 DEF Next

\* The books, by address.
LEMMA BooksStep == IInv /\ [Next]_vars => BooksInv'
<1> SUFFICES ASSUME IInv, [Next]_vars PROVE BooksInv'
  OBVIOUS
<1>0. TypeOK /\ BooksInv /\ now \in Nat /\ window \in Int
  BY TimeNumbers DEF IInv, TypeOK
<1> DEFINE Kept(i) == IF buckets'[i] = None THEN Blank(book'[i])
                      ELSE Sound(buckets'[i], book'[i], now', window')
<1>1. CASE Tick
  <2>1. window' = window /\ now' = now + 1 /\ buckets' = buckets /\ book' = book
    BY <1>1 DEF Tick
  <2>2. window' <= now'
    BY <1>0, <2>1 DEF BooksInv
  <2>3. ASSUME NEW i \in Ip PROVE Kept(i)
    BY <1>0, <2>1, TimePasses DEF BooksInv, TypeOK
  <2> QED BY <2>2, <2>3 DEF BooksInv
<1>2. CASE OpenWindow
  <2>1. window = -1 /\ window' = now /\ now' = now /\ buckets' = buckets /\ book' = book
    BY <1>2 DEF OpenWindow
  <2>2. ASSUME NEW i \in Ip PROVE Kept(i)
    BY <1>0, <2>1, WindowOpens DEF BooksInv, TypeOK
  <2> QED BY <1>0, <2>1, <2>2 DEF BooksInv
<1>3. CASE UNCHANGED <<buckets, book, now, window>>
  BY <1>0, <1>3 DEF BooksInv
<1>4. ASSUME NEW t \in Thread, LoadRate(t) PROVE BooksInv'
  <2>1. /\ buckets' = [buckets EXCEPT ![client[t]] = NewBucket(seen[t], atomics["rate"])]
        /\ book' = [book EXCEPT ![client[t]] =
                      [book[client[t]] EXCEPT !.born = now]]
        /\ now' = now /\ window' = window
    BY <1>4 DEF LoadRate
  <2>2. ASSUME NEW i \in Ip, i = client[t] PROVE Kept(i)
    BY <1>0, <1>4, <2>1, <2>2, AtLoadRate, NamesAssumption DEF TypeOK
  <2>3. ASSUME NEW i \in Ip, i # client[t] PROVE Kept(i)
    BY <1>0, <2>1, <2>3 DEF BooksInv, TypeOK
  <2> QED BY <1>0, <2>1, <2>2, <2>3 DEF BooksInv
<1>5. ASSUME NEW t \in Thread, Try(t) PROVE BooksInv'
  <2> DEFINE b == buckets[client[t]]
  <2>1. /\ buckets' = [buckets EXCEPT ![client[t]] = Taken(Refilled(b))]
        /\ book' = [book EXCEPT ![client[t]] = Booked(@, b, Refilled(b))]
        /\ now' = now /\ window' = window
    BY <1>5 DEF Try
  <2>2. ASSUME NEW i \in Ip, i = client[t] PROVE Kept(i)
    BY <1>0, <1>5, <2>1, <2>2, AtTry, NamesAssumption DEF TypeOK
  <2>3. ASSUME NEW i \in Ip, i # client[t] PROVE Kept(i)
    BY <1>0, <2>1, <2>3 DEF BooksInv, TypeOK
  <2> QED BY <1>0, <2>1, <2>2, <2>3 DEF BooksInv
<1> QED
  BY <1>1, <1>2, <1>3, <1>4, <1>5
  DEF Next, UpdatePolicy, Store, Enter, Lock, LoadCapacity, vars

\* The inductive invariant holds in every reachable state.
THEOREM Invariance == Spec => []IInv
<1>1. IInv /\ [Next]_vars => IInv'
  BY TypeStep, MutexStep, PolicyStep, BooksStep DEF IInv
<1> QED BY <1>1, InitInv, PTL DEF Spec

(***************************************************************************)
(* The theorems.                                                           *)
(***************************************************************************)

\* Every variable keeps its type.
THEOREM TypeCorrect == Spec => []TypeOK
BY Invariance, PTL DEF IInv

\* Each number of a bucket is of a policy in force while the request that makes
\* it was on the way, and both of one policy if none was handed over meanwhile,
\* for any requests, addresses and policies: BucketsFollowPolicy.
THEOREM NeverStale == Spec => BucketsFollowPolicy
<1> DEFINE Offered(t) == /\ \E p \in offered[t] : buckets'[client[t]].capacity = p.capacity
                         /\ \E p \in offered[t] : buckets'[client[t]].rate = p.rate
<1>1. ASSUME IInv, [Next]_vars, NEW t \in Thread, Makes(t) PROVE Offered(t)
  <2>1. pc[t] = "rate" /\ pc'[t] = "try"
    BY <1>1 DEF Makes
  <2>2. LoadRate(t)
    BY <1>1, <2>1 DEF Next, IInv, TypeOK, Tick, OpenWindow, UpdatePolicy, Store, Enter,
                      Lock, LoadCapacity, LoadRate, Try, policy, threads, vars
  <2>3. buckets'[client[t]] = NewBucket(seen[t], atomics["rate"])
    BY <1>1, <2>2 DEF LoadRate, IInv, TypeOK
  <2>4. /\ \E p \in offered[t] : seen[t] = p["capacity"]
        /\ \E p \in offered[t] : atomics["rate"] = p["rate"]
    BY <1>1, <2>1 DEF IInv, PolicyInv, Atomic
  <2> QED BY <2>3, <2>4 DEF NewBucket
<1>2. IInv /\ [Next]_vars => [\A t \in Thread : Makes(t) => Offered(t)]_vars
  BY <1>1
<1> QED BY <1>2, Invariance, PTL DEF Spec, BucketsFollowPolicy

LEMMA CoverageBounds ==
  ASSUME NEW b \in Bucket, NEW h \in Book, NEW n \in Nat, NEW w \in Nat,
         Sound(b, h, n, w), w <= n
  PROVE  h.burst <= b.capacity + b.rate * ((n - w) \div Second + 1)
<1> DEFINE q == (n - w) \div Second
<1>1. /\ b.tokens \in Nat /\ b.last \in Nat /\ b.capacity \in Nat /\ b.rate \in Nat
      /\ Second \in Nat \ {0} /\ h.burst \in Nat /\ h.burstPaid \in Nat
  BY BucketFields, BoundsAssumption DEF Book
<1>2. n - w \in Nat
  OBVIOUS
<1>3. q \in Nat /\ n - w < (q + 1) * Second /\ (q + 1) * Second \in Nat
  BY <1>1, <1>2, Division
<1>4. /\ h.burst = 0 => h.burstPaid = 0
      /\ h.burst + b.tokens <= b.capacity + h.burstPaid * b.rate
      /\ h.burst > 0 => h.burstPaid * Second <= b.last - w + Second - 1
      /\ b.last <= n
  BY DEF Sound, Covered
<1> HIDE DEF q
<1>5. h.burstPaid <= q + 1
  <2>1. CASE h.burst = 0
    BY <2>1, <1>3, <1>4
  <2>2. CASE h.burst > 0
    <3>1. h.burstPaid * Second < (q + 1) * Second + Second
      BY <2>2, <1>1, <1>3, <1>4
    <3>2. (q + 1) * Second + Second = (q + 2) * Second
      BY <1>1, <1>3
    <3>3. h.burstPaid >= q + 2 => h.burstPaid * Second >= (q + 2) * Second
      BY <1>1, <1>3, MoreTimes
    <3> QED BY <3>1, <3>2, <3>3, <1>1, <1>3
  <2> QED BY <2>1, <2>2, <1>1
<1>6. h.burstPaid * b.rate <= (q + 1) * b.rate
  BY <1>1, <1>3, <1>5, MoreTimes
<1>7. (q + 1) * b.rate = b.rate * (q + 1) /\ h.burstPaid * b.rate \in Nat /\ b.rate * (q + 1) \in Nat
  BY <1>1, <1>3
<1> QED BY <1>1, <1>4, <1>6, <1>7 DEF q

\* In no window of time does an address get more than its capacity, and its
\* rate for each second of the window and one more.
THEOREM BurstsBounded == Spec => []BurstBound
<1>1. IInv => BurstBound
  <2> SUFFICES ASSUME IInv, window # -1, NEW i \in Open
               PROVE  book[i].burst <= buckets[i].capacity
                        + buckets[i].rate * ((now - window) \div Second + 1)
    BY DEF BurstBound
  <2>1. /\ i \in Ip /\ buckets[i] \in Bucket /\ book[i] \in Book
        /\ now \in Nat /\ window \in Nat
    BY TimeNumbers DEF IInv, TypeOK, Open
  <2>2. Sound(buckets[i], book[i], now, window) /\ window <= now
    BY <2>1 DEF IInv, BooksInv, Open
  <2> QED BY <2>1, <2>2, CoverageBounds
<1> QED BY <1>1, Invariance, PTL

\* What the books of a refused address come to.
LEMMA RefusalArithmetic ==
  ASSUME NEW c \in Nat, NEW r \in Nat, NEW s \in Nat \ {0}, NEW spent \in Nat, NEW paid \in Nat,
         NEW born \in Nat, NEW last \in Nat, NEW n \in Nat,
         spent = c + paid * r, last - born <= 2 * s * paid, n - last < s
  PROVE  2 * s * (spent - c) >= r * (n - born - s)
<1>1. spent - c = paid * r /\ paid * r \in Nat
  OBVIOUS
<1>2. 2 * s * (paid * r) = r * (2 * s * paid)
  OBVIOUS
<1>3. n - born - s <= 2 * s * paid /\ 2 * s * paid \in Nat /\ n - born - s \in Int
  OBVIOUS
<1>4. \A x \in Int, y \in Nat : x <= y => r * x <= r * y
  OBVIOUS
<1> QED BY <1>1, <1>2, <1>3, <1>4

\* Only the end of a check refuses.
LEMMA DenialEndsACheck ==
  ASSUME IInv, Next, NEW t \in Thread, Denies(t)
  PROVE  Try(t)
<1>1. pc[t] = "try" /\ pc'[t] = "idle" /\ pc \in [Thread -> {"idle", "lock", "capacity", "rate", "try"}]
  BY DEF Denies, IInv, TypeOK
<1>2. pc' # pc
  BY <1>1
<1>3. PICK u \in Thread : (\E i \in Ip : Enter(u, i)) \/ Lock(u) \/ LoadCapacity(u) \/ LoadRate(u) \/ Try(u)
  BY <1>2 DEF Next, Tick, OpenWindow, UpdatePolicy, Store, threads
<1>4. CASE u = t
  BY <1>1, <1>3, <1>4 DEF Enter, Lock, LoadCapacity, LoadRate
<1>5. CASE u # t
  <2>1. \E v \in {"idle", "lock", "capacity", "rate", "try"} : pc' = [pc EXCEPT ![u] = v]
    BY <1>3 DEF Enter, Lock, LoadCapacity, LoadRate, Try
  <2> QED BY <1>1, <1>5, <2>1
<1> QED BY <1>4, <1>5

\* An address is refused only when it has spent its capacity and at least half
\* of what its rate comes to, as long as no arithmetic wraps.
THEOREM DenialsJustified ==
  ASSUME NoWrap
  PROVE  Spec => DenialJustified
<1>1. IInv /\ [Next]_vars =>
        [\A t \in Thread :
           Denies(t) => HalfSpent(buckets[client[t]], book'[client[t]], now)]_vars
  <2> SUFFICES ASSUME IInv, Next, NEW t \in Thread, Denies(t)
               PROVE  HalfSpent(buckets[client[t]], book'[client[t]], now)
    BY DEF vars
  <2> DEFINE i == client[t]
             b == buckets[i]
             r == Refilled(b)
             k == Taken(r)
             g == Booked(book[i], b, r)
  <2>1. Try(t)
    BY DenialEndsACheck
  <2>2. /\ i \in Ip /\ b \in Bucket /\ book[i] \in Book /\ now \in Time
        /\ Sound(b, book[i], now, window)
        /\ k \in Bucket /\ g \in Book /\ Sound(k, g, now, window)
    BY <2>1, AtTry
  <2>3. book'[i] = g
    BY <2>1, <2>2 DEF Try, IInv, TypeOK
  <2>4. /\ r \in Bucket /\ now - r.last < Second
        /\ r.capacity = b.capacity /\ r.rate = b.rate
    BY <2>2, Refilling DEF Sound
  <2>5. r.tokens = 0
    <3>1. g.granted = book[i].granted
      BY <2>3 DEF Denies
    <3>2. g.granted = book[i].granted + One(r)
      BY <2>2 DEF Booked, Book
    <3>3. book[i].granted \in Nat /\ One(r) \in {0, 1}
      BY <2>2 DEF Book, One
    <3>4. One(r) = 0
      BY <3>1, <3>2, <3>3
    <3> QED BY <2>4, <3>4 DEF One, Allowed, Bucket
  <2>6. k.tokens = 0 /\ k.capacity = b.capacity /\ k.rate = b.rate /\ k.last = r.last
    BY <2>4, <2>5 DEF Taken, Allowed, Bucket
  <2>7. Balanced(k, g) /\ HalfPaid(k, g)
    BY <2>2 DEF Sound
  <2>8. /\ g.granted \in Nat /\ g.spilt \in Nat /\ g.paid \in Nat /\ g.born \in Nat
        /\ b.capacity \in Nat /\ b.rate \in Nat /\ Second \in Nat \ {0}
        /\ r.last \in Nat /\ now \in Nat
    BY <2>2, <2>4, BucketFields, TimeNumbers, BoundsAssumption DEF Book
  <2>9. /\ g.granted + g.spilt = b.capacity + g.paid * b.rate
        /\ r.last - g.born <= 2 * Second * g.paid
    BY <2>6, <2>7, <2>8 DEF Balanced, HalfPaid
  <2> HIDE DEF g, k, r, b
  <2>10. 2 * Second * ((g.granted + g.spilt) - b.capacity) >= b.rate * (now - g.born - Second)
    <3>1. g.granted + g.spilt \in Nat
      BY <2>8
    <3> QED BY <2>4, <2>8, <2>9, <3>1, RefusalArithmetic
  <2>11. HalfSpent(b, g, now)
    BY <2>10 DEF HalfSpent
  <2> QED BY <2>3, <2>11 DEF b
<1> QED BY <1>1, Invariance, PTL DEF Spec, DenialJustified

(***************************************************************************)
(* The limiter implements LeakyMeter.                                      *)
(***************************************************************************)

LEMMA LevelArithmetic ==
  ASSUME NEW c \in Nat, NEW t \in Nat, t <= c, NEW p \in Nat, NEW u \in Nat, NEW x,
         x = IF t + p > c THEN (t + p) - c ELSE 0, u + x = t + p
  PROVE  (IF p < c - t THEN (c - t) - p ELSE 0) = c - u
OBVIOUS

\* Draining a meter is refilling its bucket.
LEMMA DrainedIsRefilled ==
  ASSUME NoWrap, NEW b \in Bucket, now \in Time, b.last <= now, b.tokens <= b.capacity
  PROVE  Meters!Drained(MeterOf(b)) = MeterOf(Refilled(b))
<1> DEFINE m == MeterOf(b)
           e == Elapsed(b)
<1>1. /\ b.tokens \in Nat /\ b.capacity \in Nat /\ b.rate \in Nat
      /\ e \in Nat /\ e * b.rate \in Nat /\ Refilled(b).tokens \in Nat
      /\ Refilled(b).capacity = b.capacity /\ Refilled(b).rate = b.rate
  <2>1. b.tokens \in Nat /\ b.capacity \in Nat /\ b.rate \in Nat
    BY BucketFields
  <2>2. /\ e \in Nat /\ Refilled(b) \in Bucket
        /\ Refilled(b).capacity = b.capacity /\ Refilled(b).rate = b.rate
    BY Refilling
  <2> HIDE DEF e
  <2> QED BY <2>1, <2>2, BucketFields
<1>2. /\ m.size = b.capacity /\ m.drain = b.rate /\ m.since = b.last
      /\ m.level = b.capacity - b.tokens
  BY DEF MeterOf
<1>3. Meters!Seconds(m) = e
  BY <1>2 DEF Meters!Seconds, Elapsed
<1>4. CASE e = 0
  BY <1>1, <1>3, <1>4 DEF Meters!Drained, Refilled
<1>5. CASE e > 0
  <2> DEFINE left == IF e * b.rate < b.capacity - b.tokens
                     THEN (b.capacity - b.tokens) - e * b.rate ELSE 0
  <2>1. Meters!Drained(m) = [m EXCEPT !.level = left, !.since = now]
    BY <1>1, <1>2, <1>3, <1>5 DEF Meters!Drained
  <2>2. left = b.capacity - Refilled(b).tokens
    <3>1. Refilled(b).tokens + Excess(b) = b.tokens + e * b.rate
      BY RefillingExactly
    <3>2. Excess(b) = IF b.tokens + e * b.rate > b.capacity
                      THEN (b.tokens + e * b.rate) - b.capacity ELSE 0
      BY <1>1 DEF Excess
    <3> HIDE DEF e
    <3> QED BY <1>1, <3>1, <3>2, LevelArithmetic
  <2>3. Refilled(b).last = now
    BY <1>5 DEF Refilled, Bucket
  <2> HIDE DEF left
  <2>4. [m EXCEPT !.level = left, !.since = now]
          = [size |-> b.capacity, drain |-> b.rate, level |-> left, since |-> now]
    <3> DEFINE n == [m EXCEPT !.level = left]
    <3>1. n = [size |-> b.capacity, drain |-> b.rate, level |-> left, since |-> b.last]
      BY DEF MeterOf
    <3>2. [m EXCEPT !.level = left, !.since = now] = [n EXCEPT !.since = now]
      OBVIOUS
    <3> HIDE DEF m, n
    <3>3. [n EXCEPT !.since = now]
            = [size |-> b.capacity, drain |-> b.rate, level |-> left, since |-> now]
      BY <3>1
    <3> QED BY <3>2, <3>3
  <2> QED BY <1>1, <2>1, <2>2, <2>3, <2>4 DEF MeterOf
<1> QED BY <1>1, <1>4, <1>5

\* A bucket that is made is a meter that is installed,
LEMMA LoadRateInstalls ==
  ASSUME IInv, NEW t \in Thread, LoadRate(t)
  PROVE  Meters!Install(client[t])
<1> DEFINE i == client[t]
           b == NewBucket(seen[t], atomics["rate"])
           h == [book[i] EXCEPT !.born = now]
           M == [j \in Open |-> MeterOf(buckets[j])]
           m == [size |-> seen[t], drain |-> atomics["rate"], level |-> 0, since |-> now]
<1>1. /\ seen[t] \in Capacities /\ atomics["rate"] \in Rates /\ i \in Ip
      /\ b \in Bucket /\ b # None
  BY AtLoadRate
<1>2. /\ buckets[i] = None /\ buckets \in [Ip -> Bucket \union {None}]
      /\ book[i] \in Book /\ book \in [Ip -> Book]
  BY <1>1 DEF LoadRate, IInv, TypeOK, MutexInv
<1>3. buckets' = [buckets EXCEPT ![i] = b] /\ book' = [book EXCEPT ![i] = h] /\ now' = now
  BY DEF LoadRate
<1>4. i \notin Open /\ Open' = Open \union {i}
  BY <1>1, <1>2, <1>3 DEF Open
<1>5. MeterOf(b) = m
  <2>1. seen[t] \in Nat
    BY <1>1, PolicyNumbers
  <2>2. seen[t] - seen[t] = 0
    BY <2>1
  <2> QED BY <2>2 DEF MeterOf, NewBucket
<1>6. \A j \in Ip : book'[j].granted = book[j].granted
  BY <1>2, <1>3 DEF Book
<1> HIDE DEF b, h
<1>7. \A j \in Open' : buckets'[j] = IF j = i THEN b ELSE buckets[j]
  BY <1>2, <1>3 DEF Open
<1>8. M' = [j \in DOMAIN M \union {i} |-> IF j = i THEN m ELSE M[j]]
  <2>1. \A j \in Open : M[j] = MeterOf(buckets[j])
    OBVIOUS
  <2>2. M' = [j \in Open \union {i} |-> IF j = i THEN m ELSE MeterOf(buckets[j])]
    BY <1>4, <1>5, <1>7
  <2> QED BY <2>1, <2>2
<1>9. [j \in Ip |-> book[j].granted]' = [j \in Ip |-> book[j].granted]
  BY <1>6
<1>10. i \notin DOMAIN M
  BY <1>4
<1> QED BY <1>1, <1>3, <1>8, <1>9, <1>10 DEF Meters!Install

\* and a check is one answer.
LEMMA TryAnswers ==
  ASSUME NoWrap, IInv, NEW t \in Thread, Try(t), NEW i \in Ip, i = client[t]
  PROVE  Meters!Admit(i) \/ Meters!Refuse(i)
<1> DEFINE b == buckets[i]
           r == Refilled(b)
           M == [j \in Open |-> MeterOf(buckets[j])]
           G == [j \in Ip |-> book[j].granted]
<1>1. /\ i \in Ip /\ b \in Bucket /\ b # None /\ now \in Time /\ book[i] \in Book
      /\ b.last <= now /\ b.tokens <= b.capacity
      /\ Taken(r) \in Bucket
  BY AtTry DEF Try, IInv, MutexInv, Sound
<1>2. buckets \in [Ip -> Bucket \union {None}] /\ book \in [Ip -> Book]
  BY DEF IInv, TypeOK
<1>3. /\ buckets' = [buckets EXCEPT ![i] = Taken(r)] /\ now' = now
      /\ book' = [book EXCEPT ![i] = Booked(@, b, r)]
  BY DEF Try
<1>4. Taken(r) # None
  BY <1>1, NamesAssumption
<1>5. i \in Open /\ Open' = Open
  BY <1>1, <1>2, <1>3, <1>4 DEF Open
<1>6. Meters!Drained(M[i]) = MeterOf(r)
  BY <1>1, <1>5, DrainedIsRefilled
<1>7. M' = [M EXCEPT ![i] = MeterOf(Taken(r))]
  <2>1. \A j \in Open : buckets'[j] = IF j = i THEN Taken(r) ELSE buckets[j]
    BY <1>2, <1>3 DEF Open
  <2> HIDE DEF r, b
  <2> QED BY <1>5, <2>1
<1>8. /\ r.tokens \in Nat /\ r.capacity \in Nat /\ r.tokens <= r.capacity
      /\ r \in Bucket
  BY <1>1, Refilling, BucketFields
<1>9. \A j \in Ip : book'[j].granted = IF j = i THEN book[i].granted + One(r)
                                        ELSE book[j].granted
  BY <1>1, <1>2, <1>3 DEF Booked, Book
<1>10. book[i].granted \in Nat
  BY <1>1 DEF Book
<1> HIDE DEF r, b
<1>11. CASE r.tokens > 0
  <2>1. One(r) = 1 /\ Taken(r) = [r EXCEPT !.tokens = r.tokens - 1]
    BY <1>11 DEF One, Taken, Allowed
  <2>2. MeterOf(Taken(r)) = [MeterOf(r) EXCEPT !.level = MeterOf(r).level + 1]
    BY <1>8, <2>1 DEF MeterOf, Bucket
  <2>3. MeterOf(r).level < MeterOf(r).size
    BY <1>8, <1>11 DEF MeterOf
  <2>4. G' = [G EXCEPT ![i] = G[i] + 1]
    BY <1>1, <1>9, <2>1
  <2> HIDE DEF M, G
  <2>5. /\ i \in DOMAIN M
        /\ M' = [M EXCEPT ![i] = [MeterOf(r) EXCEPT !.level = MeterOf(r).level + 1]]
    BY <1>5, <1>7, <2>2 DEF M
  <2> QED BY <1>3, <1>6, <2>3, <2>4, <2>5 DEF Meters!Admit, M, G
<1>12. CASE r.tokens = 0
  <2>1. One(r) = 0 /\ Taken(r) = r
    BY <1>8, <1>12 DEF One, Taken, Allowed, Bucket
  <2>2. MeterOf(r).level = MeterOf(r).size
    BY <1>8, <1>12 DEF MeterOf
  <2>3. G' = G
    BY <1>9, <1>10, <2>1
  <2> QED BY <1>3, <1>5, <1>6, <1>7, <2>1, <2>2, <2>3 DEF Meters!Refuse
<1> QED BY <1>8, <1>11, <1>12

\* Nothing else can be seen of the limiter but the time.
LEMMA MeterStep ==
  ASSUME NoWrap, IInv, [Next]_vars
  PROVE  Meters!Next \/ UNCHANGED Meters!vars
<1>1. ASSUME NEW t \in Thread, LoadRate(t) PROVE Meters!Next
  <2>1. client[t] \in Ip
    BY DEF IInv, TypeOK
  <2> QED BY <1>1, <2>1, LoadRateInstalls DEF Meters!Next
<1>2. ASSUME NEW t \in Thread, Try(t) PROVE Meters!Next
  <2>1. client[t] \in Ip
    BY DEF IInv, TypeOK
  <2>2. PICK i \in Ip : i = client[t]
    BY <2>1
  <2>3. Meters!Admit(i) \/ Meters!Refuse(i)
    BY <1>2, <2>2, TryAnswers
  <2> QED BY <2>3 DEF Meters!Next
<1>3. ASSUME UNCHANGED <<buckets, book>>
      PROVE  /\ [i \in Open |-> MeterOf(buckets[i])]' = [i \in Open |-> MeterOf(buckets[i])]
             /\ [i \in Ip |-> book[i].granted]' = [i \in Ip |-> book[i].granted]
  <2>1. Open' = Open
    BY <1>3 DEF Open
  <2> QED BY <1>3, <2>1
<1>4. CASE Tick
  BY <1>3, <1>4 DEF Tick, Meters!Next, Meters!Tick
<1>5. ASSUME UNCHANGED <<buckets, book, now>> PROVE UNCHANGED Meters!vars
  BY <1>3, <1>5 DEF Meters!vars
<1> QED
  BY <1>1, <1>2, <1>4, <1>5
  DEF Next, OpenWindow, UpdatePolicy, Store, Enter, Lock, LoadCapacity, vars

\* For any requests at a time and any policies, the threads, the mutex and the
\* two atomics come to one meter per address and one answer after the other, as
\* long as no arithmetic wraps: ActsAsMeter.
THEOREM ImplementsMeter ==
  ASSUME NoWrap
  PROVE  Spec => ActsAsMeter
<1>1. Init => Meters!Init
  <2> SUFFICES ASSUME Init PROVE Meters!Init
    OBVIOUS
  <2>1. Open = {}
    BY DEF Init, Open
  <2>2. [i \in Ip |-> book[i].granted] = [i \in Ip |-> 0] /\ now = 0
    BY DEF Init
  <2> QED BY <2>1, <2>2 DEF Meters!Init
<1>2. IInv /\ [Next]_vars => [Meters!Next]_(Meters!vars)
  BY MeterStep
<1> QED BY <1>1, <1>2, Invariance, PTL DEF Spec, ActsAsMeter, Meters!Spec
=============================================================================
