------------------------------ MODULE LaneProofs ------------------------------
(***************************************************************************)
(* Proofs about ConcurrencyLane: the lane's books and the order in which   *)
(* it admits, for any number of delegates and any changes of the limit.    *)
(***************************************************************************)
EXTENDS ConcurrencyLane, SequenceTheorems, WellFoundedInduction, TLAPS

Futures == {"none", "pending", "done", "cancelled"}

\* The books of a lane with these holders and waiters, for tasks with the
\* futures f at the places p: what SlotAccounting says beyond the types.
Sound(hs, q, f, p) ==
    /\ \A t \in Tasks :
        /\ p[t] \in {"admitted", "running"} => t \in hs
        /\ p[t] \in {"idle", "launched"} => t \notin hs /\ f[t] = "none"
        /\ p[t] \in {"notifying", "waiting"} => (t \in hs <=> f[t] = "done")
        /\ f[t] = "cancelled" => t \notin hs
    /\ \A i, j \in DOMAIN q : q[i] = q[j] => i = j
    /\ \A i \in DOMAIN q :
        /\ p[q[i]] \in {"notifying", "waiting", "leaving"}
        /\ f[q[i]] \in {"pending", "cancelled"}
        /\ q[i] \notin hs
    /\ \A t \in Tasks :
        (p[t] \in {"notifying", "waiting"} /\ f[t] = "pending") => \E i \in DOMAIN q : q[i] = t

\* A lane that was dropped has no members: the cleanup of a task that finds no
\* lane has nothing to take back.
IInv ==
    /\ TypeOK
    /\ Sound(holders, waiters, fut, pc)
    /\ ~exists => holders = {} /\ waiters = <<>>

-----------------------------------------------------------------------------
(***************************************************************************)
(* The operators of the lane.                                              *)
(***************************************************************************)

\* A set of numbers that is not empty has a smallest one.
LEMMA Least ==
    ASSUME NEW T \in SUBSET Nat, T # {}
    PROVE  \E n \in T : \A m \in T : n <= m
<1>1. PICK R : IsWellFoundedOn(R, Nat) /\ \A x, y \in Nat : x < y => <<x, y>> \in R
  <2>1. \A x, y \in Nat : x < y => <<x, y>> \in OpToRel(<, Nat)
    BY DEF OpToRel
  <2>2. QED
    BY <2>1, NatLessThanWellFounded
<1>2. T \subseteq Nat
  OBVIOUS
<1>3. \E x \in T : \A y \in T : ~ (<<y, x>> \in R)
  <2>1. IsWellFoundedOn(R, Nat) /\ T # {}
    BY <1>1
  <2>2. QED
    BY <1>2, <2>1, WFMin, ZenonT(20)
<1>4. PICK n \in T : \A m \in T : ~(<<m, n>> \in R)
  BY <1>3
<1>5. ASSUME NEW m \in T PROVE n <= m
  <2>1. ~(m < n) /\ m \in Nat /\ n \in Nat
    BY <1>1, <1>4
  <2>2. QED
    BY <2>1
<1>6. QED
  BY <1>4, <1>5

\* The loop of _admit_concurrency_waiters ends: it pops some of the queue, and
\* stops for lack of waiters or of room.
LEMMA LoopEnds ==
    ASSUME NEW lim, NEW hs, NEW queue \in Seq(Tasks)
    PROVE  /\ Popped(lim, hs, queue) \in 0..Len(queue)
           /\ \/ Popped(lim, hs, queue) = Len(queue)
              \/ ~HasCapacity(lim, hs \cup AdmittedAmong(queue, Popped(lim, hs, queue)))
<1> DEFINE Room(n) == HasCapacity(lim, hs \cup AdmittedAmong(queue, n))
           T == {n \in 0..Len(queue) : n = Len(queue) \/ ~Room(n)}
<1> HIDE DEF Room
<1>1. Len(queue) \in Nat
  OBVIOUS
<1>2. Len(queue) \in T /\ T \in SUBSET Nat
  BY <1>1
<1>3. PICK n \in T : \A m \in T : n <= m
  BY <1>2, Least
<1>4. \A m \in 0..(n - 1) : Room(m)
  <2> SUFFICES ASSUME NEW m \in 0..(n - 1) PROVE Room(m)
    OBVIOUS
  <2>1. m \in 0..Len(queue) /\ ~(n <= m) /\ m # Len(queue)
    BY <1>1
  <2>2. QED
    BY <1>3, <2>1
<1>5. /\ n \in 0..Len(queue)
      /\ \A m \in 0..(n - 1) : Room(m)
      /\ n = Len(queue) \/ ~Room(n)
  BY <1>4
<1>6. Popped(lim, hs, queue) = CHOOSE k \in 0..Len(queue) : (\A m \in 0..(k - 1) : Room(m)) /\ (k = Len(queue) \/ ~Room(k))
  BY DEF Popped, Room
<1>7. Popped(lim, hs, queue) \in 0..Len(queue) /\ (Popped(lim, hs, queue) = Len(queue) \/ ~Room(Popped(lim, hs, queue)))
  BY <1>5, <1>6
<1>8. QED
  BY <1>7 DEF Room

\* What an admission does: the first n waiters leave the queue, and those of
\* them that still want the slot get it.
Serves(a, hs, queue, n) ==
    /\ a.woken = AdmittedAmong(queue, n)
    /\ a.holders = hs \cup a.woken
    /\ a.waiters \in Seq(Tasks)
    /\ Len(a.waiters) = Len(queue) - n
    /\ \A i \in DOMAIN a.waiters : n + i \in DOMAIN queue /\ a.waiters[i] = queue[n + i]

\* _admit_concurrency_waiters serves the front of the queue.
LEMMA AdmitServes ==
    ASSUME NEW lim, NEW hs, NEW queue \in Seq(Tasks)
    PROVE  \E n \in 0..Len(queue) : Serves(Admit(lim, hs, queue), hs, queue, n)
<1> DEFINE n == Popped(lim, hs, queue)
           a == Admit(lim, hs, queue)
           w == SubSeq(queue, n + 1, Len(queue))
<1>1. n \in 0..Len(queue) /\ Len(queue) \in Nat /\ DOMAIN queue = 1..Len(queue)
  <2>1. n \in 0..Len(queue)
    BY LoopEnds, Zenon
  <2> HIDE DEF n
  <2>2. QED
    BY <2>1
<1>2. /\ a.woken = AdmittedAmong(queue, n) /\ a.holders = hs \cup AdmittedAmong(queue, n)
      /\ a.waiters = w
  BY DEF Admit
<1> HIDE DEF n, a
<1>3. \A i \in (n + 1)..Len(queue) : queue[i] \in Tasks
  BY <1>1
<1>4. n + 1 \in Int /\ Len(queue) \in Int
  BY <1>1
<1>5. /\ w \in Seq(Tasks)
      /\ Len(w) = IF n + 1 <= Len(queue) THEN Len(queue) - (n + 1) + 1 ELSE 0
      /\ \A i \in 1..(Len(queue) - (n + 1) + 1) : w[i] = queue[n + 1 + i - 1]
  BY <1>3, <1>4, SubSeqProperties
<1> HIDE DEF w
<1>6. Len(w) = Len(queue) - n /\ DOMAIN w = 1..(Len(queue) - n)
  <2>1. Len(w) = Len(queue) - n
    <3>1. CASE n + 1 <= Len(queue)
      <4>1. Len(w) = Len(queue) - (n + 1) + 1
        BY <1>5, <3>1
      <4>2. QED
        BY <1>1, <4>1
    <3>2. CASE ~(n + 1 <= Len(queue))
      <4>1. Len(w) = 0
        BY <1>5, <3>2
      <4>2. Len(queue) - n = 0
        <5> DEFINE l == Len(queue)
        <5>1. l \in Nat /\ n \in 0..l /\ ~(n + 1 <= l)
          BY <1>1, <3>2
        <5> HIDE DEF l
        <5>2. l - n = 0
          BY <5>1
        <5>3. QED
          BY <5>2 DEF l
      <4>3. QED
        BY <4>1, <4>2, Zenon
    <3>3. QED
      BY <3>1, <3>2
  <2>2. DOMAIN w = 1..Len(w)
    BY <1>5, LenProperties
  <2>3. QED
    BY <2>1, <2>2
<1>7. ASSUME NEW i \in DOMAIN w PROVE n + i \in DOMAIN queue /\ w[i] = queue[n + i]
  <2>1. i \in 1..(Len(queue) - (n + 1) + 1) /\ n + 1 + i - 1 = n + i
    BY <1>1, <1>6
  <2>2. w[i] = queue[n + 1 + i - 1]
    BY <1>5, <2>1
  <2>3. n + i \in DOMAIN queue
    BY <1>1, <2>1
  <2>4. QED
    BY <2>1, <2>2, <2>3, Zenon
<1>8. Serves(a, hs, queue, n)
  BY <1>2, <1>5, <1>6, <1>7 DEF Serves
<1>9. QED
  BY <1>1, <1>8 DEF a

\* An admission concerns nobody who is not in the queue.
Spares(a, hs, q, f) ==
    \A t \in Tasks : t \notin {q[i] : i \in DOMAIN q} =>
        /\ WakeUp(f, a.woken)[t] = f[t]
        /\ t \in a.holders <=> t \in hs
        /\ \A i \in DOMAIN a.waiters : a.waiters[i] # t

\* An admission leaves the books sound.
LEMMA AdmitSound ==
    ASSUME NEW hs \in SUBSET Tasks, NEW q \in Seq(Tasks), fut \in [Tasks -> Futures],
           NEW p, Sound(hs, q, fut, p), NEW lim, NEW a, a = Admit(lim, hs, q)
    PROVE  /\ a.holders \in SUBSET Tasks /\ a.waiters \in Seq(Tasks)
           /\ a.woken \subseteq {q[i] : i \in DOMAIN q}
           /\ WakeUp(fut, a.woken) \in [Tasks -> Futures]
           /\ Sound(a.holders, a.waiters, WakeUp(fut, a.woken), p)
           /\ Spares(a, hs, q, fut)
<1>1. PICK n \in 0..Len(q) : Serves(a, hs, q, n)
  BY AdmitServes
<1> DEFINE W == AdmittedAmong(q, n)
           f == WakeUp(fut, a.woken)
<1>2. /\ a.woken = W /\ a.holders = hs \cup W /\ a.waiters \in Seq(Tasks)
      /\ Len(a.waiters) = Len(q) - n
      /\ \A i \in DOMAIN a.waiters : n + i \in DOMAIN q /\ a.waiters[i] = q[n + i]
  BY <1>1 DEF Serves
<1>3. DOMAIN q = 1..Len(q) /\ Len(q) \in Nat /\ n \in Nat /\ n <= Len(q) /\ DOMAIN a.waiters = 1..(Len(q) - n)
  BY <1>2
<1>4. \A t : t \in W <=> \E i \in DOMAIN q : i <= n /\ q[i] = t /\ fut[t] # "cancelled"
  <2>1. \A i : i \in 1..n <=> (i \in DOMAIN q /\ i <= n)
    BY <1>3
  <2>2. QED
    BY <2>1 DEF AdmittedAmong
<1> HIDE DEF W
<1>5. W \subseteq Tasks /\ W \subseteq {q[i] : i \in DOMAIN q}
  BY <1>3, <1>4
<1>6. \A t \in Tasks : f[t] = IF t \in W THEN "done" ELSE fut[t]
  BY <1>2 DEF WakeUp
<1>7. f \in [Tasks -> Futures]
  BY <1>2 DEF WakeUp, Futures
<1> HIDE DEF f
<1>8. \A t \in W : t \in Tasks /\ fut[t] = "pending" /\ p[t] \in {"notifying", "waiting", "leaving"}
  BY <1>4, <1>5 DEF Sound
<1>9. ASSUME NEW t \in Tasks
      PROVE  /\ p[t] \in {"admitted", "running"} => t \in a.holders
             /\ p[t] \in {"idle", "launched"} => t \notin a.holders /\ f[t] = "none"
             /\ p[t] \in {"notifying", "waiting"} => (t \in a.holders <=> f[t] = "done")
             /\ f[t] = "cancelled" => t \notin a.holders
  <2>1. CASE t \in W
    BY <1>2, <1>6, <1>8, <2>1
  <2>2. CASE t \notin W
    BY <1>2, <1>6, <2>2 DEF Sound
  <2>3. QED
    BY <2>1, <2>2
<1>10. \A i, j \in DOMAIN a.waiters : a.waiters[i] = a.waiters[j] => i = j
  <2> SUFFICES ASSUME NEW i \in DOMAIN a.waiters, NEW j \in DOMAIN a.waiters, a.waiters[i] = a.waiters[j]
               PROVE  i = j
    OBVIOUS
  <2>1. n + i \in DOMAIN q /\ n + j \in DOMAIN q /\ q[n + i] = q[n + j]
    BY <1>2
  <2>2. n + i = n + j
    BY <2>1 DEF Sound
  <2>3. i \in Nat /\ j \in Nat
    BY <1>3
  <2>4. QED
    BY <1>3, <2>2, <2>3
<1>11. ASSUME NEW i \in DOMAIN a.waiters
       PROVE  /\ a.waiters[i] = q[n + i] /\ n + i \in DOMAIN q /\ q[n + i] \in Tasks
              /\ q[n + i] \notin W
  <2>1. a.waiters[i] = q[n + i] /\ n + i \in DOMAIN q
    BY <1>2
  <2>2. ~(n + i <= n)
    BY <1>3
  <2>3. \A k \in DOMAIN q : q[k] = q[n + i] => k = n + i
    BY <2>1 DEF Sound
  <2>4. q[n + i] \notin W
    BY <1>4, <2>2, <2>3
  <2>5. q[n + i] \in Tasks
    BY <2>1
  <2>6. QED
    BY <2>1, <2>4, <2>5
<1>12. \A i \in DOMAIN a.waiters :
          /\ p[a.waiters[i]] \in {"notifying", "waiting", "leaving"}
          /\ f[a.waiters[i]] \in {"pending", "cancelled"}
          /\ a.waiters[i] \notin a.holders
  BY <1>2, <1>6, <1>11 DEF Sound
<1>13. ASSUME NEW t \in Tasks, p[t] \in {"notifying", "waiting"}, f[t] = "pending"
       PROVE  \E i \in DOMAIN a.waiters : a.waiters[i] = t
  <2>1. t \notin W /\ fut[t] = "pending"
    BY <1>6, <1>13
  <2>2. PICK k \in DOMAIN q : q[k] = t
    BY <1>13, <2>1 DEF Sound
  <2>3. ~(k <= n)
    BY <1>4, <2>1, <2>2
  <2>4. k - n \in DOMAIN a.waiters /\ n + (k - n) = k
    BY <1>3, <2>3
  <2>5. a.waiters[k - n] = q[k]
    BY <1>2, <2>4
  <2>6. QED
    BY <2>2, <2>4, <2>5
<1>14. Sound(a.holders, a.waiters, f, p)
  BY <1>9, <1>10, <1>12, <1>13 DEF Sound
<1>15. ASSUME NEW t \in Tasks, t \notin {q[i] : i \in DOMAIN q}
       PROVE  f[t] = fut[t] /\ (t \in a.holders <=> t \in hs) /\ \A i \in DOMAIN a.waiters : a.waiters[i] # t
  BY <1>2, <1>5, <1>6, <1>15
<1>16. QED
  BY <1>2, <1>5, <1>7, <1>14, <1>15 DEF f, Spares

\* Dequeued takes a task out of a queue that lists it at most once, and keeps
\* the others in their order.
LEMMA DequeuedKeeps ==
    ASSUME NEW q \in Seq(Tasks), NEW t, \A i, j \in DOMAIN q : q[i] = q[j] => i = j,
           NEW d, d = Dequeued(q, t)
    PROVE  /\ d \in Seq(Tasks)
           /\ \A i \in DOMAIN d : d[i] # t
           /\ \A i \in DOMAIN d : \E k \in DOMAIN q : k >= i /\ d[i] = q[k]
           /\ \A i, j \in DOMAIN d : d[i] = d[j] => i = j
           /\ \A k \in DOMAIN q : q[k] # t => \E i \in DOMAIN d : i <= k /\ d[i] = q[k]
           /\ \A i \in DOMAIN d, k \in DOMAIN q : \A j \in DOMAIN d :
                 j <= i /\ d[i] = q[k] => \E m \in DOMAIN q : m <= k /\ d[j] = q[m]
<1> DEFINE places == {i \in DOMAIN q : q[i] = t}
<1>0. Len(q) \in Nat /\ DOMAIN q = 1..Len(q)
  OBVIOUS
<1>1. CASE places = {}
  <2>1. d = q
    BY <1>1 DEF Dequeued
  <2>2. \A k \in DOMAIN q : q[k] # t
    BY <1>1
  <2>3. \A i \in DOMAIN q, k \in DOMAIN q : q[i] = q[k] => i = k
    OBVIOUS
  <2>4. QED
    BY <1>0, <2>1, <2>2, <2>3
<1>2. CASE places # {}
  <2> DEFINE x == CHOOSE i \in places : TRUE
             lo == SubSeq(q, 1, x - 1)
             hi == SubSeq(q, x + 1, Len(q))
             L == Len(q)
  <2>1. x \in DOMAIN q /\ q[x] = t
    BY <1>2
  <2>2. d = lo \o hi
    BY <1>2 DEF Dequeued, Without
  <2> HIDE DEF x
  <2>3. x \in 1..L /\ L \in Nat
    BY <1>0, <2>1
  <2>4. lo \in Seq(Tasks) /\ Len(lo) = x - 1 /\ \A i \in 1..(x - 1) : lo[i] = q[i]
    <3>1. \A i \in 1..(x - 1) : q[i] \in Tasks
      BY <2>3
    <3>2. QED
      BY <2>3, <3>1, SubSeqProperties
  <2>5. hi \in Seq(Tasks) /\ Len(hi) = L - x /\ \A i \in 1..(L - x) : hi[i] = q[x + i]
    <3>1. \A i \in (x + 1)..L : q[i] \in Tasks
      BY <2>3
    <3>2. x + 1 \in Int /\ L \in Int
      BY <2>3
    <3>3. /\ hi \in Seq(Tasks)
          /\ Len(hi) = IF x + 1 <= L THEN L - (x + 1) + 1 ELSE 0
          /\ \A i \in 1..(L - (x + 1) + 1) : hi[i] = q[x + 1 + i - 1]
      BY <3>1, <3>2, SubSeqProperties
    <3> HIDE DEF hi, L
    <3>4. L - (x + 1) + 1 = L - x /\ \A i \in 1..(L - x) : x + 1 + i - 1 = x + i
      BY <2>3
    <3>5. Len(hi) = L - x
      <4>1. CASE x + 1 <= L
        <5>1. Len(hi) = L - (x + 1) + 1
          BY <3>3, <4>1
        <5>2. QED
          BY <3>4, <5>1
      <4>2. CASE ~(x + 1 <= L)
        <5>1. Len(hi) = 0
          BY <3>3, <4>2
        <5>2. L - x = 0
          BY <2>3, <4>2
        <5>3. QED
          BY <5>1, <5>2, Zenon
      <4>3. QED
        BY <4>1, <4>2
    <3>6. \A i \in 1..(L - x) : hi[i] = q[x + i]
      BY <3>3, <3>4
    <3>7. QED
      BY <3>3, <3>5, <3>6
  <2> HIDE DEF lo, hi, L
  <2>6. /\ d \in Seq(Tasks) /\ Len(d) = Len(lo) + Len(hi)
        /\ \A i \in 1..(Len(lo) + Len(hi)) : d[i] = IF i <= Len(lo) THEN lo[i] ELSE hi[i - Len(lo)]
    BY <2>2, <2>4, <2>5, ConcatProperties
  <2>7. Len(lo) + Len(hi) = L - 1
    BY <2>3, <2>4, <2>5
  <2>8. DOMAIN d = 1..(L - 1)
    <3>1. DOMAIN d = 1..Len(d)
      BY <2>6, LenProperties
    <3>2. QED
      BY <2>6, <2>7, <3>1
  <2>9. \A i \in 1..(L - 1) : d[i] = IF i < x THEN q[i] ELSE q[i + 1]
    <3> SUFFICES ASSUME NEW i \in 1..(L - 1) PROVE d[i] = IF i < x THEN q[i] ELSE q[i + 1]
      OBVIOUS
    <3>1. CASE i < x
      <4>1. i <= Len(lo) /\ i \in 1..(x - 1)
        BY <2>3, <2>4, <3>1
      <4>2. d[i] = lo[i]
        BY <2>6, <2>7, <4>1
      <4>3. QED
        BY <2>4, <3>1, <4>1, <4>2
    <3>2. CASE ~(i < x)
      <4>1. ~(i <= Len(lo)) /\ i - Len(lo) = i - (x - 1) /\ i - (x - 1) \in 1..(L - x) /\ x + (i - (x - 1)) = i + 1
        BY <2>3, <2>4, <3>2
      <4>2. d[i] = hi[i - Len(lo)]
        BY <2>6, <2>7, <4>1
      <4>3. hi[i - (x - 1)] = q[x + (i - (x - 1))]
        BY <2>5, <4>1
      <4>4. d[i] = q[i + 1]
        BY <4>1, <4>2, <4>3
      <4>5. QED
        BY <3>2, <4>4
    <3>3. QED
      BY <3>1, <3>2
  <2> DEFINE at(i) == IF i < x THEN i ELSE i + 1
  <2>10. \A i \in DOMAIN d : at(i) \in DOMAIN q /\ at(i) # x /\ at(i) >= i /\ d[i] = q[at(i)]
    BY <1>0, <2>3, <2>8, <2>9 DEF L
  <2>11. \A i, j \in DOMAIN d : (at(i) = at(j) => i = j) /\ (j <= i => at(j) <= at(i))
    BY <2>3, <2>8
  <2>12. \A k \in DOMAIN q : k # x => \E i \in DOMAIN d : i <= k /\ at(i) = k
    <3> SUFFICES ASSUME NEW k \in DOMAIN q, k # x PROVE \E i \in DOMAIN d : i <= k /\ at(i) = k
      OBVIOUS
    <3>1. k \in 1..L
      BY <1>0 DEF L
    <3>2. CASE k < x
      BY <2>3, <2>8, <3>1, <3>2
    <3>3. CASE ~(k < x)
      <4>1. k - 1 \in DOMAIN d /\ k - 1 <= k /\ at(k - 1) = k
        BY <2>3, <2>8, <3>1, <3>3
      <4>2. QED
        BY <4>1
    <3>4. QED
      BY <3>2, <3>3
  <2> HIDE DEF at
  <2>13. \A i \in DOMAIN d : d[i] # t
    BY <2>1, <2>10
  <2>14. \A i, j \in DOMAIN d : d[i] = d[j] => i = j
    BY <2>10, <2>11
  <2>15. \A k \in DOMAIN q : q[k] # t => \E i \in DOMAIN d : i <= k /\ d[i] = q[k]
    BY <2>1, <2>10, <2>12
  <2>16. \A i \in DOMAIN d, k \in DOMAIN q : \A j \in DOMAIN d :
            j <= i /\ d[i] = q[k] => \E m \in DOMAIN q : m <= k /\ d[j] = q[m]
    BY <2>10, <2>11
  <2>17. QED
    BY <2>6, <2>10, <2>13, <2>14, <2>15, <2>16
<1>3. QED
  BY <1>1, <1>2

-----------------------------------------------------------------------------
(***************************************************************************)
(* The invariant.                                                          *)
(***************************************************************************)

\* The lane before anybody came.
LEMMA InitIInv == Init => IInv
<1> SUFFICES ASSUME Init PROVE IInv
  OBVIOUS
<1>1. /\ holders = {} /\ waiters = <<>> /\ exists = FALSE /\ limit \in Limits
      /\ \A t \in Tasks : pc[t] = "idle" /\ fut[t] = "none"
  BY DEF Init
<1>2. fut \in [Tasks -> {"none", "pending", "done", "cancelled"}] /\ pc \in [Tasks -> Stages]
  BY DEF Init, Stages
<1>3. cancelled \in [Tasks -> BOOLEAN]
  BY DEF Init
<1>4. TypeOK
  <2>1. exists \in BOOLEAN
    BY <1>1, Zenon
  <2>2. waiters \in Seq(Tasks) /\ holders \in SUBSET Tasks
    BY <1>1
  <2>3. QED
    BY <1>1, <1>2, <1>3, <2>1, <2>2, Zenon DEF TypeOK
<1>5. Sound(holders, waiters, fut, pc)
  BY <1>1 DEF Sound
<1>6. QED
  BY <1>1, <1>4, <1>5 DEF IInv

\* A reservation, for the newcomer and for those that the new limit admits.
LEMMA ReserveSlotIInv ==
    ASSUME IInv, NEW t \in Tasks, NEW n \in Limits, ReserveSlot(t, n)
    PROVE  IInv'
<1> DEFINE a == Admit(n, holders, waiters)
           f == WakeUp(fut, a.woken)
<1>1. /\ TypeOK /\ Sound(holders, waiters, fut, pc) /\ pc[t] = "launched"
      /\ fut \in [Tasks -> Futures] /\ pc \in [Tasks -> Stages]
  BY DEF IInv, ReserveSlot, TypeOK, Futures
<1>2. t \notin {waiters[i] : i \in DOMAIN waiters} /\ t \notin holders /\ fut[t] = "none"
  BY <1>1 DEF Sound
<1>3. /\ a.holders \in SUBSET Tasks /\ a.waiters \in Seq(Tasks)
      /\ f \in [Tasks -> Futures]
      /\ Sound(a.holders, a.waiters, f, pc)
      /\ f[t] = fut[t] /\ t \notin a.holders
      /\ \A i \in DOMAIN a.waiters : a.waiters[i] # t
  <2> DEFINE ad == a
  <2>1. holders \in SUBSET Tasks /\ waiters \in Seq(Tasks) /\ ad = Admit(n, holders, waiters)
    BY <1>1 DEF TypeOK
  <2> HIDE DEF ad
  <2>2. /\ ad.holders \in SUBSET Tasks /\ ad.waiters \in Seq(Tasks)
        /\ WakeUp(fut, ad.woken) \in [Tasks -> Futures]
        /\ Sound(ad.holders, ad.waiters, WakeUp(fut, ad.woken), pc)
        /\ Spares(ad, holders, waiters, fut)
    BY <1>1, <2>1, AdmitSound
  <2>3. QED
    BY <1>2, <2>2 DEF ad, Spares
<1>4. exists' = TRUE /\ limit' = n /\ cancelled' = cancelled
  BY DEF ReserveSlot
<1> HIDE DEF f
<1>5. CASE HasCapacity(n, a.holders) /\ a.waiters = <<>>
  <2>1. /\ holders' = a.holders \cup {t} /\ waiters' = a.waiters /\ fut' = f
        /\ pc' = [pc EXCEPT ![t] = "admitted"]
    BY <1>5, Zenon DEF ReserveSlot, f
  <2> HIDE DEF a
  <2>2. TypeOK'
    BY <1>1, <1>3, <1>4, <2>1 DEF TypeOK, Stages, Futures
  <2>3. Sound(a.holders \cup {t}, a.waiters, f, pc')
    BY <1>1, <1>2, <1>3, <2>1 DEF Sound, Stages
  <2>4. QED
    BY <1>4, <2>1, <2>2, <2>3 DEF IInv
<1>6. CASE ~(HasCapacity(n, a.holders) /\ a.waiters = <<>>)
  <2>1. /\ holders' = a.holders /\ waiters' = Append(a.waiters, t)
        /\ fut' = [f EXCEPT ![t] = "pending"] /\ pc' = [pc EXCEPT ![t] = "notifying"]
    BY <1>6, Zenon DEF ReserveSlot, f
  <2> DEFINE w == Append(a.waiters, t)
             g == [f EXCEPT ![t] = "pending"]
  <2> HIDE DEF a
  <2>2. TypeOK'
    <3>1. w \in Seq(Tasks)
      BY <1>3
    <3>2. g \in [Tasks -> Futures]
      BY <1>3 DEF Futures
    <3>3. pc' \in [Tasks -> Stages]
      BY <1>1, <2>1 DEF Stages
    <3>4. QED
      BY <1>1, <1>3, <1>4, <2>1, <3>1, <3>2, <3>3 DEF TypeOK, Futures
  <2>3. /\ DOMAIN w = 1..(Len(a.waiters) + 1) /\ w[Len(a.waiters) + 1] = t
        /\ DOMAIN a.waiters = 1..Len(a.waiters) /\ Len(a.waiters) \in Nat
        /\ \A i \in DOMAIN a.waiters : w[i] = a.waiters[i] /\ a.waiters[i] \in Tasks
    BY <1>3
  <2> HIDE DEF w
  <2>4. \A i \in DOMAIN w : i \in DOMAIN a.waiters \/ (i = Len(a.waiters) + 1 /\ i \notin DOMAIN a.waiters)
    BY <2>3
  <2>5. g[t] = "pending" /\ \A u \in Tasks : u # t => g[u] = f[u] /\ pc'[u] = pc[u]
    BY <1>1, <1>3, <2>1
  <2> HIDE DEF g
  <2>6. pc'[t] = "notifying"
    BY <1>1, <2>1
  <2>7. ASSUME NEW u \in Tasks
        PROVE  /\ pc'[u] \in {"admitted", "running"} => u \in a.holders
               /\ pc'[u] \in {"idle", "launched"} => u \notin a.holders /\ g[u] = "none"
               /\ pc'[u] \in {"notifying", "waiting"} => (u \in a.holders <=> g[u] = "done")
               /\ g[u] = "cancelled" => u \notin a.holders
    <3>1. CASE u = t
      BY <1>3, <2>5, <2>6, <3>1
    <3>2. CASE u # t
      BY <1>3, <2>5, <3>2 DEF Sound
    <3>3. QED
      BY <3>1, <3>2
  <2>8. \A i, j \in DOMAIN w : w[i] = w[j] => i = j
    BY <1>3, <2>3, <2>4 DEF Sound
  <2>9. ASSUME NEW i \in DOMAIN w
        PROVE  /\ pc'[w[i]] \in {"notifying", "waiting", "leaving"}
               /\ g[w[i]] \in {"pending", "cancelled"}
               /\ w[i] \notin a.holders
    <3>1. CASE i \in DOMAIN a.waiters
      BY <1>3, <2>3, <2>5, <3>1 DEF Sound
    <3>2. CASE i = Len(a.waiters) + 1
      BY <1>3, <2>3, <2>5, <2>6, <3>2
    <3>3. QED
      BY <2>4, <3>1, <3>2
  <2>10. ASSUME NEW u \in Tasks, pc'[u] \in {"notifying", "waiting"}, g[u] = "pending"
         PROVE  \E i \in DOMAIN w : w[i] = u
    <3>1. CASE u = t
      BY <2>3, <3>1
    <3>2. CASE u # t
      <4>1. PICK i \in DOMAIN a.waiters : a.waiters[i] = u
        BY <1>3, <2>5, <2>10, <3>2 DEF Sound
      <4>2. i \in DOMAIN w /\ w[i] = u
        BY <2>3, <4>1
      <4>3. QED
        BY <4>2
    <3>3. QED
      BY <3>1, <3>2
  <2>11. Sound(a.holders, w, g, pc')
    BY <2>7, <2>8, <2>9, <2>10 DEF Sound
  <2>12. QED
    BY <1>4, <2>1, <2>2, <2>11 DEF IInv, w, g
<1>7. QED
  BY <1>5, <1>6

\* The books without a task that is leaving are sound.
LEMMA LeavingSound ==
    ASSUME IInv, NEW t \in Tasks, pc[t] = "leaving", NEW d, d = Dequeued(waiters, t)
    PROVE  /\ d \in Seq(Tasks) /\ t \notin {d[i] : i \in DOMAIN d}
           /\ Sound(holders \ {t}, d, fut, pc)
<1>1. waiters \in Seq(Tasks) /\ Sound(holders, waiters, fut, pc)
  BY DEF IInv, TypeOK
<1>2. \A i, j \in DOMAIN waiters : waiters[i] = waiters[j] => i = j
  BY <1>1 DEF Sound
<1>3. /\ d \in Seq(Tasks)
      /\ \A i \in DOMAIN d : d[i] # t
      /\ \A i \in DOMAIN d : \E k \in DOMAIN waiters : k >= i /\ d[i] = waiters[k]
      /\ \A i, j \in DOMAIN d : d[i] = d[j] => i = j
      /\ \A k \in DOMAIN waiters : waiters[k] # t => \E i \in DOMAIN d : i <= k /\ d[i] = waiters[k]
  BY <1>1, <1>2, DequeuedKeeps
<1>4. \A i \in DOMAIN d :
         /\ pc[d[i]] \in {"notifying", "waiting", "leaving"}
         /\ fut[d[i]] \in {"pending", "cancelled"}
         /\ d[i] \notin holders \ {t}
  BY <1>1, <1>3 DEF Sound
<1>5. ASSUME NEW u \in Tasks, pc[u] \in {"notifying", "waiting"}, fut[u] = "pending"
      PROVE  \E i \in DOMAIN d : d[i] = u
  <2>1. PICK k \in DOMAIN waiters : waiters[k] = u
    BY <1>1, <1>5 DEF Sound
  <2>2. u # t
    BY <1>5
  <2>3. QED
    BY <1>3, <2>1, <2>2
<1>6. ASSUME NEW u \in Tasks
      PROVE  /\ pc[u] \in {"admitted", "running"} => u \in holders \ {t}
             /\ pc[u] \in {"idle", "launched"} => u \notin holders \ {t} /\ fut[u] = "none"
             /\ pc[u] \in {"notifying", "waiting"} => (u \in holders \ {t} <=> fut[u] = "done")
             /\ fut[u] = "cancelled" => u \notin holders \ {t}
  <2>1. CASE u = t
    BY <1>1, <2>1 DEF Sound
  <2>2. CASE u # t
    BY <1>1, <2>2 DEF Sound
  <2>3. QED
    BY <2>1, <2>2
<1>7. QED
  BY <1>3, <1>4, <1>5, <1>6 DEF Sound

\* A task that is out of the lane may go.
LEMMA GoneSound ==
    ASSUME NEW t \in Tasks, NEW hs, NEW q \in Seq(Tasks), NEW f \in [Tasks -> Futures],
           pc \in [Tasks -> Stages], Sound(hs, q, f, pc), t \notin hs,
           \A i \in DOMAIN q : q[i] # t
    PROVE  Sound(hs, q, [f EXCEPT ![t] = "none"], [pc EXCEPT ![t] = "idle"])
<1> DEFINE g == [f EXCEPT ![t] = "none"]
           p == [pc EXCEPT ![t] = "idle"]
<1>1. /\ g[t] = "none" /\ p[t] = "idle"
      /\ \A u \in Tasks : u # t => g[u] = f[u] /\ p[u] = pc[u]
  OBVIOUS
<1> HIDE DEF g, p
<1>2. \A i \in DOMAIN q : q[i] \in Tasks /\ q[i] # t
  OBVIOUS
<1>3. ASSUME NEW u \in Tasks
      PROVE  /\ p[u] \in {"admitted", "running"} => u \in hs
             /\ p[u] \in {"idle", "launched"} => u \notin hs /\ g[u] = "none"
             /\ p[u] \in {"notifying", "waiting"} => (u \in hs <=> g[u] = "done")
             /\ g[u] = "cancelled" => u \notin hs
  <2>1. CASE u = t
    BY <1>1, <2>1
  <2>2. CASE u # t
    BY <1>1, <2>2 DEF Sound
  <2>3. QED
    BY <2>1, <2>2
<1>4. \A i \in DOMAIN q :
         /\ p[q[i]] \in {"notifying", "waiting", "leaving"}
         /\ g[q[i]] \in {"pending", "cancelled"}
         /\ q[i] \notin hs
  BY <1>1, <1>2 DEF Sound
<1>5. \A u \in Tasks : (p[u] \in {"notifying", "waiting"} /\ g[u] = "pending") => \E i \in DOMAIN q : q[i] = u
  BY <1>1 DEF Sound
<1>6. \A i, j \in DOMAIN q : q[i] = q[j] => i = j
  BY DEF Sound
<1>7. Sound(hs, q, g, p)
  BY <1>3, <1>4, <1>5, <1>6 DEF Sound
<1>8. QED
  BY <1>7 DEF g, p

\* The cleanup takes the task out of the books and admits whom that makes room
\* for.
LEMMA CleanupIInv == ASSUME IInv, NEW t \in Tasks, Cleanup(t) PROVE IInv'
<1> DEFINE hs == holders \ {t}
           d == Dequeued(waiters, t)
           a == Admit(limit, hs, d)
           f == WakeUp(fut, IF exists THEN a.woken ELSE {})
<1>1. /\ TypeOK /\ Sound(holders, waiters, fut, pc) /\ pc[t] = "leaving"
      /\ fut \in [Tasks -> Futures] /\ pc \in [Tasks -> Stages] /\ exists \in BOOLEAN
      /\ ~exists => holders = {} /\ waiters = <<>>
      /\ holders \in SUBSET Tasks /\ waiters \in Seq(Tasks)
  BY DEF IInv, Cleanup, TypeOK, Futures
<1>2. /\ pc' = [pc EXCEPT ![t] = "idle"]
      /\ holders' = IF exists THEN a.holders ELSE holders
      /\ waiters' = IF exists THEN a.waiters ELSE waiters
      /\ exists' = (exists /\ (a.holders # {} \/ a.waiters # <<>>))
      /\ fut' = [f EXCEPT ![t] = "none"]
      /\ limit' = limit /\ cancelled' = cancelled
  BY DEF Cleanup
<1>3. /\ d \in Seq(Tasks) /\ t \notin {d[i] : i \in DOMAIN d} /\ Sound(hs, d, fut, pc)
      /\ hs \in SUBSET Tasks /\ t \notin hs
  BY <1>1, LeavingSound
<1>4. /\ a.holders \in SUBSET Tasks /\ a.waiters \in Seq(Tasks)
      /\ WakeUp(fut, a.woken) \in [Tasks -> Futures]
      /\ Sound(a.holders, a.waiters, WakeUp(fut, a.woken), pc)
      /\ Spares(a, hs, d, fut)
  <2> DEFINE ad == a
  <2>1. ad = Admit(limit, hs, d)
    OBVIOUS
  <2> HIDE DEF ad, hs, d
  <2>2. QED
    BY <1>1, <1>3, <2>1, AdmitSound DEF ad
<1> HIDE DEF a, d, hs
<1>5. CASE exists
  <2>1. /\ holders' = a.holders /\ waiters' = a.waiters /\ f = WakeUp(fut, a.woken)
    BY <1>2, <1>5
  <2>2. t \notin a.holders /\ \A i \in DOMAIN a.waiters : a.waiters[i] # t
    BY <1>3, <1>4 DEF Spares
  <2> HIDE DEF f
  <2>3. f \in [Tasks -> Futures] /\ Sound(a.holders, a.waiters, f, pc)
    BY <1>4, <2>1
  <2>4. Sound(holders', waiters', fut', pc')
    BY <1>1, <1>2, <1>4, <2>1, <2>2, <2>3, GoneSound
  <2>5. fut' \in [Tasks -> Futures] /\ pc' \in [Tasks -> Stages]
    BY <1>1, <1>2, <2>3 DEF Futures, Stages
  <2>6. exists' \in BOOLEAN
    BY <1>2
  <2>7. ~exists' => holders' = {} /\ waiters' = <<>>
    BY <1>2, <1>5, <2>1
  <2>8. QED
    BY <1>1, <1>2, <1>4, <2>1, <2>4, <2>5, <2>6, <2>7 DEF IInv, TypeOK, Futures
<1>6. CASE ~exists
  <2>1. holders' = {} /\ waiters' = <<>> /\ f = WakeUp(fut, {}) /\ holders = {} /\ waiters = <<>>
    BY <1>1, <1>2, <1>6
  <2>2. f = fut
    BY <1>1, <2>1 DEF WakeUp
  <2> HIDE DEF f
  <2>3. Sound(holders', waiters', fut', pc')
    <3>1. Sound({}, <<>>, fut, pc) /\ <<>> \in Seq(Tasks) /\ \A i \in DOMAIN <<>> : <<>>[i] # t
      BY <1>1, <2>1
    <3>2. QED
      BY <1>1, <1>2, <2>1, <2>2, <3>1, GoneSound
  <2>4. fut' \in [Tasks -> Futures] /\ pc' \in [Tasks -> Stages]
    BY <1>1, <1>2, <2>2 DEF Futures, Stages
  <2>5. exists' \in BOOLEAN
    BY <1>2
  <2>6. QED
    BY <1>1, <1>2, <2>1, <2>3, <2>4, <2>5 DEF IInv, TypeOK, Futures
<1>7. QED
  BY <1>1, <1>5, <1>6

\* The steps that leave the lane itself alone.
LEMMA AsideIInv ==
    ASSUME IInv, NEW t \in Tasks,
           \/ Launch(t) \/ AwaitSlot(t) \/ SlotGranted(t) \/ Run(t) \/ Finish(t)
           \/ Cancel(t) \/ DeliverCancel(t)
    PROVE  IInv'
<1>1. /\ TypeOK /\ Sound(holders, waiters, fut, pc)
      /\ holders' = holders /\ waiters' = waiters /\ exists' = exists /\ limit' = limit
      /\ waiters \in Seq(Tasks) /\ pc \in [Tasks -> Stages] /\ cancelled \in [Tasks -> BOOLEAN]
      /\ fut \in [Tasks -> Futures]
  BY DEF IInv, TypeOK, lane, Launch, AwaitSlot, SlotGranted, Run, Finish, Cancel, DeliverCancel, Futures
<1>2. /\ pc' \in [Tasks -> Stages] /\ \A u \in Tasks : u # t => pc'[u] = pc[u]
      /\ fut' \in [Tasks -> Futures] /\ \A u \in Tasks : u # t => fut'[u] = fut[u]
  BY <1>1 DEF Launch, AwaitSlot, SlotGranted, Run, Finish, Cancel, DeliverCancel, Stages, Futures
<1>3. cancelled' \in [Tasks -> BOOLEAN]
  BY <1>1 DEF Launch, AwaitSlot, SlotGranted, Run, Finish, Cancel, DeliverCancel
<1>4. \/ pc[t] = "idle" /\ pc'[t] = "launched" /\ fut'[t] = fut[t]
      \/ pc[t] = "notifying" /\ pc'[t] = "waiting" /\ fut'[t] = fut[t]
      \/ pc[t] = "waiting" /\ pc'[t] = "admitted" /\ fut[t] = "done" /\ fut'[t] = fut[t]
      \/ pc[t] = "admitted" /\ pc'[t] = "running" /\ fut'[t] = fut[t]
      \/ pc'[t] = "leaving" /\ fut'[t] = fut[t]
      \/ pc'[t] = pc[t] /\ fut'[t] = fut[t]
      \/ pc'[t] = pc[t] /\ pc[t] = "waiting" /\ fut[t] = "pending" /\ fut'[t] = "cancelled"
  BY <1>1 DEF Launch, AwaitSlot, SlotGranted, Run, Finish, Cancel, DeliverCancel
<1>5. \A i \in DOMAIN waiters : waiters[i] \in Tasks
  BY <1>1
<1>6. ASSUME NEW u \in Tasks
      PROVE  /\ pc'[u] \in {"admitted", "running"} => u \in holders
             /\ pc'[u] \in {"idle", "launched"} => u \notin holders /\ fut'[u] = "none"
             /\ pc'[u] \in {"notifying", "waiting"} => (u \in holders <=> fut'[u] = "done")
             /\ fut'[u] = "cancelled" => u \notin holders
             /\ pc'[u] \in {"notifying", "waiting"} /\ fut'[u] = "pending" => \E i \in DOMAIN waiters : waiters[i] = u
  <2>1. CASE u # t
    BY <1>1, <1>2, <2>1 DEF Sound
  <2>2. CASE u = t
    BY <1>1, <1>4, <2>2 DEF Sound
  <2>3. QED
    BY <2>1, <2>2
<1>7. ASSUME NEW i \in DOMAIN waiters
      PROVE  /\ pc'[waiters[i]] \in {"notifying", "waiting", "leaving"}
             /\ fut'[waiters[i]] \in {"pending", "cancelled"}
             /\ waiters[i] \notin holders
  <2>1. /\ pc[waiters[i]] \in {"notifying", "waiting", "leaving"}
        /\ fut[waiters[i]] \in {"pending", "cancelled"}
        /\ waiters[i] \notin holders /\ waiters[i] \in Tasks
    BY <1>1, <1>5 DEF Sound
  <2>2. CASE waiters[i] # t
    BY <1>2, <2>1, <2>2
  <2>3. CASE waiters[i] = t
    BY <1>4, <2>1, <2>3
  <2>4. QED
    BY <2>2, <2>3
<1>8. Sound(holders', waiters', fut', pc')
  BY <1>1, <1>6, <1>7 DEF Sound
<1>9. QED
  BY <1>1, <1>2, <1>3, <1>8 DEF IInv, TypeOK, Futures

\* Every step keeps the invariant.
LEMMA NextIInv == IInv /\ [Next]_vars => IInv'
<1> SUFFICES ASSUME IInv, [Next]_vars PROVE IInv'
  OBVIOUS
<1>1. CASE UNCHANGED vars
  BY <1>1 DEF vars, IInv, TypeOK, Sound
<1>2. ASSUME NEW t \in Tasks, Launch(t) \/ LaneStep(t) \/ Finish(t) \/ Cancel(t) PROVE IInv'
  <2>1. CASE \E n \in Limits : ReserveSlot(t, n)
    BY <2>1, ReserveSlotIInv
  <2>2. QED
    BY <1>2, <2>1, CleanupIInv, AsideIInv DEF LaneStep
<1>3. QED
  BY <1>1, <1>2 DEF Next

\* The lane's books are in order in every reachable state.
THEOREM AlwaysIInv == Spec => []IInv
<1>1. Init => IInv
  BY InitIInv
<1>2. IInv /\ [Next]_vars => IInv'
  BY NextIInv
<1>3. QED
  BY <1>1, <1>2, PTL DEF Spec

\* For any number of delegates, whatever limits they bring along and however
\* they are cancelled, run_with_concurrency keeps holders, waiters and futures
\* in agreement with where each task is.
THEOREM SlotsAccountedFor == Spec => []SlotAccounting
<1>1. IInv => SlotAccounting
  BY DEF IInv, Sound, SlotAccounting
<1>2. QED
  BY <1>1, AlwaysIInv, PTL
-----------------------------------------------------------------------------
(***************************************************************************)
(* The order of admission.                                                 *)
(***************************************************************************)

\* The waiter at place i is not passed over by the admission of t.
NotPassed(q, i, hs, t) ==
    \/ q[i] \in hs
    \/ fut[q[i]] = "cancelled"
    \/ \E j \in DOMAIN q : j <= i /\ q[j] = t

\* _admit_concurrency_waiters passes over nobody.
LEMMA AdmitInOrder ==
    ASSUME NEW hs, NEW q \in Seq(Tasks), NEW lim, NEW a, a = Admit(lim, hs, q)
    PROVE  /\ \A t \in a.holders \ hs : \A i \in DOMAIN q : NotPassed(q, i, a.holders, t)
           /\ a.waiters = <<>> => \A i \in DOMAIN q : q[i] \in a.holders \/ fut[q[i]] = "cancelled"
<1>1. PICK n \in 0..Len(q) : Serves(a, hs, q, n)
  BY AdmitServes
<1>2. /\ a.holders = hs \cup AdmittedAmong(q, n)
      /\ Len(a.waiters) = Len(q) - n
  BY <1>1 DEF Serves
<1>3. DOMAIN q = 1..Len(q) /\ Len(q) \in Nat /\ n \in Nat /\ n <= Len(q)
  OBVIOUS
<1>4. \A t : t \in AdmittedAmong(q, n) <=> \E i \in DOMAIN q : i <= n /\ q[i] = t /\ fut[t] # "cancelled"
  <2>1. \A i : i \in 1..n <=> (i \in DOMAIN q /\ i <= n)
    BY <1>3
  <2>2. QED
    BY <2>1 DEF AdmittedAmong
<1>5. ASSUME NEW i \in DOMAIN q, i <= n PROVE q[i] \in a.holders \/ fut[q[i]] = "cancelled"
  BY <1>2, <1>4, <1>5
<1>6. ASSUME NEW t \in a.holders \ hs, NEW i \in DOMAIN q PROVE NotPassed(q, i, a.holders, t)
  <2>1. PICK j \in DOMAIN q : j <= n /\ q[j] = t
    BY <1>2, <1>4
  <2>2. i <= n \/ j <= i
    BY <1>3, <2>1
  <2>3. QED
    BY <1>5, <2>1, <2>2 DEF NotPassed
<1>7. ASSUME a.waiters = <<>>, NEW i \in DOMAIN q PROVE q[i] \in a.holders \/ fut[q[i]] = "cancelled"
  <2>1. Len(q) - n = 0
    BY <1>2, <1>7
  <2>2. i <= n
    BY <1>3, <2>1
  <2>3. QED
    BY <1>5, <2>2
<1>8. QED
  BY <1>6, <1>7

\* The step keeps the order of admission.
InOrder ==
    \A t \in holders' \ holders : \A i \in DOMAIN waiters :
        NotPassed(waiters, i, holders', t) \/ pc[waiters[i]] = "leaving"

\* A reservation admits in order; the newcomer enters behind everybody.
LEMMA ReserveSlotInOrder ==
    ASSUME IInv, NEW t \in Tasks, NEW n \in Limits, ReserveSlot(t, n)
    PROVE  InOrder
<1> DEFINE a == Admit(n, holders, waiters)
<1>1. waiters \in Seq(Tasks)
  BY DEF IInv, TypeOK
<1>2. \/ a.waiters = <<>> /\ holders' = a.holders \cup {t}
      \/ holders' = a.holders
  BY Zenon DEF ReserveSlot
<1>3. /\ \A u \in a.holders \ holders : \A i \in DOMAIN waiters : NotPassed(waiters, i, a.holders, u)
      /\ a.waiters = <<>> => \A i \in DOMAIN waiters : waiters[i] \in a.holders \/ fut[waiters[i]] = "cancelled"
  BY <1>1, AdmitInOrder
<1> HIDE DEF a
<1>4. a.holders \subseteq holders'
  BY <1>2
<1>5. ASSUME NEW u \in holders' \ holders, NEW i \in DOMAIN waiters
      PROVE  NotPassed(waiters, i, holders', u)
  <2>1. CASE u \in a.holders
    BY <1>3, <1>4, <2>1 DEF NotPassed
  <2>2. CASE u \notin a.holders
    <3>1. a.waiters = <<>>
      BY <1>2, <2>2
    <3>2. QED
      BY <1>3, <1>4, <3>1 DEF NotPassed
  <2>3. QED
    BY <2>1, <2>2
<1>6. QED
  BY <1>5 DEF InOrder

\* A cleanup admits in order those that stay in the queue.
LEMMA CleanupInOrder ==
    ASSUME IInv, NEW t \in Tasks, Cleanup(t)
    PROVE  InOrder
<1> DEFINE d == Dequeued(waiters, t)
           a == Admit(limit, holders \ {t}, d)
<1>1. waiters \in Seq(Tasks) /\ \A i, j \in DOMAIN waiters : waiters[i] = waiters[j] => i = j
  BY DEF IInv, TypeOK, Sound
<1>2. pc[t] = "leaving" /\ (holders' = a.holders \/ holders' = holders)
  BY Zenon DEF Cleanup
<1>3. /\ d \in Seq(Tasks)
      /\ \A i \in DOMAIN d : \E k \in DOMAIN waiters : k >= i /\ d[i] = waiters[k]
      /\ \A k \in DOMAIN waiters : waiters[k] # t => \E i \in DOMAIN d : i <= k /\ d[i] = waiters[k]
      /\ \A i \in DOMAIN d, k \in DOMAIN waiters : \A j \in DOMAIN d :
            j <= i /\ d[i] = waiters[k] => \E m \in DOMAIN waiters : m <= k /\ d[j] = waiters[m]
  BY <1>1, DequeuedKeeps
<1> HIDE DEF d
<1>4. \A u \in a.holders \ (holders \ {t}) : \A i \in DOMAIN d : NotPassed(d, i, a.holders, u)
  BY <1>3, AdmitInOrder
<1> HIDE DEF a
<1>5. ASSUME NEW u \in holders' \ holders, NEW k \in DOMAIN waiters, waiters[k] # t
      PROVE  NotPassed(waiters, k, holders', u)
  <2>1. u \in a.holders \ (holders \ {t}) /\ holders' = a.holders
    BY <1>2
  <2>2. PICK i \in DOMAIN d : d[i] = waiters[k]
    BY <1>3, <1>5
  <2>3. NotPassed(d, i, a.holders, u)
    BY <1>4, <2>1
  <2>4. CASE \E j \in DOMAIN d : j <= i /\ d[j] = u
    <3>1. PICK j \in DOMAIN d : j <= i /\ d[j] = u
      BY <2>4
    <3>2. \E m \in DOMAIN waiters : m <= k /\ d[j] = waiters[m]
      BY <1>3, <2>2, <3>1
    <3>3. QED
      BY <3>1, <3>2 DEF NotPassed
  <2>5. QED
    BY <2>1, <2>2, <2>3, <2>4 DEF NotPassed
<1>6. QED
  BY <1>2, <1>5 DEF InOrder

\* For any number of delegates and any changes of the limit, nobody is admitted
\* past an earlier waiter that still wants the slot.
THEOREM FirstComeFirstServed == Spec => AdmissionInOrder
<1>1. ASSUME IInv, [Next]_vars, ~UNCHANGED vars
      PROVE  InOrder
  <2>1. PICK t \in Tasks : Launch(t) \/ LaneStep(t) \/ Finish(t) \/ Cancel(t)
    BY <1>1 DEF Next
  <2>2. CASE \E n \in Limits : ReserveSlot(t, n)
    BY <1>1, <2>2, ReserveSlotInOrder
  <2>3. CASE Cleanup(t)
    BY <1>1, <2>3, CleanupInOrder
  <2>4. CASE holders' = holders
    BY <2>4 DEF InOrder
  <2>5. QED
    BY <2>1, <2>2, <2>3, <2>4
       DEF LaneStep, Launch, AwaitSlot, SlotGranted, Run, Finish, Cancel, DeliverCancel, lane
<1>2. ASSUME IInv, InOrder
      PROVE  \A t \in holders' \ holders : \A i \in DOMAIN waiters :
                \/ waiters[i] \in holders'
                \/ fut[waiters[i]] = "cancelled"
                \/ pc[waiters[i]] = "leaving"
                \/ \E j \in 1..i : waiters[j] = t
  <2>1. \A i, j \in DOMAIN waiters : j <= i => j \in 1..i
    BY <1>2 DEF IInv, TypeOK
  <2>2. QED
    BY <1>2, <2>1 DEF InOrder, NotPassed
<1>3. IInv /\ [Next]_vars => [\A t \in holders' \ holders : \A i \in DOMAIN waiters :
                \/ waiters[i] \in holders'
                \/ fut[waiters[i]] = "cancelled"
                \/ pc[waiters[i]] = "leaving"
                \/ \E j \in 1..i : waiters[j] = t]_vars
  BY <1>1, <1>2
<1>4. QED
  BY <1>3, AlwaysIInv, PTL DEF Spec, AdmissionInOrder
=============================================================================
