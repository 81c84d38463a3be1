---------------------------- MODULE HistoryProofs ----------------------------
(***************************************************************************)
(* Proofs about ChatHistory: whatever sequence of turns, forks, deletions  *)
(* and reductions a session goes through, its effective history stands for *)
(* its canonical messages, a checkpoint was authored from messages the     *)
(* session holds, and it is committed over the history its author read.    *)
(***************************************************************************)
EXTENDS ChatHistory, FiniteSetTheorems, SequenceTheorems, WellFoundedInduction, TLAPS

Kinds == {"user", "text", "call", "reply"}
Pairs == Sessions \X Nat
Entries == [kind : Kinds \cup {"card", "map"}, covers : SUBSET Pairs, origin : Nat]
Marks == [kind : {"card", "map"}, last : Nat, obs : Nat, repl : Seq(Entries),
          seen : SUBSET Pairs]
Work == {Idle}
        \cup [st : {"asked"}, s : Sessions, path : {"card", "map"}]
        \cup [st : {"asked"}, s : Sessions, path : {"upgrade"}, from : Nat]
        \cup [st : {"authoring"}, s : Sessions, path : {"card", "map", "upgrade"},
              rev : Nat, mark : Marks, read : Seq(Entries)]

-----------------------------------------------------------------------------
(***************************************************************************)
(* What a history `es` owes to the first n canonical messages of `r`.      *)
(***************************************************************************)

\* A reply follows its call, and only the last entry may be an open call.
Paired(es) ==
    \A i \in 1..Len(es) :
        /\ es[i].kind = "reply" => i > 1 /\ es[i - 1].kind = "call"
        /\ es[i].kind = "call" => i = Len(es) \/ es[i + 1].kind = "reply"

\* Earlier entries stand for earlier messages.
Ordered(es) ==
    \A i, k \in 1..Len(es) : i < k =>
        \A x \in es[i].covers, y \in es[k].covers : x[2] < y[2]

\* The entries of `es` stand for the messages through n and no others.
SameCover(es, r, n) ==
    /\ \A i \in 1..Len(es) : \A x \in es[i].covers : \E k \in 1..n : x \in r[k].covers
    /\ \A k \in 1..n : \A x \in r[k].covers : \E i \in 1..Len(es) : x \in es[i].covers

OpenAt(es, n) == n > 0 /\ es[n].kind = "call"

Summary(es, r, n) ==
    /\ es \in Seq(Entries) /\ n \in 0..Len(r) /\ (n = 0 <=> es = <<>>)
    /\ SameCover(es, r, n)
    /\ Ordered(es)
    /\ Paired(es)
    /\ OpenAt(es, Len(es)) <=> OpenAt(r, n)

\* Canonical messages: each stands for itself.
Canonical(r) ==
    /\ r \in Seq(Entries)
    /\ \A i \in 1..Len(r) : /\ r[i].kind \in Kinds
                            /\ r[i].origin = i
                            /\ \A x \in r[i].covers : x[2] = i
    /\ Paired(r)

\* A checkpoint depends on the messages through `obs` alone.
Known(seen, r, n) == \A x \in seen : \E k \in 1..n : x \in r[k].covers
Stands(m, r) ==
    /\ Summary(m.repl, r, m.last)
    /\ m.obs \in m.last..Len(r)
    /\ Known(m.seen, r, m.obs)
Faithful(m, r) == m \in Marks /\ m.last > 0 /\ Stands(m, r)

TypeInv ==
    /\ state \in [Sessions -> {"new", "live", "gone"}]
    /\ raw \in [Sessions -> Seq(Entries)]
    /\ marks \in [Sessions -> Seq(Marks)]
    /\ rev \in [Sessions -> Nat]
    /\ failed \in [Sessions -> Nat]
    /\ running \in [Sessions -> BOOLEAN]
    /\ strategy \in {"card", "map"}
    /\ job \in [Jobs -> Work]

SessionOk(s) ==
    /\ Canonical(raw[s])
    /\ \A i \in 1..Len(marks[s]) : Faithful(marks[s][i], raw[s])
    /\ failed[s] <= Len(raw[s])
    /\ state[s] = "new" => failed[s] = 0 /\ marks[s] = <<>>

\* An author at work on a live session holds a faithful checkpoint, and a
\* snapshot that is the present history unless the revision has moved.
JobOk(j) ==
    /\ job[j] # Idle => state[job[j].s] # "new"
    /\ job[j].st = "authoring" /\ state[job[j].s] = "live" =>
          /\ Faithful(job[j].mark, raw[job[j].s])
          /\ job[j].rev <= rev[job[j].s]
          /\ job[j].rev = rev[job[j].s] => job[j].read = Effective(job[j].s)

IInv == TypeInv /\ (\A s \in Sessions : SessionOk(s)) /\ (\A j \in Jobs : JobOk(j))

-----------------------------------------------------------------------------
(***************************************************************************)
(* Positions.                                                              *)
(***************************************************************************)

\* A set of numbers that is not empty has a smallest one.
LEMMA Least ==
    ASSUME NEW T \in SUBSET Nat, T # {}
    PROVE  \E n \in T : \A m \in T : n <= m
<1>1. PICK R : IsWellFoundedOn(R, Nat) /\ \A x, y \in Nat : x < y => <<x, y>> \in R
  <2>1. \A x, y \in Nat : x < y => <<x, y>> \in OpToRel(<, Nat)
    BY DEF OpToRel
  <2>2. QED
    BY <2>1, NatLessThanWellFounded
<1>2. T \subseteq Nat
  OBVIOUS
<1>3. \E x \in T : \A y \in T : ~ (<<y, x>> \in R)
  <2>1. IsWellFoundedOn(R, Nat) /\ T # {}
    BY <1>1
  <2>2. QED
    BY <1>2, <2>1, WFMin, ZenonT(20)
<1>4. PICK n \in T : \A m \in T : ~(<<m, n>> \in R)
  BY <1>3
<1>5. ASSUME NEW m \in T PROVE n <= m
  <2>1. ~(m < n) /\ m \in Nat /\ n \in Nat
    BY <1>1, <1>4
  <2>2. QED
    BY <2>1
<1>6. QED
  BY <1>4, <1>5

\* The k-th of a set of positions exists: Nth is one of them, with k of them
\* at or before it.
LEMMA NthIn ==
    ASSUME NEW n \in Nat, NEW I, I \subseteq 1..n, NEW k \in 1..Cardinality(I)
    PROVE  Nth(I, k) \in I /\ Cardinality({j \in I : j <= Nth(I, k)}) = k
<1> DEFINE Below(m) == {j \in I : j <= m}
           T == {m \in Nat : Cardinality(Below(m)) >= k}
<1>0. \A j \in I : j \in Nat /\ 1 <= j /\ j <= n
  OBVIOUS
<1>1. IsFiniteSet(I) /\ Cardinality(I) \in Nat
  <2>1. IsFiniteSet(1..n)
    BY FS_Interval
  <2>2. QED
    BY <2>1, FS_Subset, FS_CardinalityType
<1>2. ASSUME NEW m PROVE IsFiniteSet(Below(m)) /\ Cardinality(Below(m)) \in Nat
  BY <1>1, FS_Subset, FS_CardinalityType
<1>3. n \in T
  <2>1. Below(n) = I
    BY <1>0
  <2>2. QED
    BY <1>1, <2>1
<1>4. PICK m \in T : \A o \in T : m <= o
  <2>1. T # {} /\ T \in SUBSET Nat
    BY <1>3
  <2>2. QED
    BY <2>1, Least
<1>5. m # 0
  <2>0. \A j \in I : ~(j <= 0)
    BY <1>0
  <2>1. Below(0) = {}
    BY <2>0
  <2>2. Cardinality(Below(0)) = 0
    BY <2>1, FS_EmptySet
  <2>3. QED
    BY <2>2
<1> HIDE DEF Below
<1>6. m \in Nat /\ m - 1 \in Nat /\ m - 1 \notin T
  BY <1>4, <1>5
<1>7. Cardinality(Below(m - 1)) < k
  <2>1. Cardinality(Below(m - 1)) \in Nat /\ k \in Int
    BY <1>2
  <2>2. QED
    BY <1>6, <2>1
<1>8. m \in I
  <2>1. SUFFICES ASSUME m \notin I PROVE FALSE
    OBVIOUS
  <2>2. Below(m) = Below(m - 1)
    <3>1. \A j \in I : j <= m <=> j <= m - 1
      BY <1>0, <1>6, <2>1
    <3>2. QED
      BY <3>1 DEF Below
  <2>3. QED
    BY <1>2, <1>4, <1>7, <2>2
<1>9. Below(m) = Below(m - 1) \cup {m} /\ m \notin Below(m - 1)
  <2>1. \A j \in I : j <= m <=> j <= m - 1 \/ j = m
    BY <1>0, <1>6
  <2>2. m <= m /\ ~(m <= m - 1)
    BY <1>6
  <2>3. QED
    BY <1>8, <2>1, <2>2 DEF Below
<1>10. Cardinality(Below(m)) = Cardinality(Below(m - 1)) + 1
  BY <1>2, <1>9, FS_AddElement
<1>11. Cardinality(Below(m)) = k
  <2>1. Cardinality(Below(m)) \in Nat /\ Cardinality(Below(m - 1)) \in Nat /\ k \in Int
    BY <1>2
  <2>2. Cardinality(Below(m)) >= k
    BY <1>4
  <2>3. QED
    BY <1>7, <1>10, <2>1, <2>2
<1>12. \E i \in I : Cardinality({j \in I : j <= i}) = k
  BY <1>8, <1>11 DEF Below
<1>13. QED
  BY <1>12 DEF Nth

\* Only the first of them can be position 1.
LEMMA NthLater ==
    ASSUME NEW n \in Nat, NEW I, I \subseteq 1..n, NEW k \in 2..Cardinality(I)
    PROVE  Nth(I, k) \in I /\ Nth(I, k) > 1
<1>1. k \in 1..Cardinality(I)
  OBVIOUS
<1>2. Nth(I, k) \in I /\ Cardinality({j \in I : j <= Nth(I, k)}) = k
  BY <1>1, NthIn
<1>3. \A j \in I : j \in Nat /\ 1 <= j
  OBVIOUS
<1>4. SUFFICES ASSUME Nth(I, k) = 1 PROVE FALSE
  <2>1. Nth(I, k) \in Nat /\ 1 <= Nth(I, k)
    BY <1>2, <1>3
  <2>2. QED
    BY <1>2, <2>1
<1>5. \A j \in I : j <= 1 <=> j = 1
  BY <1>3
<1>6. {j \in I : j <= 1} = {1}
  BY <1>2, <1>4, <1>5
<1>7. Cardinality({1}) = k
  BY <1>2, <1>4, <1>6
<1>8. QED
  BY <1>7, FS_Singleton

\* The last of them is the greatest.
LEMMA NthLast ==
    ASSUME NEW n \in Nat, NEW I, I \subseteq 1..n, I # {}
    PROVE  Nth(I, Cardinality(I)) \in I /\ \A i \in I : i <= Nth(I, Cardinality(I))
<1>1. IsFiniteSet(I) /\ Cardinality(I) \in Nat
  <2>1. IsFiniteSet(1..n)
    BY FS_Interval
  <2>2. QED
    BY <2>1, FS_Subset, FS_CardinalityType
<1>2. Cardinality(I) \in 1..Cardinality(I)
  BY <1>1, FS_EmptySet
<1>3. Nth(I, Cardinality(I)) \in I
      /\ Cardinality({j \in I : j <= Nth(I, Cardinality(I))}) = Cardinality(I)
  BY <1>2, NthIn
<1>4. {j \in I : j <= Nth(I, Cardinality(I))} = I
  BY <1>1, <1>3, FS_Subset
<1>5. QED
  BY <1>3, <1>4

\* A sequence over S drawn from the positions I of q.
Drawn(ms, S, q, I) ==
    ms \in Seq(S) /\ \A k \in 1..Len(ms) : \E i \in I : ms[k] = q[i]

\* The entries at a set of positions are entries at those positions.
LEMMA SelectedFrom ==
    ASSUME NEW S, NEW q \in Seq(S), NEW I \in SUBSET (1..Len(q))
    PROVE  Drawn(Selected(q, I), S, q, I)
<1>1. Cardinality(I) \in Nat
  <2>1. IsFiniteSet(1..Len(q))
    BY FS_Interval
  <2>2. QED
    BY <2>1, FS_Subset, FS_CardinalityType
<1>2. \A k \in 1..Cardinality(I) : Nth(I, k) \in I /\ Nth(I, k) \in 1..Len(q)
  <2>1. SUFFICES ASSUME NEW k \in 1..Cardinality(I) PROVE Nth(I, k) \in I
    OBVIOUS
  <2>2. Len(q) \in Nat
    OBVIOUS
  <2>3. QED
    BY <2>2, NthIn
<1>3. \A k \in 1..Cardinality(I) : q[Nth(I, k)] \in S
  BY <1>2
<1>4. QED
  <2>1. SUFFICES ASSUME NEW h, h = [k \in 1..Cardinality(I) |-> q[Nth(I, k)]]
                 PROVE  Drawn(h, S, q, I)
    BY DEF Selected
  <2>2. h \in [1..Cardinality(I) -> S] /\ \A k \in 1..Cardinality(I) : h[k] = q[Nth(I, k)]
    BY <1>3, <2>1
  <2>3. h \in Seq(S) /\ Len(h) = Cardinality(I)
    BY <1>1, <2>2
  <2>4. ASSUME NEW k \in 1..Cardinality(I) PROVE \E i \in I : h[k] = q[i]
    BY <1>2, <2>2
  <2>5. QED
    BY <2>3, <2>4 DEF Drawn

-----------------------------------------------------------------------------
(***************************************************************************)
(* Histories.                                                              *)
(***************************************************************************)

\* What the entries of a history stand for.
LEMMA CoversIs ==
    ASSUME NEW es, NEW x
    PROVE  x \in Covers(es) <=> \E i \in 1..Len(es) : x \in es[i].covers
BY DEF Covers

\* The entries of a summary followed by the messages after its boundary.
Joined(es, a, r, n) ==
    /\ es \in Seq(Entries)
    /\ Len(es) = Len(a) + Len(r) - n
    /\ \A i \in 1..Len(a) : es[i] = a[i]
    /\ \A k \in (n + 1)..Len(r) : es[Len(a) + k - n] = r[k]
    /\ \A i \in (Len(a) + 1)..Len(es) : n + i - Len(a) \in (n + 1)..Len(r)
                                       /\ es[i] = r[n + i - Len(a)]

\* The effective history is laid out like that.
LEMMA JoinedShape ==
    ASSUME NEW a \in Seq(Entries), NEW r \in Seq(Entries), NEW n \in 0..Len(r)
    PROVE  Joined(a \o SubSeq(r, n + 1, Len(r)), a, r, n)
<1> DEFINE b == SubSeq(r, n + 1, Len(r))
           es == a \o b
<1>1. b \in Seq(Entries) /\ Len(b) = Len(r) - n /\ \A i \in 1..Len(b) : b[i] = r[n + i]
  OBVIOUS
<1>2. es \in Seq(Entries) /\ Len(es) = Len(a) + Len(b)
  BY <1>1
<1>3. \A i \in 1..Len(a) : es[i] = a[i]
  BY <1>1
<1>4. \A i \in (Len(a) + 1)..Len(es) : es[i] = b[i - Len(a)] /\ i - Len(a) \in 1..Len(b)
  BY <1>1, <1>2
<1> HIDE DEF b, es
<1>5. \A i \in (Len(a) + 1)..Len(es) : n + i - Len(a) \in (n + 1)..Len(r)
                                       /\ es[i] = r[n + i - Len(a)]
  <2>1. SUFFICES ASSUME NEW i \in (Len(a) + 1)..Len(es)
                 PROVE  n + i - Len(a) \in (n + 1)..Len(r) /\ es[i] = r[n + i - Len(a)]
    OBVIOUS
  <2>2. es[i] = b[i - Len(a)] /\ i - Len(a) \in 1..Len(b)
    BY <1>4
  <2>3. b[i - Len(a)] = r[n + (i - Len(a))]
    BY <1>1, <2>2
  <2>4. n + (i - Len(a)) = n + i - Len(a) /\ n + i - Len(a) \in (n + 1)..Len(r)
    BY <1>1, <2>2
  <2>5. QED
    BY <2>2, <2>3, <2>4
<1>6. \A k \in (n + 1)..Len(r) : es[Len(a) + k - n] = r[k]
  <2>1. SUFFICES ASSUME NEW k \in (n + 1)..Len(r) PROVE es[Len(a) + k - n] = r[k]
    OBVIOUS
  <2>2. Len(a) + k - n \in (Len(a) + 1)..Len(es) /\ n + (Len(a) + k - n) - Len(a) = k
    BY <1>1, <1>2
  <2>3. QED
    BY <1>5, <2>2
<1>7. Joined(es, a, r, n)
  BY <1>1, <1>2, <1>3, <1>5, <1>6 DEF Joined
<1>8. QED
  BY <1>7 DEF es, b

\* A summary of the messages through n, followed by the rest, is a summary of
\* all of them: nothing is lost or doubled at the boundary, and no reply is cut
\* from its call there.
LEMMA SummaryExtends ==
    ASSUME NEW r, Canonical(r), NEW a, NEW n, Summary(a, r, n)
    PROVE  Summary(a \o SubSeq(r, n + 1, Len(r)), r, Len(r))
<1>1. r \in Seq(Entries) /\ a \in Seq(Entries) /\ n \in 0..Len(r) /\ (n = 0 <=> a = <<>>)
  BY DEF Canonical, Summary
<1>2. Joined(a \o SubSeq(r, n + 1, Len(r)), a, r, n)
  BY <1>1, JoinedShape
<1>3. SUFFICES ASSUME NEW es, Joined(es, a, r, n) PROVE Summary(es, r, Len(r))
  BY <1>2
<1>4. /\ Len(a) \in Nat /\ Len(r) \in Nat /\ n \in Nat /\ n <= Len(r)
      /\ (n = 0 <=> Len(a) = 0)
  BY <1>1
<1>5. /\ es \in Seq(Entries) /\ Len(es) \in Nat
      /\ Len(es) = Len(a) + Len(r) - n
      /\ \A i \in 1..Len(a) : es[i] = a[i]
      /\ \A k \in (n + 1)..Len(r) : es[Len(a) + k - n] = r[k]
      /\ \A i \in (Len(a) + 1)..Len(es) : n + i - Len(a) \in (n + 1)..Len(r)
                                         /\ es[i] = r[n + i - Len(a)]
  BY <1>3 DEF Joined
<1>6. Len(r) \in 0..Len(r) /\ (Len(r) = 0 <=> es = <<>>)
  BY <1>4, <1>5
<1>7. \A i \in 1..Len(es) : i \in 1..Len(a) \/ i \in (Len(a) + 1)..Len(es)
  BY <1>4, <1>5
<1>8. SameCover(es, r, Len(r))
  <2>1. ASSUME NEW i \in 1..Len(es), NEW x \in es[i].covers
        PROVE  \E k \in 1..Len(r) : x \in r[k].covers
    <3>1. CASE i \in 1..Len(a)
      <4>1. x \in a[i].covers
        BY <1>5, <3>1
      <4>2. \E k \in 1..n : x \in r[k].covers
        BY <3>1, <4>1 DEF Summary, SameCover
      <4>3. \A k \in 1..n : k \in 1..Len(r)
        BY <1>4
      <4>4. QED
        BY <4>2, <4>3
    <3>2. CASE i \in (Len(a) + 1)..Len(es)
      <4>1. n + i - Len(a) \in (n + 1)..Len(r) /\ es[i] = r[n + i - Len(a)]
        BY <1>5, <3>2
      <4>2. n + i - Len(a) \in 1..Len(r)
        BY <1>4, <4>1
      <4>3. QED
        BY <4>1, <4>2
    <3>3. QED
      BY <1>7, <3>1, <3>2
  <2>2. ASSUME NEW k \in 1..Len(r), NEW x \in r[k].covers
        PROVE  \E i \in 1..Len(es) : x \in es[i].covers
    <3>1. CASE k \in 1..n
      <4>1. PICK i \in 1..Len(a) : x \in a[i].covers
        BY <3>1 DEF Summary, SameCover
      <4>2. i \in 1..Len(es)
        BY <1>4, <1>5, <4>1
      <4>3. QED
        BY <1>5, <4>1, <4>2
    <3>2. CASE k \in (n + 1)..Len(r)
      <4>1. es[Len(a) + k - n] = r[k]
        BY <1>5, <3>2
      <4>2. Len(a) + k - n \in 1..Len(es)
        BY <1>4, <1>5, <3>2
      <4>3. QED
        BY <4>1, <4>2
    <3>3. QED
      BY <1>4, <3>1, <3>2
  <2>3. QED
    BY <2>1, <2>2 DEF SameCover
<1>9. ASSUME NEW i \in (Len(a) + 1)..Len(es), NEW x \in es[i].covers
      PROVE  x[2] = n + i - Len(a)
  <2>1. n + i - Len(a) \in 1..Len(r) /\ es[i] = r[n + i - Len(a)]
    BY <1>4, <1>5
  <2>2. QED
    BY <2>1 DEF Canonical
<1>10. ASSUME NEW i \in 1..Len(a), NEW x \in es[i].covers
       PROVE  x[2] \in 1..n
  <2>1. x \in a[i].covers
    BY <1>5
  <2>2. PICK k \in 1..n : x \in r[k].covers
    BY <2>1 DEF Summary, SameCover
  <2>3. k \in 1..Len(r)
    BY <1>4
  <2>4. x[2] = k
    BY <2>2, <2>3 DEF Canonical
  <2>5. QED
    BY <2>4
<1>11. Ordered(es)
  <2>1. SUFFICES ASSUME NEW i \in 1..Len(es), NEW k \in 1..Len(es), i < k,
                        NEW x \in es[i].covers, NEW y \in es[k].covers
                 PROVE  x[2] < y[2]
    BY DEF Ordered
  <2>2. CASE k \in 1..Len(a)
    <3>1. i \in 1..Len(a)
      BY <1>4, <1>5, <2>1, <2>2
    <3>2. x \in a[i].covers /\ y \in a[k].covers
      BY <1>5, <2>2, <3>1
    <3>3. QED
      BY <2>1, <2>2, <3>1, <3>2 DEF Summary, Ordered
  <2>3. CASE i \in 1..Len(a) /\ k \in (Len(a) + 1)..Len(es)
    <3>1. x[2] \in 1..n /\ y[2] = n + k - Len(a)
      BY <1>9, <1>10, <2>3
    <3>2. QED
      BY <1>4, <1>5, <2>3, <3>1
  <2>4. CASE i \in (Len(a) + 1)..Len(es) /\ k \in (Len(a) + 1)..Len(es)
    <3>1. x[2] = n + i - Len(a) /\ y[2] = n + k - Len(a)
      BY <1>9, <2>4
    <3>2. QED
      BY <1>4, <2>1, <3>1
  <2>5. QED
    BY <1>7, <2>2, <2>3, <2>4
<1>12. Paired(es) /\ (OpenAt(es, Len(es)) <=> OpenAt(r, Len(r)))
  <2>1. /\ \A i \in 1..Len(a) : /\ a[i].kind = "reply" => i > 1 /\ a[i - 1].kind = "call"
                                /\ a[i].kind = "call" => i = Len(a) \/ a[i + 1].kind = "reply"
        /\ \A k \in 1..Len(r) : /\ r[k].kind = "reply" => k > 1 /\ r[k - 1].kind = "call"
                                /\ r[k].kind = "call" => k = Len(r) \/ r[k + 1].kind = "reply"
    BY DEF Summary, Canonical, Paired
  <2>2. n > 0 => (a[Len(a)].kind = "call" <=> r[n].kind = "call")
    BY <1>4 DEF Summary, OpenAt
  <2>3. ASSUME NEW i \in 1..Len(a)
        PROVE  /\ es[i].kind = "reply" => i > 1 /\ es[i - 1].kind = "call"
               /\ es[i].kind = "call" => i = Len(es) \/ es[i + 1].kind = "reply"
    <3>1. es[i] = a[i] /\ (i > 1 => es[i - 1] = a[i - 1])
      BY <1>4, <1>5
    <3>2. i < Len(a) => es[i + 1] = a[i + 1]
      <4>1. i < Len(a) => i + 1 \in 1..Len(a)
        BY <1>4
      <4>2. QED
        BY <1>5, <4>1
    <3>3. ASSUME i = Len(a), es[i].kind = "call", i # Len(es) PROVE es[i + 1].kind = "reply"
      <4>1. n > 0 /\ n + 1 \in (n + 1)..Len(r) /\ n \in 1..Len(r)
        <5>1. Len(es) = Len(a) + Len(r) - n /\ i \in Nat /\ i > 0
          BY <1>5
        <5>2. n # 0 /\ n # Len(r)
          BY <1>4, <3>3, <5>1
        <5>3. QED
          BY <1>4, <5>2
      <4>2. es[Len(a) + (n + 1) - n] = r[n + 1]
        BY <1>5, <4>1
      <4>3. Len(a) + (n + 1) - n = i + 1
        BY <1>4, <3>3
      <4>4. r[n].kind = "call" /\ n # Len(r)
        BY <1>4, <2>2, <3>1, <3>3, <4>1
      <4>5. r[n + 1].kind = "reply"
        BY <2>1, <4>1, <4>4
      <4>6. QED
        BY <4>2, <4>3, <4>5
    <3>4. QED
      BY <1>4, <2>1, <3>1, <3>2, <3>3
  <2>4. ASSUME NEW i \in (Len(a) + 1)..Len(es)
        PROVE  /\ es[i].kind = "reply" => i > 1 /\ es[i - 1].kind = "call"
               /\ es[i].kind = "call" => i = Len(es) \/ es[i + 1].kind = "reply"
    <3> DEFINE k == n + i - Len(a)
    <3>1. k \in (n + 1)..Len(r) /\ es[i] = r[k] /\ k \in 1..Len(r)
      BY <1>4, <1>5
    <3>2. ASSUME es[i].kind = "call", i # Len(es) PROVE es[i + 1].kind = "reply"
      <4>1. i + 1 \in (Len(a) + 1)..Len(es) /\ n + (i + 1) - Len(a) = k + 1 /\ k # Len(r)
        <5>1. Len(es) \in Nat /\ Len(es) = Len(a) + Len(r) - n
          BY <1>5
        <5>2. i \in Int /\ Len(a) + 1 <= i /\ i < Len(es)
          BY <1>4, <3>2, <5>1
        <5>3. QED
          BY <1>4, <5>1, <5>2
      <4>2. es[i + 1] = r[k + 1]
        BY <1>5, <4>1
      <4>3. QED
        BY <2>1, <3>1, <3>2, <4>1, <4>2
    <3>3. ASSUME es[i].kind = "reply" PROVE i > 1 /\ es[i - 1].kind = "call"
      <4>1. k > 1 /\ r[k - 1].kind = "call"
        BY <2>1, <3>1, <3>3
      <4>2. CASE i = Len(a) + 1
        <5>1. k - 1 = n /\ n > 0 /\ Len(a) \in 1..Len(a) /\ i - 1 = Len(a) /\ i > 1
          BY <1>4, <4>1, <4>2
        <5>2. es[i - 1] = a[Len(a)]
          BY <1>5, <5>1
        <5>3. QED
          BY <2>2, <4>1, <5>1, <5>2
      <4>3. CASE i # Len(a) + 1
        <5>1. i - 1 \in (Len(a) + 1)..Len(es) /\ n + (i - 1) - Len(a) = k - 1 /\ i > 1
          BY <1>4, <1>5, <4>3
        <5>2. es[i - 1] = r[k - 1]
          BY <1>5, <5>1
        <5>3. QED
          BY <4>1, <5>1, <5>2
      <4>4. QED
        BY <4>2, <4>3
    <3>4. QED
      BY <3>2, <3>3
  <2>5. Paired(es)
    BY <1>7, <2>3, <2>4 DEF Paired
  <2>6. OpenAt(es, Len(es)) <=> OpenAt(r, Len(r))
    <3>1. CASE n = Len(r)
      <4>1. Len(es) = Len(a) /\ (Len(a) > 0 => es[Len(es)] = a[Len(a)])
        BY <1>4, <1>5, <3>1
      <4>2. QED
        BY <1>4, <2>2, <3>1, <4>1 DEF OpenAt
    <3>2. CASE n # Len(r)
      <4>1. Len(r) \in (n + 1)..Len(r) /\ Len(a) + Len(r) - n = Len(es)
        BY <1>4, <1>5, <3>2
      <4>2. es[Len(es)] = r[Len(r)] /\ Len(es) > 0 /\ Len(r) > 0
        BY <1>4, <1>5, <4>1
      <4>3. QED
        BY <4>2 DEF OpenAt
    <3>3. QED
      BY <3>1, <3>2
  <2>7. QED
    BY <2>5, <2>6
<1>13. QED
  BY <1>5, <1>6, <1>8, <1>11, <1>12 DEF Summary

\* A recovery card in front of the turns that are kept.  The cut is at the
\* start of a group, so no reply is cut from its call there.
LEMMA CardSummary ==
    ASSUME NEW r, NEW es, Summary(es, r, Len(r)), Len(r) \in Nat,
           NEW cut \in 2..Len(es), es[cut].kind # "reply",
           NEW c \in Entries, c.kind = "card",
           c.covers = Covers(SubSeq(es, 1, cut - 1))
    PROVE  Summary(<<c>> \o SubSeq(es, cut, Len(es)), r, Len(r))
<1>1. es \in Seq(Entries) /\ Len(es) \in Nat /\ (Len(r) = 0 <=> es = <<>>)
  BY DEF Summary
<1>2. SUFFICES ASSUME NEW h, h = <<c>> \o SubSeq(es, cut, Len(es)) PROVE Summary(h, r, Len(r))
  OBVIOUS
<1>3. /\ h \in Seq(Entries) /\ Len(h) = Len(es) - cut + 2
      /\ h[1] = c
      /\ \A i \in 2..Len(h) : h[i] = es[i + cut - 2]
  <2> DEFINE b == SubSeq(es, cut, Len(es))
  <2>1. b \in Seq(Entries) /\ Len(b) = Len(es) - cut + 1
        /\ \A i \in 1..Len(b) : b[i] = es[i + cut - 1]
    BY <1>1
  <2>2. h = <<c>> \o b
    BY <1>2
  <2> HIDE DEF b
  <2>3. h \in Seq(Entries) /\ Len(h) = Len(b) + 1 /\ h[1] = c
        /\ \A i \in 2..Len(h) : h[i] = b[i - 1]
    <3>0. <<c>> \in Seq(Entries) /\ Len(<<c>>) = 1 /\ <<c>>[1] = c
      OBVIOUS
    <3>1. SUFFICES ASSUME NEW u, u \in Seq(Entries), Len(u) = 1, u[1] = c, h = u \o b
                   PROVE  /\ h \in Seq(Entries) /\ Len(h) = Len(b) + 1 /\ h[1] = c
                          /\ \A i \in 2..Len(h) : h[i] = b[i - 1]
      BY <2>2, <3>0, Zenon
    <3>2. h \in Seq(Entries) /\ Len(h) = Len(u) + Len(b)
          /\ \A i \in 1..Len(u) + Len(b) : h[i] = IF i <= Len(u) THEN u[i] ELSE b[i - Len(u)]
      BY <2>1, <3>1, ConcatProperties
    <3>3. Len(b) \in Nat
      BY <2>1
    <3>4. QED
      BY <3>1, <3>2, <3>3
  <2>4. ASSUME NEW i \in 2..Len(h) PROVE h[i] = es[i + cut - 2]
    <3>1. i - 1 \in 1..Len(b) /\ (i - 1) + cut - 1 = i + cut - 2
      BY <1>1, <2>1, <2>3
    <3>2. b[i - 1] = es[(i - 1) + cut - 1]
      BY <2>1, <3>1
    <3>3. QED
      BY <2>3, <3>1, <3>2
  <2>5. Len(h) = Len(es) - cut + 2
    BY <1>1, <2>1, <2>3
  <2>6. QED
    BY <2>3, <2>4, <2>5
<1>4. /\ Len(h) \in Nat /\ Len(h) >= 2 /\ Len(es) >= 2
      /\ \A i \in 2..Len(h) : i + cut - 2 \in cut..Len(es) /\ i + cut - 2 \in 1..Len(es)
      /\ \A k \in cut..Len(es) : k - cut + 2 \in 2..Len(h) /\ h[k - cut + 2] = es[k]
  <2>1. Len(h) \in Nat /\ Len(h) >= 2 /\ Len(es) >= 2
    BY <1>1, <1>3
  <2>2. ASSUME NEW i \in 2..Len(h)
        PROVE  i + cut - 2 \in cut..Len(es) /\ i + cut - 2 \in 1..Len(es)
    BY <1>1, <1>3
  <2>3. ASSUME NEW k \in cut..Len(es)
        PROVE  k - cut + 2 \in 2..Len(h) /\ h[k - cut + 2] = es[k]
    <3>1. k - cut + 2 \in 2..Len(h) /\ (k - cut + 2) + cut - 2 = k
      BY <1>1, <1>3
    <3>2. QED
      BY <1>3, <3>1
  <2>4. QED
    BY <2>1, <2>2, <2>3
<1>5. \A x : x \in c.covers <=> \E i \in 1..(cut - 1) : x \in es[i].covers
  <2>1. SubSeq(es, 1, cut - 1) \in Seq(Entries) /\ Len(SubSeq(es, 1, cut - 1)) = cut - 1
        /\ \A i \in 1..(cut - 1) : SubSeq(es, 1, cut - 1)[i] = es[i]
    BY <1>1
  <2>2. SUFFICES ASSUME NEW a, Len(a) = cut - 1, \A i \in 1..(cut - 1) : a[i] = es[i],
                        c.covers = Covers(a), NEW x
                 PROVE  x \in c.covers <=> \E i \in 1..(cut - 1) : x \in es[i].covers
    BY <2>1
  <2>3. x \in Covers(a) <=> \E i \in 1..Len(a) : x \in a[i].covers
    BY CoversIs
  <2>4. QED
    BY <2>2, <2>3
<1>6. \A i \in 1..(cut - 1) : i \in 1..Len(es)
  BY <1>1
<1>7. SameCover(h, r, Len(r))
  <2>1. ASSUME NEW i \in 1..Len(h), NEW x \in h[i].covers
        PROVE  \E k \in 1..Len(r) : x \in r[k].covers
    <3>1. \E k \in 1..Len(es) : x \in es[k].covers
      <4>1. CASE i = 1
        BY <1>3, <1>5, <1>6, <4>1
      <4>2. CASE i \in 2..Len(h)
        BY <1>3, <1>4, <4>2
      <4>3. QED
        BY <1>4, <4>1, <4>2
    <3>2. QED
      BY <3>1 DEF Summary, SameCover
  <2>2. ASSUME NEW k \in 1..Len(r), NEW x \in r[k].covers
        PROVE  \E i \in 1..Len(h) : x \in h[i].covers
    <3>1. PICK i \in 1..Len(es) : x \in es[i].covers
      BY DEF Summary, SameCover
    <3>2. CASE i \in 1..(cut - 1)
      <4>1. 1 \in 1..Len(h) /\ x \in h[1].covers
        BY <1>3, <1>4, <1>5, <3>1, <3>2
      <4>2. QED
        BY <4>1
    <3>3. CASE i \in cut..Len(es)
      <4>1. i - cut + 2 \in 2..Len(h) /\ h[i - cut + 2] = es[i]
        BY <1>4, <3>3
      <4>2. i - cut + 2 \in 1..Len(h)
        BY <1>4, <4>1
      <4>3. QED
        BY <3>1, <4>1, <4>2
    <3>4. QED
      BY <1>1, <3>2, <3>3
  <2>3. QED
    BY <2>1, <2>2 DEF SameCover
<1>8. Ordered(h)
  <2>1. SUFFICES ASSUME NEW i \in 1..Len(h), NEW k \in 1..Len(h), i < k,
                        NEW x \in h[i].covers, NEW y \in h[k].covers
                 PROVE  x[2] < y[2]
    BY DEF Ordered
  <2>2. k \in 2..Len(h) /\ (i = 1 \/ i \in 2..Len(h))
    BY <1>4, <2>1
  <2>3. y \in es[k + cut - 2].covers /\ k + cut - 2 \in cut..Len(es)
        /\ k + cut - 2 \in 1..Len(es)
    BY <1>3, <1>4, <2>2
  <2>4. PICK o \in 1..Len(es) : x \in es[o].covers /\ o < k + cut - 2
    <3>1. CASE i = 1
      <4>1. PICK o \in 1..(cut - 1) : x \in es[o].covers
        BY <1>3, <1>5, <3>1
      <4>2. o \in 1..Len(es) /\ o < k + cut - 2
        BY <1>1, <1>6, <2>2, <4>1
      <4>3. QED
        BY <4>1, <4>2
    <3>2. CASE i \in 2..Len(h)
      <4>1. x \in es[i + cut - 2].covers /\ i + cut - 2 \in 1..Len(es)
        BY <1>3, <1>4, <3>2
      <4>2. i + cut - 2 < k + cut - 2
        BY <2>1, <2>2, <3>2
      <4>3. QED
        BY <4>1, <4>2
    <3>3. QED
      BY <2>2, <3>1, <3>2
  <2>5. QED
    BY <2>3, <2>4 DEF Summary, Ordered
<1>9. Paired(h)
  <2>1. \A i \in 1..Len(es) : /\ es[i].kind = "reply" => i > 1 /\ es[i - 1].kind = "call"
                              /\ es[i].kind = "call" => i = Len(es) \/ es[i + 1].kind = "reply"
    BY DEF Summary, Paired
  <2>2. ASSUME NEW i \in 1..Len(h)
        PROVE  /\ h[i].kind = "reply" => i > 1 /\ h[i - 1].kind = "call"
               /\ h[i].kind = "call" => i = Len(h) \/ h[i + 1].kind = "reply"
    <3>1. CASE i = 1
      BY <1>3, <3>1
    <3>2. CASE i \in 2..Len(h)
      <4> DEFINE o == i + cut - 2
      <4>1. o \in 1..Len(es) /\ h[i] = es[o] /\ i > 1
        BY <1>3, <1>4, <3>2
      <4>2. ASSUME h[i].kind = "reply" PROVE h[i - 1].kind = "call"
        <5>1. o # cut /\ es[o - 1].kind = "call"
          BY <2>1, <4>1, <4>2
        <5>2. i # 2
          BY <5>1
        <5>3. i - 1 \in 2..Len(h) /\ (i - 1) + cut - 2 = o - 1
          BY <1>4, <3>2, <5>2
        <5>4. h[i - 1] = es[o - 1]
          BY <1>3, <5>3
        <5>5. QED
          BY <5>1, <5>4
      <4>3. ASSUME h[i].kind = "call", i # Len(h) PROVE h[i + 1].kind = "reply"
        <5>1. i + 1 \in 2..Len(h) /\ (i + 1) + cut - 2 = o + 1 /\ o # Len(es)
          <6>1. Len(h) = Len(es) - cut + 2
            BY <1>3
          <6>2. QED
            BY <1>1, <3>2, <4>3, <6>1
        <5>2. h[i + 1] = es[o + 1]
          BY <1>3, <5>1
        <5>3. QED
          BY <2>1, <4>1, <4>3, <5>1, <5>2
      <4>4. QED
        BY <4>1, <4>2, <4>3
    <3>3. QED
      BY <1>4, <3>1, <3>2
  <2>3. QED
    BY <2>2 DEF Paired
<1>10. OpenAt(h, Len(h)) <=> OpenAt(r, Len(r))
  <2>1. Len(h) \in 2..Len(h) /\ Len(h) + cut - 2 = Len(es)
    BY <1>1, <1>3, <1>4
  <2>2. h[Len(h)] = es[Len(es)]
    BY <1>3, <2>1
  <2>3. QED
    BY <1>4, <2>2 DEF Summary, OpenAt
<1>11. h # <<>> /\ Len(r) # 0 /\ Len(r) \in 0..Len(r)
  BY <1>1, <1>3, <1>4
<1>12. QED
  BY <1>3, <1>7, <1>8, <1>9, <1>10, <1>11 DEF Summary

\* A single map entry over messages that do not end in an open call.
LEMMA MapSummary ==
    ASSUME NEW r, NEW n, n \in 1..Len(r), r[n].kind # "call",
           NEW c \in Entries, c.kind = "map",
           \A x : x \in c.covers <=> \E k \in 1..n : x \in r[k].covers
    PROVE  Summary(<<c>>, r, n)
<1>1. <<c>> \in Seq(Entries) /\ Len(<<c>>) = 1 /\ <<c>>[1] = c /\ <<c>> # <<>>
  OBVIOUS
<1>2. n \in 0..Len(r) /\ n # 0 /\ n > 0
  OBVIOUS
<1>3. SUFFICES ASSUME NEW h, h \in Seq(Entries), Len(h) = 1, h[1] = c, h # <<>>
               PROVE  Summary(h, r, n)
  BY <1>1
<1>4. \A i \in 1..Len(h) : i = 1
  BY <1>3
<1>5. SameCover(h, r, n)
  <2>1. 1 \in 1..Len(h)
    BY <1>3
  <2>2. QED
    BY <1>3, <1>4, <2>1 DEF SameCover
<1>6. Ordered(h) /\ Paired(h)
  BY <1>3, <1>4 DEF Ordered, Paired
<1>7. ~OpenAt(h, Len(h)) /\ ~OpenAt(r, n)
  BY <1>3 DEF OpenAt
<1>8. QED
  BY <1>2, <1>3, <1>5, <1>6, <1>7 DEF Summary

\* The part of a canonical history after n, read as a history of its own.
Tailed(es, r, n) ==
    /\ es \in Seq(Entries) /\ Len(es) = Len(r) - n
    /\ \A i \in 1..Len(es) : n + i \in 1..Len(r) /\ es[i] = r[n + i] /\ es[i].origin = n + i

\* The messages after a boundary are such a tail.
LEMMA SuffixTailed ==
    ASSUME NEW r, Canonical(r), NEW n \in 0..Len(r)
    PROVE  Tailed(SubSeq(r, n + 1, Len(r)), r, n)
<1> DEFINE es == SubSeq(r, n + 1, Len(r))
<1>1. r \in Seq(Entries) /\ Len(r) \in Nat
  BY DEF Canonical
<1>2. es \in Seq(Entries) /\ Len(es) = Len(r) - n /\ \A i \in 1..Len(es) : es[i] = r[n + i]
  BY <1>1
<1> HIDE DEF es
<1>3. ASSUME NEW i \in 1..Len(es) PROVE n + i \in 1..Len(r) /\ es[i].origin = n + i
  <2>1. n + i \in 1..Len(r)
    BY <1>1, <1>2
  <2>2. QED
    BY <1>2, <2>1 DEF Canonical
<1>4. Tailed(es, r, n)
  BY <1>2, <1>3 DEF Tailed
<1>5. QED
  BY <1>4 DEF es

\* The groups of a history end before a group starts, or at its end: with no
\* open call, the last entry of a group is not a call.
LEMMA GroupEndIs ==
    ASSUME NEW es \in Seq(Entries), es # <<>>, ToolHistoryOk(es), NEW k \in 1..Evictable(es)
    PROVE  GroupEnd(es, k) \in 1..Len(es) /\ es[GroupEnd(es, k)].kind # "call"
<1> DEFINE G == GroupStarts(es)
<1>1. Len(es) \in Nat /\ Len(es) > 0
  OBVIOUS
<1>2. G \subseteq 1..Len(es)
  BY DEF GroupStarts
<1>3. Cardinality(G) \in Nat
  <2>1. IsFiniteSet(1..Len(es))
    BY <1>1, FS_Interval
  <2>2. QED
    BY <1>2, <2>1, FS_Subset, FS_CardinalityType
<1>4. k \in 1..Cardinality(G)
  BY <1>3 DEF Evictable
<1>5. CASE k < Cardinality(G)
  <2>1. k + 1 \in 2..Cardinality(G)
    BY <1>3, <1>4, <1>5
  <2>2. Nth(G, k + 1) \in G /\ Nth(G, k + 1) > 1
    BY <1>1, <1>2, <2>1, NthLater
  <2>3. GroupEnd(es, k) = Nth(G, k + 1) - 1
    BY <1>5 DEF GroupEnd
  <2>4. SUFFICES ASSUME NEW e, e \in G, e > 1, GroupEnd(es, k) = e - 1
                 PROVE  e - 1 \in 1..Len(es) /\ es[e - 1].kind # "call"
    BY <2>2, <2>3
  <2>5. e \in 1..Len(es) /\ es[e].kind \in {"user", "card", "map"}
    BY <2>4 DEF GroupStarts, StartsGroup
  <2>6. e - 1 \in 1..Len(es) /\ (e - 1) + 1 = e
    BY <1>1, <2>4, <2>5
  <2>7. QED
    BY <2>5, <2>6 DEF ToolHistoryOk
<1>6. CASE ~(k < Cardinality(G))
  <2>1. GroupEnd(es, k) = Len(es) /\ Len(es) \in 1..Len(es)
    BY <1>1, <1>6 DEF GroupEnd
  <2>2. QED
    BY <1>1, <2>1 DEF ToolHistoryOk
<1>7. QED
  BY <1>5, <1>6

\* A map over the first groups after a boundary n is a faithful checkpoint: it
\* stands for the messages it consumed, and what its author had seen is stored
\* at or before its observation boundary.
LEMMA MapFaithful ==
    ASSUME NEW r, Canonical(r), NEW n \in 0..Len(r), NEW es, Tailed(es, r, n),
           es # <<>>, ToolHistoryOk(es), NEW k \in 1..Evictable(es),
           NEW covered \in SUBSET Pairs,
           \A x : x \in covered <=> \E i \in 1..n : x \in r[i].covers,
           NEW before \in 0..Len(r), NEW known \in SUBSET Pairs, Known(known, r, before)
    PROVE  Faithful(MapMark(es, k, covered, known, before), r)
<1>1. /\ es \in Seq(Entries) /\ Len(es) = Len(r) - n
      /\ \A i \in 1..Len(es) : n + i \in 1..Len(r) /\ es[i] = r[n + i] /\ es[i].origin = n + i
      /\ Len(r) \in Nat /\ Len(es) \in Nat
  BY DEF Tailed, Canonical
<1> DEFINE end == GroupEnd(es, k)
           kept == {i \in Projected(es) : i > end}
           top == IF kept = {} THEN end ELSE Nth(kept, Cardinality(kept))
           map == [kind |-> "map", origin |-> 0,
                   covers |-> covered \cup Covers(SubSeq(es, 1, end))]
           newest == es[top].origin
           obs == IF before > newest THEN before ELSE newest
           shown == UNION {es[i].covers : i \in Projected(es)}
<1>2. end \in 1..Len(es) /\ es[end].kind # "call"
  BY <1>1, GroupEndIs
<1>3. top \in end..Len(es) /\ \A i \in Projected(es) : i \in 1..Len(es) /\ i <= top
  <2>1. kept \subseteq 1..Len(es) /\ \A i \in Projected(es) : i \in 1..Len(es)
    BY DEF Projected
  <2>2. CASE kept = {}
    <3>1. top = end
      BY <2>2
    <3>2. \A i \in Projected(es) : i <= end
      BY <1>1, <1>2, <2>1, <2>2
    <3>3. QED
      BY <1>1, <1>2, <2>1, <3>1, <3>2
  <2>3. CASE kept # {}
    <3>1. top = Nth(kept, Cardinality(kept))
      BY <2>3
    <3>2. top \in kept /\ \A i \in kept : i <= top
      BY <1>1, <2>1, <2>3, <3>1, NthLast
    <3>3. top \in 1..Len(es) /\ top > end
      BY <2>1, <3>2
    <3>4. \A i \in Projected(es) : i <= top
      <4>1. \A i \in Projected(es) : i \in kept \/ i <= end
        BY <1>2, <2>1
      <4>2. QED
        BY <1>2, <2>1, <3>2, <3>3, <4>1
    <3>5. \A t \in 1..Len(es) : t > end => t \in end..Len(es)
      BY <1>1, <1>2
    <3>6. QED
      BY <2>1, <3>3, <3>4, <3>5
  <2>4. QED
    BY <2>2, <2>3
<1>4. MapMark(es, k, covered, known, before)
        = [kind |-> "map", last |-> es[end].origin, obs |-> obs, repl |-> <<map>>,
           seen |-> known \cup shown]
  BY DEF MapMark
<1> HIDE DEF end, kept, top
<1>5. top \in 1..Len(es)
  BY <1>1, <1>2, <1>3
<1>6. es[end].origin = n + end /\ newest = n + top
  BY <1>1, <1>2, <1>5
<1>7. n + end \in 1..Len(r) /\ n + top \in (n + end)..Len(r) /\ r[n + end].kind # "call"
  <2>1. n + end \in 1..Len(r) /\ n + top \in 1..Len(r) /\ r[n + end].kind # "call"
    BY <1>1, <1>2, <1>5
  <2>2. QED
    BY <1>2, <1>3, <2>1
<1> HIDE DEF newest
<1>8. obs \in Nat /\ obs \in (n + end)..Len(r) /\ obs >= n + top /\ obs >= before
  BY <1>1, <1>6, <1>7
<1> HIDE DEF obs
<1>9. \A x : x \in map.covers <=> \E i \in 1..(n + end) : x \in r[i].covers
  <2>1. /\ SubSeq(es, 1, end) \in Seq(Entries) /\ Len(SubSeq(es, 1, end)) = end
        /\ \A i \in 1..end : SubSeq(es, 1, end)[i] = es[i]
    BY <1>1, <1>2
  <2>2. \A x : x \in Covers(SubSeq(es, 1, end)) <=> \E i \in 1..end : x \in es[i].covers
    BY <2>1, CoversIs
  <2>3. \A i \in 1..end : i \in 1..Len(es) /\ es[i] = r[n + i] /\ n + i \in 1..(n + end)
    BY <1>1, <1>2
  <2>4. \A i \in 1..n : i \in 1..(n + end)
    BY <1>1, <1>2
  <2>5. ASSUME NEW i \in 1..(n + end) PROVE i \in 1..n \/ (i - n \in 1..end /\ n + (i - n) = i)
    BY <1>1, <1>2
  <2>6. map.covers = covered \cup Covers(SubSeq(es, 1, end))
    OBVIOUS
  <2> HIDE DEF map
  <2>7. ASSUME NEW x \in map.covers PROVE \E i \in 1..(n + end) : x \in r[i].covers
    BY <2>2, <2>3, <2>4, <2>6, <2>7
  <2>8. ASSUME NEW i \in 1..(n + end), NEW x \in r[i].covers PROVE x \in map.covers
    <3>1. CASE i \in 1..n
      BY <2>6, <3>1
    <3>2. CASE i - n \in 1..end /\ n + (i - n) = i
      <4>1. es[i - n] = r[i]
        BY <2>3, <3>2
      <4>2. QED
        BY <2>2, <2>6, <3>2, <4>1
    <3>3. QED
      BY <2>5, <3>1, <3>2
  <2>9. QED
    BY <2>7, <2>8
<1>10. \A i \in 1..Len(r) : r[i].covers \subseteq Pairs
  <2>1. \A i \in 1..Len(r) : r[i] \in Entries
    BY DEF Canonical
  <2>2. \A e \in Entries : e.covers \subseteq Pairs
    BY DEF Entries
  <2>3. QED
    BY <2>1, <2>2
<1>11. map \in Entries /\ map.kind = "map"
  <2>1. map.covers \subseteq Pairs
    <3>1. \A i \in 1..(n + end) : i \in 1..Len(r)
      BY <1>1, <1>7
    <3>2. QED
      BY <1>9, <1>10, <3>1
  <2>2. QED
    BY <2>1 DEF Entries
<1>12. Known(known \cup shown, r, obs) /\ known \cup shown \in SUBSET Pairs
  <2>1. \A i \in 1..before : i \in 1..obs
    BY <1>1, <1>8
  <2>2. ASSUME NEW i \in Projected(es) PROVE n + i \in 1..obs /\ es[i] = r[n + i] /\ n + i \in 1..Len(r)
    <3>1. i \in 1..Len(es) /\ i <= top
      BY <1>3
    <3>2. n + i <= obs
      BY <1>1, <1>5, <1>8, <3>1
    <3>3. QED
      BY <1>1, <1>8, <3>1, <3>2
  <2>3. \A x \in shown : \E i \in 1..obs : x \in r[i].covers
    BY <2>2
  <2>4. \A x \in known : \E i \in 1..obs : x \in r[i].covers
    BY <2>1 DEF Known
  <2>5. shown \subseteq Pairs
    BY <1>10, <2>2
  <2>6. QED
    BY <2>3, <2>4, <2>5 DEF Known
<1> HIDE DEF map, shown
<1>13. Summary(<<map>>, r, n + end)
  BY <1>7, <1>9, <1>11, MapSummary
<1>14. SUFFICES ASSUME NEW m, m = MapMark(es, k, covered, known, before) PROVE Faithful(m, r)
  OBVIOUS
<1>15. m = [kind |-> "map", last |-> n + end, obs |-> obs, repl |-> <<map>>,
            seen |-> known \cup shown]
  BY <1>4, <1>6, <1>14
<1>16. m.kind = "map" /\ m.last = n + end /\ m.obs = obs /\ m.repl = <<map>>
       /\ m.seen = known \cup shown
  BY <1>15
<1>17. m \in Marks
  <2>1. n + end \in Nat /\ <<map>> \in Seq(Entries)
    BY <1>7, <1>11
  <2>2. QED
    BY <1>8, <1>12, <1>15, <2>1 DEF Marks
<1>18. m.last > 0
  BY <1>7, <1>16
<1>19. QED
  BY <1>8, <1>12, <1>13, <1>16, <1>17, <1>18 DEF Faithful, Stands

\* Checkpoints of a session whose messages through the boundary are the same
\* stay faithful: messages are only appended, and a fork takes the checkpoints
\* whose observation boundary it has.
LEMMA FaithfulKept ==
    ASSUME NEW r, NEW q, NEW m, Faithful(m, r), m.obs <= Len(q), Len(q) \in Nat,
           \A i \in 1..m.obs : q[i] = r[i]
    PROVE  Faithful(m, q)
<1>1. /\ m \in Marks /\ m.last > 0 /\ Summary(m.repl, r, m.last)
      /\ m.obs \in m.last..Len(r) /\ Known(m.seen, r, m.obs)
  BY DEF Faithful, Stands
<1>2. m.last \in Nat /\ m.obs \in Nat
  BY <1>1 DEF Marks
<1>3. /\ \A i \in 1..m.last : q[i] = r[i]
      /\ m.last \in 0..Len(q) /\ m.obs \in m.last..Len(q) /\ m.last \in 1..m.last
  BY <1>1, <1>2
<1>4. SameCover(m.repl, q, m.last)
  BY <1>1, <1>3 DEF Summary, SameCover
<1>5. OpenAt(m.repl, Len(m.repl)) <=> OpenAt(q, m.last)
  BY <1>1, <1>3 DEF Summary, OpenAt
<1>6. Summary(m.repl, q, m.last)
  BY <1>1, <1>3, <1>4, <1>5 DEF Summary
<1>7. Known(m.seen, q, m.obs)
  BY <1>1 DEF Known
<1>8. QED
  BY <1>1, <1>3, <1>6, <1>7 DEF Faithful, Stands

\* A checkpoint's replacement, and the absence of one, stand for what they
\* consumed.
LEMMA NoMarkStands ==
    ASSUME NEW r, Len(r) \in Nat
    PROVE  Stands(NoMark, r)
<1>1. NoMark.repl = <<>> /\ NoMark.last = 0 /\ NoMark.obs = 0 /\ NoMark.seen = {}
  BY DEF NoMark
<1>2. <<>> \in Seq(Entries) /\ Len(<<>>) = 0 /\ 0 \in 0..Len(r)
  OBVIOUS
<1>3. SUFFICES ASSUME NEW h, h \in Seq(Entries), Len(h) = 0, h = <<>>
               PROVE  Summary(h, r, 0)
  BY <1>1, <1>2 DEF Stands, Known
<1>4. QED
  BY <1>2, <1>3 DEF Summary, SameCover, Ordered, Paired, OpenAt

\* The latest checkpoint of a session stands for what it consumed.
LEMMA LatestStands ==
    ASSUME NEW s \in Sessions, TypeInv, SessionOk(s)
    PROVE  /\ Stands(Latest(s), raw[s])
           /\ Latest(s).seen \in SUBSET Pairs
           /\ Latest(s).last \in 0..Len(raw[s])
<1>1. marks[s] \in Seq(Marks) /\ raw[s] \in Seq(Entries)
  BY DEF TypeInv
<1>2. CASE marks[s] = <<>>
  <2>1. Latest(s) = NoMark
    BY <1>2 DEF Latest
  <2>2. Len(raw[s]) \in Nat
    BY <1>1
  <2>3. QED
    BY <2>1, <2>2, NoMarkStands DEF NoMark
<1>3. CASE marks[s] # <<>>
  <2>1. Len(marks[s]) \in 1..Len(marks[s])
    BY <1>1, <1>3
  <2>2. Latest(s) = marks[s][Len(marks[s])]
    BY <1>3 DEF Latest, Last
  <2>3. Faithful(Latest(s), raw[s])
    BY <2>1, <2>2 DEF SessionOk
  <2>4. QED
    BY <2>3 DEF Faithful, Stands, Summary, Marks
<1>4. QED
  BY <1>2, <1>3

\* The effective history of a session is a summary of all its messages.
LEMMA EffectiveSummary ==
    ASSUME NEW s \in Sessions, TypeInv, SessionOk(s)
    PROVE  Summary(Effective(s), raw[s], Len(raw[s]))
<1>1. Canonical(raw[s]) /\ Summary(Latest(s).repl, raw[s], Latest(s).last)
  BY LatestStands DEF SessionOk, Stands
<1>2. QED
  BY <1>1, SummaryExtends DEF Effective, Suffix

\* A recovery card is a faithful checkpoint of everything stored.
LEMMA CardFaithful ==
    ASSUME NEW s \in Sessions, TypeInv, SessionOk(s), RetainedFrom(Effective(s)) # 1,
           HistoryConstants
    PROVE  Faithful(CardMark(s), raw[s])
<1> DEFINE r == raw[s]
           es == Effective(s)
           cut == RetainedFrom(es)
           G == GroupStarts(es)
           card == [kind |-> "card", covers |-> Covers(SubSeq(es, 1, cut - 1)), origin |-> 0]
           repl == <<card>> \o SubSeq(es, cut, Len(es))
<1>1. Canonical(r) /\ Summary(es, r, Len(r)) /\ r \in Seq(Entries) /\ Len(r) \in Nat
  BY EffectiveSummary DEF SessionOk, Canonical
<1>2. es \in Seq(Entries) /\ Len(es) \in Nat
  BY <1>1 DEF Summary
<1> HIDE DEF es
<1>3. cut \in 2..Len(es) /\ es[cut].kind # "reply"
  <2>1. G \subseteq 1..Len(es)
    BY DEF GroupStarts
  <2>2. Cardinality(G) \in Nat
    <3>1. IsFiniteSet(1..Len(es))
      BY <1>2, FS_Interval
    <3>2. QED
      BY <2>1, <3>1, FS_Subset, FS_CardinalityType
  <2>3. ~(Retained >= Cardinality(G)) /\ cut = Nth(G, Cardinality(G) - Retained + 1)
    BY DEF RetainedFrom, es
  <2>4. Cardinality(G) - Retained + 1 \in 2..Cardinality(G)
    BY <2>2, <2>3 DEF HistoryConstants
  <2>5. cut \in G /\ cut > 1
    BY <1>2, <2>1, <2>3, <2>4, NthLater
  <2> HIDE DEF cut
  <2>6. cut \in 1..Len(es) /\ es[cut].kind \in {"user", "card", "map"}
    BY <2>5 DEF GroupStarts, StartsGroup
  <2>7. QED
    BY <1>2, <2>5, <2>6
<1> HIDE DEF cut
<1>4. \A i \in 1..Len(es) : es[i].covers \subseteq Pairs
  <2>1. \A i \in 1..Len(es) : es[i] \in Entries
    BY <1>2
  <2>2. \A e \in Entries : e.covers \subseteq Pairs
    BY DEF Entries
  <2>3. QED
    BY <2>1, <2>2
<1>5. card \in Entries /\ card.kind = "card" /\ card.covers = Covers(SubSeq(es, 1, cut - 1))
  <2>1. /\ SubSeq(es, 1, cut - 1) \in Seq(Entries) /\ Len(SubSeq(es, 1, cut - 1)) = cut - 1
        /\ \A i \in 1..(cut - 1) : SubSeq(es, 1, cut - 1)[i] = es[i] /\ i \in 1..Len(es)
    BY <1>2, <1>3
  <2>2. Covers(SubSeq(es, 1, cut - 1)) \subseteq Pairs
    BY <1>4, <2>1, CoversIs
  <2>3. QED
    BY <2>2 DEF Entries
<1> HIDE DEF card
<1>6. Summary(repl, r, Len(r))
  BY <1>1, <1>3, <1>5, CardSummary
<1> HIDE DEF repl
<1>7. Len(r) > 0
  <2>1. es # <<>>
    BY <1>2, <1>3
  <2>2. QED
    BY <1>1, <2>1 DEF Summary
<1>8. \A x \in Covers(es) : x \in Pairs /\ \E k \in 1..Len(r) : x \in r[k].covers
  BY <1>1, <1>4, CoversIs DEF Summary, SameCover
<1>9. /\ Latest(s).seen \in SUBSET Pairs
      /\ Known(Latest(s).seen, r, Latest(s).obs)
      /\ \A k \in 1..Latest(s).obs : k \in 1..Len(r)
  <2>1. Latest(s).last \in Nat /\ Latest(s).obs \in Latest(s).last..Len(r)
    BY LatestStands DEF Stands
  <2>2. QED
    BY <1>1, <2>1, LatestStands DEF Stands
<1>10. Known(Latest(s).seen \cup Covers(es), r, Len(r))
       /\ Latest(s).seen \cup Covers(es) \in SUBSET Pairs
  BY <1>8, <1>9 DEF Known
<1>11. CardMark(s) = [kind |-> "card", last |-> Len(r), obs |-> Len(r), repl |-> repl,
                      seen |-> Latest(s).seen \cup Covers(es)]
  BY DEF CardMark, repl, card, cut, es
<1>12. SUFFICES ASSUME NEW m, m = [kind |-> "card", last |-> Len(r), obs |-> Len(r),
                                   repl |-> repl, seen |-> Latest(s).seen \cup Covers(es)]
                PROVE  Faithful(m, r)
  BY <1>11
<1>13. m \in Marks
  <2>1. repl \in Seq(Entries)
    BY <1>6 DEF Summary
  <2>2. QED
    BY <1>1, <1>10, <1>12, <2>1 DEF Marks
<1>14. m.last = Len(r) /\ m.obs = Len(r) /\ m.repl = repl
       /\ m.seen = Latest(s).seen \cup Covers(es)
  BY <1>12
<1>15. Len(r) \in Len(r)..Len(r)
  BY <1>1
<1>16. QED
  BY <1>6, <1>7, <1>10, <1>13, <1>14, <1>15 DEF Faithful, Stands

\* Whatever a job may author from the history it finds is faithful to it.
LEMMA DraftsFaithful ==
    ASSUME TypeInv, HistoryConstants, NEW j \in Jobs, job[j].st = "asked",
           job[j].s \in Sessions, SessionOk(job[j].s),
           job[j].path \in {"card", "map", "upgrade"}, NEW m \in Drafts(j)
    PROVE  Faithful(m, raw[job[j].s])
<1> DEFINE s == job[j].s
           r == raw[s]
<1>1. Canonical(r) /\ Len(r) \in Nat /\ r \in Seq(Entries) /\ s \in Sessions /\ SessionOk(s)
  BY DEF SessionOk, Canonical
<1> HIDE DEF s
<1>2. CASE job[j].path = "card"
  <2>1. RetainedFrom(Effective(s)) # 1 /\ m = CardMark(s)
    BY <1>2 DEF Drafts, s
  <2>2. QED
    BY <1>1, <2>1, CardFaithful DEF s
<1>3. CASE job[j].path = "map"
  <2> DEFINE n == Latest(s).last
             es == Suffix(s, n)
             covered == Covers(Latest(s).repl)
  <2>1. PICK k : /\ m = MapMark(es, k, covered, Latest(s).seen, Latest(s).obs)
                 /\ es # <<>> /\ ToolHistoryOk(es) /\ k \in 1..Evictable(es)
    <3>1. m \in {MapMark(es, k, covered, Latest(s).seen, Latest(s).obs) :
                 k \in IF es # <<>> /\ ToolHistoryOk(es) THEN 1..Evictable(es) ELSE {}}
      BY <1>3 DEF Drafts, s
    <3>2. QED
      BY <3>1
  <2>2. Stands(Latest(s), r) /\ Latest(s).seen \in SUBSET Pairs /\ n \in 0..Len(r)
    BY <1>1, LatestStands
  <2>3. Summary(Latest(s).repl, r, n) /\ Latest(s).obs \in n..Len(r)
        /\ Known(Latest(s).seen, r, Latest(s).obs)
    BY <2>2 DEF Stands
  <2>4. Latest(s).obs \in 0..Len(r)
    BY <2>2, <2>3
  <2>5. Tailed(es, r, n)
    BY <1>1, <2>2, SuffixTailed DEF Suffix
  <2>6. \A x : x \in covered <=> \E i \in 1..n : x \in r[i].covers
    <3>1. \A x : x \in covered <=> \E i \in 1..Len(Latest(s).repl) : x \in Latest(s).repl[i].covers
      BY CoversIs
    <3>2. SameCover(Latest(s).repl, r, n)
      BY <2>3 DEF Summary
    <3> HIDE DEF covered, r, n
    <3>3. ASSUME NEW x \in covered PROVE \E i \in 1..n : x \in r[i].covers
      BY <3>1, <3>2 DEF SameCover
    <3>4. ASSUME NEW i \in 1..n, NEW x \in r[i].covers PROVE x \in covered
      BY <3>1, <3>2 DEF SameCover
    <3>5. QED
      BY <3>3, <3>4
  <2>7. covered \in SUBSET Pairs
    <3>1. \A i \in 1..n : i \in 1..Len(r) /\ r[i] \in Entries
      BY <1>1, <2>2
    <3>2. \A e \in Entries : e.covers \subseteq Pairs
      BY DEF Entries
    <3>3. QED
      BY <2>6, <3>1, <3>2
  <2> HIDE DEF covered, es, n
  <2>8. Faithful(m, r)
    BY <1>1, <2>1, <2>2, <2>3, <2>4, <2>5, <2>6, <2>7, MapFaithful
  <2>9. QED
    BY <2>8 DEF s
<1>4. CASE job[j].path = "upgrade"
  <2>1. PICK k : /\ m = MapMark(r, k, {}, {}, 0)
                 /\ r # <<>> /\ ToolHistoryOk(r) /\ k \in 1..Evictable(r)
    <3>1. m \in {MapMark(r, k, {}, {}, 0) :
                 k \in IF r # <<>> /\ ToolHistoryOk(r) THEN 1..Evictable(r) ELSE {}}
      BY <1>4 DEF Drafts, s
    <3>2. QED
      BY <3>1
  <2>2. Tailed(r, r, 0)
    BY <1>1 DEF Tailed, Canonical
  <2>3. 0 \in 0..Len(r) /\ {} \in SUBSET Pairs /\ Known({}, r, 0)
        /\ \A x : x \in {} <=> \E i \in 1..0 : x \in r[i].covers
    BY <1>1 DEF Known
  <2>4. Faithful(m, r)
    BY <1>1, <2>1, <2>2, <2>3, MapFaithful
  <2>5. QED
    BY <2>4 DEF s
<1>5. QED
  BY <1>2, <1>3, <1>4

\* New messages of these kinds may follow a history that is open or not.
Fits(ks, open) ==
    /\ ks \in Seq(Kinds) /\ Len(ks) \in 1..4
    /\ ks[1] = "reply" <=> open
    /\ \A i \in 1..Len(ks) : /\ ks[i] = "reply" /\ i > 1 => ks[i - 1] = "call"
                             /\ ks[i] = "call" => i = Len(ks) \/ ks[i + 1] = "reply"

\* What a turn stores fits after a request, what a resumption stores fits after
\* the open call.
LEMMA TurnsFit ==
    /\ Fits(<<"user">>, FALSE) /\ Fits(<<"reply">>, TRUE)
    /\ \A out \in TurnOutputs : Fits(out, FALSE) /\ Fits(<<"reply">> \o out, TRUE)
<1>1. Fits(<<"user">>, FALSE) /\ Fits(<<"reply">>, TRUE)
  BY DEF Fits, Kinds
<1>2. Fits(<<"text">>, FALSE) /\ Fits(<<"call">>, FALSE) /\ Fits(<<"call", "reply", "text">>, FALSE)
  BY DEF Fits, Kinds
<1>3. \A out \in TurnOutputs : Fits(out, FALSE) /\ Len(out) <= 3
  <2>1. Len(<<"text">>) <= 3 /\ Len(<<"call">>) <= 3 /\ Len(<<"call", "reply", "text">>) <= 3
    OBVIOUS
  <2>2. QED
    BY <1>2, <2>1, Zenon DEF TurnOutputs
<1>4. ASSUME NEW out \in TurnOutputs PROVE Fits(<<"reply">> \o out, TRUE)
  <2>1. /\ out \in Seq(Kinds) /\ Len(out) \in 1..3
        /\ out[1] # "reply"
        /\ \A i \in 1..Len(out) : /\ out[i] = "reply" /\ i > 1 => out[i - 1] = "call"
                                  /\ out[i] = "call" => i = Len(out) \/ out[i + 1] = "reply"
    <3>1. Fits(out, FALSE) /\ Len(out) <= 3
      BY <1>3
    <3>2. /\ out \in Seq(Kinds) /\ Len(out) \in 1..4
          /\ (out[1] = "reply") = FALSE
          /\ \A i \in 1..Len(out) : /\ out[i] = "reply" /\ i > 1 => out[i - 1] = "call"
                                    /\ out[i] = "call" => i = Len(out) \/ out[i + 1] = "reply"
      BY <3>1, Zenon DEF Fits
    <3>3. Len(out) \in 1..3
      BY <3>1, <3>2
    <3>4. QED
      BY <3>2, <3>3, Zenon
  <2>2. <<"reply">> \in Seq(Kinds) /\ Len(<<"reply">>) = 1 /\ <<"reply">>[1] = "reply"
    BY DEF Kinds
  <2>3. SUFFICES ASSUME NEW u, u \in Seq(Kinds), Len(u) = 1, u[1] = "reply",
                        NEW h, h = u \o out
                 PROVE  Fits(h, TRUE)
    BY <2>2, Zenon
  <2>4. h \in Seq(Kinds) /\ Len(h) = Len(u) + Len(out)
        /\ \A i \in 1..Len(u) + Len(out) : h[i] = IF i <= Len(u) THEN u[i] ELSE out[i - Len(u)]
    <3>1. u \in Seq(Kinds) /\ out \in Seq(Kinds)
      BY <2>1, <2>3
    <3>2. QED
      BY <2>3, <3>1, ConcatProperties, Zenon
  <2>5. Len(h) = Len(out) + 1 /\ h[1] = "reply" /\ \A i \in 2..Len(h) : h[i] = out[i - 1]
    BY <2>1, <2>3, <2>4
  <2>6. ASSUME NEW i \in 1..Len(h)
        PROVE  /\ h[i] = "reply" /\ i > 1 => h[i - 1] = "call"
               /\ h[i] = "call" => i = Len(h) \/ h[i + 1] = "reply"
    <3>1. CASE i = 1
      BY <2>5, <3>1
    <3>2. CASE i = 2
      <4>1. h[2] = out[1] /\ 1 \in 1..Len(out)
        BY <2>1, <2>5, <3>2
      <4>2. h[2] # "reply"
        BY <2>1, <4>1
      <4>3. ASSUME h[2] = "call", 2 # Len(h) PROVE h[3] = "reply"
        <5>1. 1 # Len(out) /\ 3 \in 2..Len(h)
          BY <2>1, <2>5, <4>3
        <5>2. h[3] = out[2] /\ out[1 + 1] = "reply"
          BY <2>1, <2>5, <4>1, <4>3, <5>1
        <5>3. QED
          BY <5>2
      <4>4. QED
        BY <3>2, <4>2, <4>3
    <3>3. CASE i > 2
      <4>1. i - 1 \in 1..Len(out) /\ i - 1 > 1 /\ i \in 2..Len(h) /\ i - 1 \in 2..Len(h)
            /\ (i # Len(h) => i - 1 # Len(out) /\ i + 1 \in 2..Len(h))
        BY <2>1, <2>5, <3>3
      <4>2. h[i] = out[i - 1] /\ h[i - 1] = out[(i - 1) - 1]
        BY <2>5, <4>1
      <4>3. i # Len(h) => h[i + 1] = out[(i - 1) + 1]
        <5>1. i # Len(h) => h[i + 1] = out[(i + 1) - 1]
          BY <2>5, <4>1
        <5>2. (i + 1) - 1 = (i - 1) + 1
          OBVIOUS
        <5>3. QED
          BY <5>1, <5>2
      <4>4. QED
        BY <2>1, <4>1, <4>2, <4>3
    <3>4. QED
      BY <2>5, <3>1, <3>2, <3>3
  <2>7. Len(h) \in 1..4
    BY <2>1, <2>5
  <2>8. QED
    BY <2>4, <2>5, <2>6, <2>7 DEF Fits
<1>5. QED
  BY <1>1, <1>3, <1>4

\* The messages that AddMessages stores.
New(s, ks, n) == [i \in 1..Len(ks) |-> Entry(s, ks[i], n + i)]

\* Fitting messages leave the history canonical, its first messages unchanged.
LEMMA AppendCanonical ==
    ASSUME NEW r, Canonical(r), NEW s \in Sessions, NEW ks, Fits(ks, OpenAt(r, Len(r)))
    PROVE  /\ Canonical(r \o New(s, ks, Len(r)))
           /\ r \o New(s, ks, Len(r)) \in Seq(Entries)
           /\ Len(r \o New(s, ks, Len(r))) >= Len(r)
           /\ \A i \in 1..Len(r) : (r \o New(s, ks, Len(r)))[i] = r[i]
<1> DEFINE b == New(s, ks, Len(r))
<1>1. r \in Seq(Entries) /\ Len(r) \in Nat /\ ks \in Seq(Kinds) /\ Len(ks) \in 1..4
  BY DEF Canonical, Fits
<1>2. \A i \in 1..Len(ks) : Entry(s, ks[i], Len(r) + i) \in Entries
  <2>1. SUFFICES ASSUME NEW i \in 1..Len(ks) PROVE Entry(s, ks[i], Len(r) + i) \in Entries
    OBVIOUS
  <2>2. ks[i] \in Kinds /\ Len(r) + i \in Nat
    BY <1>1
  <2>3. {<<s, Len(r) + i>>} \in SUBSET Pairs
    BY <2>2 DEF Pairs
  <2>4. QED
    BY <2>2, <2>3 DEF Entry, Entries
<1>3. b \in Seq(Entries) /\ Len(b) = Len(ks) /\ \A i \in 1..Len(ks) : b[i] = Entry(s, ks[i], Len(r) + i)
  BY <1>1, <1>2 DEF New
<1> HIDE DEF b
<1>4. SUFFICES ASSUME NEW h, h = r \o b
               PROVE  /\ Canonical(h) /\ h \in Seq(Entries) /\ Len(h) >= Len(r)
                      /\ \A i \in 1..Len(r) : h[i] = r[i]
  BY DEF b
<1>5. /\ h \in Seq(Entries) /\ Len(h) = Len(r) + Len(ks) /\ Len(h) \in Nat
      /\ \A i \in 1..Len(r) : h[i] = r[i]
      /\ \A i \in 1..Len(ks) : h[Len(r) + i] = b[i]
  <2>1. h \in Seq(Entries) /\ Len(h) = Len(r) + Len(b)
        /\ \A i \in 1..Len(r) + Len(b) : h[i] = IF i <= Len(r) THEN r[i] ELSE b[i - Len(r)]
    <3>1. r \in Seq(Entries) /\ b \in Seq(Entries)
      BY <1>1, <1>3
    <3>2. QED
      BY <1>4, <3>1, ConcatProperties, Zenon
  <2>2. Len(h) = Len(r) + Len(ks) /\ Len(h) \in Nat
    BY <1>1, <1>3, <2>1
  <2>3. \A i \in 1..Len(r) : h[i] = r[i]
    BY <1>1, <1>3, <2>1
  <2>4. ASSUME NEW i \in 1..Len(ks) PROVE h[Len(r) + i] = b[i]
    <3>1. Len(r) + i \in 1..Len(r) + Len(b) /\ ~(Len(r) + i <= Len(r)) /\ (Len(r) + i) - Len(r) = i
      BY <1>1, <1>3
    <3>2. QED
      BY <2>1, <3>1
  <2>5. QED
    BY <2>1, <2>2, <2>3, <2>4
<1>6. ASSUME NEW i \in 1..Len(ks)
      PROVE  /\ h[Len(r) + i].kind = ks[i] /\ h[Len(r) + i].origin = Len(r) + i
             /\ \A x \in h[Len(r) + i].covers : x[2] = Len(r) + i
  <2>1. h[Len(r) + i] = [kind |-> ks[i], covers |-> {<<s, Len(r) + i>>}, origin |-> Len(r) + i]
    BY <1>3, <1>5 DEF Entry
  <2>2. QED
    BY <2>1
<1>7. ASSUME NEW i \in 1..Len(h)
      PROVE  i \in 1..Len(r) \/ (i - Len(r) \in 1..Len(ks) /\ Len(r) + (i - Len(r)) = i)
  BY <1>1, <1>5
<1>8. ASSUME NEW i \in 1..Len(h)
      PROVE  h[i].kind \in Kinds /\ h[i].origin = i /\ \A x \in h[i].covers : x[2] = i
  <2>1. CASE i \in 1..Len(r)
    BY <1>5, <2>1 DEF Canonical
  <2>2. CASE i - Len(r) \in 1..Len(ks) /\ Len(r) + (i - Len(r)) = i
    <3>1. ks[i - Len(r)] \in Kinds
      BY <1>1, <2>2
    <3>2. QED
      BY <1>6, <2>2, <3>1
  <2>3. QED
    BY <1>7, <2>1, <2>2
<1>9. Paired(h)
  <2>1. \A i \in 1..Len(r) : /\ r[i].kind = "reply" => i > 1 /\ r[i - 1].kind = "call"
                             /\ r[i].kind = "call" => i = Len(r) \/ r[i + 1].kind = "reply"
    BY DEF Canonical, Paired
  <2>2. /\ ks[1] = "reply" <=> (Len(r) > 0 /\ r[Len(r)].kind = "call")
        /\ \A i \in 1..Len(ks) : /\ ks[i] = "reply" /\ i > 1 => ks[i - 1] = "call"
                                 /\ ks[i] = "call" => i = Len(ks) \/ ks[i + 1] = "reply"
    BY DEF Fits, OpenAt
  <2>3. \A i \in 1..Len(r) : h[i].kind = r[i].kind
    BY <1>5
  <2>4. \A i \in 1..Len(ks) : h[Len(r) + i].kind = ks[i]
    BY <1>6
  <2>5. ASSUME NEW i \in 1..Len(r)
        PROVE  /\ h[i].kind = "reply" => i > 1 /\ h[i - 1].kind = "call"
               /\ h[i].kind = "call" => i = Len(h) \/ h[i + 1].kind = "reply"
    <3>1. i > 1 => i - 1 \in 1..Len(r)
      BY <1>1
    <3>2. CASE i = Len(r)
      <4>1. h[Len(r) + 1].kind = ks[1] /\ Len(r) > 0
        BY <1>1, <2>4, <3>2
      <4>2. QED
        BY <2>1, <2>2, <2>3, <3>1, <3>2, <4>1
    <3>3. CASE i # Len(r)
      <4>1. i + 1 \in 1..Len(r)
        BY <1>1, <3>3
      <4>2. QED
        BY <2>1, <2>3, <3>1, <3>3, <4>1
    <3>4. QED
      BY <3>2, <3>3
  <2>6. ASSUME NEW k \in 1..Len(ks)
        PROVE  /\ ks[k] = "reply" => Len(r) + k > 1 /\ h[Len(r) + k - 1].kind = "call"
               /\ ks[k] = "call" => Len(r) + k = Len(h) \/ h[Len(r) + k + 1].kind = "reply"
    <3>1. ASSUME ks[k] = "reply" PROVE Len(r) + k > 1 /\ h[Len(r) + k - 1].kind = "call"
      <4>1. CASE k = 1
        <5>1. Len(r) > 0 /\ r[Len(r)].kind = "call" /\ Len(r) \in 1..Len(r)
          BY <1>1, <2>2, <3>1, <4>1
        <5>2. Len(r) + k - 1 = Len(r) /\ Len(r) + k > 1
          BY <1>1, <4>1, <5>1
        <5>3. QED
          BY <2>3, <5>1, <5>2
      <4>2. CASE k > 1
        <5>1. k - 1 \in 1..Len(ks) /\ Len(r) + (k - 1) = Len(r) + k - 1 /\ Len(r) + k > 1
          BY <1>1, <4>2
        <5>2. QED
          BY <2>2, <2>4, <3>1, <4>2, <5>1
      <4>3. QED
        BY <1>1, <4>1, <4>2
    <3>2. ASSUME ks[k] = "call", Len(r) + k # Len(h) PROVE h[Len(r) + k + 1].kind = "reply"
      <4>1. k # Len(ks) /\ k + 1 \in 1..Len(ks) /\ Len(r) + (k + 1) = Len(r) + k + 1
        <5>1. Len(h) = Len(r) + Len(ks)
          BY <1>5
        <5>2. QED
          BY <1>1, <3>2, <5>1
      <4>2. ks[k + 1] = "reply"
        BY <2>2, <3>2, <4>1
      <4>3. QED
        BY <2>4, <4>1, <4>2
    <3>3. QED
      BY <3>1, <3>2
  <2>7. ASSUME NEW i \in 1..Len(h)
        PROVE  /\ h[i].kind = "reply" => i > 1 /\ h[i - 1].kind = "call"
               /\ h[i].kind = "call" => i = Len(h) \/ h[i + 1].kind = "reply"
    <3>1. CASE i \in 1..Len(r)
      BY <2>5, <3>1
    <3>2. CASE i - Len(r) \in 1..Len(ks) /\ Len(r) + (i - Len(r)) = i
      <4>1. PICK k \in 1..Len(ks) : Len(r) + k = i
        BY <3>2
      <4>2. h[i].kind = ks[k] /\ Len(r) + k - 1 = i - 1 /\ Len(r) + k + 1 = i + 1
        <5>1. h[Len(r) + k].kind = ks[k]
          BY <2>4
        <5>2. h[i].kind = ks[k]
          BY <4>1, <5>1, Zenon
        <5>3. Len(r) + k - 1 = i - 1 /\ Len(r) + k + 1 = i + 1
          BY <4>1
        <5>4. QED
          BY <5>2, <5>3
      <4>3. /\ ks[k] = "reply" => Len(r) + k > 1 /\ h[Len(r) + k - 1].kind = "call"
            /\ ks[k] = "call" => Len(r) + k = Len(h) \/ h[Len(r) + k + 1].kind = "reply"
        BY <2>6
      <4>4. QED
        BY <4>1, <4>2, <4>3
    <3>3. QED
      BY <1>7, <3>1, <3>2
  <2>8. QED
    BY <2>7 DEF Paired
<1>10. Canonical(h)
  BY <1>5, <1>8, <1>9 DEF Canonical
<1>11. QED
  BY <1>1, <1>5, <1>10

-----------------------------------------------------------------------------
(***************************************************************************)
(* Steps.                                                                  *)
(***************************************************************************)

\* A session that a step leaves alone.
LEMMA SessionKept ==
    ASSUME NEW t, SessionOk(t), raw'[t] = raw[t], marks'[t] = marks[t],
           failed'[t] = failed[t], state'[t] = state[t]
    PROVE  SessionOk(t)'
BY DEF SessionOk

\* A job whose session a step leaves alone.
LEMMA JobKept ==
    ASSUME NEW j, JobOk(j), job'[j] = job[j], state'[job[j].s] = state[job[j].s],
           raw'[job[j].s] = raw[job[j].s], marks'[job[j].s] = marks[job[j].s],
           rev'[job[j].s] = rev[job[j].s]
    PROVE  JobOk(j)'
BY DEF JobOk, Effective, Latest, Suffix

\* The fields of a job that is under way.
LEMMA JobFields ==
    ASSUME TypeInv, NEW j \in Jobs
    PROVE  /\ job[j] # Idle => job[j].s \in Sessions
           /\ job[j].st = "asked" => job[j] # Idle /\ job[j].path \in {"card", "map", "upgrade"}
           /\ job[j].st = "authoring" => /\ job[j] # Idle /\ job[j].rev \in Nat
                                         /\ job[j].mark \in Marks
<1>1. job[j] \in Work
  BY DEF TypeInv
<1>2. SUFFICES ASSUME NEW w \in Work
               PROVE  /\ w # Idle => w.s \in Sessions
                      /\ w.st = "asked" => w # Idle /\ w.path \in {"card", "map", "upgrade"}
                      /\ w.st = "authoring" => w # Idle /\ w.rev \in Nat /\ w.mark \in Marks
  BY <1>1
<1>3. CASE w = Idle
  BY <1>3 DEF Idle
<1>4. CASE w \in [st : {"asked"}, s : Sessions, path : {"card", "map"}]
  <2>1. w.st = "asked" /\ w.s \in Sessions /\ w.path \in {"card", "map"}
    BY <1>4
  <2>2. w # Idle
    BY <2>1 DEF Idle
  <2>3. QED
    BY <2>1, <2>2
<1>5. CASE w \in [st : {"asked"}, s : Sessions, path : {"upgrade"}, from : Nat]
  <2>1. w.st = "asked" /\ w.s \in Sessions /\ w.path = "upgrade"
    BY <1>5
  <2>2. w # Idle
    BY <2>1 DEF Idle
  <2>3. QED
    BY <2>1, <2>2
<1>6. CASE w \in [st : {"authoring"}, s : Sessions, path : {"card", "map", "upgrade"},
                  rev : Nat, mark : Marks, read : Seq(Entries)]
  <2>1. w.st = "authoring" /\ w.s \in Sessions /\ w.rev \in Nat /\ w.mark \in Marks
    BY <1>6
  <2>2. w # Idle
    BY <2>1 DEF Idle
  <2>3. QED
    BY <2>1, <2>2
<1>7. QED
  BY <1>3, <1>4, <1>5, <1>6 DEF Work

\* A job whose session moves on: its revision can no longer match.
LEMMA JobOvertaken ==
    ASSUME NEW j, TypeInv, JobOk(j), job'[j] = job[j], j \in Jobs, job[j].s \in Sessions,
           state'[job[j].s] = state[job[j].s],
           rev'[job[j].s] \in Nat, rev'[job[j].s] > rev[job[j].s],
           \A m : Faithful(m, raw[job[j].s]) => Faithful(m, raw'[job[j].s])
    PROVE  JobOk(j)'
<1> DEFINE t == job[j].s
<1>1. t' = t
  OBVIOUS
<1>2. CASE job[j].st = "authoring" /\ state[t] = "live"
  <2>1. Faithful(job[j].mark, raw[t]) /\ job[j].rev <= rev[t]
    BY <1>2 DEF JobOk
  <2>2. job[j].rev \in Nat
    BY <1>2, JobFields
  <2>3. rev[t] \in Nat
    BY DEF TypeInv
  <2>4. job[j].rev < rev'[t]
    BY <2>1, <2>2, <2>3
  <2>5. Faithful(job[j].mark, raw'[t])
    BY <2>1
  <2>6. QED
    BY <1>2, <2>2, <2>4, <2>5 DEF JobOk
<1>3. CASE ~(job[j].st = "authoring" /\ state[t] = "live")
  BY <1>3 DEF JobOk
<1>4. QED
  BY <1>2, <1>3

\* The jobs of a session that moves on, and the jobs of the others.
LEMMA JobsOvertaken ==
    ASSUME IInv, NEW s \in Sessions, job' = job, state' = state,
           rev' \in [Sessions -> Nat], rev'[s] > rev[s],
           \A m : Faithful(m, raw[s]) => Faithful(m, raw'[s]),
           \A t \in Sessions \ {s} : raw'[t] = raw[t] /\ marks'[t] = marks[t] /\ rev'[t] = rev[t]
    PROVE  \A j \in Jobs : JobOk(j)'
<1>1. SUFFICES ASSUME NEW j \in Jobs PROVE JobOk(j)'
  OBVIOUS
<1>2. TypeInv /\ JobOk(j)
  BY DEF IInv
<1>3. CASE job[j] = Idle
  BY <1>3 DEF JobOk, Idle
<1>4. CASE job[j] # Idle
  <2>1. job[j].s \in Sessions
    BY <1>2, <1>4, JobFields
  <2>2. CASE job[j].s = s
    <3>1. rev'[s] \in Nat
      OBVIOUS
    <3>2. QED
      BY <1>2, <2>1, <2>2, <3>1, JobOvertaken
  <2>3. CASE job[j].s # s
    BY <1>2, <2>1, <2>3, JobKept
  <2>4. QED
    BY <2>2, <2>3
<1>5. QED
  BY <1>3, <1>4

\* Storing messages.
LEMMA Grows ==
    ASSUME IInv, NEW s \in Sessions, NEW ks, Fits(ks, OpenAt(raw[s], Len(raw[s]))),
           NEW bump \in {0, 1}, AddMessages(s, ks, bump),
           UNCHANGED <<state, marks, strategy, job>>,
           running' \in [Sessions -> BOOLEAN],
           failed' = failed \/ failed' = [failed EXCEPT ![s] = 0]
    PROVE  IInv'
<1> DEFINE r == raw[s]
           q == r \o New(s, ks, Len(r))
<1>1. TypeInv /\ SessionOk(s) /\ Canonical(r) /\ r \in Seq(Entries) /\ Len(r) \in Nat
  BY DEF IInv, SessionOk, Canonical
<1>2. Canonical(q) /\ q \in Seq(Entries) /\ Len(q) >= Len(r) /\ Len(q) \in Nat
      /\ \A i \in 1..Len(r) : q[i] = r[i]
  <2>1. Canonical(r) /\ Fits(ks, OpenAt(r, Len(r)))
    BY <1>1
  <2> HIDE DEF r
  <2>2. Canonical(q) /\ q \in Seq(Entries) /\ Len(q) >= Len(r)
        /\ \A i \in 1..Len(r) : q[i] = r[i]
    BY <2>1, AppendCanonical
  <2>3. QED
    BY <2>2
<1>3. raw' = [raw EXCEPT ![s] = q]
  BY DEF AddMessages, New
<1> HIDE DEF q
<1>4. /\ raw'[s] = q /\ raw' \in [Sessions -> Seq(Entries)]
      /\ \A t \in Sessions \ {s} : raw'[t] = raw[t]
  BY <1>1, <1>2, <1>3 DEF TypeInv
<1>5. /\ rev' \in [Sessions -> Nat] /\ rev'[s] > rev[s]
      /\ \A t \in Sessions \ {s} : rev'[t] = rev[t]
  <2>1. rev \in [Sessions -> Nat] /\ rev[s] \in Nat
    BY <1>1 DEF TypeInv
  <2>2. rev' = [rev EXCEPT ![s] = rev[s] + 1 + bump]
    BY DEF AddMessages
  <2>3. rev[s] + 1 + bump \in Nat /\ rev[s] + 1 + bump > rev[s]
    BY <2>1
  <2>4. QED
    BY <2>1, <2>2, <2>3
<1>6. /\ failed' \in [Sessions -> Nat] /\ failed'[s] \in {0, failed[s]}
      /\ \A t \in Sessions \ {s} : failed'[t] = failed[t]
  <2>1. failed \in [Sessions -> Nat]
    BY <1>1 DEF TypeInv
  <2>2. CASE failed' = failed
    BY <2>1, <2>2
  <2>3. CASE failed' = [failed EXCEPT ![s] = 0]
    BY <2>1, <2>3
  <2>4. QED
    BY <2>2, <2>3
<1>7. TypeInv'
  BY <1>1, <1>4, <1>5, <1>6 DEF TypeInv
<1>8. ASSUME NEW m, Faithful(m, r) PROVE Faithful(m, q)
  <2>1. m.obs \in m.last..Len(r) /\ m.last \in Nat /\ m.obs \in Nat
    BY <1>8 DEF Faithful, Stands, Marks
  <2>2. m.obs <= Len(q) /\ \A i \in 1..m.obs : q[i] = r[i]
    BY <1>1, <1>2, <2>1
  <2>3. QED
    BY <1>2, <1>8, <2>2, FaithfulKept
<1>9. SessionOk(s)'
  <2>1. failed[s] \in Nat /\ failed[s] <= Len(r)
    BY <1>1 DEF TypeInv, SessionOk
  <2>2. failed'[s] <= Len(q)
    BY <1>1, <1>2, <1>6, <2>1
  <2>3. state[s] = "live"
    BY DEF AddMessages
  <2>4. \A i \in 1..Len(marks[s]) : Faithful(marks[s][i], q)
    BY <1>1, <1>8 DEF SessionOk
  <2>5. QED
    BY <1>2, <1>4, <2>2, <2>3, <2>4 DEF SessionOk
<1>10. ASSUME NEW t \in Sessions PROVE SessionOk(t)'
  <2>1. CASE t = s
    BY <1>9, <2>1
  <2>2. CASE t # s
    <3>1. SessionOk(t)
      BY DEF IInv
    <3>2. QED
      BY <1>4, <1>6, <2>2, <3>1, SessionKept
  <2>3. QED
    BY <2>1, <2>2
<1>11. \A j \in Jobs : JobOk(j)'
  <2>1. \A m : Faithful(m, raw[s]) => Faithful(m, raw'[s])
    BY <1>4, <1>8
  <2>2. \A t \in Sessions \ {s} : raw'[t] = raw[t] /\ marks'[t] = marks[t] /\ rev'[t] = rev[t]
    BY <1>4, <1>5
  <2>3. job' = job /\ state' = state
    OBVIOUS
  <2>4. QED
    BY <1>5, <2>1, <2>2, <2>3, JobsOvertaken
<1>12. QED
  BY <1>7, <1>10, <1>11 DEF IInv

\* Paused says whether the canonical history ends in an open call.
LEMMA PausedIs ==
    ASSUME TypeInv, NEW s \in Sessions
    PROVE  Paused(s) <=> OpenAt(raw[s], Len(raw[s]))
<1>1. raw[s] \in Seq(Entries)
  BY DEF TypeInv
<1>2. raw[s] # <<>> <=> Len(raw[s]) > 0
  BY <1>1
<1>3. QED
  BY <1>2 DEF Paused, OpenAt, Last

\* The initial state satisfies the inductive invariant.
LEMMA InitIInv ==
    ASSUME Init
    PROVE  IInv
<1>1. <<>> \in Seq(Entries) /\ <<>> \in Seq(Marks) /\ Len(<<>>) = 0
  OBVIOUS
<1>2. TypeInv
  BY <1>1 DEF Init, TypeInv, Work
<1>3. Canonical(<<>>)
  BY <1>1 DEF Canonical, Paired
<1>4. \A s \in Sessions : SessionOk(s)
  <2>1. SUFFICES ASSUME NEW s \in Sessions PROVE SessionOk(s)
    OBVIOUS
  <2>2. raw[s] = <<>> /\ marks[s] = <<>> /\ failed[s] = 0
    BY DEF Init
  <2>3. QED
    BY <1>1, <1>3, <2>2 DEF SessionOk
<1>5. \A j \in Jobs : JobOk(j)
  BY DEF Init, JobOk, Idle
<1>6. QED
  BY <1>2, <1>4, <1>5 DEF IInv

\* Turns: what they store fits the history they store it in.
LEMMA TurnSteps ==
    ASSUME IInv, NEW s \in Sessions, Accept(s) \/ Answer(s) \/ Resume(s) \/ Close(s)
    PROVE  IInv'
<1>1. TypeInv /\ (Paused(s) <=> OpenAt(raw[s], Len(raw[s])))
  BY PausedIs DEF IInv
<1>2. running \in [Sessions -> BOOLEAN]
  BY <1>1 DEF TypeInv
<1>3. OpenAt(raw[s], Len(raw[s])) \in BOOLEAN
  BY DEF OpenAt
<1>4. CASE Accept(s)
  <2>1. Fits(<<"user">>, OpenAt(raw[s], Len(raw[s])))
    <3>1. OpenAt(raw[s], Len(raw[s])) = FALSE
      BY <1>1, <1>3, <1>4 DEF Accept
    <3>2. QED
      BY <3>1, TurnsFit
  <2>2. /\ AddMessages(s, <<"user">>, 0) /\ UNCHANGED <<state, marks, strategy, job>>
        /\ failed' = failed /\ running' = [running EXCEPT ![s] = TRUE]
    BY <1>4 DEF Accept
  <2>3. running' \in [Sessions -> BOOLEAN]
    BY <1>2, <2>2
  <2>4. QED
    BY <2>1, <2>2, <2>3, Grows
<1>5. CASE Answer(s)
  <2>1. PICK out \in TurnOutputs : AddMessages(s, out, IF failed[s] = 0 THEN 0 ELSE 1)
    BY <1>5 DEF Answer
  <2>2. Fits(out, OpenAt(raw[s], Len(raw[s])))
    <3>1. OpenAt(raw[s], Len(raw[s])) = FALSE
      BY <1>1, <1>3, <1>5 DEF Answer
    <3>2. QED
      BY <3>1, TurnsFit
  <2>3. PICK bump \in {0, 1} : AddMessages(s, out, bump)
    BY <2>1
  <2>4. /\ UNCHANGED <<state, marks, strategy, job>>
        /\ failed' = [failed EXCEPT ![s] = 0] /\ running' = [running EXCEPT ![s] = FALSE]
    BY <1>5 DEF Answer
  <2>5. running' \in [Sessions -> BOOLEAN]
    BY <1>2, <2>4
  <2>6. QED
    BY <2>2, <2>3, <2>4, <2>5, Grows
<1>6. CASE Resume(s)
  <2>1. PICK out \in TurnOutputs : AddMessages(s, <<"reply">> \o out, 0)
    BY <1>6 DEF Resume
  <2>2. Fits(<<"reply">> \o out, OpenAt(raw[s], Len(raw[s])))
    <3>1. OpenAt(raw[s], Len(raw[s])) = TRUE
      BY <1>1, <1>3, <1>6 DEF Resume
    <3>2. QED
      BY <3>1, TurnsFit
  <2>3. UNCHANGED <<state, marks, strategy, job>> /\ failed' = failed /\ running' = running
    BY <1>6 DEF Resume
  <2>4. QED
    BY <1>2, <2>1, <2>2, <2>3, Grows
<1>7. CASE Close(s)
  <2>1. Fits(<<"reply">>, OpenAt(raw[s], Len(raw[s])))
    <3>1. OpenAt(raw[s], Len(raw[s])) = TRUE
      BY <1>1, <1>3, <1>7 DEF Close
    <3>2. QED
      BY <3>1, TurnsFit
  <2>2. /\ AddMessages(s, <<"reply">>, 0) /\ UNCHANGED <<state, marks, strategy, job>>
        /\ failed' = failed /\ running' = running
    BY <1>7 DEF Close
  <2>3. QED
    BY <1>2, <2>1, <2>2, Grows
<1>8. QED
  BY <1>4, <1>5, <1>6, <1>7

\* A turn that fails and one that is retried move the revision alone.
LEMMA RetrySteps ==
    ASSUME IInv, NEW s \in Sessions, Fail(s) \/ Retry(s)
    PROVE  IInv'
<1>1. TypeInv /\ SessionOk(s)
  BY DEF IInv
<1>2. /\ state' = state /\ raw' = raw /\ marks' = marks /\ strategy' = strategy /\ job' = job
      /\ rev' = [rev EXCEPT ![s] = rev[s] + 1]
      /\ failed' = failed \/ failed' = [failed EXCEPT ![s] = Len(raw[s])]
      /\ \E b \in BOOLEAN : running' = [running EXCEPT ![s] = b]
  BY DEF Fail, Retry
<1>3. Len(raw[s]) \in Nat /\ rev \in [Sessions -> Nat] /\ failed \in [Sessions -> Nat]
      /\ running \in [Sessions -> BOOLEAN]
  BY <1>1 DEF TypeInv
<1>4. running' \in [Sessions -> BOOLEAN]
  BY <1>2, <1>3
<1>5. /\ rev' \in [Sessions -> Nat] /\ rev'[s] > rev[s]
      /\ \A t \in Sessions \ {s} : rev'[t] = rev[t]
  BY <1>2, <1>3
<1>6. /\ failed' \in [Sessions -> Nat] /\ failed'[s] \in {failed[s], Len(raw[s])}
      /\ \A t \in Sessions \ {s} : failed'[t] = failed[t]
  <2>1. CASE failed' = failed
    BY <1>3, <2>1
  <2>2. CASE failed' = [failed EXCEPT ![s] = Len(raw[s])]
    BY <1>3, <2>2
  <2>3. QED
    BY <1>2, <2>1, <2>2
<1>7. TypeInv'
  BY <1>1, <1>2, <1>4, <1>5, <1>6 DEF TypeInv
<1>8. SessionOk(s)'
  <2>1. failed'[s] <= Len(raw[s])
    BY <1>1, <1>3, <1>6 DEF SessionOk
  <2>2. state[s] = "live"
    BY DEF Fail, Retry
  <2>3. QED
    BY <1>1, <1>2, <2>1, <2>2 DEF SessionOk
<1>9. ASSUME NEW t \in Sessions PROVE SessionOk(t)'
  <2>1. CASE t = s
    BY <1>8, <2>1
  <2>2. CASE t # s
    <3>1. SessionOk(t)
      BY DEF IInv
    <3>2. QED
      BY <1>2, <1>6, <2>2, <3>1, SessionKept
  <2>3. QED
    BY <2>1, <2>2
<1>10. \A j \in Jobs : JobOk(j)'
  <2>1. \A m : Faithful(m, raw[s]) => Faithful(m, raw'[s])
    BY <1>2
  <2>2. QED
    BY <1>2, <1>5, <2>1, JobsOvertaken
<1>11. QED
  BY <1>7, <1>9, <1>10 DEF IInv

\* A deleted session keeps nothing, and its jobs can commit nothing.
LEMMA DeleteStep ==
    ASSUME IInv, NEW s \in Sessions, Delete(s)
    PROVE  IInv'
<1>1. TypeInv
  BY DEF IInv
<1>2. <<>> \in Seq(Entries) /\ <<>> \in Seq(Marks) /\ Len(<<>>) = 0
  OBVIOUS
<1>3. /\ state' = [state EXCEPT ![s] = "gone"] /\ raw' = [raw EXCEPT ![s] = <<>>]
      /\ marks' = [marks EXCEPT ![s] = <<>>] /\ rev' = [rev EXCEPT ![s] = 0]
      /\ failed' = [failed EXCEPT ![s] = 0] /\ running' = [running EXCEPT ![s] = FALSE]
      /\ strategy' = strategy /\ job' = job
  BY DEF Delete
<1>4. TypeInv'
  BY <1>1, <1>2, <1>3 DEF TypeInv
<1>5. /\ state'[s] = "gone" /\ raw'[s] = <<>> /\ marks'[s] = <<>> /\ failed'[s] = 0
      /\ \A t \in Sessions \ {s} : /\ state'[t] = state[t] /\ raw'[t] = raw[t]
                                   /\ marks'[t] = marks[t] /\ rev'[t] = rev[t]
                                   /\ failed'[t] = failed[t]
  BY <1>1, <1>3 DEF TypeInv
<1>6. ASSUME NEW t \in Sessions PROVE SessionOk(t)'
  <2>1. CASE t = s
    <3>1. Canonical(<<>>)
      BY <1>2 DEF Canonical, Paired
    <3>2. QED
      BY <1>2, <1>5, <2>1, <3>1 DEF SessionOk
  <2>2. CASE t # s
    <3>1. SessionOk(t)
      BY DEF IInv
    <3>2. QED
      BY <1>5, <2>2, <3>1, SessionKept
  <2>3. QED
    BY <2>1, <2>2
<1>7. ASSUME NEW j \in Jobs PROVE JobOk(j)'
  <2>1. JobOk(j) /\ job'[j] = job[j]
    BY <1>3 DEF IInv
  <2>2. CASE job[j] = Idle
    BY <2>1, <2>2 DEF JobOk, Idle
  <2>3. CASE job[j] # Idle /\ job[j].s = s
    BY <1>5, <2>1, <2>3 DEF JobOk
  <2>4. CASE job[j] # Idle /\ job[j].s # s
    <3>1. job[j].s \in Sessions \ {s}
      BY <1>1, <2>4, JobFields
    <3>2. QED
      BY <1>5, <2>1, <3>1, JobKept
  <2>5. QED
    BY <2>2, <2>3, <2>4
<1>8. QED
  BY <1>4, <1>6, <1>7 DEF IInv

\* A fork takes a prefix and the checkpoints that were authored within it.
LEMMA ForkStep ==
    ASSUME IInv, NEW s \in Sessions, NEW d \in Sessions, Fork(s, d)
    PROVE  IInv'
<1>1. TypeInv /\ SessionOk(s) /\ SessionOk(d) /\ state[d] = "new" /\ state[s] = "live"
  BY DEF IInv, Fork
<1>2. PICK p \in ForkPoints(s) : /\ raw' = [raw EXCEPT ![d] = SubSeq(raw[s], 1, p)]
                                 /\ marks' = [marks EXCEPT ![d] = Eligible(s, p)]
  BY DEF Fork
<1>3. /\ state' = [state EXCEPT ![d] = "live"] /\ rev' = [rev EXCEPT ![d] = 1]
      /\ failed' = failed /\ running' = running /\ strategy' = strategy /\ job' = job
  BY DEF Fork
<1> DEFINE r == raw[s]
           q == SubSeq(r, 1, p)
           I == {i \in 1..Len(marks[s]) : marks[s][i].obs <= p}
           ms == Eligible(s, p)
<1>4. r \in Seq(Entries) /\ Len(r) \in Nat /\ marks[s] \in Seq(Marks) /\ Canonical(r)
  BY <1>1 DEF TypeInv, SessionOk
<1>5. p \in 1..Len(r) /\ ToolHistoryOk(q)
  BY DEF ForkPoints
<1>6. q \in Seq(Entries) /\ Len(q) = p /\ \A i \in 1..p : q[i] = r[i] /\ i \in 1..Len(r)
  BY <1>4, <1>5
<1>7. ms \in Seq(Marks) /\ \A k \in 1..Len(ms) : \E i \in I : ms[k] = marks[s][i]
  <2>1. I \in SUBSET (1..Len(marks[s]))
    OBVIOUS
  <2>2. ms = Selected(marks[s], I)
    BY DEF Eligible
  <2> HIDE DEF I, ms
  <2>3. Drawn(Selected(marks[s], I), Marks, marks[s], I)
    <3>1. marks[s] \in Seq(Marks)
      BY <1>4
    <3>2. QED
      BY <2>1, <3>1, SelectedFrom
  <2>4. QED
    BY <2>2, <2>3 DEF Drawn
<1>8. Canonical(q)
  <2>1. \A i \in 1..Len(q) : /\ q[i].kind \in Kinds /\ q[i].origin = i
                             /\ \A x \in q[i].covers : x[2] = i
    BY <1>4, <1>6 DEF Canonical
  <2>2. Paired(q)
    BY <1>5 DEF ToolHistoryOk, Paired
  <2>3. QED
    BY <1>6, <2>1, <2>2 DEF Canonical
<1> HIDE DEF q, ms
<1>9. ASSUME NEW k \in 1..Len(ms) PROVE Faithful(ms[k], q)
  <2>1. PICK i \in I : ms[k] = marks[s][i]
    BY <1>7
  <2>2. Faithful(ms[k], r) /\ ms[k].obs <= p
    BY <1>1, <2>1 DEF SessionOk
  <2>3. ms[k].obs \in Nat
    BY <2>2 DEF Faithful, Marks
  <2>4. ms[k].obs <= Len(q) /\ Len(q) \in Nat /\ \A o \in 1..(ms[k].obs) : q[o] = r[o]
    BY <1>5, <1>6, <2>2, <2>3
  <2>5. QED
    BY <2>2, <2>4, FaithfulKept
<1>10. /\ raw'[d] = q /\ marks'[d] = ms /\ state'[d] = "live"
       /\ \A t \in Sessions \ {d} : /\ raw'[t] = raw[t] /\ marks'[t] = marks[t]
                                    /\ state'[t] = state[t] /\ rev'[t] = rev[t]
  BY <1>1, <1>2, <1>3 DEF TypeInv, q, ms
<1>11. TypeInv'
  <2>1. raw' \in [Sessions -> Seq(Entries)]
    BY <1>1, <1>2, <1>6 DEF TypeInv, q
  <2>2. marks' \in [Sessions -> Seq(Marks)]
    BY <1>1, <1>2, <1>7 DEF TypeInv, ms
  <2>3. QED
    BY <1>1, <1>3, <2>1, <2>2 DEF TypeInv
<1>12. ASSUME NEW t \in Sessions PROVE SessionOk(t)'
  <2>1. CASE t = d
    <3>1. failed'[d] = 0 /\ 0 <= Len(q)
      BY <1>1, <1>3, <1>5, <1>6 DEF SessionOk
    <3>2. QED
      BY <1>8, <1>9, <1>10, <2>1, <3>1 DEF SessionOk
  <2>2. CASE t # d
    <3>1. SessionOk(t)
      BY DEF IInv
    <3>2. QED
      BY <1>3, <1>10, <2>2, <3>1, SessionKept
  <2>3. QED
    BY <2>1, <2>2
<1>13. ASSUME NEW j \in Jobs PROVE JobOk(j)'
  <2>1. JobOk(j) /\ job'[j] = job[j]
    BY <1>3 DEF IInv
  <2>2. CASE job[j] = Idle
    BY <2>1, <2>2 DEF JobOk, Idle
  <2>3. CASE job[j] # Idle
    <3>1. job[j].s \in Sessions \ {d}
      BY <1>1, <2>1, <2>3, JobFields DEF JobOk
    <3>2. QED
      BY <1>10, <2>1, <3>1, JobKept
  <2>4. QED
    BY <2>2, <2>3
<1>14. QED
  BY <1>11, <1>12, <1>13 DEF IInv

\* A job that is asked for, given up or turned into a map.
LEMMA AskSteps ==
    ASSUME IInv, NEW j \in Jobs,
           \/ \E s \in Sessions : AskCompact(j, s) \/ AskUpgrade(j, s)
           \/ StrategyChanged(j) \/ GiveUp(j)
    PROVE  IInv'
<1>1. TypeInv /\ job \in [Jobs -> Work]
  BY DEF IInv, TypeInv
<1>2. UNCHANGED <<chat, strategy>>
  BY DEF AskCompact, AskUpgrade, StrategyChanged, GiveUp
<1>3. PICK w \in Work : /\ job' = [job EXCEPT ![j] = w]
                        /\ w.st # "authoring"
                        /\ w # Idle => state[w.s] # "new"
  <2>1. CASE \E s \in Sessions : AskCompact(j, s)
    <3>1. PICK s \in Sessions : AskCompact(j, s)
      BY <2>1
    <3>2. SessionStrategy(s) \in {"card", "map"}
      <4>1. CASE marks[s] = <<>>
        BY <1>1, <4>1 DEF SessionStrategy, Latest, NoMark, TypeInv
      <4>2. CASE marks[s] # <<>>
        <5>1. marks[s] \in Seq(Marks)
          BY <1>1 DEF TypeInv
        <5>2. marks[s][Len(marks[s])] \in Marks
          BY <4>2, <5>1
        <5>3. Latest(s) \in Marks
          BY <4>2, <5>2 DEF Latest, Last
        <5>4. Latest(s).kind \in {"card", "map"}
          BY <5>3 DEF Marks
        <5>5. QED
          BY <5>4 DEF SessionStrategy
      <4>3. QED
        BY <4>1, <4>2
    <3> DEFINE w == [st |-> "asked", s |-> s, path |-> SessionStrategy(s)]
    <3>3. w \in Work /\ w.st = "asked" /\ w.s = s
      BY <3>2 DEF Work
    <3>4. job' = [job EXCEPT ![j] = w] /\ state[s] = "live"
      BY <3>1 DEF AskCompact
    <3> HIDE DEF w
    <3>5. QED
      BY <3>3, <3>4
  <2>2. CASE \E s \in Sessions : AskUpgrade(j, s)
    <3>1. PICK s \in Sessions : AskUpgrade(j, s)
      BY <2>2
    <3> DEFINE w == [st |-> "asked", s |-> s, path |-> "upgrade", from |-> Len(marks[s])]
    <3>2. Len(marks[s]) \in Nat
      BY <1>1 DEF TypeInv
    <3>3. w \in Work /\ w.st = "asked" /\ w.s = s
      BY <3>2 DEF Work
    <3>4. job' = [job EXCEPT ![j] = w] /\ state[s] = "live"
      BY <3>1 DEF AskUpgrade
    <3> HIDE DEF w
    <3>5. QED
      BY <3>3, <3>4
  <2>3. CASE StrategyChanged(j)
    <3> DEFINE o == job[j]
               w == [job[j] EXCEPT !.path = "map"]
    <3>1. o \in Work /\ o.st = "asked" /\ o.path = "card" /\ o # Idle
      BY <1>1, <2>3, JobFields DEF StrategyChanged
    <3>2. job' = [job EXCEPT ![j] = w]
      BY <2>3 DEF StrategyChanged
    <3>3. o \in [st : {"asked"}, s : Sessions, path : {"card", "map"}]
      <4> HIDE DEF o
      <4>1. o \notin [st : {"asked"}, s : Sessions, path : {"upgrade"}, from : Nat]
        BY <3>1
      <4>2. o \notin [st : {"authoring"}, s : Sessions, path : {"card", "map", "upgrade"},
                      rev : Nat, mark : Marks, read : Seq(Entries)]
        BY <3>1
      <4>3. QED
        BY <3>1, <4>1, <4>2 DEF Work
    <3>4. w \in [st : {"asked"}, s : Sessions, path : {"card", "map"}] /\ w.s = o.s /\ w.st = "asked"
      BY <3>3
    <3>5. state[o.s] # "new"
      BY <3>1 DEF IInv, JobOk
    <3> HIDE DEF w, o
    <3>6. w \in Work
      BY <3>4 DEF Work
    <3>7. QED
      BY <3>2, <3>4, <3>5, <3>6
  <2>4. CASE GiveUp(j)
    <3>1. job' = [job EXCEPT ![j] = Idle] /\ Idle \in Work /\ Idle.st # "authoring"
      BY <2>4 DEF GiveUp, Work, Idle
    <3>2. QED
      BY <3>1
  <2>5. QED
    BY <2>1, <2>2, <2>3, <2>4
<1>4. job' \in [Jobs -> Work] /\ job'[j] = w /\ \A k \in Jobs \ {j} : job'[k] = job[k]
  BY <1>1, <1>3
<1>5. TypeInv'
  BY <1>1, <1>2, <1>4 DEF TypeInv, chat
<1>6. ASSUME NEW t \in Sessions PROVE SessionOk(t)'
  <2>1. SessionOk(t)
    BY DEF IInv
  <2>2. QED
    BY <1>2, <2>1, SessionKept DEF chat
<1>7. ASSUME NEW k \in Jobs PROVE JobOk(k)'
  <2>1. CASE k = j
    BY <1>2, <1>3, <1>4, <2>1 DEF JobOk, chat
  <2>2. CASE k # j
    <3>1. JobOk(k) /\ job'[k] = job[k]
      BY <1>4, <2>2 DEF IInv
    <3>2. QED
      BY <1>2, <3>1, JobKept DEF chat
  <2>3. QED
    BY <2>1, <2>2
<1>8. QED
  BY <1>5, <1>6, <1>7 DEF IInv

\* An author takes its snapshot: its checkpoint is faithful to it.
LEMMA BeginStep ==
    ASSUME IInv, HistoryConstants, NEW j \in Jobs, Begin(j)
    PROVE  IInv'
<1>1. TypeInv /\ job \in [Jobs -> Work]
  BY DEF IInv, TypeInv
<1>0. SUFFICES ASSUME NEW s, s = job[j].s PROVE IInv'
  OBVIOUS
<1>2. job[j].st = "asked" /\ state[s] = "live" /\ UNCHANGED <<chat, strategy>>
  BY <1>0 DEF Begin
<1>3. s \in Sessions /\ job[j].path \in {"card", "map", "upgrade"}
  BY <1>0, <1>1, <1>2, JobFields
<1>4. SessionOk(s)
  BY <1>3 DEF IInv
<1>5. PICK m \in Drafts(j) :
        job' = [job EXCEPT ![j] = [st |-> "authoring", s |-> s, path |-> job[j].path,
                                   rev |-> rev[s], mark |-> m, read |-> Effective(s)]]
  BY <1>0 DEF Begin
<1>6. Faithful(m, raw[s]) /\ m \in Marks
  BY <1>0, <1>1, <1>2, <1>3, <1>4, DraftsFaithful DEF Faithful
<1>7. Effective(s) \in Seq(Entries) /\ rev[s] \in Nat
  BY <1>1, <1>3, <1>4, EffectiveSummary DEF Summary, TypeInv
<1>8. PICK w : /\ w = [st |-> "authoring", s |-> s, path |-> job[j].path,
                       rev |-> rev[s], mark |-> m, read |-> Effective(s)]
               /\ job' = [job EXCEPT ![j] = w]
  BY <1>5
<1>9. /\ w.st = "authoring" /\ w.s = s /\ w.rev = rev[s] /\ w.mark = m /\ w.read = Effective(s)
      /\ w \in Work
  BY <1>3, <1>6, <1>7, <1>8 DEF Work
<1>10. job' \in [Jobs -> Work] /\ job'[j] = w /\ \A k \in Jobs \ {j} : job'[k] = job[k]
  BY <1>1, <1>8, <1>9
<1>11. TypeInv'
  BY <1>1, <1>2, <1>10 DEF TypeInv, chat
<1>12. ASSUME NEW t \in Sessions PROVE SessionOk(t)'
  <2>1. SessionOk(t)
    BY DEF IInv
  <2>2. QED
    BY <1>2, <2>1, SessionKept DEF chat
<1>13. ASSUME NEW k \in Jobs PROVE JobOk(k)'
  <2>1. CASE k = j
    <3>1. (Effective(s))' = Effective(s)
      BY <1>2 DEF chat, Effective, Latest, Suffix
    <3>2. raw' = raw /\ rev' = rev /\ state' = state
      BY <1>2 DEF chat
    <3>3. rev[s] <= rev[s]
      BY <1>7
    <3>4. (job[j].st)' = "authoring" /\ (job[j].s)' = s /\ (job[j].rev)' = rev[s]
          /\ (job[j].mark)' = m /\ (job[j].read)' = Effective(s)
      BY <1>9, <1>10
    <3>5. (Effective(job[j].s))' = Effective(s)
      BY <3>1, <3>4 DEF Effective, Latest, Suffix
    <3>6. QED
      BY <1>2, <1>6, <2>1, <3>2, <3>3, <3>4, <3>5 DEF JobOk
  <2>2. CASE k # j
    <3>1. JobOk(k) /\ job'[k] = job[k]
      BY <1>10, <2>2 DEF IInv
    <3>2. QED
      BY <1>2, <3>1, JobKept DEF chat
  <2>3. QED
    BY <2>1, <2>2
<1>14. QED
  BY <1>11, <1>12, <1>13 DEF IInv

\* A checkpoint is committed: it is faithful to the session, and every other
\* author of the session is overtaken.
LEMMA CommitStep ==
    ASSUME IInv, NEW j \in Jobs, Commit(j)
    PROVE  IInv' /\ job[j].read = Effective(job[j].s)
<1>1. TypeInv /\ JobOk(j) /\ job \in [Jobs -> Work]
  BY DEF IInv, TypeInv
<1>2. SUFFICES ASSUME NEW s, s = job[j].s PROVE IInv' /\ job[j].read = Effective(s)
  OBVIOUS
<1>3. /\ job[j].st = "authoring" /\ state[s] = "live" /\ rev[s] = job[j].rev
      /\ marks' = [marks EXCEPT ![s] = Append(marks[s], job[j].mark)]
      /\ rev' = [rev EXCEPT ![s] = rev[s] + 1]
      /\ job' = [job EXCEPT ![j] = Idle]
      /\ state' = state /\ raw' = raw /\ failed' = failed /\ running' = running
      /\ strategy' = strategy
  BY <1>2 DEF Commit, CanCommit
<1>4. s \in Sessions /\ job[j].mark \in Marks
  BY <1>1, <1>2, <1>3, JobFields
<1>5. Faithful(job[j].mark, raw[s]) /\ job[j].read = Effective(s)
  BY <1>1, <1>2, <1>3 DEF JobOk
<1>6. SUFFICES ASSUME NEW m, m = job[j].mark, m \in Marks, Faithful(m, raw[s]) PROVE IInv'
  BY <1>4, <1>5
<1>7. /\ marks[s] \in Seq(Marks) /\ marks \in [Sessions -> Seq(Marks)]
      /\ rev \in [Sessions -> Nat] /\ rev[s] \in Nat
  BY <1>1, <1>4 DEF TypeInv
<1>8. Append(marks[s], m) \in Seq(Marks)
  BY <1>6, <1>7
<1>9. /\ marks' \in [Sessions -> Seq(Marks)] /\ marks'[s] = Append(marks[s], m)
      /\ \A t \in Sessions \ {s} : marks'[t] = marks[t]
  BY <1>3, <1>4, <1>6, <1>7, <1>8
<1>10. /\ rev' \in [Sessions -> Nat] /\ rev'[s] > rev[s]
       /\ \A t \in Sessions \ {s} : rev'[t] = rev[t]
  BY <1>3, <1>4, <1>7
<1>11. job' \in [Jobs -> Work] /\ job'[j] = Idle /\ \A k \in Jobs \ {j} : job'[k] = job[k]
  BY <1>1, <1>3 DEF Work
<1>12. TypeInv'
  BY <1>1, <1>3, <1>9, <1>10, <1>11 DEF TypeInv
<1>13. ASSUME NEW t \in Sessions PROVE SessionOk(t)'
  <2>1. SessionOk(t)
    BY DEF IInv
  <2>2. CASE t = s
    <3>1. ASSUME NEW i \in 1..Len(Append(marks[s], m))
          PROVE  Faithful(Append(marks[s], m)[i], raw[s])
      <4>1. CASE i \in 1..Len(marks[s])
        <5>1. Append(marks[s], m)[i] = marks[s][i]
          BY <1>6, <1>7, <4>1
        <5>2. QED
          BY <2>1, <2>2, <4>1, <5>1 DEF SessionOk
      <4>2. CASE i = Len(marks[s]) + 1
        <5>1. Append(marks[s], m)[i] = m
          BY <1>6, <1>7, <4>2
        <5>2. QED
          BY <1>6, <5>1
      <4>3. QED
        BY <1>6, <1>7, <4>1, <4>2
    <3>2. state[s] # "new"
      BY <1>3
    <3>3. QED
      BY <1>3, <1>9, <2>1, <2>2, <3>1, <3>2 DEF SessionOk
  <2>3. CASE t # s
    BY <1>3, <1>9, <2>1, <2>3, SessionKept
  <2>4. QED
    BY <2>2, <2>3
<1>14. ASSUME NEW k \in Jobs PROVE JobOk(k)'
  <2>1. CASE k = j
    BY <1>11, <2>1 DEF JobOk, Idle
  <2>2. CASE k # j
    <3>1. JobOk(k) /\ job'[k] = job[k]
      BY <1>11, <2>2 DEF IInv
    <3>2. CASE job[k] = Idle
      BY <3>1, <3>2 DEF JobOk, Idle
    <3>3. CASE job[k] # Idle /\ job[k].s = s
      <4>1. rev'[s] \in Nat /\ \A n : Faithful(n, raw[s]) => Faithful(n, raw'[s])
        BY <1>3, <1>4, <1>10
      <4>2. QED
        BY <1>1, <1>3, <1>4, <1>10, <3>1, <3>3, <4>1, JobOvertaken
    <3>4. CASE job[k] # Idle /\ job[k].s # s
      <4>1. job[k].s \in Sessions \ {s}
        BY <1>1, <3>4, JobFields
      <4>2. QED
        BY <1>3, <1>9, <1>10, <3>1, <4>1, JobKept
    <3>5. QED
      BY <3>2, <3>3, <3>4
  <2>3. QED
    BY <2>1, <2>2
<1>15. QED
  BY <1>12, <1>13, <1>14 DEF IInv

\* Every step keeps the inductive invariant, and a commit finds the history
\* its author was given.
LEMMA NextIInv ==
    ASSUME IInv, HistoryConstants, [Next]_vars
    PROVE  IInv' /\ \A j \in Jobs : Commit(j) => job[j].read = Effective(job[j].s)
<1>1. ASSUME NEW j \in Jobs, Commit(j) PROVE job[j].read = Effective(job[j].s)
  BY <1>1, CommitStep
<1>2. IInv'
  <2>1. CASE \E s \in Sessions : Accept(s) \/ Answer(s) \/ Resume(s) \/ Close(s)
    BY <2>1, TurnSteps
  <2>2. CASE \E s \in Sessions : Fail(s) \/ Retry(s)
    BY <2>2, RetrySteps
  <2>3. CASE \E s \in Sessions : Delete(s)
    BY <2>3, DeleteStep
  <2>4. CASE \E s, d \in Sessions : Fork(s, d)
    BY <2>4, ForkStep
  <2>5. CASE Configure \/ UNCHANGED vars
    <3>1. UNCHANGED <<state, raw, marks, rev, failed, running, job>> /\ strategy' \in {"card", "map"}
      <4>1. strategy \in {"card", "map"}
        BY DEF IInv, TypeInv
      <4>2. QED
        BY <2>5, <4>1 DEF Configure, chat, vars
    <3>2. TypeInv'
      BY <3>1 DEF IInv, TypeInv
    <3>3. \A s \in Sessions : SessionOk(s)'
      BY <3>1, SessionKept DEF IInv
    <3>4. \A j \in Jobs : JobOk(j)'
      BY <3>1, JobKept DEF IInv
    <3>5. QED
      BY <3>2, <3>3, <3>4 DEF IInv
  <2>6. CASE \E j \in Jobs : \/ \E s \in Sessions : AskCompact(j, s) \/ AskUpgrade(j, s)
                             \/ StrategyChanged(j) \/ GiveUp(j)
    BY <2>6, AskSteps
  <2>7. CASE \E j \in Jobs : Begin(j)
    BY <2>7, BeginStep
  <2>8. CASE \E j \in Jobs : Commit(j)
    BY <2>8, CommitStep
  <2>9. QED
    BY <2>1, <2>2, <2>3, <2>4, <2>5, <2>6, <2>7, <2>8 DEF Next
<1>3. QED
  BY <1>1, <1>2

\* The inductive invariant implies the properties of the states.
LEMMA IInvImplies ==
    ASSUME IInv
    PROVE  NothingLost /\ EffectiveSound /\ ForkIsolation
<1>1. TypeInv /\ (\A s \in Sessions : SessionOk(s)) /\ (\A j \in Jobs : JobOk(j))
  BY DEF IInv
<1>2. TypeOK
  <2>1. ASSUME NEW s \in Sessions
        PROVE  /\ \A i \in 1..Len(raw[s]) : raw[s][i].kind \in Kinds /\ raw[s][i].origin = i
               /\ failed[s] \in 0..Len(raw[s])
    <3>1. Canonical(raw[s]) /\ failed[s] <= Len(raw[s]) /\ failed[s] \in Nat
      BY <1>1 DEF SessionOk, TypeInv
    <3>2. Len(raw[s]) \in Nat
      BY <3>1 DEF Canonical
    <3>3. QED
      BY <3>1, <3>2 DEF Canonical
  <2>2. ASSUME NEW s \in Sessions, NEW i \in 1..Len(marks[s])
        PROVE  /\ marks[s][i].kind \in {"card", "map"}
               /\ marks[s][i].last \in 1..Len(raw[s]) /\ marks[s][i].obs \in 1..Len(raw[s])
    <3>1. SUFFICES ASSUME NEW m, Faithful(m, raw[s])
                   PROVE  /\ m.kind \in {"card", "map"}
                          /\ m.last \in 1..Len(raw[s]) /\ m.obs \in 1..Len(raw[s])
      BY <1>1 DEF SessionOk
    <3>2. m \in Marks /\ m.last > 0 /\ m.last \in 0..Len(raw[s]) /\ m.obs \in m.last..Len(raw[s])
      BY <3>1 DEF Faithful, Stands, Summary
    <3>3. Len(raw[s]) \in Nat /\ m.last \in Nat
      BY <1>1, <3>2 DEF TypeInv, Marks
    <3>4. QED
      BY <3>2, <3>3 DEF Marks
  <2>3. \A j \in Jobs : job[j].st \in {"idle", "asked", "authoring"}
    BY <1>1 DEF TypeInv, Work, Idle
  <2>4. QED
    BY <1>1, <2>1, <2>2, <2>3 DEF TypeOK, TypeInv, Kinds
<1>3. NothingLost
  <2>1. SUFFICES ASSUME NEW s \in Sessions
                 PROVE  Covers(Effective(s)) = Covers(raw[s]) /\ Ordered(Effective(s))
    BY <1>2 DEF NothingLost, Ordered
  <2>2. Summary(Effective(s), raw[s], Len(raw[s]))
    BY <1>1, EffectiveSummary
  <2>3. \A x : x \in Covers(Effective(s)) <=> x \in Covers(raw[s])
    <3>1. SameCover(Effective(s), raw[s], Len(raw[s]))
      BY <2>2 DEF Summary
    <3>2. SUFFICES ASSUME NEW es, SameCover(es, raw[s], Len(raw[s])), NEW x
                   PROVE  x \in Covers(es) <=> x \in Covers(raw[s])
      BY <3>1
    <3>3. QED
      BY <3>2, CoversIs DEF SameCover
  <2>4. Covers(Effective(s)) = Covers(raw[s])
    BY <2>3 DEF Covers
  <2>5. QED
    BY <2>2, <2>4 DEF Summary
<1>4. EffectiveSound
  <2>1. SUFFICES ASSUME NEW s \in Sessions
                 PROVE  \/ ToolHistoryOk(Effective(s))
                        \/ Paused(s) /\ ToolHistoryOk(Front(Effective(s)))
    BY DEF EffectiveSound
  <2>2. Summary(Effective(s), raw[s], Len(raw[s])) /\ (Paused(s) <=> OpenAt(raw[s], Len(raw[s])))
    BY <1>1, EffectiveSummary, PausedIs
  <2>3. SUFFICES ASSUME NEW es, es \in Seq(Entries), Paired(es),
                        OpenAt(es, Len(es)) <=> Paused(s)
                 PROVE  ToolHistoryOk(es) \/ (Paused(s) /\ ToolHistoryOk(Front(es)))
    BY <2>2 DEF Summary
  <2>4. Len(es) \in Nat
    BY <2>3
  <2>5. CASE ~OpenAt(es, Len(es))
    <3>1. \A i \in 1..Len(es) : es[i].kind = "call" => i < Len(es)
      BY <2>3, <2>4, <2>5 DEF OpenAt
    <3>2. ToolHistoryOk(es)
      BY <2>3, <2>4, <3>1 DEF Paired, ToolHistoryOk
    <3>3. QED
      BY <3>2
  <2>6. CASE OpenAt(es, Len(es))
    <3>1. Len(es) > 0 /\ es[Len(es)].kind = "call"
      BY <2>6 DEF OpenAt
    <3>2. /\ Front(es) \in Seq(Entries) /\ Len(Front(es)) = Len(es) - 1
          /\ \A i \in 1..(Len(es) - 1) : Front(es)[i] = es[i]
      <4>1. Front(es) = SubSeq(es, 1, Len(es) - 1)
        BY DEF Front
      <4>2. \A i \in 1..(Len(es) - 1) : es[i] \in Entries
        BY <2>3, <2>4
      <4>3. /\ SubSeq(es, 1, Len(es) - 1) \in Seq(Entries)
            /\ Len(SubSeq(es, 1, Len(es) - 1)) = Len(es) - 1
            /\ \A i \in 1..(Len(es) - 1) : SubSeq(es, 1, Len(es) - 1)[i] = es[i]
        <5>1. SUFFICES ASSUME NEW n, n = Len(es) - 1
                       PROVE  /\ SubSeq(es, 1, n) \in Seq(Entries) /\ Len(SubSeq(es, 1, n)) = n
                              /\ \A i \in 1..n : SubSeq(es, 1, n)[i] = es[i]
          OBVIOUS
        <5>2. n \in Nat /\ n <= Len(es)
          BY <2>4, <3>1, <5>1
        <5>3. QED
          BY <2>3, <5>2
      <4>4. QED
        BY <4>1, <4>3
    <3>3. ASSUME NEW i \in 1..(Len(es) - 1)
          PROVE  /\ es[i].kind = "reply" => i > 1 /\ es[i - 1].kind = "call"
                 /\ es[i].kind = "call" => i < Len(es) - 1 /\ es[i + 1].kind = "reply"
      <4>1. i \in 1..Len(es) /\ i # Len(es)
        BY <2>4
      <4>2. /\ es[i].kind = "reply" => i > 1 /\ es[i - 1].kind = "call"
            /\ es[i].kind = "call" => es[i + 1].kind = "reply"
        BY <2>3, <4>1 DEF Paired
      <4>3. i + 1 = Len(es) => es[i + 1].kind # "reply"
        BY <3>1
      <4>4. i + 1 # Len(es) => i < Len(es) - 1
        BY <2>4
      <4>5. QED
        BY <4>2, <4>3, <4>4
    <3>4. SUFFICES ASSUME NEW f, Len(f) = Len(es) - 1,
                          \A i \in 1..(Len(es) - 1) : f[i] = es[i]
                   PROVE  ToolHistoryOk(f)
      BY <2>3, <2>6, <3>2
    <3>5. ASSUME NEW i \in 1..Len(f)
          PROVE  /\ f[i].kind = "reply" => i > 1 /\ f[i - 1].kind = "call"
                 /\ f[i].kind = "call" => i < Len(f) /\ f[i + 1].kind = "reply"
      <4>1. f[i] = es[i] /\ i \in 1..(Len(es) - 1) /\ Len(f) = Len(es) - 1
        BY <3>4
      <4>2. i > 1 => f[i - 1] = es[i - 1]
        BY <2>4, <3>4, <4>1
      <4>3. i < Len(f) => f[i + 1] = es[i + 1]
        BY <2>4, <3>4, <4>1
      <4>4. QED
        BY <3>3, <4>1, <4>2, <4>3
    <3>6. QED
      BY <3>5 DEF ToolHistoryOk
  <2>7. QED
    BY <2>5, <2>6
<1>5. ForkIsolation
  <2>1. SUFFICES ASSUME NEW s \in Sessions, NEW m, Faithful(m, raw[s])
                 PROVE  m.seen \subseteq Through(s, m.obs)
    BY <1>1 DEF ForkIsolation, SessionOk
  <2>2. SUFFICES ASSUME NEW x \in m.seen PROVE x \in Through(s, m.obs)
    OBVIOUS
  <2>3. Known(m.seen, raw[s], m.obs) /\ m.obs \in Nat /\ m.last \in Nat /\ m.obs \in m.last..Len(raw[s])
    BY <2>1 DEF Faithful, Stands, Marks
  <2>4. PICK k \in 1..m.obs : x \in raw[s][k].covers
    BY <2>3 DEF Known
  <2>5. Canonical(raw[s]) /\ Len(raw[s]) \in Nat
    BY <1>1 DEF SessionOk, Canonical
  <2>6. k \in 1..Len(raw[s])
    BY <2>3, <2>5
  <2>7. raw[s][k].origin <= m.obs
    BY <2>3, <2>5, <2>6 DEF Canonical
  <2>8. QED
    BY <2>4, <2>6, <2>7 DEF Through
<1>6. QED
  BY <1>3, <1>4, <1>5

-----------------------------------------------------------------------------
(***************************************************************************)
(* Theorems.                                                               *)
(***************************************************************************)

\* The inductive invariant holds of every reachable state.
THEOREM HistoryInvariant == Spec => []IInv
<1>1. Init => IInv
  BY InitIInv
<1>2. IInv /\ [Next]_vars => IInv'
  BY NextIInv, HistoryConstants
<1>3. QED
  BY <1>1, <1>2, PTL DEF Spec

\* After any sequence of compactions, map reductions, upgrades and forks, the
\* history given to the model stands for every canonical message, once and in
\* order.
THEOREM NothingEverLost == Spec => []NothingLost
<1>1. IInv => NothingLost
  BY IInvImplies
<1>2. QED
  BY <1>1, HistoryInvariant, PTL

\* No reduction and no fork separates a tool reply from its call.
THEOREM EffectiveAlwaysSound == Spec => []EffectiveSound
<1>1. IInv => EffectiveSound
  BY IInvImplies
<1>2. QED
  BY <1>1, HistoryInvariant, PTL

\* No checkpoint of a session was authored from messages the session does not
\* hold.
THEOREM ForksIsolated == Spec => []ForkIsolation
<1>1. IInv => ForkIsolation
  BY IInvImplies
<1>2. QED
  BY <1>1, HistoryInvariant, PTL

\* The revision check of add_context_checkpoint lets a checkpoint through only
\* over the history its author was given, whoever wrote to the session without
\* its lock.
THEOREM CommitsCurrent == Spec => AuthoredFromCurrent
<1>1. IInv /\ [Next]_vars => [\A j \in Jobs : Commit(j) => job[j].read = Effective(job[j].s)]_vars
  BY NextIInv, HistoryConstants
<1>2. QED
  BY <1>1, HistoryInvariant, PTL DEF Spec, AuthoredFromCurrent
=============================================================================
