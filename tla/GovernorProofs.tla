---------------------------- MODULE GovernorProofs ----------------------------
(***************************************************************************)
(* Proofs about WorkflowGovernor and the run store under it, for any       *)
(* number of runs, workflows and vaults, any limits and any clock.         *)
(*                                                                         *)
(* The governor's steps are compositions of functions of the process       *)
(* record; the parts of the invariant are therefore predicates on such a   *)
(* record, and a lemma says for each function which parts it keeps.        *)
(***************************************************************************)
EXTENDS WorkflowGovernor, FiniteSetTheorems, SequenceTheorems, TLAPS

TaskStatuses == TerminalRunStatuses \cup ActiveRunStatuses \cup {"none", "lost"}
Stages == {"none", "gate", "permit", "running", "calling", "ended"}
Active == {"gate", "permit", "running", "calling"}

RowType == [workflow : Workflows,
            status : TerminalRunStatuses \cup ActiveRunStatuses \cup {"absent"},
            key : EventKeys \cup {NoKey},
            completed : Nat]
Tables == [RunIds -> RowType]
Semaphores == [limit : Nat, free : Nat, queue : Seq(RunIds)]

ProcType ==
    [task : [RunIds -> TaskStatuses],
     pc : [RunIds -> Stages],
     gate : [Vaults -> RunIds \cup {NoRun}],
     gateQ : [Vaults -> Seq(RunIds)],
     sems : Seq(Semaphores),
     permit : [RunIds -> Nat],
     rows : Tables]

\* A run past the vault gate holds the gate of its vault.
Gated(p) ==
    \A r \in RunIds : p.pc[r] \in {"permit", "running", "calling"} => p.gate[VaultOf[p.rows[r].workflow]] = r

\* Where an attempt is, what its task says and what its row says agree.
Recounted(p) ==
    \A r \in RunIds :
        /\ p.pc[r] \in {"gate", "permit"} => p.task[r] = "queued"
        /\ p.pc[r] \in {"running", "calling"} => p.task[r] = "running"
        /\ (p.task[r] \notin {"none", "lost"} /\ IsPresent(p.rows, r)) => p.rows[r].status = p.task[r]

\* A run that was called by another is what that other waits for.
Called(stage, ca) ==
    /\ \A r \in RunIds : (stage[r] \in Active /\ ca[r] # NoRun) => stage[ca[r]] = "calling"
    /\ \A r, s \in RunIds :
          (stage[r] \in Active /\ stage[s] \in Active /\ ca[r] = ca[s] /\ ca[r] # NoRun) => r = s

\* The runs that hold a permit of the n-th semaphore.
Holding(per, stage, n) == {r \in RunIds : per[r] = n /\ stage[r] # "permit"}

\* Permits are those of existing semaphores, and none is lost.
Balanced(ss, per, stage) ==
    /\ \A r \in RunIds :
          /\ per[r] <= Len(ss)
          /\ stage[r] = "gate" => per[r] = 0
          /\ stage[r] = "permit" => per[r] # 0
    /\ \A n \in DOMAIN ss : ss[n].free + Cardinality(Holding(per, stage, n)) = ss[n].limit

\* A run id that was not handed out is nowhere.
Unused(p, ca, us) ==
    \A r \in RunIds \ us :
        p.pc[r] = "none" /\ p.task[r] = "none" /\ ~IsPresent(p.rows, r) /\ p.permit[r] = 0 /\ ca[r] = NoRun

\* No row is dated in the future.
Dated(tbl, t) == \A r \in RunIds : tbl[r].completed <= t

\* The process and who called whom.
Sound(p, ca, us) ==
    /\ p \in ProcType
    /\ ca \in [RunIds -> RunIds \cup {NoRun}]
    /\ Gated(p) /\ Recounted(p)
    /\ Called(p.pc, ca)
    /\ Balanced(p.sems, p.permit, p.pc)
    /\ Unused(p, ca, us)

IInv ==
    /\ Sound(Proc, caller, used)
    /\ cancelled \in [RunIds -> BOOLEAN]
    /\ now \in Nat
    /\ setting \in Nat
    /\ Dated(rows, now)

-----------------------------------------------------------------------------
(***************************************************************************)
(* The run store.                                                          *)
(***************************************************************************)

\* _prune_in_conn leaves a row alone or deletes it; a row that stands for the
\* latest outcome of its workflow stays.
LEMMA PruneKeeps ==
    ASSUME NEW tbl \in Tables, NEW t \in Nat
    PROVE  /\ Prune(tbl, t) \in Tables
           /\ \A i \in RunIds : Prune(tbl, t)[i] = tbl[i] \/ Prune(tbl, t)[i] = NoRow(tbl[i].workflow)
           /\ \A i \in RunIds : IsLatest(tbl, i) => Prune(tbl, t)[i] = tbl[i]
<1> DEFINE young == Without(tbl, {i \in RunIds : Expired(tbl, i, t)})
           old == Without(young, {i \in RunIds : Excessive(young, i)})
<1>1. old = Prune(tbl, t)
  BY DEF Prune
<1>2. \A w \in Workflows : NoRow(w) \in RowType /\ NoRow(w).workflow = w /\ NoRow(w).status = "absent"
  BY DEF NoRow, RowType
<1>3. \A i \in RunIds : tbl[i] \in RowType /\ tbl[i].workflow \in Workflows
  BY DEF Tables, RowType
<1>4. young \in Tables /\ \A i \in RunIds : young[i] = IF Expired(tbl, i, t) THEN NoRow(tbl[i].workflow) ELSE tbl[i]
  BY <1>2, <1>3 DEF Without, Tables
<1>5. \A i \in RunIds : old[i] = IF Excessive(young, i) THEN NoRow(young[i].workflow) ELSE young[i]
  BY DEF Without
<1>6. \A i \in RunIds : young[i] \in RowType /\ young[i].workflow \in Workflows
  BY <1>4 DEF Tables, RowType
<1>7. old \in Tables
  BY <1>2, <1>6 DEF Without, Tables
<1> HIDE DEF young, old
<1>8. \A i \in RunIds : young[i].workflow = tbl[i].workflow
  BY <1>2, <1>3, <1>4
<1>9. \A i \in RunIds : old[i] = tbl[i] \/ old[i] = NoRow(tbl[i].workflow)
  BY <1>4, <1>5, <1>8
<1>10. ASSUME NEW i \in RunIds, IsLatest(tbl, i) PROVE old[i] = tbl[i]
  <2>1. young[i] = tbl[i]
    BY <1>4, <1>10 DEF Expired
  <2>2. NewerRuns(young, i) = {}
    <3> SUFFICES ASSUME NEW j \in RunIds, IsTerminal(young, j), young[j].workflow = young[i].workflow, Newer(young, j, i)
                 PROVE  FALSE
      BY DEF NewerRuns
    <3>1. young[j] = tbl[j]
      BY <1>2, <1>3, <1>4 DEF IsTerminal, TerminalRunStatuses
    <3>2. j \in NewerRuns(tbl, i)
      BY <2>1, <3>1 DEF NewerRuns, IsTerminal, Newer
    <3>3. QED
      BY <1>10, <3>2 DEF IsLatest
  <2>3. ~Excessive(young, i)
    BY <2>2, FS_EmptySet, StoreAssumption DEF Excessive
  <2>4. QED
    BY <1>5, <2>1, <2>3
<1>11. QED
  BY <1>1, <1>7, <1>9, <1>10

\* The rows of the other runs are left alone or pruned, and no row changes its
\* workflow.
Rewrites(old, new, r) ==
    /\ new \in Tables
    /\ \A x \in RunIds : new[x].workflow = old[x].workflow
    /\ \A x \in RunIds \ {r} : new[x] = old[x] \/ (~IsPresent(new, x) /\ new[x].completed = 0)

\* finalize_run writes the end of an active run; another run's row it leaves alone
\* or prunes.
LEMMA FinalizedRewrites ==
    ASSUME NEW tbl \in Tables, NEW r \in RunIds, NEW s \in TerminalRunStatuses, NEW t \in Nat
    PROVE  /\ Rewrites(tbl, Finalized(tbl, r, s, t), r)
           /\ IF IsActive(tbl, r)
              THEN /\ IsPresent(Finalized(tbl, r, s, t), r) => Finalized(tbl, r, s, t)[r].status = s
                   /\ Finalized(tbl, r, s, t)[r].completed \in {0, t}
              ELSE Finalized(tbl, r, s, t) = tbl
<1> DEFINE mid == [tbl EXCEPT ![r].status = s, ![r].completed = t]
           new == Prune(mid, t)
<1>1. \A w : NoRow(w).workflow = w /\ NoRow(w).status = "absent" /\ NoRow(w).completed = 0
  BY DEF NoRow
<1>2. /\ mid \in Tables
      /\ \A x \in RunIds \ {r} : mid[x] = tbl[x]
      /\ mid[r].workflow = tbl[r].workflow /\ mid[r].status = s /\ mid[r].completed = t
  BY DEF Tables, RowType
<1> HIDE DEF mid
<1>3. new \in Tables /\ \A x \in RunIds : new[x] = mid[x] \/ new[x] = NoRow(mid[x].workflow)
  BY <1>2, PruneKeeps
<1> HIDE DEF new
<1>4. CASE IsActive(tbl, r)
  <2>1. Finalized(tbl, r, s, t) = new
    BY <1>4 DEF Finalized, new, mid
  <2>2. Rewrites(tbl, new, r)
    <3>1. \A x \in RunIds : new[x].workflow = mid[x].workflow /\ mid[x].workflow = tbl[x].workflow
      BY <1>1, <1>2, <1>3
    <3>2. \A x \in RunIds \ {r} : new[x] = tbl[x] \/ (~IsPresent(new, x) /\ new[x].completed = 0)
      BY <1>1, <1>2, <1>3 DEF IsPresent
    <3>3. QED
      BY <1>3, <3>1, <3>2, Zenon DEF Rewrites
  <2>3. new[r].completed \in {0, t} /\ (IsPresent(new, r) => new[r].status = s)
    BY <1>1, <1>2, <1>3 DEF IsPresent
  <2>4. QED
    BY <1>4, <2>1, <2>2, <2>3
<1>5. CASE ~IsActive(tbl, r)
  <2>1. Finalized(tbl, r, s, t) = tbl
    BY <1>5 DEF Finalized
  <2>2. Rewrites(tbl, tbl, r)
    BY Zenon DEF Rewrites
  <2>3. QED
    BY <1>5, <2>1, <2>2
<1>6. QED
  BY <1>4, <1>5

\* The latest outcome i of its workflow stays, or a newer one of the same workflow
\* is there to answer for it.
Answered(old, new, i) ==
    \/ new[i] = old[i]
    \/ \E j \in RunIds : /\ IsTerminal(new, j)
                         /\ new[j].workflow = old[i].workflow
                         /\ new[j].completed >= old[i].completed

\* A terminal write that is newer than all others, with the pruning that follows,
\* keeps the latest outcome of every workflow.
LEMMA TerminalWriteAnswers ==
    ASSUME NEW tbl \in Tables, NEW mid \in Tables, NEW r \in RunIds, NEW t \in Nat,
           \A x \in RunIds : tbl[x].completed < t,
           ~IsTerminal(tbl, r), IsTerminal(mid, r), mid[r].completed = t,
           \A x \in RunIds \ {r} : mid[x] = tbl[x],
           NEW i \in RunIds, IsLatest(tbl, i)
    PROVE  Answered(tbl, Prune(mid, t), i)
<1> DEFINE new == Prune(mid, t)
<1>1. \A x \in RunIds : IsLatest(mid, x) => new[x] = mid[x]
  BY PruneKeeps
<1>2. i # r /\ mid[i] = tbl[i] /\ tbl[i].completed \in Nat /\ tbl[i].completed < t
  BY DEF IsLatest, Tables, RowType
<1> HIDE DEF new
<1>3. CASE mid[r].workflow # tbl[i].workflow
  <2>1. NewerRuns(mid, i) = {}
    <3> SUFFICES ASSUME NEW j \in RunIds, IsTerminal(mid, j), mid[j].workflow = mid[i].workflow, Newer(mid, j, i)
                 PROVE  FALSE
      BY DEF NewerRuns
    <3>1. j # r /\ mid[j] = tbl[j]
      BY <1>2, <1>3
    <3>2. j \in NewerRuns(tbl, i)
      BY <1>2, <3>1 DEF NewerRuns, IsTerminal, Newer
    <3>3. QED
      BY <3>2 DEF IsLatest
  <2>2. IsLatest(mid, i)
    BY <1>2, <2>1 DEF IsLatest, IsTerminal
  <2>3. QED
    BY <1>1, <1>2, <2>2 DEF Answered, new
<1>4. CASE mid[r].workflow = tbl[i].workflow
  <2>1. NewerRuns(mid, r) = {}
    <3> SUFFICES ASSUME NEW j \in RunIds, Newer(mid, j, r)
                 PROVE  FALSE
      BY DEF NewerRuns
    <3>1. r \in Nat /\ j \in Nat
      BY StoreAssumption
    <3>2. j # r
      BY <3>1 DEF Newer
    <3>3. mid[j].completed < t /\ mid[j].completed \in Nat
      BY <3>2 DEF Tables, RowType
    <3>4. QED
      BY <3>3 DEF Newer
  <2>2. IsLatest(mid, r)
    BY <2>1 DEF IsLatest
  <2>3. new[r] = mid[r]
    BY <1>1, <2>2
  <2>4. IsTerminal(new, r) /\ new[r].workflow = tbl[i].workflow /\ new[r].completed >= tbl[i].completed
    BY <1>2, <1>4, <2>3 DEF IsTerminal
  <2>5. QED
    BY <2>4 DEF Answered, new
<1>5. QED
  BY <1>3, <1>4

\* finalize_run keeps the latest outcome of every workflow.
LEMMA FinalizedAnswers ==
    ASSUME NEW tbl \in Tables, NEW r \in RunIds, NEW s \in TerminalRunStatuses, NEW t \in Nat,
           \A x \in RunIds : tbl[x].completed < t,
           NEW i \in RunIds, IsLatest(tbl, i)
    PROVE  Answered(tbl, Finalized(tbl, r, s, t), i)
<1> DEFINE mid == [tbl EXCEPT ![r].status = s, ![r].completed = t]
<1>1. CASE IsActive(tbl, r)
  <2>1. Finalized(tbl, r, s, t) = Prune(mid, t)
    BY <1>1 DEF Finalized
  <2>2. /\ mid \in Tables
        /\ \A x \in RunIds \ {r} : mid[x] = tbl[x]
        /\ mid[r].status = s /\ mid[r].completed = t
    BY DEF Tables, RowType
  <2>3. ~IsTerminal(tbl, r)
    BY <1>1 DEF IsActive, IsTerminal, ActiveRunStatuses, TerminalRunStatuses
  <2> HIDE DEF mid
  <2>4. IsTerminal(mid, r)
    BY <2>2 DEF IsTerminal
  <2>5. QED
    BY <2>1, <2>2, <2>3, <2>4, TerminalWriteAnswers
<1>2. CASE ~IsActive(tbl, r)
  BY <1>2 DEF Finalized, Answered
<1>3. QED
  BY <1>1, <1>2

\* record_terminal_run writes one row, or none for an event that is known; the
\* others it leaves alone or prunes, keeping the latest outcome of every workflow.
LEMMA RecordedAnswers ==
    ASSUME NEW tbl \in Tables, NEW r \in RunIds, NEW w \in Workflows, NEW k \in EventKeys,
           NEW s \in TerminalRunStatuses, NEW t \in Nat,
           \A x \in RunIds : tbl[x].completed < t, ~IsPresent(tbl, r),
           NEW new, new = Recorded(tbl, r, w, k, s, t)
    PROVE  /\ new \in Tables
           /\ \A x \in RunIds \ {r} : \/ new[x] = tbl[x]
                                      \/ ~IsPresent(new, x) /\ new[x].workflow = tbl[x].workflow
           /\ \A x \in RunIds : new[x].completed <= t
           /\ \A i \in RunIds : IsLatest(tbl, i) => Answered(tbl, new, i)
<1> DEFINE row == [workflow |-> w, status |-> s, key |-> k, completed |-> t]
           mid == [tbl EXCEPT ![r] = row]
<1>1. CASE new = tbl
  BY <1>1 DEF Answered, Tables, RowType
<1>2. CASE new = Prune(mid, t)
  <2>1. \A u : NoRow(u).workflow = u /\ NoRow(u).status = "absent" /\ NoRow(u).completed = 0
    BY DEF NoRow
  <2>2. row \in RowType
    BY DEF RowType
  <2>3. /\ mid \in Tables
        /\ \A x \in RunIds \ {r} : mid[x] = tbl[x]
        /\ mid[r] = row
    BY <2>2 DEF Tables
  <2>4. row.status = s /\ row.completed = t
    OBVIOUS
  <2> HIDE DEF mid, row
  <2>5. new \in Tables /\ \A x \in RunIds : new[x] = mid[x] \/ new[x] = NoRow(mid[x].workflow)
    BY <1>2, <2>3, PruneKeeps
  <2>6. ~IsTerminal(tbl, r) /\ IsTerminal(mid, r)
    BY <2>3, <2>4 DEF IsTerminal, IsPresent, TerminalRunStatuses
  <2>7. ASSUME NEW i \in RunIds, IsLatest(tbl, i) PROVE Answered(tbl, new, i)
    BY <1>2, <2>3, <2>4, <2>6, <2>7, TerminalWriteAnswers
  <2>8. ASSUME NEW x \in RunIds \ {r}
        PROVE  new[x] = tbl[x] \/ (~IsPresent(new, x) /\ new[x].workflow = tbl[x].workflow)
    BY <2>1, <2>3, <2>5 DEF IsPresent
  <2>9. ASSUME NEW x \in RunIds PROVE new[x].completed <= t
    <3>1. mid[x].completed <= t
      BY <2>3, <2>4 DEF Tables, RowType
    <3>2. QED
      BY <2>1, <2>5, <3>1
  <2>10. QED
    BY <2>5, <2>7, <2>8, <2>9
<1>3. QED
  BY <1>1, <1>2 DEF Recorded

\* new is old with a queued row of the workflow for the run.
RowAdded(new, old, r, w) ==
    /\ new \in Tables
    /\ \A x \in RunIds \ {r} : new[x] = old[x]
    /\ new[r].workflow = w /\ new[r].status = "queued" /\ new[r].completed = 0

\* create_run writes one row.
LEMMA CreatesOne ==
    ASSUME NEW tbl \in Tables, NEW r \in RunIds, NEW w \in Workflows
    PROVE  RowAdded(Created(tbl, r, w), tbl, r, w)
<1> SUFFICES ASSUME NEW new, new = Created(tbl, r, w)
             PROVE  RowAdded(new, tbl, r, w)
  OBVIOUS
<1>1. /\ new \in Tables
      /\ \A x \in RunIds \ {r} : new[x] = tbl[x]
      /\ new[r].workflow = w /\ new[r].status = "queued" /\ new[r].completed = 0
  BY DEF Created, NoRow, Tables, RowType, ActiveRunStatuses
<1>2. QED
  BY <1>1 DEF RowAdded

\* mark_started writes one row.
LEMMA StartsOne ==
    ASSUME NEW tbl \in Tables, NEW r \in RunIds
    PROVE  /\ Started(tbl, r) \in Tables
           /\ \A x \in RunIds \ {r} : Started(tbl, r)[x] = tbl[x]
           /\ Started(tbl, r)[r].workflow = tbl[r].workflow
           /\ Started(tbl, r)[r].completed = tbl[r].completed
           /\ Started(tbl, r)[r].status = IF tbl[r].status = "queued" THEN "running" ELSE tbl[r].status
  BY DEF Started, Tables, RowType, ActiveRunStatuses

-----------------------------------------------------------------------------
(***************************************************************************)
(* The lanes.                                                              *)
(***************************************************************************)

\* A run that leaves a queue leaves a queue of runs.
LEMMA DequeuedType ==
    ASSUME NEW q \in Seq(RunIds), NEW r
    PROVE  Dequeued(q, r) \in Seq(RunIds)
<1> DEFINE i == CHOOSE j \in DOMAIN q : q[j] = r
<1>1. CASE \E j \in DOMAIN q : q[j] = r
  <2>1. i \in 1..Len(q)
    BY <1>1
  <2>2. Dequeued(q, r) = SubSeq(q, 1, i - 1) \o SubSeq(q, i + 1, Len(q))
    BY <1>1 DEF Dequeued, RemoveAt
  <2> HIDE DEF i
  <2>3. SubSeq(q, 1, i - 1) \in Seq(RunIds) /\ SubSeq(q, i + 1, Len(q)) \in Seq(RunIds)
    BY <2>1
  <2>4. QED
    BY <2>2, <2>3
<1>2. CASE ~\E j \in DOMAIN q : q[j] = r
  BY <1>2 DEF Dequeued
<1>3. QED
  BY <1>1, <1>2

\* There are finitely many runs.
LEMMA HoldingFinite ==
    ASSUME NEW per, NEW stage, NEW n
    PROVE  IsFiniteSet(Holding(per, stage, n)) /\ Cardinality(Holding(per, stage, n)) \in Nat
<1>1. Holding(per, stage, n) \subseteq RunIds
  BY DEF Holding
<1>2. IsFiniteSet(Holding(per, stage, n))
  BY <1>1, StoreAssumption, FS_Subset
<1>3. QED
  BY <1>2, FS_CardinalityType

\* The lengths and the members of a sequence of semaphores one of which changes.
LEMMA OneChanged ==
    ASSUME NEW ss \in Seq(Semaphores), NEW n \in DOMAIN ss, NEW sem \in Semaphores
    PROVE  /\ [ss EXCEPT ![n] = sem] \in Seq(Semaphores)
           /\ Len([ss EXCEPT ![n] = sem]) = Len(ss)
           /\ DOMAIN [ss EXCEPT ![n] = sem] = DOMAIN ss
           /\ \A m \in DOMAIN ss : [ss EXCEPT ![n] = sem][m] = IF m = n THEN sem ELSE ss[m]
  OBVIOUS

\* What the free permits lose the holders gain, and the other way round.
LEMMA OneForOne ==
    ASSUME NEW f \in Nat, NEW c \in Nat, NEW l, f + c = l,
           NEW f2, NEW c2, NEW l2, l2 = l, (f2 = f - 1 /\ c2 = c + 1) \/ (f2 = f + 1 /\ c2 = c - 1)
    PROVE  f2 + c2 = l2
<1>1. (f - 1) + (c + 1) = f + c /\ (f + 1) + (c - 1) = f + c
  OBVIOUS
<1>2. QED
  BY <1>1

\* A permit that is acquired is one free permit less and one holder more.
LEMMA AcquiredBalanced ==
    ASSUME NEW ss \in Seq(Semaphores), NEW per \in [RunIds -> Nat], NEW stage \in [RunIds -> Stages],
           Balanced(ss, per, stage),
           NEW n \in DOMAIN ss, ss[n].free > 0, NEW q \in Seq(RunIds), NEW r \in RunIds,
           per[r] = 0 \/ (per[r] = n /\ stage[r] = "permit"),
           NEW ss2, ss2 = [ss EXCEPT ![n] = Semaphore(ss[n].limit, ss[n].free - 1, q)],
           NEW per2, per2 = [per EXCEPT ![r] = n],
           NEW stage2, stage2 = [stage EXCEPT ![r] = "running"]
    PROVE  ss2 \in Seq(Semaphores) /\ Balanced(ss2, per2, stage2)
<1> DEFINE sem == Semaphore(ss[n].limit, ss[n].free - 1, q)
<1>1. n \in 1..Len(ss) /\ Len(ss) \in Nat /\ DOMAIN ss = 1..Len(ss)
  OBVIOUS
<1>2. ss[n] \in Semaphores
  OBVIOUS
<1>3. sem \in Semaphores /\ sem.free = ss[n].free - 1 /\ sem.limit = ss[n].limit
  BY <1>2 DEF Semaphore, Semaphores
<1> HIDE DEF sem
<1>4. /\ ss2 \in Seq(Semaphores) /\ Len(ss2) = Len(ss) /\ DOMAIN ss2 = DOMAIN ss
      /\ \A m \in DOMAIN ss : ss2[m] = IF m = n THEN sem ELSE ss[m]
  BY <1>3, OneChanged DEF sem
<1>5. \A x \in RunIds : per2[x] = (IF x = r THEN n ELSE per[x]) /\ stage2[x] = (IF x = r THEN "running" ELSE stage[x])
  OBVIOUS
<1>6. ASSUME NEW m \in DOMAIN ss PROVE ss2[m].free + Cardinality(Holding(per2, stage2, m)) = ss2[m].limit
  <2>1. CASE m = n
    <3>1. Holding(per2, stage2, m) = Holding(per, stage, m) \cup {r} /\ r \notin Holding(per, stage, m)
      BY <1>1, <1>5, <2>1 DEF Holding
    <3>2. Cardinality(Holding(per2, stage2, m)) = Cardinality(Holding(per, stage, m)) + 1
      BY <3>1, HoldingFinite, FS_AddElement
    <3>3. Cardinality(Holding(per, stage, m)) \in Nat
      BY HoldingFinite
    <3>4. ss[m].free + Cardinality(Holding(per, stage, m)) = ss[m].limit
      BY DEF Balanced
    <3>5. ss[m].free \in Nat
      BY <1>2, <2>1 DEF Semaphores
    <3>6. ss2[m].free = ss[m].free - 1 /\ ss2[m].limit = ss[m].limit
      BY <1>3, <1>4, <2>1
    <3>7. QED
      BY <3>2, <3>3, <3>4, <3>5, <3>6, OneForOne
  <2>2. CASE m # n
    <3>1. Holding(per2, stage2, m) = Holding(per, stage, m)
      BY <1>1, <1>5, <2>2 DEF Holding
    <3>2. QED
      BY <1>4, <2>2, <3>1 DEF Balanced
  <2>3. QED
    BY <2>1, <2>2
<1>7. ASSUME NEW x \in RunIds
      PROVE  per2[x] <= Len(ss2) /\ (stage2[x] = "gate" => per2[x] = 0) /\ (stage2[x] = "permit" => per2[x] # 0)
  BY <1>1, <1>4, <1>5 DEF Balanced
<1>8. QED
  BY <1>4, <1>6, <1>7 DEF Balanced

\* A run that queues up for a permit holds none.
LEMMA QueuedBalanced ==
    ASSUME NEW ss \in Seq(Semaphores), NEW per \in [RunIds -> Nat], NEW stage \in [RunIds -> Stages],
           Balanced(ss, per, stage),
           NEW n \in DOMAIN ss, NEW q \in Seq(RunIds), NEW r \in RunIds, per[r] = 0,
           NEW ss2, ss2 = [ss EXCEPT ![n] = Semaphore(ss[n].limit, ss[n].free, q)],
           NEW per2, per2 = [per EXCEPT ![r] = n],
           NEW stage2, stage2 = [stage EXCEPT ![r] = "permit"]
    PROVE  ss2 \in Seq(Semaphores) /\ Balanced(ss2, per2, stage2)
<1> DEFINE sem == Semaphore(ss[n].limit, ss[n].free, q)
<1>1. n \in 1..Len(ss) /\ Len(ss) \in Nat /\ DOMAIN ss = 1..Len(ss)
  OBVIOUS
<1>2. ss[n] \in Semaphores
  OBVIOUS
<1>3. sem \in Semaphores /\ sem.free = ss[n].free /\ sem.limit = ss[n].limit
  BY <1>2 DEF Semaphore, Semaphores
<1> HIDE DEF sem
<1>4. /\ ss2 \in Seq(Semaphores) /\ Len(ss2) = Len(ss) /\ DOMAIN ss2 = DOMAIN ss
      /\ \A m \in DOMAIN ss : ss2[m] = IF m = n THEN sem ELSE ss[m]
  BY <1>3, OneChanged DEF sem
<1>5. \A x \in RunIds : per2[x] = (IF x = r THEN n ELSE per[x]) /\ stage2[x] = (IF x = r THEN "permit" ELSE stage[x])
  OBVIOUS
<1>6. ASSUME NEW m \in DOMAIN ss PROVE ss2[m].free + Cardinality(Holding(per2, stage2, m)) = ss2[m].limit
  <2>1. Holding(per2, stage2, m) = Holding(per, stage, m)
    BY <1>1, <1>5 DEF Holding
  <2>2. ss2[m].free = ss[m].free /\ ss2[m].limit = ss[m].limit
    BY <1>3, <1>4
  <2>3. QED
    BY <2>1, <2>2 DEF Balanced
<1>7. ASSUME NEW x \in RunIds
      PROVE  per2[x] <= Len(ss2) /\ (stage2[x] = "gate" => per2[x] = 0) /\ (stage2[x] = "permit" => per2[x] # 0)
  BY <1>1, <1>4, <1>5 DEF Balanced
<1>8. QED
  BY <1>4, <1>6, <1>7 DEF Balanced

\* Nobody holds or awaits a permit of a semaphore that has just been made.
LEMMA CurrentBalanced ==
    ASSUME NEW ss \in Seq(Semaphores), NEW per \in [RunIds -> Nat], NEW stage \in [RunIds -> Stages],
           Balanced(ss, per, stage), setting \in Nat,
           NEW ss2, ss2 = CurrentSemaphore(ss)
    PROVE  ss2 \in Seq(Semaphores) /\ Balanced(ss2, per, stage) /\ Len(ss2) \in DOMAIN ss2
<1> DEFINE sem == Semaphore(setting, setting, <<>>)
<1>1. CASE ss2 = ss /\ ss # <<>>
  BY <1>1
<1>2. CASE ss2 = Append(ss, sem)
  <2>1. sem \in Semaphores /\ sem.free = setting /\ sem.limit = setting
    <3>1. <<>> \in Seq(RunIds)
      OBVIOUS
    <3>2. QED
      BY <3>1 DEF Semaphore, Semaphores
  <2> HIDE DEF sem
  <2>2. /\ ss2 \in Seq(Semaphores) /\ Len(ss2) = Len(ss) + 1 /\ Len(ss) \in Nat
        /\ DOMAIN ss2 = 1..(Len(ss) + 1) /\ DOMAIN ss = 1..Len(ss)
        /\ \A m \in DOMAIN ss : ss2[m] = ss[m]
        /\ ss2[Len(ss) + 1] = sem
    BY <1>2, <2>1
  <2>3. \A x \in RunIds : per[x] <= Len(ss) /\ per[x] \in Nat
    BY DEF Balanced
  <2>4. ASSUME NEW m \in DOMAIN ss2 PROVE ss2[m].free + Cardinality(Holding(per, stage, m)) = ss2[m].limit
    <3>1. CASE m \in DOMAIN ss
      BY <2>2, <3>1 DEF Balanced
    <3>2. CASE m = Len(ss) + 1
      <4>1. \A x \in RunIds : per[x] # m
        BY <2>2, <2>3, <3>2
      <4>2. Holding(per, stage, m) = {}
        BY <4>1 DEF Holding
      <4>3. QED
        <5>1. Cardinality(Holding(per, stage, m)) = 0
          BY <4>2, FS_EmptySet
        <5>2. ss2[m].free = setting /\ ss2[m].limit = setting
          BY <2>1, <2>2, <3>2
        <5>3. QED
          BY <5>1, <5>2
    <3>3. QED
      BY <2>2, <3>1, <3>2
  <2>5. \A x \in RunIds : per[x] <= Len(ss2)
    BY <2>2, <2>3
  <2>6. QED
    BY <2>2, <2>4, <2>5 DEF Balanced
<1>3. QED
  BY <1>1, <1>2 DEF CurrentSemaphore

\* The semaphores after r has left.
Left(ss, per, stage, r) == Vacated(ss, per[r], r, stage[r] = "permit")

\* A run that leaves gives back the permit it holds, and only that.
LEMMA VacatedBalanced ==
    ASSUME NEW ss \in Seq(Semaphores), NEW per \in [RunIds -> Nat], NEW stage \in [RunIds -> Stages],
           Balanced(ss, per, stage), NEW r \in RunIds, 
           NEW ss2, ss2 = Left(ss, per, stage, r),
           NEW per2, per2 = [per EXCEPT ![r] = 0],
           NEW stage2 \in [RunIds -> Stages], stage2[r] = "ended",
           \A x \in RunIds \ {r} : stage2[x] = stage[x] \/ (stage2[x] = "running" /\ stage[x] = "calling")
    PROVE  ss2 \in Seq(Semaphores) /\ Balanced(ss2, per2, stage2)
<1> DEFINE n == per[r]
           sem == Semaphore(ss[n].limit, IF stage[r] = "permit" THEN ss[n].free ELSE ss[n].free + 1,
                            Dequeued(ss[n].queue, r))
<1>1. n \in Nat /\ n <= Len(ss) /\ Len(ss) \in Nat /\ DOMAIN ss = 1..Len(ss)
  BY DEF Balanced
<1>0. n = per[r] /\ ss2 = IF n = 0 THEN ss ELSE [ss EXCEPT ![n] = sem]
  BY DEF Left, Vacated
<1> HIDE DEF n
<1>2. \A x \in RunIds : per2[x] = IF x = r THEN 0 ELSE per[x]
  OBVIOUS
<1>3. ASSUME NEW m \in DOMAIN ss, m # n \/ stage[r] = "permit" PROVE Holding(per2, stage2, m) = Holding(per, stage, m)
  BY <1>0, <1>1, <1>2, <1>3 DEF Holding
<1>4. ASSUME NEW x \in RunIds
      PROVE  per2[x] <= Len(ss) /\ (stage2[x] = "gate" => per2[x] = 0) /\ (stage2[x] = "permit" => per2[x] # 0)
  BY <1>1, <1>2 DEF Balanced
<1>5. CASE n = 0
  <2>1. ss2 = ss
    BY <1>0, <1>5
  <2>2. \A m \in DOMAIN ss : Holding(per2, stage2, m) = Holding(per, stage, m)
    <3> SUFFICES ASSUME NEW m \in DOMAIN ss PROVE Holding(per2, stage2, m) = Holding(per, stage, m)
      OBVIOUS
    <3>1. m # n
      BY <1>1, <1>5
    <3>2. QED
      BY <1>3, <3>1, Zenon
  <2>3. QED
    BY <1>4, <2>1, <2>2 DEF Balanced
<1>6. CASE n # 0
  <2>1. n \in DOMAIN ss /\ ss[n] \in Semaphores
    BY <1>1, <1>6
  <2>2. ss2 = [ss EXCEPT ![n] = sem]
    BY <1>0, <1>6
  <2>3. /\ sem \in Semaphores /\ sem.limit = ss[n].limit
        /\ sem.free = IF stage[r] = "permit" THEN ss[n].free ELSE ss[n].free + 1
    <3>1. Dequeued(ss[n].queue, r) \in Seq(RunIds)
      BY <2>1, DequeuedType DEF Semaphores
    <3>2. QED
      BY <2>1, <3>1 DEF Semaphore, Semaphores
  <2> HIDE DEF sem
  <2>4. /\ ss2 \in Seq(Semaphores) /\ Len(ss2) = Len(ss) /\ DOMAIN ss2 = DOMAIN ss
        /\ \A m \in DOMAIN ss : ss2[m] = IF m = n THEN sem ELSE ss[m]
    <3> DEFINE changed == [ss EXCEPT ![n] = sem]
    <3>1. /\ changed \in Seq(Semaphores) /\ Len(changed) = Len(ss) /\ DOMAIN changed = DOMAIN ss
          /\ \A m \in DOMAIN ss : changed[m] = IF m = n THEN sem ELSE ss[m]
      BY <2>1, <2>3, OneChanged
    <3>2. ss2 = changed
      BY <2>2
    <3> HIDE DEF changed
    <3>3. QED
      BY <3>1, <3>2
  <2>5. ASSUME NEW m \in DOMAIN ss PROVE ss2[m].free + Cardinality(Holding(per2, stage2, m)) = ss2[m].limit
    <3>1. CASE m = n /\ stage[r] # "permit"
      <4>1. Holding(per2, stage2, m) = Holding(per, stage, m) \ {r} /\ r \in Holding(per, stage, m)
        BY <1>0, <1>1, <1>2, <1>6, <3>1 DEF Holding
      <4>2. Cardinality(Holding(per2, stage2, m)) = Cardinality(Holding(per, stage, m)) - 1
        <5> DEFINE H == Holding(per, stage, m)
        <5>1. IsFiniteSet(H)
          BY HoldingFinite
        <5> HIDE DEF H
        <5>2. r \in H => Cardinality(H \ {r}) = Cardinality(H) - 1
          BY <5>1, FS_RemoveElement
        <5>3. QED
          BY <4>1, <5>2 DEF H
      <4>3. Cardinality(Holding(per, stage, m)) \in Nat /\ ss[m].free \in Nat
        BY <2>1, <3>1, HoldingFinite DEF Semaphores
      <4>4. ss[m].free + Cardinality(Holding(per, stage, m)) = ss[m].limit
        BY DEF Balanced
      <4>5. ss2[m].free = ss[m].free + 1 /\ ss2[m].limit = ss[m].limit
        BY <2>3, <2>4, <3>1
      <4>6. QED
        <5> DEFINE c == Cardinality(Holding(per, stage, m))
                   c2 == Cardinality(Holding(per2, stage2, m))
                   f == ss[m].free
                   f2 == ss2[m].free
                   l == ss[m].limit
                   l2 == ss2[m].limit
        <5>1. c \in Nat /\ f \in Nat /\ f + c = l /\ f2 = f + 1 /\ c2 = c - 1 /\ l2 = l
          BY <4>2, <4>3, <4>4, <4>5
        <5> HIDE DEF c, c2, f, f2, l, l2
        <5>2. f2 + c2 = l2
          BY <5>1
        <5>3. QED
          BY <5>2 DEF f2, c2, l2
    <3>2. CASE m # n \/ stage[r] = "permit"
      <4>1. Holding(per2, stage2, m) = Holding(per, stage, m)
        BY <1>3, <3>2
      <4>2. ss2[m].free = ss[m].free /\ ss2[m].limit = ss[m].limit
        BY <2>3, <2>4, <3>2
      <4>3. QED
        BY <4>1, <4>2 DEF Balanced
    <3>3. QED
      BY <3>1, <3>2
  <2>6. QED
    BY <1>4, <2>4, <2>5 DEF Balanced
<1>7. QED
  BY <1>5, <1>6

-----------------------------------------------------------------------------
(***************************************************************************)
(* The stretches of code between two suspensions.                          *)
(***************************************************************************)

\* The step concerns no run but r, and leaves r's row its date.
Touches(new, old, r) ==
    /\ \A x \in RunIds \ {r} :
          new.task[x] = old.task[x] /\ new.permit[x] = old.permit[x] /\ new.rows[x] = old.rows[x]
    /\ new.rows[r].completed = old.rows[r].completed

\* A run that holds the gate of its vault may begin.
LEMMA BeginKeeps ==
    ASSUME NEW h \in ProcType, NEW r \in RunIds, h.pc[r] \in {"gate", "permit"},
           h.gate[VaultOf[h.rows[r].workflow]] = r, Gated(h), Recounted(h),
           NEW b, b = Begin(h, r)
    PROVE  /\ b \in ProcType /\ Gated(b) /\ Recounted(b)
           /\ b.sems = h.sems /\ b.permit = h.permit
           /\ b.pc = [h.pc EXCEPT ![r] = "running"]
           /\ Touches(b, h, r)
<1> DEFINE new == Started(h.rows, r)
<1>1. h.rows \in Tables /\ h.task \in [RunIds -> TaskStatuses] /\ h.pc \in [RunIds -> Stages]
  BY DEF ProcType
<1>2. /\ new \in Tables
      /\ \A x \in RunIds \ {r} : new[x] = h.rows[x]
      /\ new[r].workflow = h.rows[r].workflow
      /\ new[r].completed = h.rows[r].completed
      /\ new[r].status = IF h.rows[r].status = "queued" THEN "running" ELSE h.rows[r].status
  BY <1>1, StartsOne
<1>3. /\ b.task = [h.task EXCEPT ![r] = "running"] /\ b.pc = [h.pc EXCEPT ![r] = "running"]
      /\ b.gate = h.gate /\ b.gateQ = h.gateQ /\ b.sems = h.sems /\ b.permit = h.permit /\ b.rows = new
      /\ b = [task |-> b.task, pc |-> b.pc, gate |-> b.gate, gateQ |-> b.gateQ,
              sems |-> b.sems, permit |-> b.permit, rows |-> b.rows]
  BY DEF Begin, ProcType
<1> HIDE DEF new
<1>4. b \in ProcType
  <2>1. b.task \in [RunIds -> TaskStatuses] /\ b.pc \in [RunIds -> Stages]
    BY <1>1, <1>3 DEF TaskStatuses, ActiveRunStatuses, Stages
  <2>2. b.gate \in [Vaults -> RunIds \cup {NoRun}] /\ b.gateQ \in [Vaults -> Seq(RunIds)]
        /\ b.sems \in Seq(Semaphores) /\ b.permit \in [RunIds -> Nat]
    BY <1>3 DEF ProcType
  <2>3. QED
    BY <1>2, <1>3, <2>1, <2>2 DEF ProcType
<1>5. \A x \in RunIds : b.task[x] = (IF x = r THEN "running" ELSE h.task[x]) /\ b.pc[x] = (IF x = r THEN "running" ELSE h.pc[x])
  BY <1>1, <1>3
<1>6. Gated(b)
  BY <1>2, <1>3, <1>5 DEF Gated
<1>7. Recounted(b)
  <2> SUFFICES ASSUME NEW x \in RunIds
               PROVE  /\ b.pc[x] \in {"gate", "permit"} => b.task[x] = "queued"
                      /\ b.pc[x] \in {"running", "calling"} => b.task[x] = "running"
                      /\ (b.task[x] \notin {"none", "lost"} /\ b.rows[x].status # "absent") => b.rows[x].status = b.task[x]
    BY DEF Recounted, IsPresent
  <2>1. CASE x = r
    <3>1. h.task[r] = "queued" /\ (h.rows[r].status # "absent" => h.rows[r].status = "queued")
      BY DEF Recounted, IsPresent
    <3>2. QED
      BY <1>2, <1>3, <1>5, <2>1, <3>1
  <2>2. CASE x # r
    BY <1>2, <1>3, <1>5, <2>2 DEF Recounted, IsPresent
  <2>3. QED
    BY <2>1, <2>2
<1>8. Touches(b, h, r)
  BY <1>2, <1>3, <1>5 DEF Touches
<1>9. QED
  BY <1>3, <1>4, <1>6, <1>7, <1>8

TakeGate(p, r, v, q) == [p EXCEPT !.gate[v] = r, !.gateQ[v] = q]
TakePermit(p, r, n, ss) == [p EXCEPT !.sems = ss, !.permit[r] = n]
AwaitPermit(p, r, n, ss) == [p EXCEPT !.sems = ss, !.permit[r] = n, !.pc[r] = "permit"]

\* h is p with the gate of v held by the run.
HasGate(h, p, r, v) ==
    /\ h \in ProcType
    /\ h.gate[v] = r /\ \A u \in Vaults \ {v} : h.gate[u] = p.gate[u]
    /\ h.task = p.task /\ h.pc = p.pc /\ h.sems = p.sems /\ h.permit = p.permit /\ h.rows = p.rows

\* The process after r has taken the gate of v.
LEMMA GateTaken ==
    ASSUME NEW p \in ProcType, NEW r \in RunIds, NEW v \in Vaults, NEW q \in Seq(RunIds)
    PROVE  HasGate(TakeGate(p, r, v, q), p, r, v)
<1> SUFFICES ASSUME NEW h, h = TakeGate(p, r, v, q)
             PROVE  HasGate(h, p, r, v)
  OBVIOUS
<1>1. h.gate = [p.gate EXCEPT ![v] = r] /\ h.gateQ = [p.gateQ EXCEPT ![v] = q]
  BY DEF ProcType, TakeGate
<1>2. h.task = p.task /\ h.pc = p.pc /\ h.sems = p.sems /\ h.permit = p.permit /\ h.rows = p.rows
  BY DEF ProcType, TakeGate
<1>3. h = [task |-> h.task, pc |-> h.pc, gate |-> h.gate, gateQ |-> h.gateQ,
           sems |-> h.sems, permit |-> h.permit, rows |-> h.rows]
  BY DEF ProcType, TakeGate
<1>4. h.gate \in [Vaults -> RunIds \cup {NoRun}] /\ h.gateQ \in [Vaults -> Seq(RunIds)]
  BY <1>1 DEF ProcType
<1>5. h \in ProcType
  BY <1>2, <1>3, <1>4 DEF ProcType
<1>6. h.gate[v] = r /\ \A u \in Vaults \ {v} : h.gate[u] = p.gate[u]
  BY <1>1 DEF ProcType
<1>7. QED
  BY <1>2, <1>5, <1>6 DEF HasGate

\* The process after r has gone to the n-th semaphore and got a permit ...
LEMMA PermitTaken ==
    ASSUME NEW p \in ProcType, NEW r \in RunIds, NEW n \in Nat, NEW ss \in Seq(Semaphores),
           NEW h, h = TakePermit(p, r, n, ss)
    PROVE  /\ h \in ProcType
           /\ h.task = p.task /\ h.pc = p.pc /\ h.gate = p.gate /\ h.sems = ss
           /\ h.permit = [p.permit EXCEPT ![r] = n] /\ h.rows = p.rows
<1>1. /\ h.task = p.task /\ h.pc = p.pc /\ h.gate = p.gate /\ h.gateQ = p.gateQ
      /\ h.sems = ss /\ h.permit = [p.permit EXCEPT ![r] = n] /\ h.rows = p.rows
  BY DEF ProcType, TakePermit
<1>2. h = [task |-> h.task, pc |-> h.pc, gate |-> h.gate, gateQ |-> h.gateQ,
           sems |-> h.sems, permit |-> h.permit, rows |-> h.rows]
  BY DEF ProcType, TakePermit
<1>3. h.permit \in [RunIds -> Nat]
  BY <1>1 DEF ProcType
<1>4. h \in ProcType
  BY <1>1, <1>2, <1>3 DEF ProcType
<1>5. QED
  BY <1>1, <1>4

\* h is p with the run waiting for a permit of the n-th semaphore of ss.
Awaits(h, p, r, n, ss) ==
    /\ h \in ProcType
    /\ h.task = p.task /\ h.pc = [p.pc EXCEPT ![r] = "permit"] /\ h.gate = p.gate /\ h.sems = ss
    /\ h.permit = [p.permit EXCEPT ![r] = n] /\ h.rows = p.rows

\* ... or waits there.
LEMMA PermitAwaited ==
    ASSUME NEW p \in ProcType, NEW r \in RunIds, NEW n \in Nat, NEW ss \in Seq(Semaphores)
    PROVE  Awaits(AwaitPermit(p, r, n, ss), p, r, n, ss)
<1> SUFFICES ASSUME NEW h, h = AwaitPermit(p, r, n, ss)
             PROVE  Awaits(h, p, r, n, ss)
  OBVIOUS
<1>1. /\ h.task = p.task /\ h.pc = [p.pc EXCEPT ![r] = "permit"] /\ h.gate = p.gate /\ h.gateQ = p.gateQ
      /\ h.sems = ss /\ h.permit = [p.permit EXCEPT ![r] = n] /\ h.rows = p.rows
  BY DEF ProcType, AwaitPermit
<1>2. h = [task |-> h.task, pc |-> h.pc, gate |-> h.gate, gateQ |-> h.gateQ,
           sems |-> h.sems, permit |-> h.permit, rows |-> h.rows]
  BY DEF ProcType, AwaitPermit
<1>3. h.permit \in [RunIds -> Nat] /\ h.pc \in [RunIds -> Stages]
  BY <1>1 DEF ProcType, Stages
<1>4. h \in ProcType
  BY <1>1, <1>2, <1>3 DEF ProcType
<1>5. QED
  BY <1>1, <1>4 DEF Awaits

\* A run that finds its vault's gate free takes it and begins, or waits for a
\* permit.
LEMMA EnterGateKeeps ==
    ASSUME NEW p \in ProcType, NEW r \in RunIds, NEW v \in Vaults,
           p.pc[r] = "gate", v = VaultOf[p.rows[r].workflow], p.gate[v] = NoRun, setting \in Nat,
           Gated(p), Recounted(p), Balanced(p.sems, p.permit, p.pc),
           NEW e, e = EnterGate(p, r, v)
    PROVE  /\ e \in ProcType /\ Gated(e) /\ Recounted(e) /\ Balanced(e.sems, e.permit, e.pc)
           /\ \E stage \in {"permit", "running"} : e.pc = [p.pc EXCEPT ![r] = stage]
           /\ Touches(e, p, r)
<1> DEFINE q    == Dequeued(p.gateQ[v], r)
           held == [p EXCEPT !.gate[v] = r, !.gateQ[v] = q]
           ss   == CurrentSemaphore(p.sems)
           n    == Len(ss)
           sem  == ss[n]
           less == [ss EXCEPT ![n] = Semaphore(sem.limit, sem.free - 1, <<>>)]
           more == [ss EXCEPT ![n] = Semaphore(sem.limit, sem.free, Append(sem.queue, r))]
           took == [held EXCEPT !.sems = less, !.permit[r] = n]
           waits == [held EXCEPT !.sems = more, !.permit[r] = n, !.pc[r] = "permit"]
<1>1. /\ p.rows \in Tables /\ p.task \in [RunIds -> TaskStatuses] /\ p.pc \in [RunIds -> Stages]
      /\ p.gate \in [Vaults -> RunIds \cup {NoRun}] /\ p.gateQ \in [Vaults -> Seq(RunIds)]
      /\ p.sems \in Seq(Semaphores) /\ p.permit \in [RunIds -> Nat]
  BY DEF ProcType
<1>2. e = IF setting = 0 THEN Begin(held, r)
          ELSE IF sem.free > 0 /\ sem.queue = <<>> THEN Begin(took, r) ELSE waits
  BY DEF EnterGate
<1>3. q \in Seq(RunIds)
  BY <1>1, DequeuedType
<1>4. ss \in Seq(Semaphores) /\ Balanced(ss, p.permit, p.pc) /\ n \in DOMAIN ss
  <2>1. ss = CurrentSemaphore(p.sems) /\ n = Len(ss)
    OBVIOUS
  <2> HIDE DEF ss, n
  <2>2. QED
    BY <1>1, <2>1, CurrentBalanced
<1>5. held = TakeGate(p, r, v, q)
  BY DEF TakeGate
<1>6. took = TakePermit(held, r, n, less)
  BY DEF TakePermit
<1>7. waits = AwaitPermit(held, r, n, more)
  BY DEF AwaitPermit
<1>8. /\ less = [ss EXCEPT ![n] = Semaphore(ss[n].limit, ss[n].free - 1, <<>>)]
      /\ more = [ss EXCEPT ![n] = Semaphore(ss[n].limit, ss[n].free, Append(sem.queue, r))]
      /\ sem = ss[n]
  OBVIOUS
<1> HIDE DEF q, held, took, waits, ss, n, sem, less, more
<1>9. /\ held \in ProcType
      /\ held.gate[v] = r /\ \A u \in Vaults \ {v} : held.gate[u] = p.gate[u]
      /\ held.task = p.task /\ held.pc = p.pc /\ held.sems = p.sems /\ held.permit = p.permit /\ held.rows = p.rows
  <2>1. HasGate(TakeGate(p, r, v, q), p, r, v)
    BY <1>3, GateTaken
  <2>2. QED
    BY <1>5, <2>1 DEF HasGate
<1>10. Gated(held) /\ Recounted(held)
  <2>1. \A x \in RunIds : VaultOf[p.rows[x].workflow] \in Vaults
    BY <1>1, GovernorAssumption DEF Tables, RowType
  <2>2. Gated(held)
    BY <1>9, <2>1, GovernorAssumption, SMTT(30) DEF Gated
  <2>3. Recounted(held)
    BY <1>9 DEF Recounted
  <2>4. QED
    BY <2>2, <2>3
<1>11. p.permit[r] = 0 /\ n \in Nat /\ sem \in Semaphores
  BY <1>4, <1>8 DEF Balanced
<1>12. CASE setting = 0
  <2>1. e = Begin(held, r)
    BY <1>2, <1>12
  <2>2. /\ e \in ProcType /\ Gated(e) /\ Recounted(e)
        /\ e.sems = held.sems /\ e.permit = held.permit
        /\ e.pc = [held.pc EXCEPT ![r] = "running"]
        /\ Touches(e, held, r)
    BY <1>9, <1>10, <2>1, BeginKeeps
  <2>3. Balanced(e.sems, e.permit, e.pc)
    <3>1. e.sems = p.sems /\ e.permit = p.permit /\ e.pc = [p.pc EXCEPT ![r] = "running"]
      BY <1>9, <2>2
    <3>2. \A x \in RunIds : (e.pc[x] = "permit" <=> p.pc[x] = "permit") /\ (e.pc[x] = "gate" => p.pc[x] = "gate")
      BY <1>1, <3>1
    <3>3. \A m \in DOMAIN p.sems : Holding(e.permit, e.pc, m) = Holding(p.permit, p.pc, m)
      BY <3>1, <3>2, SMTT(30) DEF Holding
    <3>4. QED
      BY <3>1, <3>2, <3>3, SMTT(30) DEF Balanced
  <2>4. Touches(e, p, r)
    BY <1>9, <2>2 DEF Touches
  <2>5. QED
    BY <1>9, <2>2, <2>3, <2>4
<1>13. CASE setting # 0 /\ sem.free > 0 /\ sem.queue = <<>>
  <2>1. e = Begin(took, r)
    BY <1>2, <1>13
  <2> DEFINE per == [p.permit EXCEPT ![r] = n]
             stage == [p.pc EXCEPT ![r] = "running"]
  <2>2. less \in Seq(Semaphores) /\ Balanced(less, per, stage)
    <3>1. <<>> \in Seq(RunIds)
      OBVIOUS
    <3>2. ss[n].free > 0
      BY <1>8, <1>13
    <3>3. less = [ss EXCEPT ![n] = Semaphore(ss[n].limit, ss[n].free - 1, <<>>)]
      BY <1>8
    <3>4. per = [p.permit EXCEPT ![r] = n] /\ stage = [p.pc EXCEPT ![r] = "running"]
      OBVIOUS
    <3> HIDE DEF per, stage
    <3>5. QED
      BY <1>1, <1>4, <1>11, <3>1, <3>2, <3>3, <3>4, AcquiredBalanced
  <2>3. /\ took \in ProcType
        /\ took.task = p.task /\ took.pc = p.pc /\ took.gate = held.gate /\ took.sems = less
        /\ took.permit = per /\ took.rows = p.rows
    BY <1>6, <1>9, <1>11, <2>2, PermitTaken
  <2>4. Gated(took) /\ Recounted(took)
    <3>1. took.task = held.task /\ took.pc = held.pc /\ took.gate = held.gate /\ took.rows = held.rows
      BY <1>9, <2>3
    <3>2. Gated(took)
      BY <1>10, <3>1 DEF Gated
    <3>3. Recounted(took)
      BY <1>10, <3>1 DEF Recounted
    <3>4. QED
      BY <3>2, <3>3
  <2>5. /\ e \in ProcType /\ Gated(e) /\ Recounted(e)
        /\ e.sems = took.sems /\ e.permit = took.permit
        /\ e.pc = [took.pc EXCEPT ![r] = "running"]
        /\ Touches(e, took, r)
    <3>1. took.pc[r] = "gate" /\ took.gate[VaultOf[took.rows[r].workflow]] = r
      BY <1>9, <2>3
    <3>2. QED
      BY <2>1, <2>3, <2>4, <3>1, BeginKeeps
  <2>6. \A x \in RunIds \ {r} : per[x] = p.permit[x]
    BY <1>1
  <2> HIDE DEF per
  <2>7. Touches(e, p, r)
    BY <2>3, <2>5, <2>6, ZenonT(30) DEF Touches
  <2>8. e.pc = stage
    BY <2>3, <2>5
  <2>9. QED
    BY <2>2, <2>3, <2>5, <2>7, <2>8
<1>14. CASE setting # 0 /\ ~(sem.free > 0 /\ sem.queue = <<>>)
  <2>1. e = waits
    BY <1>2, <1>14
  <2> DEFINE per == [p.permit EXCEPT ![r] = n]
             stage == [p.pc EXCEPT ![r] = "permit"]
  <2>2. more \in Seq(Semaphores) /\ Balanced(more, per, stage)
    <3>1. Append(sem.queue, r) \in Seq(RunIds)
      BY <1>11 DEF Semaphores
    <3>2. more = [ss EXCEPT ![n] = Semaphore(ss[n].limit, ss[n].free, Append(sem.queue, r))]
      BY <1>8
    <3>3. per = [p.permit EXCEPT ![r] = n] /\ stage = [p.pc EXCEPT ![r] = "permit"]
      OBVIOUS
    <3> HIDE DEF per, stage
    <3>4. QED
      BY <1>1, <1>4, <1>11, <3>1, <3>2, <3>3, QueuedBalanced
  <2>3. /\ e \in ProcType
        /\ e.task = p.task /\ e.pc = stage /\ e.gate = held.gate /\ e.sems = more
        /\ e.permit = per /\ e.rows = p.rows
    <3>1. /\ waits \in ProcType
          /\ waits.task = held.task /\ waits.pc = [held.pc EXCEPT ![r] = "permit"] /\ waits.gate = held.gate
          /\ waits.sems = more /\ waits.permit = [held.permit EXCEPT ![r] = n] /\ waits.rows = held.rows
      <4>1. held \in ProcType /\ n \in Nat /\ more \in Seq(Semaphores)
        BY <1>9, <1>11, <2>2
      <4>2. Awaits(AwaitPermit(held, r, n, more), held, r, n, more)
        BY <4>1, PermitAwaited
      <4>3. QED
        BY <1>7, <4>2 DEF Awaits
    <3>2. QED
      BY <1>9, <2>1, <3>1
  <2>4. \A x \in RunIds : stage[x] = IF x = r THEN "permit" ELSE p.pc[x]
    BY <1>1
  <2>5. \A x \in RunIds \ {r} : per[x] = p.permit[x]
    BY <1>1
  <2> HIDE DEF per, stage
  <2>6. Gated(e)
    <3> SUFFICES ASSUME NEW x \in RunIds, e.pc[x] \in {"permit", "running", "calling"}
                 PROVE  e.gate[VaultOf[e.rows[x].workflow]] = x
      BY DEF Gated
    <3>1. e.gate = held.gate /\ e.rows = held.rows /\ held.rows = p.rows /\ held.pc = p.pc
      BY <1>9, <2>3
    <3>2. CASE x = r
      BY <1>9, <3>1, <3>2
    <3>3. CASE x # r
      <4>1. held.pc[x] \in {"permit", "running", "calling"}
        BY <2>3, <2>4, <3>1, <3>3
      <4>2. held.gate[VaultOf[held.rows[x].workflow]] = x
        BY <1>10, <4>1 DEF Gated
      <4>3. QED
        BY <3>1, <4>2
    <3>4. QED
      BY <3>2, <3>3
  <2>7. Recounted(e)
    <3>1. p.task[r] = "queued"
      BY DEF Recounted
    <3>2. QED
      BY <2>3, <2>4, <3>1 DEF Recounted
  <2>8. Touches(e, p, r)
    BY <2>3, <2>5 DEF Touches
  <2>9. QED
    BY <2>2, <2>3, <2>6, <2>7, <2>8 DEF stage
<1>15. QED
  BY <1>12, <1>13, <1>14

\* What the finally clauses leave of the lanes.
LEMMA LeaveLanesFields ==
    ASSUME NEW p \in ProcType, NEW r \in RunIds, NEW v \in Vaults,
           NEW out, out = LeaveLanes(p, r, v),
           Left(p.sems, p.permit, p.pc, r) \in Seq(Semaphores)
    PROVE  /\ out \in ProcType
           /\ out.gate[v] = (IF p.gate[v] = r THEN NoRun ELSE p.gate[v])
           /\ \A u \in Vaults \ {v} : out.gate[u] = p.gate[u]
           /\ out.sems = Left(p.sems, p.permit, p.pc, r)
           /\ out.permit = [p.permit EXCEPT ![r] = 0]
<1> DEFINE g  == IF p.gate[v] = r THEN NoRun ELSE p.gate[v]
           q  == Dequeued(p.gateQ[v], r)
           ss == Left(p.sems, p.permit, p.pc, r)
<1>1. out = [p EXCEPT !.gate[v] = g, !.gateQ[v] = q, !.sems = ss, !.permit[r] = 0]
  BY DEF LeaveLanes, Left
<1>2. q \in Seq(RunIds) /\ g \in RunIds \cup {NoRun}
  BY DequeuedType DEF ProcType
<1>3. ss \in Seq(Semaphores)
  OBVIOUS
<1> HIDE DEF q, g, ss
<1>4. /\ out.task = p.task /\ out.pc = p.pc /\ out.gate = [p.gate EXCEPT ![v] = g]
      /\ out.gateQ = [p.gateQ EXCEPT ![v] = q]
      /\ out.sems = ss /\ out.permit = [p.permit EXCEPT ![r] = 0] /\ out.rows = p.rows
  BY <1>1 DEF ProcType
<1>5. out = [task |-> out.task, pc |-> out.pc, gate |-> out.gate, gateQ |-> out.gateQ,
             sems |-> out.sems, permit |-> out.permit, rows |-> out.rows]
  BY <1>1 DEF ProcType
<1>6. /\ out.gate \in [Vaults -> RunIds \cup {NoRun}] /\ out.gateQ \in [Vaults -> Seq(RunIds)]
      /\ out.permit \in [RunIds -> Nat]
  BY <1>2, <1>4 DEF ProcType
<1>7. out \in ProcType
  BY <1>3, <1>4, <1>5, <1>6 DEF ProcType
<1>8. out.gate[v] = g /\ \A u \in Vaults \ {v} : out.gate[u] = p.gate[u]
  BY <1>4 DEF ProcType
<1>9. QED
  BY <1>4, <1>7, <1>8 DEF g, ss

EndRun(out, tbl, r, s, stage) == [out EXCEPT !.rows = tbl, !.task[r] = s, !.pc = stage]

\* What the end of a run leaves of the process.
LEMMA EndRunFields ==
    ASSUME NEW out \in ProcType, NEW r \in RunIds, NEW tbl \in Tables, NEW s \in TaskStatuses,
           NEW stage \in [RunIds -> Stages], NEW e, e = EndRun(out, tbl, r, s, stage)
    PROVE  /\ e \in ProcType
           /\ e.rows = tbl /\ e.task = [out.task EXCEPT ![r] = s] /\ e.pc = stage
           /\ e.gate = out.gate /\ e.sems = out.sems /\ e.permit = out.permit
<1>1. /\ e.rows = tbl /\ e.task = [out.task EXCEPT ![r] = s] /\ e.pc = stage
      /\ e.gate = out.gate /\ e.gateQ = out.gateQ /\ e.sems = out.sems /\ e.permit = out.permit
  BY DEF ProcType, EndRun
<1>2. e = [task |-> e.task, pc |-> e.pc, gate |-> e.gate, gateQ |-> e.gateQ,
           sems |-> e.sems, permit |-> e.permit, rows |-> e.rows]
  BY DEF ProcType, EndRun
<1>3. e.task \in [RunIds -> TaskStatuses]
  BY <1>1 DEF ProcType
<1>4. e \in ProcType
  BY <1>1, <1>2, <1>3 DEF ProcType
<1>5. QED
  BY <1>1, <1>4

\* Every end of a run, however it ends and wherever it was, leaves the process
\* sound.
LEMMA EndKeeps ==
    ASSUME NEW r \in RunIds, NEW s \in TerminalRunStatuses, NEW t \in Nat,
           Sound(Proc, caller, used),
           pc[r] \in {"gate", "permit", "running"},
           NEW e, e = End(Proc, r, s, t)
    PROVE  Sound(e, caller, used) /\ e.rows = Finalized(rows, r, s, t)
<1> DEFINE v     == Vault(r)
           rest   == LeaveLanes(Proc, r, v)
           tbl   == Finalized(rows, r, s, t)
           stage2 == [x \in RunIds |-> IF x = r THEN "ended" ELSE IF x = caller[r] THEN "running" ELSE pc[x]]
<1>1. /\ Proc.task = task /\ Proc.pc = pc /\ Proc.gate = gate /\ Proc.gateQ = gateQ
      /\ Proc.sems = sems /\ Proc.permit = permit /\ Proc.rows = rows
  BY DEF Proc
<1>2. /\ Proc \in ProcType
      /\ rows \in Tables /\ task \in [RunIds -> TaskStatuses] /\ pc \in [RunIds -> Stages]
      /\ gate \in [Vaults -> RunIds \cup {NoRun}]
      /\ sems \in Seq(Semaphores) /\ permit \in [RunIds -> Nat]
  <2>1. Proc \in ProcType
    BY DEF Sound
  <2>2. QED
    BY <1>1, <2>1 DEF ProcType
<1>3. e = EndRun(rest, tbl, r, s, stage2)
  BY <1>1 DEF End, EndRun
<1>4. v = VaultOf[rows[r].workflow] /\ v \in Vaults
  BY <1>2, GovernorAssumption DEF Vault, Tables, RowType
<1>5. /\ \A x \in RunIds \ {r} : stage2[x] = pc[x] \/ (stage2[x] = "running" /\ pc[x] = "calling")
      /\ stage2 \in [RunIds -> Stages] /\ stage2[r] = "ended"
      /\ \A x \in RunIds \ {r} : x # caller[r] => stage2[x] = pc[x]
  <2>1. caller[r] # NoRun => pc[caller[r]] = "calling"
    BY <1>1 DEF Sound, Called, Active
  <2>2. QED
    BY <1>2, <2>1, GovernorAssumption DEF Sound, Stages
<1>6. /\ Rewrites(rows, tbl, r)
      /\ IF IsActive(rows, r) THEN IsPresent(tbl, r) => tbl[r].status = s ELSE tbl = rows
  BY <1>2, FinalizedRewrites
<1>7. Balanced(sems, permit, pc) /\ Gated(Proc) /\ Recounted(Proc) /\ Called(pc, caller) /\ Unused(Proc, caller, used)
  BY <1>1 DEF Sound
<1> DEFINE per2 == [permit EXCEPT ![r] = 0]
           ss2  == Left(sems, permit, pc, r)
<1>8. rest = LeaveLanes(Proc, r, v) /\ per2 = [permit EXCEPT ![r] = 0] /\ ss2 = Left(sems, permit, pc, r)
  OBVIOUS
<1> HIDE DEF v, rest, tbl, stage2, per2, ss2
<1>9. ss2 \in Seq(Semaphores) /\ Balanced(ss2, per2, stage2)
  <2>1. sems \in Seq(Semaphores) /\ permit \in [RunIds -> Nat] /\ pc \in [RunIds -> Stages] /\ Balanced(sems, permit, pc)
    BY <1>2, <1>7
  <2>2. ss2 = Left(sems, permit, pc, r) /\ per2 = [permit EXCEPT ![r] = 0]
    BY <1>8
  <2>3. /\ stage2 \in [RunIds -> Stages] /\ stage2[r] = "ended"
        /\ \A x \in RunIds \ {r} : stage2[x] = pc[x] \/ (stage2[x] = "running" /\ pc[x] = "calling")
    BY <1>5
  <2>4. QED
    BY <2>1, <2>2, <2>3, VacatedBalanced, Zenon
<1>10. /\ rest \in ProcType
       /\ rest.gate[v] = (IF gate[v] = r THEN NoRun ELSE gate[v])
       /\ \A u \in Vaults \ {v} : rest.gate[u] = gate[u]
       /\ rest.sems = ss2 /\ rest.permit = per2
  <2>1. Left(Proc.sems, Proc.permit, Proc.pc, r) = ss2
    BY <1>1, <1>8
  <2>2. /\ rest \in ProcType
        /\ rest.gate[v] = (IF Proc.gate[v] = r THEN NoRun ELSE Proc.gate[v])
        /\ \A u \in Vaults \ {v} : rest.gate[u] = Proc.gate[u]
        /\ rest.sems = Left(Proc.sems, Proc.permit, Proc.pc, r)
        /\ rest.permit = [Proc.permit EXCEPT ![r] = 0]
    <3>1. Proc \in ProcType /\ v \in Vaults /\ rest = LeaveLanes(Proc, r, v)
      BY <1>2, <1>4, <1>8
    <3>2. Left(Proc.sems, Proc.permit, Proc.pc, r) \in Seq(Semaphores)
      BY <1>9, <2>1
    <3>3. QED
      BY <3>1, <3>2, LeaveLanesFields, SMTT(30)
  <2>3. QED
    BY <1>1, <1>8, <2>1, <2>2
<1>11. rest.task = task
  BY <1>1, <1>2, <1>8 DEF LeaveLanes, ProcType
<1>12. tbl \in Tables /\ s \in TaskStatuses
  BY <1>6 DEF Rewrites, TaskStatuses
<1>13. /\ e \in ProcType
       /\ e.rows = tbl /\ e.task = [task EXCEPT ![r] = s] /\ e.pc = stage2
       /\ e.gate = rest.gate /\ e.sems = ss2 /\ e.permit = per2
  BY <1>3, <1>5, <1>10, <1>11, <1>12, EndRunFields
<1>14. \A x \in RunIds : e.task[x] = IF x = r THEN s ELSE task[x]
  BY <1>2, <1>13
<1>15. /\ \A x \in RunIds : tbl[x].workflow = rows[x].workflow
       /\ \A x \in RunIds \ {r} : tbl[x] = rows[x] \/ ~IsPresent(tbl, x)
  BY <1>6 DEF Rewrites
<1>16. Gated(e)
  <2> SUFFICES ASSUME NEW x \in RunIds, stage2[x] \in {"permit", "running", "calling"}
               PROVE  e.gate[VaultOf[tbl[x].workflow]] = x
    BY <1>13 DEF Gated
  <2>1. x # r /\ pc[x] \in {"permit", "running", "calling"}
    BY <1>5
  <2>2. gate[VaultOf[rows[x].workflow]] = x /\ VaultOf[rows[x].workflow] \in Vaults
    BY <1>1, <1>2, <1>7, <2>1, GovernorAssumption DEF Gated, Tables, RowType
  <2>3. QED
    BY <1>10, <1>13, <1>15, <2>1, <2>2
<1>17. Recounted(e)
  <2> SUFFICES ASSUME NEW x \in RunIds
               PROVE  /\ stage2[x] \in {"gate", "permit"} => e.task[x] = "queued"
                      /\ stage2[x] \in {"running", "calling"} => e.task[x] = "running"
                      /\ (e.task[x] \notin {"none", "lost"} /\ IsPresent(tbl, x)) => tbl[x].status = e.task[x]
    BY <1>13 DEF Recounted
  <2>1. CASE x = r
    <3>1. IsPresent(rows, r) => IsActive(rows, r)
      BY <1>1, <1>7 DEF Recounted, IsPresent, IsActive, ActiveRunStatuses
    <3>2. IsPresent(tbl, r) => tbl[r].status = s
      BY <1>6, <3>1
    <3>3. QED
      BY <1>5, <1>14, <2>1, <3>2
  <2>2. CASE x # r
    BY <1>1, <1>5, <1>7, <1>14, <1>15, <2>2 DEF Recounted, IsPresent
  <2>3. QED
    BY <2>1, <2>2
<1>18. Called(stage2, caller)
  <2>1. \A x \in RunIds : stage2[x] \in Active => x # r /\ pc[x] \in Active
    BY <1>5 DEF Active
  <2>2. ASSUME NEW x \in RunIds, stage2[x] \in Active, caller[x] # NoRun PROVE stage2[caller[x]] = "calling"
    <3>1. pc[caller[x]] = "calling" /\ caller[x] \in RunIds
      BY <1>7, <2>1, <2>2 DEF Called, Sound
    <3>2. caller[x] # r
      BY <3>1
    <3>3. caller[x] # caller[r]
      BY <1>7, <2>1, <2>2 DEF Called, Active
    <3>4. QED
      BY <1>5, <3>1, <3>2, <3>3
  <2>3. QED
    BY <1>7, <2>1, <2>2 DEF Called
<1>19. Unused(e, caller, used)
  <2> SUFFICES ASSUME NEW x \in RunIds \ used
               PROVE  stage2[x] = "none" /\ e.task[x] = "none" /\ ~IsPresent(tbl, x) /\ per2[x] = 0 /\ caller[x] = NoRun
    BY <1>13 DEF Unused
  <2>1. pc[x] = "none" /\ task[x] = "none" /\ ~IsPresent(rows, x) /\ permit[x] = 0 /\ caller[x] = NoRun
    BY <1>1, <1>7 DEF Unused
  <2>2. x # r
    BY <2>1
  <2>3. QED
    BY <1>2, <1>5, <1>8, <1>14, <1>15, <2>1, <2>2 DEF IsPresent
<1>20. QED
  BY <1>9, <1>13, <1>16, <1>17, <1>18, <1>19 DEF Sound, tbl

-----------------------------------------------------------------------------
(***************************************************************************)
(* The actions.                                                            *)
(***************************************************************************)

\* The variables are those of the record.
LEMMA ProcFields ==
    ASSUME Sound(Proc, caller, used)
    PROVE  /\ Proc.task = task /\ Proc.pc = pc /\ Proc.gate = gate /\ Proc.gateQ = gateQ
           /\ Proc.sems = sems /\ Proc.permit = permit /\ Proc.rows = rows
           /\ Proc \in ProcType
           /\ rows \in Tables /\ task \in [RunIds -> TaskStatuses] /\ pc \in [RunIds -> Stages]
           /\ gate \in [Vaults -> RunIds \cup {NoRun}] /\ gateQ \in [Vaults -> Seq(RunIds)]
           /\ sems \in Seq(Semaphores) /\ permit \in [RunIds -> Nat]
           /\ caller \in [RunIds -> RunIds \cup {NoRun}]
<1>1. /\ Proc.task = task /\ Proc.pc = pc /\ Proc.gate = gate /\ Proc.gateQ = gateQ
      /\ Proc.sems = sems /\ Proc.permit = permit /\ Proc.rows = rows
  BY DEF Proc
<1>2. Proc \in ProcType /\ caller \in [RunIds -> RunIds \cup {NoRun}]
  BY DEF Sound
<1>3. QED
  BY <1>1, <1>2 DEF ProcType

\* The process becomes the record.
LEMMA Becomes ==
    ASSUME NEW e \in ProcType, Become(e)
    PROVE  Proc' = e /\ rows' = e.rows
<1>1. /\ task' = e.task /\ pc' = e.pc /\ gate' = e.gate /\ gateQ' = e.gateQ
      /\ sems' = e.sems /\ permit' = e.permit /\ rows' = e.rows
  BY DEF Become
<1>2. Proc' = [task |-> e.task, pc |-> e.pc, gate |-> e.gate, gateQ |-> e.gateQ,
               sems |-> e.sems, permit |-> e.permit, rows |-> e.rows]
  BY <1>1 DEF Proc
<1>3. e = [task |-> e.task, pc |-> e.pc, gate |-> e.gate, gateQ |-> e.gateQ,
           sems |-> e.sems, permit |-> e.permit, rows |-> e.rows]
  BY DEF ProcType
<1>4. QED
  BY <1>1, <1>2, <1>3

Arrive(p, r, tbl) == [p EXCEPT !.task[r] = "queued", !.rows = tbl, !.pc[r] = "gate"]
Enqueue(p, v, q) == [p EXCEPT !.gateQ[v] = q]

\* A run that was not there before comes to the gate of its vault.
LEMMA ArriveKeeps ==
    ASSUME NEW p \in ProcType, NEW r \in RunIds, NEW w \in Workflows,
           p.pc[r] = "none", p.permit[r] = 0,
           Gated(p), Recounted(p), Balanced(p.sems, p.permit, p.pc),
           NEW a, a = Arrive(p, r, Created(p.rows, r, w))
    PROVE  /\ a \in ProcType /\ Gated(a) /\ Recounted(a) /\ Balanced(a.sems, a.permit, a.pc)
           /\ a.pc = [p.pc EXCEPT ![r] = "gate"] /\ a.gate = p.gate /\ a.gateQ = p.gateQ
           /\ a.rows[r].workflow = w /\ a.rows[r].completed = 0
           /\ \A x \in RunIds \ {r} : a.task[x] = p.task[x] /\ a.permit[x] = p.permit[x] /\ a.rows[x] = p.rows[x]
<1> DEFINE tbl == Created(p.rows, r, w)
<1>1. a = Arrive(p, r, tbl)
  OBVIOUS
<1>2. p.rows \in Tables /\ p.task \in [RunIds -> TaskStatuses] /\ p.pc \in [RunIds -> Stages] /\ p.permit \in [RunIds -> Nat]
  BY DEF ProcType
<1>3. /\ tbl \in Tables
      /\ \A x \in RunIds \ {r} : tbl[x] = p.rows[x]
      /\ tbl[r].workflow = w /\ tbl[r].status = "queued" /\ tbl[r].completed = 0
  <2>1. RowAdded(tbl, p.rows, r, w)
    BY <1>2, CreatesOne
  <2>2. QED
    BY <2>1 DEF RowAdded
<1> HIDE DEF tbl
<1>4. /\ a.task = [p.task EXCEPT ![r] = "queued"] /\ a.pc = [p.pc EXCEPT ![r] = "gate"]
      /\ a.gate = p.gate /\ a.gateQ = p.gateQ /\ a.sems = p.sems /\ a.permit = p.permit /\ a.rows = tbl
  BY <1>1 DEF Arrive, ProcType
<1>5. a = [task |-> a.task, pc |-> a.pc, gate |-> a.gate, gateQ |-> a.gateQ,
           sems |-> a.sems, permit |-> a.permit, rows |-> a.rows]
  BY <1>1 DEF Arrive, ProcType
<1>6. a.task \in [RunIds -> TaskStatuses] /\ a.pc \in [RunIds -> Stages]
  BY <1>2, <1>4 DEF TaskStatuses, ActiveRunStatuses, Stages
<1>7. a \in ProcType
  BY <1>3, <1>4, <1>5, <1>6 DEF ProcType
<1>8. \A x \in RunIds : a.task[x] = (IF x = r THEN "queued" ELSE p.task[x]) /\ a.pc[x] = (IF x = r THEN "gate" ELSE p.pc[x])
  BY <1>2, <1>4
<1>9. Gated(a)
  BY <1>3, <1>4, <1>8 DEF Gated
<1>10. Recounted(a)
  <2> SUFFICES ASSUME NEW x \in RunIds
               PROVE  /\ a.pc[x] \in {"gate", "permit"} => a.task[x] = "queued"
                      /\ a.pc[x] \in {"running", "calling"} => a.task[x] = "running"
                      /\ (a.task[x] \notin {"none", "lost"} /\ IsPresent(tbl, x)) => tbl[x].status = a.task[x]
    BY <1>4 DEF Recounted
  <2>1. CASE x = r
    BY <1>3, <1>8, <2>1
  <2>2. CASE x # r
    BY <1>3, <1>8, <2>2 DEF Recounted, IsPresent
  <2>3. QED
    BY <2>1, <2>2
<1>11. Balanced(a.sems, a.permit, a.pc)
  <2>1. \A x \in RunIds : (a.pc[x] = "permit" <=> p.pc[x] = "permit") /\ (a.pc[x] = "gate" => p.permit[x] = 0)
    BY <1>8 DEF Balanced
  <2>2. \A m \in DOMAIN p.sems : Holding(a.permit, a.pc, m) = Holding(p.permit, p.pc, m)
    BY <1>4, <2>1 DEF Holding
  <2>3. QED
    BY <1>4, <2>1, <2>2 DEF Balanced
<1>12. QED
  BY <1>3, <1>4, <1>7, <1>8, <1>9, <1>10, <1>11

\* The process with r admitted to it: nobody else is concerned.
Admitted(e, r) ==
    /\ e \in ProcType /\ Gated(e) /\ Recounted(e) /\ Balanced(e.sems, e.permit, e.pc)
    /\ \E stage \in {"gate", "permit", "running"} : e.pc = [pc EXCEPT ![r] = stage]
    /\ e.rows[r].completed = 0
    /\ \A x \in RunIds \ {r} : e.task[x] = task[x] /\ e.permit[x] = permit[x] /\ e.rows[x] = rows[x]

\* An admission of a new run keeps what is said of the process.
LEMMA AdmitKeeps ==
    ASSUME Sound(Proc, caller, used), setting \in Nat,
           NEW r \in RunIds \ used, NEW w \in Workflows,
           NEW e, e = Admit(r, w)
    PROVE  Admitted(e, r)
<1> DEFINE v == VaultOf[w]
           a == Arrive(Proc, r, Created(Proc.rows, r, w))
           q == Append(gateQ[v], r)
<1>1. /\ Proc.task = task /\ Proc.pc = pc /\ Proc.gate = gate /\ Proc.gateQ = gateQ
      /\ Proc.sems = sems /\ Proc.permit = permit /\ Proc.rows = rows
      /\ Proc \in ProcType
      /\ gateQ \in [Vaults -> Seq(RunIds)] /\ pc \in [RunIds -> Stages]
  BY ProcFields
<1>2. v \in Vaults /\ q \in Seq(RunIds)
  BY <1>1, GovernorAssumption
<1>3. e = IF GateFree(v) THEN EnterGate(a, r, v) ELSE Enqueue(a, v, q)
  BY <1>1 DEF Admit, Arrive, Enqueue
<1>4. pc[r] = "none" /\ permit[r] = 0
  BY <1>1 DEF Sound, Unused
<1>5. /\ Gated(Proc) /\ Recounted(Proc) /\ Balanced(Proc.sems, Proc.permit, Proc.pc)
      /\ Proc.pc[r] = "none" /\ Proc.permit[r] = 0
  BY <1>1, <1>4 DEF Sound
<1>6. a = Arrive(Proc, r, Created(Proc.rows, r, w)) /\ v = VaultOf[w]
  OBVIOUS
<1> HIDE DEF a, v, q
<1>7. /\ a \in ProcType /\ Gated(a) /\ Recounted(a) /\ Balanced(a.sems, a.permit, a.pc)
      /\ a.pc = [Proc.pc EXCEPT ![r] = "gate"] /\ a.gate = Proc.gate /\ a.gateQ = Proc.gateQ
      /\ a.rows[r].workflow = w /\ a.rows[r].completed = 0
      /\ \A x \in RunIds \ {r} :
            a.task[x] = Proc.task[x] /\ a.permit[x] = Proc.permit[x] /\ a.rows[x] = Proc.rows[x]
  <2>1. Proc \in ProcType /\ a = Arrive(Proc, r, Created(Proc.rows, r, w))
    BY <1>1, <1>6
  <2>2. QED
    BY <1>5, <2>1, ArriveKeeps
<1>8. CASE GateFree(v)
  <2>1. e = EnterGate(a, r, v)
    BY <1>3, <1>8
  <2>2. a.pc[r] = "gate" /\ v = VaultOf[a.rows[r].workflow] /\ a.gate[v] = NoRun
    BY <1>1, <1>6, <1>7, <1>8 DEF GateFree
  <2>3. /\ e \in ProcType /\ Gated(e) /\ Recounted(e) /\ Balanced(e.sems, e.permit, e.pc)
        /\ \E stage \in {"permit", "running"} : e.pc = [a.pc EXCEPT ![r] = stage]
        /\ Touches(e, a, r)
    BY <1>2, <1>7, <2>1, <2>2, EnterGateKeeps
  <2>4. \E stage \in {"permit", "running"} : e.pc = [pc EXCEPT ![r] = stage]
    BY <1>1, <1>7, <2>3
  <2>5. QED
    BY <1>1, <1>7, <2>3, <2>4 DEF Admitted, Touches
<1>9. CASE ~GateFree(v)
  <2>1. e = Enqueue(a, v, q)
    BY <1>3, <1>9
  <2>2. /\ e.task = a.task /\ e.pc = a.pc /\ e.gate = a.gate /\ e.gateQ = [a.gateQ EXCEPT ![v] = q]
        /\ e.sems = a.sems /\ e.permit = a.permit /\ e.rows = a.rows
    BY <1>7, <2>1 DEF Enqueue, ProcType
  <2>3. e = [task |-> e.task, pc |-> e.pc, gate |-> e.gate, gateQ |-> e.gateQ,
             sems |-> e.sems, permit |-> e.permit, rows |-> e.rows]
    BY <1>7, <2>1 DEF Enqueue, ProcType
  <2>4. e.gateQ \in [Vaults -> Seq(RunIds)]
    BY <1>1, <1>2, <1>7, <2>2
  <2>5. e \in ProcType
    BY <1>7, <2>2, <2>3, <2>4 DEF ProcType
  <2>6. Gated(e) /\ Recounted(e)
    BY <1>7, <2>2 DEF Gated, Recounted
  <2>7. QED
    BY <1>1, <1>7, <2>2, <2>5, <2>6 DEF Admitted
<1>10. QED
  BY <1>8, <1>9

\* The step keeps the latest outcome of every workflow.
LatestKept == \A i \in RunIds : IsLatest(rows, i) => Answered(rows, rows', i)

\* A step that changes one row at most, and one that has no outcome, keeps it.
LEMMA KeptAside ==
    ASSUME NEW r \in RunIds, ~IsTerminal(rows, r), \A x \in RunIds \ {r} : rows'[x] = rows[x]
    PROVE  LatestKept
  BY DEF LatestKept, Answered, IsLatest

\* A run that nobody called is admitted.
LEMMA AdmittedSound ==
    ASSUME Sound(Proc, caller, used), setting \in Nat,
           NEW r \in RunIds \ used, NEW w \in Workflows,
           NEW e, e = Admit(r, w)
    PROVE  Sound(e, caller, used \cup {r})
<1>1. /\ e \in ProcType /\ Gated(e) /\ Recounted(e) /\ Balanced(e.sems, e.permit, e.pc)
      /\ \E stage \in {"gate", "permit", "running"} : e.pc = [pc EXCEPT ![r] = stage]
      /\ \A x \in RunIds \ {r} : e.task[x] = task[x] /\ e.permit[x] = permit[x] /\ e.rows[x] = rows[x]
  <2>1. Admitted(e, r)
    BY AdmitKeeps
  <2>2. QED
    BY <2>1 DEF Admitted
<1>2. /\ Proc.task = task /\ Proc.pc = pc /\ Proc.permit = permit /\ Proc.rows = rows
      /\ pc \in [RunIds -> Stages] /\ caller \in [RunIds -> RunIds \cup {NoRun}]
  BY ProcFields
<1>3. Called(pc, caller) /\ Unused(Proc, caller, used)
  BY <1>2 DEF Sound
<1>4. pc[r] = "none" /\ caller[r] = NoRun
  BY <1>2, <1>3 DEF Unused
<1>5. \A x \in RunIds \ {r} : e.pc[x] = pc[x]
  BY <1>1, <1>2
<1>6. Called(e.pc, caller)
  <2>1. ASSUME NEW x \in RunIds, e.pc[x] \in Active, caller[x] # NoRun
        PROVE  x # r /\ pc[x] \in Active /\ e.pc[caller[x]] = "calling"
    <3>1. x # r
      BY <1>4, <2>1
    <3>2. pc[x] \in Active
      BY <1>5, <2>1, <3>1
    <3>3. pc[caller[x]] = "calling" /\ caller[x] \in RunIds
      BY <1>2, <1>3, <2>1, <3>2 DEF Called
    <3>4. QED
      BY <1>4, <1>5, <3>1, <3>2, <3>3
  <2>2. QED
    BY <1>3, <2>1 DEF Called
<1>7. Unused(e, caller, used \cup {r})
  BY <1>1, <1>2, <1>3, <1>5 DEF Unused, IsPresent
<1>8. QED
  BY <1>1, <1>2, <1>6, <1>7 DEF Sound

\* The script of c waits for the run r that it has just called.
LEMMA CallingSound ==
    ASSUME NEW e, NEW ca, NEW us, Sound(e, ca, us), NEW r \in us, r \in RunIds, NEW c \in us, c \in RunIds,
           ca[r] = NoRun, e.pc[c] = "running", c # r,
           \A x \in RunIds : e.pc[x] \in Active => ca[x] # c,
           NEW f, f = [e EXCEPT !.pc[c] = "calling"],
           NEW ca2, ca2 = [ca EXCEPT ![r] = c]
    PROVE  Sound(f, ca2, us)
<1>1. e \in ProcType /\ ca \in [RunIds -> RunIds \cup {NoRun}] /\ e.pc \in [RunIds -> Stages]
  BY DEF Sound, ProcType
<1>2. /\ f.task = e.task /\ f.pc = [e.pc EXCEPT ![c] = "calling"] /\ f.gate = e.gate /\ f.gateQ = e.gateQ
      /\ f.sems = e.sems /\ f.permit = e.permit /\ f.rows = e.rows
  BY <1>1 DEF ProcType
<1>3. f = [task |-> f.task, pc |-> f.pc, gate |-> f.gate, gateQ |-> f.gateQ,
           sems |-> f.sems, permit |-> f.permit, rows |-> f.rows]
  BY <1>1 DEF ProcType
<1>4. f.pc \in [RunIds -> Stages]
  BY <1>1, <1>2 DEF Stages
<1>5. f \in ProcType
  BY <1>1, <1>2, <1>3, <1>4 DEF ProcType
<1>6. \A x \in RunIds : f.pc[x] = (IF x = c THEN "calling" ELSE e.pc[x]) /\ ca2[x] = (IF x = r THEN c ELSE ca[x])
  BY <1>1, <1>2
<1>7. ca2 \in [RunIds -> RunIds \cup {NoRun}]
  BY <1>1
<1>8. Gated(f) /\ Recounted(f)
  <2>1. Gated(e) /\ Recounted(e)
    BY DEF Sound
  <2>2. Gated(f)
    BY <1>2, <1>6, <2>1 DEF Gated
  <2>3. Recounted(f)
    BY <1>2, <1>6, <2>1 DEF Recounted
  <2>4. QED
    BY <2>2, <2>3
<1>9. Balanced(f.sems, f.permit, f.pc)
  <2>1. Balanced(e.sems, e.permit, e.pc)
    BY DEF Sound
  <2>2. \A m \in DOMAIN e.sems : Holding(f.permit, f.pc, m) = Holding(e.permit, e.pc, m)
    BY <1>2, <1>6 DEF Holding
  <2>3. QED
    BY <1>2, <1>6, <2>1, <2>2 DEF Balanced
<1>10. Called(f.pc, ca2)
  <2>1. Called(e.pc, ca)
    BY DEF Sound
  <2>2. ASSUME NEW x \in RunIds, f.pc[x] \in Active PROVE e.pc[x] \in Active
    BY <1>6, <2>2 DEF Active
  <2>3. ASSUME NEW x \in RunIds, f.pc[x] \in Active, ca2[x] # NoRun PROVE f.pc[ca2[x]] = "calling"
    <3>1. CASE x = r
      BY <1>6, <3>1
    <3>2. CASE x # r
      <4>1. ca2[x] = ca[x] /\ e.pc[x] \in Active
        BY <1>6, <2>2, <2>3, <3>2
      <4>2. e.pc[ca[x]] = "calling" /\ ca[x] \in RunIds
        BY <1>1, <2>1, <2>3, <4>1 DEF Called
      <4>3. QED
        BY <1>6, <4>1, <4>2
    <3>3. QED
      BY <3>1, <3>2
  <2>4. ASSUME NEW x \in RunIds, NEW y \in RunIds, f.pc[x] \in Active, f.pc[y] \in Active,
               ca2[x] = ca2[y], ca2[x] # NoRun
        PROVE  x = y
    <3>1. e.pc[x] \in Active /\ e.pc[y] \in Active
      BY <2>2, <2>4
    <3>2. ca[x] # c /\ ca[y] # c
      BY <3>1
    <3>3. QED
      BY <1>6, <2>1, <2>4, <3>1, <3>2 DEF Called
  <2>5. QED
    BY <2>3, <2>4 DEF Called
<1>11. Unused(f, ca2, us)
  <2>1. Unused(e, ca, us)
    BY DEF Sound
  <2>2. QED
    BY <1>2, <1>6, <2>1 DEF Unused
<1>12. QED
  BY <1>5, <1>7, <1>8, <1>9, <1>10, <1>11 DEF Sound

\* An attempt from outside.
LEMMA ExecuteIInv ==
    ASSUME IInv, NEW r \in RunIds, NEW w \in Workflows, Execute(r, w)
    PROVE  IInv' /\ LatestKept
<1> DEFINE e == Admit(r, w)
<1>1. r \in RunIds \ used /\ Become(e) /\ used' = used \cup {r}
      /\ UNCHANGED <<now, caller, cancelled, setting>>
  BY DEF Execute, NextRunId
<1>2. e = Admit(r, w)
  OBVIOUS
<1> HIDE DEF e
<1>3. Sound(Proc, caller, used) /\ setting \in Nat /\ now \in Nat /\ Dated(rows, now) /\ cancelled \in [RunIds -> BOOLEAN]
  BY DEF IInv
<1>4. Sound(e, caller, used \cup {r})
  BY <1>1, <1>2, <1>3, AdmittedSound
<1>5. /\ e \in ProcType /\ e.rows[r].completed = 0
      /\ \A x \in RunIds \ {r} : e.rows[x] = rows[x]
  <2>1. Admitted(e, r)
    BY <1>1, <1>2, <1>3, AdmitKeeps
  <2>2. QED
    BY <2>1 DEF Admitted
<1>6. Proc' = e /\ rows' = e.rows
  BY <1>1, <1>5, Becomes
<1>7. Dated(rows', now)
  BY <1>3, <1>5, <1>6 DEF Dated
<1>8. ~IsTerminal(rows, r)
  BY <1>1, <1>3, ProcFields DEF Sound, Unused, IsTerminal, IsPresent, TerminalRunStatuses
<1>9. LatestKept
  BY <1>1, <1>5, <1>6, <1>8, KeptAside
<1>10. QED
  BY <1>1, <1>3, <1>4, <1>6, <1>7, <1>9 DEF IInv

\* An attempt from within a workflow.
LEMMA ExecuteNestedIInv ==
    ASSUME IInv, NEW c \in RunIds, NEW r \in RunIds, NEW w \in Workflows, ExecuteNested(c, r, w)
    PROVE  IInv' /\ LatestKept
<1> DEFINE e == Admit(r, w)
           f == [e EXCEPT !.pc[c] = "calling"]
<1>1. /\ r \in RunIds \ used /\ pc[c] = "running" /\ Become(f) /\ used' = used \cup {r}
      /\ caller' = [caller EXCEPT ![r] = c]
      /\ UNCHANGED <<now, cancelled, setting>>
  BY DEF ExecuteNested, NextRunId
<1>2. e = Admit(r, w) /\ f = [e EXCEPT !.pc[c] = "calling"]
  OBVIOUS
<1> HIDE DEF e, f
<1>3. Sound(Proc, caller, used) /\ setting \in Nat /\ now \in Nat /\ Dated(rows, now) /\ cancelled \in [RunIds -> BOOLEAN]
  BY DEF IInv
<1>4. Sound(e, caller, used \cup {r})
  BY <1>1, <1>2, <1>3, AdmittedSound
<1>5. /\ e \in ProcType /\ e.rows[r].completed = 0
      /\ \A x \in RunIds \ {r} : e.rows[x] = rows[x]
      /\ \E stage \in {"gate", "permit", "running"} : e.pc = [pc EXCEPT ![r] = stage]
  <2>1. Admitted(e, r)
    BY <1>1, <1>2, <1>3, AdmitKeeps
  <2>2. QED
    BY <2>1 DEF Admitted
<1>6. Proc.pc = pc /\ pc \in [RunIds -> Stages] /\ Proc.permit = permit /\ Proc.task = task
  BY <1>3, ProcFields
<1>7. Unused(Proc, caller, used) /\ Called(pc, caller)
  BY <1>3, <1>6 DEF Sound
<1>8. pc[r] = "none" /\ caller[r] = NoRun
  BY <1>1, <1>6, <1>7 DEF Unused
<1>9. c \in used
  BY <1>1, <1>6, <1>7 DEF Unused
<1>10. \A x \in RunIds \ {r} : e.pc[x] = pc[x]
  BY <1>5, <1>6
<1>11. c # r /\ e.pc[c] = "running"
  BY <1>1, <1>8, <1>10
<1>12. ASSUME NEW x \in RunIds, e.pc[x] \in Active PROVE caller[x] # c
  <2>1. CASE x = r
    <3>1. NoRun # c
      BY GovernorAssumption
    <3>2. QED
      BY <1>8, <2>1, <3>1
  <2>2. CASE x # r
    <3>1. pc[x] \in Active
      BY <1>10, <1>12, <2>2
    <3>2. c # NoRun
      BY GovernorAssumption
    <3>3. QED
      BY <1>1, <1>7, <3>1, <3>2 DEF Called
  <2>3. QED
    BY <2>1, <2>2
<1> DEFINE ca2 == [caller EXCEPT ![r] = c]
<1>13. Sound(f, ca2, used \cup {r})
  <2>1. ca2 = [caller EXCEPT ![r] = c] /\ r \in used \cup {r} /\ c \in used \cup {r}
    BY <1>9
  <2> HIDE DEF ca2
  <2>2. QED
    BY <1>2, <1>4, <1>8, <1>11, <1>12, <2>1, CallingSound
<1>14. f \in ProcType /\ f.rows = e.rows
  BY <1>2, <1>5, <1>13 DEF Sound, ProcType
<1>15. Proc' = f /\ rows' = f.rows
  BY <1>1, <1>14, Becomes
<1>16. Dated(rows', now)
  BY <1>3, <1>5, <1>14, <1>15 DEF Dated
<1>17. ~IsTerminal(rows, r)
  BY <1>1, <1>3, ProcFields DEF Sound, Unused, IsTerminal, IsPresent, TerminalRunStatuses
<1>18. LatestKept
  BY <1>5, <1>14, <1>15, <1>17, KeptAside
<1>19. QED
  BY <1>1, <1>3, <1>13, <1>15, <1>16, <1>18 DEF IInv

\* A waiting run that moves on changes nothing about who called whom.
LEMMA MovesOnSound ==
    ASSUME NEW p, NEW ca, NEW us, Sound(p, ca, us), NEW r \in RunIds, p.pc[r] \in {"gate", "permit"},
           NEW stage \in {"permit", "running"},
           NEW e \in ProcType, Gated(e), Recounted(e), Balanced(e.sems, e.permit, e.pc),
           e.pc = [p.pc EXCEPT ![r] = stage], Touches(e, p, r)
    PROVE  Sound(e, ca, us)
<1>1. ca \in [RunIds -> RunIds \cup {NoRun}] /\ p.pc \in [RunIds -> Stages] /\ Called(p.pc, ca) /\ Unused(p, ca, us)
  BY DEF Sound, ProcType
<1>2. \A x \in RunIds : e.pc[x] = IF x = r THEN stage ELSE p.pc[x]
  BY <1>1
<1>3. Called(e.pc, ca)
  <2>1. \A x \in RunIds : e.pc[x] \in Active => p.pc[x] \in Active
    BY <1>2 DEF Active
  <2>2. ASSUME NEW x \in RunIds, e.pc[x] \in Active, ca[x] # NoRun PROVE e.pc[ca[x]] = "calling"
    <3>1. p.pc[ca[x]] = "calling" /\ ca[x] \in RunIds
      BY <1>1, <2>1, <2>2 DEF Called
    <3>2. QED
      BY <1>2, <3>1
  <2>3. QED
    BY <1>1, <2>1, <2>2 DEF Called
<1>4. Unused(e, ca, us)
  BY <1>1, <1>2 DEF Unused, Touches, IsPresent
<1>5. QED
  BY <1>1, <1>3, <1>4 DEF Sound

\* A run that waits has no outcome yet.
LEMMA WaitingUndecided ==
    ASSUME Sound(Proc, caller, used), NEW r \in RunIds, pc[r] \in {"gate", "permit"}
    PROVE  ~IsTerminal(rows, r)
<1>1. Proc.pc = pc /\ Proc.rows = rows /\ Proc.task = task /\ Recounted(Proc)
  BY ProcFields DEF Sound
<1>2. rows[r].status = "absent" \/ rows[r].status = "queued"
  BY <1>1 DEF Recounted, IsPresent
<1>3. QED
  BY <1>2 DEF IsTerminal, TerminalRunStatuses

\* The lock passes on.
LEMMA GateGrantedIInv ==
    ASSUME IInv, NEW r \in RunIds, GateGranted(r)
    PROVE  IInv' /\ LatestKept
<1> DEFINE v == Vault(r)
           e == EnterGate(Proc, r, v)
<1>1. /\ pc[r] = "gate" /\ gate[v] = NoRun /\ Become(e)
      /\ UNCHANGED <<used, now, caller, cancelled, setting>>
  BY DEF GateGranted
<1>2. Sound(Proc, caller, used) /\ setting \in Nat /\ now \in Nat /\ Dated(rows, now) /\ cancelled \in [RunIds -> BOOLEAN]
  BY DEF IInv
<1>3. /\ Proc.pc = pc /\ Proc.gate = gate /\ Proc.rows = rows /\ Proc \in ProcType /\ rows \in Tables
  BY <1>2, ProcFields
<1>4. v \in Vaults /\ v = VaultOf[Proc.rows[r].workflow] /\ Proc.gate[v] = NoRun /\ Proc.pc[r] = "gate"
  BY <1>1, <1>3, GovernorAssumption DEF Vault, Tables, RowType
<1>5. e = EnterGate(Proc, r, v)
  OBVIOUS
<1> HIDE DEF v, e
<1>6. /\ e \in ProcType /\ Gated(e) /\ Recounted(e) /\ Balanced(e.sems, e.permit, e.pc)
      /\ \E stage \in {"permit", "running"} : e.pc = [Proc.pc EXCEPT ![r] = stage]
      /\ Touches(e, Proc, r)
  <2>1. Gated(Proc) /\ Recounted(Proc) /\ Balanced(Proc.sems, Proc.permit, Proc.pc)
    BY <1>2 DEF Sound
  <2>2. Proc \in ProcType /\ setting \in Nat
    BY <1>2, <1>3
  <2>3. QED
    BY <1>4, <1>5, <2>1, <2>2, EnterGateKeeps
<1>7. Sound(e, caller, used)
  BY <1>2, <1>4, <1>6, MovesOnSound
<1>8. Proc' = e /\ rows' = e.rows
  BY <1>1, <1>6, Becomes
<1>9. Dated(rows', now)
  BY <1>2, <1>3, <1>6, <1>8 DEF Dated, Touches
<1>10. LatestKept
  <2>1. ~IsTerminal(rows, r)
    BY <1>1, <1>2, WaitingUndecided
  <2>2. \A x \in RunIds \ {r} : rows'[x] = rows[x]
    BY <1>3, <1>6, <1>8 DEF Touches
  <2>3. QED
    BY <2>1, <2>2, KeptAside
<1>11. QED
  BY <1>1, <1>2, <1>7, <1>8, <1>9, <1>10 DEF IInv

\* A permit passes on.
LEMMA PermitGrantedIInv ==
    ASSUME IInv, NEW r \in RunIds, PermitGranted(r)
    PROVE  IInv' /\ LatestKept
<1> DEFINE n   == permit[r]
           sem == sems[n]
           less == [sems EXCEPT ![n] = Semaphore(sem.limit, sem.free - 1, Tail(sem.queue))]
           h   == [Proc EXCEPT !.sems[n] = Semaphore(sem.limit, sem.free - 1, Tail(sem.queue))]
           e   == Begin(h, r)
           stage == [pc EXCEPT ![r] = "running"]
<1>1. /\ pc[r] = "permit" /\ sem.free > 0 /\ sem.queue # <<>> /\ Become(e)
      /\ UNCHANGED <<used, now, caller, cancelled, setting>>
  BY DEF PermitGranted
<1>2. Sound(Proc, caller, used) /\ setting \in Nat /\ now \in Nat /\ Dated(rows, now) /\ cancelled \in [RunIds -> BOOLEAN]
  BY DEF IInv
<1>3. /\ Proc.task = task /\ Proc.pc = pc /\ Proc.gate = gate /\ Proc.gateQ = gateQ
      /\ Proc.sems = sems /\ Proc.permit = permit /\ Proc.rows = rows
      /\ Proc \in ProcType /\ rows \in Tables /\ pc \in [RunIds -> Stages]
      /\ sems \in Seq(Semaphores) /\ permit \in [RunIds -> Nat]
  BY <1>2, ProcFields
<1>4. Gated(Proc) /\ Recounted(Proc) /\ Balanced(sems, permit, pc)
  BY <1>2, <1>3 DEF Sound
<1>5. n \in DOMAIN sems /\ sem = sems[n] /\ sem \in Semaphores
  BY <1>1, <1>3, <1>4 DEF Balanced
<1>6. Tail(sem.queue) \in Seq(RunIds)
  BY <1>1, <1>5 DEF Semaphores
<1>7. /\ less = [sems EXCEPT ![n] = Semaphore(sems[n].limit, sems[n].free - 1, Tail(sem.queue))]
      /\ stage = [pc EXCEPT ![r] = "running"] /\ n = permit[r]
      /\ e = Begin(h, r)
  BY <1>3
<1>8. h = [Proc EXCEPT !.sems = less]
  BY <1>3 DEF ProcType
<1> HIDE DEF n, sem, less, h, e, stage
<1>9. less \in Seq(Semaphores) /\ Balanced(less, permit, stage)
  <2>1. sems[n].free > 0
    BY <1>1, <1>5
  <2>2. permit[r] = n /\ pc[r] = "permit"
    BY <1>1, <1>7
  <2>3. sems \in Seq(Semaphores) /\ permit \in [RunIds -> Nat] /\ pc \in [RunIds -> Stages] /\ Balanced(sems, permit, pc)
    BY <1>3, <1>4
  <2> DEFINE kept == [permit EXCEPT ![r] = n]
  <2>4. /\ less = [sems EXCEPT ![n] = Semaphore(sems[n].limit, sems[n].free - 1, Tail(sem.queue))]
        /\ kept = [permit EXCEPT ![r] = n] /\ stage = [pc EXCEPT ![r] = "running"]
    BY <1>7
  <2>5. n \in DOMAIN sems
    BY <1>5
  <2>6. kept = permit
    BY <2>2, <2>3
  <2> HIDE DEF kept
  <2>7. less \in Seq(Semaphores) /\ Balanced(less, kept, stage)
    BY <1>6, <2>1, <2>2, <2>3, <2>4, <2>5, AcquiredBalanced
  <2>8. QED
    BY <2>6, <2>7
<1>10. /\ h.task = task /\ h.pc = pc /\ h.gate = gate /\ h.gateQ = gateQ /\ h.sems = less /\ h.permit = permit /\ h.rows = rows
       /\ h \in ProcType
  <2>1. /\ h.task = Proc.task /\ h.pc = Proc.pc /\ h.gate = Proc.gate /\ h.gateQ = Proc.gateQ
        /\ h.sems = less /\ h.permit = Proc.permit /\ h.rows = Proc.rows
    BY <1>3, <1>8 DEF ProcType
  <2>2. h \in ProcType
    BY <1>3, <1>8, <1>9 DEF ProcType
  <2>3. QED
    BY <1>3, <2>1, <2>2
<1>11. Gated(h) /\ Recounted(h) /\ h.pc[r] \in {"gate", "permit"} /\ h.gate[VaultOf[h.rows[r].workflow]] = r
  BY <1>1, <1>3, <1>4, <1>10 DEF Gated, Recounted
<1>12. /\ e \in ProcType /\ Gated(e) /\ Recounted(e)
       /\ e.sems = h.sems /\ e.permit = h.permit
       /\ e.pc = [h.pc EXCEPT ![r] = "running"]
       /\ Touches(e, h, r)
  <2>1. h \in ProcType /\ e = Begin(h, r)
    BY <1>7, <1>10
  <2>2. QED
    BY <1>11, <2>1, BeginKeeps
<1>13. Balanced(e.sems, e.permit, e.pc) /\ e.pc = [Proc.pc EXCEPT ![r] = "running"] /\ Touches(e, Proc, r)
  BY <1>3, <1>7, <1>9, <1>10, <1>12 DEF Touches
<1>14. Sound(e, caller, used)
  <2>1. Proc.pc[r] \in {"gate", "permit"}
    BY <1>1, <1>3
  <2>2. QED
    BY <1>2, <1>12, <1>13, <2>1, MovesOnSound
<1>15. Proc' = e /\ rows' = e.rows
  BY <1>1, <1>12, Becomes
<1>16. Dated(rows', now)
  BY <1>2, <1>3, <1>13, <1>15 DEF Dated, Touches
<1>17. LatestKept
  <2>1. ~IsTerminal(rows, r)
    BY <1>1, <1>2, WaitingUndecided
  <2>2. \A x \in RunIds \ {r} : rows'[x] = rows[x]
    BY <1>3, <1>13, <1>15 DEF Touches
  <2>3. QED
    BY <2>1, <2>2, KeptAside
<1>18. QED
  BY <1>1, <1>2, <1>14, <1>15, <1>16, <1>17 DEF IInv

\* A run ends.
LEMMA EndIInv ==
    ASSUME IInv, NEW r \in RunIds, pc[r] \in {"gate", "permit", "running"}, NEW s \in TerminalRunStatuses,
           TimePasses, Become(End(Proc, r, s, now')),
           UNCHANGED <<used, caller, setting>>, cancelled' \in [RunIds -> BOOLEAN]
    PROVE  IInv' /\ LatestKept
<1> DEFINE t == now + 1
           e == End(Proc, r, s, t)
<1>1. Sound(Proc, caller, used) /\ setting \in Nat /\ now \in Nat /\ Dated(rows, now)
  BY DEF IInv
<1>2. now' = t /\ t \in Nat /\ t > now /\ Become(e) /\ e = End(Proc, r, s, t)
  BY <1>1 DEF TimePasses
<1> HIDE DEF t, e
<1>3. Sound(e, caller, used) /\ e.rows = Finalized(rows, r, s, t)
  BY <1>1, <1>2, EndKeeps
<1>4. Proc' = e /\ rows' = e.rows
  <2>1. e \in ProcType
    BY <1>3 DEF Sound
  <2>2. QED
    BY <1>2, <2>1, Becomes
<1>5. Dated(rows', t)
  <2>1. rows \in Tables
    BY <1>1, ProcFields
  <2>2. /\ Rewrites(rows, rows', r)
        /\ IF IsActive(rows, r) THEN rows'[r].completed \in {0, t} ELSE rows' = rows
    BY <1>2, <1>3, <1>4, <2>1, FinalizedRewrites
  <2>3. ASSUME NEW x \in RunIds PROVE rows'[x].completed <= t
    <3>1. rows[x].completed <= t /\ 0 <= t /\ t <= t
      BY <1>1, <1>2, <2>1 DEF Dated, Tables, RowType
    <3>2. QED
      BY <2>2, <3>1 DEF Rewrites
  <2>4. QED
    BY <2>3 DEF Dated
<1>6. LatestKept
  <2>1. rows \in Tables
    BY <1>1, ProcFields
  <2>2. \A x \in RunIds : rows[x].completed < t
    BY <1>1, <1>2, <2>1 DEF Dated, Tables, RowType
  <2>3. \A i \in RunIds : IsLatest(rows, i) => Answered(rows, Finalized(rows, r, s, t), i)
    BY <1>2, <2>1, <2>2, FinalizedAnswers
  <2>4. QED
    BY <1>3, <1>4, <2>3 DEF LatestKept
<1>7. QED
  BY <1>1, <1>2, <1>3, <1>4, <1>5, <1>6 DEF IInv

\* What a run's end may find: it returned or failed, ran out of time, or was
\* cancelled wherever it was.
LEMMA EndsIInv ==
    ASSUME IInv, NEW r \in RunIds, BodyEnds(r) \/ DeliverCancel(r)
    PROVE  IInv' /\ LatestKept
<1>1. cancelled \in [RunIds -> BOOLEAN]
  BY DEF IInv
<1>2. ASSUME NEW s \in FinalStatuses, Finish(r, s) PROVE IInv' /\ LatestKept
  <2>1. s \in TerminalRunStatuses
    BY StoreAssumption
  <2>2. /\ pc[r] \in {"gate", "permit", "running"} /\ TimePasses /\ Become(End(Proc, r, s, now'))
        /\ UNCHANGED <<used, caller, setting>> /\ cancelled' \in [RunIds -> BOOLEAN]
    BY <1>1, <1>2 DEF Finish
  <2>3. QED
    BY <2>1, <2>2, EndIInv
<1>3. CASE TimeOut(r)
  <2>1. "timed_out" \in TerminalRunStatuses
    BY DEF TerminalRunStatuses
  <2>2. /\ pc[r] \in {"gate", "permit", "running"} /\ TimePasses /\ Become(End(Proc, r, "timed_out", now'))
        /\ UNCHANGED <<used, caller, setting>> /\ cancelled' \in [RunIds -> BOOLEAN]
    BY <1>1, <1>3 DEF TimeOut
  <2>3. QED
    BY <2>1, <2>2, EndIInv
<1>4. CASE DeliverCancel(r)
  <2>1. "cancelled" \in TerminalRunStatuses
    BY DEF TerminalRunStatuses
  <2>2. /\ pc[r] \in {"gate", "permit", "running"} /\ TimePasses /\ Become(End(Proc, r, "cancelled", now'))
        /\ UNCHANGED <<used, caller, setting>>
    BY <1>4 DEF DeliverCancel
  <2>3. cancelled' \in [RunIds -> BOOLEAN]
    <3>1. PICK spread \in SUBSET {caller[r]} : cancelled' = [x \in RunIds |-> x # r /\ (cancelled[x] \/ x \in spread)]
      BY <1>4 DEF DeliverCancel
    <3>2. QED
      BY <3>1
  <2>4. QED
    BY <2>1, <2>2, <2>3, EndIInv
<1>5. QED
  BY <1>2, <1>3, <1>4 DEF BodyEnds

\* A cancellation that is requested, and a setting that is changed, concern
\* neither the lanes nor the rows.
LEMMA AsideIInv ==
    ASSUME IInv, (\E r \in RunIds : Cancel(r)) \/ (\E n \in Limits : ChangeSetting(n)) \/ UNCHANGED govVars
    PROVE  IInv' /\ LatestKept
<1>1. UNCHANGED <<rows, used, now, task, pc, caller, gate, gateQ, sems, permit>>
  BY DEF Cancel, ChangeSetting, govVars, procVars
<1>2. setting' \in Nat
  BY GovernorAssumption DEF Cancel, ChangeSetting, govVars, IInv
<1>3. cancelled' \in [RunIds -> BOOLEAN]
  BY DEF Cancel, ChangeSetting, govVars, procVars, IInv
<1>4. Proc' = Proc
  BY <1>1 DEF Proc
<1>5. LatestKept
  BY <1>1 DEF LatestKept, Answered
<1>6. QED
  BY <1>1, <1>2, <1>3, <1>4, <1>5 DEF IInv

\* The scheduler's listener writes a row of its own.
LEMMA SchedulerEventIInv ==
    ASSUME IInv, NEW r \in RunIds, NEW w \in Workflows, NEW k \in EventKeys, NEW s \in TerminalRunStatuses,
           SchedulerEvent(r, w, k, s)
    PROVE  IInv' /\ LatestKept
<1> DEFINE t == now + 1
           e == [Proc EXCEPT !.rows = rows']
<1>1. /\ r \in RunIds \ used /\ now' = t /\ rows' = Recorded(rows, r, w, k, s, t) /\ used' = used \cup {r}
      /\ UNCHANGED <<task, pc, caller, cancelled, gate, gateQ, sems, permit, setting>>
  BY DEF SchedulerEvent, NextRunId, TimePasses, procVars
<1>2. /\ Sound(Proc, caller, used) /\ setting \in Nat /\ now \in Nat /\ Dated(rows, now)
      /\ cancelled \in [RunIds -> BOOLEAN]
  BY DEF IInv
<1>3. t \in Nat /\ t > now
  BY <1>2
<1> HIDE DEF t
<1>4. /\ Proc.task = task /\ Proc.pc = pc /\ Proc.gate = gate /\ Proc.gateQ = gateQ
      /\ Proc.sems = sems /\ Proc.permit = permit /\ Proc.rows = rows
      /\ Proc \in ProcType /\ rows \in Tables
  BY <1>2, ProcFields
<1>5. Unused(Proc, caller, used) /\ Gated(Proc) /\ Recounted(Proc) /\ Called(pc, caller) /\ Balanced(sems, permit, pc)
  BY <1>2, <1>4 DEF Sound
<1>6. pc[r] = "none" /\ task[r] = "none" /\ ~IsPresent(rows, r)
  BY <1>1, <1>4, <1>5 DEF Unused
<1>7. \A x \in RunIds : rows[x].completed < t
  BY <1>2, <1>3, <1>4 DEF Dated, Tables, RowType
<1>8. /\ rows' \in Tables
      /\ \A x \in RunIds \ {r} : \/ rows'[x] = rows[x]
                                 \/ ~IsPresent(rows', x) /\ rows'[x].workflow = rows[x].workflow
      /\ \A x \in RunIds : rows'[x].completed <= t
      /\ \A i \in RunIds : IsLatest(rows, i) => Answered(rows, rows', i)
  <2> DEFINE new == rows'
  <2>1. new = Recorded(rows, r, w, k, s, t)
    BY <1>1
  <2> HIDE DEF new
  <2>2. /\ new \in Tables
        /\ \A x \in RunIds \ {r} : \/ new[x] = rows[x]
                                   \/ ~IsPresent(new, x) /\ new[x].workflow = rows[x].workflow
        /\ \A x \in RunIds : new[x].completed <= t
        /\ \A i \in RunIds : IsLatest(rows, i) => Answered(rows, new, i)
    BY <1>3, <1>4, <1>6, <1>7, <2>1, RecordedAnswers
  <2>3. QED
    BY <2>2 DEF new
<1>9. /\ Proc'.task = task /\ Proc'.pc = pc /\ Proc'.gate = gate /\ Proc'.gateQ = gateQ
      /\ Proc'.sems = sems /\ Proc'.permit = permit /\ Proc'.rows = rows'
      /\ Proc' = [task |-> task, pc |-> pc, gate |-> gate, gateQ |-> gateQ,
                  sems |-> sems, permit |-> permit, rows |-> rows']
  BY <1>1 DEF Proc
<1>10. Proc' \in ProcType
  BY <1>4, <1>8, <1>9 DEF ProcType
<1>11. Gated(Proc')
  BY <1>4, <1>5, <1>6, <1>8, <1>9 DEF Gated
<1>12. Recounted(Proc')
  BY <1>4, <1>5, <1>6, <1>8, <1>9 DEF Recounted, IsPresent
<1>13. Unused(Proc', caller, used')
  BY <1>1, <1>4, <1>5, <1>8, <1>9 DEF Unused, IsPresent
<1>14. Sound(Proc', caller', used')
  BY <1>1, <1>2, <1>5, <1>9, <1>10, <1>11, <1>12, <1>13 DEF Sound
<1>15. Dated(rows', now') /\ LatestKept
  BY <1>1, <1>8 DEF Dated, LatestKept
<1>16. QED
  BY <1>1, <1>2, <1>3, <1>14, <1>15 DEF IInv

\* A crash leaves no run anywhere, and the rows as they are.
LEMMA CrashIInv ==
    ASSUME IInv, Crash
    PROVE  IInv' /\ LatestKept
<1>1. /\ task' = [r \in RunIds |-> IF task[r] = "none" THEN "none" ELSE "lost"]
      /\ pc' = [r \in RunIds |-> IF pc[r] = "none" THEN "none" ELSE "ended"]
      /\ caller' = [r \in RunIds |-> NoRun]
      /\ cancelled' = [r \in RunIds |-> FALSE]
      /\ gate' = [v \in Vaults |-> NoRun] /\ gateQ' = [v \in Vaults |-> <<>>]
      /\ sems' = <<>> /\ permit' = [r \in RunIds |-> 0]
      /\ rows' = rows /\ used' = used /\ now' = now /\ setting' = setting
  BY DEF Crash
<1>2. Sound(Proc, caller, used) /\ setting \in Nat /\ now \in Nat /\ Dated(rows, now)
  BY DEF IInv
<1>3. rows \in Tables /\ Proc.rows = rows /\ Proc.task = task /\ Proc.pc = pc
  BY <1>2, ProcFields
<1>4. /\ Proc'.task = task' /\ Proc'.pc = pc' /\ Proc'.gate = gate' /\ Proc'.gateQ = gateQ'
      /\ Proc'.sems = sems' /\ Proc'.permit = permit' /\ Proc'.rows = rows
      /\ Proc' = [task |-> task', pc |-> pc', gate |-> gate', gateQ |-> gateQ',
                  sems |-> sems', permit |-> permit', rows |-> rows]
  BY <1>1 DEF Proc
<1>5. Proc' \in ProcType
  <2>1. task' \in [RunIds -> TaskStatuses] /\ pc' \in [RunIds -> Stages]
    BY <1>1 DEF TaskStatuses, Stages
  <2>2. <<>> \in Seq(RunIds) /\ <<>> \in Seq(Semaphores)
    OBVIOUS
  <2>3. /\ gate' \in [Vaults -> RunIds \cup {NoRun}] /\ gateQ' \in [Vaults -> Seq(RunIds)]
        /\ sems' \in Seq(Semaphores) /\ permit' \in [RunIds -> Nat]
    BY <1>1, <2>2
  <2>4. QED
    BY <1>3, <1>4, <2>1, <2>3 DEF ProcType
<1>6. \A r \in RunIds : pc'[r] \in {"none", "ended"} /\ task'[r] \in {"none", "lost"}
  BY <1>1
<1>7. Gated(Proc') /\ Recounted(Proc')
  <2>1. Gated(Proc')
    BY <1>4, <1>6 DEF Gated
  <2>2. Recounted(Proc')
    BY <1>4, <1>6 DEF Recounted
  <2>3. QED
    BY <2>1, <2>2
<1>8. Called(Proc'.pc, caller')
  BY <1>4, <1>6 DEF Called, Active
<1>9. Balanced(Proc'.sems, Proc'.permit, Proc'.pc)
  <2>1. \A r \in RunIds : permit'[r] = 0 /\ pc'[r] # "permit"
    BY <1>1, <1>6
  <2>2. Len(<<>>) = 0 /\ DOMAIN <<>> = {}
    OBVIOUS
  <2>3. QED
    BY <1>1, <1>4, <2>1, <2>2 DEF Balanced
<1>10. Unused(Proc', caller', used')
  <2>1. Unused(Proc, caller, used)
    BY <1>2 DEF Sound
  <2>2. QED
    BY <1>1, <1>3, <1>4, <2>1 DEF Unused
<1>11. Sound(Proc', caller', used')
  <2>1. caller' \in [RunIds -> RunIds \cup {NoRun}]
    BY <1>1
  <2>2. QED
    BY <1>5, <1>7, <1>8, <1>9, <1>10, <2>1 DEF Sound
<1>12. cancelled' \in [RunIds -> BOOLEAN] /\ LatestKept
  BY <1>1 DEF LatestKept, Answered
<1>13. QED
  BY <1>1, <1>2, <1>11, <1>12 DEF IInv

\* The process starts with empty lanes and an empty table.
LEMMA InitIInv == Init => IInv
<1> SUFFICES ASSUME Init PROVE IInv
  OBVIOUS
<1>1. PICK w \in Workflows : rows = [i \in RunIds |-> NoRow(w)]
  BY DEF Init, StoreInit
<1>2. /\ used = {} /\ now = 0 /\ task = [r \in RunIds |-> "none"] /\ pc = [r \in RunIds |-> "none"]
      /\ caller = [r \in RunIds |-> NoRun] /\ cancelled = [r \in RunIds |-> FALSE]
      /\ gate = [v \in Vaults |-> NoRun] /\ gateQ = [v \in Vaults |-> <<>>]
      /\ setting \in Nat /\ sems = <<>> /\ permit = [r \in RunIds |-> 0]
  BY GovernorAssumption DEF Init, StoreInit
<1>3. NoRow(w) \in RowType /\ NoRow(w).status = "absent" /\ NoRow(w).completed = 0
  BY DEF NoRow, RowType
<1>4. rows \in Tables /\ \A r \in RunIds : rows[r].status = "absent" /\ rows[r].completed = 0
  BY <1>1, <1>3 DEF Tables
<1>5. /\ Proc.task = task /\ Proc.pc = pc /\ Proc.gate = gate /\ Proc.gateQ = gateQ
      /\ Proc.sems = sems /\ Proc.permit = permit /\ Proc.rows = rows
  BY DEF Proc
<1>6. Proc \in ProcType
  <2>1. task \in [RunIds -> TaskStatuses] /\ pc \in [RunIds -> Stages]
    BY <1>2 DEF TaskStatuses, Stages
  <2>2. <<>> \in Seq(RunIds) /\ <<>> \in Seq(Semaphores)
    OBVIOUS
  <2>3. /\ gate \in [Vaults -> RunIds \cup {NoRun}] /\ gateQ \in [Vaults -> Seq(RunIds)]
        /\ sems \in Seq(Semaphores) /\ permit \in [RunIds -> Nat]
    BY <1>2, <2>2
  <2>4. QED
    BY <1>4, <2>1, <2>3 DEF Proc, ProcType
<1>7. \A r \in RunIds : pc[r] = "none" /\ task[r] = "none" /\ permit[r] = 0 /\ caller[r] = NoRun
  BY <1>2
<1>8. Gated(Proc) /\ Recounted(Proc)
  BY <1>5, <1>7 DEF Gated, Recounted
<1>9. Called(Proc.pc, caller)
  BY <1>5, <1>7 DEF Called, Active
<1>10. Balanced(Proc.sems, Proc.permit, Proc.pc)
  <2>1. Len(<<>>) = 0 /\ DOMAIN <<>> = {}
    OBVIOUS
  <2>2. QED
    BY <1>2, <1>5, <1>7, <2>1 DEF Balanced
<1>11. Unused(Proc, caller, used)
  BY <1>4, <1>5, <1>7 DEF Unused, IsPresent
<1>12. caller \in [RunIds -> RunIds \cup {NoRun}] /\ cancelled \in [RunIds -> BOOLEAN]
  BY <1>2
<1>13. Dated(rows, now)
  BY <1>2, <1>4 DEF Dated
<1>14. QED
  BY <1>2, <1>6, <1>8, <1>9, <1>10, <1>11, <1>12, <1>13 DEF IInv, Sound

\* Every step keeps the invariant, and the latest outcome of every workflow.
LEMMA NextIInv ==
    ASSUME IInv, [Next]_govVars
    PROVE  IInv' /\ LatestKept
<1>1. CASE \E r \in RunIds, w \in Workflows : Execute(r, w)
  BY <1>1, ExecuteIInv
<1>2. CASE \E r, c \in RunIds, w \in Workflows : ExecuteNested(c, r, w)
  BY <1>2, ExecuteNestedIInv
<1>3. CASE \E r \in RunIds : GateGranted(r)
  BY <1>3, GateGrantedIInv
<1>4. CASE \E r \in RunIds : PermitGranted(r)
  BY <1>4, PermitGrantedIInv
<1>5. CASE \E r \in RunIds : BodyEnds(r) \/ DeliverCancel(r)
  BY <1>5, EndsIInv
<1>6. CASE \E r \in RunIds, w \in Workflows, k \in EventKeys, s \in TerminalRunStatuses : SchedulerEvent(r, w, k, s)
  BY <1>6, SchedulerEventIInv
<1>7. CASE (\E r \in RunIds : Cancel(r)) \/ (\E n \in Limits : ChangeSetting(n)) \/ UNCHANGED govVars
  BY <1>7, AsideIInv
<1>8. CASE Crash
  BY <1>8, CrashIInv
<1>9. QED
  BY <1>1, <1>2, <1>3, <1>4, <1>5, <1>6, <1>7, <1>8 DEF Next, LaneStep

\* Lanes, calls, tasks and rows agree in every reachable state.
THEOREM AlwaysIInv == Spec => []IInv
<1>1. Init => IInv
  BY InitIInv
<1>2. IInv /\ [Next]_govVars => IInv'
  BY NextIInv
<1>3. QED
  BY <1>1, <1>2, PTL DEF Spec

\* _run_in_vault_gate: workflows of one vault never overlap, for any number of
\* runs and vaults, nested calls, timeouts, cancellations and crashes included.
THEOREM VaultsSerialized == Spec => []OnePerVault
<1>1. IInv => OnePerVault
  <2> SUFFICES ASSUME IInv, NEW v \in Vaults, NEW r \in InVault(v), NEW s \in InVault(v) PROVE r = s
    BY DEF OnePerVault
  <2>1. Proc.pc = pc /\ Proc.rows = rows /\ Proc.gate = gate /\ Gated(Proc)
    BY ProcFields DEF IInv, Sound
  <2>2. gate[v] = r /\ gate[v] = s
    BY <2>1 DEF InVault, Vault, Gated
  <2>3. QED
    BY <2>2
<1>2. QED
  BY <1>1, AlwaysIInv, PTL

\* execute_workflow and the run store: the durable row says what the execution
\* task says, however a run ends, unless the row was pruned.
THEOREM RowsFollowTasks == Spec => []RowTracksTask
<1>1. IInv => RowTracksTask
  <2> SUFFICES ASSUME IInv PROVE RowTracksTask
    OBVIOUS
  <2>1. Proc.task = task /\ Proc.rows = rows /\ Recounted(Proc)
    BY ProcFields DEF IInv, Sound
  <2>2. QED
    BY <2>1 DEF Recounted, RowTracksTask
<1>2. QED
  BY <1>1, AlwaysIInv, PTL

\* _run_in_vault_gate and _get_global_semaphore: no permit of any semaphore is
\* lost or given back twice, however the limit changes under the runs.
THEOREM PermitsKept == Spec => []PermitsBalanced
<1>1. IInv => PermitsBalanced
  <2> SUFFICES ASSUME IInv PROVE PermitsBalanced
    OBVIOUS
  <2>1. /\ Proc.sems = sems /\ Proc.permit = permit /\ Proc.pc = pc
        /\ task \in [RunIds -> TaskStatuses] /\ pc \in [RunIds -> Stages]
        /\ gate \in [Vaults -> RunIds \cup {NoRun}] /\ gateQ \in [Vaults -> Seq(RunIds)]
        /\ sems \in Seq(Semaphores) /\ permit \in [RunIds -> Nat]
        /\ caller \in [RunIds -> RunIds \cup {NoRun}] /\ cancelled \in [RunIds -> BOOLEAN]
    BY ProcFields DEF IInv
  <2>2. TypeOK
    BY <2>1 DEF TypeOK, TaskStatuses, Stages, Semaphores
  <2>3. Balanced(sems, permit, pc)
    BY <2>1 DEF IInv, Sound
  <2>4. QED
    BY <2>2, <2>3 DEF PermitsBalanced, Balanced, Holding
<1>2. QED
  BY <1>1, AlwaysIInv, PTL

\* _prune_in_conn: the latest outcome of a workflow leaves the history only when
\* a newer one of the same workflow is there to answer for it.
THEOREM LatestOutcomeKept == Spec => LatestRetained
<1> DEFINE Keeps == \A i \in RunIds :
                      IsLatest(rows, i) =>
                         \/ rows'[i] = rows[i]
                         \/ \E j \in RunIds : /\ IsTerminal(rows', j)
                                              /\ rows'[j].workflow = rows[i].workflow
                                              /\ rows'[j].completed >= rows[i].completed
<1>1. LatestKept => Keeps
  BY DEF LatestKept, Answered
<1>2. IInv /\ [Next]_govVars => [Keeps]_storeVars
  BY <1>1, NextIInv
<1>3. QED
  BY <1>2, AlwaysIInv, PTL DEF Spec, LatestRetained
=============================================================================
