------------------------ MODULE ExecutionTasksProofs ------------------------
(***************************************************************************)
(* The safety of TaskCoordinator, for every value of the constants: types, *)
(* no child is left behind, a published outcome stays, no wake-up is lost, *)
(* the terminal history is exact, a shutdown is complete, and nothing is   *)
(* declared finished while it works.                                       *)
(*                                                                         *)
(* NoOrphan is not inductive: between _cancel_active_children and          *)
(* _mark_terminal only the call in flight knows which children are dealt   *)
(* with.  Covered says what it knows, and Unborn that a task id that was   *)
(* not handed out yet has neither a record nor a call.                     *)
(***************************************************************************)
EXTENDS ExecutionTasks, TLAPS

-----------------------------------------------------------------------------
(***************************************************************************)
(* Type correctness.                                                       *)
(***************************************************************************)

\* Removing the element at a position of a list of ids leaves a list of ids.
LEMMA WithoutType ==
    ASSUME NEW S, NEW s \in Seq(S), NEW i \in 1..Len(s)
    PROVE  Without(s, i) \in Seq(S)
<1>1. SubSeq(s, 1, i - 1) \in Seq(S)
  OBVIOUS
<1>2. SubSeq(s, i + 1, Len(s)) \in Seq(S)
  OBVIOUS
<1> QED
  BY <1>1, <1>2 DEF Without

\* _remember_terminal keeps a list of task ids.
LEMMA HistoryType ==
    ASSUME TypeOK, NEW t \in Tasks
    PROVE  /\ Remembered(t) \in Seq(Tasks)
           /\ SubSeq(Remembered(t), Excess(Remembered(t)) + 1, Len(Remembered(t))) \in Seq(Tasks)
<1>1. Remembered(t) \in Seq(Tasks)
  <2> DEFINE places == {i \in DOMAIN order : order[i] = t}
             i == CHOOSE j \in places : TRUE
  <2>1. order \in Seq(Tasks)
    BY DEF TypeOK
  <2>2. CASE places = {}
    BY <2>1, <2>2 DEF Remembered
  <2>3. CASE places # {}
    <3>1. i \in 1..Len(order)
      BY <2>1, <2>3
    <3>2. Without(order, i) \in Seq(Tasks)
      BY <2>1, <3>1, WithoutType
    <3> HIDE DEF i
    <3>3. Append(Without(order, i), t) \in Seq(Tasks)
      BY <3>2
    <3> QED
      BY <2>3, <3>3 DEF Remembered, i
  <2> QED
    BY <2>2, <2>3
<1>2. Excess(Remembered(t)) \in Nat /\ Excess(Remembered(t)) <= Len(Remembered(t))
  BY <1>1, TasksAssumption DEF Excess
<1> QED
  BY <1>1, <1>2

\* The types hold before any task exists.
LEMMA InitTypeOK == Init => TypeOK
BY SMTT(60) DEF Init, TypeOK, TaskRecord, Finisher, Absent, Idle, Slots,
    TerminalStatuses, ActiveStatuses

\* A fresh record is a record.
LEMMA NewRecordType ==
    ASSUME NEW p \in Tasks \cup {NoTask}, NEW d \in BOOLEAN, NEW a \in Principals,
           NEW h \in BOOLEAN, NEW w \in BOOLEAN
    PROVE  NewRecord(p, d, a, h, w) \in TaskRecord
BY DEF NewRecord, Absent, TaskRecord, TerminalStatuses, ActiveStatuses

\* What the operations assign to a field of a record.
LEMMA RecordUpdates ==
    ASSUME NEW R \in [Tasks -> TaskRecord], NEW t \in Tasks, NEW b \in BOOLEAN
    PROVE  /\ [R EXCEPT ![t].status = "running"] \in [Tasks -> TaskRecord]
           /\ [R EXCEPT ![t].cancelRequested = b] \in [Tasks -> TaskRecord]
           /\ [R EXCEPT ![t].accepting = b] \in [Tasks -> TaskRecord]
           /\ [R EXCEPT ![t].attention = b] \in [Tasks -> TaskRecord]
           /\ [R EXCEPT ![t].result = b] \in [Tasks -> TaskRecord]
           /\ [R EXCEPT ![t] = [@ EXCEPT !.handle = TRUE, !.awaiting = FALSE]]
                 \in [Tasks -> TaskRecord]
<1>1. [R EXCEPT ![t].status = "running"] \in [Tasks -> TaskRecord]
  BY DEF TaskRecord, ActiveStatuses
<1>2. [R EXCEPT ![t].cancelRequested = b] \in [Tasks -> TaskRecord]
  BY DEF TaskRecord
<1>3. [R EXCEPT ![t].accepting = b] \in [Tasks -> TaskRecord]
  BY DEF TaskRecord
<1>4. [R EXCEPT ![t].attention = b] \in [Tasks -> TaskRecord]
  BY DEF TaskRecord
<1>5. [R EXCEPT ![t].result = b] \in [Tasks -> TaskRecord]
  BY DEF TaskRecord
<1>6. [R EXCEPT ![t] = [@ EXCEPT !.handle = TRUE, !.awaiting = FALSE]]
         \in [Tasks -> TaskRecord]
  BY DEF TaskRecord
<1> QED
  BY <1>1, <1>2, <1>3, <1>4, <1>5, <1>6

\* Replacing one mark_* call in flight.
LEMMA SetCallType ==
    ASSUME fin \in [Slots -> [Tasks -> Finisher]], NEW k \in Slots, NEW t \in Tasks,
           NEW call \in Finisher
    PROVE  /\ SetCall(k, t, call) \in [Slots -> [Tasks -> Finisher]]
           /\ \A j \in Slots, u \in Tasks :
                 SetCall(k, t, call)[j][u] = IF j = k /\ u = t THEN call ELSE fin[j][u]
BY DEF SetCall

\* The values such a call takes.
LEMMA CallType ==
    ASSUME fin \in [Slots -> [Tasks -> Finisher]], NEW k \in Slots, NEW t \in Tasks
    PROVE  /\ Idle \in Finisher
           /\ \A s \in TerminalStatuses : Call(s) \in Finisher
           /\ \A c : [fin[k][t] EXCEPT !.todo = @ \ {c}] \in Finisher
           /\ \A T \in SUBSET Tasks :
                 [fin[k][t] EXCEPT !.ph = "commit", !.todo = T] \in Finisher
           /\ fin[k][t].todo \in SUBSET Tasks
           /\ fin[k][t].st \in TerminalStatuses
<1> DEFINE f == fin[k][t]
<1>1. f \in Finisher
  OBVIOUS
<1> HIDE DEF f
<1>2. /\ \A T \in SUBSET Tasks : [f EXCEPT !.ph = "commit", !.todo = T] \in Finisher
      /\ \A c : [f EXCEPT !.todo = @ \ {c}] \in Finisher
  BY <1>1 DEF Finisher
<1>3. f.todo \in SUBSET Tasks /\ f.st \in TerminalStatuses
  BY <1>1 DEF Finisher
<1>4. Idle \in Finisher /\ \A s \in TerminalStatuses : Call(s) \in Finisher
  BY DEF Idle, Call, Finisher, TerminalStatuses
<1> QED
  BY <1>2, <1>3, <1>4 DEF f

\* What the operations do to a mark_* call in flight.
LEMMA CallUpdates ==
    ASSUME fin \in [Slots -> [Tasks -> Finisher]], NEW k \in Slots, NEW t \in Tasks,
           NEW T \in SUBSET Tasks, NEW s \in TerminalStatuses, NEW c
    PROVE  /\ Begin(k, t, s) \in [Slots -> [Tasks -> Finisher]]
           /\ SetCall(k, t, Idle) \in [Slots -> [Tasks -> Finisher]]
           /\ SetCall(k, t, [fin[k][t] EXCEPT !.todo = @ \ {c}])
                 \in [Slots -> [Tasks -> Finisher]]
           /\ SetCall(k, t, [fin[k][t] EXCEPT !.ph = "commit", !.todo = T])
                 \in [Slots -> [Tasks -> Finisher]]
<1>1. /\ Idle \in Finisher
      /\ Call(s) \in Finisher
      /\ [fin[k][t] EXCEPT !.todo = @ \ {c}] \in Finisher
      /\ [fin[k][t] EXCEPT !.ph = "commit", !.todo = T] \in Finisher
  BY CallType
<1>2. \A call \in Finisher : SetCall(k, t, call) \in [Slots -> [Tasks -> Finisher]]
  BY SetCallType
<1> QED
  BY <1>1, <1>2, Zenon DEF Begin

\* Waking every waiter keeps the type of the waits.
LEMMA NotifyAllType ==
    ASSUME TypeOK, NotifyAll
    PROVE  waits' \in [Waiters -> [st : {"idle", "parked", "woken"},
                                   ids : SUBSET Tasks, onAttention : BOOLEAN]]
BY DEF TypeOK, NotifyAll

\* Every step of a task, a lane or a waiter keeps the types.
LEMMA NextTypeOK == TypeOK /\ [Next]_vars => TypeOK'
<1> SUFFICES ASSUME TypeOK, [Next]_vars
             PROVE  TypeOK'
  OBVIOUS
<1>0. /\ "own" \in Slots /\ "ext" \in Slots
      /\ "cancelled" \in TerminalStatuses /\ "failed" \in TerminalStatuses
  BY DEF Slots, TerminalStatuses
<1>r. /\ rec \in [Tasks -> TaskRecord]
      /\ \A t \in Tasks :
            /\ [rec EXCEPT ![t].cancelRequested = TRUE] \in [Tasks -> TaskRecord]
            /\ [rec EXCEPT ![t] = [@ EXCEPT !.handle = TRUE, !.awaiting = FALSE]]
                  \in [Tasks -> TaskRecord]
  BY RecordUpdates DEF TypeOK
<1>f. /\ fin \in [Slots -> [Tasks -> Finisher]]
      /\ \A k \in Slots, t \in Tasks :
            /\ Begin(k, t, "cancelled") \in [Slots -> [Tasks -> Finisher]]
            /\ SetCall(k, t, Idle) \in [Slots -> [Tasks -> Finisher]]
            /\ \A c : SetCall(k, t, [fin[k][t] EXCEPT !.todo = @ \ {c}])
                         \in [Slots -> [Tasks -> Finisher]]
  BY <1>0, CallUpdates DEF TypeOK
<1>1. ASSUME NEW t \in Tasks, NEW p \in Tasks \cup {NoTask}, NEW d \in BOOLEAN,
             NEW a \in Principals, Reserve(t, p, d, a)
      PROVE  TypeOK'
  BY <1>1, NewRecordType, NotifyAllType DEF Reserve, TypeOK
<1>2. ASSUME NEW t \in Tasks, NEW p \in Tasks \cup {NoTask}, NEW a \in Principals,
             CreateQueuedTask(t, p, a)
      PROVE  TypeOK'
  BY <1>2, NewRecordType, NotifyAllType DEF CreateQueuedTask, TypeOK
<1>3. ASSUME NEW t \in Tasks, NEW a \in Principals, TrackCurrentTask(t, a)
      PROVE  TypeOK'
  BY <1>3, NewRecordType, NotifyAllType DEF TrackCurrentTask, TypeOK
<1>4. ASSUME NEW t \in Tasks, NEW p \in Tasks, NEW a \in Principals, RunInline(t, p, a)
      PROVE  TypeOK'
  BY <1>4, NewRecordType, NotifyAllType DEF RunInline, TypeOK
<1>5. ASSUME NEW t \in Tasks, Spawn(t)
      PROVE  TypeOK'
  BY <1>5 DEF Spawn, TypeOK
<1>6. ASSUME NEW t \in Tasks, TrackExistingTask(t)
      PROVE  TypeOK'
  <2>1. rec' \in [Tasks -> TaskRecord]
    BY <1>6, <1>r DEF TrackExistingTask
  <2>2. fin' \in [Slots -> [Tasks -> Finisher]]
    BY <1>6, <1>0, <1>f DEF TrackExistingTask
  <2> QED
    BY <1>6, <2>1, <2>2 DEF TrackExistingTask, TypeOK
<1>7. ASSUME NEW t \in Tasks, DeliverCancel(t)
      PROVE  TypeOK'
  BY <1>7, <1>0, CallUpdates DEF DeliverCancel, TypeOK
<1>8. ASSUME NEW t \in Tasks, SwallowCancel(t)
      PROVE  TypeOK'
  BY <1>8 DEF SwallowCancel, TypeOK
<1>9. ASSUME NEW k \in Slots, NEW t \in Tasks, CloseToChildren(k, t)
      PROVE  TypeOK'
  BY <1>9, <1>0, CallUpdates, RecordUpdates DEF CloseToChildren, TypeOK, ActiveChildren
<1>10. ASSUME NEW k \in Slots, NEW t \in Tasks, NEW c \in Tasks, CancelChild(k, t, c)
       PROVE  TypeOK'
  <2>1. rec' \in [Tasks -> TaskRecord]
    BY <1>10, <1>r DEF CancelChild, RequestCancel
  <2>2. fin' \in [Slots -> [Tasks -> Finisher]]
    <3>1. \/ fin' = SetCall(k, t, [fin[k][t] EXCEPT !.todo = @ \ {c}])
          \/ fin' = Begin("ext", c, "cancelled")
      BY <1>10, Zenon DEF CancelChild
    <3>2. SetCall(k, t, [fin[k][t] EXCEPT !.todo = @ \ {c}])
             \in [Slots -> [Tasks -> Finisher]]
      BY <1>f
    <3>3. Begin("ext", c, "cancelled") \in [Slots -> [Tasks -> Finisher]]
      BY <1>0, <1>f
    <3> QED
      BY <3>1, <3>2, <3>3
  <2>3. cancelled' \in [Tasks -> BOOLEAN]
    BY <1>10 DEF CancelChild, RequestCancel, TypeOK
  <2>4. waits' \in [Waiters -> [st : {"idle", "parked", "woken"},
                                ids : SUBSET Tasks, onAttention : BOOLEAN]]
    BY <1>10, NotifyAllType DEF CancelChild, RequestCancel, TypeOK
  <2> QED
    BY <1>10, <2>1, <2>2, <2>3, <2>4 DEF CancelChild, TypeOK
<1>11. ASSUME NEW k \in Slots, NEW t \in Tasks, PublishTerminal(k, t)
       PROVE  TypeOK'
  <2>1. rec' \in [Tasks -> TaskRecord]
    <3>1. CASE Active(t)
      <4>1. fin[k][t].st \in TerminalStatuses
        BY CallType DEF TypeOK
      <4>2. ASSUME NEW x \in Tasks
            PROVE  /\ [rec[x] EXCEPT !.status = "absent"] \in TaskRecord
                   /\ [rec[x] EXCEPT !.status = fin[k][t].st, !.handle = FALSE] \in TaskRecord
        <5>1. rec[x] \in TaskRecord
          BY <1>r
        <5> QED
          BY <4>1, <5>1 DEF TaskRecord
      <4> QED
        BY <1>11, <3>1, <4>2, ZenonT(30) DEF PublishTerminal, MarkTerminal, TypeOK
    <3>2. CASE ~Active(t)
      BY <1>11, <3>2 DEF PublishTerminal, TypeOK
    <3> QED
      BY <3>1, <3>2
  <2>2. order' \in Seq(Tasks)
    BY <1>11, HistoryType DEF PublishTerminal, MarkTerminal, TypeOK
  <2>3. waits' \in [Waiters -> [st : {"idle", "parked", "woken"},
                                ids : SUBSET Tasks, onAttention : BOOLEAN]]
    BY <1>11, NotifyAllType DEF PublishTerminal, MarkTerminal, TypeOK
  <2>4. /\ fin' \in [Slots -> [Tasks -> Finisher]]
        /\ pc' \in [Tasks -> {"none", "reserved", "spawned", "body", "calling",
                              "finish", "cleanup", "epilogue", "gone"}]
        /\ cancelled' \in [Tasks -> BOOLEAN]
    <3>1. CASE k = "own"
      <4>1. ReturnToOwner(t)
        BY <1>11, <3>1 DEF PublishTerminal
      <4>2. /\ Idle \in Finisher
            /\ Call("completed") \in Finisher
            /\ Call("cancelled") \in Finisher
        BY CallType DEF TypeOK, TerminalStatuses
      <4>3. fin' \in [Slots -> [Tasks -> Finisher]]
        BY <4>1, <4>2 DEF ReturnToOwner, TypeOK
      <4>4. pc' \in [Tasks -> {"none", "reserved", "spawned", "body", "calling",
                               "finish", "cleanup", "epilogue", "gone"}]
        BY <4>1 DEF ReturnToOwner, TypeOK
      <4>5. cancelled' \in [Tasks -> BOOLEAN]
        BY <4>1 DEF ReturnToOwner, TypeOK
      <4> QED
        BY <4>3, <4>4, <4>5
    <3>2. CASE k # "own"
      BY <1>11, <3>2, <1>f DEF PublishTerminal, TypeOK
    <3> QED
      BY <3>1, <3>2
  <2> QED
    BY <1>11, <2>1, <2>2, <2>3, <2>4 DEF PublishTerminal, TypeOK
<1>12. ASSUME NEW t \in Tasks, MarkStarted(t)
       PROVE  TypeOK'
  BY <1>12, RecordUpdates, NotifyAllType DEF MarkStarted, TypeOK
<1>13. ASSUME NEW t \in Tasks, NEW b \in BOOLEAN, PublishProgress(t, b)
       PROVE  TypeOK'
  BY <1>13, RecordUpdates, NotifyAllType DEF PublishProgress, TypeOK
<1>14. ASSUME NEW t \in Tasks, RecordResult(t)
       PROVE  TypeOK'
  BY <1>14, RecordUpdates, NotifyAllType DEF RecordResult, TypeOK
<1>15. ASSUME NEW t \in Tasks, NEW s \in TerminalStatuses, Return(t, s)
       PROVE  TypeOK'
  BY <1>15, <1>0, CallUpdates DEF Return, TypeOK
<1>16. ASSUME NEW t \in Tasks, Raise(t)
       PROVE  TypeOK'
  BY <1>16, <1>0, CallUpdates DEF Raise, TypeOK
<1>17. ASSUME NEW t \in Tasks, AbortReservation(t)
       PROVE  TypeOK'
  BY <1>17, <1>0, CallUpdates DEF AbortReservation, TypeOK
<1>18. ASSUME NEW t \in Tasks, CancelTask(t)
       PROVE  TypeOK'
  BY <1>18, <1>0, CallUpdates, RecordUpdates, NotifyAllType
     DEF CancelTask, RequestCancel, TypeOK
<1>19. ASSUME NEW t \in Tasks, ShutdownCancel(t)
       PROVE  TypeOK'
  <2>1. rec' \in [Tasks -> TaskRecord]
    BY <1>19, <1>r DEF ShutdownCancel, RequestCancel
  <2>2. fin' \in [Slots -> [Tasks -> Finisher]]
    BY <1>19, <1>0, <1>f DEF ShutdownCancel
  <2>3. cancelled' \in [Tasks -> BOOLEAN]
    BY <1>19 DEF ShutdownCancel, RequestCancel, TypeOK
  <2>4. waits' \in [Waiters -> [st : {"idle", "parked", "woken"},
                                ids : SUBSET Tasks, onAttention : BOOLEAN]]
    BY <1>19, NotifyAllType DEF ShutdownCancel, RequestCancel, TypeOK
  <2> QED
    BY <1>19, <2>1, <2>2, <2>3, <2>4 DEF ShutdownCancel, TypeOK
<1>20. ASSUME NEW t \in Tasks, SweepTask(t)
       PROVE  TypeOK'
  <2>1. fin' \in [Slots -> [Tasks -> Finisher]]
    BY <1>20, <1>0, <1>f DEF SweepTask
  <2> QED
    BY <1>20, <2>1 DEF SweepTask, TypeOK
<1>21. ASSUME ShutdownBegin \/ ShutdownDrain \/ ShutdownSweep \/ ShutdownDone
       PROVE  TypeOK'
  BY <1>21 DEF ShutdownBegin, ShutdownDrain, ShutdownSweep, ShutdownDone, TypeOK
<1>22. ASSUME NEW w \in Waiters, WaiterStep(w)
       PROVE  TypeOK'
  <2>1. ASSUME NEW ids \in SUBSET Tasks, NEW b \in BOOLEAN, WaitForTasks(w, ids, b)
        PROVE  TypeOK'
    BY <2>1 DEF WaitForTasks, TypeOK
  <2>2. CASE WaiterWakes(w)
    BY <2>2 DEF WaiterWakes, TypeOK
  <2>3. CASE WaitTimesOut(w)
    BY <2>3 DEF WaitTimesOut, TypeOK
  <2> QED
    BY <1>22, <2>1, <2>2, <2>3 DEF WaiterStep
<1>23. CASE UNCHANGED vars
  BY <1>23 DEF vars, TypeOK
<1> QED
  BY <1>1, <1>2, <1>3, <1>4, <1>5, <1>6, <1>7, <1>8, <1>9, <1>10, <1>11, <1>12,
     <1>13, <1>14, <1>15, <1>16, <1>17, <1>18, <1>19, <1>20, <1>21, <1>22, <1>23
     DEF Next, Create, CoroutineStep, CallStep, BodyStep, ShutdownStep

\* The records, the history, the coroutines and the mark_* calls in flight
\* always have their types.
THEOREM TypeCorrect == Spec => []TypeOK
BY InitTypeOK, NextTypeOK, PTL DEF Spec

-----------------------------------------------------------------------------
(***************************************************************************)
(* Lineage and outcomes.                                                   *)
(***************************************************************************)


\* Nothing exists of x yet.
Fresh(x) == ~Present(x) /\ pc[x] = "none" /\ \A k \in Slots : fin[k][x].ph = "idle"

Unborn == \A x \in Tasks \ created : Fresh(x)

\* c has to be stopped before p is over.
Attached(c, p) == Active(c) /\ rec[c].parent = p /\ ~rec[c].detached

\* A call that has closed p to children has every attached one on its list, or
\* the child's cancellation is requested already.
Covered ==
    \A k \in Slots, p \in Tasks : fin[k][p].ph = "commit" =>
        /\ Active(p) => ~rec[p].accepting
        /\ \A c \in Tasks : Attached(c, p) => c \in fin[k][p].todo \/ rec[c].cancelRequested

IInv == TypeOK /\ Unborn /\ Covered /\ NoOrphan

-----------------------------------------------------------------------------
(***************************************************************************)
(* What all the steps that create no record have in common.                *)
(***************************************************************************)

\* The record of x keeps its place in the lineage, is not revived or
\* reopened, and stays as it is once it is finished.
Steady(x) ==
    /\ rec'[x].parent = rec[x].parent
    /\ rec'[x].detached = rec[x].detached
    /\ rec[x].cancelRequested => rec'[x].cancelRequested
    /\ rec'[x].accepting => rec[x].accepting
    /\ Active(x)' => Active(x)
    /\ ~Present(x) => ~Present(x)'
    /\ Terminal(x) => \/ rec'[x].status = "absent"
                      \/ /\ rec'[x].status = rec[x].status
                         /\ rec'[x].result = rec[x].result
                         /\ rec'[x].cancelRequested = rec[x].cancelRequested

\* A call drops a child from its list only when the child is over or asked to
\* stop, and no call begins in the middle.
CallKept(k, p) ==
    fin'[k][p].ph = "commit" =>
        /\ fin[k][p].ph = "commit"
        /\ \A c \in fin[k][p].todo :
              c \in fin'[k][p].todo \/ ~Active(c)' \/ rec'[c].cancelRequested

\* A task ends only through a call that has nothing left on its list.
EndsByCall(p) ==
    (Active(p) /\ ~Active(p)') =>
        \E k \in Slots : fin[k][p].ph = "commit" /\ fin[k][p].todo = {}

Regular ==
    /\ created' = created
    /\ \A x \in Tasks : Steady(x) /\ EndsByCall(x) /\ (Fresh(x) => Fresh(x)')
    /\ \A k \in Slots, x \in Tasks : CallKept(k, x)

\* A regular step keeps the invariant.
LEMMA RegularStep ==
    ASSUME IInv, TypeOK', Regular
    PROVE  IInv'
<1>1. Unborn'
  BY DEF IInv, Unborn, Regular
<1>2. Covered'
  <2> SUFFICES ASSUME NEW k \in Slots, NEW p \in Tasks, fin'[k][p].ph = "commit"
               PROVE  /\ Active(p)' => ~rec'[p].accepting
                      /\ \A c \in Tasks : Attached(c, p)' =>
                            c \in fin'[k][p].todo \/ rec'[c].cancelRequested
    BY DEF Covered
  <2>1. fin[k][p].ph = "commit"
    BY DEF Regular, CallKept
  <2>2. Active(p)' => ~rec'[p].accepting
    BY <2>1 DEF IInv, Covered, Regular, Steady
  <2>3. ASSUME NEW c \in Tasks, Attached(c, p)'
        PROVE  c \in fin'[k][p].todo \/ rec'[c].cancelRequested
    <3>1. Attached(c, p)
      BY <2>3 DEF Attached, Regular, Steady
    <3>2. c \in fin[k][p].todo \/ rec[c].cancelRequested
      BY <2>1, <3>1 DEF IInv, Covered
    <3>3. CASE rec[c].cancelRequested
      BY <3>3 DEF Regular, Steady
    <3>4. CASE c \in fin[k][p].todo
      BY <2>3, <3>4 DEF Regular, CallKept, Attached
    <3> QED
      BY <3>2, <3>3, <3>4
  <2> QED
    BY <2>2, <2>3
<1>3. NoOrphan'
  <2> SUFFICES ASSUME NEW c \in Tasks, Active(c)', rec'[c].parent # NoTask,
                      ~rec'[c].detached, ~Active(rec[c].parent)'
               PROVE  rec'[c].cancelRequested
    BY DEF NoOrphan
  <2> DEFINE p == rec[c].parent
  <2>1. /\ Active(c) /\ rec'[c].parent = p /\ ~rec[c].detached
        /\ rec[c].cancelRequested => rec'[c].cancelRequested
    BY DEF Regular, Steady
  <2>2. p \in Tasks
    <3>1. rec[c] \in TaskRecord
      BY DEF IInv, TypeOK
    <3> QED
      BY <2>1, <3>1 DEF TaskRecord
  <2>3. CASE ~Active(p)
    BY <2>1, <2>2, <2>3 DEF IInv, NoOrphan
  <2>4. CASE Active(p)
    <3>1. PICK k \in Slots : fin[k][p].ph = "commit" /\ fin[k][p].todo = {}
      BY <2>1, <2>2, <2>4 DEF Regular, EndsByCall
    <3>2. Attached(c, p)
      BY <2>1 DEF Attached
    <3> QED
      BY <2>1, <2>2, <3>1, <3>2 DEF IInv, Covered
  <2> QED
    BY <2>3, <2>4
<1> QED
  BY <1>1, <1>2, <1>3 DEF IInv

-----------------------------------------------------------------------------
(***************************************************************************)
(* The steps, by what they do to the records.                              *)
(***************************************************************************)

\* A record that is left alone is steady.
LEMMA SameRecords ==
    ASSUME rec' = rec
    PROVE  \A x \in Tasks : Steady(x) /\ EndsByCall(x)
BY DEF Steady, EndsByCall, Active, Present, Terminal

\* So are the records when one field of one of them changes as the operations
\* of an active task change it.
LEMMA FieldUpdate ==
    ASSUME TypeOK, NEW t \in Tasks, NEW b \in BOOLEAN,
           \/ rec' = [rec EXCEPT ![t].cancelRequested = TRUE] /\ Active(t)
           \/ rec' = [rec EXCEPT ![t].status = "running"] /\ rec[t].status = "queued"
           \/ rec' = [rec EXCEPT ![t].attention = b]
           \/ rec' = [rec EXCEPT ![t].accepting = FALSE]
           \/ rec' = [rec EXCEPT ![t].result = TRUE] /\ Active(t)
           \/ rec' = [rec EXCEPT ![t] = [@ EXCEPT !.handle = TRUE, !.awaiting = FALSE]]
    PROVE  \A x \in Tasks : Steady(x) /\ (Active(x) => Active(x)')
<1> SUFFICES ASSUME NEW x \in Tasks
             PROVE  Steady(x) /\ (Active(x) => Active(x)')
  OBVIOUS
<1>1. rec \in [Tasks -> TaskRecord]
  BY DEF TypeOK
<1>2. CASE x # t
  <2>1. rec'[x] = rec[x]
    BY <1>1, <1>2
  <2> QED
    BY <2>1 DEF Steady, Active, Present, Terminal
<1>3. CASE x = t
  <2> DEFINE r == rec[t]
             q == rec'[t]
  <2>1. r \in TaskRecord
    BY <1>1
  <2>2. \/ q = [r EXCEPT !.cancelRequested = TRUE] /\ Active(t)
        \/ q = [r EXCEPT !.status = "running"] /\ r.status = "queued"
        \/ q = [r EXCEPT !.attention = b]
        \/ q = [r EXCEPT !.accepting = FALSE]
        \/ q = [r EXCEPT !.result = TRUE] /\ Active(t)
        \/ q = [r EXCEPT !.handle = TRUE, !.awaiting = FALSE]
    BY <1>1
  <2> HIDE DEF r, q
  <2>3. /\ q.parent = r.parent /\ q.detached = r.detached
        /\ r.cancelRequested => q.cancelRequested
        /\ q.accepting => r.accepting
        /\ q.status = r.status \/ (q.status = "running" /\ r.status = "queued")
        /\ \/ q.result = r.result /\ q.cancelRequested = r.cancelRequested
           \/ Active(t)
    BY <2>1, <2>2 DEF TaskRecord
  <2> QED
    BY <1>3, <2>3 DEF r, q, Steady, Active, Present, Terminal, ActiveStatuses, TerminalStatuses
<1> QED
  BY <1>2, <1>3

\* Calls that are left alone.
LEMMA SameCalls ==
    ASSUME fin' = fin
    PROVE  \A k \in Slots, x \in Tasks : CallKept(k, x)
BY DEF CallKept

\* A call that begins is not in the middle, and belongs to somebody.
LEMMA BeginCall ==
    ASSUME TypeOK, NEW j \in Slots, NEW t \in Tasks, NEW s \in TerminalStatuses,
           fin' = Begin(j, t, s), ~Fresh(t)
    PROVE  /\ \A k \in Slots, x \in Tasks : CallKept(k, x)
           /\ \A x \in Tasks : Fresh(x) => \A k \in Slots : fin'[k][x].ph = "idle"
<1>1. \A k \in Slots, x \in Tasks :
          fin'[k][x] = IF k = j /\ x = t THEN Call(s) ELSE fin[k][x]
  <2>1. fin \in [Slots -> [Tasks -> Finisher]]
    BY DEF TypeOK
  <2>2. Call(s) \in Finisher
    BY <2>1, CallType
  <2> QED
    BY <2>1, <2>2, SetCallType DEF Begin
<1>2. Call(s).ph = "close"
  BY DEF Call
<1> QED
  BY <1>1, <1>2 DEF CallKept, Fresh

\* A step that keeps every record, call and position in their bounds is regular.
LEMMA RegularIf ==
    ASSUME created' = created,
           \A x \in Tasks : Steady(x) /\ (Active(x) => Active(x)'),
           \A k \in Slots, x \in Tasks : CallKept(k, x),
           \A x \in Tasks : Fresh(x) => \A k \in Slots : fin'[k][x].ph = "idle",
           \A x \in Tasks : pc[x] = "none" => pc'[x] = "none"
    PROVE  Regular
<1>1. \A x \in Tasks : EndsByCall(x)
  BY DEF EndsByCall
<1>2. \A x \in Tasks : Fresh(x) => Fresh(x)'
  BY DEF Fresh, Steady
<1> QED
  BY <1>1, <1>2 DEF Regular

\* Steps of a coroutine, of shutdown and of the waiters that touch neither
\* records nor calls.
LEMMA IdleStep ==
    ASSUME TypeOK, UNCHANGED <<rec, created, fin>>,
           \A x \in Tasks : pc[x] = "none" => pc'[x] = "none"
    PROVE  Regular
<1>1. \A x \in Tasks : Steady(x) /\ (Active(x) => Active(x)')
  BY SameRecords DEF Active
<1>2. \A x \in Tasks : Fresh(x) => \A k \in Slots : fin'[k][x].ph = "idle"
  BY DEF Fresh
<1> QED
  BY <1>1, <1>2, SameCalls, RegularIf

\* A coroutine begins a mark_* call of its own.
LEMMA OwnCallStep ==
    ASSUME TypeOK, NEW t \in Tasks, NEW s \in TerminalStatuses,
           UNCHANGED <<rec, created>>, fin' = Begin("own", t, s), pc[t] # "none",
           \A x \in Tasks : pc[x] = "none" => pc'[x] = "none"
    PROVE  Regular
<1>1. \A x \in Tasks : Steady(x) /\ (Active(x) => Active(x)')
  BY SameRecords DEF Active
<1>2. ~Fresh(t) /\ "own" \in Slots
  BY DEF Fresh, Slots
<1>3. /\ \A k \in Slots, x \in Tasks : CallKept(k, x)
      /\ \A x \in Tasks : Fresh(x) => \A k \in Slots : fin'[k][x].ph = "idle"
  BY <1>2, BeginCall
<1> QED
  BY <1>1, <1>3, RegularIf

\* track_existing_task attaches the coroutine or refuses.
LEMMA TrackStep ==
    ASSUME TypeOK, NEW t \in Tasks, TrackExistingTask(t)
    PROVE  Regular
<1>1. \A x \in Tasks : pc[x] = "none" => pc'[x] = "none"
  BY DEF TrackExistingTask, TypeOK
<1>2. CASE ~Active(t)
  BY <1>1, <1>2, IdleStep DEF TrackExistingTask
<1>3. CASE Active(t)
  <2>1. \A x \in Tasks : Steady(x) /\ (Active(x) => Active(x)')
    BY <1>3, FieldUpdate DEF TrackExistingTask
  <2>2. ~Fresh(t) /\ "own" \in Slots /\ "cancelled" \in TerminalStatuses
    BY <1>3 DEF Fresh, Slots, TerminalStatuses, Active, Present, ActiveStatuses
  <2>3. fin' = fin \/ fin' = Begin("own", t, "cancelled")
    BY <1>3 DEF TrackExistingTask
  <2>4. /\ \A k \in Slots, x \in Tasks : CallKept(k, x)
        /\ \A x \in Tasks : Fresh(x) => \A k \in Slots : fin'[k][x].ph = "idle"
    BY <2>2, <2>3, BeginCall, SameCalls DEF Fresh
  <2> QED
    BY <1>1, <2>1, <2>4, RegularIf DEF TrackExistingTask
<1> QED
  BY <1>2, <1>3

\* The body of a task reports.
LEMMA BodyReport ==
    ASSUME TypeOK, NEW t \in Tasks,
           \/ MarkStarted(t)
           \/ \E b \in BOOLEAN : PublishProgress(t, b)
           \/ RecordResult(t)
    PROVE  Regular
<1>1. \A x \in Tasks : Steady(x) /\ (Active(x) => Active(x)')
  BY FieldUpdate DEF MarkStarted, PublishProgress, RecordResult
<1>2. UNCHANGED <<created, fin, pc>>
  BY DEF MarkStarted, PublishProgress, RecordResult
<1>3. \A x \in Tasks : Fresh(x) => \A k \in Slots : fin'[k][x].ph = "idle"
  BY <1>2 DEF Fresh
<1> QED
  BY <1>1, <1>2, <1>3, SameCalls, RegularIf

\* cancel_task on an active task, which may begin mark_cancelled for it.
LEMMA CancelStep ==
    ASSUME TypeOK, NEW t \in Tasks, Active(t), RequestCancel(t), UNCHANGED <<created, pc>>,
           fin' = fin \/ fin' = Begin("ext", t, "cancelled")
    PROVE  Regular
<1>1. \A x \in Tasks : Steady(x) /\ (Active(x) => Active(x)')
  BY FieldUpdate DEF RequestCancel
<1>2. ~Fresh(t) /\ "ext" \in Slots /\ "cancelled" \in TerminalStatuses
  BY DEF Fresh, Slots, TerminalStatuses, Active, Present, ActiveStatuses
<1>3. /\ \A k \in Slots, x \in Tasks : CallKept(k, x)
      /\ \A x \in Tasks : Fresh(x) => \A k \in Slots : fin'[k][x].ph = "idle"
  BY <1>2, BeginCall, SameCalls DEF Fresh
<1> QED
  BY <1>1, <1>3, RegularIf

\* The sweep begins mark_cancelled for an active task.
LEMMA SweepStep ==
    ASSUME TypeOK, NEW t \in Tasks, SweepTask(t)
    PROVE  Regular
<1>1. CASE fin' = fin
  BY <1>1, IdleStep DEF SweepTask
<1>2. CASE Active(t) /\ fin' = Begin("ext", t, "cancelled")
  <2>1. \A x \in Tasks : Steady(x) /\ (Active(x) => Active(x)')
    BY SameRecords DEF Active, SweepTask
  <2>2. ~Fresh(t) /\ "ext" \in Slots /\ "cancelled" \in TerminalStatuses
    BY <1>2 DEF Fresh, Slots, TerminalStatuses, Active, Present, ActiveStatuses
  <2> QED
    BY <1>2, <2>1, <2>2, BeginCall, RegularIf DEF SweepTask
<1> QED
  BY <1>1, <1>2 DEF SweepTask

\* cancel_task on the next child of a call's list.
LEMMA CancelChildStep ==
    ASSUME TypeOK, NEW k \in Slots, NEW t \in Tasks, NEW c \in Tasks, CancelChild(k, t, c)
    PROVE  Regular
<1>1. UNCHANGED <<created, pc>> /\ fin[k][t].ph = "commit"
  BY DEF CancelChild
<1>2. CASE Active(c) /\ RequestCancel(c) /\ fin' = Begin("ext", c, "cancelled")
  BY <1>1, <1>2, CancelStep
<1>3. CASE /\ fin' = SetCall(k, t, [fin[k][t] EXCEPT !.todo = @ \ {c}])
           /\ \/ ~Active(c) /\ rec' = rec
              \/ Active(c) /\ RequestCancel(c)
  <2>1. \A x \in Tasks : Steady(x) /\ (Active(x) => Active(x)')
    <3>1. CASE rec' = rec
      BY <3>1, SameRecords DEF Active
    <3>2. CASE Active(c) /\ RequestCancel(c)
      BY <3>2, FieldUpdate DEF RequestCancel
    <3> QED
      BY <1>3, <3>1, <3>2
  <2>2. ~Active(c)' \/ rec'[c].cancelRequested
    <3>1. CASE ~Active(c) /\ rec' = rec
      BY <3>1 DEF Active
    <3>2. CASE RequestCancel(c)
      <4>1. rec[c] \in TaskRecord /\ rec'[c] = [rec[c] EXCEPT !.cancelRequested = TRUE]
        BY <3>2 DEF RequestCancel, TypeOK
      <4> QED
        BY <4>1 DEF TaskRecord
    <3> QED
      BY <1>3, <3>1, <3>2
  <2> DEFINE f == [fin[k][t] EXCEPT !.todo = @ \ {c}]
  <2>3. f \in Finisher /\ f.ph = "commit" /\ f.todo = fin[k][t].todo \ {c}
    <3>1. fin[k][t] \in Finisher
      BY DEF TypeOK
    <3> QED
      BY <1>1, <3>1 DEF Finisher
  <2> HIDE DEF f
  <2>4. \A j \in Slots, u \in Tasks :
            fin'[j][u] = IF j = k /\ u = t THEN f ELSE fin[j][u]
    <3>1. fin \in [Slots -> [Tasks -> Finisher]]
      BY DEF TypeOK
    <3>2. fin' = SetCall(k, t, f)
      BY <1>3 DEF f
    <3> QED
      BY <2>3, <3>1, <3>2, SetCallType
  <2>5. \A j \in Slots, x \in Tasks : CallKept(j, x)
    BY <1>1, <2>2, <2>3, <2>4 DEF CallKept
  <2>6. \A x \in Tasks : Fresh(x) => \A j \in Slots : fin'[j][x].ph = "idle"
    BY <1>1, <2>4 DEF Fresh
  <2> QED
    BY <1>1, <2>1, <2>5, <2>6, RegularIf
<1> QED
  BY <1>2, <1>3 DEF CancelChild

\* The second half of a mark_* call: the outcome is published, old records are
\* forgotten, and the caller goes on.
LEMMA PublishStep ==
    ASSUME TypeOK, NEW k \in Slots, NEW t \in Tasks, PublishTerminal(k, t)
    PROVE  Regular
<1>1. created' = created /\ fin[k][t].ph = "commit" /\ fin[k][t].todo = {}
  BY DEF PublishTerminal
<1>2. \A x \in Tasks : Steady(x) /\ EndsByCall(x)
  <2>1. CASE ~Active(t)
    BY <2>1, SameRecords DEF PublishTerminal
  <2>2. CASE Active(t)
    <3> SUFFICES ASSUME NEW x \in Tasks
                 PROVE  Steady(x) /\ EndsByCall(x)
      OBVIOUS
    <3>1. rec[x] \in TaskRecord /\ fin[k][t].st \in TerminalStatuses
      BY CallType DEF TypeOK
    <3>2. \/ rec'[x] = rec[x]
          \/ rec'[x] = [rec[x] EXCEPT !.status = "absent"] /\ (x = t \/ Terminal(x))
          \/ x = t /\ rec'[x] = [rec[x] EXCEPT !.status = fin[k][t].st, !.handle = FALSE]
      BY <2>2 DEF PublishTerminal, MarkTerminal
    <3>3. CASE rec'[x] = rec[x]
      BY <3>3 DEF Steady, EndsByCall, Active, Present, Terminal
    <3>4. CASE rec'[x] = [rec[x] EXCEPT !.status = "absent"] /\ (x = t \/ Terminal(x))
      <4>1. /\ rec'[x].parent = rec[x].parent /\ rec'[x].detached = rec[x].detached
            /\ rec'[x].cancelRequested = rec[x].cancelRequested
            /\ rec'[x].accepting = rec[x].accepting
            /\ rec'[x].status = "absent"
        BY <3>1, <3>4 DEF TaskRecord
      <4>2. Steady(x)
        BY <4>1 DEF Steady, Active, Present, Terminal, ActiveStatuses, TerminalStatuses
      <4>3. EndsByCall(x)
        BY <1>1, <3>4 DEF EndsByCall, Active, Terminal, ActiveStatuses, TerminalStatuses
      <4> QED
        BY <4>2, <4>3
    <3>5. CASE x = t /\ rec'[x] = [rec[x] EXCEPT !.status = fin[k][t].st, !.handle = FALSE]
      <4>1. /\ rec'[x].parent = rec[x].parent /\ rec'[x].detached = rec[x].detached
            /\ rec'[x].cancelRequested = rec[x].cancelRequested
            /\ rec'[x].accepting = rec[x].accepting
            /\ rec'[x].status \in TerminalStatuses
        BY <3>1, <3>5 DEF TaskRecord
      <4>2. Steady(x)
        BY <2>2, <3>5, <4>1 DEF Steady, Active, Present, Terminal, ActiveStatuses, TerminalStatuses
      <4> QED
        BY <1>1, <3>5, <4>2 DEF EndsByCall
    <3> QED
      BY <3>2, <3>3, <3>4, <3>5
  <2> QED
    BY <2>1, <2>2
<1>3. \A x \in Tasks : pc[x] = "none" /\ x # t => pc'[x] = "none"
  BY DEF PublishTerminal, ReturnToOwner, Callers, TypeOK
<1>4. \A j \in Slots, x \in Tasks :
          \/ fin'[j][x] = fin[j][x]
          \/ fin'[j][x].ph = "idle"
          \/ fin'[j][x].ph = "close" /\ (x = t \/ pc[x] = "calling")
  <2>0. fin \in [Slots -> [Tasks -> Finisher]]
    BY DEF TypeOK
  <2>1. CASE k = "own"
    <3>1. ReturnToOwner(t)
      BY <2>1 DEF PublishTerminal
    <3> QED
      BY <2>0, <3>1 DEF ReturnToOwner, Callers, Call, Idle
  <2>2. CASE k # "own"
    <3>1. fin' = SetCall(k, t, Idle)
      BY <2>2 DEF PublishTerminal
    <3>2. Idle \in Finisher /\ Idle.ph = "idle"
      BY <2>0, CallType DEF Idle
    <3>3. \A j \in Slots, x \in Tasks :
              fin'[j][x] = IF j = k /\ x = t THEN Idle ELSE fin[j][x]
      BY <2>0, <3>1, <3>2, SetCallType
    <3> QED
      BY <3>2, <3>3
  <2> QED
    BY <2>1, <2>2
<1>5. \A j \in Slots, x \in Tasks : CallKept(j, x)
  BY <1>4 DEF CallKept
<1>6. \A x \in Tasks : Fresh(x) => Fresh(x)'
  <2> SUFFICES ASSUME NEW x \in Tasks, Fresh(x)
               PROVE  Fresh(x)'
    OBVIOUS
  <2>1. x # t /\ pc[x] = "none"
    BY <1>1 DEF Fresh
  <2>2. pc'[x] = "none" /\ ~Present(x)'
    BY <1>2, <1>3, <2>1 DEF Fresh, Steady
  <2>3. \A j \in Slots : fin'[j][x].ph = "idle"
    BY <1>4, <2>1 DEF Fresh
  <2> QED
    BY <2>2, <2>3 DEF Fresh
<1> QED
  BY <1>1, <1>2, <1>5, <1>6 DEF Regular

\* The first half of a mark_* call: the task closes to children and the call
\* takes down the ones that are attached and active.
LEMMA CloseStep ==
    ASSUME IInv, TypeOK', NEW k \in Slots, NEW t \in Tasks, CloseToChildren(k, t)
    PROVE  IInv' /\ \A x \in Tasks : Steady(x)
<1>1. TypeOK /\ Unborn /\ Covered /\ NoOrphan
  BY DEF IInv
<1>2. fin[k][t].ph = "close" /\ UNCHANGED <<created, pc>>
  BY DEF CloseToChildren
<1>3. \A x \in Tasks : Steady(x) /\ (Active(x) => Active(x)')
  <2>1. CASE rec' = rec
    BY <2>1, SameRecords DEF Active
  <2>2. CASE rec' = [rec EXCEPT ![t].accepting = FALSE]
    BY <1>1, <2>2, FieldUpdate
  <2> QED
    BY <2>1, <2>2 DEF CloseToChildren
<1>4. \A x \in Tasks : /\ rec'[x].parent = rec[x].parent
                       /\ rec'[x].detached = rec[x].detached
                       /\ rec[x].cancelRequested => rec'[x].cancelRequested
                       /\ rec'[x].accepting => rec[x].accepting
                       /\ Active(x)' <=> Active(x)
                       /\ ~Present(x) => ~Present(x)'
  BY <1>3 DEF Steady
<1> DEFINE list == IF Present(t) THEN ActiveChildren(t) ELSE {}
           f == [fin[k][t] EXCEPT !.ph = "commit", !.todo = list]
<1>5. f \in Finisher /\ f.ph = "commit" /\ f.todo = list
  <2>1. fin[k][t] \in Finisher /\ list \in SUBSET Tasks
    BY <1>1 DEF TypeOK, ActiveChildren
  <2> QED
    BY <2>1 DEF Finisher
<1>6. \A j \in Slots, u \in Tasks : fin'[j][u] = IF j = k /\ u = t THEN f ELSE fin[j][u]
  <2>1. fin \in [Slots -> [Tasks -> Finisher]]
    BY <1>1 DEF TypeOK
  <2>2. fin' = SetCall(k, t, f)
    BY DEF CloseToChildren
  <2> HIDE DEF f
  <2> QED
    BY <1>5, <2>1, <2>2, SetCallType
<1> HIDE DEF f
<1>7. Unborn'
  <2>1. t \in created
    BY <1>1, <1>2 DEF Unborn, Fresh
  <2> QED
    BY <1>1, <1>2, <1>4, <1>6, <2>1 DEF Unborn, Fresh
<1>8. Covered'
  <2> SUFFICES ASSUME NEW j \in Slots, NEW p \in Tasks, fin'[j][p].ph = "commit"
               PROVE  /\ Active(p)' => ~rec'[p].accepting
                      /\ \A c \in Tasks : Attached(c, p)' =>
                            c \in fin'[j][p].todo \/ rec'[c].cancelRequested
    BY DEF Covered
  <2>1. \A c \in Tasks : Attached(c, p)' => Attached(c, p)
    BY <1>4 DEF Attached
  <2>2. CASE ~(j = k /\ p = t)
    <3>1. fin'[j][p] = fin[j][p]
      BY <1>6, <2>2
    <3> QED
      BY <1>1, <1>4, <2>1, <3>1 DEF Covered
  <2>3. CASE j = k /\ p = t
    <3>1. fin'[j][p].todo = list
      BY <1>5, <1>6, <2>3
    <3>2. CASE Present(t)
      <4>1. rec'[t] = [rec[t] EXCEPT !.accepting = FALSE] /\ rec[t] \in TaskRecord
        BY <1>1, <3>2 DEF CloseToChildren, TypeOK
      <4>2. ~rec'[t].accepting
        BY <4>1 DEF TaskRecord
      <4>3. \A c \in Tasks : Attached(c, t) => c \in list
        BY <3>2 DEF Attached, ActiveChildren
      <4> QED
        BY <2>1, <2>3, <3>1, <4>2, <4>3
    <3>3. CASE ~Present(t)
      <4>1. ~Active(t)
        BY <3>3 DEF Present, Active, ActiveStatuses
      <4>2. \A c \in Tasks : Attached(c, t) => rec[c].cancelRequested
        BY <1>1, <4>1, TasksAssumption DEF Attached, NoOrphan
      <4> QED
        BY <1>4, <2>1, <2>3, <4>1, <4>2
    <3> QED
      BY <3>2, <3>3
  <2> QED
    BY <2>2, <2>3
<1>9. NoOrphan'
  <2>1. \A c \in Tasks : rec[c].parent # NoTask => rec[c].parent \in Tasks
    <3>1. \A c \in Tasks : rec[c] \in TaskRecord
      BY <1>1 DEF TypeOK
    <3> QED
      BY <3>1 DEF TaskRecord
  <2> QED
    BY <1>1, <1>4, <2>1 DEF NoOrphan
<1> QED
  BY <1>3, <1>7, <1>8, <1>9 DEF IInv

\* A new record has a parent that is active and still accepts children, so no
\* call in flight can have missed it.
LEMMA CreateStep ==
    ASSUME IInv, TypeOK', NEW t \in Tasks, NEW p \in Tasks \cup {NoTask}, NEW d \in BOOLEAN,
           NEW a \in Principals, NEW h \in BOOLEAN, NEW w \in BOOLEAN,
           MayCreate(t, p, a), rec' = [rec EXCEPT ![t] = NewRecord(p, d, a, h, w)],
           created' = created \cup {t}, fin' = fin,
           \A x \in Tasks \ {t} : pc[x] = "none" => pc'[x] = "none"
    PROVE  IInv' /\ \A x \in Tasks : Terminal(x) => rec'[x] = rec[x]
<1>1. TypeOK /\ Unborn /\ Covered /\ NoOrphan
  BY DEF IInv
<1>2. /\ Fresh(t)
      /\ p # NoTask => Active(p) /\ rec[p].accepting
  BY <1>1 DEF MayCreate, Unborn
<1>3. \A x \in Tasks \ {t} : rec'[x] = rec[x]
  BY <1>1 DEF TypeOK
<1>4. /\ rec'[t].parent = p /\ rec'[t].detached = d /\ rec'[t].status = "queued"
      /\ ~rec'[t].cancelRequested /\ rec'[t].accepting
  BY <1>1 DEF TypeOK, NewRecord, Absent
<1>5. ~Active(t) /\ ~Terminal(t) /\ Active(t)'
  BY <1>2, <1>4 DEF Fresh, Present, Active, Terminal, ActiveStatuses, TerminalStatuses
<1>6. \A x \in Tasks \ {t} : (Active(x)' <=> Active(x)) /\ (Present(x)' <=> Present(x))
  BY <1>3 DEF Active, Present
<1>7. Unborn'
  BY <1>1, <1>6 DEF Unborn, Fresh
<1>8. Covered'
  <2> SUFFICES ASSUME NEW k \in Slots, NEW q \in Tasks, fin[k][q].ph = "commit"
               PROVE  /\ Active(q)' => ~rec'[q].accepting
                      /\ \A c \in Tasks : Attached(c, q)' =>
                            c \in fin[k][q].todo \/ rec'[c].cancelRequested
    BY DEF Covered
  <2>1. q # t
    BY <1>2 DEF Fresh
  <2>2. Active(q)' => ~rec'[q].accepting
    BY <1>1, <1>3, <1>6, <2>1 DEF Covered
  <2>3. ~Attached(t, q)'
    <3>1. CASE p = q
      BY <1>1, <1>2, <3>1, TasksAssumption DEF Covered
    <3>2. CASE p # q
      BY <1>4, <3>2 DEF Attached
    <3> QED
      BY <3>1, <3>2
  <2>4. \A c \in Tasks \ {t} : Attached(c, q)' =>
            c \in fin[k][q].todo \/ rec'[c].cancelRequested
    BY <1>1, <1>3, <1>6 DEF Covered, Attached
  <2> QED
    BY <2>2, <2>3, <2>4
<1>9. NoOrphan'
  <2> SUFFICES ASSUME NEW c \in Tasks, Active(c)', rec'[c].parent # NoTask,
                      ~rec'[c].detached, ~Active(rec[c].parent)'
               PROVE  rec'[c].cancelRequested
    BY DEF NoOrphan
  <2>1. CASE c = t
    <3>1. Active(p) /\ p \in Tasks \ {t}
      BY <1>2, <1>4, <1>5, <2>1
    <3>2. Active(p)'
      BY <1>6, <3>1
    <3> QED
      BY <1>4, <2>1, <3>2 DEF Active
  <2>2. CASE c # t
    <3> DEFINE q == rec[c].parent
    <3>1. rec'[c] = rec[c] /\ q \in Tasks
      <4>1. rec[c] \in TaskRecord /\ rec'[c] = rec[c]
        BY <1>1, <1>3, <2>2 DEF TypeOK
      <4> QED
        BY <4>1 DEF TaskRecord
    <3>2. ~Active(q)'
      BY <3>1 DEF Active
    <3>3. ~Active(q) /\ Active(c)
      BY <1>5, <1>6, <2>2, <3>1, <3>2
    <3> QED
      BY <1>1, <3>1, <3>3 DEF NoOrphan
  <2> QED
    BY <2>1, <2>2
<1> QED
  BY <1>3, <1>5, <1>7, <1>8, <1>9 DEF IInv

-----------------------------------------------------------------------------
(***************************************************************************)
(* All the steps together.                                                 *)
(***************************************************************************)

\* A finished record is forgotten or stays.
Frozen ==
    \A t \in Tasks : Terminal(t) =>
        \/ rec'[t].status = "absent"
        \/ /\ rec'[t].status = rec[t].status
           /\ rec'[t].result = rec[t].result
           /\ rec'[t].cancelRequested = rec[t].cancelRequested

\* No record becomes active once the coordinator is closed.
NoRevival == open \/ \A x \in Tasks : Active(x)' => Active(x)

(* In the initial state no task is recorded and no call is in flight. *)
LEMMA InitIInv == Init => IInv
<1> SUFFICES ASSUME Init PROVE IInv
  OBVIOUS
<1>1. \A x \in Tasks : Fresh(x)
  BY DEF Init, Fresh, Present, Absent, Idle
<1>2. \A x \in Tasks : ~Active(x) /\ \A k \in Slots : fin[k][x].ph = "idle"
  BY <1>1 DEF Fresh, Present, Active, ActiveStatuses
<1> QED
  BY <1>1, <1>2, InitTypeOK DEF IInv, Unborn, Covered, NoOrphan

(* Every step preserves the invariant and leaves terminal outcomes alone. *)
LEMMA NextIInv == IInv /\ [Next]_vars => IInv' /\ Frozen /\ NoRevival
<1> SUFFICES ASSUME IInv, [Next]_vars
             PROVE  IInv' /\ Frozen /\ NoRevival
  OBVIOUS
<1>t. TypeOK /\ TypeOK'
  BY NextTypeOK DEF IInv
<1>r. ASSUME Regular
      PROVE  IInv' /\ Frozen /\ NoRevival
  <2>1. IInv'
    BY <1>t, <1>r, RegularStep
  <2> QED
    BY <1>r, <2>1 DEF Regular, Steady, Frozen, NoRevival
<1>s. /\ "cancelled" \in TerminalStatuses
      /\ "failed" \in TerminalStatuses
  BY DEF TerminalStatuses
<1>p. pc \in [Tasks -> {"none", "reserved", "spawned", "body", "calling",
                        "finish", "cleanup", "epilogue", "gone"}]
  BY <1>t DEF TypeOK
<1>1. ASSUME NEW t \in Tasks, NEW p \in Tasks \cup {NoTask}, NEW d \in BOOLEAN,
             NEW a \in Principals, Reserve(t, p, d, a)
      PROVE  IInv' /\ Frozen /\ NoRevival
  <2>1. \A x \in Tasks \ {t} : pc[x] = "none" => pc'[x] = "none"
    BY <1>1, <1>p DEF Reserve
  <2>2. IInv' /\ \A x \in Tasks : Terminal(x) => rec'[x] = rec[x]
    BY <1>1, <1>t, <2>1, CreateStep DEF Reserve
  <2> QED
    BY <1>1, <2>2 DEF Frozen, NoRevival, Reserve, MayCreate
<1>2. ASSUME NEW t \in Tasks, NEW p \in Tasks \cup {NoTask}, NEW a \in Principals,
             CreateQueuedTask(t, p, a)
      PROVE  IInv' /\ Frozen /\ NoRevival
  <2>1. IInv' /\ \A x \in Tasks : Terminal(x) => rec'[x] = rec[x]
    BY <1>2, <1>t, CreateStep DEF CreateQueuedTask
  <2> QED
    BY <1>2, <2>1 DEF Frozen, NoRevival, CreateQueuedTask, MayCreate
<1>3. ASSUME NEW t \in Tasks, NEW a \in Principals, TrackCurrentTask(t, a)
      PROVE  IInv' /\ Frozen /\ NoRevival
  <2>1. \A x \in Tasks \ {t} : pc[x] = "none" => pc'[x] = "none"
    BY <1>3, <1>p DEF TrackCurrentTask
  <2>2. IInv' /\ \A x \in Tasks : Terminal(x) => rec'[x] = rec[x]
    BY <1>3, <1>t, <2>1, CreateStep DEF TrackCurrentTask
  <2> QED
    BY <1>3, <2>2 DEF Frozen, NoRevival, TrackCurrentTask, MayCreate
<1>4. ASSUME NEW t \in Tasks, NEW p \in Tasks, NEW a \in Principals, RunInline(t, p, a)
      PROVE  IInv' /\ Frozen /\ NoRevival
  <2>1. \A x \in Tasks \ {t} : pc[x] = "none" => pc'[x] = "none"
    BY <1>4, <1>p DEF RunInline
  <2>2. IInv' /\ \A x \in Tasks : Terminal(x) => rec'[x] = rec[x]
    BY <1>4, <1>t, <2>1, CreateStep DEF RunInline
  <2> QED
    BY <1>4, <2>2 DEF Frozen, NoRevival, RunInline, MayCreate
<1>5. ASSUME NEW t \in Tasks, Spawn(t) \/ SwallowCancel(t)
      PROVE  IInv' /\ Frozen /\ NoRevival
  BY <1>5, <1>t, <1>p, <1>r, IdleStep DEF Spawn, SwallowCancel
<1>6. ASSUME NEW t \in Tasks, TrackExistingTask(t)
      PROVE  IInv' /\ Frozen /\ NoRevival
  BY <1>6, <1>t, <1>r, TrackStep
<1>7. ASSUME NEW t \in Tasks, NEW s \in TerminalStatuses,
             DeliverCancel(t) \/ AbortReservation(t) \/ Raise(t) \/ Return(t, s)
      PROVE  IInv' /\ Frozen /\ NoRevival
  <2>1. /\ UNCHANGED <<rec, created>>
        /\ pc[t] # "none"
        /\ \A x \in Tasks : pc[x] = "none" => pc'[x] = "none"
    BY <1>7, <1>p DEF DeliverCancel, AbortReservation, Raise, Return
  <2>2. \E u \in TerminalStatuses : fin' = Begin("own", t, u)
    BY <1>7, <1>s DEF DeliverCancel, AbortReservation, Raise, Return
  <2> QED
    BY <1>t, <1>r, <2>1, <2>2, OwnCallStep
<1>8. ASSUME NEW k \in Slots, NEW t \in Tasks, CloseToChildren(k, t)
      PROVE  IInv' /\ Frozen /\ NoRevival
  <2>1. IInv' /\ \A x \in Tasks : Steady(x)
    BY <1>8, <1>t, CloseStep
  <2> QED
    BY <2>1 DEF Steady, Frozen, NoRevival
<1>9. ASSUME NEW k \in Slots, NEW t \in Tasks, NEW c \in Tasks, CancelChild(k, t, c)
      PROVE  IInv' /\ Frozen /\ NoRevival
  BY <1>9, <1>t, <1>r, CancelChildStep
<1>10. ASSUME NEW k \in Slots, NEW t \in Tasks, PublishTerminal(k, t)
       PROVE  IInv' /\ Frozen /\ NoRevival
  BY <1>10, <1>t, <1>r, PublishStep
<1>11. ASSUME NEW t \in Tasks, \/ MarkStarted(t)
                               \/ \E b \in BOOLEAN : PublishProgress(t, b)
                               \/ RecordResult(t)
       PROVE  IInv' /\ Frozen /\ NoRevival
  BY <1>11, <1>t, <1>r, BodyReport
<1>12. ASSUME NEW t \in Tasks, CancelTask(t)
       PROVE  IInv' /\ Frozen /\ NoRevival
  BY <1>12, <1>t, <1>r, CancelStep DEF CancelTask
<1>13. ASSUME NEW t \in Tasks, ShutdownCancel(t)
       PROVE  IInv' /\ Frozen /\ NoRevival
  <2>1. CASE ~Active(t)
    BY <1>13, <1>t, <1>r, <2>1, IdleStep DEF ShutdownCancel
  <2>2. CASE Active(t)
    BY <1>13, <1>t, <1>r, <2>2, CancelStep DEF ShutdownCancel
  <2> QED
    BY <2>1, <2>2
<1>14. ASSUME NEW t \in Tasks, SweepTask(t)
       PROVE  IInv' /\ Frozen /\ NoRevival
  BY <1>14, <1>t, <1>r, SweepStep
<1>15. ASSUME ShutdownBegin \/ ShutdownDrain \/ ShutdownSweep \/ ShutdownDone
       PROVE  IInv' /\ Frozen /\ NoRevival
  BY <1>15, <1>t, <1>p, <1>r, IdleStep
     DEF ShutdownBegin, ShutdownDrain, ShutdownSweep, ShutdownDone
<1>16. ASSUME NEW w \in Waiters, WaiterStep(w)
       PROVE  IInv' /\ Frozen /\ NoRevival
  BY <1>16, <1>t, <1>r, IdleStep DEF WaiterStep, WaitForTasks, WaiterWakes, WaitTimesOut
<1>17. CASE UNCHANGED vars
  BY <1>17, <1>t, <1>r, IdleStep DEF vars
<1> QED
  BY <1>1, <1>2, <1>3, <1>4, <1>5, <1>6, <1>7, <1>8, <1>9, <1>10, <1>11, <1>12,
     <1>13, <1>14, <1>15, <1>16, <1>17, <1>s
     DEF Next, Create, CoroutineStep, CallStep, BodyStep, ShutdownStep

\* A child that is attached to its parent's lifecycle and outlives it has been
\* asked to stop, for any number of tasks in any arrangement of parents and any
\* interleaving of the mark_* calls.
THEOREM NoOrphanEver == Spec => []NoOrphan
<1>1. IInv => NoOrphan
  BY DEF IInv
<1> QED
  BY <1>1, InitIInv, NextIInv, PTL DEF Spec

\* The first outcome published for a task is the one it keeps until it is
\* forgotten.
THEOREM OutcomeKept == Spec => TerminalFrozen
<1>1. IInv /\ [Next]_vars => [Frozen]_vars
  BY NextIInv
<1> QED
  BY <1>1, InitIInv, NextIInv, PTL DEF Spec, TerminalFrozen, Frozen

-----------------------------------------------------------------------------
(***************************************************************************)
(* wait_for_tasks.                                                         *)
(***************************************************************************)

\* What a waiter looks at in the record of x.
Looks(x) == rec'[x].status = rec[x].status /\ rec'[x].attention = rec[x].attention

\* After notify_all nobody is parked.
LEMMA Notified ==
    ASSUME TypeOK, NotifyAll
    PROVE  NoLostWakeup'
<1>1. \A w \in Waiters : waits'[w].st # "parked"
  BY DEF NotifyAll, TypeOK
<1> QED
  BY <1>1 DEF NoLostWakeup

\* Nobody needs to be woken for what waiters do not look at.
LEMMA Unnoticed ==
    ASSUME TypeOK, NoLostWakeup, waits' = waits, \A x \in Tasks : Looks(x)
    PROVE  NoLostWakeup'
<1>1. \A w \in Waiters : waits[w].ids \in SUBSET Tasks
  BY DEF TypeOK
<1> QED
  BY <1>1 DEF NoLostWakeup, Ready, Present, Terminal, Looks

\* Every step that changes what a waiter looks at notifies the condition, and a
\* waiter parks only if there is nothing to be woken for.
LEMMA NextNoLostWakeup ==
    ASSUME TypeOK, NoLostWakeup, [Next]_vars
    PROVE  NoLostWakeup'
<1>r. \A x \in Tasks : rec[x] \in TaskRecord
  BY DEF TypeOK
<1>u. ASSUME waits' = waits, rec' = rec
      PROVE  NoLostWakeup'
  BY <1>u, Unnoticed DEF Looks
<1>1. ASSUME NEW t \in Tasks, Create(t)
      PROVE  NoLostWakeup'
  BY <1>1, Notified DEF Create, Reserve, CreateQueuedTask, TrackCurrentTask, RunInline
<1>2. ASSUME NEW t \in Tasks, TrackExistingTask(t)
      PROVE  NoLostWakeup'
  <2>1. waits' = waits
    BY <1>2 DEF TrackExistingTask
  <2>2. ASSUME NEW x \in Tasks
        PROVE  Looks(x)
    <3>1. \/ rec'[x] = rec[x]
          \/ rec'[x] = [rec[x] EXCEPT !.handle = TRUE, !.awaiting = FALSE]
      BY <1>2 DEF TrackExistingTask, TypeOK
    <3> QED
      BY <1>r, <3>1 DEF Looks, TaskRecord
  <2> QED
    BY <2>1, <2>2, Unnoticed
<1>3. ASSUME NEW t \in Tasks, Spawn(t) \/ DeliverCancel(t) \/ SwallowCancel(t)
      PROVE  NoLostWakeup'
  BY <1>3, <1>u DEF Spawn, DeliverCancel, SwallowCancel
<1>4. ASSUME NEW k \in Slots, NEW t \in Tasks, CloseToChildren(k, t)
      PROVE  NoLostWakeup'
  <2>1. waits' = waits
    BY <1>4 DEF CloseToChildren
  <2>2. ASSUME NEW x \in Tasks
        PROVE  Looks(x)
    <3>1. rec'[x] = rec[x] \/ rec'[x] = [rec[x] EXCEPT !.accepting = FALSE]
      BY <1>4 DEF CloseToChildren, TypeOK
    <3> QED
      BY <1>r, <3>1 DEF Looks, TaskRecord
  <2> QED
    BY <2>1, <2>2, Unnoticed
<1>5. ASSUME NEW k \in Slots, NEW t \in Tasks, NEW c \in Tasks, CancelChild(k, t, c)
      PROVE  NoLostWakeup'
  BY <1>5, <1>u, Notified DEF CancelChild, RequestCancel
<1>6. ASSUME NEW k \in Slots, NEW t \in Tasks, PublishTerminal(k, t)
      PROVE  NoLostWakeup'
  BY <1>6, <1>u, Notified DEF PublishTerminal, MarkTerminal
<1>7. ASSUME NEW t \in Tasks, BodyStep(t)
      PROVE  NoLostWakeup'
  BY <1>7, <1>u, Notified
     DEF BodyStep, MarkStarted, PublishProgress, RecordResult, Return, Raise
<1>8. ASSUME NEW t \in Tasks, AbortReservation(t)
      PROVE  NoLostWakeup'
  BY <1>8, <1>u DEF AbortReservation
<1>9. ASSUME NEW t \in Tasks, CancelTask(t) \/ ShutdownCancel(t)
      PROVE  NoLostWakeup'
  BY <1>9, <1>u, Notified DEF CancelTask, ShutdownCancel, RequestCancel
<1>10. ASSUME NEW t \in Tasks, SweepTask(t)
       PROVE  NoLostWakeup'
  BY <1>10, <1>u DEF SweepTask
<1>11. ASSUME ShutdownBegin \/ ShutdownDrain \/ ShutdownSweep \/ ShutdownDone
       PROVE  NoLostWakeup'
  BY <1>11, <1>u DEF ShutdownBegin, ShutdownDrain, ShutdownSweep, ShutdownDone
<1>12. ASSUME NEW w \in Waiters, WaiterStep(w)
       PROVE  NoLostWakeup'
  <2>0. rec' = rec
    BY <1>12 DEF WaiterStep, WaitForTasks, WaiterWakes, WaitTimesOut
  <2>1. ASSUME NEW v \in Waiters, waits'[v].st = "parked"
        PROVE  ~Ready(waits'[v].ids, waits'[v].onAttention)
    <3>1. CASE v # w
      <4>1. waits'[v] = waits[v]
        BY <1>12, <3>1 DEF WaiterStep, WaitForTasks, WaiterWakes, WaitTimesOut, TypeOK
      <4> QED
        BY <2>1, <4>1 DEF NoLostWakeup
    <3>2. CASE v = w
      <4>1. ASSUME NEW ids \in SUBSET Tasks, NEW b \in BOOLEAN, WaitForTasks(w, ids, b)
            PROVE  ~Ready(waits'[v].ids, waits'[v].onAttention)
        <5>1. waits'[w] = [st |-> "parked", ids |-> ids, onAttention |-> b]
          BY <4>1 DEF WaitForTasks, TypeOK
        <5> QED
          BY <3>2, <4>1, <5>1 DEF WaitForTasks
      <4>2. CASE WaiterWakes(w)
        <5> DEFINE st == IF Ready(waits[w].ids, waits[w].onAttention) THEN "idle" ELSE "parked"
        <5>1. waits'[w] = [waits[w] EXCEPT !.st = st]
          BY <4>2 DEF WaiterWakes, TypeOK
        <5>2. waits[w] \in [st : {"idle", "parked", "woken"},
                            ids : SUBSET Tasks, onAttention : BOOLEAN]
          BY DEF TypeOK
        <5> HIDE DEF st
        <5>3. /\ waits'[w].st = st
              /\ waits'[w].ids = waits[w].ids
              /\ waits'[w].onAttention = waits[w].onAttention
          BY <5>1, <5>2
        <5> QED
          BY <2>1, <3>2, <5>3 DEF st
      <4>3. CASE WaitTimesOut(w)
        <5>1. waits'[w].st = "idle"
          BY <4>3 DEF WaitTimesOut, TypeOK
        <5> QED
          BY <2>1, <3>2, <5>1
      <4> QED
        BY <1>12, <4>1, <4>2, <4>3 DEF WaiterStep
    <3> QED
      BY <3>1, <3>2
  <2> QED
    BY <2>0, <2>1 DEF NoLostWakeup, Ready, Present, Terminal
<1>13. CASE UNCHANGED vars
  BY <1>13, <1>u DEF vars
<1> QED
  BY <1>1, <1>2, <1>3, <1>4, <1>5, <1>6, <1>7, <1>8, <1>9, <1>10, <1>11, <1>12, <1>13
     DEF Next, CoroutineStep, CallStep, ShutdownStep

\* A caller of wait_for_tasks never sleeps over a change it waits for.
THEOREM NoWakeupLost == Spec => []NoLostWakeup
<1>1. Init => NoLostWakeup
  BY DEF Init, NoLostWakeup
<1>2. TypeOK /\ NoLostWakeup /\ [Next]_vars => NoLostWakeup'
  BY NextNoLostWakeup
<1> QED
  BY <1>1, <1>2, TypeCorrect, PTL DEF Spec

-----------------------------------------------------------------------------
(***************************************************************************)
(* The terminal history.                                                   *)
(***************************************************************************)

\* The step leaves the history and the set of finished records alone.
LEMMA HistoryKept ==
    ASSUME HistoryExact, order' = order, \A x \in Tasks : Terminal(x)' <=> Terminal(x)
    PROVE  HistoryExact'
BY DEF HistoryExact

\* One field of one record changes, and not from or to a terminal status.
LEMMA SameEnds ==
    ASSUME TypeOK, NEW t \in Tasks, NEW b \in BOOLEAN,
           \/ rec' = [rec EXCEPT ![t].cancelRequested = TRUE]
           \/ rec' = [rec EXCEPT ![t].status = "running"] /\ rec[t].status = "queued"
           \/ rec' = [rec EXCEPT ![t].attention = b]
           \/ rec' = [rec EXCEPT ![t].accepting = FALSE]
           \/ rec' = [rec EXCEPT ![t].result = TRUE]
           \/ rec' = [rec EXCEPT ![t] = [@ EXCEPT !.handle = TRUE, !.awaiting = FALSE]]
    PROVE  \A x \in Tasks : Terminal(x)' <=> Terminal(x)
<1> SUFFICES ASSUME NEW x \in Tasks
             PROVE  Terminal(x)' <=> Terminal(x)
  OBVIOUS
<1>1. rec[x] \in TaskRecord
  BY DEF TypeOK
<1>2. CASE x # t
  <2>1. rec'[x] = rec[x]
    BY <1>2 DEF TypeOK
  <2> QED
    BY <2>1 DEF Terminal
<1>3. ASSUME x = t
      PROVE  \/ rec'[x] = [rec[x] EXCEPT !.cancelRequested = TRUE]
             \/ rec'[x] = [rec[x] EXCEPT !.status = "running"] /\ rec[x].status = "queued"
             \/ rec'[x] = [rec[x] EXCEPT !.attention = b]
             \/ rec'[x] = [rec[x] EXCEPT !.accepting = FALSE]
             \/ rec'[x] = [rec[x] EXCEPT !.result = TRUE]
             \/ rec'[x] = [rec[x] EXCEPT !.handle = TRUE, !.awaiting = FALSE]
  <2>1. rec \in [Tasks -> TaskRecord]
    BY DEF TypeOK
  <2> QED
    BY <1>3, <2>1
<1>4. x = t => (rec'[x].status = rec[x].status \/ (rec'[x].status = "running" /\ rec[x].status = "queued"))
  BY <1>1, <1>3 DEF TaskRecord
<1> QED
  BY <1>2, <1>4 DEF Terminal, TerminalStatuses

\* _mark_terminal on an active task: it enters the history at the end and, when
\* the history is full, the oldest one leaves both the history and _records.
LEMMA PublishHistory ==
    ASSUME TypeOK, HistoryExact, NEW k \in Slots, NEW t \in Tasks,
           PublishTerminal(k, t), Active(t)
    PROVE  HistoryExact'
<1> DEFINE n == Len(order)
           h == Append(order, t)
           e == Excess(h)
<1>1. /\ order \in Seq(Tasks) /\ n \in Nat /\ n <= HistoryLimit
      /\ HistoryLimit \in Nat \ {0}
  BY TasksAssumption DEF TypeOK, HistoryExact
<1>2. \A i \in 1..n : Terminal(order[i]) /\ order[i] \in Tasks /\ order[i] # t
  BY <1>1 DEF HistoryExact, Active, Terminal, ActiveStatuses, TerminalStatuses
<1>3. Remembered(t) = h
  <2>1. {i \in DOMAIN order : order[i] = t} = {}
    BY <1>1, <1>2
  <2> QED
    BY <2>1 DEF Remembered
<1>4. /\ h \in Seq(Tasks) /\ Len(h) = n + 1
      /\ h[n + 1] = t
      /\ \A i \in 1..n : h[i] = order[i]
  BY <1>1
<1> HIDE DEF h
<1>5. \A i, j \in 1..(n + 1) : h[i] = h[j] => i = j
  BY <1>1, <1>2, <1>4 DEF HistoryExact
<1>6. e = IF n = HistoryLimit THEN 1 ELSE 0
  BY <1>1, <1>4 DEF Excess
<1>7. /\ order' = SubSeq(h, e + 1, Len(h))
      /\ rec' = [x \in Tasks |->
                   IF x \in {y \in Evicted(h) : y = t \/ Terminal(y)}
                   THEN [rec[x] EXCEPT !.status = "absent"]
                   ELSE IF x = t THEN [rec[t] EXCEPT !.status = fin[k][t].st, !.handle = FALSE]
                   ELSE rec[x]]
  BY <1>3 DEF PublishTerminal, MarkTerminal
<1>8. Evicted(h) = IF e = 1 THEN {h[1]} ELSE {}
  BY <1>1, <1>4, <1>6 DEF Evicted
<1> HIDE DEF e
<1>9. ASSUME NEW x \in Tasks
      PROVE  Terminal(x)' <=> ((Terminal(x) \/ x = t) /\ ~(e = 1 /\ x = h[1]))
  <2>1. rec[x] \in TaskRecord /\ fin[k][t].st \in TerminalStatuses
    BY CallType DEF TypeOK
  <2>2. CASE e = 1 /\ x = h[1]
    <3>1. Terminal(x)
      BY <1>1, <1>2, <1>4, <1>6, <2>2
    <3>2. rec'[x] = [rec[x] EXCEPT !.status = "absent"]
      BY <1>7, <1>8, <2>2, <3>1
    <3>3. rec'[x].status = "absent"
      BY <2>1, <3>2 DEF TaskRecord
    <3> QED
      BY <2>2, <3>3 DEF Terminal, TerminalStatuses
  <2>3. CASE ~(e = 1 /\ x = h[1])
    <3>0. x \notin {y \in Evicted(h) : y = t \/ Terminal(y)}
      BY <1>8, <2>3
    <3>1. rec'[x] = IF x = t THEN [rec[x] EXCEPT !.status = fin[k][t].st, !.handle = FALSE]
                    ELSE rec[x]
      BY <1>7, <3>0, Zenon
    <3>2. x = t => rec'[x].status \in TerminalStatuses
      BY <2>1, <3>1 DEF TaskRecord
    <3> QED
      BY <2>3, <3>1, <3>2 DEF Terminal
  <2> QED
    BY <2>2, <2>3
<1>10. /\ order' \in Seq(Tasks) /\ Len(order') = n + 1 - e
       /\ \A i \in 1..(n + 1 - e) : order'[i] = h[i + e]
  <2>0. n + 1 \in Nat /\ n + 1 >= 1
    BY <1>1
  <2>1. CASE e = 0
    <3>1. order' = SubSeq(h, 1, n + 1)
      BY <1>4, <1>7, <2>1
    <3> QED
      BY <1>4, <2>0, <2>1, <3>1
  <2>2. CASE e = 1
    <3>1. order' = SubSeq(h, 2, n + 1)
      BY <1>4, <1>7, <2>2
    <3>2. n >= 1
      BY <1>1, <1>6, <2>2
    <3> QED
      BY <1>1, <1>4, <2>0, <2>2, <3>1, <3>2
  <2> QED
    BY <1>6, <2>1, <2>2
<1>11. Len(order') <= HistoryLimit
  BY <1>1, <1>6, <1>10
<1>12. \A i, j \in DOMAIN order' : order'[i] = order'[j] => i = j
  <2> SUFFICES ASSUME NEW i \in 1..(n + 1 - e), NEW j \in 1..(n + 1 - e), order'[i] = order'[j]
               PROVE  i = j
    BY <1>10
  <2>1. i + e \in 1..(n + 1) /\ j + e \in 1..(n + 1)
    BY <1>1, <1>6
  <2>2. h[i + e] = h[j + e]
    BY <1>10
  <2>3. i + e = j + e
    BY <1>5, <2>1, <2>2
  <2> QED
    BY <1>6, <2>3
<1>13. {order'[i] : i \in DOMAIN order'} = {x \in Tasks : Terminal(x)'}
  <2>0. DOMAIN order' = 1..(n + 1 - e)
    BY <1>10
  <2>1. ASSUME NEW x \in Tasks, NEW i \in 1..(n + 1 - e), order'[i] = x
        PROVE  Terminal(x)'
    <3> DEFINE m == i + e
    <3>1. m \in 1..(n + 1) /\ x = h[m]
      <4>1. x = h[i + e]
        BY <1>10, <2>1
      <4>2. i + e \in 1..(n + 1)
        BY <1>1, <1>6
      <4> QED
        BY <4>1, <4>2
    <3>2. Terminal(x) \/ x = t
      BY <1>1, <1>2, <1>4, <3>1
    <3>3. ~(e = 1 /\ x = h[1])
      <4>1. e = 1 => m # 1 /\ 1 \in 1..(n + 1)
        BY <1>1
      <4> QED
        BY <1>5, <3>1, <4>1
    <3> QED
      BY <1>9, <3>2, <3>3
  <2>2. ASSUME NEW x \in Tasks, Terminal(x)'
        PROVE  \E i \in 1..(n + 1 - e) : order'[i] = x
    <3>1. (Terminal(x) \/ x = t) /\ ~(e = 1 /\ x = h[1])
      BY <1>9, <2>2
    <3>2. PICK m \in 1..(n + 1) : h[m] = x
      <4>1. CASE x = t
        BY <1>1, <1>4, <4>1
      <4>2. CASE Terminal(x)
        <5>1. PICK i \in DOMAIN order : order[i] = x
          BY <4>2 DEF HistoryExact
        <5> QED
          BY <1>1, <1>4, <5>1
      <4> QED
        BY <3>1, <4>1, <4>2
    <3>3. m - e \in 1..(n + 1 - e)
      BY <1>1, <1>6, <3>1, <3>2
    <3>4. order'[m - e] = h[m]
      BY <1>1, <1>6, <1>10, <3>3
    <3> QED
      BY <3>2, <3>3, <3>4
  <2>3. \A i \in 1..(n + 1 - e) : order'[i] \in Tasks
    BY <1>10, <2>0
  <2> QED
    BY <2>0, <2>1, <2>2, <2>3
<1> QED
  BY <1>11, <1>12, <1>13 DEF HistoryExact

(* Every step keeps the terminal history exact (_mark_terminal, _prune). *)
LEMMA NextHistory ==
    ASSUME IInv, HistoryExact, [Next]_vars
    PROVE  HistoryExact'
<1>t. TypeOK
  BY DEF IInv
<1>u. ASSUME order' = order, rec' = rec
      PROVE  HistoryExact'
  BY <1>u, HistoryKept DEF Terminal
<1>f. ASSUME NEW t \in Tasks, NEW b \in BOOLEAN, order' = order,
             \/ rec' = [rec EXCEPT ![t].cancelRequested = TRUE]
             \/ rec' = [rec EXCEPT ![t].status = "running"] /\ rec[t].status = "queued"
             \/ rec' = [rec EXCEPT ![t].attention = b]
             \/ rec' = [rec EXCEPT ![t].accepting = FALSE]
             \/ rec' = [rec EXCEPT ![t].result = TRUE]
             \/ rec' = [rec EXCEPT ![t] = [@ EXCEPT !.handle = TRUE, !.awaiting = FALSE]]
      PROVE  HistoryExact'
  BY <1>f, <1>t, SameEnds, HistoryKept
<1>1. ASSUME NEW t \in Tasks, Create(t)
      PROVE  HistoryExact'
  <2>1. /\ order' = order
        /\ \E p \in Tasks \cup {NoTask}, d \in BOOLEAN, a \in Principals, h \in BOOLEAN, w \in BOOLEAN :
              MayCreate(t, p, a) /\ rec' = [rec EXCEPT ![t] = NewRecord(p, d, a, h, w)]
    BY <1>1, ZenonT(30) DEF Create, Reserve, CreateQueuedTask, TrackCurrentTask, RunInline
  <2>2. ~Terminal(t)
    BY <2>1 DEF IInv, Unborn, Fresh, MayCreate, Present, Terminal, TerminalStatuses
  <2>3. rec'[t].status = "queued" /\ \A x \in Tasks \ {t} : rec'[x] = rec[x]
    BY <1>t, <2>1 DEF TypeOK, NewRecord, Absent
  <2>4. \A x \in Tasks : Terminal(x)' <=> Terminal(x)
    BY <2>2, <2>3 DEF Terminal, TerminalStatuses
  <2> QED
    BY <2>1, <2>4, HistoryKept
<1>2. ASSUME NEW t \in Tasks, TrackExistingTask(t)
      PROVE  HistoryExact'
  BY <1>2, <1>f, <1>u DEF TrackExistingTask
<1>3. ASSUME NEW t \in Tasks, Spawn(t) \/ DeliverCancel(t) \/ SwallowCancel(t)
      PROVE  HistoryExact'
  BY <1>3, <1>u DEF Spawn, DeliverCancel, SwallowCancel
<1>4. ASSUME NEW k \in Slots, NEW t \in Tasks, CloseToChildren(k, t)
      PROVE  HistoryExact'
  BY <1>4, <1>f, <1>u DEF CloseToChildren
<1>5. ASSUME NEW k \in Slots, NEW t \in Tasks, NEW c \in Tasks, CancelChild(k, t, c)
      PROVE  HistoryExact'
  BY <1>5, <1>f, <1>u DEF CancelChild, RequestCancel
<1>6. ASSUME NEW k \in Slots, NEW t \in Tasks, PublishTerminal(k, t)
      PROVE  HistoryExact'
  <2>1. CASE Active(t)
    BY <1>6, <1>t, <2>1, PublishHistory
  <2>2. CASE ~Active(t)
    BY <1>6, <1>u, <2>2 DEF PublishTerminal
  <2> QED
    BY <2>1, <2>2
<1>7. ASSUME NEW t \in Tasks, BodyStep(t)
      PROVE  HistoryExact'
  <2>1. ASSUME NEW b \in BOOLEAN, PublishProgress(t, b)
        PROVE  HistoryExact'
    BY <2>1, <1>f DEF PublishProgress
  <2>2. CASE MarkStarted(t)
    BY <2>2, <1>f DEF MarkStarted
  <2>3. CASE RecordResult(t)
    BY <2>3, <1>f DEF RecordResult
  <2>4. ASSUME NEW s \in TerminalStatuses, Return(t, s)
        PROVE  HistoryExact'
    BY <2>4, <1>u DEF Return
  <2>5. CASE Raise(t)
    BY <2>5, <1>u DEF Raise
  <2> QED
    BY <1>7, <2>1, <2>2, <2>3, <2>4, <2>5 DEF BodyStep
<1>8. ASSUME NEW t \in Tasks, AbortReservation(t) \/ SweepTask(t)
      PROVE  HistoryExact'
  BY <1>8, <1>u DEF AbortReservation, SweepTask
<1>9. ASSUME NEW t \in Tasks, CancelTask(t) \/ ShutdownCancel(t)
      PROVE  HistoryExact'
  BY <1>9, <1>u, <1>f DEF CancelTask, ShutdownCancel, RequestCancel
<1>10. ASSUME ShutdownBegin \/ ShutdownDrain \/ ShutdownSweep \/ ShutdownDone
       PROVE  HistoryExact'
  BY <1>10, <1>u DEF ShutdownBegin, ShutdownDrain, ShutdownSweep, ShutdownDone
<1>11. ASSUME NEW w \in Waiters, WaiterStep(w)
       PROVE  HistoryExact'
  BY <1>11, <1>u DEF WaiterStep, WaitForTasks, WaiterWakes, WaitTimesOut
<1>12. CASE UNCHANGED vars
  BY <1>12, <1>u DEF vars
<1> QED
  BY <1>1, <1>2, <1>3, <1>4, <1>5, <1>6, <1>7, <1>8, <1>9, <1>10, <1>11, <1>12
     DEF Next, CoroutineStep, CallStep, ShutdownStep

\* The terminal history is exactly the finished records still kept, whatever
\* terminal_history_limit is.
THEOREM HistoryAlwaysExact == Spec => []HistoryExact
<1>1. Init => HistoryExact
  <2> SUFFICES ASSUME Init PROVE HistoryExact
    OBVIOUS
  <2>1. order = <<>> /\ \A t \in Tasks : ~Terminal(t)
    BY DEF Init, Absent, Terminal, TerminalStatuses
  <2> QED
    BY <2>1, TasksAssumption DEF HistoryExact
<1>2. IInv /\ HistoryExact /\ [Next]_vars => HistoryExact'
  BY NextHistory
<1> QED
  BY <1>1, <1>2, InitIInv, NextIInv, PTL DEF Spec

-----------------------------------------------------------------------------
(***************************************************************************)
(* Shutdown.                                                               *)
(***************************************************************************)

\* The sweep has every active record on its list: the coordinator is closed, so
\* none was added since the list was made.
Swept ==
    /\ open => shut = "up"
    /\ shut = "sweeping" => \A t \in Tasks : Active(t) => t \in shutTodo
    /\ ShutdownComplete

(* A step that leaves the shutdown alone keeps what it knows. *)
LEMMA SweptAside ==
    ASSUME Swept, NoRevival, UNCHANGED <<open, shut, shutTodo>>
    PROVE  Swept'
BY DEF Swept, NoRevival, ShutdownComplete

(* Every step keeps the sweep's list complete (mark_unfinished_cancelled). *)
LEMMA NextSwept ==
    ASSUME IInv, Swept, [Next]_vars
    PROVE  Swept'
<1>n. NoRevival
  BY NextIInv
<1>1. ASSUME NEW t \in Tasks, Create(t)
      PROVE  Swept'
  BY <1>1, <1>n, SweptAside DEF Create, Reserve, CreateQueuedTask, TrackCurrentTask, RunInline
<1>2. ASSUME NEW t \in Tasks, CoroutineStep(t)
      PROVE  Swept'
  BY <1>2, <1>n, SweptAside DEF CoroutineStep, Spawn, TrackExistingTask, DeliverCancel, SwallowCancel
<1>3. ASSUME NEW k \in Slots, NEW t \in Tasks, CallStep(k, t)
      PROVE  Swept'
  BY <1>3, <1>n, SweptAside DEF CallStep, CloseToChildren, CancelChild, PublishTerminal
<1>4. ASSUME NEW t \in Tasks, BodyStep(t)
      PROVE  Swept'
  BY <1>4, <1>n, SweptAside DEF BodyStep, MarkStarted, PublishProgress, RecordResult, Return, Raise
<1>5. ASSUME NEW t \in Tasks, AbortReservation(t) \/ CancelTask(t)
      PROVE  Swept'
  BY <1>5, <1>n, SweptAside DEF AbortReservation, CancelTask
<1>6. CASE ShutdownBegin
  BY <1>6 DEF ShutdownBegin, Swept, ShutdownComplete
<1>7. ASSUME NEW t \in Tasks, ShutdownCancel(t)
      PROVE  Swept'
  BY <1>7 DEF ShutdownCancel, Swept, ShutdownComplete
<1>8. CASE ShutdownDrain
  BY <1>8 DEF ShutdownDrain, Swept, ShutdownComplete
<1>9. CASE ShutdownSweep
  BY <1>9 DEF ShutdownSweep, Swept, ShutdownComplete, Active
<1>10. ASSUME NEW t \in Tasks, SweepTask(t)
       PROVE  Swept'
  BY <1>10 DEF SweepTask, Swept, ShutdownComplete, Active
<1>11. CASE ShutdownDone
  BY <1>11 DEF ShutdownDone, Swept, ShutdownComplete, Active
<1>12. ASSUME NEW w \in Waiters, WaiterStep(w)
       PROVE  Swept'
  BY <1>12, <1>n, SweptAside DEF WaiterStep, WaitForTasks, WaiterWakes, WaitTimesOut
<1>13. CASE UNCHANGED vars
  BY <1>13, <1>n, SweptAside DEF vars
<1> QED
  BY <1>1, <1>2, <1>3, <1>4, <1>5, <1>6, <1>7, <1>8, <1>9, <1>10, <1>11, <1>12, <1>13
     DEF Next, ShutdownStep

\* When RuntimeContext.shutdown returns no task is queued or running, whatever
\* was being reserved, spawned or finished when it began, for any number of
\* tasks.
THEOREM NothingLeftRunning == Spec => []ShutdownComplete
<1>1. Init => Swept
  BY DEF Init, Swept, ShutdownComplete
<1>2. IInv /\ Swept /\ [Next]_vars => Swept'
  BY NextSwept
<1>3. Swept => ShutdownComplete
  BY DEF Swept
<1> QED
  BY <1>1, <1>2, <1>3, InitIInv, NextIInv, PTL DEF Spec


-----------------------------------------------------------------------------
(***************************************************************************)
(* No terminal state over live work.                                       *)
(*                                                                         *)
(* The argument needs where the coroutines are.  The contexts one asyncio  *)
(* task has entered are a stack (Nested); the depth that orders it is not  *)
(* in the state, so the invariant says that there is one.  Answered says   *)
(* who publishes for which record, Gathered what shutdown has waited for.  *)
(***************************************************************************)

\* The coroutine of t is inside its tracking context: it has entered the body
\* and not left it for good.
InContext(t) == pc[t] \in {"body", "calling", "finish", "cleanup"}

\* An asyncio task runs its root; every inline task in it is below the root,
\* which waits.
Rooted ==
    \A t \in Tasks : InContext(t) =>
        /\ host[host[t]] = host[t]
        /\ host[t] # t => pc[host[t]] = "calling"

\* What start_background runs is its own root.
OwnRoot ==
    \A t \in Tasks :
        /\ pc[t] \in {"none", "reserved", "spawned", "epilogue"} \/ t \in background => host[t] = t
        /\ t \in background => pc[t] \notin {"none", "reserved"}

\* The contexts one asyncio task has entered are a stack: each inline one above
\* the caller that waits for it, at its own depth, and the one that does not
\* wait on top.
Stacked(d) ==
    /\ \A t \in Tasks : InContext(t) /\ host[t] # t =>
          /\ rec[t].parent \in Tasks
          /\ pc[rec[t].parent] = "calling"
          /\ host[rec[t].parent] = host[t]
          /\ d[t] = d[rec[t].parent] + 1
          /\ d[host[t]] < d[t]
    /\ \A t, u \in Tasks : InContext(t) /\ InContext(u) /\ host[t] = host[u] =>
          /\ d[t] = d[u] => t = u
          /\ pc[t] # "calling" => d[u] <= d[t]

Nested == Rooted /\ OwnRoot /\ \E d \in [Tasks -> Nat] : Stacked(d)

\* Who answers for an active record: the coroutine that is to attach, then the
\* handle; a call made for it by somebody else is for a record that has neither,
\* or of the sweep; and the coroutine's own call is after its body.
Answered ==
    \A t \in Tasks :
        /\ Active(t) /\ pc[t] \in {"reserved", "spawned"} => rec[t].awaiting /\ ~rec[t].handle
        /\ Active(t) /\ Working(t) => rec[t].handle
        /\ Active(t) /\ fin["ext"][t].ph # "idle" => Unowned(t) \/ shut \in {"sweeping", "down"}
        /\ fin["own"][t].ph # "idle" => pc[t] \in {"finish", "cleanup", "epilogue"}

\* Once the coordinator is closed every active task is on the list of those to
\* cancel, or asked to stop: a reservation that resumes late does not enter its
\* body.  So after the background tasks are gathered none of them is in one.
Gathered ==
    /\ shut # "up" => /\ ~open
                      /\ \A t \in Tasks : Active(t) =>
                            rec[t].cancelRequested \/ (shut = "cancelling" /\ t \in shutTodo)
    /\ shut \in {"draining", "sweeping", "down"} =>
          \A t \in background : pc[t] \in {"gone", "spawned", "epilogue"}
                                \/ (shut = "draining" /\ t \in shutTodo)

UInv == Nested /\ Answered /\ Gathered

\* Contexts are left, or moved along in, by coroutines that are not waiting.
LEMMA ContextsLeft ==
    ASSUME Nested, host' = host,
           \A x \in Tasks : InContext(x)' => InContext(x) /\ rec'[x].parent = rec[x].parent,
           \A x \in Tasks : pc'[x] = "calling" <=> pc[x] = "calling",
           \A x \in Tasks : pc'[x] \in {"none", "reserved", "spawned", "epilogue"} => host[x] = x,
           \A x \in Tasks : x \in background' => host[x] = x /\ pc'[x] \notin {"none", "reserved"},
           TypeOK
    PROVE  Nested'
<1>0. \A x \in Tasks : host[x] \in Tasks
  BY DEF TypeOK
<1>1. Rooted'
  BY <1>0 DEF Nested, Rooted
<1>2. OwnRoot'
  BY DEF OwnRoot
<1>3. PICK d \in [Tasks -> Nat] : Stacked(d)
  BY DEF Nested
<1>4. Stacked(d)'
  <2>1. ASSUME NEW t \in Tasks, InContext(t)', host[t] # t
        PROVE  /\ rec'[t].parent \in Tasks /\ pc'[rec'[t].parent] = "calling"
               /\ host[rec'[t].parent] = host[t]
               /\ d[t] = d[rec'[t].parent] + 1 /\ d[host[t]] < d[t]
    <3>1. InContext(t) /\ rec'[t].parent = rec[t].parent
      BY <2>1
    <3>2. /\ rec[t].parent \in Tasks /\ pc[rec[t].parent] = "calling"
          /\ host[rec[t].parent] = host[t]
          /\ d[t] = d[rec[t].parent] + 1 /\ d[host[t]] < d[t]
      BY <1>3, <2>1, <3>1 DEF Stacked
    <3>3. QED
      BY <3>1, <3>2
  <2>2. ASSUME NEW t \in Tasks, NEW u \in Tasks, InContext(t)', InContext(u)', host[t] = host[u]
        PROVE  /\ d[t] = d[u] => t = u
               /\ pc'[t] # "calling" => d[u] <= d[t]
    <3>1. InContext(t) /\ InContext(u) /\ (pc'[t] # "calling" => pc[t] # "calling")
      BY <2>2
    <3>2. QED
      BY <1>3, <2>2, <3>1 DEF Stacked
  <2>3. QED
    BY <2>1, <2>2 DEF Stacked
<1>5. QED
  BY <1>1, <1>2, <1>4 DEF Nested

\* A coroutine enters a context at the top of its asyncio task: nothing else is
\* in that task.
LEMMA RootEntered ==
    ASSUME TypeOK, Nested, NEW t \in Tasks, ~InContext(t),
           pc' = [pc EXCEPT ![t] = "body"], host' = [host EXCEPT ![t] = t],
           background' = background,
           \A x \in Tasks : x # t => rec'[x].parent = rec[x].parent
    PROVE  Nested'
<1>0. /\ \A x \in Tasks : host[x] \in Tasks
      /\ \A x \in Tasks : x # t => pc'[x] = pc[x] /\ host'[x] = host[x]
      /\ pc'[t] = "body" /\ host'[t] = t /\ pc[t] # "calling"
  BY DEF TypeOK, InContext
<1>1. \A x \in Tasks : x # t /\ InContext(x)' => InContext(x) /\ host[x] # t
  <2> SUFFICES ASSUME NEW x \in Tasks, x # t, InContext(x)' PROVE InContext(x) /\ host[x] # t
    OBVIOUS
  <2>1. InContext(x)
    BY <1>0 DEF InContext
  <2>2. host[x] # t
    BY <1>0, <2>1 DEF Nested, Rooted
  <2>3. QED
    BY <2>1, <2>2
<1>2. Rooted'
  <2> SUFFICES ASSUME NEW x \in Tasks, InContext(x)'
               PROVE  host'[host'[x]] = host'[x] /\ (host'[x] # x => pc'[host'[x]] = "calling")
    BY DEF Rooted
  <2>1. CASE x = t
    BY <1>0, <2>1
  <2>2. CASE x # t
    BY <1>0, <1>1, <2>2 DEF Nested, Rooted
  <2>3. QED
    BY <2>1, <2>2
<1>3. OwnRoot'
  <2> SUFFICES ASSUME NEW x \in Tasks
               PROVE  /\ pc'[x] \in {"none", "reserved", "spawned", "epilogue"} \/ x \in background => host'[x] = x
                      /\ x \in background => pc'[x] \notin {"none", "reserved"}
    BY DEF OwnRoot
  <2>1. CASE x = t
    BY <1>0, <2>1
  <2>2. CASE x # t
    BY <1>0, <2>2 DEF Nested, OwnRoot
  <2>3. QED
    BY <2>1, <2>2
<1>4. PICK d \in [Tasks -> Nat] : Stacked(d)
  BY DEF Nested
<1>5. Stacked(d)'
  <2>1. ASSUME NEW x \in Tasks, InContext(x)', host'[x] # x
        PROVE  /\ rec'[x].parent \in Tasks /\ pc'[rec'[x].parent] = "calling"
               /\ host'[rec'[x].parent] = host'[x]
               /\ d[x] = d[rec'[x].parent] + 1 /\ d[host'[x]] < d[x]
    <3>1. x # t /\ InContext(x) /\ host'[x] = host[x] /\ host[x] # x /\ rec'[x].parent = rec[x].parent
      BY <1>0, <1>1, <2>1
    <3>2. /\ rec[x].parent \in Tasks /\ pc[rec[x].parent] = "calling"
          /\ host[rec[x].parent] = host[x]
          /\ d[x] = d[rec[x].parent] + 1 /\ d[host[x]] < d[x]
      BY <1>4, <3>1 DEF Stacked
    <3>3. rec[x].parent # t
      BY <1>0, <3>2
    <3>4. pc'[rec[x].parent] = "calling" /\ host'[rec[x].parent] = host[x]
      BY <1>0, <3>2, <3>3
    <3>5. QED
      BY <3>1, <3>2, <3>4
  <2>2. ASSUME NEW x \in Tasks, NEW u \in Tasks, InContext(x)', InContext(u)', host'[x] = host'[u]
        PROVE  /\ d[x] = d[u] => x = u
               /\ pc'[x] # "calling" => d[u] <= d[x]
    <3>1. CASE x = u
      BY <1>4, <3>1
    <3>2. CASE x # u
      <4>1. x # t /\ u # t
        BY <1>0, <1>1, <2>2, <3>2
      <4>2. InContext(x) /\ InContext(u) /\ host[x] = host[u] /\ pc'[x] = pc[x]
        BY <1>0, <1>1, <2>2, <4>1
      <4>3. QED
        BY <1>4, <4>2 DEF Stacked
    <3>3. QED
      BY <3>1, <3>2
  <2>3. QED
    BY <2>1, <2>2 DEF Stacked
<1>6. QED
  BY <1>2, <1>3, <1>5 DEF Nested

\* run_inline: the new context is on top of its caller's.
LEMMA InlineEntered ==
    ASSUME TypeOK, Nested, NEW t \in Tasks, NEW p \in Tasks, t # p, pc[t] = "none", pc[p] = "body",
           pc' = [pc EXCEPT ![t] = "body", ![p] = "calling"], host' = [host EXCEPT ![t] = host[p]],
           background' = background, rec'[t].parent = p,
           \A x \in Tasks : x # t => rec'[x].parent = rec[x].parent
    PROVE  Nested'
<1>0. /\ \A x \in Tasks : host[x] \in Tasks
      /\ \A x \in Tasks : x # t => host'[x] = host[x]
      /\ \A x \in Tasks : x # t /\ x # p => pc'[x] = pc[x]
      /\ pc'[t] = "body" /\ host'[t] = host[p] /\ pc'[p] = "calling"
  BY DEF TypeOK
<1>1. InContext(p) /\ ~InContext(t) /\ t \notin background
  BY DEF InContext, Nested, OwnRoot
<1>2. \A x \in Tasks : x # t /\ InContext(x)' => InContext(x)
  BY <1>0, <1>1 DEF InContext
<1>3. \A x \in Tasks : InContext(x) => host[x] # t
  <2> SUFFICES ASSUME NEW x \in Tasks, InContext(x), host[x] = t PROVE FALSE
    OBVIOUS
  <2>1. x # t
    BY <1>1
  <2>2. QED
    BY <2>1 DEF Nested, Rooted
<1>4. \A x \in Tasks : x # t /\ pc[x] = "calling" => pc'[x] = "calling"
  BY <1>0
<1>5. Rooted'
  <2> SUFFICES ASSUME NEW x \in Tasks, InContext(x)'
               PROVE  host'[host'[x]] = host'[x] /\ (host'[x] # x => pc'[host'[x]] = "calling")
    BY DEF Rooted
  <2>1. CASE x = t
    <3>1. host[host[p]] = host[p] /\ (host[p] # p => pc[host[p]] = "calling") /\ host[p] # t
      BY <1>1, <1>3 DEF Nested, Rooted
    <3>2. host'[host[p]] = host[p]
      BY <1>0, <3>1
    <3>3. pc'[host[p]] = "calling"
      BY <1>0, <1>4, <3>1
    <3>4. QED
      BY <1>0, <2>1, <3>2, <3>3
  <2>2. CASE x # t
    <3>1. InContext(x) /\ host[x] # t /\ host'[x] = host[x]
      BY <1>0, <1>2, <1>3, <2>2
    <3>2. host[host[x]] = host[x] /\ (host[x] # x => pc[host[x]] = "calling")
      BY <3>1 DEF Nested, Rooted
    <3>3. host[x] \in Tasks /\ host'[host[x]] = host[host[x]]
      BY <1>0, <3>1
    <3>4. pc[host[x]] = "calling" => pc'[host[x]] = "calling"
      BY <1>4, <3>1, <3>3
    <3>5. QED
      BY <3>1, <3>2, <3>3, <3>4
  <2>3. QED
    BY <2>1, <2>2
<1>6. OwnRoot'
  <2> SUFFICES ASSUME NEW x \in Tasks
               PROVE  /\ pc'[x] \in {"none", "reserved", "spawned", "epilogue"} \/ x \in background => host'[x] = x
                      /\ x \in background => pc'[x] \notin {"none", "reserved"}
    BY DEF OwnRoot
  <2>1. CASE x = t
    BY <1>0, <1>1, <2>1
  <2>2. CASE x = p
    BY <1>0, <2>2 DEF Nested, OwnRoot
  <2>3. CASE x # t /\ x # p
    BY <1>0, <2>3 DEF Nested, OwnRoot
  <2>4. QED
    BY <2>1, <2>2, <2>3
<1>7. PICK d \in [Tasks -> Nat] : Stacked(d)
  BY DEF Nested
<1> DEFINE e == [d EXCEPT ![t] = d[p] + 1]
<1>8. e \in [Tasks -> Nat] /\ e[t] = d[p] + 1 /\ \A x \in Tasks : x # t => e[x] = d[x]
  BY <1>7
<1> HIDE DEF e
<1>9. \A x \in Tasks : d[x] \in Nat
  BY <1>7
<1>10. Stacked(e)'
  <2>1. ASSUME NEW x \in Tasks, InContext(x)', host'[x] # x
        PROVE  /\ rec'[x].parent \in Tasks /\ pc'[rec'[x].parent] = "calling"
               /\ host'[rec'[x].parent] = host'[x]
               /\ e[x] = e[rec'[x].parent] + 1 /\ e[host'[x]] < e[x]
    <3>1. CASE x = t
      <4>1. host[p] # t /\ d[host[p]] <= d[p]
        <5>1. CASE host[p] = p
          BY <1>9, <5>1
        <5>2. CASE host[p] # p
          <6>1. d[host[p]] < d[p]
            BY <1>1, <1>7, <5>2 DEF Stacked
          <6>2. d[host[p]] \in Nat /\ d[p] \in Nat
            BY <1>0, <1>9
          <6>3. QED
            BY <1>1, <1>3, <6>1, <6>2
        <5>3. QED
          BY <5>1, <5>2
      <4>2. e[host[p]] = d[host[p]] /\ d[host[p]] \in Nat /\ d[p] \in Nat /\ e[p] = d[p]
        BY <1>0, <1>8, <1>9, <4>1
      <4>3. e[host[p]] < d[p] + 1
        BY <4>1, <4>2
      <4>4. QED
        BY <1>0, <1>8, <3>1, <4>2, <4>3
    <3>2. CASE x # t
      <4>1. InContext(x) /\ host'[x] = host[x] /\ host[x] # x /\ rec'[x].parent = rec[x].parent /\ host[x] # t
        BY <1>0, <1>2, <1>3, <2>1, <3>2
      <4>2. /\ rec[x].parent \in Tasks /\ pc[rec[x].parent] = "calling"
            /\ host[rec[x].parent] = host[x]
            /\ d[x] = d[rec[x].parent] + 1 /\ d[host[x]] < d[x]
        BY <1>7, <4>1 DEF Stacked
      <4>3. rec[x].parent # t
        BY <4>2
      <4>4. pc'[rec[x].parent] = "calling" /\ host'[rec[x].parent] = host[x]
        BY <1>0, <1>4, <4>2, <4>3
      <4>5. e[x] = d[x] /\ e[rec[x].parent] = d[rec[x].parent] /\ e[host[x]] = d[host[x]]
        BY <1>0, <1>8, <3>2, <4>1, <4>2, <4>3
      <4>6. QED
        BY <4>1, <4>2, <4>4, <4>5
    <3>3. QED
      BY <3>1, <3>2
  <2>2. \A x \in Tasks : InContext(x) /\ host[x] = host[p] => d[x] <= d[p]
    BY <1>1, <1>7 DEF Stacked
  <2>3. ASSUME NEW x \in Tasks, NEW u \in Tasks, InContext(x)', InContext(u)', host'[x] = host'[u]
        PROVE  /\ e[x] = e[u] => x = u
               /\ pc'[x] # "calling" => e[u] <= e[x]
    <3>0. e[x] \in Nat /\ e[u] \in Nat
      BY <1>8
    <3>1. CASE x = u
      BY <3>0, <3>1
    <3>2. CASE x = t /\ u # t
      <4>1. InContext(u) /\ host[u] = host[p] /\ e[u] = d[u] /\ e[x] = d[p] + 1
        BY <1>0, <1>2, <1>8, <2>3, <3>2
      <4>2. d[u] <= d[p] /\ d[u] \in Nat /\ d[p] \in Nat
        BY <1>9, <2>2, <4>1
      <4>3. QED
        BY <4>1, <4>2
    <3>3. CASE x # t /\ u = t
      <4>1. InContext(x) /\ host[x] = host[p] /\ e[x] = d[x] /\ e[u] = d[p] + 1
        BY <1>0, <1>2, <1>8, <2>3, <3>3
      <4>2. d[x] <= d[p] /\ d[x] \in Nat /\ d[p] \in Nat
        BY <1>9, <2>2, <4>1
      <4>3. e[x] # e[u]
        BY <4>1, <4>2
      <4>4. pc'[x] = "calling"
        <5>1. CASE x = p
          BY <1>0, <5>1
        <5>2. CASE x # p
          <6>1. pc'[x] = pc[x]
            BY <1>0, <3>3, <5>2
          <6>2. pc[x] # "calling" => d[p] <= d[x] /\ (d[x] = d[p] => x = p)
            BY <1>1, <1>7, <4>1 DEF Stacked
          <6>3. pc[x] # "calling" => d[p] = d[x]
            BY <4>2, <6>2
          <6>4. QED
            BY <5>2, <6>1, <6>2, <6>3
        <5>3. QED
          BY <5>1, <5>2
      <4>5. QED
        BY <4>3, <4>4
    <3>4. CASE x # t /\ u # t
      <4>1. /\ InContext(x) /\ InContext(u) /\ host[x] = host[u] /\ e[x] = d[x] /\ e[u] = d[u]
            /\ pc'[x] # "calling" => pc[x] # "calling"
        BY <1>0, <1>2, <1>4, <1>8, <2>3, <3>4
      <4>2. QED
        BY <1>7, <4>1 DEF Stacked
    <3>5. QED
      BY <3>1, <3>2, <3>3, <3>4
  <2>4. QED
    BY <2>1, <2>3 DEF Stacked
<1>11. QED
  BY <1>5, <1>6, <1>8, <1>10 DEF Nested

\* The caller a task returns to: there is one exactly when the task is inline.
LEMMA CallersOf ==
    ASSUME Nested, NEW t \in Tasks, pc[t] \in {"finish", "cleanup", "epilogue"}
    PROVE  /\ host[t] = t => Callers(t) = {}
           /\ host[t] # t => InContext(t) /\ Callers(t) = {rec[t].parent} /\ rec[t].parent \in Tasks
<1>1. ASSUME host[t] = t, NEW p \in Callers(t) PROVE FALSE
  <2>1. p \in Tasks /\ p # t /\ pc[p] = "calling" /\ host[p] = t
    BY <1>1 DEF Callers
  <2>2. pc[t] = "calling"
    BY <2>1 DEF Nested, Rooted, InContext
  <2>3. QED
    BY <2>2
<1>2. ASSUME host[t] # t
      PROVE  InContext(t) /\ Callers(t) = {rec[t].parent} /\ rec[t].parent \in Tasks
  <2>1. InContext(t)
    BY <1>2 DEF Nested, OwnRoot, InContext
  <2>2. /\ rec[t].parent \in Tasks /\ pc[rec[t].parent] = "calling"
        /\ host[rec[t].parent] = host[t]
    BY <1>2, <2>1 DEF Nested, Stacked
  <2>3. QED
    BY <2>1, <2>2 DEF Callers
<1>3. QED
  BY <1>1, <1>2

\* An inline task is left: its caller is on top again.
LEMMA CallerResumes ==
    ASSUME TypeOK, Nested, NEW t \in Tasks, NEW p \in Tasks, InContext(t), pc[t] # "calling",
           host[t] # t, rec[t].parent = p,
           pc'[t] = "gone", pc'[p] \in {"body", "cleanup"},
           \A x \in Tasks : x # t /\ x # p => pc'[x] = pc[x],
           host' = host, background' = background,
           \A x \in Tasks : rec'[x].parent = rec[x].parent
    PROVE  Nested'
<1>0. \A x \in Tasks : host[x] \in Tasks
  BY DEF TypeOK
<1>1. PICK d \in [Tasks -> Nat] : Stacked(d)
  BY DEF Nested
<1>2. \A x \in Tasks : d[x] \in Nat
  BY <1>1
<1>3. pc[p] = "calling" /\ host[p] = host[t] /\ d[t] = d[p] + 1 /\ p # t /\ InContext(p)
  BY <1>1 DEF Stacked, InContext
<1>4. \A x \in Tasks : InContext(x)' => InContext(x) /\ x # t
  BY <1>3 DEF InContext
<1>5. ASSUME NEW x \in Tasks, InContext(x), x # t, host[x] = host[t] PROVE d[x] <= d[p]
  <2>1. d[x] <= d[t] /\ (d[t] = d[x] => t = x)
    BY <1>1, <1>5 DEF Stacked
  <2>2. QED
    BY <1>2, <1>3, <1>5, <2>1
<1>6. ASSUME NEW x \in Tasks, InContext(x)', host[x] # x
      PROVE  /\ rec[x].parent # p /\ host[x] # p /\ InContext(x)
             /\ rec[x].parent \in Tasks /\ pc[rec[x].parent] = "calling"
             /\ host[rec[x].parent] = host[x]
             /\ d[x] = d[rec[x].parent] + 1 /\ d[host[x]] < d[x]
  <2>1. InContext(x) /\ x # t
    BY <1>4, <1>6
  <2>2. /\ rec[x].parent \in Tasks /\ pc[rec[x].parent] = "calling"
        /\ host[rec[x].parent] = host[x]
        /\ d[x] = d[rec[x].parent] + 1 /\ d[host[x]] < d[x]
    BY <1>1, <1>6, <2>1 DEF Stacked
  <2>3. rec[x].parent # p
    <3>1. ASSUME rec[x].parent = p PROVE FALSE
      <4>1. host[x] = host[t] /\ d[x] = d[p] + 1
        BY <1>3, <2>2, <3>1
      <4>2. d[x] <= d[p]
        BY <1>5, <2>1, <4>1
      <4>3. QED
        BY <1>2, <4>1, <4>2
    <3>2. QED
      BY <3>1
  <2>4. host[x] # p
    <3>1. ASSUME host[x] = p PROVE FALSE
      <4>1. host[p] = p
        BY <2>1, <3>1 DEF Nested, Rooted
      <4>2. d[x] <= d[p]
        BY <1>3, <1>5, <2>1, <3>1, <4>1
      <4>3. d[p] < d[x]
        BY <2>2, <3>1
      <4>4. QED
        BY <1>2, <4>2, <4>3
    <3>2. QED
      BY <3>1
  <2>5. QED
    BY <2>1, <2>2, <2>3, <2>4
<1>7. Rooted'
  <2> SUFFICES ASSUME NEW x \in Tasks, InContext(x)'
               PROVE  host[host[x]] = host[x] /\ (host[x] # x => pc'[host[x]] = "calling")
    BY DEF Rooted
  <2>1. InContext(x)
    BY <1>4
  <2>2. host[host[x]] = host[x] /\ (host[x] # x => pc[host[x]] = "calling")
    BY <2>1 DEF Nested, Rooted
  <2>3. ASSUME host[x] # x PROVE pc'[host[x]] = "calling"
    <3>1. host[x] # p /\ host[x] # t /\ host[x] \in Tasks
      BY <1>0, <1>6, <2>2, <2>3
    <3>2. QED
      BY <2>2, <2>3, <3>1
  <2>4. QED
    BY <2>2, <2>3
<1>8. OwnRoot'
  <2> SUFFICES ASSUME NEW x \in Tasks
               PROVE  /\ pc'[x] \in {"none", "reserved", "spawned", "epilogue"} \/ x \in background => host[x] = x
                      /\ x \in background => pc'[x] \notin {"none", "reserved"}
    BY DEF OwnRoot
  <2>1. CASE x = t \/ x = p
    BY <2>1 DEF Nested, OwnRoot
  <2>2. CASE x # t /\ x # p
    BY <2>2 DEF Nested, OwnRoot
  <2>3. QED
    BY <2>1, <2>2
<1>9. Stacked(d)'
  <2>1. ASSUME NEW x \in Tasks, InContext(x)', host[x] # x
        PROVE  /\ rec'[x].parent \in Tasks /\ pc'[rec'[x].parent] = "calling"
               /\ host[rec'[x].parent] = host[x]
               /\ d[x] = d[rec'[x].parent] + 1 /\ d[host[x]] < d[x]
    <3>1. /\ rec[x].parent # p /\ InContext(x)
          /\ rec[x].parent \in Tasks /\ pc[rec[x].parent] = "calling"
          /\ host[rec[x].parent] = host[x]
          /\ d[x] = d[rec[x].parent] + 1 /\ d[host[x]] < d[x]
      BY <1>6, <2>1
    <3>2. pc'[rec[x].parent] = "calling"
      BY <3>1
    <3>3. QED
      BY <3>1, <3>2
  <2>2. ASSUME NEW x \in Tasks, NEW u \in Tasks, InContext(x)', InContext(u)', host[x] = host[u]
        PROVE  /\ d[x] = d[u] => x = u
               /\ pc'[x] # "calling" => d[u] <= d[x]
    <3>1. InContext(x) /\ InContext(u) /\ x # t /\ u # t
      BY <1>4, <2>2
    <3>2. (d[x] = d[u] => x = u) /\ (pc[x] # "calling" => d[u] <= d[x])
      BY <1>1, <2>2, <3>1 DEF Stacked
    <3>3. CASE x = p
      BY <1>3, <1>5, <2>2, <3>1, <3>2, <3>3
    <3>4. CASE x # p
      BY <3>1, <3>2, <3>4
    <3>5. QED
      BY <3>3, <3>4
  <2>3. QED
    BY <2>1, <2>2 DEF Stacked
<1>10. QED
  BY <1>1, <1>7, <1>8, <1>9 DEF Nested

\* The record of x keeps who answers for it, and a request to stop.
Held(x) ==
    /\ rec'[x].parent = rec[x].parent
    /\ rec[x].cancelRequested => rec'[x].cancelRequested
    /\ Active(x)' => /\ Active(x)
                     /\ rec'[x].handle = rec[x].handle
                     /\ rec'[x].awaiting = rec[x].awaiting

\* A step that attaches no coroutine and begins calls as it may.
LEMMA AnsweredStep ==
    ASSUME Answered,
           \A x \in Tasks : Held(x),
           \A x \in Tasks : Working(x)' => Working(x),
           \A x \in Tasks : pc'[x] \in {"reserved", "spawned"} => pc[x] \in {"reserved", "spawned"},
           \A x \in Tasks : fin'["ext"][x].ph # "idle" =>
               fin["ext"][x].ph # "idle" \/ Unowned(x) \/ shut \in {"sweeping", "down"},
           \A x \in Tasks : fin'["own"][x].ph # "idle" => pc'[x] \in {"finish", "cleanup", "epilogue"},
           shut \in {"sweeping", "down"} => shut' \in {"sweeping", "down"}
    PROVE  Answered'
<1> SUFFICES ASSUME NEW x \in Tasks
             PROVE  /\ Active(x)' /\ pc'[x] \in {"reserved", "spawned"} => rec'[x].awaiting /\ ~rec'[x].handle
                    /\ Active(x)' /\ Working(x)' => rec'[x].handle
                    /\ Active(x)' /\ fin'["ext"][x].ph # "idle" => Unowned(x)' \/ shut' \in {"sweeping", "down"}
                    /\ fin'["own"][x].ph # "idle" => pc'[x] \in {"finish", "cleanup", "epilogue"}
  BY DEF Answered
<1>1. Held(x) /\ (Working(x)' => Working(x))
  OBVIOUS
<1>2. /\ Active(x) /\ pc[x] \in {"reserved", "spawned"} => rec[x].awaiting /\ ~rec[x].handle
      /\ Active(x) /\ Working(x) => rec[x].handle
      /\ Active(x) /\ fin["ext"][x].ph # "idle" => Unowned(x) \/ shut \in {"sweeping", "down"}
  BY DEF Answered
<1>3. Active(x)' /\ Unowned(x) => Unowned(x)'
  BY <1>1 DEF Held, Unowned
<1>4. Active(x)' /\ pc'[x] \in {"reserved", "spawned"} => rec'[x].awaiting /\ ~rec'[x].handle
  BY <1>1, <1>2 DEF Held
<1>5. Active(x)' /\ Working(x)' => rec'[x].handle
  BY <1>1, <1>2 DEF Held
<1>6. Active(x)' /\ fin'["ext"][x].ph # "idle" => Unowned(x)' \/ shut' \in {"sweeping", "down"}
  BY <1>1, <1>2, <1>3 DEF Held
<1>7. QED
  BY <1>4, <1>5, <1>6

\* A step that leaves the shutdown alone.
LEMMA GatheredAside ==
    ASSUME Gathered, \A x \in Tasks : Held(x), background \in SUBSET Tasks,
           UNCHANGED <<open, shut, shutTodo, background>>,
           \A x \in background : pc[x] \in {"gone", "spawned", "epilogue"} =>
                                 pc'[x] \in {"gone", "spawned", "epilogue"}
    PROVE  Gathered'
BY DEF Gathered, Held

\* A task ends only through a call that has closed it to children.
Ends == \A x \in Tasks : EndsByCall(x)

\* What a step preserves, and what it may end.
Good == UInv' /\ Ends

\* A step that leaves the coroutines where they are.
LEMMA StandStill ==
    ASSUME TypeOK, UInv, \A x \in Tasks : Held(x),
           UNCHANGED <<pc, host, background>>,
           shut \in {"sweeping", "down"} => shut' \in {"sweeping", "down"},
           \A x \in Tasks : fin'["ext"][x].ph # "idle" =>
               fin["ext"][x].ph # "idle" \/ Unowned(x) \/ shut \in {"sweeping", "down"},
           \A x \in Tasks : fin'["own"][x].ph # "idle" => fin["own"][x].ph # "idle"
    PROVE  Nested' /\ Answered'
<1>1. \A x \in Tasks : rec'[x].parent = rec[x].parent
  BY DEF Held
<1>2. Nested'
  <2>1. \A x \in Tasks : InContext(x)' <=> InContext(x)
    BY DEF InContext
  <2>2. \A x \in Tasks : /\ pc[x] \in {"none", "reserved", "spawned", "epilogue"} => host[x] = x
                         /\ x \in background => host[x] = x /\ pc[x] \notin {"none", "reserved"}
    BY DEF UInv, Nested, OwnRoot
  <2>3. Nested
    BY DEF UInv
  <2>4. QED
    BY <1>1, <2>1, <2>2, <2>3, ContextsLeft
<1>3. Answered'
  <2>1. Answered /\ \A x \in Tasks : Working(x)' => Working(x)
    BY DEF UInv, Working
  <2>2. \A x \in Tasks : fin'["own"][x].ph # "idle" => pc'[x] \in {"finish", "cleanup", "epilogue"}
    BY <2>1 DEF Answered
  <2>3. QED
    BY <2>1, <2>2, AnsweredStep
<1>4. QED
  BY <1>2, <1>3

\* The same while no shutdown goes on.
LEMMA Aside ==
    ASSUME TypeOK, UInv, \A x \in Tasks : Held(x), Ends,
           UNCHANGED <<pc, host, background, open, shut, shutTodo>>,
           \A x \in Tasks : fin'["ext"][x].ph # "idle" =>
               fin["ext"][x].ph # "idle" \/ Unowned(x) \/ shut \in {"sweeping", "down"},
           \A x \in Tasks : fin'["own"][x].ph # "idle" => fin["own"][x].ph # "idle"
    PROVE  Good
<1>1. Nested' /\ Answered'
  BY StandStill
<1>2. Gathered'
  BY GatheredAside DEF UInv, TypeOK
<1>3. QED
  BY <1>1, <1>2 DEF Good, UInv

\* Records that are left alone, or updated as the operations update them.
LEMMA HeldUpdate ==
    ASSUME TypeOK, NEW t \in Tasks, NEW b \in BOOLEAN,
           \/ rec' = rec
           \/ rec' = [rec EXCEPT ![t].cancelRequested = TRUE]
           \/ rec' = [rec EXCEPT ![t].status = "running"] /\ rec[t].status = "queued"
           \/ rec' = [rec EXCEPT ![t].attention = b]
           \/ rec' = [rec EXCEPT ![t].accepting = FALSE]
           \/ rec' = [rec EXCEPT ![t].result = TRUE]
    PROVE  Ends /\ \A x \in Tasks : Held(x) /\ (Active(x) => Active(x)')
<1>0. rec \in [Tasks -> TaskRecord]
  BY DEF TypeOK
<1>1. ASSUME NEW x \in Tasks PROVE Held(x) /\ (Active(x) => Active(x)')
  <2>1. CASE rec'[x] = rec[x]
    BY <2>1 DEF Held, Active
  <2>2. CASE rec'[x] # rec[x]
    <3> DEFINE r == rec[t]
               q == rec'[t]
    <3>1. x = t /\ rec' # rec
      BY <1>0, <2>2
    <3>2. r \in TaskRecord
      BY <1>0
    <3>3. \/ q = [r EXCEPT !.cancelRequested = TRUE]
          \/ q = [r EXCEPT !.status = "running"] /\ r.status = "queued"
          \/ q = [r EXCEPT !.attention = b]
          \/ q = [r EXCEPT !.accepting = FALSE]
          \/ q = [r EXCEPT !.result = TRUE]
      BY <1>0, <3>1
    <3> HIDE DEF r, q
    <3>4. /\ q.parent = r.parent /\ q.handle = r.handle /\ q.awaiting = r.awaiting
          /\ r.cancelRequested => q.cancelRequested
          /\ q.status = r.status \/ (q.status = "running" /\ r.status = "queued")
      BY <3>2, <3>3 DEF TaskRecord
    <3>5. QED
      BY <3>1, <3>4 DEF r, q, Held, Active, ActiveStatuses
  <2>3. QED
    BY <2>1, <2>2
<1>2. QED
  BY <1>1 DEF Ends, EndsByCall

\* The calls in flight after one begins.
LEMMA BeganCall ==
    ASSUME TypeOK, NEW j \in Slots, NEW t \in Tasks, NEW s \in TerminalStatuses, fin' = Begin(j, t, s)
    PROVE  \A k \in Slots, x \in Tasks : k # j \/ x # t => fin'[k][x] = fin[k][x]
<1>1. fin \in [Slots -> [Tasks -> Finisher]] /\ Call(s) \in Finisher
  BY CallType DEF TypeOK
<1>2. QED
  BY <1>1, SetCallType DEF Begin

\* Steps of the waiters and of the body, and cancellations that reach a
\* coroutine which goes on with its cleanup.
LEMMA BodyGood ==
    ASSUME TypeOK, UInv, NEW t \in Tasks,
           \/ MarkStarted(t) \/ RecordResult(t) \/ SwallowCancel(t)
           \/ \E b \in BOOLEAN : PublishProgress(t, b)
    PROVE  Good
<1>1. /\ UNCHANGED <<pc, host, background, open, shut, shutTodo, fin>>
      /\ \E b \in BOOLEAN :
            \/ rec' = rec
            \/ rec' = [rec EXCEPT ![t].status = "running"] /\ rec[t].status = "queued"
            \/ rec' = [rec EXCEPT ![t].attention = b]
            \/ rec' = [rec EXCEPT ![t].result = TRUE]
  BY DEF MarkStarted, RecordResult, SwallowCancel, PublishProgress
<1>2. Ends /\ \A x \in Tasks : Held(x)
  BY <1>1, HeldUpdate
<1>3. QED
  BY <1>1, <1>2, Aside

\* Waiting, waking up and giving up touch nothing but the waiter.
LEMMA WaiterGood ==
    ASSUME TypeOK, UInv, NEW w \in Waiters, WaiterStep(w)
    PROVE  Good
<1>1. UNCHANGED <<rec, pc, host, background, open, shut, shutTodo, fin>>
  BY DEF WaiterStep, WaitForTasks, WaiterWakes, WaitTimesOut
<1>2. Ends /\ \A x \in Tasks : Held(x)
  BY <1>1 DEF Ends, EndsByCall, Held, Active
<1>3. QED
  BY <1>1, <1>2, Aside

\* cancel_task by id.
LEMMA CancelGood ==
    ASSUME TypeOK, UInv, NEW t \in Tasks, CancelTask(t)
    PROVE  Good
<1>1. /\ UNCHANGED <<pc, host, background, open, shut, shutTodo>>
      /\ rec' = [rec EXCEPT ![t].cancelRequested = TRUE]
      /\ fin' = fin \/ (fin' = Begin("ext", t, "cancelled") /\ Unowned(t))
  BY DEF CancelTask, RequestCancel
<1>2. Ends /\ \A x \in Tasks : Held(x)
  BY <1>1, HeldUpdate
<1>3. "own" \in Slots /\ "ext" \in Slots /\ "cancelled" \in TerminalStatuses /\ "own" # "ext"
  BY DEF Slots, TerminalStatuses
<1>4. /\ \A x \in Tasks : fin'["ext"][x].ph # "idle" => fin["ext"][x].ph # "idle" \/ Unowned(x)
      /\ \A x \in Tasks : fin'["own"][x] = fin["own"][x]
  BY <1>1, <1>3, BeganCall
<1>5. QED
  BY <1>1, <1>2, <1>4, Aside

\* A call closes the task to children, or goes on to the next child.
LEMMA CallGood ==
    ASSUME TypeOK, UInv, NEW k \in Slots, NEW t \in Tasks,
           CloseToChildren(k, t) \/ \E c \in Tasks : CancelChild(k, t, c)
    PROVE  Good
<1>0. /\ "own" \in Slots /\ "ext" \in Slots /\ "cancelled" \in TerminalStatuses /\ "own" # "ext"
      /\ fin \in [Slots -> [Tasks -> Finisher]] /\ fin[k][t] \in Finisher
  BY DEF Slots, TerminalStatuses, TypeOK
<1>1. CASE CloseToChildren(k, t)
  <2> DEFINE call == [fin[k][t] EXCEPT !.ph = "commit",
                         !.todo = IF Present(t) THEN ActiveChildren(t) ELSE {}]
  <2>1. /\ UNCHANGED <<pc, host, background, open, shut, shutTodo>>
        /\ rec' = rec \/ rec' = [rec EXCEPT ![t].accepting = FALSE]
        /\ fin[k][t].ph = "close" /\ fin' = SetCall(k, t, call)
    BY <1>1 DEF CloseToChildren
  <2>2. Ends /\ \A x \in Tasks : Held(x)
    BY <2>1, HeldUpdate
  <2>3. call \in Finisher
    <3>1. (IF Present(t) THEN ActiveChildren(t) ELSE {}) \in SUBSET Tasks
      BY DEF ActiveChildren
    <3>2. QED
      BY <1>0, <3>1, CallType
  <2> HIDE DEF call
  <2>4. \A j \in Slots, x \in Tasks : fin'[j][x] = IF j = k /\ x = t THEN call ELSE fin[j][x]
    <3>1. \A j \in Slots, x \in Tasks :
              SetCall(k, t, call)[j][x] = IF j = k /\ x = t THEN call ELSE fin[j][x]
      BY <1>0, <2>3 DEF SetCall
    <3>2. QED
      BY <2>1, <3>1, Zenon
  <2>5. \A j \in Slots, x \in Tasks : fin'[j][x].ph # "idle" => fin[j][x].ph # "idle"
    BY <2>1, <2>4
  <2>6. QED
    BY <1>0, <2>1, <2>2, <2>5, Aside
<1>2. ASSUME NEW c \in Tasks, CancelChild(k, t, c) PROVE Good
  <2> DEFINE call == [fin[k][t] EXCEPT !.todo = @ \ {c}]
  <2>1. /\ UNCHANGED <<pc, host, background, open, shut, shutTodo>>
        /\ rec' = rec \/ rec' = [rec EXCEPT ![c].cancelRequested = TRUE]
        /\ fin[k][t].ph = "commit"
        /\ fin' = SetCall(k, t, call) \/ (fin' = Begin("ext", c, "cancelled") /\ Unowned(c))
    BY <1>2 DEF CancelChild, RequestCancel
  <2>2. Ends /\ \A x \in Tasks : Held(x)
    BY <2>1, HeldUpdate
  <2>3. call \in Finisher
    BY <1>0, CallType
  <2> HIDE DEF call
  <2>4. CASE fin' = SetCall(k, t, call)
    <3>1. \A j \in Slots, x \in Tasks : fin'[j][x] = IF j = k /\ x = t THEN call ELSE fin[j][x]
      <4>1. \A j \in Slots, x \in Tasks :
                SetCall(k, t, call)[j][x] = IF j = k /\ x = t THEN call ELSE fin[j][x]
        BY <1>0, <2>3 DEF SetCall
      <4>2. QED
        BY <2>4, <4>1, Zenon
    <3>2. \A j \in Slots, x \in Tasks : fin'[j][x].ph # "idle" => fin[j][x].ph # "idle"
      BY <2>1, <3>1
    <3>3. QED
      BY <1>0, <2>1, <2>2, <3>2, Aside
  <2>5. CASE fin' = Begin("ext", c, "cancelled") /\ Unowned(c)
    <3>1. /\ \A x \in Tasks : fin'["ext"][x].ph # "idle" => fin["ext"][x].ph # "idle" \/ Unowned(x)
          /\ \A x \in Tasks : fin'["own"][x] = fin["own"][x]
      BY <1>0, <2>5, BeganCall
    <3>2. QED
      BY <2>1, <2>2, <3>1, Aside
  <2>6. QED
    BY <2>1, <2>4, <2>5
<1>3. QED
  BY <1>1, <1>2

\* A record is created: the coordinator is open, so no shutdown has begun, and
\* the new record is answered for as its coroutine needs.
LEMMA CreatedGood ==
    ASSUME IInv, UInv, NEW t \in Tasks \ created, open, NEW R,
           rec' = [rec EXCEPT ![t] = R], fin' = fin, UNCHANGED <<shut, background, open>>,
           pc'[t] \in {"reserved", "spawned"} => R.awaiting /\ ~R.handle,
           pc'[t] \in {"body", "calling"} => R.handle,
           \A x \in Tasks : x # t => pc'[x] = pc[x] \/ (pc[x] = "body" /\ pc'[x] = "calling")
    PROVE  Answered' /\ Gathered' /\ Ends
<1>1. TypeOK /\ Fresh(t) /\ "own" \in Slots /\ "ext" \in Slots
  BY DEF IInv, Unborn, Slots
<1>2. rec'[t] = R /\ \A x \in Tasks : x # t => rec'[x] = rec[x]
  BY <1>1 DEF TypeOK
<1>3. shut = "up" /\ Answered
  BY DEF UInv, Gathered
<1>4. Gathered'
  BY <1>3 DEF Gathered
<1>5. ~Active(t) /\ fin["ext"][t].ph = "idle" /\ fin["own"][t].ph = "idle"
  BY <1>1 DEF Fresh, Present, Active, ActiveStatuses
<1>6. Ends
  BY <1>2, <1>5 DEF Ends, EndsByCall, Active
<1>7. Answered'
  <2> SUFFICES ASSUME NEW x \in Tasks
               PROVE  /\ Active(x)' /\ pc'[x] \in {"reserved", "spawned"} => rec'[x].awaiting /\ ~rec'[x].handle
                      /\ Active(x)' /\ Working(x)' => rec'[x].handle
                      /\ Active(x)' /\ fin'["ext"][x].ph # "idle" => Unowned(x)' \/ shut' \in {"sweeping", "down"}
                      /\ fin'["own"][x].ph # "idle" => pc'[x] \in {"finish", "cleanup", "epilogue"}
    BY DEF Answered
  <2>1. CASE x = t
    BY <1>2, <1>5, <2>1 DEF Working
  <2>2. CASE x # t
    <3>1. rec'[x] = rec[x] /\ (pc'[x] = pc[x] \/ (pc[x] = "body" /\ pc'[x] = "calling"))
      BY <1>2, <2>2
    <3>2. /\ Active(x) /\ pc[x] \in {"reserved", "spawned"} => rec[x].awaiting /\ ~rec[x].handle
          /\ Active(x) /\ Working(x) => rec[x].handle
          /\ Active(x) /\ fin["ext"][x].ph # "idle" => Unowned(x) \/ shut \in {"sweeping", "down"}
          /\ fin["own"][x].ph # "idle" => pc[x] \in {"finish", "cleanup", "epilogue"}
      BY <1>3 DEF Answered
    <3>3. (Active(x)' <=> Active(x)) /\ (Unowned(x)' <=> Unowned(x)) /\ (Working(x)' => Working(x))
      BY <3>1 DEF Active, Unowned, Working
    <3>4. QED
      BY <3>1, <3>2, <3>3
  <2>3. QED
    BY <2>1, <2>2
<1>8. QED
  BY <1>4, <1>6, <1>7

\* The four ways to create a record.
LEMMA CreateGood ==
    ASSUME IInv, UInv, NEW t \in Tasks, Create(t)
    PROVE  Good
<1>0. TypeOK /\ Nested /\ pc \in [Tasks -> {"none", "reserved", "spawned", "body", "calling",
                                  "finish", "cleanup", "epilogue", "gone"}]
  BY DEF IInv, UInv, TypeOK
<1>b. ASSUME t \notin created PROVE pc[t] = "none" /\ host[t] = t /\ t \notin background /\ ~InContext(t)
  <2>1. pc[t] = "none"
    BY <1>b DEF IInv, Unborn, Fresh
  <2>2. QED
    BY <1>0, <2>1 DEF Nested, OwnRoot, InContext
<1>c. ASSUME NEW R, rec' = [rec EXCEPT ![t] = R]
      PROVE  rec'[t] = R /\ \A x \in Tasks : x # t => rec'[x].parent = rec[x].parent
  BY <1>0, <1>c DEF TypeOK
<1>1. ASSUME NEW a \in Principals, NEW p \in Tasks \cup {NoTask}, NEW d \in BOOLEAN, Reserve(t, p, d, a)
      PROVE  Good
  <2>1. /\ t \in Tasks \ created /\ open /\ rec' = [rec EXCEPT ![t] = NewRecord(p, d, a, FALSE, TRUE)]
        /\ pc' = [pc EXCEPT ![t] = "reserved"] /\ host' = [host EXCEPT ![t] = t]
        /\ UNCHANGED <<open, background, fin, shut>>
    BY <1>1 DEF Reserve, MayCreate
  <2>2. pc'[t] = "reserved" /\ \A x \in Tasks : x # t => pc'[x] = pc[x]
    BY <1>0, <2>1
  <2>3. Answered' /\ Gathered' /\ Ends
    <3> DEFINE R == NewRecord(p, d, a, FALSE, TRUE)
    <3>1. R.awaiting /\ ~R.handle
      BY DEF NewRecord, Absent
    <3>2. rec' = [rec EXCEPT ![t] = R]
      BY <2>1
    <3>3. t \in Tasks \ created /\ open /\ fin' = fin /\ UNCHANGED <<shut, background, open>>
      BY <2>1
    <3> HIDE DEF R
    <3>4. /\ pc'[t] \in {"reserved", "spawned"} => R.awaiting /\ ~R.handle
          /\ pc'[t] \in {"body", "calling"} => R.handle
          /\ \A x \in Tasks : x # t => pc'[x] = pc[x] \/ (pc[x] = "body" /\ pc'[x] = "calling")
      BY <2>2, <3>1
    <3>5. QED
      BY <3>2, <3>3, <3>4, CreatedGood
  <2>4. host' = host
    BY <1>0, <1>b, <2>1 DEF TypeOK
  <2>5. Nested'
    <3>1. \A x \in Tasks : /\ InContext(x)' => InContext(x) /\ rec'[x].parent = rec[x].parent
                           /\ pc'[x] = "calling" <=> pc[x] = "calling"
      BY <1>b, <1>c, <2>1, <2>2 DEF InContext
    <3>2. \A x \in Tasks : pc'[x] \in {"none", "reserved", "spawned", "epilogue"} => host[x] = x
      BY <1>0, <1>b, <2>1, <2>2 DEF Nested, OwnRoot
    <3>3. \A x \in Tasks : x \in background' => host[x] = x /\ pc'[x] \notin {"none", "reserved"}
      BY <1>0, <1>b, <2>1, <2>2 DEF Nested, OwnRoot
    <3>4. QED
      BY <1>0, <2>4, <3>1, <3>2, <3>3, ContextsLeft
  <2>6. QED
    BY <2>3, <2>5 DEF Good, UInv
<1>2. ASSUME NEW a \in Principals, NEW p \in Tasks \cup {NoTask}, CreateQueuedTask(t, p, a)
      PROVE  Good
  <2>1. /\ t \in Tasks \ created /\ open /\ rec' = [rec EXCEPT ![t] = NewRecord(p, FALSE, a, FALSE, FALSE)]
        /\ UNCHANGED <<open, background, fin, shut, pc, host>>
    BY <1>2 DEF CreateQueuedTask, MayCreate
  <2>2. pc[t] = "none"
    BY <1>b, <2>1
  <2>3. Answered' /\ Gathered' /\ Ends
    BY <2>1, <2>2, CreatedGood
  <2>4. Nested'
    <3>1. \A x \in Tasks : /\ InContext(x)' => InContext(x) /\ rec'[x].parent = rec[x].parent
                           /\ pc'[x] = "calling" <=> pc[x] = "calling"
      BY <1>b, <1>c, <2>1 DEF InContext
    <3>2. QED
      BY <1>0, <2>1, <3>1, ContextsLeft DEF Nested, OwnRoot
  <2>5. QED
    BY <2>3, <2>4 DEF Good, UInv
<1>3. ASSUME NEW a \in Principals, TrackCurrentTask(t, a)
      PROVE  Good
  <2>1. /\ t \in Tasks \ created /\ open /\ rec' = [rec EXCEPT ![t] = NewRecord(NoTask, FALSE, a, TRUE, FALSE)]
        /\ pc' = [pc EXCEPT ![t] = "body"] /\ host' = [host EXCEPT ![t] = t]
        /\ UNCHANGED <<open, background, fin, shut>>
    BY <1>3 DEF TrackCurrentTask, MayCreate
  <2>2. pc'[t] = "body" /\ \A x \in Tasks : x # t => pc'[x] = pc[x]
    BY <1>0, <2>1
  <2>3. Answered' /\ Gathered' /\ Ends
    <3> DEFINE R == NewRecord(NoTask, FALSE, a, TRUE, FALSE)
    <3>1. R.handle
      BY DEF NewRecord, Absent
    <3>2. rec' = [rec EXCEPT ![t] = R]
      BY <2>1
    <3>3. t \in Tasks \ created /\ open /\ fin' = fin /\ UNCHANGED <<shut, background, open>>
      BY <2>1
    <3> HIDE DEF R
    <3>4. /\ pc'[t] \in {"reserved", "spawned"} => R.awaiting /\ ~R.handle
          /\ pc'[t] \in {"body", "calling"} => R.handle
          /\ \A x \in Tasks : x # t => pc'[x] = pc[x] \/ (pc[x] = "body" /\ pc'[x] = "calling")
      BY <2>2, <3>1
    <3>5. QED
      BY <3>2, <3>3, <3>4, CreatedGood
  <2>4. Nested'
    BY <1>0, <1>b, <1>c, <2>1, RootEntered
  <2>5. QED
    BY <2>3, <2>4 DEF Good, UInv
<1>4. ASSUME NEW a \in Principals, NEW p \in Tasks, RunInline(t, p, a)
      PROVE  Good
  <2>1. /\ t \in Tasks \ created /\ open /\ rec' = [rec EXCEPT ![t] = NewRecord(p, FALSE, a, TRUE, FALSE)]
        /\ pc' = [pc EXCEPT ![t] = "body", ![p] = "calling"] /\ host' = [host EXCEPT ![t] = host[p]]
        /\ UNCHANGED <<open, background, fin, shut>> /\ pc[p] = "body"
    BY <1>4 DEF RunInline, MayCreate
  <2>2. t # p /\ pc[t] = "none"
    BY <1>b, <2>1
  <2>3. pc'[t] = "body" /\ \A x \in Tasks : x # t => pc'[x] = pc[x] \/ (pc[x] = "body" /\ pc'[x] = "calling")
    BY <1>0, <2>1, <2>2
  <2>4. Answered' /\ Gathered' /\ Ends
    <3> DEFINE R == NewRecord(p, FALSE, a, TRUE, FALSE)
    <3>1. R.handle
      BY DEF NewRecord, Absent
    <3>2. rec' = [rec EXCEPT ![t] = R]
      BY <2>1
    <3>3. t \in Tasks \ created /\ open /\ fin' = fin /\ UNCHANGED <<shut, background, open>>
      BY <2>1
    <3> HIDE DEF R
    <3>4. /\ pc'[t] \in {"reserved", "spawned"} => R.awaiting /\ ~R.handle
          /\ pc'[t] \in {"body", "calling"} => R.handle
          /\ \A x \in Tasks : x # t => pc'[x] = pc[x] \/ (pc[x] = "body" /\ pc'[x] = "calling")
      BY <2>3, <3>1
    <3>5. QED
      BY <3>2, <3>3, <3>4, CreatedGood
  <2>5. rec'[t].parent = p /\ \A x \in Tasks : x # t => rec'[x].parent = rec[x].parent
    <3>1. NewRecord(p, FALSE, a, TRUE, FALSE).parent = p
      BY DEF NewRecord, Absent
    <3>2. QED
      BY <1>c, <2>1, <3>1
  <2>6. Nested'
    BY <1>0, <2>1, <2>2, <2>5, InlineEntered
  <2>7. QED
    BY <2>4, <2>6 DEF Good, UInv
<1>5. QED
  BY <1>1, <1>2, <1>3, <1>4 DEF Create

\* The coroutine is spawned.
LEMMA SpawnGood ==
    ASSUME TypeOK, UInv, NEW t \in Tasks, Spawn(t)
    PROVE  Good
<1>1. /\ pc[t] = "reserved" /\ pc' = [pc EXCEPT ![t] = "spawned"] /\ background' = background \cup {t}
      /\ UNCHANGED <<rec, open, host, fin, shut, shutTodo>>
  BY DEF Spawn
<1>2. pc'[t] = "spawned" /\ \A x \in Tasks : x # t => pc'[x] = pc[x]
  BY <1>1 DEF TypeOK
<1>3. Ends /\ \A x \in Tasks : Held(x)
  BY <1>1 DEF Ends, EndsByCall, Held, Active
<1>4. Nested /\ Answered /\ Gathered
  BY DEF UInv
<1>5. Nested'
  <2>1. \A x \in Tasks : /\ InContext(x)' => InContext(x) /\ rec'[x].parent = rec[x].parent
                         /\ pc'[x] = "calling" <=> pc[x] = "calling"
    BY <1>1, <1>2 DEF InContext
  <2>2. \A x \in Tasks : pc'[x] \in {"none", "reserved", "spawned", "epilogue"} => host[x] = x
    BY <1>1, <1>2, <1>4 DEF Nested, OwnRoot
  <2>3. \A x \in Tasks : x \in background' => host[x] = x /\ pc'[x] \notin {"none", "reserved"}
    BY <1>1, <1>2, <1>4 DEF Nested, OwnRoot
  <2>4. QED
    BY <1>1, <1>4, <2>1, <2>2, <2>3, ContextsLeft
<1>6. Answered'
  <2>1. \A x \in Tasks : Working(x)' => Working(x)
    BY <1>2 DEF Working
  <2>2. \A x \in Tasks : pc'[x] \in {"reserved", "spawned"} => pc[x] \in {"reserved", "spawned"}
    BY <1>1, <1>2
  <2>3. \A x \in Tasks : fin'["own"][x].ph # "idle" => pc'[x] \in {"finish", "cleanup", "epilogue"}
    BY <1>1, <1>2, <1>4 DEF Answered
  <2>4. QED
    BY <1>1, <1>3, <1>4, <2>1, <2>2, <2>3, AnsweredStep
<1>7. Gathered'
  <2>1. shut # "up" => ~open /\ \A x \in Tasks : Active(x) =>
                            rec[x].cancelRequested \/ (shut = "cancelling" /\ x \in shutTodo)
    BY <1>4 DEF Gathered
  <2>2. shut \in {"draining", "sweeping", "down"} =>
          \A x \in background' : pc'[x] \in {"gone", "spawned", "epilogue"}
                                 \/ (shut = "draining" /\ x \in shutTodo)
    BY <1>1, <1>2, <1>4 DEF Gathered, TypeOK
  <2>3. QED
    BY <1>1, <2>1, <2>2 DEF Gathered, Active
<1>8. QED
  BY <1>3, <1>5, <1>6, <1>7 DEF Good, UInv

\* The coroutine leaves its body, or its reservation, for a call of its own.
LEMMA OwnCallGood ==
    ASSUME TypeOK, UInv, NEW t \in Tasks,
           \/ DeliverCancel(t) \/ Raise(t) \/ AbortReservation(t)
           \/ \E s \in TerminalStatuses : Return(t, s)
    PROVE  Good
<1>0. "own" \in Slots /\ "ext" \in Slots /\ "own" # "ext"
  BY DEF Slots
<1>1. /\ UNCHANGED <<rec, host, background, open, shut, shutTodo>>
      /\ \E s \in TerminalStatuses : fin' = Begin("own", t, s)
      /\ \/ pc[t] \in {"body", "finish"} /\ pc' = [pc EXCEPT ![t] = "cleanup"]
         \/ pc[t] \in {"body", "finish"} /\ pc' = [pc EXCEPT ![t] = "finish"]
         \/ pc[t] = "reserved" /\ pc' = [pc EXCEPT ![t] = "epilogue"]
  BY DEF DeliverCancel, Raise, AbortReservation, Return, TerminalStatuses
<1>2. /\ \/ pc'[t] \in {"cleanup", "finish"} /\ pc[t] \in {"body", "finish"}
         \/ pc'[t] = "epilogue" /\ pc[t] = "reserved"
      /\ \A x \in Tasks : x # t => pc'[x] = pc[x]
  BY <1>1 DEF TypeOK
<1>3. \A k \in Slots, x \in Tasks : k # "own" \/ x # t => fin'[k][x] = fin[k][x]
  BY <1>0, <1>1, BeganCall
<1>4. Ends /\ \A x \in Tasks : Held(x)
  BY <1>1 DEF Ends, EndsByCall, Held, Active
<1>5. Nested /\ Answered /\ Gathered
  BY DEF UInv
<1>6. Nested'
  <2>1. \A x \in Tasks : /\ InContext(x)' => InContext(x) /\ rec'[x].parent = rec[x].parent
                         /\ pc'[x] = "calling" <=> pc[x] = "calling"
    BY <1>1, <1>2 DEF InContext
  <2>2. \A x \in Tasks : pc'[x] \in {"none", "reserved", "spawned", "epilogue"} => host[x] = x
    BY <1>2, <1>5 DEF Nested, OwnRoot
  <2>3. \A x \in Tasks : x \in background' => host[x] = x /\ pc'[x] \notin {"none", "reserved"}
    BY <1>1, <1>2, <1>5 DEF Nested, OwnRoot
  <2>4. QED
    BY <1>1, <1>5, <2>1, <2>2, <2>3, ContextsLeft
<1>7. Answered'
  <2>1. \A x \in Tasks : Working(x)' => Working(x)
    BY <1>2 DEF Working
  <2>2. \A x \in Tasks : pc'[x] \in {"reserved", "spawned"} => pc[x] \in {"reserved", "spawned"}
    BY <1>2
  <2>3. \A x \in Tasks : fin'["own"][x].ph # "idle" => pc'[x] \in {"finish", "cleanup", "epilogue"}
    BY <1>0, <1>2, <1>3, <1>5 DEF Answered
  <2>4. \A x \in Tasks : fin'["ext"][x] = fin["ext"][x]
    BY <1>0, <1>3
  <2>5. QED
    BY <1>1, <1>4, <1>5, <2>1, <2>2, <2>3, <2>4, AnsweredStep
<1>8. Gathered'
  <2>1. \A x \in background : pc[x] \in {"gone", "spawned", "epilogue"} =>
                              pc'[x] \in {"gone", "spawned", "epilogue"}
    BY <1>2 DEF TypeOK
  <2>2. QED
    BY <1>1, <1>4, <1>5, <2>1, GatheredAside DEF TypeOK
<1>9. QED
  BY <1>4, <1>6, <1>7, <1>8 DEF Good, UInv

\* The spawned coroutine finds its record finished, attaches and unwinds at
\* once, or attaches and enters its body: not once a shutdown has listed the
\* active tasks and gathers the coroutines, for then it was asked to stop.
LEMMA TrackGood ==
    ASSUME TypeOK, UInv, NEW t \in Tasks, TrackExistingTask(t)
    PROVE  Good
<1>0. "own" \in Slots /\ "ext" \in Slots /\ "own" # "ext" /\ "cancelled" \in TerminalStatuses
  BY DEF Slots, TerminalStatuses
<1>1. Nested /\ Answered /\ Gathered
  BY DEF UInv
<1>2. pc[t] = "spawned" /\ UNCHANGED <<open, background, host, shut, shutTodo>>
  BY DEF TrackExistingTask
<1>3. host[t] = t /\ ~InContext(t)
  BY <1>1, <1>2 DEF Nested, OwnRoot, InContext
<1>4. CASE ~Active(t)
  <2>1. pc' = [pc EXCEPT ![t] = "gone"] /\ rec' = rec /\ fin' = fin
    BY <1>4 DEF TrackExistingTask
  <2>2. pc'[t] = "gone" /\ \A x \in Tasks : x # t => pc'[x] = pc[x]
    BY <2>1 DEF TypeOK
  <2>3. Ends /\ \A x \in Tasks : Held(x)
    BY <2>1 DEF Ends, EndsByCall, Held, Active
  <2>4. Nested'
    <3>1. \A x \in Tasks : /\ InContext(x)' => InContext(x) /\ rec'[x].parent = rec[x].parent
                           /\ pc'[x] = "calling" <=> pc[x] = "calling"
      BY <1>2, <2>1, <2>2 DEF InContext
    <3>2. \A x \in Tasks : pc'[x] \in {"none", "reserved", "spawned", "epilogue"} => host[x] = x
      BY <1>1, <2>2 DEF Nested, OwnRoot
    <3>3. \A x \in Tasks : x \in background' => host[x] = x /\ pc'[x] \notin {"none", "reserved"}
      BY <1>1, <1>2, <2>2 DEF Nested, OwnRoot
    <3>4. QED
      BY <1>1, <1>2, <3>1, <3>2, <3>3, ContextsLeft
  <2>5. Answered'
    <3>1. \A x \in Tasks : Working(x)' => Working(x)
      BY <2>2 DEF Working
    <3>2. \A x \in Tasks : pc'[x] \in {"reserved", "spawned"} => pc[x] \in {"reserved", "spawned"}
      BY <2>2
    <3>3. \A x \in Tasks : fin'["own"][x].ph # "idle" => pc'[x] \in {"finish", "cleanup", "epilogue"}
      BY <1>1, <1>2, <2>1, <2>2 DEF Answered
    <3>4. QED
      BY <1>1, <1>2, <2>1, <2>3, <3>1, <3>2, <3>3, AnsweredStep
  <2>6. Gathered'
    <3>1. \A x \in background : pc[x] \in {"gone", "spawned", "epilogue"} =>
                                pc'[x] \in {"gone", "spawned", "epilogue"}
      BY <2>2 DEF TypeOK
    <3>2. QED
      BY <1>1, <1>2, <2>3, <3>1, GatheredAside DEF TypeOK
  <2>7. QED
    BY <2>3, <2>4, <2>5, <2>6 DEF Good, UInv
<1>5. CASE Active(t)
  <2>1. /\ rec' = [rec EXCEPT ![t] = [rec[t] EXCEPT !.handle = TRUE, !.awaiting = FALSE]]
        /\ \/ /\ rec[t].cancelRequested /\ pc' = [pc EXCEPT ![t] = "epilogue"]
              /\ fin' = Begin("own", t, "cancelled")
           \/ ~rec[t].cancelRequested /\ pc' = [pc EXCEPT ![t] = "body"] /\ fin' = fin
    BY <1>5 DEF TrackExistingTask
  <2>2. rec'[t].handle /\ \A x \in Tasks : x # t => rec'[x] = rec[x]
    BY <2>1 DEF TypeOK, TaskRecord
  <2>3. /\ rec'[t].parent = rec[t].parent /\ rec'[t].cancelRequested = rec[t].cancelRequested
        /\ rec'[t].status = rec[t].status
    BY <2>1 DEF TypeOK, TaskRecord
  <2>4. \A x \in Tasks : /\ rec'[x].parent = rec[x].parent
                         /\ rec'[x].cancelRequested = rec[x].cancelRequested
                         /\ Active(x)' <=> Active(x)
    BY <2>2, <2>3 DEF Active
  <2>5. Ends
    BY <2>4 DEF Ends, EndsByCall
  <2>6. /\ pc'[t] \in {"epilogue", "body"} /\ \A x \in Tasks : x # t => pc'[x] = pc[x]
        /\ pc'[t] = "body" => ~rec[t].cancelRequested
    BY <2>1 DEF TypeOK
  <2>7. /\ fin["own"][t].ph = "idle"
        /\ fin["ext"][t].ph # "idle" => shut \in {"sweeping", "down"}
    BY <1>1, <1>2, <1>5 DEF Answered, Unowned
  <2>8. /\ \A x \in Tasks : fin'["ext"][x] = fin["ext"][x]
        /\ \A x \in Tasks : x # t => fin'["own"][x] = fin["own"][x]
        /\ pc'[t] = "body" => fin'["own"][t] = fin["own"][t]
    <3>1. CASE fin' = fin
      BY <3>1
    <3>2. CASE fin' = Begin("own", t, "cancelled") /\ pc' = [pc EXCEPT ![t] = "epilogue"]
      <4>1. pc'[t] = "epilogue"
        BY <3>2 DEF TypeOK
      <4>2. QED
        BY <1>0, <3>2, <4>1, BeganCall
    <3>3. QED
      BY <2>1, <3>1, <3>2
  <2>9. Nested'
    <3>1. CASE pc' = [pc EXCEPT ![t] = "body"]
      <4>1. host' = [host EXCEPT ![t] = t]
        BY <1>2, <1>3 DEF TypeOK
      <4>2. QED
        BY <1>1, <1>2, <1>3, <2>4, <3>1, <4>1, RootEntered
    <3>2. CASE pc' = [pc EXCEPT ![t] = "epilogue"]
      <4>0. pc'[t] = "epilogue"
        BY <3>2 DEF TypeOK
      <4>1. \A x \in Tasks : /\ InContext(x)' => InContext(x) /\ rec'[x].parent = rec[x].parent
                             /\ pc'[x] = "calling" <=> pc[x] = "calling"
        BY <1>2, <2>4, <2>6, <4>0 DEF InContext
      <4>2. \A x \in Tasks : pc'[x] \in {"none", "reserved", "spawned", "epilogue"} => host[x] = x
        BY <1>1, <1>3, <2>6 DEF Nested, OwnRoot
      <4>3. \A x \in Tasks : x \in background' => host[x] = x /\ pc'[x] \notin {"none", "reserved"}
        BY <1>1, <1>2, <1>3, <2>6 DEF Nested, OwnRoot
      <4>4. QED
        BY <1>1, <1>2, <4>1, <4>2, <4>3, ContextsLeft
    <3>3. QED
      BY <2>1, <3>1, <3>2
  <2>10. Answered'
    <3> SUFFICES ASSUME NEW x \in Tasks
                 PROVE  /\ Active(x)' /\ pc'[x] \in {"reserved", "spawned"} => rec'[x].awaiting /\ ~rec'[x].handle
                        /\ Active(x)' /\ Working(x)' => rec'[x].handle
                        /\ Active(x)' /\ fin'["ext"][x].ph # "idle" => Unowned(x)' \/ shut' \in {"sweeping", "down"}
                        /\ fin'["own"][x].ph # "idle" => pc'[x] \in {"finish", "cleanup", "epilogue"}
      BY DEF Answered
    <3>1. CASE x = t
      BY <1>2, <2>2, <2>6, <2>7, <2>8, <3>1
    <3>2. CASE x # t
      <4>1. /\ rec'[x] = rec[x] /\ pc'[x] = pc[x] /\ fin'["ext"][x] = fin["ext"][x]
            /\ fin'["own"][x] = fin["own"][x]
        BY <2>2, <2>6, <2>8, <3>2
      <4>2. (Active(x)' <=> Active(x)) /\ (Unowned(x)' <=> Unowned(x)) /\ (Working(x)' <=> Working(x))
        BY <4>1 DEF Active, Unowned, Working
      <4>3. QED
        BY <1>1, <1>2, <4>1, <4>2 DEF Answered
    <3>3. QED
      BY <3>1, <3>2
  <2>11. Gathered'
    <3>1. shut # "up" => ~open /\ \A x \in Tasks : Active(x) =>
                              rec[x].cancelRequested \/ (shut = "cancelling" /\ x \in shutTodo)
      BY <1>1 DEF Gathered
    <3>2. shut # "up" => ~open' /\ \A x \in Tasks : Active(x)' =>
                              rec'[x].cancelRequested \/ (shut = "cancelling" /\ x \in shutTodo)
      BY <1>2, <2>4, <3>1
    <3>3. shut \in {"draining", "sweeping", "down"} => pc'[t] = "epilogue"
      BY <1>5, <2>6, <3>1
    <3>4. shut \in {"draining", "sweeping", "down"} =>
            \A x \in background : pc'[x] \in {"gone", "spawned", "epilogue"}
                                  \/ (shut = "draining" /\ x \in shutTodo)
      BY <1>1, <2>6, <3>3 DEF Gathered, TypeOK
    <3>5. QED
      BY <1>2, <3>2, <3>4 DEF Gathered
  <2>12. QED
    BY <2>5, <2>9, <2>10, <2>11 DEF Good, UInv
<1>6. QED
  BY <1>4, <1>5

\* A published outcome ends its task; nothing else changes in a record that
\* stays active.
LEMMA PublishHeld ==
    ASSUME TypeOK, NEW k \in Slots, NEW t \in Tasks, PublishTerminal(k, t)
    PROVE  Ends /\ \A x \in Tasks : Held(x)
<1>1. Ends
  BY PublishStep DEF Regular, Ends
<1>2. ASSUME NEW x \in Tasks PROVE Held(x)
  <2>1. CASE rec'[x] = rec[x]
    BY <2>1 DEF Held, Active
  <2>2. CASE rec'[x] # rec[x]
    <3> DEFINE s == fin[k][t].st
    <3>1. rec[x] \in TaskRecord /\ s \in TerminalStatuses
      BY CallType DEF TypeOK
    <3>2. \/ rec'[x] = [rec[x] EXCEPT !.status = "absent"]
          \/ rec'[x] = [rec[x] EXCEPT !.status = s, !.handle = FALSE]
      BY <2>2 DEF PublishTerminal, MarkTerminal
    <3> HIDE DEF s
    <3>3. /\ rec'[x].parent = rec[x].parent /\ rec'[x].cancelRequested = rec[x].cancelRequested
          /\ rec'[x].status = "absent" \/ rec'[x].status = s
      BY <3>1, <3>2 DEF TaskRecord
    <3>4. ~Active(x)'
      BY <3>1, <3>3 DEF Active, ActiveStatuses, TerminalStatuses
    <3>5. QED
      BY <3>3, <3>4 DEF Held
  <2>3. QED
    BY <2>1, <2>2
<1>3. QED
  BY <1>1, <1>2

\* Where the coroutine of t, and the caller of run_inline, go on.
Resumed(t) ==
    /\ pc'[t] \in {"finish", "epilogue", "gone"}
    /\ pc'[t] = "finish" => pc[t] = "finish"
    /\ pc'[t] = "epilogue" => t \in background
    /\ \A x \in Tasks : x # t =>
          \/ pc'[x] = pc[x] /\ (pc'[t] # "gone" \/ x \notin Callers(t))
          \/ pc'[t] = "gone" /\ x \in Callers(t) /\ pc'[x] \in {"body", "cleanup"}
    /\ \A x \in Tasks : fin'["ext"][x] = fin["ext"][x]
    /\ fin'["own"][t].ph = "idle" \/ pc'[t] \in {"finish", "epilogue"}
    /\ \A x \in Tasks : x # t => fin'["own"][x] = fin["own"][x] \/ pc'[x] = "cleanup"

\* The end of the coroutine's own call resumes it, or its caller.
LEMMA Resumes ==
    ASSUME TypeOK, NEW t \in Tasks, ReturnToOwner(t)
    PROVE  Resumed(t)
<1> DEFINE st      == fin["own"][t].st
           again   == pc[t] = "finish" /\ st # "completed"
           hooks   == /\ pc[t] = "cleanup"
                      /\ t \in background
                      /\ st = "cancelled" \/ rec'[t].status \in {"cancelled", "absent"}
           unwinds == pc[t] = "cleanup" /\ st = "cancelled"
           own     == [x \in Tasks |->
                        IF x = t THEN IF again THEN Call("completed")
                                      ELSE IF hooks THEN Call("cancelled") ELSE Idle
                        ELSE IF (~again /\ ~hooks) /\ unwinds /\ x \in Callers(t)
                             THEN Call("cancelled") ELSE fin["own"][x]]
<1>1. pc' = [x \in Tasks |->
                IF x = t THEN IF again THEN "finish" ELSE IF hooks THEN "epilogue" ELSE "gone"
                ELSE IF (~again /\ ~hooks) /\ x \in Callers(t)
                     THEN IF unwinds THEN "cleanup" ELSE "body"
                     ELSE pc[x]]
  BY DEF ReturnToOwner
<1>2. fin' = [fin EXCEPT !["own"] = own]
  BY DEF ReturnToOwner
<1>3. fin'["ext"] = fin["ext"] /\ fin'["own"] = own
  BY <1>2 DEF TypeOK, Slots
<1>4. (again => pc[t] = "finish") /\ (hooks => t \in background)
  OBVIOUS
<1>5. /\ own[t] = IF again THEN Call("completed") ELSE IF hooks THEN Call("cancelled") ELSE Idle
      /\ \A x \in Tasks : x # t => own[x] = fin["own"][x]
                                   \/ ((~again /\ ~hooks) /\ unwinds /\ x \in Callers(t))
  OBVIOUS
<1> HIDE DEF st, again, hooks, unwinds, own
<1>6. pc'[t] = IF again THEN "finish" ELSE IF hooks THEN "epilogue" ELSE "gone"
  BY <1>1
<1>7. \A x \in Tasks : x # t => pc'[x] = IF (~again /\ ~hooks) /\ x \in Callers(t)
                                         THEN IF unwinds THEN "cleanup" ELSE "body" ELSE pc[x]
  BY <1>1
<1>8. pc'[t] = "gone" <=> (~again /\ ~hooks)
  BY <1>6
<1>9. fin'["own"][t].ph = "idle" \/ pc'[t] \in {"finish", "epilogue"}
  BY <1>3, <1>5, <1>6 DEF Idle
<1>10. /\ pc'[t] \in {"finish", "epilogue", "gone"}
       /\ pc'[t] = "finish" => pc[t] = "finish"
       /\ pc'[t] = "epilogue" => t \in background
  BY <1>4, <1>6
<1>11. \A x \in Tasks : x # t =>
          \/ pc'[x] = pc[x] /\ (pc'[t] # "gone" \/ x \notin Callers(t))
          \/ pc'[t] = "gone" /\ x \in Callers(t) /\ pc'[x] \in {"body", "cleanup"}
  BY <1>7, <1>8
<1>12. \A x \in Tasks : x # t => fin'["own"][x] = fin["own"][x] \/ pc'[x] = "cleanup"
  BY <1>3, <1>5, <1>7
<1>13. QED
  BY <1>3, <1>9, <1>10, <1>11, <1>12 DEF Resumed

\* The second half of a call: the terminal state is published.
LEMMA PublishGood ==
    ASSUME TypeOK, UInv, NEW k \in Slots, NEW t \in Tasks, PublishTerminal(k, t)
    PROVE  Good
<1>0. "own" \in Slots /\ "ext" \in Slots /\ "own" # "ext"
  BY DEF Slots
<1>1. Nested /\ Answered /\ Gathered
  BY DEF UInv
<1>2. UNCHANGED <<open, background, host, shut, shutTodo>> /\ fin[k][t].ph = "commit"
  BY DEF PublishTerminal
<1>3. Ends /\ \A x \in Tasks : Held(x)
  BY PublishHeld
<1>4. \A x \in Tasks : rec'[x].parent = rec[x].parent
  BY <1>3 DEF Held
<1>5. CASE k # "own"
  <2>1. pc' = pc /\ fin' = SetCall(k, t, Idle)
    BY <1>5 DEF PublishTerminal
  <2>2. Idle \in Finisher /\ Idle.ph = "idle"
    BY CallType DEF Idle, TypeOK
  <2>3. \A j \in Slots, x \in Tasks : fin'[j][x] = IF j = k /\ x = t THEN Idle ELSE fin[j][x]
    BY <2>1, <2>2, SetCallType DEF TypeOK
  <2>4. \A j \in Slots, x \in Tasks : fin'[j][x].ph # "idle" => fin[j][x].ph # "idle"
    BY <2>2, <2>3
  <2>5. QED
    BY <1>0, <1>2, <1>3, <2>1, <2>4, Aside
<1>6. CASE k = "own"
  <2>1. Resumed(t)
    BY <1>6, Resumes DEF PublishTerminal
  <2>2. pc[t] \in {"finish", "cleanup", "epilogue"}
    BY <1>1, <1>2, <1>6 DEF Answered
  <2>3. /\ host[t] = t => Callers(t) = {}
        /\ host[t] # t => InContext(t) /\ Callers(t) = {rec[t].parent} /\ rec[t].parent \in Tasks
    BY <1>1, <2>2, CallersOf
  <2>4. \A x \in Callers(t) : x \in Tasks /\ x # t /\ pc[x] = "calling"
    BY DEF Callers
  <2>5. Answered'
    <3>1. \A x \in Tasks : Working(x)' => Working(x)
      BY <2>1, <2>4 DEF Resumed, Working
    <3>2. \A x \in Tasks : pc'[x] \in {"reserved", "spawned"} => pc[x] \in {"reserved", "spawned"}
      BY <2>1 DEF Resumed
    <3>3. ASSUME NEW x \in Tasks, fin'["own"][x].ph # "idle"
          PROVE  pc'[x] \in {"finish", "cleanup", "epilogue"}
      <4>1. CASE x = t
        BY <2>1, <3>3, <4>1 DEF Resumed
      <4>2. CASE x # t /\ pc'[x] # "cleanup"
        <5>1. fin'["own"][x] = fin["own"][x]
          BY <2>1, <4>2 DEF Resumed
        <5>2. pc[x] \in {"finish", "cleanup", "epilogue"}
          BY <1>1, <3>3, <5>1 DEF Answered
        <5>3. pc'[x] = pc[x]
          BY <2>1, <2>4, <4>2, <5>2 DEF Resumed
        <5>4. QED
          BY <5>2, <5>3
      <4>3. QED
        BY <4>1, <4>2
    <3>4. \A x \in Tasks : fin'["ext"][x] = fin["ext"][x]
      BY <2>1 DEF Resumed
    <3>5. QED
      BY <1>1, <1>2, <1>3, <3>1, <3>2, <3>3, <3>4, AnsweredStep
  <2>6. Gathered'
    <3>1. \A x \in background : pc[x] \in {"gone", "spawned", "epilogue"} =>
                                pc'[x] \in {"gone", "spawned", "epilogue"}
      BY <2>1, <2>4 DEF Resumed, TypeOK
    <3>2. QED
      BY <1>1, <1>2, <1>3, <3>1, GatheredAside DEF TypeOK
  <2>7. Nested'
    <3>1. CASE host[t] = t \/ pc'[t] # "gone"
      <4>1. \A x \in Tasks : x # t => pc'[x] = pc[x]
        BY <2>1, <2>3, <3>1 DEF Resumed
      <4>2. \A x \in Tasks : /\ InContext(x)' => InContext(x) /\ rec'[x].parent = rec[x].parent
                             /\ pc'[x] = "calling" <=> pc[x] = "calling"
        BY <1>4, <2>1, <2>2, <4>1 DEF InContext, Resumed
      <4>3. \A x \in Tasks : pc'[x] \in {"none", "reserved", "spawned", "epilogue"} => host[x] = x
        BY <1>1, <2>1, <4>1 DEF Nested, OwnRoot, Resumed
      <4>4. \A x \in Tasks : x \in background' => host[x] = x /\ pc'[x] \notin {"none", "reserved"}
        BY <1>1, <1>2, <2>1, <4>1 DEF Nested, OwnRoot, Resumed
      <4>5. QED
        BY <1>1, <1>2, <4>2, <4>3, <4>4, ContextsLeft
    <3>2. CASE host[t] # t /\ pc'[t] = "gone"
      <4> DEFINE p == rec[t].parent
      <4>1. p \in Tasks /\ Callers(t) = {p} /\ InContext(t)
        BY <2>3, <3>2
      <4>2. p \in Callers(t) /\ p # t /\ \A x \in Tasks : x # t /\ x # p => x \notin Callers(t)
        BY <2>4, <4>1
      <4>3. rec[t].parent = p
        OBVIOUS
      <4> HIDE DEF p
      <4>4. pc'[p] \in {"body", "cleanup"} /\ \A x \in Tasks : x # t /\ x # p => pc'[x] = pc[x]
        BY <2>1, <4>1, <4>2, <3>2 DEF Resumed
      <4>5. pc[t] # "calling"
        BY <2>2
      <4>6. QED
        BY <1>1, <1>2, <1>4, <3>2, <4>1, <4>3, <4>4, <4>5, CallerResumes
    <3>3. QED
      BY <3>1, <3>2
  <2>8. QED
    BY <1>3, <2>5, <2>6, <2>7 DEF Good, UInv
<1>7. QED
  BY <1>5, <1>6

\* The coordinator closes and lists the active tasks, and cancels each in turn.
LEMMA ClosingGood ==
    ASSUME TypeOK, UInv, ShutdownBegin \/ \E t \in Tasks : ShutdownCancel(t)
    PROVE  Good
<1>0. "own" \in Slots /\ "ext" \in Slots /\ "cancelled" \in TerminalStatuses /\ "own" # "ext"
  BY DEF Slots, TerminalStatuses
<1>1. Gathered
  BY DEF UInv
<1>2. CASE ShutdownBegin
  <2>1. /\ UNCHANGED <<rec, pc, host, background, fin>> /\ shut = "up" /\ shut' = "cancelling"
        /\ open' = FALSE /\ shutTodo' = {x \in Tasks : Active(x)}
    BY <1>2 DEF ShutdownBegin
  <2>2. Ends /\ \A x \in Tasks : Held(x)
    BY <2>1 DEF Ends, EndsByCall, Held, Active
  <2>3. Nested' /\ Answered'
    BY <2>1, <2>2, StandStill
  <2>4. Gathered'
    BY <2>1 DEF Gathered, Active
  <2>5. QED
    BY <2>2, <2>3, <2>4 DEF Good, UInv
<1>3. ASSUME NEW t \in Tasks, ShutdownCancel(t) PROVE Good
  <2>1. /\ UNCHANGED <<pc, host, background, open, shut>> /\ shut = "cancelling"
        /\ \/ rec' = rec /\ fin' = fin /\ ~Active(t) /\ shutTodo' = shutTodo \ {t}
           \/ rec' = [rec EXCEPT ![t].cancelRequested = TRUE] /\ fin' = fin /\ shutTodo' = shutTodo \ {t}
           \/ /\ rec' = [rec EXCEPT ![t].cancelRequested = TRUE] /\ shutTodo' = shutTodo
              /\ fin' = Begin("ext", t, "cancelled") /\ Unowned(t)
    BY <1>3 DEF ShutdownCancel, RequestCancel
  <2>2. Ends /\ \A x \in Tasks : Held(x)
    BY <2>1, HeldUpdate
  <2>3. /\ \A x \in Tasks : fin'["ext"][x].ph # "idle" => fin["ext"][x].ph # "idle" \/ Unowned(x)
        /\ \A x \in Tasks : fin'["own"][x] = fin["own"][x]
    <3>1. CASE fin' = fin
      BY <3>1
    <3>2. CASE fin' = Begin("ext", t, "cancelled") /\ Unowned(t)
      BY <1>0, <3>2, BeganCall
    <3>3. QED
      BY <2>1, <3>1, <3>2
  <2>4. Nested' /\ Answered'
    BY <2>1, <2>2, <2>3, StandStill
  <2>5. Gathered'
    <3>1. ~open /\ \A x \in Tasks : Active(x) => rec[x].cancelRequested \/ x \in shutTodo
      BY <1>1, <2>1 DEF Gathered
    <3>2. (Active(t)' => rec'[t].cancelRequested) \/ shutTodo' = shutTodo
      <4>1. CASE rec' = [rec EXCEPT ![t].cancelRequested = TRUE]
        BY <4>1 DEF TypeOK, TaskRecord
      <4>2. CASE rec' = rec /\ ~Active(t)
        BY <4>2 DEF Active
      <4>3. QED
        BY <2>1, <4>1, <4>2
    <3>3. \A x \in Tasks : Active(x)' => rec'[x].cancelRequested \/ x \in shutTodo'
      BY <2>1, <2>2, <3>1, <3>2 DEF Held
    <3>4. QED
      BY <2>1, <3>1, <3>3 DEF Gathered
  <2>6. QED
    BY <2>2, <2>4, <2>5 DEF Good, UInv
<1>4. QED
  BY <1>2, <1>3

\* The background tasks are cancelled, gathered, and what is left is swept.
LEMMA DrainGood ==
    ASSUME TypeOK, UInv, ShutdownDrain
    PROVE  Good
<1> DEFINE live == {t \in background : pc[t] # "gone"}
<1>1. /\ UNCHANGED <<rec, open, background, host, fin>>
      /\ shut = "cancelling" /\ shutTodo = {} /\ shut' = "draining" /\ shutTodo' = live
      /\ pc' = [t \in Tasks |-> IF t \in live /\ pc[t] = "spawned" THEN "gone" ELSE pc[t]]
  BY DEF ShutdownDrain
<1>2. \A x \in Tasks : pc'[x] = pc[x] \/ (pc[x] = "spawned" /\ pc'[x] = "gone")
  BY <1>1
<1>3. Nested /\ Answered /\ Gathered
  BY DEF UInv
<1>4. Ends /\ \A x \in Tasks : Held(x)
  BY <1>1 DEF Ends, EndsByCall, Held, Active
<1>5. Nested'
  <2>1. \A x \in Tasks : /\ InContext(x)' => InContext(x) /\ rec'[x].parent = rec[x].parent
                         /\ pc'[x] = "calling" <=> pc[x] = "calling"
    BY <1>1, <1>2 DEF InContext
  <2>2. \A x \in Tasks : pc'[x] \in {"none", "reserved", "spawned", "epilogue"} => host[x] = x
    BY <1>2, <1>3 DEF Nested, OwnRoot
  <2>3. \A x \in Tasks : x \in background' => host[x] = x /\ pc'[x] \notin {"none", "reserved"}
    BY <1>1, <1>2, <1>3 DEF Nested, OwnRoot
  <2>4. QED
    BY <1>1, <1>3, <2>1, <2>2, <2>3, ContextsLeft
<1>6. Answered'
  <2>1. \A x \in Tasks : Working(x)' => Working(x)
    BY <1>2 DEF Working
  <2>2. \A x \in Tasks : pc'[x] \in {"reserved", "spawned"} => pc[x] \in {"reserved", "spawned"}
    BY <1>2
  <2>3. \A x \in Tasks : fin'["own"][x].ph # "idle" => pc'[x] \in {"finish", "cleanup", "epilogue"}
    BY <1>1, <1>2, <1>3 DEF Answered
  <2>4. QED
    BY <1>1, <1>3, <1>4, <2>1, <2>2, <2>3, AnsweredStep
<1>7. Gathered'
  <2>1. ~open /\ \A x \in Tasks : Active(x) => rec[x].cancelRequested
    BY <1>1, <1>3 DEF Gathered
  <2>2. \A x \in background : pc'[x] = "gone" \/ x \in shutTodo'
    BY <1>1 DEF TypeOK
  <2>3. QED
    BY <1>1, <2>1, <2>2 DEF Gathered, Active
<1>8. QED
  BY <1>4, <1>5, <1>6, <1>7 DEF Good, UInv

\* The sweep begins when the gathered coroutines are gone; what it finds active
\* it marks cancelled.
LEMMA SweepGood ==
    ASSUME TypeOK, UInv, ShutdownSweep \/ ShutdownDone \/ \E t \in Tasks : SweepTask(t)
    PROVE  Good
<1>0. "own" \in Slots /\ "ext" \in Slots /\ "cancelled" \in TerminalStatuses /\ "own" # "ext"
  BY DEF Slots, TerminalStatuses
<1>1. /\ UNCHANGED <<rec, pc, host, background, open>>
      /\ shut \in {"draining", "sweeping"} /\ shut' \in {"sweeping", "down"}
      /\ shut = "draining" => fin' = fin /\ \A x \in shutTodo : pc[x] = "gone"
      /\ fin' = fin \/ \E t \in Tasks : fin' = Begin("ext", t, "cancelled")
  BY DEF ShutdownSweep, ShutdownDone, SweepTask
<1>2. Gathered
  BY DEF UInv
<1>3. Ends /\ \A x \in Tasks : Held(x)
  BY <1>1 DEF Ends, EndsByCall, Held, Active
<1>4. \A x \in Tasks : fin'["own"][x] = fin["own"][x]
  BY <1>0, <1>1, BeganCall
<1>5. Nested' /\ Answered'
  <2>1. \A x \in Tasks : fin'["ext"][x].ph # "idle" => fin["ext"][x].ph # "idle" \/ shut \in {"sweeping", "down"}
    BY <1>1
  <2>2. QED
    BY <1>1, <1>3, <1>4, <2>1, StandStill
<1>6. Gathered'
  <2>1. ~open /\ \A x \in Tasks : Active(x) => rec[x].cancelRequested
    BY <1>1, <1>2 DEF Gathered
  <2>2. \A x \in background : pc[x] \in {"gone", "spawned", "epilogue"}
    BY <1>1, <1>2 DEF Gathered
  <2>3. QED
    BY <1>1, <2>1, <2>2 DEF Gathered, Active
<1>7. QED
  BY <1>3, <1>5, <1>6 DEF Good, UInv

\* Nothing runs at first.
LEMMA InitUInv == Init => UInv
<1> SUFFICES ASSUME Init PROVE UInv
  OBVIOUS
<1>1. \A t \in Tasks : ~InContext(t) /\ pc[t] = "none" /\ host[t] = t
  BY DEF Init, InContext
<1>2. \A t \in Tasks : ~Active(t) /\ \A k \in Slots : fin[k][t].ph = "idle"
  BY DEF Init, Active, ActiveStatuses, Absent, Idle
<1>3. Rooted /\ OwnRoot
  BY <1>1 DEF Init, Rooted, OwnRoot
<1>4. \E d \in [Tasks -> Nat] : Stacked(d)
  <2> DEFINE d == [t \in Tasks |-> 0]
  <2>1. d \in [Tasks -> Nat]
    OBVIOUS
  <2>2. Stacked(d)
    BY <1>1 DEF Stacked
  <2>3. QED
    BY <2>1, <2>2, Zenon
<1>5. Answered
  BY <1>1, <1>2 DEF Answered, Slots
<1>6. Gathered
  BY DEF Init, Gathered
<1>7. QED
  BY <1>3, <1>4, <1>5, <1>6 DEF UInv, Nested

\* Every step keeps the contexts stacked, the records answered for and the
\* shutdown's promise, and ends a task only through a call.
LEMMA NextGood == IInv /\ UInv /\ Next => Good
<1> SUFFICES ASSUME IInv, UInv, Next PROVE Good
  OBVIOUS
<1>0. TypeOK
  BY DEF IInv
<1>1. ASSUME NEW t \in Tasks, Create(t) PROVE Good
  BY <1>1, CreateGood
<1>2. ASSUME NEW t \in Tasks, CoroutineStep(t) PROVE Good
  BY <1>0, <1>2, SpawnGood, TrackGood, OwnCallGood, BodyGood DEF CoroutineStep
<1>3. ASSUME NEW t \in Tasks, NEW k \in Slots, CallStep(k, t) PROVE Good
  BY <1>0, <1>3, CallGood, PublishGood DEF CallStep
<1>4. ASSUME NEW t \in Tasks, BodyStep(t) PROVE Good
  BY <1>0, <1>4, BodyGood, OwnCallGood DEF BodyStep
<1>5. ASSUME NEW t \in Tasks, AbortReservation(t) PROVE Good
  BY <1>0, <1>5, OwnCallGood
<1>6. ASSUME NEW t \in Tasks, CancelTask(t) PROVE Good
  BY <1>0, <1>6, CancelGood
<1>7. ASSUME ShutdownBegin \/ ShutdownStep PROVE Good
  BY <1>0, <1>7, ClosingGood, DrainGood, SweepGood DEF ShutdownStep
<1>8. ASSUME NEW w \in Waiters, WaiterStep(w) PROVE Good
  BY <1>0, <1>8, WaiterGood
<1>9. QED
  BY <1>1, <1>2, <1>3, <1>4, <1>5, <1>6, <1>7, <1>8 DEF Next

\* A call that ends the record of work in the background finds no body: the
\* coroutine's own call comes after it, a call for a record without an owner has
\* none, and the sweep comes after the whole stack of its asyncio task is left.
LEMMA NoBodyUnderCall ==
    ASSUME TypeOK, UInv, NEW k \in Slots, NEW t \in Tasks, Active(t), fin[k][t].ph # "idle",
           host[t] \in background
    PROVE  ~Working(t)
<1> SUFFICES ASSUME Working(t) PROVE FALSE
  OBVIOUS
<1>1. Nested /\ Answered /\ Gathered
  BY DEF UInv
<1>2. rec[t].handle /\ pc[t] \in {"body", "calling"} /\ InContext(t)
  BY <1>1 DEF Answered, Working, InContext
<1>3. CASE k = "own"
  BY <1>1, <1>2, <1>3 DEF Answered
<1>4. CASE k = "ext"
  <2>1. shut \in {"sweeping", "down"}
    BY <1>1, <1>2, <1>4 DEF Answered, Unowned
  <2>2. pc[host[t]] \in {"gone", "spawned", "epilogue"}
    BY <1>1, <2>1 DEF Gathered
  <2>3. pc[host[t]] \in {"body", "calling"}
    BY <1>1, <1>2 DEF Nested, Rooted
  <2>4. QED
    BY <2>2, <2>3
<1>5. QED
  BY <1>3, <1>4 DEF Slots

\* The terminal state of work in the runtime's background, inline children
\* included, is published only after its coroutine has left the body: not by
\* cancel_task, not by a parent's mark_* call, not by shutdown (whose
\* mark_unfinished_cancelled comes after the background tasks are gathered).
THEOREM WorkUnwoundFirst == Spec => UnwoundBeforeTerminal
<1>1. Init => UInv
  BY InitUInv
<1>2. IInv /\ UInv /\ [Next]_vars => UInv'
  <2>1. CASE Next
    BY <2>1, NextGood DEF Good
  <2>2. ASSUME UInv, UNCHANGED vars PROVE UInv'
    <3>1. Answered' /\ Gathered'
      BY <2>2 DEF UInv, vars, Answered, Gathered, Active, Working, Unowned
    <3>2. Nested'
      BY <2>2 DEF UInv, vars, Nested, Rooted, OwnRoot, Stacked, InContext
    <3>3. QED
      BY <3>1, <3>2 DEF UInv
  <2>3. QED
    BY <2>1, <2>2
<1>3. IInv /\ UInv /\ [Next]_vars
        => [\A t \in Tasks : host[t] \in background => Unwinds(t)]_vars
  <2> SUFFICES ASSUME IInv, UInv, Next, NEW t \in Tasks, host[t] \in background, Active(t), ~Active(t)'
               PROVE  ~Working(t)
    BY DEF Unwinds
  <2>1. \E k \in Slots : fin[k][t].ph = "commit"
    BY NextGood DEF Good, Ends, EndsByCall
  <2>2. QED
    BY <2>1, NoBodyUnderCall DEF IInv
<1>4. QED
  BY <1>1, <1>2, <1>3, InitIInv, NextIInv, PTL DEF Spec, UnwoundBeforeTerminal
=============================================================================
