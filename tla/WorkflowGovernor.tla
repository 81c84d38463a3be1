--------------------------- MODULE WorkflowGovernor ---------------------------
(***************************************************************************)
(* WorkflowGovernor.execute_workflow (core/runtime/workflow_governor.py)   *)
(* over the run store: the vault gate (ExecutionTaskRunner.run_with_gate), *)
(* the global permits, the timeout, the durable row and the execution task *)
(* of every attempt, and the scheduler's listener                          *)
(* (core/scheduling/job_history.py).                                       *)
(*                                                                         *)
(* An attempt suspends at three places: in the gate's queue, in the        *)
(* semaphore's queue and in the workflow itself.  The awaits between them  *)
(* only take locks nobody holds across a suspension, so what lies between  *)
(* two suspensions is one action, the finally clauses included.  The run   *)
(* id stands for its task as well.                                         *)
(***************************************************************************)
EXTENDS WorkflowRunStore, Sequences, SequencesExt

CONSTANTS
    Vaults,
    VaultOf,      \* VaultOf[w]: the vault of workflow w
    Limits,       \* values of max_concurrent_workflows; 0 is unlimited
    MaxChanges,   \* bound on changes of that setting
    MaxCrashes,   \* bound on crashes of the process
    NoRun,        \* "nobody"
    Inputs        \* what happens in this instance: timeout cancel nested crash events

ASSUME GovernorAssumption ==
    /\ VaultOf \in [Workflows -> Vaults]
    /\ Limits \subseteq Nat
    /\ NoRun \notin RunIds

VARIABLES
    task,      \* task[r]: status of the execution task; "none" and "lost" outside its life
    pc,        \* where execute_workflow(r) is suspended
    caller,    \* caller[r]: the run whose workflow called workflow_run, or NoRun
    cancelled, \* cancelled[r]: asyncio cancellation not delivered yet
    gate,      \* gate[v]: holder of the vault's lock, NoRun while it is free
    gateQ,     \* gateQ[v]: the lock's waiters
    setting,   \* general setting max_concurrent_workflows
    changes,   \* how often it was changed
    crashes,
    sems,      \* the semaphores made so far: limit, free permits, waiters
    permit     \* permit[r]: the semaphore r queues at or holds a permit of; 0 is none

procVars == <<task, pc, caller, cancelled, gate, gateQ, sems, permit>>
govVars == <<rows, used, now, procVars, setting, changes, crashes>>

Vault(r) == VaultOf[rows[r].workflow]

\* Run ids decide between rows of the same time stamp only, and here no two
\* terminal writes share one: the ids are handed out in order.
NextRunId(r) == r \in RunIds \ used /\ \A x \in RunIds \ used : r <= x

-----------------------------------------------------------------------------
(***************************************************************************)
(* The lanes.  asyncio.Lock and asyncio.Semaphore are first in, first out: *)
(* a newcomer queues up if anybody waits; a waiter that is cancelled       *)
(* leaves the queue.                                                       *)
(***************************************************************************)

GateFree(v) == gate[v] = NoRun /\ gateQ[v] = <<>>

\* The process as a record, so that the stretch of code between two suspensions
\* is a composition of functions.
Proc == [task |-> task, pc |-> pc, gate |-> gate, gateQ |-> gateQ,
         sems |-> sems, permit |-> permit, rows |-> rows]

\* deque.remove of a waiter: a run is in a queue at most once.
Dequeued(q, r) ==
    IF \E i \in DOMAIN q : q[i] = r
    THEN RemoveAt(q, CHOOSE i \in DOMAIN q : q[i] = r) ELSE q

\* mark_started on the task, then on the row; the workflow begins.
Begin(p, r) ==
    [p EXCEPT !.task[r] = "running", !.rows = Started(p.rows, r), !.pc[r] = "running"]

Semaphore(limit, free, queue) == [limit |-> limit, free |-> free, queue |-> queue]

\* _get_global_semaphore: a new semaphore whenever the limit is not the one the
\* current semaphore was made for.
CurrentSemaphore(ss) ==
    IF ss # <<>> /\ Last(ss).limit = setting
    THEN ss ELSE Append(ss, Semaphore(setting, setting, <<>>))

\* The start of _run_in_vault_gate for a run that has just got the gate of v.
EnterGate(p, r, v) ==
    LET held == [p EXCEPT !.gate[v] = r, !.gateQ[v] = Dequeued(p.gateQ[v], r)]
        ss   == CurrentSemaphore(p.sems)
        n    == Len(ss)
        sem  == ss[n]
    IN  IF setting = 0 THEN Begin(held, r)
        ELSE IF sem.free > 0 /\ sem.queue = <<>>
        THEN Begin([held EXCEPT !.sems = [ss EXCEPT ![n] = Semaphore(sem.limit, sem.free - 1, <<>>)],
                                !.permit[r] = n], r)
        ELSE [held EXCEPT !.sems = [ss EXCEPT ![n] = Semaphore(sem.limit, sem.free, Append(sem.queue, r))],
                          !.permit[r] = n, !.pc[r] = "permit"]

\* The semaphores after r has left the n-th: Semaphore.release if it had acquired
\* a permit, else it leaves the queue.
Vacated(ss, n, r, waits) ==
    IF n = 0 THEN ss
    ELSE [ss EXCEPT ![n] = Semaphore(ss[n].limit, IF waits THEN ss[n].free ELSE ss[n].free + 1,
                                     Dequeued(ss[n].queue, r))]

\* Mutant: the gate is released by whoever leaves, holder or not.
LeaveLanesUnchecked(p, r, v) ==
    [p EXCEPT !.gate[v] = NoRun,
              !.gateQ[v] = Dequeued(p.gateQ[v], r),
              !.sems = Vacated(p.sems, p.permit[r], r, p.pc[r] = "permit"),
              !.permit[r] = 0]

\* Mutant: the permit is never given back.
LeaveLanesForgetful(p, r, v) ==
    [p EXCEPT !.gate[v] = IF p.gate[v] = r THEN NoRun ELSE p.gate[v],
              !.gateQ[v] = Dequeued(p.gateQ[v], r),
              !.sems = Vacated(p.sems, p.permit[r], r, TRUE),
              !.permit[r] = 0]

\* Mutant: a run that is cancelled while it waits for a permit keeps the gate.
LeaveLanesKeepsGate(p, r, v) ==
    [p EXCEPT !.gate[v] = IF p.gate[v] = r /\ p.pc[r] # "permit" THEN NoRun ELSE p.gate[v],
              !.gateQ[v] = Dequeued(p.gateQ[v], r),
              !.sems = Vacated(p.sems, p.permit[r], r, p.pc[r] = "permit"),
              !.permit[r] = 0]

\* The finally clauses: release the permit if it was acquired, leave the
\* gate's waiters, release the gate if it was acquired.
LeaveLanes(p, r, v) ==
    [p EXCEPT !.gate[v] = IF p.gate[v] = r THEN NoRun ELSE p.gate[v],
              !.gateQ[v] = Dequeued(p.gateQ[v], r),
              !.sems = Vacated(p.sems, p.permit[r], r, p.pc[r] = "permit"),
              !.permit[r] = 0]

\* The run ends with status s in its row and on its task, and whoever called it
\* goes on with the tool's result.
End(p, r, s, t) ==
    [LeaveLanes(p, r, Vault(r)) EXCEPT
        !.rows = Finalized(p.rows, r, s, t),
        !.task[r] = s,
        !.pc = [x \in RunIds |-> IF x = r THEN "ended"
                                 ELSE IF x = caller[r] THEN "running" ELSE p.pc[x]]]

\* The process becomes p.
Become(p) ==
    \E q \in {p} : /\ task' = q.task
                  /\ pc' = q.pc
                  /\ gate' = q.gate
                  /\ gateQ' = q.gateQ
                  /\ sems' = q.sems
                  /\ permit' = q.permit
                  /\ rows' = q.rows

-----------------------------------------------------------------------------
(***************************************************************************)
(* execute_workflow.                                                       *)
(***************************************************************************)

\* The attempt's task and its queued row, then the gate: straight in, or into
\* its queue.
Admit(r, w) ==
    LET v == VaultOf[w]
        p == [Proc EXCEPT !.task[r] = "queued", !.rows = Created(rows, r, w), !.pc[r] = "gate"]
    IN  IF GateFree(v) THEN EnterGate(p, r, v)
        ELSE [p EXCEPT !.gateQ[v] = Append(gateQ[v], r)]

\* From the API, the scheduler or a chat: through start_workflow or directly.
Execute(r, w) ==
    /\ NextRunId(r)
    /\ used' = used \cup {r}
    /\ Become(Admit(r, w))
    /\ UNCHANGED <<now, caller, cancelled, setting, changes, crashes>>

\* The script of workflow c calls workflow_run(operation="run"): the tool is
\* bound to c's vault, and the script waits for the result.
ExecuteNested(c, r, w) ==
    LET p == Admit(r, w)
    IN  /\ "nested" \in Inputs
        /\ pc[c] = "running"
        /\ VaultOf[w] = Vault(c)
        /\ NextRunId(r)
        /\ used' = used \cup {r}
        /\ caller' = [caller EXCEPT ![r] = c]
        /\ Become([p EXCEPT !.pc[c] = "calling"])
        /\ UNCHANGED <<now, cancelled, setting, changes, crashes>>

\* The lock passes to its first waiter.
GateGranted(r) ==
    LET v == Vault(r)
    IN  /\ pc[r] = "gate"
        /\ ~cancelled[r]
        /\ gate[v] = NoRun
        /\ gateQ[v] # <<>> /\ Head(gateQ[v]) = r
        /\ Become(EnterGate(Proc, r, v))
        /\ UNCHANGED <<used, now, caller, cancelled, setting, changes, crashes>>

\* A permit of the semaphore r waits at passes to its first waiter.
PermitGranted(r) ==
    LET n   == permit[r]
        sem == sems[n]
    IN  /\ pc[r] = "permit"
        /\ ~cancelled[r]
        /\ sem.free > 0
        /\ sem.queue # <<>> /\ Head(sem.queue) = r
        /\ Become(Begin([Proc EXCEPT !.sems[n] = Semaphore(sem.limit, sem.free - 1, Tail(sem.queue))], r))
        /\ UNCHANGED <<used, now, caller, cancelled, setting, changes, crashes>>

\* Every terminal write has its own time stamp.
TimePasses == now < MaxTime /\ now' = now + 1

\* The workflow returns its status (completed, skipped or failed), or raises:
\* the row is finalized, the task mirrors it.
Finish(r, s) ==
    /\ pc[r] = "running"
    /\ ~cancelled[r]
    /\ TimePasses
    /\ Become(End(Proc, r, s, now'))
    /\ UNCHANGED <<used, caller, cancelled, setting, changes, crashes>>

\* Mutant: the timeout marks the task and forgets the row.
TimeOutTaskOnly(r) ==
    LET out == LeaveLanes(Proc, r, Vault(r))
    IN  /\ "timeout" \in Inputs
        /\ pc[r] = "running"
        /\ ~cancelled[r]
        /\ TimePasses
        /\ Become([out EXCEPT !.task[r] = "timed_out", !.pc[r] = "ended"])
        /\ UNCHANGED <<used, caller, cancelled, setting, changes, crashes>>

\* The deadline expires first: asyncio.timeout cancels the workflow, the
\* on_timed_out hook finalizes the row, and the task is marked.  (A cancellation
\* from outside that is still to be delivered wins over the deadline.)
TimeOut(r) ==
    /\ "timeout" \in Inputs
    /\ pc[r] = "running"
    /\ ~cancelled[r]
    /\ TimePasses
    /\ Become(End(Proc, r, "timed_out", now'))
    /\ UNCHANGED <<used, caller, cancelled, setting, changes, crashes>>

\* cancel_task.  The request reaches the innermost run of a script that waits
\* for a nested one, for closing the script cancels and settles its tool calls.
Cancel(r) ==
    /\ "cancel" \in Inputs
    /\ pc[r] \in {"gate", "permit", "running", "calling"}
    /\ ~cancelled[r]
    /\ cancelled' = [x \in RunIds |-> cancelled[x] \/ x = r \/ (caller[x] = r /\ pc[x] # "ended")]
    /\ UNCHANGED <<rows, used, now, task, pc, caller, gate, gateQ, sems, permit,
                   setting, changes, crashes>>

\* CancelledError at any of the suspensions: the outer handler finalizes the
\* row.  Of a nested run it goes on into the script that called, which may end
\* with it.
DeliverCancel(r) ==
    /\ pc[r] \in {"gate", "permit", "running"}
    /\ cancelled[r]
    /\ TimePasses
    /\ Become(End(Proc, r, "cancelled", now'))
    /\ \E spread \in SUBSET {caller[r]} :
          cancelled' = [x \in RunIds |-> x # r /\ (cancelled[x] \/ x \in spread)]
    /\ UNCHANGED <<used, caller, setting, changes, crashes>>

-----------------------------------------------------------------------------
(***************************************************************************)
(* Around it.                                                              *)
(***************************************************************************)

ChangeSetting(n) ==
    /\ changes < MaxChanges
    /\ n # setting
    /\ setting' = n
    /\ changes' = changes + 1
    /\ UNCHANGED <<rows, used, now, procVars, crashes>>

\* record_scheduler_job_event for a missed job, and for an error that carries no
\* run id because the job never reached the governor.
SchedulerEvent(r, w, k, s) ==
    /\ "events" \in Inputs
    /\ s \in {"missed", "failed"}
    /\ NextRunId(r)
    /\ TimePasses
    /\ rows' = Recorded(rows, r, w, k, s, now')
    /\ used' = used \cup {r}
    /\ UNCHANGED <<procVars, setting, changes, crashes>>

\* The process dies and starts again: tasks, lanes and coroutines are gone, the
\* table stays as it is (bootstrap does not look at it).
Crash ==
    /\ "crash" \in Inputs
    /\ crashes < MaxCrashes
    /\ crashes' = crashes + 1
    /\ task' = [r \in RunIds |-> IF task[r] = "none" THEN "none" ELSE "lost"]
    /\ pc' = [r \in RunIds |-> IF pc[r] = "none" THEN "none" ELSE "ended"]
    /\ caller' = [r \in RunIds |-> NoRun]
    /\ cancelled' = [r \in RunIds |-> FALSE]
    /\ gate' = [v \in Vaults |-> NoRun]
    /\ gateQ' = [v \in Vaults |-> <<>>]
    /\ sems' = <<>>
    /\ permit' = [r \in RunIds |-> 0]
    /\ UNCHANGED <<rows, used, now, setting, changes>>

-----------------------------------------------------------------------------
Init ==
    /\ StoreInit
    /\ task = [r \in RunIds |-> "none"]
    /\ pc = [r \in RunIds |-> "none"]
    /\ caller = [r \in RunIds |-> NoRun]
    /\ cancelled = [r \in RunIds |-> FALSE]
    /\ gate = [v \in Vaults |-> NoRun]
    /\ gateQ = [v \in Vaults |-> <<>>]
    /\ setting \in Limits
    /\ changes = 0
    /\ crashes = 0
    /\ sems = <<>>
    /\ permit = [r \in RunIds |-> 0]

LaneStep(r) == GateGranted(r) \/ PermitGranted(r) \/ DeliverCancel(r)
BodyEnds(r) == (\E s \in FinalStatuses : Finish(r, s)) \/ TimeOut(r)

Next ==
    \/ \E r \in RunIds :
         \/ \E w \in Workflows : Execute(r, w)
         \/ \E c \in RunIds, w \in Workflows : ExecuteNested(c, r, w)
         \/ LaneStep(r)
         \/ BodyEnds(r)
         \/ Cancel(r)
         \/ \E w \in Workflows, k \in EventKeys, s \in TerminalRunStatuses :
                SchedulerEvent(r, w, k, s)
    \/ \E n \in Limits : ChangeSetting(n)
    \/ Crash

Spec == Init /\ [][Next]_govVars

\* The event loop serves whoever may proceed; how long a workflow takes is
\* nobody's promise (workflow_task_timeout_seconds is 0 by default).
FairSpec == Spec /\ \A r \in RunIds : WF_govVars(LaneStep(r))

-----------------------------------------------------------------------------
(***************************************************************************)
(* Properties.                                                             *)
(***************************************************************************)

\* Every variable has its type.
TypeOK ==
    /\ task \in [RunIds -> TerminalRunStatuses \cup ActiveRunStatuses \cup {"none", "lost"}]
    /\ pc \in [RunIds -> {"none", "gate", "permit", "running", "calling", "ended"}]
    /\ caller \in [RunIds -> RunIds \cup {NoRun}]
    /\ cancelled \in [RunIds -> BOOLEAN]
    /\ gate \in [Vaults -> RunIds \cup {NoRun}]
    /\ gateQ \in [Vaults -> Seq(RunIds)]
    /\ sems \in Seq([limit : Nat, free : Nat, queue : Seq(RunIds)])
    /\ permit \in [RunIds -> Nat]

InVault(v) == {r \in RunIds : pc[r] \in {"permit", "running", "calling"} /\ Vault(r) = v}

\* Workflows of one vault never overlap, whoever started them and whatever is
\* cancelled or times out around them.
OnePerVault == \A v \in Vaults : \A r, s \in InVault(v) : r = s

\* The durable row says what the execution task says, through queueing, start,
\* every end and every cancellation; after a crash only the row is left.  A
\* row that has been pruned says nothing.
RowTracksTask ==
    \A r \in RunIds :
        (task[r] \notin {"none", "lost"} /\ IsPresent(rows, r)) => rows[r].status = task[r]

\* No permit is lost or given back twice: of every semaphore still in use, the
\* free permits and the runs that hold one make up its limit.
PermitsBalanced ==
    TypeOK /\ \A n \in DOMAIN sems :
        sems[n].free + Cardinality({r \in RunIds : permit[r] = n /\ pc[r] # "permit"})
            = sems[n].limit

\* No workflow runs forever.
WorkflowsEnd == \A r \in RunIds : []<>(pc[r] # "running")

\* If no workflow runs forever or waits forever for one it called, a run that
\* waits for its vault or for a permit gets on or is cancelled, whoever is
\* cancelled in the queue before it and however the global limit changes.
LanesServed ==
    (\A r \in RunIds : []<>(pc[r] \notin {"running", "calling"})) => \A r \in RunIds : (pc[r] \in {"gate", "permit"}) ~> (pc[r] \notin {"gate", "permit"})

\* docs/tools/workflow_run.md on operation "run": "the call waits for the
\* workflow to finish and returns the final result".
NestedRunReturns ==
    WorkflowsEnd => \A r \in RunIds : (pc[r] = "calling") ~> (pc[r] # "calling")

=============================================================================
