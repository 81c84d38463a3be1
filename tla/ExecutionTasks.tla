--------------------------- MODULE ExecutionTasks ---------------------------
(***************************************************************************)
(* TaskCoordinator (core/runtime/execution_tasks.py) together with the     *)
(* coroutine that owns each task (ExecutionTaskRunner.start_background and *)
(* run_inline in core/runtime/task_runner.py) and the runtime's shutdown   *)
(* sequence (core/runtime/context.py).                                     *)
(*                                                                         *)
(* One action is one section of the code that runs under the coordinator's *)
(* asyncio.Lock.  Operations with several sections (mark_completed and its *)
(* siblings close the task to children, cancel each child, then publish    *)
(* the terminal state) are several actions, so every interleaving the lock *)
(* allows is a behaviour of the model.                                     *)
(***************************************************************************)
EXTENDS Naturals, Sequences, FiniteSets

CONSTANTS
    Tasks,         \* task ids (uuid4 in the code: never reused)
    Waiters,       \* concurrent callers of wait_for_tasks
    Principals,    \* execution authorities
    NoTask,        \* "no parent"
    HistoryLimit,  \* terminal_history_limit
    Inputs,        \* what the code around the coordinator does in this instance
    Outcomes       \* the terminal statuses a task body returns

ASSUME TasksAssumption ==
    /\ NoTask \notin Tasks
    /\ HistoryLimit \in Nat \ {0}

VARIABLES
    rec,       \* rec[t]: the fields of _records[t]; status "absent" if not there
    created,   \* the ids handed out by _new_task_id
    order,     \* _terminal_order
    open,      \* _accepting_tasks
    background,\* tasks whose _run was put into RuntimeContext.background_tasks
    pc,        \* where the coroutine that owns t is
    host,      \* host[t]: the root task of the asyncio.Task that runs t
    cancelled, \* cancelled[h]: asyncio cancellation not yet delivered to h
    fin,       \* fin[k][t]: a mark_* call in flight for t
    shut,      \* phase of RuntimeContext.shutdown
    shutTodo,  \* the snapshot list its current loop has left
    waits      \* wait_for_tasks callers parked on the condition

vars == <<rec, created, order, open, background, pc, host, cancelled, fin, shut, shutTodo, waits>>

\* The members of Inputs: four ways to create a record, attached to a parent or
\* not, and what may happen to it afterwards.
AllInputs == {"background", "queued", "tracked", "inline", "detach",
              "abort", "attention", "result", "fail", "cancel", "shutdown"}

TerminalStatuses == {"completed", "failed", "cancelled", "timed_out", "skipped"}
ActiveStatuses == {"queued", "running"}

\* "own" is the mark_* call of the task's own coroutine, "ext" one made for it
\* by somebody else (cancel_task without a handle, the sweep at shutdown); a
\* second outsider waits for the call in flight, which does what its own would.
Slots == {"own", "ext"}

Absent(p) ==
    [status |-> "absent", cancelRequested |-> FALSE, parent |-> NoTask,
     detached |-> FALSE, authority |-> p, handle |-> FALSE,
     awaiting |-> FALSE, accepting |-> TRUE, attention |-> FALSE,
     result |-> FALSE]

Idle == [ph |-> "idle", st |-> "cancelled", todo |-> {}]

Present(t) == rec[t].status # "absent"
Active(t) == rec[t].status \in ActiveStatuses
Terminal(t) == rec[t].status \in TerminalStatuses

-----------------------------------------------------------------------------
(***************************************************************************)
(* wait_for_tasks: the condition shared with the coordinator's lock.       *)
(***************************************************************************)

\* _ready() with terminal_or_attention_only, as every caller in the
\* repository passes it.
Ready(ids, onAttention) ==
    \/ \E t \in ids : ~Present(t)
    \/ \E t \in ids : Terminal(t) \/ (onAttention /\ rec[t].attention)

\* self._changed.notify_all()
NotifyAll ==
    waits' = [w \in Waiters |->
                IF waits[w].st = "parked"
                THEN [waits[w] EXCEPT !.st = "woken"]
                ELSE waits[w]]

WaitForTasks(w, ids, onAttention) ==
    /\ waits[w].st = "idle"
    /\ ids # {}
    /\ ids \subseteq created
    /\ ~Ready(ids, onAttention)
    /\ waits' = [waits EXCEPT ![w] = [st |-> "parked", ids |-> ids,
                                      onAttention |-> onAttention]]
    /\ UNCHANGED <<rec, created, order, open, background, pc, host, cancelled, fin, shut, shutTodo>>

\* A notified waiter re-evaluates its predicate and returns or parks again.
WaiterWakes(w) ==
    /\ waits[w].st = "woken"
    /\ waits' = [waits EXCEPT ![w].st =
                    IF Ready(waits[w].ids, waits[w].onAttention)
                    THEN "idle" ELSE "parked"]
    /\ UNCHANGED <<rec, created, order, open, background, pc, host, cancelled, fin, shut, shutTodo>>

WaitTimesOut(w) ==
    /\ waits[w].st \in {"parked", "woken"}
    /\ waits' = [waits EXCEPT ![w].st = "idle"]
    /\ UNCHANGED <<rec, created, order, open, background, pc, host, cancelled, fin, shut, shutTodo>>

-----------------------------------------------------------------------------
(***************************************************************************)
(* Creation of records.                                                    *)
(***************************************************************************)

\* Mutant: the parent's closed door is not looked at.
MayCreateIgnoringClose(t, p, a) ==
    /\ t \in Tasks \ created
    /\ open
    /\ p # NoTask => /\ Present(p)
                     /\ rec[p].authority = a
                     /\ Active(p)

\* Mutant: a coordinator that is shutting down still creates records.
MayCreateWhileClosing(t, p, a) ==
    /\ t \in Tasks \ created
    /\ p # NoTask => /\ Present(p)
                     /\ rec[p].authority = a
                     /\ Active(p)
                     /\ rec[p].accepting

\* The checks _create_record makes under the lock.
MayCreate(t, p, a) ==
    /\ t \in Tasks \ created
    /\ open
    /\ p # NoTask => /\ Present(p)
                     /\ rec[p].authority = a
                     /\ Active(p)
                     /\ rec[p].accepting

NewRecord(p, d, a, h, w) ==
    [Absent(a) EXCEPT !.status = "queued", !.parent = p, !.detached = d,
                      !.handle = h, !.awaiting = w]

\* start_background: the reservation creates the record; the caller resumes
\* in a later event-loop iteration to spawn the coroutine.
Reserve(t, p, d, a) ==
    /\ "background" \in Inputs
    /\ d => "detach" \in Inputs
    /\ MayCreate(t, p, a)
    /\ rec' = [rec EXCEPT ![t] = NewRecord(p, d, a, FALSE, TRUE)]
    /\ created' = created \cup {t}
    /\ pc' = [pc EXCEPT ![t] = "reserved"]
    /\ host' = [host EXCEPT ![t] = t]
    /\ NotifyAll
    /\ UNCHANGED <<order, open, background, cancelled, fin, shut, shutTodo>>

\* create_queued_task called directly: no coroutine and none expected.
CreateQueuedTask(t, p, a) ==
    /\ "queued" \in Inputs
    /\ MayCreate(t, p, a)
    /\ rec' = [rec EXCEPT ![t] = NewRecord(p, FALSE, a, FALSE, FALSE)]
    /\ created' = created \cup {t}
    /\ NotifyAll
    /\ UNCHANGED <<order, open, background, pc, host, cancelled, fin, shut, shutTodo>>

\* track_current_task at the top of an asyncio task that is not tracked yet.
TrackCurrentTask(t, a) ==
    /\ "tracked" \in Inputs
    /\ MayCreate(t, NoTask, a)
    /\ rec' = [rec EXCEPT ![t] = NewRecord(NoTask, FALSE, a, TRUE, FALSE)]
    /\ created' = created \cup {t}
    /\ pc' = [pc EXCEPT ![t] = "body"]
    /\ host' = [host EXCEPT ![t] = t]
    /\ NotifyAll
    /\ UNCHANGED <<order, open, background, cancelled, fin, shut, shutTodo>>

\* run_inline inside the body of p: the child registers the asyncio task that
\* also runs p, and p waits for it.
RunInline(t, p, a) ==
    /\ "inline" \in Inputs
    /\ pc[p] = "body"
    /\ MayCreate(t, p, a)
    /\ rec' = [rec EXCEPT ![t] = NewRecord(p, FALSE, a, TRUE, FALSE)]
    /\ created' = created \cup {t}
    /\ pc' = [pc EXCEPT ![t] = "body", ![p] = "calling"]
    /\ host' = [host EXCEPT ![t] = host[p]]
    /\ NotifyAll
    /\ UNCHANGED <<order, open, background, cancelled, fin, shut, shutTodo>>

-----------------------------------------------------------------------------
(***************************************************************************)
(* mark_completed, mark_failed, mark_cancelled, mark_timed_out and         *)
(* mark_skipped: _cancel_active_children, then _mark_terminal.             *)
(***************************************************************************)

Call(s) == [ph |-> "close", st |-> s, todo |-> {}]
SetCall(k, t, call) == [fin EXCEPT ![k][t] = call]
Begin(k, t, s) == SetCall(k, t, Call(s))

ActiveChildren(t) ==
    {c \in Tasks : Active(c) /\ rec[c].parent = t /\ ~rec[c].detached}

\* First section of _cancel_active_children: stop accepting children and
\* collect the attached ones that are still active.
CloseToChildren(k, t) ==
    /\ fin[k][t].ph = "close"
    /\ fin' = SetCall(k, t, [fin[k][t] EXCEPT
                 !.ph = "commit",
                 !.todo = IF Present(t) THEN ActiveChildren(t) ELSE {}])
    /\ rec' = IF Present(t) THEN [rec EXCEPT ![t].accepting = FALSE] ELSE rec
    /\ UNCHANGED <<created, order, open, background, pc, host, cancelled, shut, shutTodo, waits>>

(***************************************************************************)
(* cancel_task(c) as a step of the caller: for an active record set        *)
(* cancel_requested and either cancel the asyncio handle, leave it to the  *)
(* coroutine that is still to attach, or start mark_cancelled when there   *)
(* is neither.  The caller awaits that last one.                           *)
(***************************************************************************)
Unowned(c) == ~rec[c].handle /\ ~rec[c].awaiting

RequestCancel(c) ==
    /\ rec' = [rec EXCEPT ![c].cancelRequested = TRUE]
    /\ cancelled' = IF rec[c].handle
                    THEN [cancelled EXCEPT ![host[c]] = TRUE] ELSE cancelled
    /\ NotifyAll

CancelChild(k, t, c) ==
    /\ fin[k][t].ph = "commit"
    /\ c \in fin[k][t].todo
    /\ \/ /\ ~Active(c)
          /\ fin' = SetCall(k, t, [fin[k][t] EXCEPT !.todo = @ \ {c}])
          /\ UNCHANGED <<rec, cancelled, waits>>
       \/ /\ Active(c)
          /\ ~Unowned(c)
          /\ RequestCancel(c)
          /\ fin' = SetCall(k, t, [fin[k][t] EXCEPT !.todo = @ \ {c}])
       \/ /\ Active(c)
          /\ Unowned(c)
          /\ fin["ext"][c].ph = "idle"
          /\ RequestCancel(c)
          /\ fin' = Begin("ext", c, "cancelled")
    /\ UNCHANGED <<created, order, open, background, pc, host, shut, shutTodo>>

\* _remember_terminal: append, then forget the oldest terminal records.
Without(s, i) == SubSeq(s, 1, i - 1) \o SubSeq(s, i + 1, Len(s))
Remembered(t) ==
    LET places == {i \in DOMAIN order : order[i] = t}
    IN  Append(IF places = {} THEN order
               ELSE Without(order, CHOOSE i \in places : TRUE), t)
\* Mutant: one record too many is kept.
ExcessByOne(s) == IF Len(s) > HistoryLimit + 1 THEN Len(s) - HistoryLimit ELSE 0
Excess(s) == IF Len(s) > HistoryLimit THEN Len(s) - HistoryLimit ELSE 0
Evicted(s) == {s[i] : i \in 1..Excess(s)}

\* _mark_terminal for a record that is still active.
MarkTerminal(t, s) ==
    LET history == Remembered(t)
        gone    == {x \in Evicted(history) : x = t \/ Terminal(x)}
    IN  /\ order' = SubSeq(history, Excess(history) + 1, Len(history))
        /\ rec' = [x \in Tasks |->
                     IF x \in gone THEN [rec[x] EXCEPT !.status = "absent"]
                     ELSE IF x = t THEN [rec[t] EXCEPT !.status = s, !.handle = FALSE]
                     ELSE rec[x]]
        /\ NotifyAll

(***************************************************************************)
(* The call returns to the coroutine that owns the task.                   *)
(*  - A body's outcome other than "completed" is followed by the           *)
(*    mark_completed at the end of the tracking context.                   *)
(*  - A cancelled background task goes on to the runner's own cleanup (its *)
(*    on_cancelled hook and a second mark_cancelled), and so does a failed *)
(*    one that _task_has_cancelled finds cancelled or forgotten.           *)
(*  - Otherwise the context is left.  The caller of run_inline resumes: a  *)
(*    cancellation goes on unwinding it, after anything else it is back in *)
(*    its body.                                                            *)
(***************************************************************************)
Callers(t) ==
    {p \in Tasks : p # t /\ pc[p] = "calling" /\ rec[t].parent = p /\ host[t] = host[p]}

ReturnToOwner(t) ==
    LET st      == fin["own"][t].st
        again   == pc[t] = "finish" /\ st # "completed"
        hooks   == /\ pc[t] = "cleanup"
                   /\ t \in background
                   /\ st = "cancelled" \/ rec'[t].status \in {"cancelled", "absent"}
        unwinds == pc[t] = "cleanup" /\ st = "cancelled"
        leaves  == ~again /\ ~hooks
    IN  /\ pc' = [x \in Tasks |->
                    IF x = t THEN IF again THEN "finish"
                                  ELSE IF hooks THEN "epilogue" ELSE "gone"
                    ELSE IF leaves /\ x \in Callers(t)
                         THEN IF unwinds THEN "cleanup" ELSE "body"
                         ELSE pc[x]]
        /\ fin' = [fin EXCEPT !["own"] =
                     [x \in Tasks |->
                        IF x = t THEN IF again THEN Call("completed")
                                      ELSE IF hooks THEN Call("cancelled") ELSE Idle
                        ELSE IF leaves /\ unwinds /\ x \in Callers(t)
                             THEN Call("cancelled") ELSE fin["own"][x]]]
        /\ cancelled' = IF leaves /\ host[t] = t
                        THEN [cancelled EXCEPT ![t] = FALSE] ELSE cancelled

\* Mutant: the check that the record is not terminal yet is lost.
PublishTerminalAgain(k, t) ==
    /\ fin[k][t].ph = "commit"
    /\ fin[k][t].todo = {}
    /\ IF Present(t) THEN MarkTerminal(t, fin[k][t].st)
                     ELSE UNCHANGED <<rec, order, waits>>
    /\ IF k = "own" THEN ReturnToOwner(t)
                    ELSE /\ fin' = SetCall(k, t, Idle)
                         /\ UNCHANGED <<pc, cancelled>>
    /\ UNCHANGED <<created, open, background, host, shut, shutTodo>>

PublishTerminal(k, t) ==
    /\ fin[k][t].ph = "commit"
    /\ fin[k][t].todo = {}
    /\ IF Active(t) THEN MarkTerminal(t, fin[k][t].st)
                    ELSE UNCHANGED <<rec, order, waits>>
    /\ IF k = "own" THEN ReturnToOwner(t)
                    ELSE /\ fin' = SetCall(k, t, Idle)
                         /\ UNCHANGED <<pc, cancelled>>
    /\ UNCHANGED <<created, open, background, host, shut, shutTodo>>

-----------------------------------------------------------------------------
(***************************************************************************)
(* The coroutine that owns a task.                                         *)
(***************************************************************************)

\* The caller of start_background resumes and spawns _run.
Spawn(t) ==
    /\ pc[t] = "reserved"
    /\ pc' = [pc EXCEPT ![t] = "spawned"]
    /\ background' = background \cup {t}
    /\ UNCHANGED <<rec, created, order, open, host, cancelled, fin, shut, shutTodo, waits>>

\* _abort_background_reservation: the caller was cancelled while it waited for
\* the reservation; no coroutine is spawned and a shielded cleanup runs the
\* on_cancelled hook and marks the task cancelled.
AbortReservation(t) ==
    /\ "abort" \in Inputs
    /\ pc[t] = "reserved"
    /\ pc' = [pc EXCEPT ![t] = "epilogue"]
    /\ fin' = Begin("own", t, "cancelled")
    /\ UNCHANGED <<rec, created, order, open, background, host, cancelled, shut, shutTodo, waits>>

\* Mutant: a cancellation requested before the handle existed is overlooked.
TrackExistingTaskForgetsCancel(t) ==
    /\ pc[t] = "spawned"
    /\ Active(t)
    /\ rec' = [rec EXCEPT ![t] = [@ EXCEPT !.handle = TRUE, !.awaiting = FALSE]]
    /\ pc' = [pc EXCEPT ![t] = "body"]
    /\ UNCHANGED <<created, order, open, background, host, cancelled, fin, shut, shutTodo, waits>>

\* track_existing_task: refuse a missing or finished record (the runner's
\* on_failed and mark_cancelled then find nothing to do); attach to an active
\* one, but raise CancelledError if it was cancelled before it had a handle:
\* the runner goes straight to its own cleanup.
TrackExistingTask(t) ==
    /\ pc[t] = "spawned"
    /\ IF ~Active(t)
       THEN /\ pc' = [pc EXCEPT ![t] = "gone"]
            /\ cancelled' = [cancelled EXCEPT ![t] = FALSE]
            /\ UNCHANGED <<rec, fin>>
       ELSE /\ rec' = [rec EXCEPT ![t] = [@ EXCEPT !.handle = TRUE, !.awaiting = FALSE]]
            /\ IF rec[t].cancelRequested
               THEN /\ pc' = [pc EXCEPT ![t] = "epilogue"]
                    /\ fin' = Begin("own", t, "cancelled")
               ELSE /\ pc' = [pc EXCEPT ![t] = "body"]
                    /\ UNCHANGED fin
            /\ UNCHANGED cancelled
    /\ UNCHANGED <<created, order, open, background, host, shut, shutTodo, waits>>

\* mark_started from the body.  Its two refusals raise RuntimeError: Raise(t).
MarkStarted(t) ==
    /\ pc[t] = "body"
    /\ rec[t].status = "queued"
    /\ ~rec[t].cancelRequested
    /\ rec' = [rec EXCEPT ![t].status = "running"]
    /\ NotifyAll
    /\ UNCHANGED <<created, order, open, background, pc, host, cancelled, fin, shut, shutTodo>>

\* Mutant: the revision is not touched, so nobody is notified.
PublishProgressSilently(t, attention) ==
    /\ "attention" \in Inputs
    /\ pc[t] = "body"
    /\ Active(t)
    /\ rec' = [rec EXCEPT ![t].attention = attention]
    /\ UNCHANGED <<created, order, open, background, pc, host, cancelled, fin, shut, shutTodo, waits>>

\* publish_progress (and heartbeat, which leaves the health alone).
PublishProgress(t, attention) ==
    /\ "attention" \in Inputs
    /\ pc[t] = "body"
    /\ Active(t)
    /\ rec' = [rec EXCEPT ![t].attention = attention]
    /\ NotifyAll
    /\ UNCHANGED <<created, order, open, background, pc, host, cancelled, fin, shut, shutTodo>>

\* record_result from the body, or from the on_cancelled hook of the runner's
\* cleanup, where the record may be finished already.
RecordResult(t) ==
    /\ "result" \in Inputs
    /\ \/ pc[t] = "body"
       \/ pc[t] = "epilogue" /\ fin["own"][t].ph = "close"
    /\ Active(t)
    /\ rec' = [rec EXCEPT ![t].result = TRUE]
    /\ NotifyAll
    /\ UNCHANGED <<created, order, open, background, pc, host, cancelled, fin, shut, shutTodo>>

\* The body returns, or its deadline expires: _publish_run_outcome (or the
\* timeout branch of run_with_timeout) and the context exit call mark_*
\* directly, so a cancellation can still interrupt them.
Return(t, s) ==
    /\ s \in Outcomes
    /\ pc[t] = "body"
    /\ pc' = [pc EXCEPT ![t] = "finish"]
    /\ fin' = Begin("own", t, s)
    /\ UNCHANGED <<rec, created, order, open, background, host, cancelled, shut, shutTodo, waits>>

\* The body raises: _finish_failed_task runs mark_failed in a shielded task.
Raise(t) ==
    /\ "fail" \in Inputs
    /\ pc[t] = "body"
    /\ pc' = [pc EXCEPT ![t] = "cleanup"]
    /\ fin' = Begin("own", t, "failed")
    /\ UNCHANGED <<rec, created, order, open, background, host, cancelled, shut, shutTodo, waits>>

\* asyncio throws CancelledError into the innermost frame of the asyncio task:
\* the body or an unshielded mark_* call gives way to _finish_cancelled_task.
DeliverCancel(t) ==
    /\ pc[t] \in {"body", "finish"}
    /\ cancelled[host[t]]
    /\ cancelled' = [cancelled EXCEPT ![host[t]] = FALSE]
    /\ pc' = [pc EXCEPT ![t] = "cleanup"]
    /\ fin' = Begin("own", t, "cancelled")
    /\ UNCHANGED <<rec, created, order, open, background, host, shut, shutTodo, waits>>

\* The same while _finish_cancelled_task or _finish_failed_task waits for its
\* shielded cleanup: the loop catches the CancelledError and continues.  (The
\* runner's cleanup raises it again at its end, where the coroutine ends.)
SwallowCancel(t) ==
    /\ pc[t] \in {"cleanup", "epilogue"}
    /\ cancelled[host[t]]
    /\ cancelled' = [cancelled EXCEPT ![host[t]] = FALSE]
    /\ UNCHANGED <<rec, created, order, open, background, pc, host, fin, shut, shutTodo, waits>>

-----------------------------------------------------------------------------
(***************************************************************************)
(* Requests from outside: cancel_task, cancel_scope, and shutdown.         *)
(***************************************************************************)

\* cancel_task on an active task (a terminal one is only reported back).
CancelTask(t) ==
    /\ "cancel" \in Inputs
    /\ Active(t)
    /\ Unowned(t) => fin["ext"][t].ph = "idle"
    /\ RequestCancel(t)
    /\ fin' = IF Unowned(t) THEN Begin("ext", t, "cancelled") ELSE fin
    /\ UNCHANGED <<created, order, open, background, pc, host, shut, shutTodo>>

\* TaskCoordinator.shutdown: close the door and list the active tasks ...
ShutdownBegin ==
    /\ "shutdown" \in Inputs
    /\ shut = "up"
    /\ shut' = "cancelling"
    /\ open' = FALSE
    /\ shutTodo' = {t \in Tasks : Active(t)}
    /\ UNCHANGED <<rec, created, order, background, pc, host, cancelled, fin, waits>>

\* Mutant: a task without a coroutine is waited for instead of marked.
ShutdownCancelNeverMarks(t) ==
    /\ shut = "cancelling"
    /\ t \in shutTodo
    /\ ~Active(t) \/ ~Unowned(t)
    /\ IF Active(t) THEN RequestCancel(t) ELSE UNCHANGED <<rec, cancelled, waits>>
    /\ shutTodo' = shutTodo \ {t}
    /\ UNCHANGED <<created, order, open, background, pc, host, fin, shut>>

\* ... and cancel them one by one.
ShutdownCancel(t) ==
    /\ shut = "cancelling"
    /\ t \in shutTodo
    /\ \/ /\ ~Active(t)
          /\ shutTodo' = shutTodo \ {t}
          /\ UNCHANGED <<rec, cancelled, fin, waits>>
       \/ /\ Active(t)
          /\ ~Unowned(t)
          /\ RequestCancel(t)
          /\ shutTodo' = shutTodo \ {t}
          /\ UNCHANGED fin
       \/ /\ Active(t)
          /\ Unowned(t)
          /\ fin["ext"][t].ph = "idle"
          /\ RequestCancel(t)
          /\ fin' = Begin("ext", t, "cancelled")
          /\ UNCHANGED shutTodo
    /\ UNCHANGED <<created, order, open, background, pc, host, shut>>

\* RuntimeContext.shutdown cancels every asyncio task in background_tasks, one
\* that has not run its first step never runs at all, and gathers them.
ShutdownDrain ==
    LET live == {t \in background : pc[t] # "gone"}
    IN  /\ shut = "cancelling"
        /\ shutTodo = {}
        /\ shut' = "draining"
        /\ shutTodo' = live
        /\ pc' = [t \in Tasks |->
                     IF t \in live /\ pc[t] = "spawned" THEN "gone" ELSE pc[t]]
        /\ cancelled' = [t \in Tasks |->
                            cancelled[t] \/ (t \in live /\ pc[t] # "spawned")]
        /\ UNCHANGED <<rec, created, order, open, background, host, fin, waits>>

\* Mutant: the cancelled background tasks are not gathered.
ShutdownSweepAtOnce ==
    /\ shut = "draining"
    /\ shut' = "sweeping"
    /\ shutTodo' = {t \in Tasks : Active(t)}
    /\ UNCHANGED <<rec, created, order, open, background, pc, host, cancelled, fin, waits>>

\* mark_unfinished_cancelled: list what is still active ...
ShutdownSweep ==
    /\ shut = "draining"
    /\ \A t \in shutTodo : pc[t] = "gone"
    /\ shut' = "sweeping"
    /\ shutTodo' = {t \in Tasks : Active(t)}
    /\ UNCHANGED <<rec, created, order, open, background, pc, host, cancelled, fin, waits>>

\* ... and mark it cancelled.
SweepTask(t) ==
    /\ shut = "sweeping"
    /\ t \in shutTodo
    /\ \/ /\ ~Active(t)
          /\ shutTodo' = shutTodo \ {t}
          /\ UNCHANGED fin
       \/ /\ Active(t)
          /\ fin["ext"][t].ph = "idle"
          /\ fin' = Begin("ext", t, "cancelled")
          /\ UNCHANGED shutTodo
    /\ UNCHANGED <<rec, created, order, open, background, pc, host, cancelled, shut, waits>>

ShutdownDone ==
    /\ shut = "sweeping"
    /\ shutTodo = {}
    /\ shut' = "down"
    /\ UNCHANGED <<rec, created, order, open, background, pc, host, cancelled, fin, shutTodo, waits>>

-----------------------------------------------------------------------------
Init ==
    /\ \E p \in Principals : rec = [t \in Tasks |-> Absent(p)]
    /\ created = {}
    /\ order = <<>>
    /\ open = TRUE
    /\ background = {}
    /\ pc = [t \in Tasks |-> "none"]
    /\ host = [t \in Tasks |-> t]
    /\ cancelled = [t \in Tasks |-> FALSE]
    /\ fin = [k \in Slots |-> [t \in Tasks |-> Idle]]
    /\ shut = "up"
    /\ shutTodo = {}
    /\ waits = [w \in Waiters |-> [st |-> "idle", ids |-> {}, onAttention |-> FALSE]]

Create(t) ==
    \E a \in Principals :
        \/ \E p \in Tasks \cup {NoTask}, d \in BOOLEAN : Reserve(t, p, d, a)
        \/ \E p \in Tasks \cup {NoTask} : CreateQueuedTask(t, p, a)
        \/ TrackCurrentTask(t, a)
        \/ \E p \in Tasks : RunInline(t, p, a)

\* The steps the event loop owes a task once they are possible: those of its
\* coroutine, and those of each mark_* call in flight for it.
CoroutineStep(t) ==
    \/ Spawn(t)
    \/ TrackExistingTask(t)
    \/ DeliverCancel(t)
    \/ SwallowCancel(t)

CallStep(k, t) ==
    \/ CloseToChildren(k, t)
    \/ \E c \in Tasks : CancelChild(k, t, c)
    \/ PublishTerminal(k, t)

\* What the work inside a task may do, when and if it pleases.
BodyStep(t) ==
    \/ MarkStarted(t)
    \/ \E b \in BOOLEAN : PublishProgress(t, b)
    \/ RecordResult(t)
    \/ \E s \in TerminalStatuses : Return(t, s)
    \/ Raise(t)

ShutdownStep ==
    \/ \E t \in Tasks : ShutdownCancel(t) \/ SweepTask(t)
    \/ ShutdownDrain
    \/ ShutdownSweep
    \/ ShutdownDone

WaiterStep(w) ==
    \/ \E ids \in SUBSET Tasks, b \in BOOLEAN : WaitForTasks(w, ids, b)
    \/ WaiterWakes(w)
    \/ WaitTimesOut(w)

Next ==
    \/ \E t \in Tasks : \/ Create(t)
                        \/ CoroutineStep(t)
                        \/ \E k \in Slots : CallStep(k, t)
                        \/ BodyStep(t)
                        \/ AbortReservation(t)
                        \/ CancelTask(t)
    \/ ShutdownBegin
    \/ ShutdownStep
    \/ \E w \in Waiters : WaiterStep(w)

Spec == Init /\ [][Next]_vars

\* The event loop runs every ready callback; bodies promise nothing.
Fairness ==
    /\ \A t \in Tasks : /\ WF_vars(CoroutineStep(t))
                        /\ \A k \in Slots : WF_vars(CallStep(k, t))
    /\ WF_vars(ShutdownStep)
    /\ \A w \in Waiters : WF_vars(WaiterWakes(w))

FairSpec == Spec /\ Fairness

-----------------------------------------------------------------------------
(***************************************************************************)
(* Properties.                                                             *)
(***************************************************************************)

TaskRecord ==
    [status : TerminalStatuses \cup ActiveStatuses \cup {"absent"},
     cancelRequested : BOOLEAN, parent : Tasks \cup {NoTask},
     detached : BOOLEAN, authority : Principals, handle : BOOLEAN,
     awaiting : BOOLEAN, accepting : BOOLEAN, attention : BOOLEAN,
     result : BOOLEAN]

Finisher ==
    [ph : {"idle", "close", "commit"}, st : TerminalStatuses, todo : SUBSET Tasks]

\* Every variable has its type: the records, the terminal history, the
\* coroutines, the mark_* calls in flight and the parked waiters.
TypeOK ==
    /\ rec \in [Tasks -> TaskRecord]
    /\ created \in SUBSET Tasks
    /\ order \in Seq(Tasks)
    /\ open \in BOOLEAN
    /\ background \in SUBSET Tasks
    /\ pc \in [Tasks -> {"none", "reserved", "spawned", "body", "calling",
                         "finish", "cleanup", "epilogue", "gone"}]
    /\ host \in [Tasks -> Tasks]
    /\ cancelled \in [Tasks -> BOOLEAN]
    /\ fin \in [Slots -> [Tasks -> Finisher]]
    /\ shut \in {"up", "cancelling", "draining", "sweeping", "down"}
    /\ shutTodo \in SUBSET Tasks
    /\ waits \in [Waiters -> [st : {"idle", "parked", "woken"},
                              ids : SUBSET Tasks, onAttention : BOOLEAN]]

\* A child that is attached to its parent's lifecycle and still active when
\* the parent is finished (or already forgotten) has been asked to stop: the
\* window between _cancel_active_children and _mark_terminal, in which other
\* coroutines create children and finish the same parent, leaves no orphan.
NoOrphan ==
    \A c \in Tasks :
        (Active(c) /\ rec[c].parent # NoTask /\ ~rec[c].detached
            /\ ~Active(rec[c].parent))
        => rec[c].cancelRequested

\* A caller parked in wait_for_tasks has nothing to be woken for: every change
\* that makes its predicate true (a terminal state, a request for attention,
\* an eviction from the history) has notified the condition.
NoLostWakeup ==
    \A w \in Waiters :
        waits[w].st = "parked" => ~Ready(waits[w].ids, waits[w].onAttention)

\* The terminal history is exactly the finished records still in _records,
\* each listed once, never longer than terminal_history_limit; so eviction
\* neither drops an active task nor leaks a finished one.
HistoryExact ==
    /\ {order[i] : i \in DOMAIN order} = {t \in Tasks : Terminal(t)}
    /\ \A i, j \in DOMAIN order : order[i] = order[j] => i = j
    /\ Len(order) <= HistoryLimit

\* Once RuntimeContext.shutdown has returned no task is queued or running,
\* whatever was being reserved, spawned or finished when it started.
ShutdownComplete == shut = "down" => \A t \in Tasks : ~Active(t)

\* Racing mark_* calls, late results and late cancellations never alter a
\* finished record: it stays as first published until it is evicted.
TerminalFrozen ==
    [][\A t \in Tasks : Terminal(t) =>
          \/ rec'[t].status = "absent"
          \/ /\ rec'[t].status = rec[t].status
             /\ rec'[t].result = rec[t].result
             /\ rec'[t].cancelRequested = rec[t].cancelRequested]_vars

Working(t) == pc[t] \in {"body", "calling"}
Unwinds(t) == (Active(t) /\ ~Active(t)') => ~Working(t)

\* The terminal observers (vault rollback) run when the terminal state is
\* published.  For work that runs in the runtime's background, inline children
\* included, that is after its coroutine has left the body: neither a
\* cancellation by id, nor a parent's end, nor shutdown publishes over live work.
UnwoundBeforeTerminal == [][\A t \in Tasks : host[t] \in background => Unwinds(t)]_vars

\* A cancellation that reaches a task while an inline child of it publishes a
\* failure is honoured afterwards, as _finish_failed_task promises ("Publish an
\* observed failure before honoring a later cancellation"): the task resumes its
\* body only with the cancellation still to be delivered.
LaterCancellationHonored ==
    [][\A t \in Tasks :
          (pc[t] = "calling" /\ pc'[t] = "body" /\ rec[t].cancelRequested)
          => cancelled[host[t]]]_vars

\* A requested cancellation ends the task, even if its body would run forever.
CancelTerminates ==
    \A t \in Tasks : (Active(t) /\ rec[t].cancelRequested) ~> ~Active(t)

\* RuntimeContext.shutdown returns although bodies promise nothing.
ShutdownTerminates == (shut = "cancelling") ~> (shut = "down")

=============================================================================
