--------------------------- MODULE ConcurrencyLane ---------------------------
(***************************************************************************)
(* The bounded lane delegates share: ExecutionTaskRunner                   *)
(* .run_with_concurrency (core/runtime/task_runner.py), as the delegate    *)
(* tool (core/tools/delegate.py) calls it.                                 *)
(*                                                                         *)
(* The lane changes only in sections that hold _gate_guard and do not      *)
(* await before their last change; each section is one action.  What may   *)
(* happen between them is everything else on the event loop: cancellation  *)
(* of a task at any of its suspensions, and changes of the setting that    *)
(* each delegate reads when it is launched and brings along as the lane's  *)
(* limit: any value may arrive with any reservation.                       *)
(***************************************************************************)
EXTENDS Naturals, Sequences, FiniteSets

CONSTANTS
    Tasks,    \* delegate tasks; a task that has left the lane stands for the next one
    Limits    \* values of max_concurrent_delegates; 0 is unlimited

ASSUME LaneAssumption ==
    /\ IsFiniteSet(Tasks)
    /\ Limits \subseteq Nat
    /\ Limits # {}

VARIABLES
    exists,    \* the lane is in _concurrency_lanes
    limit,     \* lane.limit
    holders,   \* lane.holders
    waiters,   \* the task ids of lane.waiters
    fut,       \* fut[t]: the future t waits on
    pc,        \* where run_with_concurrency(t) is
    cancelled  \* cancelled[t]: cancellation not yet delivered to t

lane == <<exists, limit, holders, waiters>>
vars == <<exists, limit, holders, waiters, fut, pc, cancelled>>

\* idle: not launched.  launched: before its reservation.  notifying: on_queued.
\* waiting: await waiter.  admitted: mark_started.  running: run().
\* leaving: its shielded cleanup.
Stages == {"idle", "launched", "notifying", "waiting", "admitted", "running", "leaving"}

-----------------------------------------------------------------------------
(***************************************************************************)
(* The lane.                                                               *)
(***************************************************************************)

HasCapacity(lim, hs) == lim = 0 \/ Cardinality(hs) < lim

Without(s, i) == SubSeq(s, 1, i - 1) \o SubSeq(s, i + 1, Len(s))
Dequeued(s, t) ==
    LET places == {i \in DOMAIN s : s[i] = t}
    IN  IF places = {} THEN s ELSE Without(s, CHOOSE i \in places : TRUE)

\* Of a queue, the waiters among its first n that _admit_concurrency_waiters
\* makes holders: the rest of them had their future cancelled and are dropped.
AdmittedAmong(queue, n) == {queue[i] : i \in {j \in 1..n : fut[queue[j]] # "cancelled"}}

\* How many waiters the loop pops: it goes on while there are waiters and room.
Popped(lim, hs, queue) ==
    CHOOSE n \in 0..Len(queue) :
        /\ \A m \in 0..(n - 1) : HasCapacity(lim, hs \cup AdmittedAmong(queue, m))
        /\ n = Len(queue) \/ ~HasCapacity(lim, hs \cup AdmittedAmong(queue, n))

\* _admit_concurrency_waiters for the given limit, holders and queue.
Admit(lim, hs, queue) ==
    LET n == Popped(lim, hs, queue)
    IN  [holders |-> hs \cup AdmittedAmong(queue, n),
         waiters |-> SubSeq(queue, n + 1, Len(queue)),
         woken   |-> AdmittedAmong(queue, n)]

WakeUp(f, woken) == [t \in Tasks |-> IF t \in woken THEN "done" ELSE f[t]]

-----------------------------------------------------------------------------
(***************************************************************************)
(* run_with_concurrency.                                                   *)
(***************************************************************************)

\* The delegate tool starts the background task.
Launch(t) ==
    /\ pc[t] = "idle"
    /\ pc' = [pc EXCEPT ![t] = "launched"]
    /\ UNCHANGED <<lane, fut, cancelled>>

\* Mutant: a newcomer takes a free slot before the queue is served.
ReserveSlotBarging(t, n) ==
    LET enters == HasCapacity(n, holders)
        old    == Admit(n, IF enters THEN holders \cup {t} ELSE holders, waiters)
    IN  /\ pc[t] = "launched"
        /\ exists' = TRUE
        /\ limit' = n
        /\ holders' = old.holders
        /\ waiters' = IF enters THEN old.waiters ELSE Append(old.waiters, t)
        /\ fut' = [WakeUp(fut, old.woken) EXCEPT ![t] = IF enters THEN "none" ELSE "pending"]
        /\ pc' = [pc EXCEPT ![t] = IF enters THEN "admitted" ELSE "notifying"]
        /\ UNCHANGED cancelled

\* _reserve_concurrency_slot: the newcomer's limit becomes the lane's, which may
\* admit waiters; the newcomer enters only if nobody is left waiting.
ReserveSlot(t, n) ==
    LET old == Admit(n, holders, waiters)
    IN  /\ pc[t] = "launched"
        /\ exists' = TRUE
        /\ limit' = n
        /\ IF HasCapacity(n, old.holders) /\ old.waiters = <<>>
           THEN /\ holders' = old.holders \cup {t}
                /\ waiters' = old.waiters
                /\ fut' = WakeUp(fut, old.woken)
                /\ pc' = [pc EXCEPT ![t] = "admitted"]
           ELSE /\ holders' = old.holders
                /\ waiters' = Append(old.waiters, t)
                /\ fut' = [WakeUp(fut, old.woken) EXCEPT ![t] = "pending"]
                /\ pc' = [pc EXCEPT ![t] = "notifying"]
        /\ UNCHANGED cancelled

\* on_queued returns and the task awaits its future.
AwaitSlot(t) ==
    /\ pc[t] = "notifying"
    /\ pc' = [pc EXCEPT ![t] = "waiting"]
    /\ UNCHANGED <<lane, fut, cancelled>>

\* The future is done and no cancellation overtook it.
SlotGranted(t) ==
    /\ pc[t] = "waiting"
    /\ fut[t] = "done"
    /\ ~cancelled[t]
    /\ pc' = [pc EXCEPT ![t] = "admitted"]
    /\ UNCHANGED <<lane, fut, cancelled>>

\* mark_started, then run().
Run(t) ==
    /\ pc[t] = "admitted"
    /\ pc' = [pc EXCEPT ![t] = "running"]
    /\ UNCHANGED <<lane, fut, cancelled>>

\* run() returns or raises, or mark_started refuses a record that is gone.
Finish(t) ==
    /\ pc[t] \in {"admitted", "running"}
    /\ pc' = [pc EXCEPT ![t] = "leaving"]
    /\ UNCHANGED <<lane, fut, cancelled>>

(***************************************************************************)
(* asyncio.Task.cancel: a task that is suspended on a pending future has   *)
(* that future cancelled at once; its coroutine sees the CancelledError    *)
(* only when the event loop runs it again, and between the two the lane    *)
(* still lists it.  A future that is done already is left alone.           *)
(***************************************************************************)
Cancel(t) ==
    /\ pc[t] \notin {"idle", "leaving"}
    /\ ~cancelled[t]
    /\ cancelled' = [cancelled EXCEPT ![t] = TRUE]
    /\ fut' = IF pc[t] = "waiting" /\ fut[t] = "pending"
              THEN [fut EXCEPT ![t] = "cancelled"] ELSE fut
    /\ UNCHANGED <<lane, pc>>

\* Mutant: the cancellation skips the cleanup of a task that holds no slot yet.
DeliverCancelUncleaned(t) ==
    /\ cancelled[t]
    /\ cancelled' = [cancelled EXCEPT ![t] = FALSE]
    /\ pc' = [pc EXCEPT ![t] = IF pc[t] = "waiting" THEN "idle" ELSE "leaving"]
    /\ fut' = [fut EXCEPT ![t] = "none"]
    /\ UNCHANGED lane

\* The CancelledError reaches the coroutine wherever it is suspended, and the
\* finally clause runs.
DeliverCancel(t) ==
    /\ cancelled[t]
    /\ cancelled' = [cancelled EXCEPT ![t] = FALSE]
    /\ pc' = [pc EXCEPT ![t] = "leaving"]
    /\ UNCHANGED <<lane, fut>>

\* Mutant: the slot is given back but nobody is admitted to it.
CleanupAdmitsNobody(t) ==
    /\ pc[t] = "leaving"
    /\ pc' = [pc EXCEPT ![t] = "idle"]
    /\ holders' = holders \ {t}
    /\ waiters' = Dequeued(waiters, t)
    /\ exists' = (holders' # {} \/ waiters' # <<>>)
    /\ fut' = [fut EXCEPT ![t] = "none"]
    /\ UNCHANGED <<limit, cancelled>>

\* _finish_concurrency_cleanup: the shielded task runs
\* _cleanup_concurrency_registration to its end, however often its caller is
\* cancelled meanwhile; a lane without members is dropped.
Cleanup(t) ==
    LET left == Admit(limit, holders \ {t}, Dequeued(waiters, t))
    IN  /\ pc[t] = "leaving"
        /\ pc' = [pc EXCEPT ![t] = "idle"]
        /\ holders' = IF exists THEN left.holders ELSE holders
        /\ waiters' = IF exists THEN left.waiters ELSE waiters
        /\ exists' = (exists /\ (left.holders # {} \/ left.waiters # <<>>))
        /\ fut' = [WakeUp(fut, IF exists THEN left.woken ELSE {}) EXCEPT ![t] = "none"]
        /\ UNCHANGED <<limit, cancelled>>

-----------------------------------------------------------------------------
Init ==
    /\ exists = FALSE
    /\ limit \in Limits
    /\ holders = {}
    /\ waiters = <<>>
    /\ fut = [t \in Tasks |-> "none"]
    /\ pc = [t \in Tasks |-> "idle"]
    /\ cancelled = [t \in Tasks |-> FALSE]

\* What the event loop owes a task.
LaneStep(t) ==
    \/ \E n \in Limits : ReserveSlot(t, n)
    \/ AwaitSlot(t)
    \/ SlotGranted(t)
    \/ Run(t)
    \/ DeliverCancel(t)
    \/ Cleanup(t)

Next ==
    \E t \in Tasks : \/ Launch(t)
                    \/ LaneStep(t)
                    \/ Finish(t)
                    \/ Cancel(t)

Spec == Init /\ [][Next]_vars

\* The event loop runs what is ready; how long run() takes is nobody's promise
\* (delegate_timeout_seconds is 0 by default).
FairSpec == Spec /\ \A t \in Tasks : WF_vars(LaneStep(t))

-----------------------------------------------------------------------------
(***************************************************************************)
(* Properties.                                                             *)
(***************************************************************************)

\* Every variable has its type.
TypeOK ==
    /\ exists \in BOOLEAN
    /\ limit \in Limits
    /\ holders \in SUBSET Tasks
    /\ waiters \in Seq(Tasks)
    /\ fut \in [Tasks -> {"none", "pending", "done", "cancelled"}]
    /\ pc \in [Tasks -> Stages]
    /\ cancelled \in [Tasks -> BOOLEAN]

\* What a task's position in run_with_concurrency says about the lane: it runs
\* only as a holder, it is in the queue exactly while its future is undecided
\* or was cancelled under it, a task that was granted a slot holds it until its
\* cleanup even if it is cancelled before it notices, and a task that is not
\* in run_with_concurrency is nowhere in the lane.
SlotAccounting ==
    /\ TypeOK
    /\ \A t \in Tasks :
        /\ pc[t] \in {"admitted", "running"} => t \in holders
        /\ pc[t] \in {"idle", "launched"} => t \notin holders /\ fut[t] = "none"
        /\ pc[t] \in {"notifying", "waiting"} => (t \in holders <=> fut[t] = "done")
        /\ fut[t] = "cancelled" => t \notin holders
    /\ \A i, j \in DOMAIN waiters : waiters[i] = waiters[j] => i = j
    /\ \A i \in DOMAIN waiters :
        /\ pc[waiters[i]] \in {"notifying", "waiting", "leaving"}
        /\ fut[waiters[i]] \in {"pending", "cancelled"}
        /\ waiters[i] \notin holders
    /\ \A t \in Tasks :
        (pc[t] \in {"notifying", "waiting"} /\ fut[t] = "pending")
        => \E i \in DOMAIN waiters : waiters[i] = t

\* First come, first served: nobody is admitted past an earlier waiter that
\* still wants the slot, a newcomer included.
AdmissionInOrder ==
    [][\A t \in holders' \ holders :
          \A i \in DOMAIN waiters :
             \/ waiters[i] \in holders'
             \/ fut[waiters[i]] = "cancelled"
             \/ pc[waiters[i]] = "leaving"
             \/ \E j \in 1..i : waiters[j] = t]_vars

\* If no run lasts forever, everybody who waits gets a slot or is cancelled:
\* a slot handed to a task that is cancelled at that moment is handed on.
WaitersServed ==
    (\A t \in Tasks : []<>(pc[t] # "running"))
        => \A t \in Tasks : (pc[t] = "waiting") ~> (pc[t] # "waiting")

=============================================================================
