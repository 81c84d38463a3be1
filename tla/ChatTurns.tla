------------------------------ MODULE ChatTurns ------------------------------
(***************************************************************************)
(* The tasks of one chat session: queued turns, resumed reviews, manual    *)
(* retries and rollback restarts, with what they leave in the session's    *)
(* stored history, its failure marker and its deferred reviews.            *)
(* core/chat/task_execution.py, deferred_reviews.py, tool_history.py,      *)
(* api/services/deferred_reviews.py and the retry endpoint.                *)
(*                                                                         *)
(* A step ends where the code suspends.  A crash loses the tasks, the gate *)
(* and the event buffer; history, marker and reviews are in SQLite.        *)
(***************************************************************************)
EXTENDS Naturals, Sequences, FiniteSets

CONSTANTS
    MaxTasks,    \* bound: tasks and requests for one
    Retries,     \* automatic restarts of a turn
    MaxCrashes,  \* bound: crashes
    Inputs       \* what the environment does: subset of {"review", "retry", "restart", "cancel", "crash"}

ASSUME TurnsAssumption ==
    /\ MaxTasks \in Nat
    /\ Retries \in Nat
    /\ MaxCrashes \in Nat
    /\ Inputs \subseteq {"review", "retry", "restart", "cancel", "crash"}

VARIABLES
    tasks,    \* the session's tasks in the order they were asked for
    gate,     \* chat_session_scope gate: the holder, then those waiting
    hist,     \* stored messages
    marker,   \* latest_turn_failure: the marked message (0: none) and whether it may be retried
    reviews,  \* chat_deferred_reviews
    crashes,
    mixed     \* history variable: a task outside the gate ran alongside or after a later one

vars == <<tasks, gate, hist, marker, reviews, crashes, mixed>>

NoMarker == [at |-> 0, retryable |-> FALSE]

Executing == {"preparing", "running"}
Active(t) == tasks[t].ph \notin {"requested", "claimed", "hook", "over"}
IsOver(t) == tasks[t].ph = "over"

NewTask(kind, ph) ==
    [kind |-> kind, ph |-> ph, user |-> 0, review |-> 0, blocked |-> FALSE,
     restarts |-> 0, ended |-> "open", outcome |-> "none"]

-----------------------------------------------------------------------------
(***************************************************************************)
(* Stored messages and the tool protocol.                                  *)
(***************************************************************************)

UserMessage(t) == [k |-> "user", of |-> 0, by |-> tasks[t].kind]
Answer(t, u) == [k |-> "answer", of |-> u, by |-> tasks[t].kind]
Calls(t, r) == [k |-> "calls", of |-> r, by |-> tasks[t].kind]
Replies(t, r) == [k |-> "replies", of |-> r, by |-> tasks[t].kind]

\* analyze_tool_history, for calls that are named by their review: a call
\* nobody replied to, ...
Unmatched(h) ==
    {i \in DOMAIN h : h[i].k = "calls" /\ ~\E j \in DOMAIN h : j > i /\ h[j].k = "replies" /\ h[j].of = h[i].of}
\* ... and a reply without a call, or not right after it.
Misplaced(h) ==
    {j \in DOMAIN h : h[j].k = "replies" /\ ~(j > 1 /\ h[j-1].k = "calls" /\ h[j-1].of = h[j].of)}
Sound(h) == Unmatched(h) = {} /\ Misplaced(h) = {}

\* _interrupted_review_replies and the messages it adds; a history that is
\* damaged otherwise is a conflict, which leaves everything as it was.
Closing(t, r) ==
    IF \E i \in Unmatched(hist) : hist[i].of = r THEN Append(hist, Replies(t, r)) ELSE hist

Conflicting(t, r) ==
    \/ Misplaced(hist) # {}
    \/ \E i \in Unmatched(hist) : hist[i].of # r
    \/ ~Sound(Closing(t, r))

\* Mutant: a review that is being resumed does not block.
ReviewUnclaimed == \E r \in DOMAIN reviews : reviews[r].status = "pending"

\* has_pending_deferred_review
ReviewOpen == \E r \in DOMAIN reviews : reviews[r].status \in {"pending", "resuming"}

\* Two tasks execute at once, or one outside the gate starts after a task that
\* was asked for later than it (a restart: than the task it replaces).
Mixed ==
    LET n == Len(tasks')
        Runs(t) == tasks'[t].ph \in Executing
    IN  \/ \E t, u \in DOMAIN tasks' : t # u /\ Runs(t) /\ Runs(u)
        \/ \E t \in DOMAIN tasks : tasks[t].ph = "requested" /\ Runs(t) /\ t < n
        \/ \E t \in DOMAIN tasks :
              tasks[t].ph = "hook" /\ tasks'[t].ended = "redirect" /\ t + 1 < n

Watch == mixed' = (mixed \/ Mixed)

-----------------------------------------------------------------------------
(***************************************************************************)
(* The gate, and the ways a task leaves it.                                *)
(***************************************************************************)

HoldsGate(t) == gate # <<>> /\ gate[1] = t

\* Mutant: the release of the gate drops the task that was to have it next.
WithoutBoth(t) == IF HoldsGate(t) /\ Len(gate) > 1 THEN SubSeq(gate, 3, Len(gate)) ELSE SelectSeq(gate, LAMBDA x : x # t)

Without(t) ==
    LET places == {i \in DOMAIN gate : gate[i] = t}
        at     == CHOOSE i \in places : TRUE
    IN  IF places = {} THEN gate
        ELSE SubSeq(gate, 1, at - 1) \o SubSeq(gate, at + 1, Len(gate))

Leave(t, ph, ended, outcome) ==
    /\ tasks' = [tasks EXCEPT ![t] = [tasks[t] EXCEPT
                    !.ph = ph, !.outcome = outcome,
                    !.ended = IF tasks[t].ended = "open" THEN ended ELSE tasks[t].ended]]
    /\ gate' = Without(t)

\* POST chat: start_queued_chat_stream_task.
Send ==
    /\ Len(tasks) < MaxTasks
    /\ tasks' = Append(tasks, [NewTask("turn", "queued") EXCEPT !.blocked = ReviewOpen])
    /\ gate' = Append(gate, Len(tasks) + 1)
    /\ UNCHANGED <<hist, marker, reviews, crashes>>
    /\ Watch

\* The turn has the gate: an open review, then or now, ends it before it starts.
Preflight(t) ==
    /\ tasks[t].kind = "turn"
    /\ tasks[t].ph = "queued"
    /\ HoldsGate(t)
    /\ IF tasks[t].blocked \/ ReviewOpen
       THEN Leave(t, "over", "error", "failed")
       ELSE tasks' = [tasks EXCEPT ![t].ph = "preparing"] /\ UNCHANGED gate
    /\ UNCHANGED <<hist, marker, reviews, crashes>>
    /\ Watch

\* _prepare_chat_execution fails: an error event, the task is marked failed.
PrepareFails(t) ==
    /\ tasks[t].ph = "preparing"
    /\ IF tasks[t].kind = "turn"
       THEN Leave(t, "over", "error", "failed")
       ELSE Leave(t, "hook", "open", "failed")
    /\ UNCHANGED <<hist, marker, reviews, crashes>>
    /\ Watch

\* The user request is stored before the model is asked; a resumed review has
\* none, its messages are in the review.
Begin(t) ==
    /\ tasks[t].ph = "preparing"
    /\ hist' = IF tasks[t].kind = "turn" THEN Append(hist, UserMessage(t)) ELSE hist
    /\ tasks' = [tasks EXCEPT ![t] = [tasks[t] EXCEPT
                    !.ph = "running",
                    !.user = IF tasks[t].user = 0 THEN Len(hist) + 1 ELSE tasks[t].user]]
    /\ UNCHANGED <<gate, marker, reviews, crashes>>
    /\ Watch

\* Mutant: the marker outlives the answer.
ClearedLater(t) == marker

\* _clear_latest_turn_failure
Cleared(t) == NoMarker

\* One transaction: the messages after the accepted request, the marker and,
\* when the answer is a request for approval, the review; then, before anything
\* else runs, the done event.  Compaction follows an answer, not a review.
Commit(t, deferred) ==
    LET r == Len(reviews) + 1
        old == IF tasks[t].kind = "resume" THEN <<Replies(t, tasks[t].review)>> ELSE <<>>
        new == IF deferred THEN <<Calls(t, r)>> ELSE <<Answer(t, tasks[t].user)>>
    IN  /\ tasks[t].ph = "running"
        /\ deferred => "review" \in Inputs
        /\ hist' = hist \o old \o new
        /\ marker' = Cleared(t)
        /\ reviews' = IF deferred
                      THEN Append(reviews, [status |-> "pending", user |-> tasks[t].user, task |-> 0])
                      ELSE reviews
        /\ tasks' = [tasks EXCEPT ![t] = [tasks[t] EXCEPT
                        !.ph = IF deferred THEN "finishing" ELSE "compacting",
                        !.outcome = IF deferred THEN "review" ELSE "answer",
                        !.ended = "done"]]
        /\ UNCHANGED <<gate, crashes>>
        /\ Watch

\* _try_auto_compact_after_turn
Compacted(t) ==
    /\ tasks[t].ph = "compacting"
    /\ tasks' = [tasks EXCEPT ![t].ph = "finishing"]
    /\ UNCHANGED <<gate, hist, marker, reviews, crashes>>
    /\ Watch

\* mark_deferred_review_terminal: from resuming only; an interrupted review's
\* calls are closed in the same transaction, or nothing is changed.
Settle(t, status) ==
    LET r == tasks[t].review
        refused == \/ reviews[r].status # "resuming"
                   \/ status # "completed" /\ Conflicting(t, r)
    IN  IF refused THEN UNCHANGED <<hist, reviews>>
        ELSE /\ reviews' = [reviews EXCEPT ![r].status = status]
             /\ hist' = IF status = "completed" THEN hist ELSE Closing(t, r)

\* The leases of the run are released, which suspends, and the body ends; a
\* resumed review is completed inside the gate.
Finish(t) ==
    /\ tasks[t].ph = "finishing"
    /\ IF tasks[t].kind = "resume" THEN Settle(t, "completed") ELSE UNCHANGED <<hist, reviews>>
    /\ Leave(t, "over", "done", tasks[t].outcome)
    /\ UNCHANGED <<marker, crashes>>
    /\ Watch

\* _record_latest_turn_failure: the marker names the newest stored message.
Marked(t, retryable) == [at |-> Len(hist), retryable |-> retryable]

\* The run fails for good: marker, error event, and the failure hook, which
\* only a resumed review needs.
Fail(t, retryable) ==
    /\ tasks[t].ph = "running"
    /\ marker' = Marked(t, retryable)
    /\ Leave(t, IF tasks[t].kind = "resume" THEN "hook" ELSE "over", "error", "failed")
    /\ UNCHANGED <<hist, reviews, crashes>>
    /\ Watch

\* ChatRollbackRestartRequired: marker, no event; the hook decides.
NeedsRestart(t) ==
    /\ "restart" \in Inputs
    /\ tasks[t].ph = "running"
    /\ tasks[t].restarts < Retries
    /\ marker' = Marked(t, TRUE)
    /\ Leave(t, "hook", "open", "restart")
    /\ UNCHANGED <<hist, reviews, crashes>>
    /\ Watch

\* Cancellation, whatever the task is doing; a commit that happened stays.
Cancel(t) ==
    /\ "cancel" \in Inputs
    /\ Active(t)
    /\ Leave(t, IF tasks[t].kind = "resume" THEN "hook" ELSE "over", "cancelled", "cancelled")
    /\ UNCHANGED <<hist, marker, reviews, crashes>>
    /\ Watch

\* Mutant: only a cancelled task settles its review.
ReviewHookOnCancel(t) ==
    /\ tasks[t].ph = "hook"
    /\ tasks[t].kind = "resume"
    /\ IF tasks[t].outcome = "cancelled" THEN Settle(t, "cancelled") ELSE UNCHANGED <<hist, reviews>>
    /\ tasks' = [tasks EXCEPT ![t].ph = "over"]
    /\ UNCHANGED <<gate, marker, crashes>>
    /\ Watch

\* The hooks of a resumed review.
ReviewHook(t) ==
    /\ tasks[t].ph = "hook"
    /\ tasks[t].kind = "resume"
    /\ Settle(t, IF tasks[t].outcome = "cancelled" THEN "cancelled" ELSE "failed")
    /\ tasks' = [tasks EXCEPT ![t].ph = "over"]
    /\ UNCHANGED <<gate, marker, crashes>>
    /\ Watch

\* _handle_failed_chat_task: after the rollback a replacement starts at once,
\* outside the gate, and the stream is redirected; or recovery is abandoned.
RestartHook(t) ==
    /\ tasks[t].ph = "hook"
    /\ tasks[t].kind # "resume"
    /\ \/ /\ Len(tasks) < MaxTasks
          /\ tasks' = Append([tasks EXCEPT ![t] = [tasks[t] EXCEPT !.ph = "over", !.ended = "redirect"]],
                             [NewTask("restart", "running") EXCEPT !.user = tasks[t].user,
                                                                   !.restarts = tasks[t].restarts + 1])
       \/ tasks' = [tasks EXCEPT ![t] = [tasks[t] EXCEPT !.ph = "over", !.ended = "error"]]
    /\ UNCHANGED <<gate, hist, marker, reviews, crashes>>
    /\ Watch

-----------------------------------------------------------------------------
(***************************************************************************)
(* Manual retry.                                                           *)
(***************************************************************************)

\* The endpoint: no active task, a retryable marker on a user message.  The
\* run is then prepared, during which other requests are served.
RetryRequest ==
    /\ "retry" \in Inputs
    /\ Len(tasks) < MaxTasks
    /\ \A t \in DOMAIN tasks : ~Active(t)
    /\ marker.retryable
    /\ marker.at \in DOMAIN hist /\ hist[marker.at].k = "user"
    /\ tasks' = Append(tasks, [NewTask("retry", "requested") EXCEPT !.user = marker.at])
    /\ UNCHANGED <<gate, hist, marker, reviews, crashes>>
    /\ Watch

\* The retry starts, outside the gate, and its marker is written again.
RetryStart(t) ==
    /\ tasks[t].ph = "requested"
    /\ tasks' = [tasks EXCEPT ![t].ph = "running"]
    /\ marker' = [at |-> tasks[t].user, retryable |-> TRUE]
    /\ UNCHANGED <<gate, hist, reviews, crashes>>
    /\ Watch

RetryFails(t) ==
    /\ tasks[t].ph = "requested"
    /\ tasks' = [tasks EXCEPT ![t] = [tasks[t] EXCEPT !.ph = "over", !.ended = "refused"]]
    /\ UNCHANGED <<gate, hist, marker, reviews, crashes>>
    /\ Watch

-----------------------------------------------------------------------------
(***************************************************************************)
(* Deferred reviews.                                                       *)
(***************************************************************************)

\* UPDATE ... WHERE status = 'pending'
Claimable(r) == reviews[r].status = "pending"

\* submit_chat_deferred_review up to the claim.  (Decisions that do not fit
\* and reviewed files that changed are refused before anything is written.)
Submit(r) ==
    /\ Len(tasks) < MaxTasks
    /\ Claimable(r)
    /\ reviews' = [reviews EXCEPT ![r].status = "resuming"]
    /\ tasks' = Append(tasks, [NewTask("resume", "claimed") EXCEPT !.review = r, !.user = reviews[r].user])
    /\ UNCHANGED <<gate, hist, marker, crashes>>
    /\ Watch

\* start_deferred_review_resume_task and attach_deferred_review_task ...
ResumeStart(t) ==
    /\ tasks[t].ph = "claimed"
    /\ tasks' = [tasks EXCEPT ![t].ph = "queued"]
    /\ gate' = Append(gate, t)
    /\ reviews' = [reviews EXCEPT ![tasks[t].review].task = t]
    /\ UNCHANGED <<hist, marker, crashes>>
    /\ Watch

\* ... or the task cannot be started and the review fails.
ResumeStartFails(t) ==
    /\ tasks[t].ph = "claimed"
    /\ Settle(t, "failed")
    /\ tasks' = [tasks EXCEPT ![t] = [tasks[t] EXCEPT !.ph = "over", !.ended = "refused"]]
    /\ UNCHANGED <<gate, marker, crashes>>
    /\ Watch

\* The resumed task has the gate.
ResumePrepare(t) ==
    /\ tasks[t].kind = "resume"
    /\ tasks[t].ph = "queued"
    /\ HoldsGate(t)
    /\ tasks' = [tasks EXCEPT ![t].ph = "preparing"]
    /\ UNCHANGED <<gate, hist, marker, reviews, crashes>>
    /\ Watch

-----------------------------------------------------------------------------
Crash ==
    /\ "crash" \in Inputs
    /\ crashes < MaxCrashes
    /\ crashes' = crashes + 1
    /\ tasks' = [t \in DOMAIN tasks |->
                    IF IsOver(t) THEN tasks[t]
                    ELSE [tasks[t] EXCEPT !.ph = "over", !.ended = "lost", !.outcome = "lost"]]
    /\ gate' = <<>>
    /\ UNCHANGED <<hist, marker, reviews>>
    /\ Watch

Init ==
    /\ tasks = <<>>
    /\ gate = <<>>
    /\ hist = <<>>
    /\ marker = NoMarker
    /\ reviews = <<>>
    /\ crashes = 0
    /\ mixed = FALSE

TaskStep(t) ==
    \/ Preflight(t) \/ PrepareFails(t) \/ Begin(t)
    \/ \E deferred \in BOOLEAN : Commit(t, deferred)
    \/ \E retryable \in BOOLEAN : Fail(t, retryable)
    \/ NeedsRestart(t) \/ Compacted(t) \/ Finish(t)
    \/ ReviewHook(t) \/ RestartHook(t)
    \/ RetryStart(t) \/ RetryFails(t)
    \/ ResumeStart(t) \/ ResumeStartFails(t) \/ ResumePrepare(t)

Next ==
    \/ Send
    \/ RetryRequest
    \/ \E r \in DOMAIN reviews : Submit(r)
    \/ \E t \in DOMAIN tasks : TaskStep(t) \/ Cancel(t)
    \/ Crash

\* In the hands of models and tools, whose time nothing bounds: the idle limit of
\* a stream is a setting and does not count while a tool runs.
InBody(t) == t \in DOMAIN tasks /\ tasks[t].ph \in {"preparing", "running", "compacting"}

\* The event loop runs every task that waits for nobody else.
Fairness == \A t \in 1..MaxTasks : WF_vars(t \in DOMAIN tasks /\ ~InBody(t) /\ TaskStep(t))

Spec == Init /\ [][Next]_vars /\ Fairness

-----------------------------------------------------------------------------
(***************************************************************************)
(* Properties.                                                             *)
(***************************************************************************)

\* Every variable has its type.
TypeOK ==
    /\ \A t \in DOMAIN tasks :
          /\ tasks[t].kind \in {"turn", "resume", "retry", "restart"}
          /\ tasks[t].ph \in {"requested", "claimed", "queued", "preparing", "running",
                              "compacting", "finishing", "hook", "over"}
          /\ tasks[t].user \in 0..Len(hist)
          /\ tasks[t].review \in 0..Len(reviews)
          /\ tasks[t].restarts \in 0..Retries
    /\ \A i \in DOMAIN gate : gate[i] \in DOMAIN tasks
    /\ \A i \in DOMAIN hist : hist[i].k \in {"user", "answer", "calls", "replies"}
    /\ marker.at \in 0..Len(hist) /\ marker.retryable \in BOOLEAN
    /\ \A r \in DOMAIN reviews :
          reviews[r].status \in {"pending", "resuming", "completed", "failed", "cancelled"}
    /\ crashes \in 0..MaxCrashes
    /\ mixed \in BOOLEAN

\* The stored history follows the tool protocol at every moment, crashes
\* included: every reply is right after its call, and the only calls without
\* one are the last message, of the review that is open.  (A task outside the
\* gate that ran alongside another may break this: see OneAtATime.)
HistorySound ==
    /\ TypeOK
    /\ ~mixed =>
        /\ Misplaced(hist) = {}
        /\ \A i \in Unmatched(hist) :
              i = Len(hist) /\ reviews[hist[i].of].status \in {"pending", "resuming"}

\* A request is answered at most once; an answer belongs to the newest request
\* unless the user retried an older one; and what the marker offers to retry
\* has no answer, nor has anything after it.
AnsweredOnce ==
    ~mixed =>
        /\ \A i, j \in DOMAIN hist :
              (hist[i].k = "answer" /\ hist[j].k = "answer" /\ hist[i].of = hist[j].of) => i = j
        /\ \A i \in DOMAIN hist : (hist[i].k = "answer" /\ hist[i].by = "turn") =>
              \A j \in hist[i].of + 1 .. i : hist[j].k # "user"
        /\ marker.at > 0 => \A i \in DOMAIN hist : hist[i].k = "answer" => i <= marker.at

\* No model or tool keeps a task forever.
BodiesEnd == \A t \in 1..MaxTasks : []<>~InBody(t)

\* Every task ends, and the gate with it passes on, if models and tools return.
TasksEnd == BodiesEnd =>
    \A t \in 1..MaxTasks : (t \in DOMAIN tasks) ~> (t \in DOMAIN tasks /\ IsOver(t))

\* A claimed review is settled, unless the process dies, a task outside the
\* gate damaged the history, or the resumed task was cancelled when it had
\* already committed the next review.
Resuming(r) == r \in DOMAIN reviews /\ reviews[r].status = "resuming"
ReviewSettles == BodiesEnd => \A r \in 1..MaxTasks : Resuming(r) ~>
    \/ ~Resuming(r)
    \/ crashes > 0
    \/ mixed
    \/ \E t \in DOMAIN tasks :
          tasks[t].review = r /\ tasks[t].ended = "done" /\ tasks[t].outcome = "cancelled"

-----------------------------------------------------------------------------
(***************************************************************************)
(* What the repository says of this code and the code does not keep: TLC   *)
(* finds a counterexample to each (README, section 3.2).                   *)
(***************************************************************************)

\* "the review records `completed`, `failed`, or `cancelled` when that task
\* terminates" (ADR 0023).
ReviewRecorded ==
    \A t \in DOMAIN tasks :
        (tasks[t].kind = "resume" /\ IsOver(t) /\ tasks[t].outcome # "lost" /\ ~mixed)
            => reviews[tasks[t].review].status # "resuming"

\* "Start a streaming chat task that waits behind earlier tasks in its
\* session" (task_execution.py): the tasks of a session run one at a time.
OneAtATime ==
    \A t, u \in DOMAIN tasks :
        (tasks[t].ph \in Executing /\ tasks[u].ph \in Executing) => t = u

\* "A process or container restart still ends the active turn; the accepted
\* user request and existing manual retry path remain available" (ADR 0032).
RetryAfterRestart ==
    \A t \in DOMAIN tasks :
        (/\ tasks[t].outcome = "lost" /\ tasks[t].kind = "turn" /\ tasks[t].user = Len(hist)
         /\ tasks[t].user > 0 /\ \A u \in DOMAIN tasks : IsOver(u))
            => marker.at = tasks[t].user
=============================================================================
