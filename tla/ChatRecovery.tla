---------------------------- MODULE ChatRecovery ----------------------------
(***************************************************************************)
(* Automatic recovery of one chat turn: core/chat/run_recovery.py with the *)
(* attempt loop of core/chat/task_execution.py and the rollback restart of *)
(* its failure hook.                                                       *)
(*                                                                         *)
(* The turn is a sequence of tool calls, each under a recovery policy.  A  *)
(* run executes them one after the other and may die at any point; the     *)
(* effect of a call may have happened by then or not.  The coordinator     *)
(* sees only the ledger.                                                   *)
(***************************************************************************)
EXTENDS Naturals, Sequences, FiniteSets

CONSTANTS
    MaxCalls,     \* bound: tool calls in a turn
    MaxAttempts,  \* retry_policy.max_attempts
    MaxRetries    \* retry_policy.retries

ASSUME RecoveryAssumption ==
    /\ MaxCalls \in Nat
    /\ MaxAttempts \in Nat \ {0}
    /\ MaxRetries \in Nat

Policies == {"unknown", "manual_required", "vault_transactional", "replay_safe"}
External == {"unknown", "manual_required"}

VARIABLES
    plan,      \* plan[i]: the policy of the turn's i-th call
    ledger,    \* the runs of the coordinator's store: ledger[k][i] is "none", "started", "completed" or "failed"
    at,        \* calls whose reply is in the current run's history
    taken,     \* taken[i]: how often the effect of call i has happened
    undone,    \* undone[i]: how often it was rolled back
    mine,      \* mine[i]: how often it happened in the current task
    hit,       \* whether the effect of the call under way has happened
    attempt,   \* attempt number within the task
    restarts,  \* automatic_restart_count
    ph         \* "running", "deciding", "rollback" (the failure hook) or "over"

recoveryVars == <<plan, ledger, at, taken, undone, mine, hit, attempt, restarts, ph>>

ToolCalls == DOMAIN plan
Run == Len(ledger)
Blank == [i \in ToolCalls |-> "none"]
Zero == [i \in ToolCalls |-> 0]
Running(i) == ph = "running" /\ i = at + 1 /\ i \in ToolCalls

RecoveryInit ==
    /\ plan \in UNION {[1..n -> Policies] : n \in 0..MaxCalls}
    /\ ledger = <<[i \in DOMAIN plan |-> "none"]>>
    /\ at = 0
    /\ taken = [i \in DOMAIN plan |-> 0]
    /\ undone = taken
    /\ mine = taken
    /\ hit = FALSE
    /\ attempt = 1
    /\ restarts = 0
    /\ ph = "running"

-----------------------------------------------------------------------------
(***************************************************************************)
(* A run.  Harness writes the ledger around every call.                    *)
(***************************************************************************)

StartCall(i) ==
    /\ Running(i)
    /\ ledger[Run][i] = "none"
    /\ ledger' = [ledger EXCEPT ![Run][i] = "started"]
    /\ hit' = FALSE
    /\ UNCHANGED <<plan, at, taken, undone, mine, attempt, restarts, ph>>

\* The effect of a call that is under way happens.
TakeEffect(i) ==
    /\ Running(i)
    /\ ledger[Run][i] = "started"
    /\ ~hit
    /\ hit' = TRUE
    /\ taken' = [taken EXCEPT ![i] = @ + 1]
    /\ mine' = [mine EXCEPT ![i] = @ + 1]
    /\ UNCHANGED <<plan, ledger, at, undone, attempt, restarts, ph>>

\* A call that returns has had its effect.
CallReturns(i) ==
    /\ Running(i)
    /\ ledger[Run][i] = "started"
    /\ hit
    /\ ledger' = [ledger EXCEPT ![Run][i] = "completed"]
    /\ at' = i
    /\ UNCHANGED <<plan, taken, undone, mine, hit, attempt, restarts, ph>>

\* A tool fails, whatever it had done by then; the model is told and goes on,
\* or the run ends with it.
CallFails(i) ==
    /\ Running(i)
    /\ ledger[Run][i] = "started"
    /\ ledger' = [ledger EXCEPT ![Run][i] = "failed"]
    /\ \/ at' = i /\ ph' = ph
       \/ at' = at /\ ph' = "deciding"
    /\ UNCHANGED <<plan, taken, undone, mine, hit, attempt, restarts>>

\* The provider stream breaks in a way that is worth another try.
RunFails ==
    /\ ph = "running"
    /\ ph' = "deciding"
    /\ UNCHANGED <<plan, ledger, at, taken, undone, mine, hit, attempt, restarts>>

\* The run ends: with an answer, with a failure that is not retryable, or
\* because the task is cancelled.
Ends ==
    /\ ph = "running"
    /\ ph' = "over"
    /\ UNCHANGED <<plan, ledger, at, taken, undone, mine, hit, attempt, restarts>>

-----------------------------------------------------------------------------
(***************************************************************************)
(* ChatRunRecoveryCoordinator.decide.                                      *)
(***************************************************************************)

WithStatus(k, status) == {i \in ToolCalls : ledger[k][i] = status}
Some(S, policies) == \E i \in S : plan[i] \in policies

\* _whole_turn_restart_refusal, over every run of the task.
WholeTurnRestartRefusal ==
    \E k \in DOMAIN ledger : Some({i \in ToolCalls : ledger[k][i] # "none"}, External)

\* Mutant: an effect that settled as failed is taken to be absent.
DecideIgnoringFailed(sound, snapshot) ==
    LET unresolved == WithStatus(Run, "started")
    IN  IF ~sound \/ Some(unresolved, External)
        THEN "manual_required"
        ELSE IF Some(unresolved, {"vault_transactional"})
        THEN IF WholeTurnRestartRefusal THEN "manual_required" ELSE "terminal_rollback_restart"
        ELSE IF ~snapshot
        THEN "manual_required"
        ELSE IF unresolved # {} THEN "replay_no_effect" ELSE "resume_snapshot"

\* sound: the ledger's records agree with its events; snapshot: the store has
\* a snapshot, and a valid one where that is asked for.
Decide(sound, snapshot) ==
    LET failed == WithStatus(Run, "failed")
        unresolved == WithStatus(Run, "started")
    IN  IF ~sound \/ Some(failed, External) \/ Some(unresolved, External)
        THEN "manual_required"
        ELSE IF Some(failed \cup unresolved, {"vault_transactional"})
        THEN IF WholeTurnRestartRefusal THEN "manual_required" ELSE "terminal_rollback_restart"
        ELSE IF ~snapshot
        THEN "manual_required"
        ELSE IF unresolved # {} THEN "replay_no_effect" ELSE "resume_snapshot"

-----------------------------------------------------------------------------
(***************************************************************************)
(* The attempt loop.                                                       *)
(***************************************************************************)

\* A run without tools needs no coordinator to be tried again.
CanRetry(sound, snapshot) ==
    /\ attempt < MaxAttempts
    /\ plan = <<>> \/ Decide(sound, snapshot) \in {"replay_no_effect", "resume_snapshot"}

CanRestart(sound, snapshot) ==
    /\ Decide(sound, snapshot) = "terminal_rollback_restart"
    /\ attempt < MaxAttempts
    /\ restarts < MaxRetries

\* Mutant: a retry is not counted: it goes on in the failed run's place.
RetryUncounted(sound, snapshot) ==
    /\ ph = "deciding"
    /\ CanRetry(sound, snapshot)
    /\ ledger' = [ledger EXCEPT ![Run] = [i \in ToolCalls |-> IF i <= at THEN @[i] ELSE "none"]]
    /\ ph' = "running"
    /\ UNCHANGED <<plan, at, taken, undone, mine, hit, attempt, restarts>>

\* The next attempt continues from the snapshot's history.
Retry(sound, snapshot) ==
    /\ ph = "deciding"
    /\ CanRetry(sound, snapshot)
    /\ attempt' = attempt + 1
    /\ ledger' = Append(ledger, Blank)
    /\ ph' = "running"
    /\ UNCHANGED <<plan, at, taken, undone, mine, hit, restarts>>

\* ChatRollbackRestartRequired: the task fails and its hook takes over.
RollbackRestart(sound, snapshot) ==
    /\ ph = "deciding"
    /\ CanRestart(sound, snapshot)
    /\ ph' = "rollback"
    /\ UNCHANGED <<plan, ledger, at, taken, undone, mine, hit, attempt, restarts>>

\* chat_recovery_rejected, and the failure is raised.
Rejected(sound, snapshot) ==
    /\ ph = "deciding"
    /\ ~CanRetry(sound, snapshot)
    /\ ~CanRestart(sound, snapshot)
    /\ ph' = "over"
    /\ UNCHANGED <<plan, ledger, at, taken, undone, mine, hit, attempt, restarts>>

\* rollback_task_file_mutations: the vault calls of this task are undone.
RolledBack ==
    [i \in ToolCalls |-> IF plan[i] = "vault_transactional" THEN undone[i] + mine[i] ELSE undone[i]]

\* _handle_failed_chat_task: roll back, then a replacement task with the same
\* prepared run, coordinator and ledger included ...
Replace ==
    /\ ph = "rollback"
    /\ undone' = RolledBack
    /\ restarts' = restarts + 1
    /\ attempt' = 1
    /\ at' = 0
    /\ mine' = Zero
    /\ ledger' = Append(ledger, Blank)
    /\ ph' = "running"
    /\ UNCHANGED <<plan, taken, hit>>

\* ... or the rollback is refused or the task cannot be started.
Abandon ==
    /\ ph = "rollback"
    /\ undone' \in {undone, RolledBack}
    /\ ph' = "over"
    /\ UNCHANGED <<plan, ledger, at, taken, mine, hit, attempt, restarts>>

\* The user cancels.
CancelTurn ==
    /\ ph \in {"deciding", "rollback"}
    /\ ph' = "over"
    /\ UNCHANGED <<plan, ledger, at, taken, undone, mine, hit, attempt, restarts>>

RunStep ==
    \/ \E i \in ToolCalls : StartCall(i) \/ TakeEffect(i) \/ CallReturns(i) \/ CallFails(i)
    \/ RunFails \/ Ends
Recover ==
    \/ \E sound, snapshot \in BOOLEAN :
          Retry(sound, snapshot) \/ RollbackRestart(sound, snapshot) \/ Rejected(sound, snapshot)
    \/ Replace \/ Abandon
RecoveryNext == RunStep \/ Recover \/ CancelTurn

\* The attempt loop and the failure hook go on; how long a run takes is up to
\* the model and the tools.
RecoverySpec == RecoveryInit /\ [][RecoveryNext]_recoveryVars /\ WF_recoveryVars(Recover)

-----------------------------------------------------------------------------
\* Every variable has its type.
RecoveryTypeOK ==
    /\ plan \in Seq(Policies)
    /\ \A k \in DOMAIN ledger : ledger[k] \in [ToolCalls -> {"none", "started", "completed", "failed"}]
    /\ at \in 0..Len(plan)
    /\ {taken, undone, mine} \subseteq [ToolCalls -> Nat]
    /\ hit \in BOOLEAN
    /\ attempt \in 1..MaxAttempts
    /\ restarts \in 0..MaxRetries
    /\ ph \in {"running", "deciding", "rollback", "over"}

\* However often a turn is retried, resumed or restarted by itself, an effect
\* outside the vault, or one whose tool declares nothing, happens at most once,
\* and a vault effect that happened before was undone before it happens again.
NoRepeatedEffect ==
    RecoveryTypeOK /\ \A i \in ToolCalls :
        /\ plan[i] \in External => taken[i] <= 1
        /\ plan[i] = "vault_transactional" => taken[i] - undone[i] <= 1

\* The turn comes to an end if each of its runs does: the attempt and restart
\* budgets are finite, over restarts in new tasks too.
TurnEnds == []<>(ph # "running") => <>(ph = "over")

=============================================================================
