--------------------------- MODULE WorkflowRunStore ---------------------------
(***************************************************************************)
(* The durable history of workflow executions: core/workflow_runs/store.py *)
(* and the view workflow_latest_runs of core/workflow_runs/schema.py.      *)
(*                                                                         *)
(* The table is a function from run ids to rows.  Every write is one       *)
(* SQLite transaction, so one action; the pruning that follows each        *)
(* terminal write belongs to it.  The operators take the table as an       *)
(* argument: WorkflowGovernor applies them inside its own steps.           *)
(***************************************************************************)
EXTENDS Naturals, FiniteSets

CONSTANTS
    RunIds,          \* run ids: numbers, for the view orders ties by run id
    Workflows,       \* workflow ids
    EventKeys,       \* scheduler event keys
    NoKey,           \* NULL in scheduler_event_key
    MaxPerWorkflow,  \* WORKFLOW_RUN_MAX_PER_WORKFLOW
    Retention,       \* WORKFLOW_RUN_RETENTION_DAYS, in units of the clock
    MaxTime,         \* bound of the clock
    FinalStatuses    \* the terminal statuses callers write in this instance

ActiveRunStatuses == {"queued", "running"}
TerminalRunStatuses == {"completed", "failed", "skipped", "cancelled", "timed_out", "missed"}

ASSUME StoreAssumption ==
    /\ RunIds \subseteq Nat
    /\ IsFiniteSet(RunIds)
    /\ NoKey \notin EventKeys
    /\ MaxPerWorkflow \in Nat \ {0}
    /\ Retention \in Nat
    /\ MaxTime \in Nat
    /\ Workflows # {}
    /\ FinalStatuses \subseteq TerminalRunStatuses

VARIABLES
    rows,   \* rows[i]: the row of run i; status "absent" before it and after pruning
    used,   \* the run ids handed out (uuid4: never reused)
    now     \* the wall clock, in the resolution of _iso_timestamp

NoRow(w) == [workflow |-> w, status |-> "absent", key |-> NoKey, completed |-> 0]

\* completed_at IS NOT NULL
IsTerminal(tbl, i) == tbl[i].status \in TerminalRunStatuses
IsActive(tbl, i) == tbl[i].status \in ActiveRunStatuses
IsPresent(tbl, i) == tbl[i].status # "absent"

-----------------------------------------------------------------------------
(***************************************************************************)
(* Retention.                                                              *)
(***************************************************************************)

\* ORDER BY completed_at DESC, run_id DESC
Newer(tbl, i, j) ==
    \/ tbl[i].completed > tbl[j].completed
    \/ tbl[i].completed = tbl[j].completed /\ i > j

\* The terminal runs of i's workflow that come before i in that order.
NewerRuns(tbl, i) ==
    {j \in RunIds : /\ IsTerminal(tbl, j)
                    /\ tbl[j].workflow = tbl[i].workflow
                    /\ Newer(tbl, j, i)}

\* The view workflow_latest_runs.
IsLatest(tbl, i) == IsTerminal(tbl, i) /\ NewerRuns(tbl, i) = {}

\* Mutant: the newest run of a workflow is not spared.
ExpiredRegardless(tbl, i, t) ==
    /\ IsTerminal(tbl, i)
    /\ tbl[i].completed + Retention < t

\* The first DELETE of _prune_in_conn ...
Expired(tbl, i, t) ==
    /\ IsTerminal(tbl, i)
    /\ tbl[i].completed + Retention < t
    /\ ~IsLatest(tbl, i)

\* ... and the second: ROW_NUMBER() > WORKFLOW_RUN_MAX_PER_WORKFLOW.
Excessive(tbl, i) == IsTerminal(tbl, i) /\ Cardinality(NewerRuns(tbl, i)) >= MaxPerWorkflow

Without(tbl, gone) == [i \in RunIds |-> IF i \in gone THEN NoRow(tbl[i].workflow) ELSE tbl[i]]

\* _prune_in_conn at time t.
Prune(tbl, t) ==
    LET young == Without(tbl, {i \in RunIds : Expired(tbl, i, t)})
    IN  Without(young, {i \in RunIds : Excessive(young, i)})

-----------------------------------------------------------------------------
(***************************************************************************)
(* The writes, as functions of the table.                                  *)
(***************************************************************************)

\* create_run
Created(tbl, i, w) ==
    [tbl EXCEPT ![i] = [NoRow(w) EXCEPT !.status = "queued"]]

\* mark_started: UPDATE ... WHERE status = 'queued'
Started(tbl, i) ==
    IF tbl[i].status = "queued" THEN [tbl EXCEPT ![i].status = "running"] ELSE tbl

\* finalize_run: a run that is not active any more is returned as it is.
Finalized(tbl, i, s, t) ==
    IF IsActive(tbl, i)
    THEN Prune([tbl EXCEPT ![i].status = s, ![i].completed = t], t)
    ELSE tbl

\* record_terminal_run: the unique index on the event key turns a repeated
\* event into a read of the first one's row.
Recorded(tbl, i, w, k, s, t) ==
    IF k # NoKey /\ \E j \in RunIds : IsPresent(tbl, j) /\ tbl[j].key = k
    THEN tbl
    ELSE Prune([tbl EXCEPT ![i] = [workflow |-> w, status |-> s,
                                   key |-> k, completed |-> t]], t)

-----------------------------------------------------------------------------

storeVars == <<rows, used, now>>

StoreInit ==
    /\ \E w \in Workflows : rows = [i \in RunIds |-> NoRow(w)]
    /\ used = {}
    /\ now = 0

\* The latest outcome of a workflow disappears from the history only when a
\* newer one of the same workflow is there to answer for it, however old it is
\* and however many rows are pruned around it.
LatestRetained ==
    [][\A i \in RunIds :
          IsLatest(rows, i) =>
             \/ rows'[i] = rows[i]
             \/ \E j \in RunIds : /\ IsTerminal(rows', j)
                                  /\ rows'[j].workflow = rows[i].workflow
                                  /\ rows'[j].completed >= rows[i].completed]_storeVars

=============================================================================
