---------------------------- MODULE IngestionJobs ----------------------------
(***************************************************************************)
(* Imports: the ingestion_jobs table (core/ingestion/jobs.py), the         *)
(* scheduled worker (worker.py), immediate processing (task_execution.py)  *)
(* and the thread that runs IngestionService.process_job (service.py).     *)
(*                                                                         *)
(* Every statement on the table is one SQLite transaction.  The event loop *)
(* runs the worker and the immediate callers, the default executor runs    *)
(* process_job: cancelling a task withdraws a call the executor has not    *)
(* begun and leaves one it has begun running.  Extraction, rendering and   *)
(* the wording of errors are abstracted to their outcome.                  *)
(***************************************************************************)
EXTENDS Naturals, Sequences, FiniteSets

CONSTANTS
    MaxJobs,      \* bound on the jobs ever created; ids are 1..MaxJobs
    Sources,      \* files in the import folder
    Callers,      \* requests that process what they submit at once
    BatchSize,    \* ingestion_worker_batch_size
    ListLimit,    \* rows run_once looks at: list_jobs(limit=100)
    Threads,      \* workers of the default executor
    MaxCrashes,   \* bound on crashes of the process
    Inputs        \* what happens in this instance: cancel, startfail

ASSUME IngestionAssumption ==
    /\ MaxJobs \in Nat
    /\ BatchSize \in Nat \ {0}
    /\ ListLimit \in Nat \ {0}
    /\ Threads \in Nat \ {0}
    /\ MaxCrashes \in Nat

Jobs == 1..MaxJobs

VARIABLES
    created,    \* how many rows exist: AUTOINCREMENT
    status,     \* status[j] of the row
    source,     \* source[j]: the file job j imports
    consume,    \* consume[j]: options["consume_source"]
    manifest,   \* manifest[j]: outputs lists the artifacts
    artifacts,  \* jobs whose files are in the vault
    files,      \* the source files that exist
    batch,      \* what is left of run_once's selected_jobs
    tracked,    \* the jobs whose tasks run_once gathers
    working,    \* run_once is in progress (max_instances=1)
    task,       \* task[j]: the execution task of job j
    thread,     \* thread[j]: where process_job(j) is
    todo,       \* todo[c]: the jobs caller c has still to process
    stage,      \* stage[c]: what caller c awaits
    crashes

table == <<created, status, source, consume, manifest>>
vault == <<artifacts, files>>
worker == <<batch, tracked, working>>
caller == <<todo, stage>>
vars == <<table, vault, worker, task, thread, caller, crashes>>

TerminalStatuses == {"completed", "failed", "cancelled"}

\* queued: handed to the executor.  started: has begun.  read: the source is
\* loaded.  written: the artifacts are in the vault.  committed: the row is.
Alive == {"started", "read", "written", "committed"}
ThreadStages == Alive \cup {"none", "queued", "withdrawn", "ended"}

-----------------------------------------------------------------------------
(***************************************************************************)
(* Submission.                                                             *)
(***************************************************************************)

\* create_jobs: n rows for the file s, in one transaction.
Create(n, s, deleteAfter) ==
    /\ created + n <= MaxJobs
    /\ created' = created + n
    /\ status' = [j \in Jobs |-> IF j \in (created + 1)..(created + n) THEN "queued" ELSE status[j]]
    /\ source' = [j \in Jobs |-> IF j \in (created + 1)..(created + n) THEN s ELSE source[j]]
    /\ consume' = [j \in Jobs |-> IF j \in (created + 1)..(created + n) THEN deleteAfter ELSE consume[j]]
    /\ UNCHANGED manifest

\* The scan of the import folder skips a file that has an active job, and asks
\* for the file to be deleted once it is imported; content_import keeps it.
MayScan(s) ==
    /\ s \in files
    /\ \A j \in 1..created : source[j] = s => status[j] \notin {"queued", "processing"}

\* A batch left to the worker (queue_only) ...
SubmitQueued(n, s, deleteAfter) ==
    /\ deleteAfter => (MayScan(s) /\ n = 1)
    /\ Create(n, s, deleteAfter)
    /\ UNCHANGED <<vault, worker, task, thread, caller, crashes>>

\* ... and one its caller processes job by job.
SubmitNow(c, n, s, deleteAfter) ==
    /\ stage[c] = "idle"
    /\ deleteAfter => (MayScan(s) /\ n = 1)
    /\ Create(n, s, deleteAfter)
    /\ todo' = [todo EXCEPT ![c] = [i \in 1..n |-> created + i]]
    /\ stage' = [stage EXCEPT ![c] = "claim"]
    /\ UNCHANGED <<vault, worker, task, thread, crashes>>

\* cancel_queued_job: UPDATE ... WHERE status = 'queued'
CancelQueuedJob(j) ==
    /\ status[j] = "queued"
    /\ status' = [status EXCEPT ![j] = "cancelled"]
    /\ UNCHANGED <<created, source, consume, manifest, vault, worker, task, thread, caller, crashes>>

-----------------------------------------------------------------------------
(***************************************************************************)
(* The worker.                                                             *)
(***************************************************************************)

\* Mutant: the limit is exclusive.
ListedShort == {j \in 1..created : j + ListLimit > created + 1}

\* list_jobs(limit): the newest rows, whatever their status.
Listed == {j \in 1..created : j + ListLimit > created}

\* The queued ones among them, newest first.
Queued == {j \in Listed : status[j] = "queued"}
NewestFirst(S) ==
    CHOOSE s \in [1..Cardinality(S) -> S] : \A a, b \in DOMAIN s : a < b => s[a] > s[b]
Selected == SubSeq(NewestFirst(Queued), 1,
                   IF Cardinality(Queued) < BatchSize THEN Cardinality(Queued) ELSE BatchSize)

\* run_once: read the table and choose a batch.
RunOnce ==
    /\ ~working
    /\ Queued # {}
    /\ working' = TRUE
    /\ batch' = Selected
    /\ tracked' = {}
    /\ UNCHANGED <<table, vault, task, thread, caller, crashes>>

\* Mutant: the claim does not look at the status.
ClaimedBlindly(j) == TRUE

\* claim_queued_job: UPDATE ... WHERE status = 'queued', and whether it hit.
Claimed(j) == status[j] = "queued"

\* The next job of the batch: claimed and started in the background, failed if
\* its task cannot be started, or passed over.
WorkerStarts ==
    LET j == Head(batch)
    IN  /\ working
        /\ batch # <<>>
        /\ batch' = Tail(batch)
        /\ IF Claimed(j)
           THEN \/ /\ status' = [status EXCEPT ![j] = "processing"]
                   /\ task' = [task EXCEPT ![j] = "active"]
                   /\ tracked' = tracked \cup {j}
                \/ /\ "startfail" \in Inputs
                   /\ status' = [status EXCEPT ![j] = "failed"]
                   /\ UNCHANGED <<task, tracked>>
           ELSE UNCHANGED <<status, task, tracked>>
        /\ UNCHANGED <<created, source, consume, manifest, vault, working, thread, caller, crashes>>

\* gather(_wait_for_task_terminal ...) returns.
RunOnceEnds ==
    /\ working
    /\ batch = <<>>
    /\ \A j \in tracked : task[j] # "active"
    /\ working' = FALSE
    /\ tracked' = {}
    /\ UNCHANGED <<table, vault, batch, task, thread, caller, crashes>>

-----------------------------------------------------------------------------
(***************************************************************************)
(* process_ingestion_job_now.                                              *)
(***************************************************************************)

Advance(c) ==
    /\ todo' = [todo EXCEPT ![c] = Tail(@)]
    /\ stage' = [stage EXCEPT ![c] = IF Len(todo[c]) > 1 THEN "claim" ELSE "idle"]

\* The caller claims its next job and awaits the thread; it waits for a job
\* somebody else has claimed, and takes a job that is over as it is.
ProcessNow(c) ==
    LET j == Head(todo[c])
    IN  /\ stage[c] = "claim"
        /\ IF Claimed(j)
           THEN \/ /\ status' = [status EXCEPT ![j] = "processing"]
                   /\ task' = [task EXCEPT ![j] = "active"]
                   /\ stage' = [stage EXCEPT ![c] = "own"]
                   /\ UNCHANGED todo
                \/ /\ "startfail" \in Inputs
                   /\ status' = [status EXCEPT ![j] = "failed"]
                   /\ UNCHANGED task
                   /\ Advance(c)
           ELSE /\ UNCHANGED <<status, task>>
                /\ IF status[j] = "processing"
                   THEN stage' = [stage EXCEPT ![c] = "wait"] /\ UNCHANGED todo
                   ELSE Advance(c)
        /\ UNCHANGED <<created, source, consume, manifest, vault, worker, thread, crashes>>

\* The thread the caller awaits is over, or _wait_for_terminal_job sees a
\* terminal row.
NowDone(c) ==
    LET j == Head(todo[c])
    IN  /\ \/ stage[c] = "own" /\ task[j] # "active"
           \/ stage[c] = "wait" /\ status[j] \in TerminalStatuses
        /\ Advance(c)
        /\ UNCHANGED <<table, vault, worker, task, thread, crashes>>

-----------------------------------------------------------------------------
(***************************************************************************)
(* Tasks and threads.                                                      *)
(***************************************************************************)

\* The task's coroutine calls asyncio.to_thread.
Dispatch(j) ==
    /\ task[j] = "active"
    /\ thread[j] = "none"
    /\ thread' = [thread EXCEPT ![j] = "queued"]
    /\ UNCHANGED <<table, vault, worker, task, caller, crashes>>

\* The executor has a free worker; process_job refuses a job nobody claimed.
ThreadStarts(j) ==
    /\ thread[j] = "queued"
    /\ Cardinality({k \in Jobs : thread[k] \in Alive}) < Threads
    /\ thread' = [thread EXCEPT ![j] = IF status[j] = "processing" THEN "started" ELSE "ended"]
    /\ task' = [task EXCEPT ![j] = IF status[j] = "processing" THEN @ ELSE "ended"]
    /\ UNCHANGED <<table, vault, worker, caller, crashes>>

\* The task of a thread that returns or raises ends, if it was not cancelled.
ThreadEnds(j) ==
    /\ thread' = [thread EXCEPT ![j] = "ended"]
    /\ task' = [task EXCEPT ![j] = "ended"]

\* mark_failed: no importer, no extractor, or an exception before anything is
\* written, such as a source that is gone.
ProcessFails(j) ==
    /\ thread[j] \in {"started", "read"}
    /\ status' = [status EXCEPT ![j] = "failed"]
    /\ ThreadEnds(j)
    /\ UNCHANGED <<created, source, consume, manifest, vault, worker, caller, crashes>>

\* The importer reads the source.
ProcessReads(j) ==
    /\ thread[j] = "started"
    /\ source[j] \in files
    /\ thread' = [thread EXCEPT ![j] = "read"]
    /\ UNCHANGED <<table, vault, worker, task, caller, crashes>>

\* store_rendered_artifacts
ProcessWrites(j) ==
    /\ thread[j] = "read"
    /\ thread' = [thread EXCEPT ![j] = "written"]
    /\ artifacts' = artifacts \cup {j}
    /\ UNCHANGED <<table, files, worker, task, caller, crashes>>

\* complete_job: manifest and status in one transaction.
ProcessCommits(j) ==
    /\ thread[j] = "written"
    /\ status' = [status EXCEPT ![j] = "completed"]
    /\ manifest' = [manifest EXCEPT ![j] = TRUE]
    /\ thread' = [thread EXCEPT ![j] = "committed"]
    /\ UNCHANGED <<created, source, consume, vault, worker, task, caller, crashes>>

\* Mutant: the artifacts of a failed commit stay.
CommitFailsAndKeeps(j) ==
    /\ thread[j] = "written"
    /\ status' = [status EXCEPT ![j] = "failed"]
    /\ ThreadEnds(j)
    /\ UNCHANGED <<created, source, consume, manifest, vault, worker, caller, crashes>>

\* complete_job raises: the artifacts are removed again and the job is failed.
CommitFails(j) ==
    /\ thread[j] = "written"
    /\ artifacts' = artifacts \ {j}
    /\ manifest' = [manifest EXCEPT ![j] = FALSE]
    /\ status' = [status EXCEPT ![j] = "failed"]
    /\ ThreadEnds(j)
    /\ UNCHANGED <<created, source, consume, files, worker, caller, crashes>>

\* Mutant: the source is deleted as soon as the artifacts are written.
CleanupBeforeCommit(j) ==
    /\ thread[j] \in {"written", "committed"}
    /\ files' = IF consume[j] THEN files \ {source[j]} ELSE files
    /\ IF thread[j] = "written" THEN UNCHANGED <<task, thread>> ELSE ThreadEnds(j)
    /\ UNCHANGED <<table, artifacts, worker, caller, crashes>>

\* _cleanup_completed_source: the source is deleted if the job asks for it and
\* the deletion succeeds; a failure is logged and nothing else.
Cleanup(j) ==
    /\ thread[j] = "committed"
    /\ IF consume[j] /\ source[j] \in files
       THEN files' \in {files, files \ {source[j]}}
       ELSE UNCHANGED files
    /\ ThreadEnds(j)
    /\ UNCHANGED <<table, artifacts, worker, caller, crashes>>

\* Caller c awaits the thread of job j inside the task it tracks.
Owns(c, j) == stage[c] = "own" /\ Head(todo[c]) = j

\* The task of j is cancelled (job tool, shutdown, or the caller that owns
\* it, whose request then ends): the executor forgets a call it has not begun;
\* one it has begun goes on without its task.  Nobody touches the row.
CancelTask(j) ==
    /\ "cancel" \in Inputs
    /\ task[j] = "active"
    /\ task' = [task EXCEPT ![j] = "ended"]
    /\ thread' = [thread EXCEPT ![j] = IF @ \in {"none", "queued"} THEN "withdrawn" ELSE @]
    /\ todo' = [c \in Callers |-> IF Owns(c, j) THEN <<>> ELSE todo[c]]
    /\ stage' = [c \in Callers |-> IF Owns(c, j) THEN "idle" ELSE stage[c]]
    /\ UNCHANGED <<table, vault, worker, crashes>>

\* Mutant: bootstrap does not look at the table.
RestartForgetful ==
    /\ crashes < MaxCrashes
    /\ crashes' = crashes + 1
    /\ UNCHANGED status
    /\ batch' = <<>>
    /\ tracked' = {}
    /\ working' = FALSE
    /\ task' = [j \in Jobs |-> IF task[j] = "active" THEN "ended" ELSE task[j]]
    /\ thread' = [j \in Jobs |-> IF thread[j] = "none" THEN "none" ELSE "ended"]
    /\ todo' = [c \in Callers |-> <<>>]
    /\ stage' = [c \in Callers |-> "idle"]
    /\ UNCHANGED <<created, source, consume, manifest, vault>>

\* The process dies and starts again: bootstrap fails what was processing.
Restart ==
    /\ crashes < MaxCrashes
    /\ crashes' = crashes + 1
    /\ status' = [j \in Jobs |-> IF status[j] = "processing" THEN "failed" ELSE status[j]]
    /\ batch' = <<>>
    /\ tracked' = {}
    /\ working' = FALSE
    /\ task' = [j \in Jobs |-> IF task[j] = "active" THEN "ended" ELSE task[j]]
    /\ thread' = [j \in Jobs |-> IF thread[j] = "none" THEN "none" ELSE "ended"]
    /\ todo' = [c \in Callers |-> <<>>]
    /\ stage' = [c \in Callers |-> "idle"]
    /\ UNCHANGED <<created, source, consume, manifest, vault>>

-----------------------------------------------------------------------------
Init ==
    /\ created = 0
    /\ status = [j \in Jobs |-> "absent"]
    /\ source = [j \in Jobs |-> CHOOSE s \in Sources : TRUE]
    /\ consume = [j \in Jobs |-> FALSE]
    /\ manifest = [j \in Jobs |-> FALSE]
    /\ artifacts = {}
    /\ files = Sources
    /\ batch = <<>>
    /\ tracked = {}
    /\ working = FALSE
    /\ task = [j \in Jobs |-> "none"]
    /\ thread = [j \in Jobs |-> "none"]
    /\ todo = [c \in Callers |-> <<>>]
    /\ stage = [c \in Callers |-> "idle"]
    /\ crashes = 0

ProcessStep(j) ==
    \/ ProcessReads(j)
    \/ ProcessFails(j)
    \/ ProcessWrites(j)
    \/ ProcessCommits(j)
    \/ CommitFails(j)
    \/ Cleanup(j)

Next ==
    \/ \E n \in 1..MaxJobs, s \in Sources, d \in BOOLEAN :
         \/ SubmitQueued(n, s, d)
         \/ \E c \in Callers : SubmitNow(c, n, s, d)
    \/ RunOnce
    \/ WorkerStarts
    \/ RunOnceEnds
    \/ \E c \in Callers : ProcessNow(c) \/ NowDone(c)
    \/ \E j \in Jobs :
         \/ CancelQueuedJob(j)
         \/ Dispatch(j)
         \/ ThreadStarts(j)
         \/ ProcessStep(j)
         \/ CancelTask(j)
    \/ Restart

Spec == Init /\ [][Next]_vars

\* The scheduler ticks, the event loop runs what is ready and the executor
\* begins what it can; how long process_job takes is nobody's promise.
FairSpec ==
    /\ Spec
    /\ WF_vars(RunOnce)
    /\ WF_vars(WorkerStarts)
    /\ WF_vars(RunOnceEnds)
    /\ \A c \in Callers : WF_vars(ProcessNow(c)) /\ WF_vars(NowDone(c))
    /\ \A j \in Jobs : WF_vars(Dispatch(j)) /\ WF_vars(ThreadStarts(j))

-----------------------------------------------------------------------------
(***************************************************************************)
(* Properties.                                                             *)
(***************************************************************************)

\* The rows, the threads and the vault have their types.  (What the worker's
\* batch and the callers' lists hold decides which row is tried next, never
\* what a row may become.)
TypeOK ==
    /\ created \in Nat
    /\ crashes \in Nat
    /\ status \in [Jobs -> TerminalStatuses \cup {"absent", "queued", "processing"}]
    /\ consume \in [Jobs -> BOOLEAN]
    /\ manifest \in [Jobs -> BOOLEAN]
    /\ thread \in [Jobs -> ThreadStages]
    /\ artifacts \in SUBSET Jobs

\* A job's outcome is final: a cancelled job is never imported after all, an
\* imported one is never failed, and none is queued twice, although the worker,
\* an immediate caller, a user's cancellation and a late thread write the same
\* row and all but two of the writes are unconditional.
OutcomeFinal ==
    [][\A j \in Jobs :
          /\ status[j] \in TerminalStatuses => status'[j] = status[j]
          /\ status[j] = "processing" => status'[j] \in {"processing", "completed", "failed"}]_vars

\* A source file is deleted only once an import of it is complete and durable:
\* its outputs are in the vault and in the manifest of a completed job, whatever
\* fails, is cancelled or crashes on the way.
SourceSafe ==
    \A s \in Sources \ files :
        \E j \in 1..created : /\ source[j] = s
                             /\ consume[j]
                             /\ status[j] = "completed"
                             /\ manifest[j]
                             /\ j \in artifacts

\* The vault and the table agree: a job lists outputs exactly when it is
\* completed, they are there, and a job that failed in this or an orderly past
\* process has left none (a crash between writing and committing may).
OutputsAccounted ==
    \A j \in Jobs :
        /\ manifest[j] <=> status[j] = "completed"
        /\ manifest[j] => j \in artifacts
        /\ (j \in artifacts /\ crashes = 0) => (manifest[j] \/ thread[j] = "written")

\* No call of process_job lasts forever.
ThreadsEnd == \A j \in Jobs : []<>(thread[j] \notin Alive)

\* A job that was claimed reaches its outcome, also over a restart, unless its
\* task is cancelled before its thread begins.
ImportsEnd ==
    ThreadsEnd => \A j \in Jobs :
        (status[j] = "processing") ~> (status[j] \in TerminalStatuses \/ thread[j] = "withdrawn")

\* docs/tools/content_import.md on queue_only: "let the background worker process
\* them".  A queued job is processed or cancelled.
QueuedServed ==
    ThreadsEnd => \A j \in Jobs : (status[j] = "queued") ~> (status[j] # "queued")

=============================================================================
