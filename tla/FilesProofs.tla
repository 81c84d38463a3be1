---------------------------- MODULE FilesProofs ----------------------------
(***************************************************************************)
(* Theorems about the files of a vault: IngestionJobs, for any number of   *)
(* jobs, sources, callers, threads and crashes and any batch size and list *)
(* limit, and VaultMutations, for any files, contents, tasks, requests,    *)
(* threads, operations, edits by other programs and failures.              *)
(***************************************************************************)
EXTENDS IngestionJobs, VaultMutations, FiniteSetTheorems, TLAPS

-----------------------------------------------------------------------------
(* Imports.                                                                *)
(*                                                                         *)
(* SourceSafe and OutputsAccounted are about the table and the vault; what *)
(* makes them inductive is Progress, which ties the stage of process_job   *)
(* to the row it works on: only a thread that has not committed may still  *)
(* fail its job, and its row is still processing then.                     *)

\* The row of a job whose process_job runs.
Progress ==
    \A j \in Jobs :
        /\ thread[j] \in {"started", "read", "written"} => status[j] = "processing"
        /\ thread[j] = "written" => j \in artifacts
        /\ thread[j] = "committed" => status[j] = "completed"

\* A row that does not exist yet has no status.
Unborn == \A j \in Jobs : j > created => status[j] = "absent"

IInv == TypeOK /\ Progress /\ Unborn /\ OutputsAccounted /\ SourceSafe

\* Every row keeps its outcome in this step.
Final ==
    \A j \in Jobs :
        /\ status[j] \in TerminalStatuses => status'[j] = status[j]
        /\ status[j] = "processing" => status'[j] \in {"processing", "completed", "failed"}

\* The invariant holds when the table is empty.
LEMMA InitIInv == Init => IInv
  <1> SUFFICES ASSUME Init PROVE IInv
    OBVIOUS
  <1>2. TypeOK
    BY DEF Init, TypeOK, ThreadStages
  <1>3. Progress /\ Unborn /\ OutputsAccounted /\ SourceSafe
    BY DEF Init, Progress, Unborn, OutputsAccounted, SourceSafe
  <1> QED
    BY <1>2, <1>3 DEF IInv

\* A submission adds queued rows behind the last one and touches no other.
LEMMA CreateStep ==
    ASSUME IInv, NEW n \in Nat, NEW s \in Sources, NEW d \in BOOLEAN,
           Create(n, s, d), UNCHANGED <<vault, thread, crashes>>
    PROVE  IInv' /\ Final
  <1> USE DEF vault
  <1>1. \A j \in Jobs : j \notin (created + 1)..(created + n) =>
            /\ status'[j] = status[j]
            /\ source'[j] = source[j]
            /\ consume'[j] = consume[j]
    BY DEF Create, Jobs
  <1>2. \A j \in Jobs : j \in (created + 1)..(created + n) =>
            /\ status[j] = "absent"
            /\ status'[j] = "queued"
    BY DEF Create, IInv, Unborn, TypeOK, Jobs
  <1>3. TypeOK'
    BY DEF Create, IInv, TypeOK, Jobs
  <1>4. Progress' /\ OutputsAccounted'
    BY <1>1, <1>2 DEF IInv, Progress, OutputsAccounted, Create
  <1>5. Unborn'
    BY <1>1 DEF IInv, Unborn, TypeOK, Create, Jobs
  <1>6. SourceSafe'
    <2> SUFFICES ASSUME NEW x \in Sources \ files'
                 PROVE  (\E j \in 1..created : /\ source[j] = x
                                               /\ consume[j]
                                               /\ status[j] = "completed"
                                               /\ manifest[j]
                                               /\ j \in artifacts)'
      BY DEF SourceSafe
    <2>1. PICK j \in 1..created : /\ source[j] = x
                                  /\ consume[j]
                                  /\ status[j] = "completed"
                                  /\ manifest[j]
                                  /\ j \in artifacts
      BY DEF IInv, SourceSafe
    <2>2. j \in Jobs /\ j \notin (created + 1)..(created + n) /\ j \in 1..created'
      BY <2>1 DEF IInv, TypeOK, Create, Jobs
    <2> QED
      BY <1>1, <2>1, <2>2 DEF Create
  <1>7. Final
    BY <1>1, <1>2 DEF Final, TerminalStatuses
  <1> QED
    BY <1>3, <1>4, <1>5, <1>6, <1>7 DEF IInv

\* While no source is deleted and the jobs keep their sources, SourceSafe rests
\* on rows that keep their outcome and outputs that stay accounted for.
LEMMA KeepSources ==
    ASSUME IInv, Final, TypeOK', OutputsAccounted',
           UNCHANGED <<created, source, consume, files>>
    PROVE  SourceSafe'
  <1> SUFFICES ASSUME NEW x \in Sources \ files
               PROVE  \E j \in 1..created : /\ source[j] = x
                                             /\ consume[j]
                                             /\ status'[j] = "completed"
                                             /\ manifest'[j]
                                             /\ j \in artifacts'
    BY DEF SourceSafe
  <1>1. PICK j \in 1..created : /\ source[j] = x
                                /\ consume[j]
                                /\ status[j] = "completed"
                                /\ manifest[j]
                                /\ j \in artifacts
    BY DEF IInv, SourceSafe
  <1>2. j \in Jobs
    BY <1>1 DEF IInv, TypeOK
  <1>3. status'[j] = "completed"
    BY <1>1, <1>2 DEF Final, TerminalStatuses
  <1>4. manifest'[j] /\ j \in artifacts'
    BY <1>2, <1>3 DEF OutputsAccounted
  <1> QED
    BY <1>1, <1>3, <1>4

\* A step that changes the status of one job from queued, or of none, as the
\* claims, the failed starts and the cancellations do.
LEMMA QueuedRowStep ==
    ASSUME IInv, NEW k, NEW v \in TerminalStatuses \cup {"processing"}, v # "completed",
           status[k] = "queued" \/ v = status[k],
           status' = [status EXCEPT ![k] = v],
           UNCHANGED <<created, source, consume, manifest, vault, thread, crashes>>
    PROVE  IInv' /\ Final
  <1> USE DEF vault
  <1>1. TypeOK'
    BY DEF IInv, TypeOK
  <1>2. \A j \in Jobs : status'[j] = status[j] \/ (status[j] = "queued" /\ status'[j] = v)
    BY DEF IInv, TypeOK
  <1>3. Progress'
    BY <1>2 DEF IInv, Progress
  <1>4. Unborn'
    BY <1>2 DEF IInv, Unborn
  <1>5. OutputsAccounted'
    BY <1>2 DEF IInv, OutputsAccounted
  <1>6. Final
    BY <1>2 DEF Final, TerminalStatuses
  <1>7. SourceSafe'
    BY <1>1, <1>5, <1>6, KeepSources
  <1> QED
    BY <1>1, <1>3, <1>4, <1>5, <1>6, <1>7 DEF IInv

\* A step that leaves the table, the vault and the threads alone.
LEMMA IdleStep ==
    ASSUME IInv, UNCHANGED <<table, vault, thread, crashes>>
    PROVE  IInv' /\ Final
  <1> USE DEF table, vault
  <1>1. TypeOK' /\ Progress' /\ Unborn'
    BY DEF IInv, TypeOK, Progress, Unborn
  <1>2. OutputsAccounted' /\ SourceSafe' /\ Final
    BY DEF IInv, OutputsAccounted, SourceSafe, Final
  <1> QED
    BY <1>1, <1>2 DEF IInv

\* A thread that moves on before it writes, and a task that is cancelled: the
\* table and the vault stay, and a thread begins only on a claimed job.
LEMMA ThreadStep ==
    ASSUME IInv, NEW k \in Jobs, NEW v \in ThreadStages,
           v \notin {"written", "committed"},
           v \in {"started", "read"} => status[k] = "processing",
           thread' = [thread EXCEPT ![k] = v],
           thread[k] # "written" \/ v = thread[k],
           UNCHANGED <<table, vault, crashes>>
    PROVE  IInv' /\ Final
  <1> USE DEF table, vault
  <1>1. TypeOK' /\ Unborn' /\ SourceSafe' /\ Final
    BY DEF IInv, TypeOK, Unborn, SourceSafe, Final
  <1>2. \A j \in Jobs : j # k => thread'[j] = thread[j]
    BY DEF IInv, TypeOK
  <1>3. thread'[k] = v
    BY DEF IInv, TypeOK
  <1>4. Progress'
    BY <1>2, <1>3 DEF IInv, Progress
  <1>5. OutputsAccounted'
    BY <1>2, <1>3 DEF IInv, OutputsAccounted
  <1> QED
    BY <1>1, <1>4, <1>5 DEF IInv

\* process_job fails before it writes.
LEMMA FailStep == ASSUME IInv, NEW k \in Jobs, ProcessFails(k) PROVE IInv' /\ Final
  <1> USE DEF ProcessFails, ThreadEnds, vault
  <1>1. TypeOK'
    BY DEF IInv, TypeOK, TerminalStatuses, ThreadStages
  <1>2. /\ status[k] = "processing"
        /\ status'[k] = "failed"
        /\ thread'[k] = "ended"
        /\ \A j \in Jobs : j # k => status'[j] = status[j] /\ thread'[j] = thread[j]
    BY DEF IInv, TypeOK, Progress
  <1>3. Progress' /\ Unborn' /\ OutputsAccounted'
    BY <1>2 DEF IInv, Progress, Unborn, OutputsAccounted
  <1>4. Final
    BY <1>2 DEF Final, TerminalStatuses
  <1> QED
    BY <1>1, <1>3, <1>4, KeepSources DEF IInv

\* The artifacts appear in the vault.
LEMMA WriteStep == ASSUME IInv, NEW k \in Jobs, ProcessWrites(k) PROVE IInv' /\ Final
  <1> USE DEF ProcessWrites, table
  <1>1. TypeOK' /\ Unborn' /\ Final
    BY DEF IInv, TypeOK, Unborn, Final, ThreadStages, Alive
  <1>2. /\ status[k] = "processing"
        /\ thread'[k] = "written"
        /\ \A j \in Jobs : j # k => thread'[j] = thread[j] /\ (j \in artifacts' <=> j \in artifacts)
    BY DEF IInv, TypeOK, Progress
  <1>3. Progress' /\ OutputsAccounted'
    BY <1>2 DEF IInv, Progress, OutputsAccounted
  <1> QED
    BY <1>1, <1>3, KeepSources DEF IInv

\* complete_job commits the manifest with the status.
LEMMA CommitStep == ASSUME IInv, NEW k \in Jobs, ProcessCommits(k) PROVE IInv' /\ Final
  <1> USE DEF ProcessCommits, vault
  <1>1. TypeOK'
    BY DEF IInv, TypeOK, TerminalStatuses, ThreadStages, Alive
  <1>2. /\ status[k] = "processing"
        /\ k \in artifacts
        /\ status'[k] = "completed"
        /\ manifest'[k] = TRUE
        /\ thread'[k] = "committed"
        /\ \A j \in Jobs : j # k => /\ status'[j] = status[j]
                                    /\ thread'[j] = thread[j]
                                    /\ manifest'[j] = manifest[j]
    BY DEF IInv, TypeOK, Progress
  <1>3. Progress' /\ Unborn' /\ OutputsAccounted'
    BY <1>2 DEF IInv, Progress, Unborn, OutputsAccounted
  <1>4. Final
    BY <1>2 DEF Final, TerminalStatuses
  <1> QED
    BY <1>1, <1>3, <1>4, KeepSources DEF IInv

\* complete_job raises, and the artifacts are removed.
LEMMA CommitFailsStep == ASSUME IInv, NEW k \in Jobs, CommitFails(k) PROVE IInv' /\ Final
  <1> USE DEF CommitFails, ThreadEnds
  <1>1. TypeOK'
    BY DEF IInv, TypeOK, TerminalStatuses, ThreadStages
  <1>2. /\ status[k] = "processing"
        /\ k \notin artifacts'
        /\ status'[k] = "failed"
        /\ manifest'[k] = FALSE
        /\ thread'[k] = "ended"
        /\ \A j \in Jobs : j # k => /\ status'[j] = status[j]
                                    /\ thread'[j] = thread[j]
                                    /\ manifest'[j] = manifest[j]
                                    /\ (j \in artifacts' <=> j \in artifacts)
    BY DEF IInv, TypeOK, Progress
  <1>3. Progress' /\ Unborn' /\ OutputsAccounted'
    BY <1>2 DEF IInv, Progress, Unborn, OutputsAccounted
  <1>4. Final
    BY <1>2 DEF Final, TerminalStatuses
  <1> QED
    BY <1>1, <1>3, <1>4, KeepSources DEF IInv

\* The one step that deletes a source: its job has committed.
LEMMA CleanupStep == ASSUME IInv, NEW k \in Jobs, Cleanup(k) PROVE IInv' /\ Final
  <1> USE DEF Cleanup, ThreadEnds, table
  <1>1. TypeOK' /\ Unborn' /\ Final
    BY DEF IInv, TypeOK, Unborn, Final, ThreadStages
  <1>2. /\ status[k] = "completed"
        /\ thread'[k] = "ended"
        /\ \A j \in Jobs : j # k => thread'[j] = thread[j]
    BY DEF IInv, TypeOK, Progress
  <1>3. Progress' /\ OutputsAccounted'
    BY <1>2 DEF IInv, Progress, OutputsAccounted
  <1>4. k \in 1..created /\ manifest[k] /\ k \in artifacts
    BY <1>2 DEF IInv, Unborn, TypeOK, OutputsAccounted, Jobs
  <1>5. SourceSafe'
    <2>1. files' = files \/ (consume[k] /\ files' = files \ {source[k]})
      OBVIOUS
    <2> QED
      BY <1>2, <1>4, <2>1 DEF IInv, SourceSafe
  <1> QED
    BY <1>1, <1>3, <1>5 DEF IInv

\* A crash ends the threads, and bootstrap fails their rows.
LEMMA RestartStep == ASSUME IInv, Restart PROVE IInv' /\ Final
  <1> USE DEF Restart, vault
  <1>1. TypeOK'
    BY DEF IInv, TypeOK, TerminalStatuses, ThreadStages
  <1>2. \A j \in Jobs : /\ status'[j] = IF status[j] = "processing" THEN "failed" ELSE status[j]
                       /\ thread'[j] \in {"none", "ended"}
    OBVIOUS
  <1>3. crashes' # 0
    BY DEF IInv, TypeOK
  <1>4. Progress' /\ Unborn' /\ OutputsAccounted'
    BY <1>2, <1>3 DEF IInv, Progress, Unborn, OutputsAccounted
  <1>5. Final
    BY <1>2 DEF Final, TerminalStatuses
  <1> QED
    BY <1>1, <1>4, <1>5, KeepSources DEF IInv

\* Every step keeps the invariant and every row its outcome.
LEMMA NextIInv == ASSUME IInv, [Next]_vars PROVE IInv' /\ Final
  <1>1. CASE UNCHANGED vars
    BY <1>1, IdleStep DEF vars
  <1>2. ASSUME NEW n \in 1..MaxJobs, NEW s \in Sources, NEW d \in BOOLEAN,
               SubmitQueued(n, s, d) \/ \E c \in Callers : SubmitNow(c, n, s, d)
        PROVE  IInv' /\ Final
    <2>1. Create(n, s, d) /\ UNCHANGED <<vault, thread, crashes>> /\ n \in Nat
      BY <1>2 DEF SubmitQueued, SubmitNow
    <2> QED
      BY <2>1, CreateStep
  <1>3. CASE RunOnce \/ RunOnceEnds
    BY <1>3, IdleStep DEF RunOnce, RunOnceEnds
  <1>4. CASE WorkerStarts
    <2> DEFINE k == Head(batch)
    <2>1. CASE Claimed(k) /\ status' = [status EXCEPT ![k] = "processing"]
      BY <1>4, <2>1, QueuedRowStep DEF WorkerStarts, Claimed, TerminalStatuses
    <2>2. CASE Claimed(k) /\ status' = [status EXCEPT ![k] = "failed"]
      BY <1>4, <2>2, QueuedRowStep DEF WorkerStarts, Claimed, TerminalStatuses
    <2>3. CASE UNCHANGED status
      BY <1>4, <2>3, IdleStep DEF WorkerStarts, table
    <2> QED
      BY <1>4, <2>1, <2>2, <2>3 DEF WorkerStarts
  <1>5. ASSUME NEW c \in Callers, ProcessNow(c) PROVE IInv' /\ Final
    <2> DEFINE k == Head(todo[c])
    <2>1. CASE Claimed(k) /\ status' = [status EXCEPT ![k] = "processing"]
      BY <1>5, <2>1, QueuedRowStep DEF ProcessNow, Claimed, TerminalStatuses
    <2>2. CASE Claimed(k) /\ status' = [status EXCEPT ![k] = "failed"]
      BY <1>5, <2>2, QueuedRowStep DEF ProcessNow, Claimed, TerminalStatuses
    <2>3. CASE UNCHANGED status
      BY <1>5, <2>3, IdleStep DEF ProcessNow, table
    <2> QED
      BY <1>5, <2>1, <2>2, <2>3 DEF ProcessNow
  <1>6. ASSUME NEW c \in Callers, NowDone(c) PROVE IInv' /\ Final
    BY <1>6, IdleStep DEF NowDone
  <1>7. ASSUME NEW j \in Jobs, CancelQueuedJob(j) PROVE IInv' /\ Final
    BY <1>7, QueuedRowStep DEF CancelQueuedJob, TerminalStatuses
  <1>8. ASSUME NEW j \in Jobs, Dispatch(j) PROVE IInv' /\ Final
    BY <1>8, ThreadStep DEF Dispatch, ThreadStages
  <1>9. ASSUME NEW j \in Jobs, ThreadStarts(j) PROVE IInv' /\ Final
    <2> DEFINE v == IF status[j] = "processing" THEN "started" ELSE "ended"
    <2>1. v \in ThreadStages /\ v \notin {"written", "committed"}
      BY DEF ThreadStages, Alive
    <2>2. v \in {"started", "read"} => status[j] = "processing"
      OBVIOUS
    <2>3. thread' = [thread EXCEPT ![j] = v] /\ thread[j] # "written"
      BY <1>9 DEF ThreadStarts
    <2>4. UNCHANGED <<table, vault, crashes>>
      BY <1>9 DEF ThreadStarts
    <2> HIDE DEF v
    <2> QED
      BY <2>1, <2>2, <2>3, <2>4, ThreadStep
  <1>10. ASSUME NEW j \in Jobs, ProcessReads(j) PROVE IInv' /\ Final
    BY <1>10, ThreadStep DEF ProcessReads, ThreadStages, Alive, IInv, Progress
  <1>11. ASSUME NEW j \in Jobs, ProcessStep(j) PROVE IInv' /\ Final
    BY <1>10, <1>11, FailStep, WriteStep, CommitStep, CommitFailsStep, CleanupStep
       DEF ProcessStep
  <1>12. ASSUME NEW j \in Jobs, CancelTask(j) PROVE IInv' /\ Final
    <2>1. CASE thread[j] \in {"none", "queued"}
      <3>1. thread' = [thread EXCEPT ![j] = "withdrawn"] /\ UNCHANGED <<table, vault, crashes>>
        BY <1>12, <2>1 DEF CancelTask
      <3> QED
        BY <2>1, <3>1, ThreadStep DEF ThreadStages
    <2>2. CASE thread[j] \notin {"none", "queued"}
      <3>1. thread' = thread /\ UNCHANGED <<table, vault, crashes>>
        BY <1>12, <2>2 DEF CancelTask, IInv, TypeOK
      <3> QED
        BY <3>1, IdleStep
    <2> QED
      BY <2>1, <2>2
  <1>13. CASE Restart
    BY <1>13, RestartStep
  <1> QED
    BY <1>1, <1>2, <1>3, <1>4, <1>5, <1>6, <1>7, <1>8, <1>9, <1>11, <1>12, <1>13 DEF Next

\* IInv holds in every reachable state.
LEMMA Inductive == Spec => []IInv
  <1>1. IInv /\ [Next]_vars => IInv'
    BY NextIInv
  <1> QED
    BY <1>1, InitIInv, PTL DEF Spec

\* Every row, thread and artifact of the table keeps its type.
THEOREM TypeCorrect == Spec => []TypeOK
  <1>1. IInv => TypeOK
    BY DEF IInv
  <1> QED
    BY <1>1, Inductive, PTL

\* No source file is lost: it is deleted only after an import of it is complete
\* and its outputs are in the vault and in the manifest, whatever fails, is
\* cancelled or crashes (_cleanup_completed_source after complete_job).
THEOREM SourceNeverLost == Spec => []SourceSafe
  <1>1. IInv => SourceSafe
    BY DEF IInv
  <1> QED
    BY <1>1, Inductive, PTL

\* The manifest, the status and the files in the vault agree, and a failed
\* import leaves no files behind unless the process crashed
\* (_finalize_written_outputs).
THEOREM OutputsMatchTable == Spec => []OutputsAccounted
  <1>1. IInv => OutputsAccounted
    BY DEF IInv
  <1> QED
    BY <1>1, Inductive, PTL

\* A job's outcome is final although complete_job and update_job_status write
\* unconditionally: the claim is the only way to a thread, and a thread fails
\* its job only before it has committed.
THEOREM OutcomesAreFinal == Spec => OutcomeFinal
  <1>1. IInv /\ [Next]_vars => [Final]_vars
    BY NextIInv
  <1>2. [Final]_vars => [\A j \in Jobs :
          /\ status[j] \in TerminalStatuses => status'[j] = status[j]
          /\ status[j] = "processing" => status'[j] \in {"processing", "completed", "failed"}]_vars
    BY DEF Final
  <1> QED
    BY <1>1, <1>2, Inductive, PTL DEF Spec, OutcomeFinal

-----------------------------------------------------------------------------
(* The vault: what holds at every step.                                    *)

Fields == {"kind", "pc", "act", "src", "goal", "seen", "before", "held",
           "mode", "fold", "made", "back"}
Marks == {Absent, "here"}
RowT == [path : Files, before : State, after : State]
          \cup [path : {Folder}, before : Marks, after : Marks]
ActT == [status : {"none", "running", "ending", "completed", "failed", "rolled_back"},
         undone : BOOLEAN]

\* The states of some files.
Part(g) == DOMAIN g \subseteq Files /\ \A f \in DOMAIN g : g[f] \in State

OpTyped(o) ==
  /\ DOMAIN o = Fields
  /\ Part(o.goal) /\ Part(o.seen) /\ Part(o.before)
  /\ o.held \subseteq Files
  /\ o.mode \in {"none", "read", "write"}

\* The operations are a function of the threads.
OneOpEach == op = [t \in VaultThreads |-> op[t]]

VaultTyped ==
  /\ disk \in [Files -> State] /\ folder \in BOOLEAN
  /\ rows \in [Acts -> Seq(RowT)]
  /\ snap \in [Acts -> [Files -> State \cup {None}]]
  /\ origin \in [Acts -> [Files -> State \cup {None}]]
  /\ act \in [Acts -> ActT]
  /\ author \in [Files -> Acts \cup {None, External}]
  /\ unsure \subseteq Acts \X (Files \cup {Folder})
  /\ OneOpEach
  /\ \A t \in VaultThreads : OpTyped(op[t])

\* What a thread is about: o is its operation, ac the activities, rs their rows
\* and au the authors of the files.
Writing(o, ac) ==
  /\ o.pc \in {"enter", "lock", "prepare", "write", "record"}
  /\ ac[o.act].status = "running"
  /\ \E g : DOMAIN o.goal = {o.src, g}
  /\ o.pc \in {"write", "record"} => DOMAIN o.before = DOMAIN o.goal
ToolCall(o, ac) == o.kind \in {"mutate", "move"} /\ o.act \in Tasks /\ Writing(o, ac)
EditorCall(o, ac) == o.kind \in {"save", "restore"} /\ o.act \in Requests /\ Writing(o, ac)
TaskUndo(o, ac, rs) ==
  /\ o.kind = "taskundo" /\ o.act \in Tasks /\ o.src = o.act /\ ~o.back
  /\ ac[o.act].status = "ending"
  /\ o.pc \in {"enter", "lock", "capture", "apply", "verify", "compensate", "failed", "unsure"}
  /\ DOMAIN o.goal = Paths(rs[o.act]) /\ DOMAIN o.seen = DOMAIN o.goal
  /\ \A f \in DOMAIN o.goal : o.goal[f] = rs[o.act][FirstOf(rs[o.act], f)].before
  /\ o.pc \in {"apply", "verify", "compensate"} => DOMAIN o.before = DOMAIN o.goal
Asked(o, ac) ==
  /\ o.kind \in {"delete", "undo"} /\ o.act \in Requests /\ o.pc = "exclude" /\ ~o.back
  /\ ac[o.act].status = "none" /\ o.before = <<>>
  /\ o.kind = "undo" => o.src \in Acts
Restoring(o, ac) ==
  /\ o.kind \in {"delete", "undo"} /\ o.act \in Requests
  /\ ac[o.act].status = "running"
  /\ o.pc \in {"capture", "apply", "verify", "done", "revert", "compensate", "failed", "unsure"}
  /\ DOMAIN o.seen = DOMAIN o.goal
  /\ o.pc \in {"apply", "verify", "done", "revert", "compensate"} => DOMAIN o.before = DOMAIN o.goal
IsOver(ac, a) == ac[a].status \notin {"none", "running", "ending"}
Delete(o, ac) == o.kind = "delete" /\ ~o.back /\ Restoring(o, ac) /\ o.pc # "revert"
Undo(o, ac, rs, au) ==
  /\ o.kind = "undo" /\ Restoring(o, ac)
  /\ o.src \in Acts /\ IsOver(ac, o.src)
  /\ ~o.back => /\ DOMAIN o.goal = Paths(rs[o.src]) \ {Folder}
                /\ o.pc \in {"verify", "done"} => \A f \in DOMAIN o.goal : au[f] # o.src

JobOK(t, o, ac, rs, au) ==
  \/ o = Idle
  \/ t \in Workers /\ ToolCall(o, ac)
  \/ t = Loop /\ (EditorCall(o, ac) \/ TaskUndo(o, ac, rs) \/ Asked(o, ac)
                    \/ Delete(o, ac) \/ Undo(o, ac, rs, au))
JobsOK == \A t \in VaultThreads : JobOK(t, op[t], act, rows, author)

\* A task's changes are recorded, reported as uncertain, or about to be recorded.
Recording(a, f) == \E w \in Workers : op[w].act = a /\ op[w].pc = "record" /\ f \in DOMAIN op[w].goal
Authored == \A a \in Tasks, f \in Files : author[f] = a =>
              f \in Touched(a) \/ <<a, f>> \in unsure \/ Recording(a, f)
\* A task that was rolled back is over, and its files are as it found them.
Sealed == \A a \in Tasks : act[a].undone =>
            /\ IsOver(act, a)
            /\ \A f \in Files : author[f] = a => <<a, f>> \in unsure \/ disk[f] = FirstBefore(a, f)
\* Tools change files only.
NoFolder == \A a \in Tasks : Folder \notin Touched(a)

VaultInv == VaultTyped /\ JobsOK /\ Authored /\ Sealed /\ NoFolder

-----------------------------------------------------------------------------
(* The operators.                                                          *)

\* A set of numbers that is not empty has a smallest one.
LEMMA Least ==
    ASSUME NEW T \in SUBSET Nat, T # {}
    PROVE  \E n \in T : \A m \in T : n <= m
<1>1. PICK R : IsWellFoundedOn(R, Nat) /\ \A x, y \in Nat : x < y => <<x, y>> \in R
  <2>1. \A x, y \in Nat : x < y => <<x, y>> \in OpToRel(<, Nat)
    BY DEF OpToRel
  <2>2. QED
    BY <2>1, NatLessThanWellFounded
<1>2. T \subseteq Nat
  OBVIOUS
<1>3. \E x \in T : \A y \in T : ~ (<<y, x>> \in R)
  <2>1. IsWellFoundedOn(R, Nat) /\ T # {}
    BY <1>1
  <2>2. QED
    BY <1>2, <2>1, WFMin, ZenonT(20)
<1>4. PICK n \in T : \A m \in T : ~(<<m, n>> \in R)
  BY <1>3
<1>5. ASSUME NEW m \in T PROVE n <= m
  <2>1. ~(m < n) /\ m \in Nat /\ n \in Nat
    BY <1>1, <1>4
  <2>2. QED
    BY <2>1
<1>6. QED
  BY <1>4, <1>5

\* A path that rows name has a first row and a last row.
LEMMA FirstAndLast ==
    ASSUME NEW s \in Seq(RowT), NEW p \in Paths(s)
    PROVE  /\ FirstOf(s, p) \in Of(s, p) /\ \A j \in Of(s, p) : FirstOf(s, p) <= j
           /\ LastOf(s, p) \in Of(s, p) /\ \A j \in Of(s, p) : j <= LastOf(s, p)
<1>1. Of(s, p) \in SUBSET (1..Len(s)) /\ Of(s, p) # {} /\ Len(s) \in Nat
  BY DEF Of, Paths
<1>2. \E i \in Of(s, p) : \A j \in Of(s, p) : i <= j
  <2>1. Of(s, p) \in SUBSET Nat
    BY <1>1
  <2>2. QED
    BY <1>1, <2>1, Least
<1>3. \E i \in Of(s, p) : \A j \in Of(s, p) : j <= i
  <2> DEFINE B == {n \in Nat : \A j \in Of(s, p) : j <= n}
  <2>1. Len(s) \in B
    BY <1>1
  <2>2. PICK n \in B : \A m \in B : n <= m
    <3>1. B \in SUBSET Nat /\ B # {}
      BY <2>1
    <3>2. QED
      BY <3>1, Least
  <2>3. n \in Of(s, p)
    <3>1. SUFFICES ASSUME n \notin Of(s, p) PROVE FALSE
      OBVIOUS
    <3>2. \A j \in Of(s, p) : j \in Nat /\ j >= 1 /\ j <= n /\ j # n
      BY <1>1, <3>1
    <3>3. n \in Nat /\ n >= 1 /\ \A j \in Of(s, p) : j <= n - 1
      BY <1>1, <3>2
    <3>4. n - 1 \in B
      BY <3>3
    <3>5. QED
      BY <2>2, <3>3, <3>4
  <2>4. QED
    BY <2>2, <2>3
<1>4. QED
  BY <1>2, <1>3 DEF FirstOf, LastOf

\* The states that rows tell of a file are states of files.
LEMMA StatesOfRows ==
    ASSUME NEW s \in Seq(RowT), NEW f \in Paths(s), f # Folder
    PROVE  /\ f \in Files
           /\ s[FirstOf(s, f)].before \in State /\ s[LastOf(s, f)].after \in State
<1>1. \A i \in DOMAIN s : s[i] \in RowT
  OBVIOUS
<1>2. FirstOf(s, f) \in DOMAIN s /\ s[FirstOf(s, f)].path = f
      /\ LastOf(s, f) \in DOMAIN s /\ s[LastOf(s, f)].path = f
  BY FirstAndLast DEF Of
<1>3. QED
  BY <1>1, <1>2 DEF RowT

\* Rows that are added are added to the paths.
LEMMA PathsOfBoth ==
    ASSUME NEW s \in Seq(RowT), NEW r \in Seq(RowT)
    PROVE  Paths(s \o r) = Paths(s) \cup Paths(r)
<1>1. s \o r \in Seq(RowT) /\ Len(s \o r) = Len(s) + Len(r) /\ Len(s) \in Nat /\ Len(r) \in Nat
  OBVIOUS
<1>2. \A i \in 1..Len(s) : (s \o r)[i] = s[i] /\ i \in 1..Len(s \o r)
  BY <1>1
<1>3. \A i \in 1..Len(r) : (s \o r)[Len(s) + i] = r[i] /\ Len(s) + i \in 1..Len(s \o r)
  BY <1>1
<1>4. \A i \in 1..Len(s \o r) : i \in 1..Len(s) \/ (i - Len(s) \in 1..Len(r) /\ i = Len(s) + (i - Len(s)))
  BY <1>1
<1>5. ASSUME NEW p \in Paths(s \o r) PROVE p \in Paths(s) \cup Paths(r)
  <2>1. PICK i \in 1..Len(s \o r) : p = (s \o r)[i].path
    BY <1>1 DEF Paths
  <2>2. CASE i \in 1..Len(s)
    BY <1>2, <2>1, <2>2 DEF Paths
  <2>3. CASE i - Len(s) \in 1..Len(r) /\ i = Len(s) + (i - Len(s))
    <3> DEFINE k == i - Len(s)
    <3>1. k \in 1..Len(r) /\ p = (s \o r)[Len(s) + k].path
      BY <2>1, <2>3
    <3>2. p = r[k].path
      BY <1>3, <3>1
    <3>3. QED
      BY <3>1, <3>2 DEF Paths
  <2>4. QED
    BY <1>4, <2>2, <2>3
<1>6. ASSUME NEW p \in Paths(s) \cup Paths(r) PROVE p \in Paths(s \o r)
  <2>1. CASE p \in Paths(s)
    <3>1. PICK i \in 1..Len(s) : p = s[i].path
      BY <2>1 DEF Paths
    <3>2. p = (s \o r)[i].path /\ i \in DOMAIN (s \o r)
      BY <1>1, <1>2, <3>1
    <3>3. QED
      BY <3>2 DEF Paths
  <2>2. CASE p \in Paths(r)
    <3>1. PICK i \in 1..Len(r) : p = r[i].path
      BY <2>2 DEF Paths
    <3>2. p = (s \o r)[Len(s) + i].path /\ Len(s) + i \in DOMAIN (s \o r)
      BY <1>1, <1>3, <3>1
    <3>3. QED
      BY <3>2 DEF Paths
  <2>3. QED
    BY <2>1, <2>2
<1>7. QED
  BY <1>5, <1>6

-----------------------------------------------------------------------------
(* What a step leaves alone.                                               *)

\* A thread's step changes its own operation.
LEMMA PutOp ==
    ASSUME VaultTyped, NEW t \in VaultThreads, NEW o, Begin(t, o)
    PROVE  /\ OneOpEach' /\ op'[t] = o
           /\ \A u \in VaultThreads \ {t} : op'[u] = op[u]
<1>1. DOMAIN op = VaultThreads
  BY DEF VaultTyped, OneOpEach
<1>2. op' = [op EXCEPT ![t] = o]
  BY DEF Begin
<1>3. op'[t] = o /\ \A u \in VaultThreads \ {t} : op'[u] = op[u]
  BY <1>1, <1>2
<1>4. op' = [u \in VaultThreads |-> op'[u]]
  BY <1>1, <1>2
<1>5. QED
  BY <1>3, <1>4 DEF OneOpEach

\* An operation that goes on has the jobs it had while its activity, and what a
\* rollback rests on, stay as they were.
LEMMA SameJob ==
    ASSUME NEW t, NEW o, NEW ac, NEW rs, NEW au, NEW ac2, NEW rs2, NEW au2,
           JobOK(t, o, ac, rs, au), OpTyped(o),
           o # Idle => ac2[o.act].status = ac[o.act].status,
           t = Loop /\ o.src \in Acts /\ ac[o.src].status \notin {"none", "running"} =>
             /\ rs2[o.src] = rs[o.src] /\ ac2[o.src].status = ac[o.src].status
             /\ \A f \in Files : au2[f] = o.src => au[f] = o.src
    PROVE  JobOK(t, o, ac2, rs2, au2)
<1>1. CASE o = Idle
  BY <1>1 DEF JobOK
<1>2. CASE t \in Workers /\ ToolCall(o, ac) /\ o # Idle
  BY <1>2 DEF JobOK, ToolCall, Writing
<1>3. CASE t = Loop /\ EditorCall(o, ac) /\ o # Idle
  BY <1>3 DEF JobOK, EditorCall, Writing
<1>4. CASE t = Loop /\ TaskUndo(o, ac, rs) /\ o # Idle
  <2>1. o.src \in Acts /\ ac[o.src].status \notin {"none", "running"} /\ o.src = o.act
    BY <1>4 DEF TaskUndo, Acts
  <2>2. rs2[o.act] = rs[o.act] /\ ac2[o.act].status = ac[o.act].status
    BY <1>4, <2>1
  <2>3. TaskUndo(o, ac2, rs2)
    BY <1>4, <2>2 DEF TaskUndo
  <2>4. QED
    BY <1>4, <2>3 DEF JobOK
<1>5. CASE t = Loop /\ Asked(o, ac) /\ o # Idle
  BY <1>5 DEF JobOK, Asked
<1>6. CASE t = Loop /\ Delete(o, ac) /\ o # Idle
  BY <1>6 DEF JobOK, Delete, Restoring
<1>7. CASE t = Loop /\ Undo(o, ac, rs, au) /\ o # Idle
  <2>1. o.src \in Acts /\ ac[o.src].status \notin {"none", "running"}
    BY <1>7 DEF Undo, IsOver
  <2>2. /\ rs2[o.src] = rs[o.src] /\ ac2[o.src].status = ac[o.src].status
        /\ \A f \in Files : au2[f] = o.src => au[f] = o.src
        /\ ac2[o.act].status = ac[o.act].status
    BY <1>7, <2>1
  <2>3. DOMAIN o.goal \subseteq Files
    BY DEF OpTyped, Part
  <2>4. Undo(o, ac2, rs2, au2)
    BY <1>7, <2>2, <2>3 DEF Undo, Restoring, IsOver
  <2>5. QED
    BY <1>7, <2>4 DEF JobOK
<1>8. QED
  BY <1>1, <1>2, <1>3, <1>4, <1>5, <1>6, <1>7 DEF JobOK

\* A worker's step leaves the other threads their jobs: it changes only what
\* belongs to its task, which runs.
LEMMA WorkerKeepsJobs ==
    ASSUME VaultTyped, JobsOK, NEW t \in Workers, NEW o, Begin(t, o),
           JobOK(t, o, act', rows', author'), act' = act,
           \A a \in Acts : act[a].status # "running" => rows'[a] = rows[a],
           \A f \in Files : author'[f] = author[f]
                \/ (author'[f] \in Acts /\ act[author'[f]].status = "running")
    PROVE  JobsOK'
<1>1. SUFFICES ASSUME NEW u \in VaultThreads PROVE JobOK(u, op'[u], act', rows', author')
  BY DEF JobsOK
<1>2. t \in VaultThreads
  BY DEF VaultThreads
<1>3. CASE u = t
  BY <1>2, <1>3, PutOp
<1>4. CASE u # t
  <2>1. op'[u] = op[u]
    BY <1>2, <1>4, PutOp
  <2>2. JobOK(u, op[u], act, rows, author) /\ OpTyped(op[u])
    BY DEF JobsOK, VaultTyped
  <2>3. op[u] # Idle => act'[op[u].act].status = act[op[u].act].status
    OBVIOUS
  <2>4. u = Loop /\ op[u].src \in Acts /\ act[op[u].src].status \notin {"none", "running"} =>
          /\ rows'[op[u].src] = rows[op[u].src] /\ act'[op[u].src].status = act[op[u].src].status
          /\ \A f \in Files : author'[f] = op[u].src => author[f] = op[u].src
    OBVIOUS
  <2>5. JobOK(u, op[u], act', rows', author')
    BY <2>2, <2>3, <2>4, SameJob
  <2>6. QED
    BY <2>1, <2>5
<1>5. QED
  BY <1>3, <1>4

\* A step of the event loop leaves the workers their jobs: the tasks that have
\* a call under way keep running.
LEMMA LoopKeepsJobs ==
    ASSUME VaultTyped, JobsOK, NEW o, Begin(Loop, o),
           JobOK(Loop, o, act', rows', author'),
           \A w \in Workers : op[w].act \in Tasks /\ act[op[w].act].status = "running" =>
              act'[op[w].act].status = "running"
    PROVE  JobsOK'
<1>1. SUFFICES ASSUME NEW u \in VaultThreads PROVE JobOK(u, op'[u], act', rows', author')
  BY DEF JobsOK
<1>2. Loop \in VaultThreads
  BY DEF VaultThreads
<1>3. CASE u = Loop
  BY <1>2, <1>3, PutOp
<1>4. CASE u # Loop
  <2>1. op'[u] = op[u] /\ u \in Workers
    BY <1>2, <1>4, PutOp DEF VaultThreads
  <2>2. op[u] = Idle \/ ToolCall(op[u], act)
    BY <1>4 DEF JobsOK, JobOK
  <2>3. CASE op[u] = Idle
    BY <2>1, <2>3 DEF JobOK
  <2>4. CASE ToolCall(op[u], act)
    <3>1. act'[op[u].act].status = "running"
      BY <2>1, <2>4 DEF ToolCall, Writing
    <3>2. ToolCall(op[u], act')
      BY <2>4, <3>1 DEF ToolCall, Writing
    <3>3. QED
      BY <2>1, <3>2 DEF JobOK
  <2>5. QED
    BY <2>2, <2>3, <2>4
<1>5. QED
  BY <1>3, <1>4

\* A step that writes no file and adds no row of a task, and marks no task as
\* rolled back.
Quiet ==
  /\ author' = author /\ disk' = disk /\ unsure \subseteq unsure'
  /\ \A a \in Tasks : rows'[a] = rows[a]
  /\ \A w \in Workers : op[w].pc = "record" => op'[w] = op[w]
  /\ \A a \in Tasks : act'[a].undone =>
       act[a].undone /\ (IsOver(act, a) => IsOver(act', a))

\* A step that leaves files, rows and activities alone keeps the invariant.
LEMMA QuietStep ==
    ASSUME Authored, Sealed, NoFolder, Quiet
    PROVE  Authored' /\ Sealed' /\ NoFolder'
<1>1. \A a \in Tasks : Touched(a)' = Touched(a) /\ \A f : FirstBefore(a, f)' = FirstBefore(a, f)
  BY DEF Quiet, Touched, FirstBefore
<1>2. ASSUME NEW a \in Tasks, NEW f, Recording(a, f) PROVE Recording(a, f)'
  BY <1>2 DEF Recording, Quiet
<1>3. Authored'
  BY <1>1, <1>2 DEF Authored, Quiet
<1>4. Sealed'
  BY <1>1 DEF Sealed, Quiet
<1>5. NoFolder'
  BY <1>1 DEF NoFolder
<1>6. QED
  BY <1>3, <1>4, <1>5

\* A step that changes one operation only.
LEMMA OpStepKeepsJobs ==
    ASSUME VaultTyped, JobsOK, NEW t \in VaultThreads, NEW o, Begin(t, o),
           JobOK(t, o, act, rows, author), UNCHANGED <<act, rows, author>>
    PROVE  JobsOK'
<1>1. SUFFICES ASSUME NEW u \in VaultThreads PROVE JobOK(u, op'[u], act', rows', author')
  BY DEF JobsOK
<1>2. JobOK(u, op'[u], act, rows, author)
  BY PutOp DEF JobsOK
<1>3. QED
  BY <1>2

\* The operations stay typed when a thread's new one is.
LEMMA OpStepTyped ==
    ASSUME VaultTyped, NEW t \in VaultThreads, NEW o, Begin(t, o), OpTyped(o)
    PROVE  OneOpEach' /\ \A u \in VaultThreads : OpTyped(op[u])'
<1>1. ASSUME NEW u \in VaultThreads PROVE OpTyped(op'[u])
  <2>1. CASE u = t
    BY <2>1, PutOp
  <2>2. CASE u # t
    BY <2>2, PutOp DEF VaultTyped
  <2>3. QED
    BY <2>1, <2>2
<1>2. QED
  BY <1>1, PutOp DEF OpTyped, Part

\* A thread without an operation is typed.
LEMMA IdleTyped == OpTyped(Idle)
BY DEF OpTyped, Idle, Fields, Part

\* What a thread is about, told from the kind of its operation.
LEMMA JobByKind ==
    ASSUME JobsOK, NEW t \in VaultThreads
    PROVE  /\ op[t] = Idle => op[t].kind = "none"
           /\ op[t].kind \in Writes => op[t] # Idle /\ op[t].act \in Acts /\ Writing(op[t], act)
           /\ op[t].kind \in {"mutate", "move"} => t \in Workers /\ ToolCall(op[t], act)
           /\ op[t].kind \in {"save", "restore"} => t = Loop /\ EditorCall(op[t], act)
           /\ op[t].kind = "taskundo" => t = Loop /\ TaskUndo(op[t], act, rows)
           /\ op[t].kind = "delete" => t = Loop /\ (Asked(op[t], act) \/ Delete(op[t], act))
           /\ op[t].kind = "undo" => t = Loop /\ (Asked(op[t], act) \/ Undo(op[t], act, rows, author))
<1>1. JobOK(t, op[t], act, rows, author)
  BY DEF JobsOK
<1>2. CASE op[t] = Idle
  BY <1>2 DEF Idle, Writes
<1>3. CASE t \in Workers /\ ToolCall(op[t], act)
  BY <1>3 DEF ToolCall, Idle, Writes, Acts
<1>4. CASE t = Loop /\ EditorCall(op[t], act)
  BY <1>4 DEF EditorCall, Idle, Writes, Acts
<1>5. CASE t = Loop /\ TaskUndo(op[t], act, rows)
  BY <1>5 DEF TaskUndo, Idle, Writes
<1>6. CASE t = Loop /\ Asked(op[t], act)
  BY <1>6 DEF Asked, Idle, Writes
<1>7. CASE t = Loop /\ Delete(op[t], act)
  BY <1>7 DEF Delete, Restoring, Idle, Writes
<1>8. CASE t = Loop /\ Undo(op[t], act, rows, author)
  BY <1>8 DEF Undo, Restoring, Idle, Writes
<1>9. QED
  BY <1>1, <1>2, <1>3, <1>4, <1>5, <1>6, <1>7, <1>8 DEF JobOK

\* A write that goes on is the same thread's.
LEMMA WriteGoesOn ==
    ASSUME JobsOK, NEW t \in VaultThreads, op[t].kind \in Writes, NEW o2, NEW ac, NEW rs, NEW au,
           o2.kind = op[t].kind, o2.act = op[t].act, Writing(o2, ac)
    PROVE  JobOK(t, o2, ac, rs, au)
<1>1. CASE op[t].kind \in {"mutate", "move"}
  <2>1. t \in Workers /\ ToolCall(o2, ac)
    BY <1>1, JobByKind DEF ToolCall
  <2>2. QED
    BY <2>1 DEF JobOK
<1>2. CASE op[t].kind \in {"save", "restore"}
  <2>1. t = Loop /\ EditorCall(o2, ac)
    BY <1>2, JobByKind DEF EditorCall
  <2>2. QED
    BY <2>1 DEF JobOK
<1>3. QED
  BY <1>1, <1>2 DEF Writes

\* A step that changes one operation and writes nothing.
LEMMA QuietThread ==
    ASSUME VaultInv, NEW t \in VaultThreads, NEW o, Begin(t, o), t \in Workers => op[t].pc # "record",
           JobOK(t, o, act, rows, author), VaultTyped',
           UNCHANGED <<disk, rows, act, author, unsure>>
    PROVE  VaultInv'
<1>1. VaultTyped /\ JobsOK /\ Authored /\ Sealed /\ NoFolder
  BY DEF VaultInv
<1>2. JobsOK'
  BY <1>1, OpStepKeepsJobs
<1>3. \A w \in Workers : op[w].pc = "record" => op'[w] = op[w]
  BY <1>1, PutOp DEF VaultThreads
<1>4. Quiet
  BY <1>3 DEF Quiet
<1>5. QED
  BY <1>1, <1>2, <1>4, QuietStep DEF VaultInv

\* A step of the event loop that writes nothing, and changes no task that has a
\* call under way or is over.
LEMMA QuietLoop ==
    ASSUME VaultInv, NEW o, Begin(Loop, o), JobOK(Loop, o, act', rows', author'), VaultTyped',
           UNCHANGED <<disk, author>>, unsure \subseteq unsure', \A a \in Tasks : rows'[a] = rows[a],
           \A a \in Tasks : \/ act'[a] = act[a]
                            \/ /\ act'[a].undone = act[a].undone /\ ~IsOver(act, a)
                               /\ \A w \in Workers : op[w].act # a
    PROVE  VaultInv'
<1>1. VaultTyped /\ JobsOK /\ Authored /\ Sealed /\ NoFolder
  BY DEF VaultInv
<1>2. JobsOK'
  <2>1. \A w \in Workers : op[w].act \in Tasks /\ act[op[w].act].status = "running" =>
          act'[op[w].act].status = "running"
    OBVIOUS
  <2>2. QED
    BY <1>1, <2>1, LoopKeepsJobs
<1>3. \A w \in Workers : op'[w] = op[w]
  BY <1>1, PutOp, FilesAssumption DEF VaultThreads
<1>4. ASSUME NEW a \in Tasks, act'[a].undone
      PROVE  act[a].undone /\ (IsOver(act, a) => IsOver(act', a))
  BY <1>4 DEF IsOver
<1>5. Quiet
  BY <1>3, <1>4 DEF Quiet
<1>6. QED
  BY <1>1, <1>2, <1>5, QuietStep DEF VaultInv

\* finish_activity, and the start of an activity, change one activity's status.
LEMMA EndedActs ==
    ASSUME VaultTyped, NEW a \in Acts, NEW st \in {"completed", "failed"}
    PROVE  /\ Ended(a, st) \in [Acts -> ActT] /\ IsOver(Ended(a, st), a)
           /\ Ended(a, st)[a].undone = act[a].undone
           /\ \A b \in Acts \ {a} : Ended(a, st)[b] = act[b]
BY DEF VaultTyped, Ended, ActT, IsOver

\* An activity that starts runs, and the others stay as they were.
LEMMA StartedActs ==
    ASSUME VaultTyped, NEW a \in Acts
    PROVE  /\ Started(a) \in [Acts -> ActT] /\ Started(a)[a].status = "running"
           /\ \A b \in Acts \ {a} : Started(a)[b] = act[b]
BY DEF VaultTyped, Started, ActT

\* What is captured is what is found.
LEMMA CapturingTyped ==
    ASSUME VaultTyped, NEW a \in Acts, NEW fs
    PROVE  /\ Capturing(a, fs) \in [Acts -> [Files -> State \cup {None}]]
           /\ Finding(a, fs) \in [Acts -> [Files -> State \cup {None}]]
<1>1. snap[a] \in [Files -> State \cup {None}] /\ origin[a] \in [Files -> State \cup {None}]
      /\ disk \in [Files -> State]
  BY DEF VaultTyped
<1>2. [f \in Files |-> IF f \in fs THEN Captured(snap[a][f], disk[f]) ELSE snap[a][f]]
        \in [Files -> State \cup {None}]
  BY <1>1 DEF Captured
<1>3. [f \in Files |-> IF f \in fs /\ origin[a][f] = None THEN disk[f] ELSE origin[a][f]]
        \in [Files -> State \cup {None}]
  BY <1>1
<1>4. QED
  BY <1>2, <1>3 DEF VaultTyped, Capturing, Finding

\* Files that change are the writer's, who was not rolled back.
LEMMA SealedByOther ==
    ASSUME Sealed, NEW x, x \in Tasks => ~IsOver(act, x), UNCHANGED <<act, rows, unsure>>,
           \A f \in Files : author'[f] = x \/ (author'[f] = author[f] /\ disk'[f] = disk[f])
    PROVE  Sealed'
<1>1. SUFFICES ASSUME NEW a \in Tasks, act[a].undone
               PROVE  /\ IsOver(act, a)
                      /\ \A f \in Files : author'[f] = a =>
                           <<a, f>> \in unsure \/ disk'[f] = FirstBefore(a, f)
  BY DEF Sealed, FirstBefore, IsOver
<1>2. IsOver(act, a) /\ a # x
  BY <1>1 DEF Sealed
<1>3. QED
  BY <1>1, <1>2 DEF Sealed

-----------------------------------------------------------------------------
(* One write.                                                              *)

\* A thread that gets the hierarchy shared keeps the invariant.
LEMMA EnterStep ==
    ASSUME VaultInv, NEW t \in VaultThreads, Enter(t)
    PROVE  VaultInv'
<1> DEFINE o == op[t]
           o2 == [o EXCEPT !.pc = "lock", !.mode = "read"]
<1>1. OpTyped(o) /\ VaultTyped /\ JobsOK
  BY DEF VaultInv, VaultTyped
<1>2. OpTyped(o2) /\ DOMAIN o = Fields
  BY <1>1 DEF OpTyped, Fields, Part
<1>3. /\ o2.pc = "lock" /\ o2.kind = o.kind /\ o2.act = o.act /\ o2.src = o.src
      /\ o2.goal = o.goal /\ o2.seen = o.seen /\ o2.back = o.back
  BY <1>2 DEF Fields
<1>4. Begin(t, o2) /\ UNCHANGED <<disk, folder, rows, snap, act, author, origin, unsure>>
      /\ o.kind \in Writes \cup {"taskundo"} /\ o.pc = "enter"
  BY DEF Enter, At, ghosts
<1> HIDE DEF o, o2
<1>5. JobOK(t, o2, act, rows, author)
  <2>1. CASE o.kind \in Writes
    <3>1. Writing(o, act)
      BY <1>1, <2>1, JobByKind DEF o
    <3>2. Writing(o2, act)
      BY <1>3, <3>1 DEF Writing
    <3>3. QED
      BY <1>1, <1>3, <2>1, <3>2, WriteGoesOn DEF o
  <2>2. CASE o.kind = "taskundo"
    <3>1. TaskUndo(o2, act, rows) /\ t = Loop
      BY <1>1, <1>3, <2>2, JobByKind DEF o, TaskUndo
    <3>2. QED
      BY <3>1 DEF JobOK
  <2>3. QED
    BY <1>4, <2>1, <2>2
<1>6. VaultTyped'
  BY <1>1, <1>2, <1>4, OpStepTyped DEF VaultTyped
<1>7. QED
  BY <1>4, <1>5, <1>6, QuietThread DEF o

\* A thread that gets the lock of one more path keeps the invariant.
LEMMA LockStep ==
    ASSUME VaultInv, NEW t \in VaultThreads, Lock(t)
    PROVE  VaultInv'
<1>1. PICK f \in NextLock(t) :
        Begin(t, [op[t] EXCEPT !.held = op[t].held \cup {f},
               !.pc = IF op[t].held \cup {f} # DOMAIN op[t].goal THEN "lock"
                      ELSE IF op[t].kind = "taskundo" THEN "capture" ELSE "prepare"])
  BY DEF Lock
<1> DEFINE o == op[t]
           pc2 == IF o.held \cup {f} # DOMAIN o.goal THEN "lock"
                  ELSE IF o.kind = "taskundo" THEN "capture" ELSE "prepare"
           o2 == [o EXCEPT !.held = o.held \cup {f}, !.pc = pc2]
<1>2. OpTyped(o) /\ VaultTyped /\ JobsOK
  BY DEF VaultInv, VaultTyped
<1>3. DOMAIN o = Fields /\ f \in Files
  BY <1>1, <1>2 DEF OpTyped, NextLock, Part
<1>4. /\ o2.pc = pc2 /\ o2.kind = o.kind /\ o2.act = o.act /\ o2.src = o.src
      /\ o2.goal = o.goal /\ o2.seen = o.seen /\ o2.before = o.before /\ o2.back = o.back
      /\ o2.held = o.held \cup {f} /\ o2.mode = o.mode /\ DOMAIN o2 = Fields
  BY <1>3 DEF Fields
<1>5. Begin(t, o2) /\ UNCHANGED <<disk, folder, rows, snap, act, author, origin, unsure>>
      /\ o.kind \in Writes \cup {"taskundo"} /\ o.pc = "lock"
  BY <1>1 DEF Lock, At, ghosts
<1>6. (o.kind = "taskundo" => pc2 \in {"lock", "capture"})
      /\ (o.kind # "taskundo" => pc2 \in {"lock", "prepare"})
  OBVIOUS
<1> HIDE DEF o, o2, pc2
<1>7. OpTyped(o2)
  BY <1>2, <1>3, <1>4 DEF OpTyped
<1>8. JobOK(t, o2, act, rows, author)
  <2>1. CASE o.kind \in Writes
    <3>1. Writing(o, act)
      BY <1>2, <2>1, JobByKind DEF o
    <3>2. Writing(o2, act)
      BY <1>4, <1>6, <2>1, <3>1 DEF Writing, Writes
    <3>3. QED
      BY <1>2, <1>4, <2>1, <3>2, WriteGoesOn DEF o
  <2>2. CASE o.kind = "taskundo"
    <3>1. TaskUndo(o2, act, rows) /\ t = Loop
      BY <1>2, <1>4, <1>6, <2>2, JobByKind DEF o, TaskUndo
    <3>2. QED
      BY <3>1 DEF JobOK
  <2>3. QED
    BY <1>5, <2>1, <2>2
<1>9. VaultTyped'
  BY <1>2, <1>5, <1>7, OpStepTyped DEF VaultTyped
<1>10. QED
  BY <1>5, <1>8, <1>9, QuietThread DEF o

\* A request's activity is no task.
LEMMA RequestsAreNoTasks ==
    ASSUME VaultTyped, NEW r \in Requests, NEW st \in {"completed", "failed"}
    PROVE  /\ r \in Acts /\ r \notin Tasks
           /\ \A a \in Tasks : Ended(r, st)[a] = act[a] /\ Started(r)[a] = act[a]
<1>1. r \in Acts /\ r \notin Tasks
  BY FilesAssumption DEF Acts
<1>2. ASSUME NEW a \in Tasks PROVE Ended(r, st)[a] = act[a] /\ Started(r)[a] = act[a]
  <2>1. a \in Acts \ {r}
    BY <1>1 DEF Acts
  <2>2. QED
    BY <1>1, <2>1, EndedActs, StartedActs
<1>3. QED
  BY <1>1, <1>2

\* A write whose conditions are checked and whose paths are captured keeps the invariant.
LEMMA PrepareStep ==
    ASSUME VaultInv, NEW t \in VaultThreads, Prepare(t)
    PROVE  VaultInv'
<1> DEFINE o == op[t]
           fs == DOMAIN o.goal
           now == [f \in fs |-> disk[f]]
           seen2 == IF o.kind \in {"save", "restore"} THEN o.seen ELSE now
           o2 == [o EXCEPT !.pc = "write", !.before = now, !.seen = seen2]
<1>1. OpTyped(o) /\ VaultTyped /\ JobsOK /\ DOMAIN o = Fields
  BY DEF VaultInv, VaultTyped, OpTyped
<1>2. /\ o.kind \in Writes /\ o.pc = "prepare"
      /\ UNCHANGED <<disk, folder, rows, author, unsure>>
  BY DEF Prepare, At
<1>3. o.act \in Acts /\ Writing(o, act)
  BY <1>1, <1>2, JobByKind
<1>4. CASE snap' = Capturing(o.act, fs) /\ origin' = Finding(o.act, fs) /\ Begin(t, o2) /\ act' = act
  <2>1. Part(now) /\ DOMAIN now = DOMAIN o.goal
    BY <1>1 DEF OpTyped, Part, VaultTyped
  <2>2. Part(seen2)
    BY <1>1, <2>1 DEF OpTyped
  <2>3. /\ o2.pc = "write" /\ o2.kind = o.kind /\ o2.act = o.act /\ o2.src = o.src
        /\ o2.goal = o.goal /\ o2.seen = seen2 /\ o2.before = now /\ o2.held = o.held
        /\ o2.mode = o.mode /\ DOMAIN o2 = Fields
    BY <1>1 DEF Fields
  <2> HIDE DEF o, now, seen2, o2
  <2>4. OpTyped(o2)
    BY <1>1, <2>1, <2>2, <2>3 DEF OpTyped
  <2>5. Writing(o2, act)
    BY <1>3, <2>1, <2>3 DEF Writing
  <2>6. JobOK(t, o2, act, rows, author)
    BY <1>1, <1>2, <2>3, <2>5, WriteGoesOn DEF o
  <2>7. snap' \in [Acts -> [Files -> State \cup {None}]] /\ origin' \in [Acts -> [Files -> State \cup {None}]]
    BY <1>1, <1>3, <1>4, CapturingTyped
  <2>8. VaultTyped'
    BY <1>1, <1>2, <1>4, <2>4, <2>7, OpStepTyped DEF VaultTyped
  <2>9. QED
    BY <1>2, <1>4, <2>6, <2>8, QuietThread DEF o
<1>5. CASE /\ Begin(t, Idle) /\ UNCHANGED <<snap, origin>>
           /\ act' = IF o.act \in Requests THEN Ended(o.act, "failed") ELSE act
  <2> HIDE DEF o
  <2>1. JobOK(t, Idle, act', rows', author') /\ JobOK(t, Idle, act, rows, author)
    BY DEF JobOK
  <2>2. act' \in [Acts -> ActT]
    BY <1>1, <1>3, <1>5, EndedActs DEF VaultTyped
  <2>3. VaultTyped'
    BY <1>1, <1>2, <1>5, <2>2, OpStepTyped, IdleTyped DEF VaultTyped
  <2>4. CASE o.act \in Requests
    <3>1. t = Loop
      BY <1>1, <1>2, <2>4, JobByKind, FilesAssumption DEF o, Writes, ToolCall
    <3>2. \A a \in Tasks : act'[a] = act[a]
      BY <1>1, <1>5, <2>4, RequestsAreNoTasks
    <3>3. QED
      BY <1>2, <1>5, <2>1, <2>3, <3>1, <3>2, QuietLoop
  <2>5. CASE o.act \notin Requests
    <3>1. act' = act
      BY <1>5, <2>5
    <3>2. QED
      BY <1>2, <1>5, <2>1, <2>3, <3>1, QuietThread DEF o
  <2>6. QED
    BY <2>4, <2>5
<1>6. QED
  BY <1>4, <1>5 DEF Prepare

\* A write of files keeps the invariant: what a task wrote it is about to record.
LEMMA WriteStepVault ==
    ASSUME VaultInv, NEW t \in VaultThreads, Write(t)
    PROVE  VaultInv'
<1> DEFINE o == op[t]
           new == [f \in DOMAIN o.goal |->
                     IF o.kind = "move" /\ f # o.src THEN disk[o.src] ELSE o.goal[f]]
           o2 == [o EXCEPT !.pc = "record", !.goal = new]
<1>1. OpTyped(o) /\ VaultTyped /\ JobsOK /\ Authored /\ Sealed /\ NoFolder /\ DOMAIN o = Fields
  BY DEF VaultInv, VaultTyped, OpTyped
<1>2. /\ o.kind \in Writes /\ o.pc = "write" /\ Begin(t, o2)
      /\ disk' = Changed(new) /\ folder' = WithParents(Changed(new))
      /\ author' = [f \in Files |-> IF f \in DOMAIN new THEN o.act ELSE author[f]]
      /\ UNCHANGED <<rows, snap, act, origin, unsure>>
  BY DEF Write, At
<1>3. o.act \in Acts /\ Writing(o, act)
  BY <1>1, <1>2, JobByKind
<1>4. Part(new) /\ DOMAIN new = DOMAIN o.goal
  <2>1. o.src \in Files /\ disk[o.src] \in State
    BY <1>1, <1>3 DEF Writing, OpTyped, Part, VaultTyped
  <2>2. QED
    BY <1>1, <2>1 DEF OpTyped, Part
<1>5. /\ o2.pc = "record" /\ o2.kind = o.kind /\ o2.act = o.act /\ o2.src = o.src
      /\ o2.goal = new /\ o2.seen = o.seen /\ o2.before = o.before /\ o2.held = o.held
      /\ o2.mode = o.mode /\ DOMAIN o2 = Fields
  BY <1>1 DEF Fields
<1> HIDE DEF o, new, o2
<1>6. OpTyped(o2)
  BY <1>1, <1>4, <1>5 DEF OpTyped
<1>7. JobOK(t, o2, act', rows', author')
  <2>1. Writing(o2, act')
    BY <1>2, <1>3, <1>4, <1>5 DEF Writing
  <2>2. QED
    BY <1>1, <1>2, <1>5, <2>1, WriteGoesOn DEF o
<1>8. \A f \in Files : \/ author'[f] = o.act
                       \/ author'[f] = author[f] /\ disk'[f] = disk[f] /\ f \notin DOMAIN new
  BY <1>2 DEF Changed
<1>9. act[o.act].status = "running"
  BY <1>3 DEF Writing
<1>10. JobsOK'
  <2>1. CASE t \in Workers
    <3>1. \A f \in Files : author'[f] = author[f]
             \/ (author'[f] \in Acts /\ act[author'[f]].status = "running")
      BY <1>3, <1>8, <1>9
    <3>2. QED
      BY <1>1, <1>2, <1>7, <2>1, <3>1, WorkerKeepsJobs
  <2>2. CASE t = Loop
    BY <1>1, <1>2, <1>7, <2>2, LoopKeepsJobs
  <2>3. QED
    BY <2>1, <2>2 DEF VaultThreads
<1>11. VaultTyped'
  <2>1. disk' \in [Files -> State]
    BY <1>1, <1>2, <1>4 DEF Changed, Part, VaultTyped
  <2>2. folder' \in BOOLEAN
    BY <1>1, <1>2 DEF WithParents, VaultTyped
  <2>3. author' \in [Files -> Acts \cup {None, External}]
    BY <1>1, <1>2, <1>3 DEF VaultTyped
  <2>4. QED
    BY <1>1, <1>2, <1>6, <2>1, <2>2, <2>3, OpStepTyped DEF VaultTyped
<1>12. Authored'
  <2>1. SUFFICES ASSUME NEW a \in Tasks, NEW f \in Files, author'[f] = a
                 PROVE  f \in Touched(a) \/ <<a, f>> \in unsure \/ Recording(a, f)'
    BY <1>2 DEF Authored, Touched
  <2>2. CASE f \in DOMAIN new
    <3>1. a = o.act
      BY <1>2, <2>1, <2>2
    <3>2. t \in Workers
      BY <1>1, <1>2, <3>1, JobByKind, FilesAssumption DEF o, Writes, EditorCall, ToolCall
    <3>3. op'[t] = o2
      BY <1>1, <1>2, PutOp
    <3>4. QED
      BY <1>5, <2>2, <3>1, <3>2, <3>3 DEF Recording
  <2>3. CASE f \notin DOMAIN new
    <3>1. author[f] = a
      BY <1>2, <2>1, <2>3
    <3>2. CASE Recording(a, f)
      <4>1. PICK w \in Workers : op[w].act = a /\ op[w].pc = "record" /\ f \in DOMAIN op[w].goal
        BY <3>2 DEF Recording
      <4>2. w # t
        BY <1>2, <4>1 DEF o
      <4>3. op'[w] = op[w]
        BY <1>1, <1>2, <4>2, PutOp DEF VaultThreads
      <4>4. QED
        BY <4>1, <4>3 DEF Recording
    <3>3. QED
      BY <1>1, <3>1, <3>2 DEF Authored
  <2>4. QED
    BY <2>2, <2>3
<1>13. Sealed'
  <2>1. ~IsOver(act, o.act)
    BY <1>9 DEF IsOver
  <2>2. QED
    BY <1>1, <1>2, <1>8, <2>1, SealedByOther
<1>14. NoFolder'
  BY <1>1, <1>2 DEF NoFolder, Touched
<1>15. QED
  BY <1>10, <1>11, <1>12, <1>13, <1>14 DEF VaultInv

\* The rows of an operation are the ones of its files.
LEMMA RowsOfFiles ==
    ASSUME NEW o, OpTyped(o), NEW ac, Writing(o, ac), DOMAIN o.before = DOMAIN o.goal,
           NEW kept \in {DOMAIN o.goal, {o.src}, {}}
    PROVE  RowsOf(o, kept) \in Seq(RowT) /\ Paths(RowsOf(o, kept)) = kept
<1> DEFINE one(f) == IF f \in kept THEN <<Row(f, o.before[f], o.goal[f])>> ELSE <<>>
           rest == DOMAIN o.goal \ {o.src}
           g == CHOOSE f \in rest : TRUE
<1>1. PICK h : DOMAIN o.goal = {o.src, h}
  BY DEF Writing
<1>2. \/ rest = {} /\ DOMAIN o.goal = {o.src}
      \/ rest # {} /\ DOMAIN o.goal = {o.src, g} /\ g # o.src
  <2>1. CASE rest = {}
    <3>1. DOMAIN o.goal \ {o.src} = {} /\ o.src \in DOMAIN o.goal
      BY <1>1, <2>1
    <3>2. DOMAIN o.goal = {o.src}
      BY <3>1
    <3> HIDE DEF rest, g
    <3>3. QED
      BY <2>1, <3>2
  <2>2. CASE rest # {}
    <3>1. g \in rest
      BY <2>2
    <3> HIDE DEF g
    <3>2. QED
      BY <1>1, <3>1
  <2>3. QED
    BY <2>1, <2>2
<1>3. RowsOf(o, kept) = one(o.src) \o (IF rest = {} THEN <<>> ELSE one(g))
  BY DEF RowsOf
<1>4. ASSUME NEW f \in DOMAIN o.goal PROVE Row(f, o.before[f], o.goal[f]) \in RowT
  BY DEF Row, RowT, OpTyped, Part
<1>5. ASSUME NEW f \in DOMAIN o.goal
      PROVE  one(f) \in Seq(RowT) /\ Paths(one(f)) = IF f \in kept THEN {f} ELSE {}
  <2>1. CASE f \in kept
    <3> DEFINE r == Row(f, o.before[f], o.goal[f])
    <3>1. one(f) = <<r>> /\ r \in RowT /\ r.path = f
      BY <1>4, <2>1 DEF Row
    <3> HIDE DEF r
    <3>2. Paths(<<r>>) = {r.path}
      BY DEF Paths
    <3>3. QED
      BY <2>1, <3>1, <3>2
  <2>2. CASE f \notin kept
    BY <2>2 DEF Paths
  <2>3. QED
    BY <2>1, <2>2
<1> HIDE DEF one, g, rest
<1>6. o.src \in DOMAIN o.goal
  BY <1>1
<1>7. CASE rest = {} /\ DOMAIN o.goal = {o.src}
  <2>1. RowsOf(o, kept) = one(o.src)
    <3>1. one(o.src) \in Seq(RowT)
      BY <1>5, <1>6
    <3>2. QED
      BY <1>3, <1>7, <3>1
  <2>2. QED
    BY <1>5, <1>6, <1>7, <2>1
<1>8. CASE rest # {} /\ DOMAIN o.goal = {o.src, g} /\ g # o.src
  <2>1. g \in DOMAIN o.goal
    BY <1>8
  <2>2. RowsOf(o, kept) = one(o.src) \o one(g)
    BY <1>3, <1>8
  <2>3. one(o.src) \in Seq(RowT) /\ one(g) \in Seq(RowT)
    BY <1>5, <1>6, <2>1
  <2>4. Paths(RowsOf(o, kept)) = Paths(one(o.src)) \cup Paths(one(g))
    BY <2>2, <2>3, PathsOfBoth
  <2>5. Paths(one(o.src)) = (IF o.src \in kept THEN {o.src} ELSE {}) /\ Paths(one(g)) = (IF g \in kept THEN {g} ELSE {})
    BY <1>5, <1>6, <2>1
  <2>6. QED
    BY <1>8, <2>2, <2>3, <2>4, <2>5
<1>9. QED
  BY <1>2, <1>7, <1>8

\* Rows that are recorded for one activity.
LEMMA RecordedRows ==
    ASSUME VaultTyped, NEW a \in Acts, NEW new \in Seq(RowT)
    PROVE  /\ Recorded(a, new) \in [Acts -> Seq(RowT)]
           /\ \A b \in Acts \ {a} : Recorded(a, new)[b] = rows[b]
           /\ Recorded(a, new)[a] = rows[a] \o new
           /\ Paths(Recorded(a, new)[a]) = Paths(rows[a]) \cup Paths(new)
<1>1. rows \in [Acts -> Seq(RowT)] /\ rows[a] \in Seq(RowT)
  BY DEF VaultTyped
<1>2. rows[a] \o new \in Seq(RowT) /\ Paths(rows[a] \o new) = Paths(rows[a]) \cup Paths(new)
  BY <1>1, PathsOfBoth
<1>3. QED
  BY <1>1, <1>2 DEF Recorded

\* The recording of a write keeps the invariant: what is not recorded is uncertain.
LEMMA RecordStep ==
    ASSUME VaultInv, NEW t \in VaultThreads, Record(t)
    PROVE  VaultInv'
<1> DEFINE o == op[t]
<1>1. OpTyped(o) /\ VaultTyped /\ JobsOK /\ Authored /\ Sealed /\ NoFolder
  BY DEF VaultInv, VaultTyped
<1>2. /\ o.kind \in Writes /\ o.pc = "record" /\ Begin(t, Idle)
      /\ UNCHANGED <<disk, folder, snap, author, origin>>
  BY DEF Record, At
<1>3. PICK kept \in {DOMAIN o.goal, {o.src}, {}} :
        /\ rows' = Recorded(o.act, RowsOf(o, kept))
        /\ unsure' = unsure \cup {<<o.act, f>> : f \in DOMAIN o.goal \ kept}
        /\ act' = IF o.act \in Requests
                  THEN Ended(o.act, IF kept = DOMAIN o.goal THEN "completed" ELSE "failed")
                  ELSE act
  BY DEF Record
<1> DEFINE new == RowsOf(o, kept)
<1>4. o.act \in Acts /\ Writing(o, act) /\ act[o.act].status = "running"
      /\ DOMAIN o.before = DOMAIN o.goal /\ DOMAIN o.goal \subseteq Files
  BY <1>1, <1>2, JobByKind DEF Writing, OpTyped, Part
<1>5. new \in Seq(RowT) /\ Paths(new) = kept
  BY <1>1, <1>4, RowsOfFiles
<1> HIDE DEF o, new
<1>6. /\ rows' \in [Acts -> Seq(RowT)]
      /\ \A b \in Acts \ {o.act} : rows'[b] = rows[b]
      /\ Paths(rows'[o.act]) = Paths(rows[o.act]) \cup kept
  BY <1>1, <1>3, <1>4, <1>5, RecordedRows DEF new
<1>7. JobOK(t, Idle, act', rows', author')
  BY DEF JobOK
<1>8. kept \subseteq DOMAIN o.goal
  BY <1>4 DEF Writing
<1>9. /\ act' \in [Acts -> ActT] /\ \A a \in Tasks : act'[a] = act[a]
      /\ t \in Workers => act' = act
  <2>1. CASE o.act \in Requests
    <3>1. t \notin Workers
      BY <1>1, <1>2, <2>1, JobByKind, FilesAssumption DEF o, Writes, EditorCall, ToolCall
    <3>2. act' = Ended(o.act, "completed") \/ act' = Ended(o.act, "failed")
      BY <1>3, <2>1
    <3>3. QED
      BY <1>1, <2>1, <3>1, <3>2, <1>4, EndedActs, RequestsAreNoTasks
  <2>2. CASE o.act \notin Requests
    BY <1>1, <1>3, <2>2 DEF VaultTyped
  <2>3. QED
    BY <2>1, <2>2
<1>10. JobsOK'
  <2>1. CASE t \in Workers
    <3>1. \A a \in Acts : act[a].status # "running" => rows'[a] = rows[a]
      BY <1>4, <1>6
    <3>2. QED
      BY <1>1, <1>2, <1>7, <1>9, <2>1, <3>1, WorkerKeepsJobs
  <2>2. CASE t = Loop
    BY <1>1, <1>2, <1>7, <1>9, <2>2, LoopKeepsJobs
  <2>3. QED
    BY <2>1, <2>2 DEF VaultThreads
<1>11. VaultTyped'
  <2>1. unsure' \subseteq Acts \X (Files \cup {Folder})
    BY <1>1, <1>3, <1>4 DEF VaultTyped
  <2>2. QED
    BY <1>1, <1>2, <1>6, <1>9, <2>1, OpStepTyped, IdleTyped DEF VaultTyped
<1>12. \A a \in Tasks : Touched(a)' = Touched(a) \cup (IF a = o.act THEN kept ELSE {})
  BY <1>6 DEF Touched, Acts
<1>13. Authored'
  <2>1. SUFFICES ASSUME NEW a \in Tasks, NEW f \in Files, author[f] = a
                 PROVE  f \in Touched(a)' \/ <<a, f>> \in unsure' \/ Recording(a, f)'
    BY <1>2 DEF Authored
  <2>2. CASE Recording(a, f)
    <3>1. PICK w \in Workers : op[w].act = a /\ op[w].pc = "record" /\ f \in DOMAIN op[w].goal
      BY <2>2 DEF Recording
    <3>2. CASE w = t
      <4>1. a = o.act /\ f \in DOMAIN o.goal
        BY <3>1, <3>2 DEF o
      <4>2. f \in kept \/ <<a, f>> \in unsure'
        BY <1>3, <4>1
      <4>3. QED
        BY <1>12, <4>1, <4>2
    <3>3. CASE w # t
      <4>1. op'[w] = op[w]
        BY <1>1, <1>2, <3>3, PutOp DEF VaultThreads
      <4>2. QED
        BY <3>1, <4>1 DEF Recording
    <3>4. QED
      BY <3>2, <3>3
  <2>3. CASE f \in Touched(a)
    BY <1>12, <2>3
  <2>4. CASE <<a, f>> \in unsure
    BY <1>3, <2>4
  <2>5. QED
    BY <1>1, <2>1, <2>2, <2>3, <2>4 DEF Authored
<1>14. Sealed'
  <2>1. SUFFICES ASSUME NEW a \in Tasks, act[a].undone
                 PROVE  /\ IsOver(act', a)
                        /\ \A f \in Files : author[f] = a =>
                             <<a, f>> \in unsure' \/ disk[f] = FirstBefore(a, f)'
    BY <1>2, <1>9 DEF Sealed
  <2>2. IsOver(act, a) /\ a # o.act /\ a \in Acts
    BY <1>1, <1>4, <2>1 DEF Sealed, IsOver, Acts
  <2>3. IsOver(act', a) /\ rows'[a] = rows[a]
    BY <1>6, <1>9, <2>2 DEF IsOver
  <2>4. \A f \in Files : FirstBefore(a, f)' = FirstBefore(a, f)
    BY <2>3 DEF FirstBefore
  <2>5. unsure \subseteq unsure'
    BY <1>3
  <2>6. QED
    BY <1>1, <2>1, <2>3, <2>4, <2>5 DEF Sealed
<1>15. NoFolder'
  <2>1. Folder \notin kept
    BY <1>4, <1>8, FilesAssumption DEF Folder
  <2>2. QED
    BY <1>1, <1>12, <2>1 DEF NoFolder
<1>16. QED
  BY <1>10, <1>11, <1>13, <1>14, <1>15 DEF VaultInv

-----------------------------------------------------------------------------
(* Calls that begin, and other programs.                                   *)

\* A tool call that changes one file begins within the invariant.
LEMMA MutateStep ==
    ASSUME VaultInv, NEW t \in Workers, NEW a \in Tasks, NEW f \in Files,
           NEW v \in Written \cup {Absent}, Mutate(t, a, f, v)
    PROVE  VaultInv'
<1> DEFINE o2 == [Idle EXCEPT !.kind = "mutate", !.pc = "enter", !.act = a,
                              !.src = f, !.goal = Only(f, v)]
<1>1. VaultTyped /\ t \in VaultThreads
  BY DEF VaultInv, VaultThreads
<1>2. /\ Begin(t, o2) /\ op[t] = Idle /\ act[a].status = "running"
      /\ UNCHANGED <<disk, folder, rows, snap, act, author, origin, unsure>>
  BY DEF Mutate, ghosts
<1>3. /\ o2.pc = "enter" /\ o2.kind = "mutate" /\ o2.act = a /\ o2.src = f
      /\ o2.goal = Only(f, v) /\ o2.seen = <<>> /\ o2.before = <<>> /\ o2.held = {}
      /\ o2.mode = "none" /\ DOMAIN o2 = Fields
  BY DEF Idle, Fields
<1> HIDE DEF o2
<1>4. DOMAIN Only(f, v) = {f} /\ Part(Only(f, v)) /\ Part(<<>>)
  BY FilesAssumption DEF Only, Part, State
<1>5. OpTyped(o2)
  BY <1>3, <1>4 DEF OpTyped
<1>6. JobOK(t, o2, act, rows, author)
  <2>1. Writing(o2, act)
    BY <1>2, <1>3, <1>4 DEF Writing
  <2>2. QED
    BY <1>3, <2>1 DEF JobOK, ToolCall
<1>7. VaultTyped'
  BY <1>1, <1>2, <1>5, OpStepTyped DEF VaultTyped
<1>8. op[t].pc # "record"
  BY <1>2 DEF Idle
<1>9. QED
  BY <1>1, <1>2, <1>6, <1>7, <1>8, QuietThread

\* A tool call that moves a file begins within the invariant.
LEMMA MoveStep ==
    ASSUME VaultInv, NEW t \in Workers, NEW a \in Tasks, NEW f \in Files, NEW g \in Files,
           Move(t, a, f, g)
    PROVE  VaultInv'
<1> DEFINE both == [x \in {f, g} |-> Absent]
           o2 == [Idle EXCEPT !.kind = "move", !.pc = "enter", !.act = a,
                              !.src = f, !.goal = both]
<1>1. VaultTyped /\ t \in VaultThreads
  BY DEF VaultInv, VaultThreads
<1>2. /\ Begin(t, o2) /\ op[t] = Idle /\ act[a].status = "running"
      /\ UNCHANGED <<disk, folder, rows, snap, act, author, origin, unsure>>
  BY DEF Move, ghosts
<1>3. /\ o2.pc = "enter" /\ o2.kind = "move" /\ o2.act = a /\ o2.src = f
      /\ o2.goal = both /\ o2.seen = <<>> /\ o2.before = <<>> /\ o2.held = {}
      /\ o2.mode = "none" /\ DOMAIN o2 = Fields
  BY DEF Idle, Fields
<1>4. DOMAIN both = {f, g} /\ Part(both) /\ Part(<<>>)
  BY DEF Part, State
<1> HIDE DEF o2, both
<1>5. OpTyped(o2)
  BY <1>3, <1>4 DEF OpTyped
<1>6. JobOK(t, o2, act, rows, author)
  <2>1. Writing(o2, act)
    BY <1>2, <1>3, <1>4 DEF Writing
  <2>2. QED
    BY <1>3, <2>1 DEF JobOK, ToolCall
<1>7. VaultTyped'
  BY <1>1, <1>2, <1>5, OpStepTyped DEF VaultTyped
<1>8. op[t].pc # "record"
  BY <1>2 DEF Idle
<1>9. QED
  BY <1>1, <1>2, <1>6, <1>7, <1>8, QuietThread

\* The two requests that write one file.
LEMMA EditorStep ==
    ASSUME VaultInv, NEW r \in Requests, NEW f \in Files, NEW v \in State, NEW k \in {"save", "restore"},
           Begin(Loop, [Idle EXCEPT !.kind = k, !.pc = "enter", !.act = r, !.src = f,
                          !.goal = Only(f, v), !.seen = Only(f, disk[f])]),
           act' = Started(r), UNCHANGED <<disk, folder, rows, snap, author, origin, unsure>>
    PROVE  VaultInv'
<1> DEFINE o2 == [Idle EXCEPT !.kind = k, !.pc = "enter", !.act = r, !.src = f,
                          !.goal = Only(f, v), !.seen = Only(f, disk[f])]
<1>1. VaultTyped /\ Loop \in VaultThreads /\ disk[f] \in State
  BY DEF VaultInv, VaultThreads, VaultTyped
<1>2. Begin(Loop, o2)
  OBVIOUS
<1>3. /\ o2.pc = "enter" /\ o2.kind = k /\ o2.act = r /\ o2.src = f
      /\ o2.goal = Only(f, v) /\ o2.seen = Only(f, disk[f]) /\ o2.before = <<>> /\ o2.held = {}
      /\ o2.mode = "none" /\ DOMAIN o2 = Fields
  BY DEF Idle, Fields
<1> HIDE DEF o2
<1>4. DOMAIN Only(f, v) = {f} /\ Part(Only(f, v)) /\ Part(Only(f, disk[f])) /\ Part(<<>>)
  BY <1>1 DEF Only, Part
<1>5. OpTyped(o2)
  BY <1>3, <1>4 DEF OpTyped
<1>6. act' \in [Acts -> ActT] /\ act'[r].status = "running" /\ \A a \in Tasks : act'[a] = act[a]
  BY <1>1, StartedActs, RequestsAreNoTasks
<1>7. JobOK(Loop, o2, act', rows', author')
  <2>1. \E g : DOMAIN o2.goal = {o2.src, g}
    <3>1. DOMAIN o2.goal = {o2.src, f}
      BY <1>3, <1>4
    <3>2. QED
      BY <3>1
  <2>2. Writing(o2, act')
    BY <1>3, <1>6, <2>1 DEF Writing
  <2>3. QED
    BY <1>3, <2>2 DEF JobOK, EditorCall
<1>8. VaultTyped'
  BY <1>1, <1>2, <1>5, <1>6, OpStepTyped DEF VaultTyped
<1>9. QED
  BY <1>2, <1>6, <1>7, <1>8, QuietLoop

\* A save begins within the invariant.
LEMMA SaveStep ==
    ASSUME VaultInv, NEW r \in Requests, NEW f \in Files, NEW v \in Written, Save(r, f, v)
    PROVE  VaultInv'
<1>1. v \in State
  BY FilesAssumption DEF State
<1>2. QED
  BY <1>1, EditorStep DEF Save, ghosts

\* The restoration of a revision begins within the invariant.
LEMMA RestoreStep ==
    ASSUME VaultInv, NEW r \in Requests, NEW a \in Acts, NEW f \in Files, Restore(r, a, f)
    PROVE  VaultInv'
<1>1. snap[a][f] \in State
  BY DEF Restore, VaultInv, VaultTyped
<1>2. QED
  BY <1>1, EditorStep DEF Restore, ghosts

\* An edit by another program keeps the invariant: it is the author then.
LEMMA ExternalStep ==
    ASSUME VaultInv, NEW f \in Files, NEW v \in State, ExternalEdit(f, v)
    PROVE  VaultInv'
<1>1. VaultTyped /\ JobsOK /\ Authored /\ Sealed /\ NoFolder
  BY DEF VaultInv
<1>2. /\ disk' = [disk EXCEPT ![f] = v] /\ author' = [author EXCEPT ![f] = External]
      /\ UNCHANGED <<folder, rows, snap, act, op, origin, unsure>>
  BY DEF ExternalEdit
<1>3. External \notin Acts
  BY FilesAssumption DEF Acts
<1>4. \A g \in Files : \/ author'[g] = External
                       \/ author'[g] = author[g] /\ disk'[g] = disk[g]
  BY <1>1, <1>2 DEF VaultTyped
<1>5. VaultTyped'
  <2>1. disk' \in [Files -> State] /\ author' \in [Files -> Acts \cup {None, External}]
    BY <1>1, <1>2 DEF VaultTyped
  <2>2. OneOpEach' /\ \A t \in VaultThreads : OpTyped(op[t])'
    BY <1>1, <1>2 DEF VaultTyped, OpTyped, Part, OneOpEach
  <2>3. QED
    BY <1>1, <1>2, <2>1, <2>2 DEF VaultTyped
<1>6. JobsOK'
  <2>1. ASSUME NEW t \in VaultThreads PROVE JobOK(t, op[t], act, rows, author')
    <3>1. JobOK(t, op[t], act, rows, author) /\ OpTyped(op[t])
      BY <1>1 DEF JobsOK, VaultTyped
    <3>2. op[t].src \in Acts => \A g \in Files : author'[g] = op[t].src => author[g] = op[t].src
      BY <1>3, <1>4
    <3>3. QED
      BY <3>1, <3>2, SameJob
  <2>2. QED
    BY <1>2, <2>1 DEF JobsOK
<1>7. Authored'
  BY <1>1, <1>2, <1>3, <1>4 DEF Authored, Touched, Recording, Acts
<1>8. Sealed'
  <2>1. External \in Tasks => ~IsOver(act, External)
    BY <1>3 DEF Acts
  <2>2. QED
    BY <1>1, <1>2, <1>4, <2>1, SealedByOther
<1>9. NoFolder'
  BY <1>1, <1>2 DEF NoFolder, Touched
<1>10. QED
  BY <1>5, <1>6, <1>7, <1>8, <1>9 DEF VaultInv

-----------------------------------------------------------------------------
(* The restoration of exact states.                                        *)

\* What is known while states are restored.
LEMMA RestoreFacts ==
    ASSUME VaultInv, op[Loop].kind \in Restores, op[Loop].pc # "exclude"
    PROVE  LET o == op[Loop] IN
           /\ Loop \in VaultThreads /\ Loop \notin Workers /\ OpTyped(o) /\ DOMAIN o = Fields
           /\ o.act \in Acts /\ ~IsOver(act, o.act) /\ DOMAIN o.seen = DOMAIN o.goal
           /\ o.pc \in {"apply", "verify", "compensate"} => DOMAIN o.before = DOMAIN o.goal
           /\ o.kind = "taskundo" => TaskUndo(o, act, rows)
           /\ o.kind = "delete" => Delete(o, act)
           /\ o.kind = "undo" => Undo(o, act, rows, author)
<1> DEFINE o == op[Loop]
<1>1. Loop \in VaultThreads /\ Loop \notin Workers /\ VaultTyped /\ JobsOK /\ OpTyped(o)
  BY FilesAssumption DEF VaultInv, VaultThreads, VaultTyped
<1>2. DOMAIN o = Fields
  BY <1>1 DEF OpTyped
<1>3. /\ o.kind = "taskundo" => TaskUndo(o, act, rows)
      /\ o.kind = "delete" => Delete(o, act)
      /\ o.kind = "undo" => Undo(o, act, rows, author)
  BY <1>1, JobByKind DEF Asked
<1>4. /\ o.act \in Acts /\ ~IsOver(act, o.act) /\ DOMAIN o.seen = DOMAIN o.goal
      /\ o.pc \in {"apply", "verify", "compensate"} => DOMAIN o.before = DOMAIN o.goal
  <2>1. CASE o.kind = "taskundo"
    BY <1>3, <2>1 DEF TaskUndo, Acts, IsOver
  <2>2. CASE o.kind \in {"delete", "undo"}
    <3>1. Restoring(o, act)
      BY <1>3, <2>2 DEF Delete, Undo
    <3>2. QED
      BY <3>1 DEF Restoring, Acts, IsOver
  <2>3. QED
    BY <2>1, <2>2 DEF Restores
<1>5. QED
  BY <1>1, <1>2, <1>3, <1>4

\* A restoration that goes on is about the same.
LEMMA RestoreGoesOn ==
    ASSUME VaultInv, op[Loop].kind \in Restores, op[Loop].pc # "exclude", NEW o2, NEW rs, NEW au,
           o2.kind = op[Loop].kind, o2.act = op[Loop].act, o2.src = op[Loop].src,
           o2.goal = op[Loop].goal, o2.seen = op[Loop].seen, o2.back = op[Loop].back,
           o2.pc \in {"apply", "verify", "done", "compensate", "failed", "unsure"},
           o2.kind = "taskundo" => o2.pc # "done",
           o2.pc \in {"apply", "verify", "done", "compensate"} => DOMAIN o2.before = DOMAIN o2.goal,
           o2.kind # "delete" => rs[o2.src] = rows[o2.src],
           o2.kind = "undo" /\ ~o2.back /\ o2.pc \in {"verify", "done"} =>
              \A f \in DOMAIN o2.goal : au[f] # o2.src
    PROVE  JobOK(Loop, o2, act, rs, au)
<1> DEFINE o == op[Loop]
<1>1. CASE o.kind = "taskundo"
  <2>1. TaskUndo(o, act, rows)
    BY <1>1, RestoreFacts
  <2>2. TaskUndo(o2, act, rs)
    BY <1>1, <2>1 DEF TaskUndo
  <2>3. QED
    BY <2>2 DEF JobOK
<1>2. CASE o.kind = "delete"
  <2>1. Delete(o, act)
    BY <1>2, RestoreFacts
  <2>2. Delete(o2, act)
    BY <1>2, <2>1 DEF Delete, Restoring
  <2>3. QED
    BY <2>2 DEF JobOK
<1>3. CASE o.kind = "undo"
  <2>1. Undo(o, act, rows, author)
    BY <1>3, RestoreFacts
  <2>2. Restoring(o2, act)
    BY <1>3, <2>1 DEF Undo, Restoring
  <2>3. Undo(o2, act, rs, au)
    BY <1>3, <2>1, <2>2 DEF Undo
  <2>4. QED
    BY <2>3 DEF JobOK
<1>4. QED
  BY <1>1, <1>2, <1>3 DEF Restores

\* The capture of the states a restoration displaces keeps the invariant.
LEMMA CaptureStep ==
    ASSUME VaultInv, Capture
    PROVE  VaultInv'
<1> DEFINE o == op[Loop]
           good == [o EXCEPT !.pc = "apply", !.before = o.seen]
           bad == [o EXCEPT !.pc = "failed"]
<1>1. o.kind \in Restores /\ o.pc = "capture" /\ UNCHANGED <<disk, folder, rows, act, author, unsure>>
  BY DEF Capture, Going, At
<1>2. /\ VaultTyped /\ Loop \in VaultThreads /\ Loop \notin Workers /\ OpTyped(o) /\ DOMAIN o = Fields
      /\ o.act \in Acts /\ DOMAIN o.seen = DOMAIN o.goal
  BY <1>1, RestoreFacts DEF VaultInv
<1>3. CASE Begin(Loop, good) /\ ((snap' = snap /\ origin' = origin) \/
              (snap' = Capturing(o.act, DOMAIN o.goal) /\ origin' = Finding(o.act, DOMAIN o.goal)))
  <2>1. /\ good.pc = "apply" /\ good.kind = o.kind /\ good.act = o.act /\ good.src = o.src
        /\ good.goal = o.goal /\ good.seen = o.seen /\ good.before = o.seen /\ good.held = o.held
        /\ good.mode = o.mode /\ good.back = o.back /\ DOMAIN good = Fields
    BY <1>2 DEF Fields
  <2> HIDE DEF o, good
  <2>2. OpTyped(good)
    BY <1>2, <2>1 DEF OpTyped
  <2>3. JobOK(Loop, good, act, rows, author)
    BY <1>1, <1>2, <2>1, RestoreGoesOn DEF o
  <2>4. snap' \in [Acts -> [Files -> State \cup {None}]] /\ origin' \in [Acts -> [Files -> State \cup {None}]]
    <3>1. CASE snap' = snap /\ origin' = origin
      BY <1>2, <3>1 DEF VaultTyped
    <3>2. CASE snap' = Capturing(o.act, DOMAIN o.goal) /\ origin' = Finding(o.act, DOMAIN o.goal)
      BY <1>2, <3>2, CapturingTyped
    <3>3. QED
      BY <1>3, <3>1, <3>2
  <2>5. VaultTyped'
    BY <1>1, <1>2, <1>3, <2>2, <2>4, OpStepTyped DEF VaultTyped
  <2>6. QED
    BY <1>1, <1>2, <1>3, <2>3, <2>5, QuietThread
<1>4. CASE Begin(Loop, bad) /\ UNCHANGED <<snap, origin>>
  <2>1. /\ bad.pc = "failed" /\ bad.kind = o.kind /\ bad.act = o.act /\ bad.src = o.src
        /\ bad.goal = o.goal /\ bad.seen = o.seen /\ bad.before = o.before /\ bad.held = o.held
        /\ bad.mode = o.mode /\ bad.back = o.back /\ DOMAIN bad = Fields
    BY <1>2 DEF Fields
  <2> HIDE DEF o, bad
  <2>2. OpTyped(bad)
    BY <1>2, <2>1 DEF OpTyped
  <2>3. JobOK(Loop, bad, act, rows, author)
    BY <1>1, <1>2, <2>1, RestoreGoesOn DEF o
  <2>4. VaultTyped'
    BY <1>1, <1>2, <1>4, <2>2, OpStepTyped DEF VaultTyped
  <2>5. QED
    BY <1>1, <1>2, <1>4, <2>3, <2>4, QuietThread
<1>5. QED
  BY <1>3, <1>4 DEF Capture, Continue

\* A restoration writes some of its files.
LEMMA LoopWrites ==
    ASSUME VaultInv, op[Loop].kind \in Restores, op[Loop].pc # "exclude",
           NEW o2, Begin(Loop, o2), OpTyped(o2), JobOK(Loop, o2, act, rows, author'),
           NEW new, Part(new), DOMAIN new \subseteq DOMAIN op[Loop].goal,
           disk' = Changed(new), folder' = WithParents(Changed(new)),
           author' = [f \in Files |-> IF f \in DOMAIN new THEN op[Loop].act ELSE author[f]],
           UNCHANGED <<rows, snap, act, origin, unsure>>
    PROVE  VaultInv'
<1> DEFINE o == op[Loop]
<1>1. /\ VaultTyped /\ JobsOK /\ Authored /\ Sealed /\ NoFolder
      /\ Loop \in VaultThreads /\ o.act \in Acts /\ ~IsOver(act, o.act)
      /\ o.kind = "taskundo" => TaskUndo(o, act, rows)
      /\ o.kind = "delete" => Delete(o, act)
      /\ o.kind = "undo" => Undo(o, act, rows, author)
  BY RestoreFacts DEF VaultInv
<1>2. VaultTyped'
  <2>1. disk' \in [Files -> State]
    BY <1>1 DEF Changed, Part, VaultTyped
  <2>2. folder' \in BOOLEAN
    BY <1>1 DEF WithParents, VaultTyped
  <2>3. author' \in [Files -> Acts \cup {None, External}]
    BY <1>1 DEF VaultTyped
  <2>4. QED
    BY <1>1, <2>1, <2>2, <2>3, OpStepTyped DEF VaultTyped
<1>3. JobsOK'
  BY <1>1, LoopKeepsJobs
<1>4. \A f \in Files : \/ author'[f] = o.act /\ f \in DOMAIN new
                       \/ author'[f] = author[f] /\ disk'[f] = disk[f]
  BY DEF Changed
<1>5. Sealed'
  BY <1>1, <1>4, SealedByOther
<1>6. \A w \in Workers : op'[w] = op[w]
  BY <1>1, PutOp, FilesAssumption DEF VaultThreads
<1>7. Authored'
  <2>1. SUFFICES ASSUME NEW a \in Tasks, NEW f \in Files, author'[f] = a
                 PROVE  f \in Touched(a) \/ <<a, f>> \in unsure \/ Recording(a, f)
    BY <1>6 DEF Authored, Touched, Recording
  <2>2. CASE author'[f] = o.act /\ f \in DOMAIN new
    <3>1. o.act \in Tasks /\ f \in DOMAIN o.goal
      BY <2>1, <2>2
    <3>2. o.kind = "taskundo"
      BY <1>1, <3>1, FilesAssumption DEF Restores, Delete, Undo, Restoring
    <3>3. QED
      BY <1>1, <2>1, <2>2, <3>1, <3>2 DEF TaskUndo, Touched
  <2>3. CASE author'[f] = author[f]
    BY <1>1, <2>1, <2>3 DEF Authored
  <2>4. QED
    BY <1>4, <2>2, <2>3
<1>8. NoFolder'
  BY <1>1 DEF NoFolder, Touched
<1>9. QED
  BY <1>2, <1>3, <1>5, <1>7, <1>8 DEF VaultInv

\* An operation that goes to its next step.
LEMMA PcOnly ==
    ASSUME NEW o, OpTyped(o), NEW p, NEW o2, o2 = [o EXCEPT !.pc = p]
    PROVE  /\ OpTyped(o2) /\ o2.pc = p /\ o2.kind = o.kind /\ o2.act = o.act /\ o2.src = o.src
           /\ o2.goal = o.goal /\ o2.seen = o.seen /\ o2.before = o.before /\ o2.back = o.back
           /\ o2.fold = o.fold /\ o2.made = o.made /\ o2.held = o.held /\ o2.mode = o.mode
<1>1. DOMAIN o = Fields
  BY DEF OpTyped
<1>2. /\ o2.pc = p /\ o2.kind = o.kind /\ o2.act = o.act /\ o2.src = o.src
      /\ o2.goal = o.goal /\ o2.seen = o.seen /\ o2.before = o.before /\ o2.back = o.back
      /\ o2.fold = o.fold /\ o2.made = o.made /\ o2.held = o.held /\ o2.mode = o.mode
      /\ DOMAIN o2 = Fields
  BY <1>1 DEF Fields
<1>3. OpTyped(o2)
  BY <1>2 DEF OpTyped
<1>4. QED
  BY <1>2, <1>3

\* A restoration that only goes to its next step.
LEMMA QuietRestore ==
    ASSUME VaultInv, op[Loop].kind \in Restores, op[Loop].pc \in {"apply", "verify"},
           Begin(Loop, [op[Loop] EXCEPT !.pc = "compensate"]),
           UNCHANGED <<disk, folder, rows, snap, act, author, origin, unsure>>
    PROVE  VaultInv'
<1> DEFINE o == op[Loop]
           o2 == [o EXCEPT !.pc = "compensate"]
<1>1. /\ VaultTyped /\ Loop \in VaultThreads /\ Loop \notin Workers /\ OpTyped(o)
      /\ DOMAIN o.before = DOMAIN o.goal
  BY RestoreFacts DEF VaultInv
<1>2. Begin(Loop, o2)
  OBVIOUS
<1>3. /\ OpTyped(o2) /\ o2.pc = "compensate" /\ o2.kind = o.kind /\ o2.act = o.act /\ o2.src = o.src
      /\ o2.goal = o.goal /\ o2.seen = o.seen /\ o2.before = o.before /\ o2.back = o.back
  BY <1>1, PcOnly
<1> HIDE DEF o2
<1>4. JobOK(Loop, o2, act, rows, author)
  BY <1>1, <1>3, RestoreGoesOn
<1>5. VaultTyped'
  BY <1>1, <1>2, <1>3, OpStepTyped DEF VaultTyped
<1>6. QED
  BY <1>1, <1>2, <1>4, <1>5, QuietThread

\* The writes of a restoration, complete or not, keep the invariant.
LEMMA ApplyStep ==
    ASSUME VaultInv, Apply
    PROVE  VaultInv'
<1> DEFINE o == op[Loop]
           fs == DOMAIN o.goal
<1>1. o.kind \in Restores /\ o.pc = "apply" /\ UNCHANGED <<rows, snap, act, origin, unsure>>
  BY DEF Apply, Going, At
<1>2. CASE Begin(Loop, [o EXCEPT !.pc = "compensate"]) /\ UNCHANGED <<disk, folder, author>>
  BY <1>1, <1>2, QuietRestore
<1>3. CASE Intact(o) /\ \E done \in SUBSET fs :
             /\ disk' = Changed([f \in done |-> Retained(o, f)])
             /\ folder' = WithParents(Changed([f \in done |-> Retained(o, f)]))
             /\ author' = [f \in Files |-> IF f \in done THEN o.act ELSE author[f]]
             /\ Begin(Loop, [o EXCEPT !.pc = IF done = fs THEN "verify" ELSE "compensate"])
  <2>1. PICK done \in SUBSET fs :
             /\ disk' = Changed([f \in done |-> Retained(o, f)])
             /\ folder' = WithParents(Changed([f \in done |-> Retained(o, f)]))
             /\ author' = [f \in Files |-> IF f \in done THEN o.act ELSE author[f]]
             /\ Begin(Loop, [o EXCEPT !.pc = IF done = fs THEN "verify" ELSE "compensate"])
    BY <1>3
  <2> DEFINE new == [f \in done |-> Retained(o, f)]
             p == IF done = fs THEN "verify" ELSE "compensate"
             o2 == [o EXCEPT !.pc = p]
  <2>2. OpTyped(o) /\ DOMAIN o.before = DOMAIN o.goal
        /\ (o.kind = "undo" => Undo(o, act, rows, author))
    BY <1>1, RestoreFacts
  <2>3. Part(new) /\ DOMAIN new = done
    BY <1>3, <2>2 DEF Intact, OpTyped, Part
  <2>4. /\ disk' = Changed(new) /\ folder' = WithParents(Changed(new)) /\ Begin(Loop, o2)
        /\ author' = [f \in Files |-> IF f \in DOMAIN new THEN o.act ELSE author[f]]
    BY <2>1
  <2>5. /\ OpTyped(o2) /\ o2.pc = p /\ o2.kind = o.kind /\ o2.act = o.act /\ o2.src = o.src
        /\ o2.goal = o.goal /\ o2.seen = o.seen /\ o2.before = o.before /\ o2.back = o.back
    BY <2>2, PcOnly
  <2>6. p \in {"verify", "compensate"} /\ (p = "verify" => done = fs)
    OBVIOUS
  <2>7. fs \subseteq Files
    BY <2>2 DEF OpTyped, Part
  <2> HIDE DEF new, o2, p
  <2>8. o2.kind = "undo" /\ ~o2.back /\ o2.pc \in {"verify", "done"} =>
          \A f \in DOMAIN o2.goal : author'[f] # o2.src
    <3>1. SUFFICES ASSUME o.kind = "undo", p = "verify", NEW f \in fs PROVE author'[f] # o.src
      BY <2>5, <2>6
    <3>2. author'[f] = o.act
      BY <2>1, <2>6, <2>7, <3>1
    <3>3. o.act # o.src
      BY <2>2, <3>1 DEF Undo, Restoring, IsOver
    <3>4. QED
      BY <3>2, <3>3
  <2>9. JobOK(Loop, o2, act, rows, author')
    BY <1>1, <2>2, <2>5, <2>6, <2>8, RestoreGoesOn
  <2>10. QED
    BY <1>1, <2>3, <2>4, <2>5, <2>9, LoopWrites
<1>4. QED
  BY <1>2, <1>3 DEF Apply, Continue

\* The compensation of a restoration keeps the invariant.
LEMMA CompensateStep ==
    ASSUME VaultInv, Compensate
    PROVE  VaultInv'
<1> DEFINE o == op[Loop]
           fs == DOMAIN o.goal
<1>1. o.kind \in Restores /\ o.pc = "compensate" /\ UNCHANGED <<rows, snap, act, origin, unsure>>
  BY DEF Compensate, Going, At
<1>2. PICK done \in SUBSET fs :
             /\ disk' = Compensated(o, done) /\ folder' = WithParents(Compensated(o, done))
             /\ author' = [f \in Files |-> IF f \in done THEN o.act ELSE author[f]]
             /\ Begin(Loop, [o EXCEPT !.pc = IF done = fs THEN "failed" ELSE "unsure"])
  BY DEF Compensate, Continue
<1> DEFINE new == [f \in done |-> o.before[f]]
           p == IF done = fs THEN "failed" ELSE "unsure"
           o2 == [o EXCEPT !.pc = p]
<1>3. OpTyped(o) /\ DOMAIN o.before = DOMAIN o.goal
  BY <1>1, RestoreFacts
<1>4. Part(new) /\ DOMAIN new = done
  BY <1>3 DEF OpTyped, Part
<1>5. /\ disk' = Changed(new) /\ folder' = WithParents(Changed(new)) /\ Begin(Loop, o2)
      /\ author' = [f \in Files |-> IF f \in DOMAIN new THEN o.act ELSE author[f]]
  BY <1>2 DEF Compensated
<1>6. /\ OpTyped(o2) /\ o2.pc = p /\ o2.kind = o.kind /\ o2.act = o.act /\ o2.src = o.src
      /\ o2.goal = o.goal /\ o2.seen = o.seen /\ o2.before = o.before /\ o2.back = o.back
  BY <1>3, PcOnly
<1>7. p \in {"failed", "unsure"}
  OBVIOUS
<1> HIDE DEF new, o2, p
<1>8. JobOK(Loop, o2, act, rows, author')
  BY <1>1, <1>3, <1>6, <1>7, RestoreGoesOn
<1>9. QED
  BY <1>1, <1>4, <1>5, <1>6, <1>8, LoopWrites

\* The rows of a restoration are the ones of its files.
LEMMA BatchOfFiles ==
    ASSUME NEW o, OpTyped(o), DOMAIN o.before = DOMAIN o.goal
    PROVE  BatchRows(o) \in Seq(RowT) /\ Paths(BatchRows(o)) = DOMAIN o.goal
<1> DEFINE S == DOMAIN o.goal
           n == Cardinality(S)
           s == SeqOf(S)
<1>1. IsFiniteSet(S) /\ S \subseteq Files
  BY FS_Subset, FilesAssumption DEF OpTyped, Part
<1>2. n \in Nat /\ \E m \in [1..n -> S] : \A x \in S : \E i \in 1..n : m[i] = x
  <2>1. n \in Nat /\ ExistsBijection(1..n, S)
    BY <1>1, FS_CardinalityType
  <2>2. PICK m : m \in Bijection(1..n, S)
    BY <2>1 DEF ExistsBijection
  <2>3. m \in [1..n -> S] /\ \A x \in S : \E i \in 1..n : m[i] = x
    BY <2>2 DEF Bijection, Surjection
  <2>4. QED
    BY <2>1, <2>3
<1>3. s \in [1..n -> S] /\ \A x \in S : \E i \in 1..n : s[i] = x
  <2>1. \E m \in [1..n -> S] : \A x \in S : \E i \in DOMAIN m : m[i] = x
    BY <1>2
  <2>2. s \in [1..n -> S] /\ \A x \in S : \E i \in DOMAIN s : s[i] = x
    BY <2>1 DEF SeqOf
  <2>3. QED
    BY <2>2
<1> DEFINE row(f) == Row(f, o.before[f], o.goal[f])
<1>4. BatchRows(o) = [i \in 1..n |-> row(s[i])]
  BY DEF BatchRows
<1>5. \A f \in S : row(f) \in RowT /\ row(f).path = f
  BY DEF Row, RowT, OpTyped, Part
<1> HIDE DEF s, n, S, row
<1>6. BatchRows(o) \in [1..n -> RowT] /\ \A i \in 1..n : BatchRows(o)[i].path = s[i] /\ s[i] \in S
  BY <1>3, <1>4, <1>5
<1>7. BatchRows(o) \in Seq(RowT) /\ DOMAIN BatchRows(o) = 1..n
  BY <1>2, <1>6
<1>8. Paths(BatchRows(o)) = S
  <2>1. Paths(BatchRows(o)) = {BatchRows(o)[i].path : i \in 1..n}
    BY <1>7 DEF Paths
  <2>2. QED
    BY <1>3, <1>6, <2>1
<1>9. QED
  BY <1>7, <1>8 DEF S

\* A task that does not run has no call under way.
LEMMA NoWorkerOn ==
    ASSUME JobsOK, NEW a \in Tasks, act[a].status # "running", NEW w \in Workers
    PROVE  op[w].act # a
<1>1. JobOK(w, op[w], act, rows, author) /\ w # Loop
  BY FilesAssumption DEF JobsOK, VaultThreads
<1>2. op[w] = Idle \/ ToolCall(op[w], act)
  BY <1>1 DEF JobOK
<1>3. CASE op[w] = Idle
  BY <1>3, FilesAssumption DEF Idle
<1>4. CASE ToolCall(op[w], act)
  BY <1>4 DEF ToolCall, Writing
<1>5. QED
  BY <1>2, <1>3, <1>4

\* A task may be marked as rolled back when it does not run any more and what
\* it changed is as it was.
LEMMA MarkStep ==
    ASSUME VaultInv, Begin(Loop, Idle), VaultTyped', NEW x,
           UNCHANGED <<disk, author, unsure>>, \A a \in Tasks : rows'[a] = rows[a],
           \A a \in Tasks \ {x} : act'[a] = act[a],
           x \in Tasks => /\ act[x].status # "running" /\ IsOver(act', x)
                          /\ \A f \in Files : author[f] = x => <<x, f>> \in unsure \/ disk[f] = FirstBefore(x, f)
    PROVE  VaultInv'
<1>1. VaultTyped /\ JobsOK /\ Authored /\ Sealed /\ NoFolder
  BY DEF VaultInv
<1>2. JobOK(Loop, Idle, act', rows', author')
  BY DEF JobOK
<1>3. JobsOK'
  <2>1. \A w \in Workers : op[w].act \in Tasks /\ act[op[w].act].status = "running" =>
          act'[op[w].act].status = "running"
    OBVIOUS
  <2>2. QED
    BY <1>1, <1>2, <2>1, LoopKeepsJobs
<1>4. \A w \in Workers : op'[w] = op[w]
  BY <1>1, PutOp, FilesAssumption DEF VaultThreads
<1>5. \A a \in Tasks : Touched(a)' = Touched(a) /\ \A f : FirstBefore(a, f)' = FirstBefore(a, f)
  BY DEF Touched, FirstBefore
<1>6. Authored'
  <2>1. \A a \in Tasks, f \in Files : Recording(a, f)' <=> Recording(a, f)
    BY <1>4 DEF Recording
  <2>2. QED
    BY <1>1, <1>5, <2>1 DEF Authored
<1>7. Sealed'
  <2>1. SUFFICES ASSUME NEW a \in Tasks, act'[a].undone
                 PROVE  /\ IsOver(act', a)
                        /\ \A f \in Files : author[f] = a =>
                             <<a, f>> \in unsure \/ disk[f] = FirstBefore(a, f)
    BY <1>5 DEF Sealed
  <2>2. CASE a = x
    BY <2>2
  <2>3. CASE a # x
    <3>1. act'[a] = act[a]
      BY <2>3
    <3>2. QED
      BY <1>1, <2>1, <3>1 DEF Sealed, IsOver
  <2>4. QED
    BY <2>2, <2>3
<1>8. NoFolder'
  BY <1>1, <1>5 DEF NoFolder
<1>9. QED
  BY <1>1, <1>3, <1>6, <1>7, <1>8 DEF VaultInv

\* The rollback of a task ends: its status changes, and it has no call under way.
LEMMA TaskUndoEnds ==
    ASSUME VaultInv, op[Loop].kind = "taskundo", Begin(Loop, Idle),
           act' = Ended(op[Loop].act, "failed"),
           UNCHANGED <<disk, folder, rows, snap, author, origin, unsure>>
    PROVE  VaultInv'
<1> DEFINE a == op[Loop].act
<1>1. VaultTyped /\ JobsOK /\ Loop \in VaultThreads
  BY DEF VaultInv, VaultThreads
<1>2. TaskUndo(op[Loop], act, rows)
  BY <1>1, JobByKind
<1>3. a \in Tasks /\ a \in Acts /\ act[a].status = "ending"
  BY <1>2 DEF TaskUndo, Acts
<1>4. /\ act' \in [Acts -> ActT] /\ act'[a].undone = act[a].undone
      /\ \A b \in Acts \ {a} : act'[b] = act[b]
  BY <1>1, <1>3, EndedActs
<1>5. JobOK(Loop, Idle, act', rows', author')
  BY DEF JobOK
<1>6. VaultTyped'
  BY <1>1, <1>4, OpStepTyped, IdleTyped DEF VaultTyped
<1>7. ~IsOver(act, a) /\ \A w \in Workers : op[w].act # a
  BY <1>1, <1>3, NoWorkerOn DEF IsOver
<1>8. \A b \in Tasks : \/ act'[b] = act[b]
                       \/ /\ act'[b].undone = act[b].undone /\ ~IsOver(act, b)
                          /\ \A w \in Workers : op[w].act # b
  BY <1>4, <1>7 DEF Acts
<1>9. QED
  BY <1>5, <1>6, <1>8, QuietLoop

\* The end of a verified restoration keeps the invariant, and a marked task is sealed.
LEMMA VerifyStep ==
    ASSUME VaultInv, Verify
    PROVE  VaultInv'
<1> DEFINE o == op[Loop]
           right == \A f \in DOMAIN o.goal : disk[f] = o.goal[f]
           o2 == [o EXCEPT !.pc = "done"]
<1>1. /\ o.kind \in Restores /\ o.pc = "verify"
      /\ UNCHANGED <<disk, folder, snap, author, origin, unsure>>
  BY DEF Verify, Going, At, ghosts
<1>2. /\ VaultTyped /\ JobsOK /\ Authored /\ Loop \in VaultThreads /\ OpTyped(o)
      /\ o.act \in Acts /\ DOMAIN o.before = DOMAIN o.goal
      /\ o.kind = "taskundo" => TaskUndo(o, act, rows)
      /\ o.kind = "delete" => Delete(o, act)
      /\ o.kind = "undo" => Undo(o, act, rows, author)
  BY <1>1, RestoreFacts DEF VaultInv
<1>3. CASE Begin(Loop, [o EXCEPT !.pc = "compensate"]) /\ UNCHANGED <<act, rows>>
  BY <1>1, <1>3, QuietRestore
<1>4. CASE o.kind = "taskundo" /\ act' = Ended(o.act, "failed") /\ Begin(Loop, Idle) /\ UNCHANGED rows
  BY <1>1, <1>4, TaskUndoEnds
<1>5. CASE right /\ o.kind = "taskundo" /\ act' = RolledBack(o.act) /\ Begin(Loop, Idle) /\ UNCHANGED rows
  <2>1. TaskUndo(o, act, rows) /\ o.act \in Tasks /\ act[o.act].status = "ending"
    BY <1>2, <1>5 DEF TaskUndo
  <2>2. /\ act' \in [Acts -> ActT] /\ IsOver(act', o.act)
        /\ \A b \in Acts \ {o.act} : act'[b] = act[b]
    BY <1>2, <1>5 DEF VaultTyped, RolledBack, ActT, IsOver
  <2>3. VaultTyped'
    BY <1>1, <1>2, <1>5, <2>2, OpStepTyped, IdleTyped DEF VaultTyped
  <2>4. ASSUME NEW f \in Files, author[f] = o.act
        PROVE  <<o.act, f>> \in unsure \/ disk[f] = FirstBefore(o.act, f)
    <3>1. ~Recording(o.act, f)
      BY <1>2, <2>1, NoWorkerOn DEF Recording
    <3>2. f \in Touched(o.act) \/ <<o.act, f>> \in unsure
      BY <1>2, <2>1, <2>4, <3>1 DEF Authored
    <3>3. CASE f \in Touched(o.act)
      <4>1. f \in DOMAIN o.goal /\ o.goal[f] = FirstBefore(o.act, f)
        BY <2>1, <3>3 DEF TaskUndo, Touched, FirstBefore
      <4>2. QED
        BY <1>5, <4>1
    <3>4. QED
      BY <3>2, <3>3
  <2>5. \A b \in Tasks \ {o.act} : act'[b] = act[b]
    BY <2>2 DEF Acts
  <2> HIDE DEF o
  <2>6. QED
    BY <1>1, <1>5, <2>1, <2>2, <2>3, <2>4, <2>5, MarkStep
<1>6. CASE o.kind # "taskundo" /\ rows' = Recorded(o.act, BatchRows(o)) /\ Begin(Loop, o2) /\ UNCHANGED act
  <2>1. /\ OpTyped(o2) /\ o2.pc = "done" /\ o2.kind = o.kind /\ o2.act = o.act /\ o2.src = o.src
        /\ o2.goal = o.goal /\ o2.seen = o.seen /\ o2.before = o.before /\ o2.back = o.back
    BY <1>2, PcOnly
  <2>2. o.act \in Requests /\ o.act \notin Tasks
        /\ (o.kind = "undo" => o.src # o.act /\ o.src \in Acts)
    BY <1>1, <1>2, <1>6, FilesAssumption DEF Restores, Delete, Undo, Restoring, IsOver
  <2>3. BatchRows(o) \in Seq(RowT)
    BY <1>2, BatchOfFiles
  <2> HIDE DEF o, o2
  <2>4. rows' \in [Acts -> Seq(RowT)] /\ \A b \in Acts \ {o.act} : rows'[b] = rows[b]
    BY <1>2, <1>6, <2>3, RecordedRows
  <2>5. o2.kind = "undo" /\ ~o2.back /\ o2.pc \in {"verify", "done"} =>
          \A f \in DOMAIN o2.goal : author[f] # o2.src
    BY <1>1, <1>2, <2>1 DEF Undo
  <2>6. o2.kind # "delete" => rows'[o2.src] = rows[o2.src]
    BY <1>1, <1>6, <2>1, <2>2, <2>4 DEF Restores
  <2>7. JobOK(Loop, o2, act, rows', author)
    BY <1>1, <1>2, <1>6, <2>1, <2>5, <2>6, RestoreGoesOn DEF o
  <2>8. VaultTyped'
    BY <1>1, <1>2, <1>6, <2>1, <2>4, OpStepTyped DEF VaultTyped
  <2>9. \A a \in Tasks : rows'[a] = rows[a]
    BY <2>2, <2>4 DEF Acts
  <2>10. JobOK(Loop, o2, act', rows', author')
    BY <1>1, <1>6, <2>7
  <2>11. QED
    BY <1>1, <1>6, <2>8, <2>9, <2>10, QuietLoop
<1>7. QED
  BY <1>3, <1>4, <1>5, <1>6 DEF Verify, Continue

-----------------------------------------------------------------------------
(* A task ends.                                                            *)

\* What the rows of an activity ask for.
LEMMA PlanTyped ==
    ASSUME VaultTyped, NEW a \in Acts, NEW fs, fs \subseteq Touched(a) \ {Folder}
    PROVE  /\ Part([f \in fs |-> FirstBefore(a, f)]) /\ Part([f \in fs |-> LastAfter(a, f)])
           /\ fs \subseteq Files
<1>1. rows[a] \in Seq(RowT)
  BY DEF VaultTyped
<1>2. \A f \in fs : f \in Files /\ FirstBefore(a, f) \in State /\ LastAfter(a, f) \in State
  BY <1>1, StatesOfRows DEF Touched, FirstBefore, LastAfter
<1>3. QED
  BY <1>2 DEF Part

\* A task that ends, or goes on to its rollback, keeps the invariant.
LEMMA EndTaskStep ==
    ASSUME VaultInv, NEW a \in Tasks, NEW outcome \in {"completed", "failed"}, EndTask(a, outcome)
    PROVE  VaultInv'
<1>1. /\ VaultTyped /\ JobsOK /\ NoFolder /\ Loop \in VaultThreads /\ a \in Acts
      /\ act[a].status = "running" /\ op[Loop] = Idle
      /\ ~IsOver(act, a) /\ \A w \in Workers : op[w].act # a
      /\ UNCHANGED <<disk, folder, rows, snap, author, origin, unsure>>
  BY DEF VaultInv, VaultThreads, Acts, EndTask, Settled, IsOver, ghosts
<1>2. CASE act' = Ended(a, outcome) /\ UNCHANGED op
  <2>1. /\ act' \in [Acts -> ActT] /\ act'[a].undone = act[a].undone
        /\ \A b \in Acts \ {a} : act'[b] = act[b]
    BY <1>1, <1>2, EndedActs
  <2>2. Begin(Loop, Idle)
    <3>1. op = [t \in VaultThreads |-> op[t]] /\ op[Loop] = Idle
      BY <1>1 DEF VaultTyped, OneOpEach
    <3>2. op = [op EXCEPT ![Loop] = Idle]
      BY <3>1
    <3>3. QED
      BY <1>2, <3>2 DEF Begin
  <2>3. JobOK(Loop, Idle, act', rows', author')
    BY DEF JobOK
  <2>4. VaultTyped'
    BY <1>1, <2>1, <2>2, OpStepTyped, IdleTyped DEF VaultTyped
  <2>5. \A b \in Tasks : \/ act'[b] = act[b]
                         \/ /\ act'[b].undone = act[b].undone /\ ~IsOver(act, b)
                            /\ \A w \in Workers : op[w].act # b
    BY <1>1, <2>1 DEF Acts
  <2>6. QED
    BY <1>1, <2>2, <2>3, <2>4, <2>5, QuietLoop
<1> DEFINE goal2 == [f \in Touched(a) |-> FirstBefore(a, f)]
           seen2 == [f \in Touched(a) |-> LastAfter(a, f)]
           o2 == [Idle EXCEPT !.kind = "taskundo", !.pc = "enter", !.act = a, !.src = a,
                              !.goal = goal2, !.seen = seen2]
<1>3. CASE act' = [act EXCEPT ![a].status = "ending"] /\ Begin(Loop, o2)
  <2>1. /\ act' \in [Acts -> ActT] /\ act'[a].undone = act[a].undone /\ act'[a].status = "ending"
        /\ \A b \in Acts \ {a} : act'[b] = act[b]
    BY <1>1, <1>3 DEF VaultTyped, ActT
  <2>2. /\ o2.pc = "enter" /\ o2.kind = "taskundo" /\ o2.act = a /\ o2.src = a
        /\ o2.goal = goal2 /\ o2.seen = seen2 /\ o2.before = <<>> /\ o2.held = {}
        /\ o2.mode = "none" /\ o2.back = FALSE /\ DOMAIN o2 = Fields
    BY DEF Idle, Fields
  <2>3. Part(goal2) /\ Part(seen2) /\ Part(<<>>)
    <3>1. Touched(a) \subseteq Touched(a) \ {Folder}
      BY <1>1 DEF NoFolder
    <3>2. Part(<<>>)
      BY DEF Part
    <3>3. QED
      BY <1>1, <3>1, <3>2, PlanTyped
  <2>4. /\ DOMAIN goal2 = Paths(rows[a]) /\ DOMAIN seen2 = Paths(rows[a])
        /\ \A f \in DOMAIN goal2 : goal2[f] = rows[a][FirstOf(rows[a], f)].before
    BY DEF Touched, FirstBefore
  <2> HIDE DEF o2, goal2, seen2
  <2>5. OpTyped(o2)
    BY <2>2, <2>3 DEF OpTyped
  <2>6. TaskUndo(o2, act', rows')
    BY <1>1, <2>1, <2>2, <2>4 DEF TaskUndo
  <2>7. JobOK(Loop, o2, act', rows', author')
    BY <2>6 DEF JobOK
  <2>8. VaultTyped'
    BY <1>1, <1>3, <2>1, <2>5, OpStepTyped DEF VaultTyped
  <2>9. \A b \in Tasks : \/ act'[b] = act[b]
                         \/ /\ act'[b].undone = act[b].undone /\ ~IsOver(act, b)
                            /\ \A w \in Workers : op[w].act # b
    BY <1>1, <2>1 DEF Acts
  <2>10. QED
    BY <1>1, <1>3, <2>7, <2>8, <2>9, QuietLoop
<1>4. QED
  BY <1>2, <1>3 DEF EndTask, Continue

\* A task whose rollback failed ends within the invariant.
LEMMA TaskUndoFailedStep ==
    ASSUME VaultInv, TaskUndoFailed
    PROVE  VaultInv'
BY TaskUndoEnds DEF TaskUndoFailed, At, Continue, ghosts

-----------------------------------------------------------------------------
(* Requests that change the hierarchy.                                     *)

\* The row of a folder, if any, is the request's.
LEMMA FolderRows ==
    ASSUME VaultTyped, NEW r \in Requests, NEW x \in Marks, NEW y \in Marks,
           rows' = rows \/ rows' = Recorded(r, <<Row(Folder, x, y)>>)
    PROVE  rows' \in [Acts -> Seq(RowT)] /\ \A b \in Acts \ {r} : rows'[b] = rows[b]
<1>1. <<Row(Folder, x, y)>> \in Seq(RowT) /\ r \in Acts
  BY DEF Row, RowT, Acts
<1>2. CASE rows' = rows
  BY <1>2 DEF VaultTyped
<1>3. CASE rows' = Recorded(r, <<Row(Folder, x, y)>>)
  <2> DEFINE new == <<Row(Folder, x, y)>>
  <2>1. new \in Seq(RowT) /\ rows' = Recorded(r, new)
    BY <1>1, <1>3
  <2> HIDE DEF new
  <2>2. QED
    BY <1>1, <2>1, RecordedRows
<1>4. QED
  BY <1>2, <1>3

\* A request that waits for the hierarchy keeps the invariant.
LEMMA AskStep ==
    ASSUME VaultInv, NEW r \in Requests, NEW k \in {"undo", "delete"}, NEW src, Ask(r, k, src)
    PROVE  VaultInv'
<1> DEFINE o2 == [Idle EXCEPT !.kind = k, !.pc = "exclude", !.act = r, !.src = src]
<1>1. VaultTyped /\ Loop \in VaultThreads /\ Loop \notin Workers
  BY FilesAssumption DEF VaultInv, VaultThreads
<1>2. /\ Begin(Loop, o2) /\ act[r].status = "none" /\ (k = "undo" => src \in Acts)
      /\ UNCHANGED <<disk, folder, rows, snap, act, author, origin, unsure>>
  BY DEF Ask, Continue, Fresh, ghosts
<1>3. /\ o2.pc = "exclude" /\ o2.kind = k /\ o2.act = r /\ o2.src = src
      /\ o2.goal = <<>> /\ o2.seen = <<>> /\ o2.before = <<>> /\ o2.held = {}
      /\ o2.mode = "none" /\ o2.back = FALSE /\ DOMAIN o2 = Fields
  BY DEF Idle, Fields
<1> HIDE DEF o2
<1>4. OpTyped(o2)
  BY <1>3 DEF OpTyped, Part
<1>5. JobOK(Loop, o2, act, rows, author)
  <2>1. Asked(o2, act)
    BY <1>2, <1>3 DEF Asked
  <2>2. QED
    BY <2>1 DEF JobOK
<1>6. VaultTyped'
  BY <1>1, <1>2, <1>4, OpStepTyped DEF VaultTyped
<1>7. QED
  BY <1>1, <1>2, <1>5, <1>6, QuietThread

\* A request ends.
LEMMA RequestEnds ==
    ASSUME VaultInv, op[Loop].kind \in {"delete", "undo"}, Begin(Loop, Idle),
           NEW st \in {"completed", "failed"}, act' = Ended(op[Loop].act, st) \/ act' = act,
           NEW x \in Marks, NEW y \in Marks,
           rows' = rows \/ rows' = Recorded(op[Loop].act, <<Row(Folder, x, y)>>),
           folder' \in BOOLEAN, unsure \subseteq unsure', unsure' \subseteq Acts \X (Files \cup {Folder}),
           UNCHANGED <<disk, snap, author, origin>>
    PROVE  VaultInv'
<1> DEFINE r == op[Loop].act
<1>1. VaultTyped /\ JobsOK /\ Loop \in VaultThreads
  BY DEF VaultInv, VaultThreads
<1>2. r \in Requests
  BY <1>1, JobByKind DEF Asked, Delete, Undo, Restoring
<1>3. r \in Acts /\ r \notin Tasks
  BY <1>1, <1>2, RequestsAreNoTasks
<1>4. rows' \in [Acts -> Seq(RowT)] /\ \A a \in Tasks : rows'[a] = rows[a]
  BY <1>1, <1>2, <1>3, FolderRows DEF Acts
<1>5. act' \in [Acts -> ActT] /\ \A a \in Tasks : act'[a] = act[a]
  BY <1>1, <1>2, <1>3, EndedActs, RequestsAreNoTasks DEF VaultTyped
<1>6. JobOK(Loop, Idle, act', rows', author')
  BY DEF JobOK
<1>7. VaultTyped'
  BY <1>1, <1>4, <1>5, OpStepTyped, IdleTyped DEF VaultTyped
<1>8. QED
  BY <1>4, <1>5, <1>6, <1>7, QuietLoop

\* The plan of a deletion keeps the invariant.
LEMMA DeletePlanStep ==
    ASSUME VaultInv, DeletePlan
    PROVE  VaultInv'
<1> DEFINE o == op[Loop]
           fs == {f \in Files : disk[f] # Absent
                    /\ (f = o.src \/ (o.src = Folder /\ f \in InFolder))}
           goal2 == [f \in fs |-> Absent]
           seen2 == [f \in fs |-> disk[f]]
           fold2 == IF o.src = Folder THEN "remove" ELSE "keep"
           new == [o EXCEPT !.mode = "write", !.goal = goal2, !.seen = seen2, !.fold = fold2]
           o2 == [new EXCEPT !.pc = FirstStep(new)]
<1>1. /\ VaultTyped /\ JobsOK /\ Loop \in VaultThreads /\ OpTyped(o) /\ DOMAIN o = Fields
      /\ o.kind = "delete" /\ o.pc = "exclude"
      /\ UNCHANGED <<disk, folder, rows, snap, author, origin, unsure>>
  BY DEF VaultInv, VaultThreads, VaultTyped, OpTyped, DeletePlan, At, ghosts
<1>2. Asked(o, act) /\ o.act \in Requests
  BY <1>1, JobByKind DEF Asked, Delete, Restoring
<1>3. CASE Begin(Loop, Idle) /\ UNCHANGED act
  <2>1. unsure \subseteq Acts \X (Files \cup {Folder}) /\ folder \in BOOLEAN /\ Absent \in Marks
    BY <1>1 DEF VaultTyped, Marks
  <2>2. QED
    BY <1>1, <1>3, <2>1, RequestEnds
<1>4. CASE Begin(Loop, o2) /\ act' = Started(o.act)
  <2>1. /\ new.pc = o.pc /\ new.kind = o.kind /\ new.act = o.act /\ new.src = o.src
        /\ new.goal = goal2 /\ new.seen = seen2 /\ new.before = o.before /\ new.held = o.held
        /\ new.mode = "write" /\ new.back = o.back /\ DOMAIN new = Fields
    BY <1>1 DEF Fields
  <2>2. Part(goal2) /\ Part(seen2) /\ DOMAIN goal2 = DOMAIN seen2
    BY <1>1 DEF Part, VaultTyped, State
  <2>3. goal2 = <<>> => DOMAIN goal2 = {}
    OBVIOUS
  <2> HIDE DEF o, new, goal2, seen2
  <2>4. OpTyped(new)
    BY <1>1, <2>1, <2>2 DEF OpTyped
  <2>5. /\ OpTyped(o2) /\ o2.pc = FirstStep(new) /\ o2.kind = o.kind /\ o2.act = o.act
        /\ o2.goal = goal2 /\ o2.seen = seen2 /\ o2.before = o.before /\ o2.back = o.back
    BY <2>1, <2>4, PcOnly
  <2>6. o2.pc = "capture" \/ (o2.pc = "done" /\ DOMAIN goal2 = {})
    BY <2>1, <2>3, <2>5 DEF FirstStep
  <2> HIDE DEF o2
  <2>7. DOMAIN o.before = {} /\ ~o.back
    BY <1>2 DEF Asked
  <2>8. act' \in [Acts -> ActT] /\ act'[o.act].status = "running" /\ \A a \in Tasks : act'[a] = act[a]
    BY <1>1, <1>2, <1>4, StartedActs, RequestsAreNoTasks
  <2>9. Delete(o2, act')
    BY <1>1, <1>2, <2>2, <2>5, <2>6, <2>7, <2>8 DEF Delete, Restoring
  <2>10. JobOK(Loop, o2, act', rows', author')
    BY <2>9 DEF JobOK
  <2>11. VaultTyped'
    BY <1>1, <1>4, <2>5, <2>8, OpStepTyped DEF VaultTyped
  <2>12. QED
    BY <1>1, <1>4, <2>8, <2>10, <2>11, QuietLoop
<1>5. QED
  BY <1>3, <1>4 DEF DeletePlan, Continue

\* The plan of a rollback keeps the invariant.
LEMMA UndoPlanStep ==
    ASSUME VaultInv, UndoPlan
    PROVE  VaultInv'
<1> DEFINE o == op[Loop]
           a == o.src
           fs == Touched(a) \ {Folder}
           fold2 == IF Folder \notin Touched(a) \/ FirstBefore(a, Folder) = LastAfter(a, Folder)
                    THEN "keep" ELSE IF FirstBefore(a, Folder) = Absent THEN "remove" ELSE "make"
           goal2 == [f \in fs |-> FirstBefore(a, f)]
           seen2 == [f \in fs |-> LastAfter(a, f)]
           new == [o EXCEPT !.mode = "write", !.fold = fold2, !.made = (fold2 = "make"),
                            !.goal = goal2, !.seen = seen2]
           o2 == [new EXCEPT !.pc = FirstStep(new)]
<1>1. /\ VaultTyped /\ JobsOK /\ Loop \in VaultThreads /\ OpTyped(o) /\ DOMAIN o = Fields
      /\ o.kind = "undo" /\ o.pc = "exclude"
      /\ UNCHANGED <<disk, snap, author, origin, unsure>>
  BY DEF VaultInv, VaultThreads, VaultTyped, OpTyped, UndoPlan, At, ghosts
<1>2. Asked(o, act) /\ o.act \in Requests /\ a \in Acts /\ act[o.act].status = "none"
  BY <1>1, JobByKind DEF Asked, Undo, Restoring
<1>3. Absent \in Marks /\ "here" \in Marks
  BY DEF Marks
<1>4. CASE Begin(Loop, Idle) /\ UNCHANGED <<act, folder, rows>>
  <2>1. unsure \subseteq Acts \X (Files \cup {Folder}) /\ folder \in BOOLEAN
    BY <1>1 DEF VaultTyped
  <2>2. QED
    BY <1>1, <1>3, <1>4, <2>1, RequestEnds
<1>5. CASE /\ CanUndo(a) /\ act' = Started(o.act) /\ folder' = (folder \/ fold2 = "make")
           /\ rows' = IF fold2 = "make" THEN Recorded(o.act, <<Row(Folder, Absent, "here")>>) ELSE rows
           /\ Begin(Loop, o2)
  <2>1. /\ new.pc = o.pc /\ new.kind = o.kind /\ new.act = o.act /\ new.src = a
        /\ new.goal = goal2 /\ new.seen = seen2 /\ new.before = o.before /\ new.held = o.held
        /\ new.mode = "write" /\ new.back = o.back /\ DOMAIN new = Fields
    BY <1>1 DEF Fields
  <2>2. Part(goal2) /\ Part(seen2) /\ DOMAIN goal2 = fs /\ DOMAIN seen2 = fs
    BY <1>1, <1>2, PlanTyped
  <2>3. goal2 = <<>> => DOMAIN goal2 = {}
    OBVIOUS
  <2>4. IsOver(act, a) /\ a # o.act
    BY <1>2, <1>5 DEF CanUndo, Over, IsOver
  <2>5. folder' \in BOOLEAN
    BY <1>1, <1>5 DEF VaultTyped
  <2>6. rows' = rows \/ rows' = Recorded(o.act, <<Row(Folder, Absent, "here")>>)
    BY <1>5
  <2> HIDE DEF new, goal2, seen2, fold2
  <2>7. OpTyped(new)
    BY <1>1, <2>1, <2>2 DEF OpTyped
  <2>8. /\ OpTyped(o2) /\ o2.pc = FirstStep(new) /\ o2.kind = o.kind /\ o2.act = o.act /\ o2.src = a
        /\ o2.goal = goal2 /\ o2.seen = seen2 /\ o2.before = o.before /\ o2.back = o.back
    BY <2>1, <2>7, PcOnly
  <2>9. o2.pc = "capture" \/ (o2.pc = "done" /\ DOMAIN goal2 = {})
    BY <2>1, <2>3, <2>8 DEF FirstStep
  <2> HIDE DEF o2, o
  <2>10. DOMAIN o.before = {} /\ ~o.back
    BY <1>2 DEF Asked
  <2>11. /\ act' \in [Acts -> ActT] /\ act'[o.act].status = "running" /\ act'[a] = act[a]
         /\ \A b \in Tasks : act'[b] = act[b]
    BY <1>1, <1>2, <1>5, <2>4, StartedActs, RequestsAreNoTasks
  <2>12. rows' \in [Acts -> Seq(RowT)] /\ rows'[a] = rows[a] /\ \A b \in Tasks : rows'[b] = rows[b]
    <3>1. rows' \in [Acts -> Seq(RowT)] /\ \A b \in Acts \ {o.act} : rows'[b] = rows[b]
      BY <1>1, <1>2, <1>3, <2>6, FolderRows
    <3>2. o.act \notin Tasks
      BY <1>2, FilesAssumption
    <3>3. QED
      BY <1>2, <2>4, <3>1, <3>2 DEF Acts
  <2>13. Restoring(o2, act')
    BY <1>1, <1>2, <2>2, <2>8, <2>9, <2>10, <2>11 DEF Restoring
  <2>14. fs = Paths(rows'[a]) \ {Folder}
    BY <2>12 DEF Touched
  <2>15. Undo(o2, act', rows', author')
    BY <1>1, <1>2, <2>2, <2>4, <2>8, <2>9, <2>11, <2>13, <2>14 DEF Undo, IsOver
  <2>16. JobOK(Loop, o2, act', rows', author')
    BY <2>15 DEF JobOK
  <2>17. VaultTyped'
    BY <1>1, <1>5, <2>5, <2>8, <2>11, <2>12, OpStepTyped DEF VaultTyped
  <2>18. QED
    BY <1>1, <1>5, <2>11, <2>12, <2>16, <2>17, QuietLoop
<1>6. QED
  BY <1>4, <1>5 DEF UndoPlan, Continue

\* The undone activity is marked: none of its files is its own any more.
LEMMA UndoEnds ==
    ASSUME VaultInv, op[Loop].kind = "undo", op[Loop].pc = "done", ~op[Loop].back,
           Begin(Loop, Idle), act' = Marked(op[Loop], TRUE), folder' \in BOOLEAN,
           rows' = rows \/ rows' = Recorded(op[Loop].act, <<Row(Folder, "here", Absent)>>),
           UNCHANGED <<disk, snap, author, origin, unsure>>
    PROVE  VaultInv'
<1> DEFINE o == op[Loop]
<1>1. /\ VaultTyped /\ JobsOK /\ Authored /\ NoFolder /\ Loop \in VaultThreads
      /\ Undo(o, act, rows, author)
  BY RestoreFacts DEF VaultInv, Restores
<1>2. /\ o.act \in Requests /\ o.src \in Acts /\ IsOver(act, o.src)
      /\ DOMAIN o.goal = Touched(o.src) \ {Folder} /\ \A f \in DOMAIN o.goal : author[f] # o.src
      /\ o.act # o.src
  BY <1>1 DEF Undo, Restoring, Touched, IsOver
<1>3. o.act \in Acts /\ o.act \notin Tasks
  BY <1>2, FilesAssumption DEF Acts
<1>4. rows' \in [Acts -> Seq(RowT)] /\ \A b \in Tasks : rows'[b] = rows[b]
  <2>1. Absent \in Marks /\ "here" \in Marks
    BY DEF Marks
  <2>2. rows' \in [Acts -> Seq(RowT)] /\ \A b \in Acts \ {o.act} : rows'[b] = rows[b]
    BY <1>1, <1>2, <2>1, FolderRows
  <2>3. QED
    BY <1>3, <2>2 DEF Acts
<1>5. /\ act' \in [Acts -> ActT] /\ \A b \in Tasks \ {o.src} : act'[b] = act[b]
      /\ IsOver(act', o.src)
  <2> DEFINE mid == Ended(o.act, "completed")
  <2>1. mid \in [Acts -> ActT] /\ \A b \in Acts \ {o.act} : mid[b] = act[b]
    BY <1>1, <1>3, EndedActs
  <2>2. act' = [mid EXCEPT ![o.src].undone = TRUE]
    BY DEF Marked
  <2> HIDE DEF mid
  <2>3. act' \in [Acts -> ActT] /\ act'[o.src].status = mid[o.src].status
        /\ \A b \in Acts \ {o.src} : act'[b] = mid[b]
    BY <1>2, <2>1, <2>2 DEF ActT
  <2>4. QED
    BY <1>2, <1>3, <2>1, <2>3 DEF IsOver, Acts
<1>6. VaultTyped'
  BY <1>1, <1>4, <1>5, OpStepTyped, IdleTyped DEF VaultTyped
<1>7. ASSUME o.src \in Tasks, NEW f \in Files, author[f] = o.src PROVE <<o.src, f>> \in unsure
  <2>1. act[o.src].status # "running"
    BY <1>2 DEF IsOver
  <2>2. ~Recording(o.src, f)
    BY <1>1, <1>7, <2>1, NoWorkerOn DEF Recording
  <2>3. f \notin Touched(o.src)
    BY <1>1, <1>2, <1>7 DEF NoFolder
  <2>4. QED
    BY <1>1, <1>7, <2>2, <2>3 DEF Authored
<1>8. act[o.src].status # "running"
  BY <1>2 DEF IsOver
<1>9. QED
  BY <1>4, <1>5, <1>6, <1>7, <1>8, MarkStep

\* An undo that goes on to take everything back.
LEMMA RevertBegins ==
    ASSUME VaultInv, op[Loop].kind = "undo", op[Loop].pc = "done", ~op[Loop].back,
           Begin(Loop, [op[Loop] EXCEPT !.pc = "revert"]), folder' \in BOOLEAN,
           rows' = rows \/ rows' = Recorded(op[Loop].act, <<Row(Folder, "here", Absent)>>),
           UNCHANGED <<disk, snap, act, author, origin, unsure>>
    PROVE  VaultInv'
<1> DEFINE o == op[Loop]
           o2 == [o EXCEPT !.pc = "revert"]
<1>1. /\ VaultTyped /\ JobsOK /\ Loop \in VaultThreads /\ OpTyped(o)
      /\ Undo(o, act, rows, author)
  BY RestoreFacts DEF VaultInv, Restores
<1>2. o.act \in Requests /\ o.act \notin Tasks /\ o.src \in Acts /\ o.act # o.src
  BY <1>1, FilesAssumption DEF Undo, Restoring, IsOver
<1>3. /\ OpTyped(o2) /\ o2.pc = "revert" /\ o2.kind = o.kind /\ o2.act = o.act /\ o2.src = o.src
      /\ o2.goal = o.goal /\ o2.seen = o.seen /\ o2.before = o.before /\ o2.back = o.back
  BY <1>1, PcOnly
<1>4. Begin(Loop, o2)
  OBVIOUS
<1> HIDE DEF o2
<1>5. rows' \in [Acts -> Seq(RowT)] /\ \A b \in Acts \ {o.act} : rows'[b] = rows[b]
  <2>1. Absent \in Marks /\ "here" \in Marks
    BY DEF Marks
  <2>2. QED
    BY <1>1, <1>2, <2>1, FolderRows
<1>6. Undo(o2, act, rows', author)
  <2>1. Restoring(o2, act)
    BY <1>1, <1>3 DEF Undo, Restoring
  <2>2. rows'[o.src] = rows[o.src]
    BY <1>2, <1>5
  <2>3. QED
    BY <1>1, <1>3, <2>1, <2>2 DEF Undo
<1>7. JobOK(Loop, o2, act', rows', author')
  BY <1>6 DEF JobOK
<1>8. VaultTyped'
  BY <1>1, <1>3, <1>4, <1>5, OpStepTyped DEF VaultTyped
<1>9. \A b \in Tasks : rows'[b] = rows[b]
  BY <1>2, <1>5 DEF Acts
<1>10. QED
  BY <1>4, <1>7, <1>8, <1>9, QuietLoop

\* The removal of the folder, and the end of a request, keep the invariant.
LEMMA FolderStepStep ==
    ASSUME VaultInv, FolderStep
    PROVE  VaultInv'
<1> DEFINE o == op[Loop]
           remove == o.fold = "remove"
<1>1. /\ o.kind \in Restores /\ o.pc = "done" /\ ~o.back /\ VaultTyped
      /\ UNCHANGED <<disk, snap, author, origin, unsure>>
  BY DEF FolderStep, Going, At, ghosts, VaultInv
<1>2. o.kind \in {"delete", "undo"}
  <2>1. o.kind = "taskundo" => TaskUndo(o, act, rows)
    BY <1>1, RestoreFacts
  <2>2. QED
    BY <1>1, <2>1 DEF TaskUndo, Restores
<1>3. /\ unsure \subseteq Acts \X (Files \cup {Folder}) /\ folder \in BOOLEAN
      /\ Absent \in Marks /\ "here" \in Marks
  BY <1>1 DEF VaultTyped, Marks
<1>4. folder' \in BOOLEAN /\ (rows' = rows \/ rows' = Recorded(o.act, <<Row(Folder, "here", Absent)>>))
  BY <1>3 DEF FolderStep
<1>5. \/ Begin(Loop, Idle) /\ act' = Marked(o, TRUE)
      \/ o.kind = "undo" /\ Begin(Loop, [o EXCEPT !.pc = "revert"]) /\ act' = act
      \/ o.kind # "undo" /\ Begin(Loop, Idle) /\ act' = Marked(o, FALSE)
  BY DEF FolderStep, Continue
<1>6. CASE Begin(Loop, Idle) /\ act' = Marked(o, TRUE) /\ o.kind = "undo"
  BY <1>1, <1>4, <1>6, UndoEnds
<1>7. CASE Begin(Loop, Idle) /\ (act' = Marked(o, TRUE) \/ act' = Marked(o, FALSE)) /\ o.kind = "delete"
  <2>1. act' = Ended(o.act, "completed") \/ act' = Ended(o.act, "failed")
    BY <1>7 DEF Marked
  <2>2. CASE act' = Ended(o.act, "completed")
    BY <1>1, <1>2, <1>3, <1>4, <1>7, <2>2, RequestEnds
  <2>3. CASE act' = Ended(o.act, "failed")
    BY <1>1, <1>2, <1>3, <1>4, <1>7, <2>3, RequestEnds
  <2>4. QED
    BY <2>1, <2>2, <2>3
<1>8. CASE o.kind = "undo" /\ Begin(Loop, [o EXCEPT !.pc = "revert"]) /\ act' = act
  BY <1>1, <1>4, <1>8, RevertBegins
<1>9. QED
  BY <1>2, <1>5, <1>6, <1>7, <1>8

\* The second restoration, the other way, keeps the invariant.
LEMMA RevertStep ==
    ASSUME VaultInv, Revert
    PROVE  VaultInv'
<1> DEFINE o == op[Loop]
           again == o.fold = "remove" /\ ~folder
           o2 == Reverting(o)
<1>1. /\ o.kind = "undo" /\ o.pc = "revert" /\ Begin(Loop, o2) /\ folder' = (folder \/ again)
      /\ rows' = rows \/ rows' = Recorded(o.act, <<Row(Folder, Absent, "here")>>)
      /\ UNCHANGED <<disk, snap, act, author, origin, unsure>>
  BY DEF Revert, At, Continue, ghosts
<1>2. /\ VaultTyped /\ JobsOK /\ Loop \in VaultThreads /\ OpTyped(o) /\ DOMAIN o = Fields
      /\ Undo(o, act, rows, author)
  BY <1>1, RestoreFacts DEF VaultInv, Restores
<1>3. /\ o.act \in Requests /\ o.act \notin Tasks /\ o.src \in Acts /\ DOMAIN o.before = DOMAIN o.goal
      /\ IsOver(act, o.src) /\ act[o.act].status = "running"
  BY <1>1, <1>2, FilesAssumption DEF Undo, Restoring
<1>4. /\ o2.pc = FirstStep(o) /\ o2.kind = o.kind /\ o2.act = o.act /\ o2.src = o.src
      /\ o2.goal = o.before /\ o2.seen = o.goal /\ o2.before = o.before /\ o2.back = TRUE
      /\ o2.held = o.held /\ o2.mode = o.mode /\ DOMAIN o2 = Fields
  BY <1>2 DEF Reverting, Fields
<1>5. o2.pc \in {"capture", "done"}
  BY <1>4 DEF FirstStep
<1> HIDE DEF o2, o
<1>6. OpTyped(o2)
  BY <1>2, <1>4 DEF OpTyped
<1>7. rows' \in [Acts -> Seq(RowT)] /\ \A b \in Acts \ {o.act} : rows'[b] = rows[b]
  <2>1. Absent \in Marks /\ "here" \in Marks
    BY DEF Marks
  <2>2. QED
    BY <1>1, <1>2, <1>3, <2>1, FolderRows
<1>8. Restoring(o2, act)
  BY <1>1, <1>3, <1>4, <1>5 DEF Restoring
<1>9. Undo(o2, act, rows', author)
  BY <1>1, <1>3, <1>4, <1>8 DEF Undo
<1>10. JobOK(Loop, o2, act', rows', author')
  BY <1>1, <1>9 DEF JobOK
<1>11. folder' \in BOOLEAN
  BY <1>1, <1>2 DEF VaultTyped
<1>12. VaultTyped'
  BY <1>1, <1>2, <1>6, <1>7, <1>11, OpStepTyped DEF VaultTyped
<1>13. \A b \in Tasks : rows'[b] = rows[b]
  BY <1>3, <1>7 DEF Acts
<1>14. QED
  BY <1>1, <1>10, <1>12, <1>13, QuietLoop

\* The end of a rollback that failed keeps the invariant.
LEMMA UndoFailedStep ==
    ASSUME VaultInv, UndoFailed
    PROVE  VaultInv'
<1> DEFINE o == op[Loop]
<1>1. /\ o.kind = "undo" /\ o.pc # "exclude" /\ Begin(Loop, Idle) /\ act' = Marked(o, FALSE)
      /\ unsure' = unsure \cup (IF o.made /\ ~Empty THEN {<<o.act, Folder>>} ELSE {})
                          \cup (IF o.pc = "unsure" THEN {<<o.act, f>> : f \in DOMAIN o.goal} ELSE {})
      /\ (folder' = FALSE \/ folder' = folder)
      /\ (rows' = rows \/ rows' = Recorded(o.act, <<Row(Folder, "here", Absent)>>))
      /\ UNCHANGED <<disk, snap, author, origin>>
  <2>1. /\ o.kind = "undo" /\ Begin(Loop, Idle) /\ act' = Marked(o, FALSE)
        /\ unsure' = unsure \cup (IF o.made /\ ~Empty THEN {<<o.act, Folder>>} ELSE {})
                          \cup (IF o.pc = "unsure" THEN {<<o.act, f>> : f \in DOMAIN o.goal} ELSE {})
        /\ UNCHANGED <<disk, snap, author, origin>>
    BY DEF UndoFailed, At, Continue
  <2>2. IF o.back THEN o.pc = "done" ELSE o.pc \in {"failed", "unsure"}
    BY DEF UndoFailed
  <2>3. IF o.made /\ Empty
        THEN folder' = FALSE /\ rows' = Recorded(o.act, <<Row(Folder, "here", Absent)>>)
        ELSE folder' = folder /\ rows' = rows
    BY DEF UndoFailed
  <2>4. QED
    BY <2>1, <2>2, <2>3
<1>2. VaultTyped /\ o.act \in Acts /\ OpTyped(o)
  BY <1>1, RestoreFacts DEF VaultInv, Restores
<1>3. unsure \subseteq unsure' /\ unsure' \subseteq Acts \X (Files \cup {Folder})
  <2>1. unsure \subseteq Acts \X (Files \cup {Folder}) /\ DOMAIN o.goal \subseteq Files
    BY <1>2 DEF VaultTyped, OpTyped, Part
  <2> HIDE DEF o
  <2>2. QED
    BY <1>1, <1>2, <2>1
<1>4. folder' \in BOOLEAN /\ Absent \in Marks /\ "here" \in Marks
  BY <1>1, <1>2 DEF VaultTyped, Marks
<1>5. act' = Ended(o.act, "failed")
  BY <1>1 DEF Marked
<1>6. QED
  BY <1>1, <1>3, <1>4, <1>5, RequestEnds

\* The end of a request that failed keeps the invariant.
LEMMA RequestFailedStep ==
    ASSUME VaultInv, RequestFailed
    PROVE  VaultInv'
<1> DEFINE o == op[Loop]
<1>1. /\ o.kind \in {"delete", "undo"} /\ o.pc \in {"failed", "unsure"} /\ Begin(Loop, Idle)
      /\ act' = Marked(o, FALSE)
      /\ (unsure' = unsure \/ unsure' = unsure \cup {<<o.act, f>> : f \in DOMAIN o.goal})
      /\ UNCHANGED <<disk, folder, rows, snap, author, origin>>
  BY DEF RequestFailed, At, Continue
<1>2. VaultTyped /\ o.act \in Acts /\ OpTyped(o)
  BY <1>1, RestoreFacts DEF VaultInv, Restores
<1>3. unsure \subseteq unsure' /\ unsure' \subseteq Acts \X (Files \cup {Folder})
  <2>1. unsure \subseteq Acts \X (Files \cup {Folder}) /\ DOMAIN o.goal \subseteq Files
    BY <1>2 DEF VaultTyped, OpTyped, Part
  <2> HIDE DEF o
  <2>2. QED
    BY <1>1, <1>2, <2>1
<1>4. folder' \in BOOLEAN /\ Absent \in Marks
  BY <1>1, <1>2 DEF VaultTyped, Marks
<1>5. act' = Ended(o.act, "failed")
  BY <1>1 DEF Marked
<1>6. QED
  BY <1>1, <1>3, <1>4, <1>5, RequestEnds

-----------------------------------------------------------------------------
(* The theorems.                                                           *)

\* The invariant holds before anything was changed.
LEMMA VaultStarts == VaultInit => VaultInv
<1>1. SUFFICES ASSUME VaultInit PROVE VaultInv
  OBVIOUS
<1>2. \A t \in VaultThreads : op[t] = Idle
  BY <1>1 DEF VaultInit
<1>3. OneOpEach /\ \A t \in VaultThreads : OpTyped(op[t])
  BY <1>1, <1>2, IdleTyped DEF VaultInit, OneOpEach
<1>4. VaultTyped
  <2>1. disk \in [Files -> State] /\ folder \in BOOLEAN
    BY <1>1, FilesAssumption DEF VaultInit, State
  <2>2. rows \in [Acts -> Seq(RowT)] /\ unsure \subseteq Acts \X (Files \cup {Folder})
    BY <1>1 DEF VaultInit
  <2>3. snap \in [Acts -> [Files -> State \cup {None}]] /\ origin \in [Acts -> [Files -> State \cup {None}]]
    BY <1>1 DEF VaultInit
  <2>4. act \in [Acts -> ActT]
    BY <1>1 DEF VaultInit, ActT
  <2>5. author \in [Files -> Acts \cup {None, External}]
    BY <1>1 DEF VaultInit
  <2>6. QED
    BY <1>3, <2>1, <2>2, <2>3, <2>4, <2>5 DEF VaultTyped
<1>5. JobsOK
  BY <1>2 DEF JobsOK, JobOK
<1>6. \A a \in Tasks : Touched(a) = {} /\ ~act[a].undone
  BY <1>1 DEF VaultInit, Touched, Paths, Acts
<1>7. Authored /\ Sealed /\ NoFolder
  <2>1. \A f \in Files : author[f] = None
    BY <1>1 DEF VaultInit
  <2>2. QED
    BY <1>6, <2>1, FilesAssumption DEF Authored, Sealed, NoFolder
<1>8. QED
  BY <1>4, <1>5, <1>7 DEF VaultInv

\* Every step keeps the invariant.
LEMMA VaultGoesOn == ASSUME VaultInv, [VaultNext]_vaultVars PROVE VaultInv'
<1>1. CASE UNCHANGED vaultVars
  <2>1. UNCHANGED <<disk, folder, rows, snap, act, op, author, origin, unsure>>
    BY <1>1 DEF vaultVars
  <2>2. VaultTyped' /\ JobsOK'
    BY <2>1 DEF VaultInv, VaultTyped, JobsOK, OneOpEach, OpTyped, Part
  <2>3. Authored' /\ Sealed' /\ NoFolder'
    <3>1. Quiet
      BY <2>1 DEF Quiet, IsOver
    <3>2. QED
      BY <3>1, QuietStep DEF VaultInv
  <2>4. QED
    BY <2>2, <2>3 DEF VaultInv
<1>2. CASE \E t \in VaultThreads : Thread(t)
  BY <1>2, EnterStep, LockStep, PrepareStep, WriteStepVault, RecordStep DEF Thread
<1>3. CASE Restoration
  BY <1>3, CaptureStep, ApplyStep, VerifyStep, CompensateStep DEF Restoration
<1>4. CASE Request
  BY <1>4, DeletePlanStep, UndoPlanStep, FolderStepStep, RevertStep, UndoFailedStep,
     RequestFailedStep, TaskUndoFailedStep DEF Request
<1>5. CASE \E t \in Workers, a \in Tasks, f \in Files, v \in Written \cup {Absent} : Mutate(t, a, f, v)
  BY <1>5, MutateStep
<1>6. CASE \E t \in Workers, a \in Tasks, f, g \in Files : Move(t, a, f, g)
  BY <1>6, MoveStep
<1>7. CASE \E r \in Requests, f \in Files, v \in Written : Save(r, f, v)
  BY <1>7, SaveStep
<1>8. CASE \E r \in Requests, a \in Acts, f \in Files : Restore(r, a, f)
  BY <1>8, RestoreStep
<1>9. CASE \E a \in Tasks, outcome \in {"completed", "failed"} : EndTask(a, outcome)
  BY <1>9, EndTaskStep
<1>10. CASE \E r \in Requests, a \in Acts : Ask(r, "undo", a)
  BY <1>10, AskStep
<1>11. CASE \E r \in Requests, f \in Files \cup {Folder} : Ask(r, "delete", f)
  BY <1>11, AskStep
<1>12. CASE \E f \in Files, v \in State : ExternalEdit(f, v)
  BY <1>12, ExternalStep
<1>13. QED
  BY <1>1, <1>2, <1>3, <1>4, <1>5, <1>6, <1>7, <1>8, <1>9, <1>10, <1>11, <1>12 DEF VaultNext

\* The invariant holds at every moment.
LEMMA VaultInductive == VaultSpec => []VaultInv
<1>1. VaultInit => VaultInv
  BY VaultStarts
<1>2. VaultInv /\ [VaultNext]_vaultVars => VaultInv'
  BY VaultGoesOn
<1>3. QED
  BY <1>1, <1>2, PTL DEF VaultSpec

\* Nothing of a task lands in the vault after it was rolled back
\* (_call_transactional_sync waits for the thread of a cancelled call), for any
\* files, tasks, requests, threads, edits and failures.
THEOREM RollbackSealsTask == VaultSpec => []NothingAfterRollback
<1>1. VaultInv => NothingAfterRollback
  <2>1. SUFFICES ASSUME VaultInv PROVE NothingAfterRollback
    OBVIOUS
  <2>2. VaultTyped /\ JobsOK /\ Sealed
    BY <2>1 DEF VaultInv
  <2>3. VaultTypeOK
    <3>1. ASSUME NEW a \in Acts PROVE Touched(a) \subseteq Files \cup {Folder}
      <4>1. rows[a] \in Seq(RowT)
        BY <2>2 DEF VaultTyped
      <4>2. \A i \in DOMAIN rows[a] : rows[a][i] \in RowT
        BY <4>1
      <4>3. QED
        BY <4>2 DEF Touched, Paths, RowT
    <3>2. ASSUME NEW a \in Acts
          PROVE  /\ \A f \in Files : {snap[a][f], origin[a][f]} \subseteq State \cup {None}
                 /\ act[a].status \in {"none", "running", "ending", "completed", "failed", "rolled_back"}
                 /\ act[a].undone \in BOOLEAN
      BY <2>2 DEF VaultTyped, ActT
    <3>3. \A t \in VaultThreads : op[t].held \subseteq Files /\ op[t].mode \in {"none", "read", "write"}
      BY <2>2 DEF VaultTyped, OpTyped
    <3>4. QED
      BY <2>2, <3>1, <3>2, <3>3 DEF VaultTyped, VaultTypeOK
  <2>4. ASSUME NEW a \in Tasks, act[a].undone
        PROVE  /\ \A w \in Workers : op[w].act # a
               /\ \A f \in Files : author[f] = a => <<a, f>> \in unsure \/ disk[f] = FirstBefore(a, f)
    <3>1. act[a].status # "running"
      BY <2>2, <2>4 DEF Sealed, IsOver
    <3>2. QED
      BY <2>2, <2>4, <3>1, NoWorkerOn DEF Sealed
  <2>5. QED
    BY <2>3, <2>4 DEF NothingAfterRollback
<1>2. QED
  BY <1>1, VaultInductive, PTL

-----------------------------------------------------------------------------
(* What a rollback rests on.                                               *)

\* No file was captured for an activity yet.
Clean(a) == \A f \in Files : origin[a][f] = None
\* s is what the activity first found, unless that is recorded, or uncertain.
Known(a, f, s) == s = origin[a][f] \/ f \in Touched(a) \/ <<a, f>> \in unsure

\* Workers hold what they write, each for itself.
Locked == \A w \in Workers : op[w].kind \in Writes =>
            /\ op[w].pc # "enter" => op[w].mode # "none"
            /\ op[w].pc \in {"prepare", "write", "record"} => op[w].held = DOMAIN op[w].goal
Apart == \A w, v \in Workers : w # v => op[w].held \cap op[v].held = {}
WorkersKnow == \A w \in Workers : op[w].kind \in Writes /\ op[w].pc \in {"write", "record"} =>
                 \A f \in DOMAIN op[w].goal : Known(op[w].act, f, op[w].before[f])
\* What a task captured is recorded, uncertain, or about to be written.
InHand(a, f) == \E w \in Workers : /\ op[w].act = a /\ op[w].pc \in {"write", "record"}
                                   /\ f \in DOMAIN op[w].goal
Seen == \A a \in Tasks, f \in Files : origin[a][f] # None =>
          f \in Touched(a) \/ <<a, f>> \in unsure \/ InHand(a, f)
TaskSide == Locked /\ Apart /\ WorkersKnow /\ Seen

\* The operation o of the event loop, a request's.
EditorKnows(o) ==
  o.kind \in {"save", "restore"} =>
    /\ rows[o.act] = <<>>
    /\ o.pc \in {"enter", "lock", "prepare"} => Clean(o.act)
    /\ o.pc \in {"write", "record"} => \A f \in DOMAIN o.goal : Known(o.act, f, o.before[f])
Hierarchy(o) ==
  o.kind \in {"delete", "undo"} /\ o.pc # "exclude" =>
    /\ o.mode = "write"
    /\ o.pc = "capture" /\ ~o.back => Clean(o.act)
    /\ o.pc \in {"apply", "verify"} => \A f \in DOMAIN o.goal : Known(o.act, f, o.before[f])
    /\ o.back \/ o.pc \in {"done", "revert"} => DOMAIN o.goal \subseteq Touched(o.act)
    /\ o.pc = "revert" => ~o.back
    /\ o.kind = "delete" => Folder \notin Touched(o.act)
\* The folder is as the undone activity first found it, or will be when it is removed.
FolderReady(o) ==
  Folder \in Touched(o.src) =>
    \/ o.fold = "remove" /\ FirstBefore(o.src, Folder) = Absent
    \/ o.fold # "remove" /\ FirstBefore(o.src, Folder) = Present(folder)
Undoing(o) ==
  o.kind = "undo" /\ o.pc # "exclude" /\ ~o.back =>
    /\ \A f \in DOMAIN o.goal : o.goal[f] = FirstBefore(o.src, f)
    /\ o.pc = "done" => \A f \in DOMAIN o.goal : disk[f] = o.goal[f] \/ author[f] = External
    /\ o.pc \in {"capture", "apply", "verify"} /\ Folder \in Touched(o.act) =>
         \A f \in DOMAIN o.goal \cap InFolder :
           o.seen[f] = Absent /\ (o.pc # "capture" => o.before[f] = Absent)
    /\ o.pc \in {"capture", "apply", "verify", "done"} => FolderReady(o)
    /\ o.pc = "revert" /\ o.fold = "remove" /\ ~folder => Folder \in Touched(o.act)
Unstarted == \A r \in Requests : act[r].status = "none" => rows[r] = <<>> /\ Clean(r)
RequestSide == /\ Unstarted /\ EditorKnows(op[Loop]) /\ Hierarchy(op[Loop]) /\ Undoing(op[Loop])

\* The hierarchy is not shared with a writer.
Exclusive == op[Loop].mode = "write" => \A w \in Workers : op[w].mode = "none"
\* The first row of a file tells what the activity found.
Found == \A a \in Acts : \A f \in Touched(a) \ {Folder} :
           FirstBefore(a, f) = origin[a][f] \/ <<a, f>> \in unsure
Parents == folder \/ Empty
\* An activity that found no folder found no files in it.
FolderFirst == \A a \in Acts : Folder \in Touched(a) /\ FirstBefore(a, Folder) = Absent =>
                 \A f \in InFolder \cap Touched(a) : FirstBefore(a, f) = Absent

ExactInv == TaskSide /\ RequestSide /\ Exclusive /\ Found /\ Parents /\ FolderFirst

-----------------------------------------------------------------------------
(* First rows.                                                             *)

\* A path that has rows keeps its first one.
LEMMA FirstStays ==
    ASSUME NEW s \in Seq(RowT), NEW r \in Seq(RowT), NEW p \in Paths(s)
    PROVE  (s \o r)[FirstOf(s \o r, p)].before = s[FirstOf(s, p)].before
<1> DEFINE i == FirstOf(s, p)
           j == FirstOf(s \o r, p)
<1>1. s \o r \in Seq(RowT) /\ p \in Paths(s \o r)
  BY PathsOfBoth
<1>2. i \in Of(s, p) /\ \A k \in Of(s, p) : i <= k
  BY FirstAndLast
<1>3. j \in Of(s \o r, p) /\ \A k \in Of(s \o r, p) : j <= k
  BY <1>1, FirstAndLast
<1> HIDE DEF i, j
<1>4. /\ Len(s) \in Nat /\ Len(r) \in Nat /\ Len(s \o r) = Len(s) + Len(r)
      /\ DOMAIN s = 1..Len(s) /\ DOMAIN (s \o r) = 1..Len(s \o r)
  BY <1>1
<1>5. \A k \in 1..Len(s) : (s \o r)[k] = s[k]
  OBVIOUS
<1>6. i \in 1..Len(s) /\ s[i].path = p
  BY <1>2, <1>4 DEF Of
<1>7. i \in Of(s \o r, p)
  BY <1>4, <1>5, <1>6 DEF Of
<1>8. j \in 1..Len(s)
  <2>1. j <= i /\ j \in 1..Len(s \o r)
    BY <1>3, <1>4, <1>7 DEF Of
  <2>2. QED
    BY <1>4, <1>6, <2>1
<1>9. j \in Of(s, p)
  BY <1>3, <1>4, <1>5, <1>8 DEF Of
<1>10. i = j
  <2>1. i <= j /\ j <= i /\ i \in Nat /\ j \in Nat
    BY <1>2, <1>3, <1>6, <1>7, <1>8, <1>9
  <2>2. QED
    BY <2>1
<1>11. QED
  BY <1>5, <1>6, <1>10 DEF i, j

\* A path that gets its first row gets it from the new rows.
LEMMA FirstIsNew ==
    ASSUME NEW s \in Seq(RowT), NEW r \in Seq(RowT), NEW p \in Paths(r), p \notin Paths(s)
    PROVE  \E i \in DOMAIN r : r[i].path = p /\ (s \o r)[FirstOf(s \o r, p)].before = r[i].before
<1> DEFINE j == FirstOf(s \o r, p)
<1>1. s \o r \in Seq(RowT) /\ p \in Paths(s \o r)
  BY PathsOfBoth
<1>2. j \in Of(s \o r, p)
  BY <1>1, FirstAndLast
<1> HIDE DEF j
<1>3. /\ Len(s) \in Nat /\ Len(r) \in Nat /\ Len(s \o r) = Len(s) + Len(r)
      /\ DOMAIN s = 1..Len(s) /\ DOMAIN (s \o r) = 1..Len(s \o r) /\ DOMAIN r = 1..Len(r)
  BY <1>1
<1>4. j \in 1..Len(s \o r) /\ (s \o r)[j].path = p
  BY <1>2, <1>3 DEF Of
<1>5. j \notin 1..Len(s)
  <2>1. ASSUME j \in 1..Len(s) PROVE FALSE
    <3>1. (s \o r)[j] = s[j]
      BY <2>1
    <3>2. QED
      BY <1>3, <1>4, <2>1, <3>1 DEF Paths
  <2>2. QED
    BY <2>1
<1>6. j - Len(s) \in 1..Len(r) /\ (s \o r)[j] = r[j - Len(s)]
  BY <1>3, <1>4, <1>5
<1>7. QED
  BY <1>3, <1>4, <1>6 DEF j

\* What rows that are added change.
LEMMA RowsAdded ==
    ASSUME VaultTyped, NEW a \in Acts, NEW new \in Seq(RowT), rows' = Recorded(a, new)
    PROVE  /\ \A b \in Acts \ {a} : rows'[b] = rows[b]
           /\ Touched(a)' = Touched(a) \cup Paths(new)
           /\ \A p \in Touched(a) : FirstBefore(a, p)' = FirstBefore(a, p)
           /\ \A p \in Paths(new) \ Touched(a) :
                \E i \in DOMAIN new : new[i].path = p /\ FirstBefore(a, p)' = new[i].before
<1>1. /\ rows'[a] = rows[a] \o new /\ \A b \in Acts \ {a} : rows'[b] = rows[b]
      /\ Paths(rows'[a]) = Paths(rows[a]) \cup Paths(new) /\ rows[a] \in Seq(RowT)
  BY RecordedRows DEF VaultTyped
<1> DEFINE s == rows[a]
           s2 == s \o new
<1>2. \A p \in Paths(rows[a]) : rows'[a][FirstOf(rows'[a], p)].before = rows[a][FirstOf(rows[a], p)].before
  <2>1. s \in Seq(RowT) /\ rows'[a] = s2
    BY <1>1
  <2> HIDE DEF s
  <2>2. \A p \in Paths(s) : s2[FirstOf(s2, p)].before = s[FirstOf(s, p)].before
    BY <2>1, FirstStays
  <2> HIDE DEF s2
  <2>3. QED
    BY <2>1, <2>2 DEF s
<1>3. \A p \in Paths(new) \ Paths(rows[a]) :
        \E i \in DOMAIN new : new[i].path = p /\ rows'[a][FirstOf(rows'[a], p)].before = new[i].before
  <2>1. s \in Seq(RowT) /\ rows'[a] = s2
    BY <1>1
  <2> HIDE DEF s
  <2>2. \A p \in Paths(new) \ Paths(s) :
          \E i \in DOMAIN new : new[i].path = p /\ s2[FirstOf(s2, p)].before = new[i].before
    BY <2>1, FirstIsNew
  <2> HIDE DEF s2
  <2>3. QED
    BY <2>1, <2>2 DEF s
<1>4. QED
  BY <1>1, <1>2, <1>3 DEF Touched, FirstBefore

\* The first states that rows tell of files are states.
LEMMA FirstIsState ==
    ASSUME VaultTyped, NEW a \in Acts, NEW f \in Touched(a), f # Folder
    PROVE  f \in Files /\ FirstBefore(a, f) \in State /\ FirstBefore(a, f) # None
<1>1. rows[a] \in Seq(RowT) /\ f \in Paths(rows[a])
  BY DEF VaultTyped, Touched
<1>2. f \in Files /\ FirstBefore(a, f) \in State
  BY <1>1, StatesOfRows DEF FirstBefore
<1>3. QED
  BY <1>2, FilesAssumption DEF State

\* What was captured first stays, and is not forgotten.
Grows ==
  /\ \A a \in Acts, f \in Files : origin[a][f] # None => origin'[a][f] = origin[a][f]
  /\ unsure \subseteq unsure'

\* What first rows tell stays true while no rows are added.
LEMMA FoundKept ==
    ASSUME VaultTyped, Found, Grows, \A a \in Acts : rows'[a] = rows[a]
    PROVE  Found'
<1>1. SUFFICES ASSUME NEW a \in Acts, NEW f \in Touched(a), f # Folder
               PROVE  FirstBefore(a, f) = origin'[a][f] \/ <<a, f>> \in unsure'
  BY DEF Found, Touched, FirstBefore
<1>2. FirstBefore(a, f) = origin[a][f] \/ <<a, f>> \in unsure
  BY <1>1 DEF Found
<1>3. f \in Files /\ FirstBefore(a, f) # None
  BY <1>1, FirstIsState
<1>4. QED
  BY <1>2, <1>3 DEF Grows

\* What first rows tell stays true when the new rows tell what is known.
LEMMA FoundAdds ==
    ASSUME VaultTyped, Found, Grows, NEW a \in Acts, NEW new \in Seq(RowT), rows' = Recorded(a, new),
           \A i \in DOMAIN new : new[i].path # Folder => Known(a, new[i].path, new[i].before)
    PROVE  Found'
<1>1. SUFFICES ASSUME NEW b \in Acts, NEW f \in Touched(b)', f # Folder
               PROVE  FirstBefore(b, f)' = origin'[b][f] \/ <<b, f>> \in unsure'
  BY DEF Found
<1>2. CASE f \in Touched(b)
  <2>1. FirstBefore(b, f)' = FirstBefore(b, f)
    <3>1. CASE b = a
      BY <1>2, <3>1, RowsAdded
    <3>2. CASE b # a
      BY <3>2, RowsAdded DEF FirstBefore
    <3>3. QED
      BY <3>1, <3>2
  <2>2. FirstBefore(b, f) = origin[b][f] \/ <<b, f>> \in unsure
    BY <1>1, <1>2 DEF Found
  <2>3. f \in Files /\ FirstBefore(b, f) # None
    BY <1>1, <1>2, FirstIsState
  <2>4. QED
    BY <2>1, <2>2, <2>3 DEF Grows
<1>3. CASE f \notin Touched(b)
  <2>1. b = a /\ f \in Paths(new) \ Touched(a)
    <3>1. b = a
      BY <1>1, <1>3, RowsAdded DEF Touched
    <3>2. QED
      BY <1>1, <1>3, <3>1, RowsAdded
  <2>2. PICK i \in DOMAIN new : new[i].path = f /\ FirstBefore(a, f)' = new[i].before
    BY <2>1, RowsAdded
  <2>3. Known(a, f, new[i].before)
    BY <1>1, <2>2
  <2>4. new[i].before = origin[a][f] \/ <<a, f>> \in unsure
    BY <2>1, <2>3 DEF Known
  <2>5. f \in Files /\ new[i].before # None
    <3>1. new[i] \in RowT
      OBVIOUS
    <3>2. f \in Files /\ new[i].before \in State
      BY <1>1, <2>2, <3>1 DEF RowT
    <3>3. QED
      BY <3>2, FilesAssumption DEF State
  <2>6. QED
    BY <2>1, <2>2, <2>4, <2>5 DEF Grows
<1>4. QED
  BY <1>2, <1>3

\* An activity that found no folder adds rows of files in it only with nothing before.
LEMMA FolderFirstAdds ==
    ASSUME VaultTyped, FolderFirst, NEW a \in Acts, NEW new \in Seq(RowT), rows' = Recorded(a, new),
           Folder \in Touched(a) /\ FirstBefore(a, Folder) = Absent =>
             \A i \in DOMAIN new : new[i].path \in InFolder =>
                new[i].before = Absent \/ new[i].path \in Touched(a),
           Folder \notin Touched(a) =>
             \/ \A i \in DOMAIN new : new[i].path = Folder => new[i].before # Absent
             \/ InFolder \cap (Touched(a) \cup Paths(new)) = {}
    PROVE  FolderFirst'
<1>1. SUFFICES ASSUME NEW b \in Acts, Folder \in Touched(b)', FirstBefore(b, Folder)' = Absent,
                      NEW f \in InFolder \cap Touched(b)'
               PROVE  FirstBefore(b, f)' = Absent
  BY DEF FolderFirst
<1>2. CASE b # a
  <2>1. rows'[b] = rows[b]
    BY <1>2, RowsAdded
  <2>2. Touched(b)' = Touched(b) /\ FirstBefore(b, Folder)' = FirstBefore(b, Folder)
        /\ FirstBefore(b, f)' = FirstBefore(b, f)
    BY <2>1 DEF Touched, FirstBefore
  <2>3. QED
    BY <1>1, <2>2 DEF FolderFirst
<1>3. CASE b = a /\ Folder \in Touched(a)
  <2>1. FirstBefore(a, Folder)' = FirstBefore(a, Folder)
    BY <1>3, RowsAdded
  <2>2. CASE f \in Touched(a)
    <3>1. FirstBefore(a, f)' = FirstBefore(a, f)
      BY <2>2, RowsAdded
    <3>2. QED
      BY <1>1, <1>3, <2>1, <2>2, <3>1 DEF FolderFirst
  <2>3. CASE f \notin Touched(a)
    <3>1. f \in Paths(new) \ Touched(a)
      BY <1>1, <1>3, <2>3, RowsAdded
    <3>2. PICK i \in DOMAIN new : new[i].path = f /\ FirstBefore(a, f)' = new[i].before
      BY <3>1, RowsAdded
    <3>3. QED
      BY <1>1, <1>3, <2>1, <2>3, <3>2
  <2>4. QED
    BY <2>2, <2>3
<1>4. CASE b = a /\ Folder \notin Touched(a)
  <2>1. Folder \in Paths(new) \ Touched(a) /\ f \in Touched(a) \cup Paths(new)
    BY <1>1, <1>4, RowsAdded
  <2>2. PICK i \in DOMAIN new : new[i].path = Folder /\ FirstBefore(a, Folder)' = new[i].before
    BY <2>1, RowsAdded
  <2>3. QED
    BY <1>1, <1>4, <2>1, <2>2
<1>5. QED
  BY <1>2, <1>3, <1>4

-----------------------------------------------------------------------------
(* What the steps of workers and of the loop leave to the other side.      *)

\* A worker's step leaves requests alone, and the files too while one of them
\* has the hierarchy to itself.
LEMMA WorkerKeepsRequests ==
    ASSUME VaultInv, ExactInv, NEW t \in Workers, NEW o2, Begin(t, o2), act' = act,
           unsure \subseteq unsure',
           \A r \in Requests : rows'[r] = rows[r] /\ origin'[r] = origin[r],
           \A a \in Acts : act[a].status # "running" => rows'[a] = rows[a],
           op[Loop].mode = "write" => UNCHANGED <<disk, folder, author>>
    PROVE  RequestSide'
<1>0. PICK o : o = op[Loop]
  OBVIOUS
<1>1. /\ VaultTyped /\ JobsOK /\ t \in VaultThreads /\ Loop \in VaultThreads /\ Loop # t
      /\ RequestSide /\ OpTyped(o)
  BY <1>0, FilesAssumption DEF VaultInv, VaultThreads, ExactInv, VaultTyped
<1>2. op'[Loop] = o
  BY <1>0, <1>1, PutOp
<1>3. \A r \in Requests : /\ Touched(r)' = Touched(r) /\ rows'[r] = rows[r]
                          /\ (Clean(r) => Clean(r)')
                          /\ \A f, s : Known(r, f, s) => Known(r, f, s)'
  BY DEF Touched, Clean, Known
<1>4. Unstarted'
  BY <1>1, <1>3 DEF RequestSide, Unstarted
<1>5. EditorKnows(op[Loop])'
  <2>1. SUFFICES ASSUME o.kind \in {"save", "restore"}
                 PROVE  /\ rows'[o.act] = <<>>
                        /\ o.pc \in {"enter", "lock", "prepare"} => Clean(o.act)'
                        /\ o.pc \in {"write", "record"} => \A f \in DOMAIN o.goal : Known(o.act, f, o.before[f])'
    BY <1>2 DEF EditorKnows
  <2>2. o.act \in Requests
    BY <1>0, <1>1, <2>1, JobByKind DEF EditorCall
  <2>3. QED
    BY <1>0, <1>1, <1>3, <2>1, <2>2 DEF RequestSide, EditorKnows
<1>6. Hierarchy(op[Loop])'
  <2>1. SUFFICES ASSUME o.kind \in {"delete", "undo"}, o.pc # "exclude"
                 PROVE  /\ o.mode = "write"
                        /\ o.pc = "capture" /\ ~o.back => Clean(o.act)'
                        /\ o.pc \in {"apply", "verify"} => \A f \in DOMAIN o.goal : Known(o.act, f, o.before[f])'
                        /\ o.back \/ o.pc \in {"done", "revert"} => DOMAIN o.goal \subseteq Touched(o.act)'
                        /\ o.pc = "revert" => ~o.back
                        /\ o.kind = "delete" => Folder \notin Touched(o.act)'
    BY <1>2 DEF Hierarchy
  <2>2. o.act \in Requests
    BY <1>0, <1>1, <2>1, JobByKind DEF Asked, Delete, Undo, Restoring
  <2>3. QED
    BY <1>0, <1>1, <1>3, <2>1, <2>2 DEF RequestSide, Hierarchy
<1>7. Undoing(op[Loop])'
  <2>1. CASE ~(o.kind = "undo" /\ o.pc # "exclude" /\ ~o.back)
    BY <1>2, <2>1 DEF Undoing
  <2>2. CASE o.kind = "undo" /\ o.pc # "exclude" /\ ~o.back
    <3>1. Undo(o, act, rows, author)
      BY <1>0, <1>1, <2>2, JobByKind DEF Asked
    <3>2. o.mode = "write" /\ o.act \in Requests /\ o.src \in Acts /\ act[o.src].status # "running"
      BY <1>0, <1>1, <2>2, <3>1 DEF RequestSide, Hierarchy, Undo, Restoring, IsOver
    <3>3. /\ UNCHANGED <<disk, folder, author>> /\ rows'[o.src] = rows[o.src]
          /\ Touched(o.act)' = Touched(o.act)
      BY <1>0, <1>3, <3>2
    <3>4. Touched(o.src)' = Touched(o.src) /\ \A p : FirstBefore(o.src, p)' = FirstBefore(o.src, p)
      BY <3>3 DEF Touched, FirstBefore
    <3>5. FolderReady(o) => FolderReady(op[Loop])'
      BY <1>2, <3>3, <3>4 DEF FolderReady
    <3>6. Undoing(o)
      BY <1>0, <1>1 DEF RequestSide
    <3>7. QED
      BY <1>2, <2>2, <3>3, <3>4, <3>5, <3>6 DEF Undoing
  <2>3. QED
    BY <2>1, <2>2
<1>8. QED
  BY <1>4, <1>5, <1>6, <1>7 DEF RequestSide

\* A step of the event loop leaves tasks alone.
LEMMA LoopKeepsTasks ==
    ASSUME VaultInv, ExactInv, NEW o2, Begin(Loop, o2), unsure \subseteq unsure',
           \A a \in Tasks : rows'[a] = rows[a] /\ origin'[a] = origin[a]
    PROVE  TaskSide'
<1>1. VaultTyped /\ JobsOK /\ TaskSide
  BY DEF VaultInv, ExactInv
<1>2. \A w \in Workers : op'[w] = op[w]
  BY <1>1, PutOp, FilesAssumption DEF VaultThreads
<1>3. \A a \in Tasks : /\ Touched(a)' = Touched(a)
                       /\ \A f, s : Known(a, f, s) => Known(a, f, s)'
  BY DEF Touched, Known
<1>4. Locked' /\ Apart'
  BY <1>1, <1>2 DEF TaskSide, Locked, Apart
<1>5. WorkersKnow'
  <2>1. SUFFICES ASSUME NEW w \in Workers, op[w].kind \in Writes, op[w].pc \in {"write", "record"},
                        NEW f \in DOMAIN op[w].goal
                 PROVE  Known(op[w].act, f, op[w].before[f])'
    BY <1>2 DEF WorkersKnow
  <2>2. op[w].act \in Tasks
    BY <1>1, <2>1, JobByKind, FilesAssumption DEF VaultThreads, Writes, ToolCall
  <2>3. Known(op[w].act, f, op[w].before[f])
    BY <1>1, <2>1 DEF TaskSide, WorkersKnow
  <2>4. op'[w] = op[w]
    BY <1>2
  <2>5. QED
    BY <1>3, <2>2, <2>3, <2>4 DEF Known
<1>6. Seen'
  <2>1. \A a, f : InHand(a, f) => InHand(a, f)'
    BY <1>2 DEF InHand
  <2>2. QED
    BY <1>1, <1>3, <2>1 DEF TaskSide, Seen
<1>7. QED
  BY <1>4, <1>5, <1>6 DEF TaskSide

\* A worker that takes the hierarchy does so while no writer has it.
LEMMA WorkerExclusive ==
    ASSUME VaultInv, ExactInv, NEW t \in Workers, NEW o2, Begin(t, o2),
           op[Loop].mode = "write" => o2.mode = "none"
    PROVE  Exclusive'
<1>1. VaultTyped /\ t \in VaultThreads /\ Loop \in VaultThreads /\ Loop # t /\ Exclusive
  BY FilesAssumption DEF VaultInv, VaultThreads, ExactInv
<1>2. op'[Loop] = op[Loop] /\ op'[t] = o2 /\ \A w \in Workers : w # t => op'[w] = op[w]
  BY <1>1, PutOp DEF VaultThreads
<1>3. QED
  BY <1>1, <1>2 DEF Exclusive

\* The event loop takes the hierarchy for itself when no worker has it.
LEMMA LoopExclusive ==
    ASSUME VaultInv, ExactInv, NEW o2, Begin(Loop, o2),
           o2.mode = "write" => op[Loop].mode = "write" \/ \A w \in Workers : op[w].mode = "none"
    PROVE  Exclusive'
<1>1. VaultTyped /\ Loop \in VaultThreads /\ Exclusive
  BY DEF VaultInv, VaultThreads, ExactInv
<1>2. op'[Loop] = o2 /\ \A w \in Workers : op'[w] = op[w]
  BY <1>1, PutOp, FilesAssumption DEF VaultThreads
<1>3. QED
  BY <1>1, <1>2 DEF Exclusive

\* Writing a file makes its parents.
LEMMA ParentsMade ==
    ASSUME NEW d, disk' = d, folder' = WithParents(d)
    PROVE  Parents'
BY DEF Parents, WithParents, Empty

\* FolderFirst is about the rows only.
LEMMA FolderFirstKept ==
    ASSUME FolderFirst, \A a \in Acts : rows'[a] = rows[a]
    PROVE  FolderFirst'
BY DEF FolderFirst, Touched, FirstBefore

-----------------------------------------------------------------------------
(* The steps of workers.                                                   *)

\* A worker goes on: its lock, what it knows, and what it has in hand.
LEMMA WorkerKeepsTasks ==
    ASSUME VaultInv, ExactInv, NEW t \in Workers, NEW o2, Begin(t, o2),
           \A a \in Tasks : Touched(a) \subseteq Touched(a)', unsure \subseteq unsure',
           \A a \in Tasks, f \in Files : origin[a][f] # None => origin'[a][f] = origin[a][f],
           o2.kind \in Writes => /\ o2.pc # "enter" => o2.mode # "none"
                                 /\ o2.pc \in {"prepare", "write", "record"} => o2.held = DOMAIN o2.goal
                                 /\ o2.pc \in {"write", "record"} =>
                                      \A f \in DOMAIN o2.goal : Known(o2.act, f, o2.before[f])',
           \A v \in Workers \ {t} : o2.held \cap op[v].held = {},
           \A a \in Tasks, f \in Files : origin'[a][f] # None =>
              \/ f \in Touched(a)' \/ <<a, f>> \in unsure'
              \/ o2.act = a /\ o2.pc \in {"write", "record"} /\ f \in DOMAIN o2.goal
              \/ \E w \in Workers \ {t} : /\ op[w].act = a /\ op[w].pc \in {"write", "record"}
                                          /\ f \in DOMAIN op[w].goal
    PROVE  TaskSide'
<1>1. VaultTyped /\ JobsOK /\ TaskSide /\ t \in VaultThreads
  BY DEF VaultInv, ExactInv, VaultThreads
<1>2. op'[t] = o2 /\ \A w \in Workers : w # t => op'[w] = op[w]
  BY <1>1, PutOp DEF VaultThreads
<1>3. Locked'
  BY <1>1, <1>2 DEF TaskSide, Locked
<1>4. Apart'
  <2>1. SUFFICES ASSUME NEW w \in Workers, NEW v \in Workers, w # v
                 PROVE  op'[w].held \cap op'[v].held = {}
    BY DEF Apart
  <2>2. CASE w = t
    BY <1>2, <2>1, <2>2
  <2>3. CASE v = t
    BY <1>2, <2>1, <2>3
  <2>4. CASE w # t /\ v # t
    BY <1>1, <1>2, <2>1, <2>4 DEF TaskSide, Apart
  <2>5. QED
    BY <2>2, <2>3, <2>4
<1>5. WorkersKnow'
  <2>1. SUFFICES ASSUME NEW w \in Workers, op'[w].kind \in Writes, op'[w].pc \in {"write", "record"},
                        NEW f \in DOMAIN op'[w].goal
                 PROVE  Known(op[w].act, f, op[w].before[f])'
    BY DEF WorkersKnow
  <2>2. CASE w = t
    <3>1. Known(o2.act, f, o2.before[f])'
      BY <1>2, <2>1, <2>2
    <3>2. QED
      BY <1>2, <2>2, <3>1 DEF Known
  <2>3. CASE w # t
    <3>1. op'[w] = op[w]
      BY <1>2, <2>3
    <3>2. op[w].act \in Tasks /\ DOMAIN op[w].before = DOMAIN op[w].goal /\ OpTyped(op[w])
      BY <1>1, <2>1, <3>1, JobByKind, FilesAssumption DEF VaultThreads, Writes, ToolCall, Writing, VaultTyped
    <3>3. op[w].before[f] # None /\ f \in Files
      BY <2>1, <3>1, <3>2, FilesAssumption DEF OpTyped, Part, State
    <3>4. Known(op[w].act, f, op[w].before[f])
      BY <1>1, <2>1, <3>1 DEF TaskSide, WorkersKnow
    <3>5. PICK a, s : a = op[w].act /\ s = op[w].before[f] /\ Known(a, f, s) /\ a \in Tasks /\ s # None
      BY <3>2, <3>3, <3>4
    <3>6. s = origin'[a][f] \/ f \in Touched(a)' \/ <<a, f>> \in unsure'
      BY <3>3, <3>5 DEF Known
    <3>7. QED
      BY <3>1, <3>5, <3>6 DEF Known
  <2>4. QED
    BY <2>2, <2>3
<1>6. Seen'
  <2>1. SUFFICES ASSUME NEW a \in Tasks, NEW f \in Files, origin'[a][f] # None
                 PROVE  f \in Touched(a)' \/ <<a, f>> \in unsure' \/ InHand(a, f)'
    BY DEF Seen
  <2>2. CASE o2.act = a /\ o2.pc \in {"write", "record"} /\ f \in DOMAIN o2.goal
    BY <1>2, <2>2 DEF InHand
  <2>3. CASE \E w \in Workers \ {t} : /\ op[w].act = a /\ op[w].pc \in {"write", "record"}
                                      /\ f \in DOMAIN op[w].goal
    BY <1>2, <2>3 DEF InHand
  <2>4. QED
    BY <2>1, <2>2, <2>3
<1>7. QED
  BY <1>3, <1>4, <1>5, <1>6 DEF TaskSide

\* A worker's step that changes its operation only.
LEMMA QuietWorkerExact ==
    ASSUME VaultInv, ExactInv, NEW t \in Workers, NEW o2, Begin(t, o2),
           op[t].pc \notin {"write", "record"}, o2.pc \notin {"write", "record"},
           UNCHANGED <<disk, folder, rows, act, author, origin, unsure>>,
           o2.kind \in Writes => /\ o2.pc # "enter" => o2.mode # "none"
                                 /\ o2.pc = "prepare" => o2.held = DOMAIN o2.goal,
           \A v \in Workers \ {t} : o2.held \cap op[v].held = {},
           op[Loop].mode = "write" => o2.mode = "none"
    PROVE  ExactInv'
<1>1. VaultTyped /\ TaskSide /\ Found /\ Parents /\ FolderFirst
  BY DEF VaultInv, ExactInv
<1>2. TaskSide'
  <2>1. \A a \in Tasks : Touched(a) \subseteq Touched(a)'
    BY DEF Touched
  <2>2. \A a \in Tasks, f \in Files : origin'[a][f] # None =>
              \/ f \in Touched(a)' \/ <<a, f>> \in unsure'
              \/ o2.act = a /\ o2.pc \in {"write", "record"} /\ f \in DOMAIN o2.goal
              \/ \E w \in Workers \ {t} : /\ op[w].act = a /\ op[w].pc \in {"write", "record"}
                                          /\ f \in DOMAIN op[w].goal
    BY <1>1, <2>1 DEF TaskSide, Seen, InHand
  <2>3. \A a \in Tasks, f \in Files : origin[a][f] # None => origin'[a][f] = origin[a][f]
    OBVIOUS
  <2>4. QED
    BY <2>1, <2>2, <2>3, WorkerKeepsTasks
<1>3. RequestSide'
  BY WorkerKeepsRequests
<1>4. Exclusive'
  BY WorkerExclusive
<1>5. Found'
  BY <1>1, FoundKept DEF Grows
<1>6. Parents' /\ FolderFirst'
  BY <1>1, FolderFirstKept DEF Parents, Empty
<1>7. QED
  BY <1>2, <1>3, <1>4, <1>5, <1>6 DEF ExactInv

\* What is known of a worker's write.
LEMMA WorkerFacts ==
    ASSUME VaultInv, ExactInv, NEW t \in Workers, op[t].kind \in Writes \cup {"taskundo"}
    PROVE  LET o == op[t] IN
           /\ OpTyped(o) /\ DOMAIN o = Fields /\ o.kind \in Writes /\ o.act \in Tasks /\ Writing(o, act)
           /\ o.act \in Acts /\ o.act \notin Requests /\ DOMAIN o.goal \subseteq Files
           /\ o.pc # "enter" => o.mode # "none" /\ op[Loop].mode # "write"
           /\ o.pc \in {"prepare", "write", "record"} => o.held = DOMAIN o.goal
<1> DEFINE o == op[t]
<1>1. VaultTyped /\ JobsOK /\ t \in VaultThreads /\ OpTyped(o) /\ TaskSide /\ Exclusive /\ t # Loop
  BY FilesAssumption DEF VaultInv, VaultThreads, VaultTyped, ExactInv
<1>2. DOMAIN o = Fields /\ DOMAIN o.goal \subseteq Files
  BY <1>1 DEF OpTyped, Part
<1>3. o.kind \in Writes
  BY <1>1, JobByKind
<1>4. ToolCall(o, act)
  BY <1>1, <1>3, JobByKind DEF Writes
<1>5. o.act \in Tasks /\ Writing(o, act) /\ o.act \in Acts /\ o.act \notin Requests
  BY <1>4, FilesAssumption DEF ToolCall, Acts
<1>6. /\ o.pc # "enter" => o.mode # "none" /\ op[Loop].mode # "write"
      /\ o.pc \in {"prepare", "write", "record"} => o.held = DOMAIN o.goal
  BY <1>1, <1>3 DEF TaskSide, Locked, Exclusive
<1>7. QED
  BY <1>1, <1>2, <1>3, <1>5, <1>6

\* A worker that gets the hierarchy shared.
LEMMA WorkerEnterExact ==
    ASSUME VaultInv, ExactInv, NEW t \in Workers, Enter(t)
    PROVE  ExactInv'
<1> DEFINE o == op[t]
           o2 == [o EXCEPT !.pc = "lock", !.mode = "read"]
<1>1. /\ Begin(t, o2) /\ UNCHANGED <<disk, folder, rows, act, author, origin, unsure>>
      /\ o.kind \in Writes \cup {"taskundo"} /\ o.pc = "enter" /\ ReadFree(t)
  BY DEF Enter, At, ghosts
<1>2. DOMAIN o = Fields
  BY <1>1, WorkerFacts
<1>3. o2.pc = "lock" /\ o2.kind = o.kind /\ o2.held = o.held /\ o2.mode = "read"
  BY <1>2 DEF Fields
<1>4. \A v \in Workers \ {t} : o.held \cap op[v].held = {}
  BY DEF ExactInv, TaskSide, Apart
<1>5. op[Loop].mode # "write"
  BY <1>1, FilesAssumption DEF ReadFree, VaultThreads
<1> HIDE DEF o2
<1>6. QED
  BY <1>1, <1>3, <1>4, <1>5, QuietWorkerExact

\* A worker that gets the lock of one more path.
LEMMA WorkerLockExact ==
    ASSUME VaultInv, ExactInv, NEW t \in Workers, Lock(t)
    PROVE  ExactInv'
<1>1. PICK f \in NextLock(t) : PathFree(t, f) /\
        Begin(t, [op[t] EXCEPT !.held = op[t].held \cup {f},
               !.pc = IF op[t].held \cup {f} # DOMAIN op[t].goal THEN "lock"
                      ELSE IF op[t].kind = "taskundo" THEN "capture" ELSE "prepare"])
  BY DEF Lock
<1> DEFINE o == op[t]
           pc2 == IF o.held \cup {f} # DOMAIN o.goal THEN "lock"
                  ELSE IF o.kind = "taskundo" THEN "capture" ELSE "prepare"
           o2 == [o EXCEPT !.held = o.held \cup {f}, !.pc = pc2]
<1>2. /\ Begin(t, o2) /\ UNCHANGED <<disk, folder, rows, act, author, origin, unsure>>
      /\ o.kind \in Writes \cup {"taskundo"} /\ o.pc = "lock"
  BY <1>1 DEF Lock, At, ghosts
<1>3. DOMAIN o = Fields /\ o.kind \in Writes /\ o.mode # "none" /\ op[Loop].mode # "write"
  BY <1>2, WorkerFacts
<1>4. /\ o2.pc = pc2 /\ o2.kind = o.kind /\ o2.held = o.held \cup {f} /\ o2.mode = o.mode
      /\ o2.goal = o.goal
  BY <1>3 DEF Fields
<1>5. pc2 \in {"lock", "capture", "prepare"} /\ (pc2 = "prepare" => o.held \cup {f} = DOMAIN o.goal)
  OBVIOUS
<1>6. \A v \in Workers \ {t} : (o.held \cup {f}) \cap op[v].held = {}
  BY <1>1 DEF ExactInv, TaskSide, Apart, PathFree, VaultThreads
<1> HIDE DEF o2, pc2
<1>7. QED
  BY <1>2, <1>3, <1>4, <1>5, <1>6, QuietWorkerExact

\* A tool call begins.
LEMMA CallBeginsExact ==
    ASSUME VaultInv, ExactInv, NEW t \in Workers, NEW o2, Begin(t, o2), op[t] = Idle,
           UNCHANGED <<disk, folder, rows, act, author, origin, unsure>>,
           o2.pc = "enter", o2.held = {}, o2.mode = "none"
    PROVE  ExactInv'
<1>1. op[t].pc = "idle"
  BY DEF Idle
<1>2. QED
  BY <1>1, QuietWorkerExact

\* A tool call that changes one file begins.
LEMMA MutateExact ==
    ASSUME VaultInv, ExactInv, NEW t \in Workers, NEW a, NEW f, NEW v, Mutate(t, a, f, v)
    PROVE  ExactInv'
<1> DEFINE o2 == [Idle EXCEPT !.kind = "mutate", !.pc = "enter", !.act = a,
                              !.src = f, !.goal = Only(f, v)]
<1>1. /\ Begin(t, o2) /\ op[t] = Idle
      /\ UNCHANGED <<disk, folder, rows, act, author, origin, unsure>>
  BY DEF Mutate, ghosts
<1>2. o2.pc = "enter" /\ o2.held = {} /\ o2.mode = "none"
  BY DEF Idle
<1> HIDE DEF o2
<1>3. QED
  BY <1>1, <1>2, CallBeginsExact

\* A tool call that moves a file begins.
LEMMA MoveExact ==
    ASSUME VaultInv, ExactInv, NEW t \in Workers, NEW a, NEW f, NEW g, Move(t, a, f, g)
    PROVE  ExactInv'
<1> DEFINE o2 == [Idle EXCEPT !.kind = "move", !.pc = "enter", !.act = a,
                              !.src = f, !.goal = [x \in {f, g} |-> Absent]]
<1>1. /\ Begin(t, o2) /\ op[t] = Idle
      /\ UNCHANGED <<disk, folder, rows, act, author, origin, unsure>>
  BY DEF Move, ghosts
<1>2. o2.pc = "enter" /\ o2.held = {} /\ o2.mode = "none"
  BY DEF Idle
<1> HIDE DEF o2
<1>3. QED
  BY <1>1, <1>2, CallBeginsExact

\* What is found is noted once.
LEMMA FindingGrows ==
    ASSUME VaultTyped, NEW a \in Acts, NEW fs, origin' = Finding(a, fs)
    PROVE  /\ \A b \in Acts, f \in Files : origin[b][f] # None => origin'[b][f] = origin[b][f]
           /\ \A b \in Acts \ {a} : origin'[b] = origin[b]
           /\ \A f \in Files : origin'[a][f] = IF f \in fs /\ origin[a][f] = None THEN disk[f] ELSE origin[a][f]
<1>1. origin \in [Acts -> [Files -> State \cup {None}]]
  BY DEF VaultTyped
<1>2. \A f \in Files : origin'[a][f] = IF f \in fs /\ origin[a][f] = None THEN disk[f] ELSE origin[a][f]
  BY <1>1 DEF Finding
<1>3. \A b \in Acts \ {a} : origin'[b] = origin[b]
  BY <1>1 DEF Finding
<1>4. QED
  BY <1>2, <1>3

\* A worker captures what it is about to write: nobody else of its task has the
\* file in hand, since it holds the lock.
LEMMA WorkerPrepareExact ==
    ASSUME VaultInv, ExactInv, NEW t \in Workers, Prepare(t)
    PROVE  ExactInv'
<1>0. PICK o : o = op[t]
  OBVIOUS
<1> DEFINE fs == DOMAIN o.goal
<1>n. PICK now : now = [f \in fs |-> disk[f]]
  OBVIOUS
<1>o. PICK o2 : o2 = [o EXCEPT !.pc = "write", !.before = now,
                          !.seen = IF o.kind \in {"save", "restore"} THEN o.seen ELSE now]
  OBVIOUS
<1>1. /\ o.kind \in Writes /\ o.pc = "prepare"
      /\ UNCHANGED <<disk, folder, rows, author, unsure>>
  BY <1>0 DEF Prepare, At
<1>2. /\ OpTyped(o) /\ DOMAIN o = Fields /\ o.act \in Tasks /\ o.act \in Acts /\ o.act \notin Requests
      /\ fs \subseteq Files /\ op[Loop].mode # "write" /\ o.held = fs /\ o.mode # "none"
  BY <1>0, <1>1, WorkerFacts
<1>3. VaultTyped /\ TaskSide /\ Found /\ Parents /\ FolderFirst
  BY DEF VaultInv, ExactInv
<1>4. \A a \in Acts : Touched(a)' = Touched(a)
  BY <1>1 DEF Touched
<1>5. CASE origin' = Finding(o.act, fs) /\ Begin(t, o2) /\ act' = act
  <2>1. /\ o2.pc = "write" /\ o2.kind = o.kind /\ o2.act = o.act /\ o2.goal = o.goal
        /\ o2.before = now /\ o2.held = o.held /\ o2.mode = o.mode
    BY <1>2, <1>o DEF Fields
  <2>2. /\ \A b \in Acts, f \in Files : origin[b][f] # None => origin'[b][f] = origin[b][f]
        /\ \A b \in Acts \ {o.act} : origin'[b] = origin[b]
        /\ \A f \in Files : origin'[o.act][f] = IF f \in fs /\ origin[o.act][f] = None THEN disk[f] ELSE origin[o.act][f]
    BY <1>2, <1>3, <1>5, FindingGrows
  <2>3. ASSUME NEW f \in fs PROVE Known(o.act, f, now[f])'
    <3>1. CASE origin[o.act][f] = None
      BY <1>n, <1>2, <2>2, <3>1 DEF Known
    <3>2. CASE origin[o.act][f] # None
      <4>1. f \in Touched(o.act) \/ <<o.act, f>> \in unsure \/ InHand(o.act, f)
        BY <1>2, <1>3, <3>2 DEF TaskSide, Seen
      <4>2. ~InHand(o.act, f)
        <5>1. SUFFICES ASSUME NEW w \in Workers, op[w].act = o.act, op[w].pc \in {"write", "record"},
                              f \in DOMAIN op[w].goal
                       PROVE  FALSE
          BY DEF InHand
        <5>2. w # t
          BY <1>0, <1>1, <5>1
        <5>3. op[w].held = DOMAIN op[w].goal
          <6>1. w \in VaultThreads /\ w # Loop /\ op[w] # Idle
            BY <5>1, FilesAssumption DEF VaultThreads, Idle
          <6>2. op[w].kind \in Writes
            BY <6>1, FilesAssumption DEF VaultInv, JobsOK, JobOK, ToolCall, Writes
          <6>3. QED
            BY <1>3, <5>1, <6>2 DEF TaskSide, Locked
        <5>4. QED
          BY <1>0, <1>2, <1>3, <5>1, <5>2, <5>3 DEF TaskSide, Apart
      <4>3. QED
        BY <1>1, <1>2, <1>4, <4>1, <4>2 DEF Known
    <3>3. QED
      BY <3>1, <3>2
  <2>6. TaskSide'
    <3>1. \A a \in Tasks : Touched(a) \subseteq Touched(a)'
      BY <1>4 DEF Acts
    <3>2. \A a \in Tasks, f \in Files : origin[a][f] # None => origin'[a][f] = origin[a][f]
      BY <2>2 DEF Acts
    <3>3. \A f \in DOMAIN o2.goal : Known(o2.act, f, o2.before[f])'
      BY <2>1, <2>3
    <3>4. \A v \in Workers \ {t} : o2.held \cap op[v].held = {}
      BY <1>0, <1>3, <2>1 DEF TaskSide, Apart
    <3>5. ASSUME NEW a \in Tasks, NEW f \in Files, origin'[a][f] # None
          PROVE  \/ f \in Touched(a)' \/ <<a, f>> \in unsure'
                 \/ o2.act = a /\ o2.pc \in {"write", "record"} /\ f \in DOMAIN o2.goal
                 \/ \E w \in Workers \ {t} : /\ op[w].act = a /\ op[w].pc \in {"write", "record"}
                                             /\ f \in DOMAIN op[w].goal
      <4>1. CASE a = o.act /\ f \in fs
        BY <2>1, <4>1
      <4>2. CASE ~(a = o.act /\ f \in fs)
        <5>1. origin[a][f] # None
          <6>1. origin'[a][f] = origin[a][f]
            <7>1. CASE a = o.act
              BY <2>2, <4>2, <7>1
            <7>2. CASE a # o.act
              BY <2>2, <7>2 DEF Acts
            <7>3. QED
              BY <7>1, <7>2
          <6>2. QED
            BY <3>5, <6>1
        <5>2. f \in Touched(a) \/ <<a, f>> \in unsure \/ InHand(a, f)
          BY <1>3, <5>1 DEF TaskSide, Seen
        <5>3. InHand(a, f) => \E w \in Workers \ {t} : /\ op[w].act = a /\ op[w].pc \in {"write", "record"}
                                                       /\ f \in DOMAIN op[w].goal
          BY <1>0, <1>1 DEF InHand
        <5>4. QED
          BY <1>1, <1>4, <5>2, <5>3 DEF Acts
      <4>3. QED
        BY <4>1, <4>2
    <3>6. o2.kind \in Writes => /\ o2.pc # "enter" => o2.mode # "none"
                                /\ o2.pc \in {"prepare", "write", "record"} => o2.held = DOMAIN o2.goal
      BY <1>2, <2>1
    <3>7. QED
      BY <1>1, <1>5, <3>1, <3>2, <3>3, <3>4, <3>5, <3>6, WorkerKeepsTasks
  <2>7. RequestSide'
    <3>1. \A r \in Requests : rows'[r] = rows[r] /\ origin'[r] = origin[r]
      BY <1>1, <1>2, <2>2 DEF Acts
    <3>2. QED
      BY <1>1, <1>2, <1>5, <3>1, WorkerKeepsRequests
  <2>8. Exclusive'
    BY <1>2, <1>5, WorkerExclusive
  <2>9. Found'
    BY <1>1, <1>3, <2>2, FoundKept DEF Grows
  <2>10. Parents' /\ FolderFirst'
    BY <1>1, <1>3, FolderFirstKept DEF Parents, Empty
  <2>11. QED
    BY <2>6, <2>7, <2>8, <2>9, <2>10 DEF ExactInv
<1>6. CASE /\ Begin(t, Idle) /\ UNCHANGED <<snap, origin>>
           /\ act' = IF o.act \in Requests THEN Ended(o.act, "failed") ELSE act
  <2>1. act' = act
    BY <1>2, <1>6
  <2>2. Idle.pc = "idle" /\ Idle.kind \notin Writes /\ Idle.held = {} /\ Idle.mode = "none"
    BY DEF Idle, Writes
  <2>3. QED
    BY <1>0, <1>1, <1>6, <2>1, <2>2, QuietWorkerExact
<1>7. QED
  BY <1>0, <1>n, <1>o, <1>5, <1>6 DEF Prepare

\* A worker writes: the hierarchy is shared, so no rollback is under way.
LEMMA WorkerWriteExact ==
    ASSUME VaultInv, ExactInv, NEW t \in Workers, Write(t)
    PROVE  ExactInv'
<1>1. PICK o : o = op[t]
  OBVIOUS
<1>2. PICK new : new = [f \in DOMAIN o.goal |->
                          IF o.kind = "move" /\ f # o.src THEN disk[o.src] ELSE o.goal[f]]
  OBVIOUS
<1>3. PICK o2 : o2 = [o EXCEPT !.pc = "record", !.goal = new]
  OBVIOUS
<1>4. /\ o.kind \in Writes /\ o.pc = "write" /\ Begin(t, o2)
      /\ disk' = Changed(new) /\ folder' = WithParents(Changed(new))
      /\ UNCHANGED <<rows, act, origin, unsure>>
  BY <1>1, <1>2, <1>3 DEF Write, At
<1>5. /\ OpTyped(o) /\ DOMAIN o = Fields /\ o.act \in Tasks
      /\ op[Loop].mode # "write" /\ o.held = DOMAIN o.goal /\ o.mode # "none"
  BY <1>1, <1>4, WorkerFacts
<1>6. VaultTyped /\ TaskSide /\ Found /\ Parents /\ FolderFirst
  BY DEF VaultInv, ExactInv
<1>7. \A a \in Acts : Touched(a)' = Touched(a)
  BY <1>4 DEF Touched
<1>8. /\ o2.pc = "record" /\ o2.kind = o.kind /\ o2.act = o.act /\ DOMAIN o2.goal = DOMAIN o.goal
      /\ o2.before = o.before /\ o2.held = o.held /\ o2.mode = o.mode
  BY <1>2, <1>3, <1>5 DEF Fields
<1>9. TaskSide'
  <2>1. \A a \in Tasks : Touched(a) \subseteq Touched(a)'
    BY <1>7 DEF Acts
  <2>2. \A f \in DOMAIN o2.goal : Known(o2.act, f, o2.before[f])'
    <3>1. \A f \in DOMAIN o.goal : Known(o.act, f, o.before[f])
      BY <1>1, <1>4, <1>6 DEF TaskSide, WorkersKnow
    <3>2. QED
      BY <1>4, <1>5, <1>7, <1>8, <3>1 DEF Known, Acts
  <2>3. \A v \in Workers \ {t} : o2.held \cap op[v].held = {}
    BY <1>1, <1>6, <1>8 DEF TaskSide, Apart
  <2>4. ASSUME NEW a \in Tasks, NEW f \in Files, origin'[a][f] # None
        PROVE  \/ f \in Touched(a)' \/ <<a, f>> \in unsure'
               \/ o2.act = a /\ o2.pc \in {"write", "record"} /\ f \in DOMAIN o2.goal
               \/ \E w \in Workers \ {t} : /\ op[w].act = a /\ op[w].pc \in {"write", "record"}
                                           /\ f \in DOMAIN op[w].goal
    <3>1. f \in Touched(a) \/ <<a, f>> \in unsure \/ InHand(a, f)
      BY <1>4, <1>6, <2>4 DEF TaskSide, Seen
    <3>2. InHand(a, f) => \/ o2.act = a /\ f \in DOMAIN o2.goal
                          \/ \E w \in Workers \ {t} : /\ op[w].act = a /\ op[w].pc \in {"write", "record"}
                                                      /\ f \in DOMAIN op[w].goal
      BY <1>1, <1>8 DEF InHand
    <3>3. QED
      BY <1>4, <1>7, <1>8, <3>1, <3>2 DEF Acts
  <2>5. /\ o2.pc # "enter" => o2.mode # "none"
        /\ o2.pc \in {"prepare", "write", "record"} => o2.held = DOMAIN o2.goal
    BY <1>5, <1>8
  <2>6. \A a \in Tasks, f \in Files : origin[a][f] # None => origin'[a][f] = origin[a][f]
    BY <1>4
  <2>7. QED
    BY <1>4, <2>1, <2>2, <2>3, <2>4, <2>5, <2>6, WorkerKeepsTasks
<1>10. RequestSide'
  BY <1>4, <1>5, WorkerKeepsRequests
<1>11. Exclusive'
  BY <1>4, <1>5, WorkerExclusive
<1>12. Found'
  BY <1>4, <1>6, FoundKept DEF Grows
<1>13. Parents' /\ FolderFirst'
  BY <1>4, <1>6, ParentsMade, FolderFirstKept
<1>14. QED
  BY <1>9, <1>10, <1>11, <1>12, <1>13 DEF ExactInv

\* The rows of an operation tell the states it displaced.
LEMMA RowsOfTell ==
    ASSUME NEW o, NEW ac, Writing(o, ac), NEW kept \in {DOMAIN o.goal, {o.src}, {}}
    PROVE  \A i \in DOMAIN RowsOf(o, kept) : LET r == RowsOf(o, kept)[i] IN
             r.path \in DOMAIN o.goal /\ r.before = o.before[r.path]
<1> DEFINE one(f) == IF f \in kept THEN <<Row(f, o.before[f], o.goal[f])>> ELSE <<>>
           rest == DOMAIN o.goal \ {o.src}
           g == CHOOSE f \in rest : TRUE
           S == {Row(f, o.before[f], o.goal[f]) : f \in DOMAIN o.goal}
<1>1. RowsOf(o, kept) = one(o.src) \o (IF rest = {} THEN <<>> ELSE one(g))
  BY DEF RowsOf
<1>2. ASSUME NEW f \in DOMAIN o.goal PROVE one(f) \in Seq(S)
  <2>1. CASE f \in kept
    <3> DEFINE r == Row(f, o.before[f], o.goal[f])
    <3>1. one(f) = <<r>> /\ r \in S
      BY <2>1
    <3> HIDE DEF r, S, one
    <3>2. QED
      BY <3>1
  <2>2. CASE f \notin kept
    BY <2>2
  <2>3. QED
    BY <2>1, <2>2
<1>3. o.src \in DOMAIN o.goal /\ (rest # {} => g \in DOMAIN o.goal)
  <2>1. o.src \in DOMAIN o.goal
    BY DEF Writing
  <2>2. QED
    BY <2>1
<1>4. \A s \in S : s.path \in DOMAIN o.goal /\ s.before = o.before[s.path]
  BY DEF Row
<1> HIDE DEF one, g, rest, S
<1>5. RowsOf(o, kept) \in Seq(S)
  <2>1. CASE rest = {}
    <3>1. one(o.src) \in Seq(S) /\ RowsOf(o, kept) = one(o.src) \o <<>>
      BY <1>1, <1>2, <1>3, <2>1
    <3>2. QED
      BY <3>1
  <2>2. CASE rest # {}
    <3>1. one(o.src) \in Seq(S) /\ one(g) \in Seq(S) /\ RowsOf(o, kept) = one(o.src) \o one(g)
      BY <1>1, <1>2, <1>3, <2>2
    <3>2. QED
      BY <3>1
  <2>3. QED
    BY <2>1, <2>2
<1>6. \A i \in DOMAIN RowsOf(o, kept) : RowsOf(o, kept)[i] \in S
  BY <1>5
<1>7. QED
  BY <1>4, <1>6

\* A worker records what it wrote, or the change is reported as uncertain.
LEMMA WorkerRecordExact ==
    ASSUME VaultInv, ExactInv, NEW t \in Workers, Record(t)
    PROVE  ExactInv'
<1>1. PICK o : o = op[t]
  OBVIOUS
<1>2. /\ o.kind \in Writes /\ o.pc = "record" /\ Begin(t, Idle)
      /\ UNCHANGED <<disk, folder, author, origin>>
  BY <1>1 DEF Record, At
<1>3. /\ OpTyped(o) /\ o.act \in Tasks /\ o.act \in Acts /\ o.act \notin Requests /\ Writing(o, act)
      /\ op[Loop].mode # "write" /\ DOMAIN o.goal \subseteq Files
  BY <1>1, <1>2, WorkerFacts
<1>4. PICK kept \in {DOMAIN o.goal, {o.src}, {}} :
        /\ rows' = Recorded(o.act, RowsOf(o, kept))
        /\ unsure' = unsure \cup {<<o.act, f>> : f \in DOMAIN o.goal \ kept}
        /\ act' = act
  BY <1>1, <1>3 DEF Record
<1>5. VaultTyped /\ TaskSide /\ Found /\ Parents /\ FolderFirst /\ NoFolder
  BY DEF VaultInv, ExactInv
<1>6. PICK new : new = RowsOf(o, kept)
  OBVIOUS
<1>7. /\ new \in Seq(RowT) /\ Paths(new) = kept
      /\ \A i \in DOMAIN new : new[i].path \in DOMAIN o.goal /\ new[i].before = o.before[new[i].path]
  <2>1. DOMAIN o.before = DOMAIN o.goal
    BY <1>2, <1>3 DEF Writing
  <2>2. /\ OpTyped(o) /\ Writing(o, act) /\ kept \in {DOMAIN o.goal, {o.src}, {}}
    BY <1>3, <1>4
  <2>3. RowsOf(o, kept) \in Seq(RowT) /\ Paths(RowsOf(o, kept)) = kept
    BY <2>1, <2>2, RowsOfFiles
  <2>4. \A i \in DOMAIN RowsOf(o, kept) : /\ RowsOf(o, kept)[i].path \in DOMAIN o.goal
                                         /\ RowsOf(o, kept)[i].before = o.before[RowsOf(o, kept)[i].path]
    BY <2>2, RowsOfTell
  <2>5. QED
    BY <1>6, <2>3, <2>4
<1>8. /\ \A b \in Acts \ {o.act} : rows'[b] = rows[b]
      /\ Touched(o.act)' = Touched(o.act) \cup kept
  BY <1>3, <1>4, <1>5, <1>6, <1>7, RowsAdded
<1>9. \A a \in Acts : Touched(a) \subseteq Touched(a)'
  <2>1. \A a \in Acts \ {o.act} : Touched(a)' = Touched(a)
    BY <1>8 DEF Touched
  <2>2. QED
    BY <1>8, <2>1
<1>10. TaskSide'
  <2>1. Idle.kind \notin Writes /\ Idle.held = {}
    BY DEF Idle, Writes
  <2>2. ASSUME NEW a \in Tasks, NEW f \in Files, origin'[a][f] # None
        PROVE  \/ f \in Touched(a)' \/ <<a, f>> \in unsure'
               \/ Idle.act = a /\ Idle.pc \in {"write", "record"} /\ f \in DOMAIN Idle.goal
               \/ \E w \in Workers \ {t} : /\ op[w].act = a /\ op[w].pc \in {"write", "record"}
                                           /\ f \in DOMAIN op[w].goal
    <3>1. f \in Touched(a) \/ <<a, f>> \in unsure \/ InHand(a, f)
      BY <1>2, <1>5, <2>2 DEF TaskSide, Seen
    <3>2. InHand(a, f) => \/ o.act = a /\ f \in DOMAIN o.goal
                          \/ \E w \in Workers \ {t} : /\ op[w].act = a /\ op[w].pc \in {"write", "record"}
                                                      /\ f \in DOMAIN op[w].goal
      BY <1>1 DEF InHand
    <3>3. o.act = a /\ f \in DOMAIN o.goal => f \in Touched(a)' \/ <<a, f>> \in unsure'
      BY <1>4, <1>8
    <3>4. QED
      BY <1>4, <1>9, <3>1, <3>2, <3>3 DEF Acts
  <2>3. \A a \in Tasks : Touched(a) \subseteq Touched(a)'
    BY <1>9 DEF Acts
  <2>4. \A a \in Tasks, f \in Files : origin[a][f] # None => origin'[a][f] = origin[a][f]
    BY <1>2
  <2>5. unsure \subseteq unsure'
    BY <1>4
  <2> HIDE DEF Idle
  <2>6. QED
    BY <1>2, <2>1, <2>2, <2>3, <2>4, <2>5, WorkerKeepsTasks
<1>11. RequestSide'
  <2>1. \A r \in Requests : rows'[r] = rows[r] /\ origin'[r] = origin[r]
    BY <1>2, <1>3, <1>8 DEF Acts
  <2>2. \A a \in Acts : act[a].status # "running" => rows'[a] = rows[a]
    BY <1>3, <1>8 DEF Writing
  <2>3. unsure \subseteq unsure'
    BY <1>4
  <2>4. QED
    BY <1>2, <1>3, <1>4, <2>1, <2>2, <2>3, WorkerKeepsRequests
<1>12. Exclusive'
  BY <1>2, <1>3, WorkerExclusive
<1>13. Found'
  <2>1. \A i \in DOMAIN new : Known(o.act, new[i].path, new[i].before)
    <3>1. \A f \in DOMAIN o.goal : Known(o.act, f, o.before[f])
      BY <1>1, <1>2, <1>5 DEF TaskSide, WorkersKnow
    <3>2. QED
      BY <1>7, <3>1
  <2>2. Grows
    BY <1>2, <1>4 DEF Grows
  <2>3. QED
    BY <1>3, <1>4, <1>5, <1>6, <1>7, <2>1, <2>2, FoundAdds
<1>14. FolderFirst'
  <2>1. Folder \notin Touched(o.act)
    BY <1>3, <1>5 DEF NoFolder
  <2>2. \A i \in DOMAIN new : new[i].path # Folder
    BY <1>3, <1>7, FilesAssumption DEF Folder
  <2>3. QED
    BY <1>3, <1>4, <1>5, <1>6, <1>7, <2>1, <2>2, FolderFirstAdds
<1>15. Parents'
  BY <1>2, <1>5 DEF Parents, Empty
<1>16. QED
  BY <1>10, <1>11, <1>12, <1>13, <1>14, <1>15 DEF ExactInv

-----------------------------------------------------------------------------
(* The steps of the event loop.                                            *)

\* What a step of the event loop has to show.
LEMMA LoopExact ==
    ASSUME VaultInv, ExactInv, NEW o2, Begin(Loop, o2), unsure \subseteq unsure',
           \A a \in Tasks : rows'[a] = rows[a] /\ origin'[a] = origin[a],
           o2.mode = "write" => op[Loop].mode = "write" \/ \A w \in Workers : op[w].mode = "none",
           Unstarted', EditorKnows(o2)', Hierarchy(o2)', Undoing(o2)',
           Found', Parents', FolderFirst'
    PROVE  ExactInv'
<1>1. op'[Loop] = o2
  BY PutOp DEF VaultInv, VaultThreads
<1>2. EditorKnows(op[Loop])'
  BY <1>1 DEF EditorKnows
<1>3. Hierarchy(op[Loop])'
  BY <1>1 DEF Hierarchy
<1>4. Undoing(op[Loop])'
  BY <1>1 DEF Undoing, FolderReady
<1>5. TaskSide' /\ Exclusive'
  BY LoopKeepsTasks, LoopExclusive
<1>6. QED
  BY <1>2, <1>3, <1>4, <1>5 DEF ExactInv, RequestSide

\* A step that changes no file, no row and nothing that was found.
LEMMA QuietLoopExact ==
    ASSUME VaultInv, ExactInv, NEW o2, Begin(Loop, o2),
           UNCHANGED <<disk, folder, rows, author, origin, unsure>>,
           \A r \in Requests : act'[r].status = "none" => act[r].status = "none",
           o2.mode = "write" => op[Loop].mode = "write" \/ \A w \in Workers : op[w].mode = "none",
           EditorKnows(o2), Hierarchy(o2), Undoing(o2)
    PROVE  ExactInv'
<1>1. \A a \in Acts : Touched(a)' = Touched(a) /\ \A f : FirstBefore(a, f)' = FirstBefore(a, f)
  BY DEF Touched, FirstBefore
<1>2. EditorKnows(o2)'
  BY DEF EditorKnows, Clean, Known, Touched
<1>3. Hierarchy(o2)'
  BY DEF Hierarchy, Clean, Known, Touched
<1>4. Undoing(o2)'
  BY DEF Undoing, FolderReady, Touched, FirstBefore
<1>5. Unstarted'
  BY DEF ExactInv, RequestSide, Unstarted, Clean
<1>6. Found'
  BY FoundKept DEF VaultInv, ExactInv, Grows
<1>7. Parents' /\ FolderFirst'
  BY FolderFirstKept DEF ExactInv, Parents, Empty
<1>8. QED
  BY <1>2, <1>3, <1>4, <1>5, <1>6, <1>7, LoopExact

\* Activities that have started do not become new again.
LEMMA StaysStarted ==
    ASSUME VaultTyped, NEW a \in Acts,
           \/ act' = act \/ act' = Started(a) \/ act' = RolledBack(a)
           \/ act' = Ended(a, "completed") \/ act' = Ended(a, "failed")
           \/ act' = [act EXCEPT ![a].status = "ending"]
    PROVE  \A r \in Requests : act'[r].status = "none" => r \in Acts /\ act[r].status = "none"
<1>1. act \in [Acts -> ActT]
  BY DEF VaultTyped
<1>2. ASSUME NEW r \in Acts, r # a PROVE act'[r] = act[r]
  BY <1>1, <1>2 DEF Started, RolledBack, Ended
<1>3. act' = act \/ act'[a].status # "none"
  BY <1>1 DEF Started, RolledBack, Ended, ActT
<1>4. QED
  BY <1>2, <1>3 DEF Acts

\* Ends of operations.
LEMMA IdleKnows == EditorKnows(Idle) /\ Hierarchy(Idle) /\ Undoing(Idle) /\ Idle.mode = "none"
BY DEF EditorKnows, Hierarchy, Undoing, Idle

\* The same, after a step.
LEMMA IdleKnowsNext == (EditorKnows(Idle) /\ Hierarchy(Idle) /\ Undoing(Idle))'
BY DEF EditorKnows, Hierarchy, Undoing, Idle

\* An operation ends, or there was none.
LEMMA LoopEndsExact ==
    ASSUME VaultInv, ExactInv, Begin(Loop, Idle),
           UNCHANGED <<disk, folder, rows, author, origin, unsure>>,
           \A r \in Requests : act'[r].status = "none" => act[r].status = "none"
    PROVE  ExactInv'
<1>1. PICK o2 : o2 = Idle
  OBVIOUS
<1>2. /\ EditorKnows(o2) /\ Hierarchy(o2) /\ Undoing(o2) /\ o2.mode = "none"
      /\ Begin(Loop, o2)
  BY <1>1, IdleKnows
<1>3. QED
  BY <1>2, QuietLoopExact

\* What is known of an operation of the event loop.
LEMMA LoopFacts ==
    ASSUME VaultInv, ExactInv
    PROVE  LET o == op[Loop] IN
           /\ VaultTyped /\ JobsOK /\ Loop \in VaultThreads /\ Loop \notin Workers
           /\ OpTyped(o) /\ DOMAIN o = Fields /\ DOMAIN o.goal \subseteq Files
           /\ EditorKnows(o) /\ Hierarchy(o) /\ Undoing(o) /\ Unstarted
           /\ Found /\ Parents /\ FolderFirst
BY FilesAssumption DEF VaultInv, VaultThreads, VaultTyped, ExactInv, RequestSide, OpTyped, Part

\* A request that has an activity which started is not new.
LEMMA NewIsElse ==
    ASSUME VaultInv, ExactInv, NEW a \in Acts, act[a].status # "none",
           \A r \in Requests : act'[r].status = "none" => act[r].status = "none",
           \A b \in Acts \ {a} : rows'[b] = rows[b] /\ origin'[b] = origin[b]
    PROVE  Unstarted'
BY DEF ExactInv, RequestSide, Unstarted, Clean, Acts

\* The event loop gets the hierarchy shared.
LEMMA LoopEnterExact ==
    ASSUME VaultInv, ExactInv, Enter(Loop)
    PROVE  ExactInv'
<1>1. PICK o : o = op[Loop]
  OBVIOUS
<1>2. PICK o2 : o2 = [o EXCEPT !.pc = "lock", !.mode = "read"]
  OBVIOUS
<1>3. /\ Begin(Loop, o2) /\ UNCHANGED <<disk, folder, rows, act, author, origin, unsure>>
      /\ o.kind \in Writes \cup {"taskundo"} /\ o.pc = "enter"
  BY <1>1, <1>2 DEF Enter, At, ghosts
<1>4. DOMAIN o = Fields /\ EditorKnows(o)
  BY <1>1, LoopFacts
<1>5. o2.pc = "lock" /\ o2.kind = o.kind /\ o2.act = o.act /\ o2.mode = "read"
  BY <1>2, <1>4 DEF Fields
<1>6. EditorKnows(o2)
  BY <1>3, <1>4, <1>5 DEF EditorKnows
<1>7. Hierarchy(o2) /\ Undoing(o2)
  BY <1>3, <1>5 DEF Hierarchy, Undoing, Writes
<1>8. QED
  BY <1>3, <1>5, <1>6, <1>7, QuietLoopExact

\* The event loop gets the lock of one more path.
LEMMA LoopLockExact ==
    ASSUME VaultInv, ExactInv, Lock(Loop)
    PROVE  ExactInv'
<1>1. PICK o : o = op[Loop]
  OBVIOUS
<1>2. PICK f : Begin(Loop, [o EXCEPT !.held = o.held \cup {f},
               !.pc = IF o.held \cup {f} # DOMAIN o.goal THEN "lock"
                      ELSE IF o.kind = "taskundo" THEN "capture" ELSE "prepare"])
  BY <1>1 DEF Lock
<1>3. PICK pc2 : pc2 = IF o.held \cup {f} # DOMAIN o.goal THEN "lock"
                       ELSE IF o.kind = "taskundo" THEN "capture" ELSE "prepare"
  OBVIOUS
<1>4. PICK o2 : o2 = [o EXCEPT !.held = o.held \cup {f}, !.pc = pc2]
  OBVIOUS
<1>5. /\ Begin(Loop, o2) /\ UNCHANGED <<disk, folder, rows, act, author, origin, unsure>>
      /\ o.kind \in Writes \cup {"taskundo"} /\ o.pc = "lock"
  BY <1>1, <1>2, <1>3, <1>4 DEF Lock, At, ghosts
<1>6. DOMAIN o = Fields /\ EditorKnows(o)
  BY <1>1, LoopFacts
<1>7. o2.pc = pc2 /\ o2.kind = o.kind /\ o2.act = o.act /\ o2.mode = o.mode
  BY <1>4, <1>6 DEF Fields
<1>8. EditorKnows(o2)
  BY <1>3, <1>5, <1>6, <1>7 DEF EditorKnows
<1>9. Hierarchy(o2) /\ Undoing(o2)
  BY <1>5, <1>7 DEF Hierarchy, Undoing, Writes
<1>10. QED
  BY <1>1, <1>5, <1>7, <1>8, <1>9, QuietLoopExact

-----------------------------------------------------------------------------
(* A write by the editor.                                                  *)

\* What is known of a write by the editor.
LEMMA EditorFacts ==
    ASSUME VaultInv, ExactInv, op[Loop].kind \in Writes
    PROVE  LET o == op[Loop] IN
           /\ o.kind \in {"save", "restore"} /\ Writing(o, act)
           /\ o.act \in Requests /\ o.act \in Acts /\ o.act \notin Tasks
           /\ act[o.act].status = "running" /\ rows[o.act] = <<>>
<1>1. /\ VaultTyped /\ JobsOK /\ Loop \in VaultThreads /\ Loop \notin Workers
      /\ EditorKnows(op[Loop])
  BY LoopFacts
<1>2. op[Loop].kind \in {"save", "restore"}
  BY <1>1, JobByKind DEF Writes
<1>3. EditorCall(op[Loop], act)
  BY <1>1, <1>2, JobByKind
<1>4. QED
  BY <1>1, <1>2, <1>3, FilesAssumption DEF EditorCall, Writing, EditorKnows, Acts

\* An editor's write begins: nothing was captured or recorded for its activity.
LEMMA EditorBeginsExact ==
    ASSUME VaultInv, ExactInv, NEW r \in Requests, act[r].status = "none", act' = Started(r),
           NEW o2, Begin(Loop, o2), UNCHANGED <<disk, folder, rows, author, origin, unsure>>,
           o2.kind \in {"save", "restore"}, o2.pc = "enter", o2.act = r, o2.mode = "none"
    PROVE  ExactInv'
<1>1. VaultTyped /\ Unstarted /\ r \in Acts
  BY LoopFacts DEF Acts
<1>2. EditorKnows(o2) /\ Hierarchy(o2) /\ Undoing(o2)
  BY <1>1 DEF EditorKnows, Hierarchy, Undoing, Unstarted
<1>3. \A q \in Requests : act'[q].status = "none" => act[q].status = "none"
  BY <1>1, StaysStarted
<1>4. QED
  BY <1>2, <1>3, QuietLoopExact

\* A save begins.
LEMMA SaveExact ==
    ASSUME VaultInv, ExactInv, NEW r \in Requests, NEW f, NEW v, Save(r, f, v)
    PROVE  ExactInv'
<1>1. PICK o2 : o2 = [Idle EXCEPT !.kind = "save", !.pc = "enter", !.act = r,
                    !.src = f, !.goal = Only(f, v), !.seen = Only(f, disk[f])]
  OBVIOUS
<1>2. /\ Begin(Loop, o2) /\ act' = Started(r) /\ act[r].status = "none"
      /\ UNCHANGED <<disk, folder, rows, author, origin, unsure>>
  BY <1>1 DEF Save, Fresh, ghosts
<1>3. o2.kind = "save" /\ o2.pc = "enter" /\ o2.act = r /\ o2.mode = "none"
  BY <1>1 DEF Idle
<1>4. QED
  BY <1>2, <1>3, EditorBeginsExact

\* The restoration of a revision begins.
LEMMA RestoreExact ==
    ASSUME VaultInv, ExactInv, NEW r \in Requests, NEW a, NEW f, Restore(r, a, f)
    PROVE  ExactInv'
<1>1. PICK o2 : o2 = [Idle EXCEPT !.kind = "restore", !.pc = "enter", !.act = r,
                    !.src = f, !.goal = Only(f, snap[a][f]), !.seen = Only(f, disk[f])]
  OBVIOUS
<1>2. /\ Begin(Loop, o2) /\ act' = Started(r) /\ act[r].status = "none"
      /\ UNCHANGED <<disk, folder, rows, author, origin, unsure>>
  BY <1>1 DEF Restore, Fresh, ghosts
<1>3. o2.kind = "restore" /\ o2.pc = "enter" /\ o2.act = r /\ o2.mode = "none"
  BY <1>1 DEF Idle
<1>4. QED
  BY <1>2, <1>3, EditorBeginsExact

\* The editor captures what it is about to write, the first thing it finds.
LEMMA EditorPrepareExact ==
    ASSUME VaultInv, ExactInv, Prepare(Loop)
    PROVE  ExactInv'
<1>1. PICK o : o = op[Loop]
  OBVIOUS
<1>2. PICK now : now = [f \in DOMAIN o.goal |-> disk[f]]
  OBVIOUS
<1>3. PICK o2 : o2 = [o EXCEPT !.pc = "write", !.before = now,
                          !.seen = IF o.kind \in {"save", "restore"} THEN o.seen ELSE now]
  OBVIOUS
<1>4. /\ o.kind \in Writes /\ o.pc = "prepare"
      /\ UNCHANGED <<disk, folder, rows, author, unsure>>
  BY <1>1 DEF Prepare, At
<1>5. /\ DOMAIN o = Fields /\ DOMAIN o.goal \subseteq Files /\ EditorKnows(o)
      /\ VaultTyped /\ Found /\ Parents /\ FolderFirst
  BY <1>1, LoopFacts
<1>6. /\ o.kind \in {"save", "restore"} /\ o.act \in Requests /\ o.act \in Acts /\ o.act \notin Tasks
      /\ act[o.act].status = "running" /\ rows[o.act] = <<>> /\ Clean(o.act)
  BY <1>1, <1>4, <1>5, EditorFacts DEF EditorKnows
<1>7. CASE origin' = Finding(o.act, DOMAIN o.goal) /\ Begin(Loop, o2) /\ act' = act
  <2>1. /\ o2.pc = "write" /\ o2.kind = o.kind /\ o2.act = o.act /\ o2.goal = o.goal
        /\ o2.before = now /\ o2.mode = o.mode
    BY <1>3, <1>5 DEF Fields
  <2>2. /\ \A b \in Acts, f \in Files : origin[b][f] # None => origin'[b][f] = origin[b][f]
        /\ \A b \in Acts \ {o.act} : origin'[b] = origin[b]
        /\ \A f \in Files : origin'[o.act][f] =
             IF f \in DOMAIN o.goal /\ origin[o.act][f] = None THEN disk[f] ELSE origin[o.act][f]
    BY <1>5, <1>6, <1>7, FindingGrows
  <2>3. \A f \in DOMAIN o.goal : Known(o.act, f, now[f])'
    BY <1>2, <1>5, <1>6, <2>2 DEF Clean, Known
  <2>4. EditorKnows(o2)'
    BY <1>4, <1>6, <2>1, <2>3 DEF EditorKnows
  <2>5. (Hierarchy(o2) /\ Undoing(o2))'
    BY <1>6, <2>1 DEF Hierarchy, Undoing
  <2>6. Unstarted'
    BY <1>4, <1>6, <1>7, <2>2, NewIsElse
  <2>7. Found'
    BY <1>4, <1>5, <2>2, FoundKept DEF Grows
  <2>8. Parents' /\ FolderFirst'
    BY <1>4, <1>5, FolderFirstKept DEF Parents, Empty
  <2>9. \A a \in Tasks : rows'[a] = rows[a] /\ origin'[a] = origin[a]
    BY <1>4, <1>6, <2>2 DEF Acts
  <2>10. QED
    BY <1>1, <1>4, <1>7, <2>1, <2>4, <2>5, <2>6, <2>7, <2>8, <2>9, LoopExact
<1>8. CASE /\ Begin(Loop, Idle) /\ UNCHANGED <<snap, origin>>
           /\ act' = IF o.act \in Requests THEN Ended(o.act, "failed") ELSE act
  <2>1. \A r \in Requests : act'[r].status = "none" => act[r].status = "none"
    BY <1>5, <1>6, <1>8, StaysStarted
  <2>2. QED
    BY <1>4, <1>8, <2>1, LoopEndsExact
<1>9. QED
  BY <1>1, <1>2, <1>3, <1>7, <1>8 DEF Prepare

\* The editor writes, and makes the parents.
LEMMA EditorWriteExact ==
    ASSUME VaultInv, ExactInv, Write(Loop)
    PROVE  ExactInv'
<1>1. PICK o : o = op[Loop]
  OBVIOUS
<1>2. PICK new : new = [f \in DOMAIN o.goal |->
                          IF o.kind = "move" /\ f # o.src THEN disk[o.src] ELSE o.goal[f]]
  OBVIOUS
<1>3. PICK o2 : o2 = [o EXCEPT !.pc = "record", !.goal = new]
  OBVIOUS
<1>4. /\ o.kind \in Writes /\ o.pc = "write" /\ Begin(Loop, o2)
      /\ disk' = Changed(new) /\ folder' = WithParents(Changed(new))
      /\ UNCHANGED <<rows, act, origin, unsure>>
  BY <1>1, <1>2, <1>3 DEF Write, At
<1>5. /\ DOMAIN o = Fields /\ EditorKnows(o) /\ Unstarted
      /\ VaultTyped /\ Found /\ Parents /\ FolderFirst
  BY <1>1, LoopFacts
<1>6. o.kind \in {"save", "restore"}
  BY <1>1, <1>4, EditorFacts
<1>7. /\ o2.pc = "record" /\ o2.kind = o.kind /\ o2.act = o.act /\ DOMAIN o2.goal = DOMAIN o.goal
      /\ o2.before = o.before /\ o2.mode = o.mode
  BY <1>2, <1>3, <1>5 DEF Fields
<1>8. EditorKnows(o2)'
  BY <1>4, <1>5, <1>6, <1>7 DEF EditorKnows, Known, Touched
<1>9. (Hierarchy(o2) /\ Undoing(o2))'
  BY <1>6, <1>7 DEF Hierarchy, Undoing
<1>10. Unstarted'
  BY <1>4, <1>5 DEF Unstarted, Clean
<1>11. Found'
  BY <1>4, <1>5, FoundKept DEF Grows
<1>12. Parents' /\ FolderFirst'
  BY <1>4, <1>5, ParentsMade, FolderFirstKept
<1>13. QED
  BY <1>1, <1>4, <1>7, <1>8, <1>9, <1>10, <1>11, <1>12, LoopExact

\* Rows a request adds to its own.
LEMMA OwnRows ==
    ASSUME VaultInv, ExactInv, NEW r \in Requests, act[r].status # "none",
           NEW new \in Seq(RowT), rows' = Recorded(r, new), UNCHANGED origin,
           \A q \in Requests : act'[q].status = "none" => act[q].status = "none"
    PROVE  /\ Unstarted' /\ \A a \in Tasks : rows'[a] = rows[a] /\ origin'[a] = origin[a]
           /\ \A b \in Acts \ {r} : rows'[b] = rows[b]
           /\ Touched(r)' = Touched(r) \cup Paths(new)
<1>1. r \in Acts /\ r \notin Tasks /\ VaultTyped
  BY FilesAssumption, LoopFacts DEF Acts
<1>2. (\A b \in Acts \ {r} : rows'[b] = rows[b]) /\ Touched(r)' = Touched(r) \cup Paths(new)
  BY <1>1, RowsAdded
<1>3. Unstarted'
  BY <1>1, <1>2, NewIsElse
<1>4. QED
  BY <1>1, <1>2, <1>3 DEF Acts

\* The editor records its write, or it is reported as uncertain.
LEMMA EditorRecordExact ==
    ASSUME VaultInv, ExactInv, Record(Loop)
    PROVE  ExactInv'
<1>1. PICK o : o = op[Loop]
  OBVIOUS
<1>2. /\ o.kind \in Writes /\ o.pc = "record" /\ Begin(Loop, Idle)
      /\ UNCHANGED <<disk, folder, author, origin>>
  BY <1>1 DEF Record, At
<1>3. /\ OpTyped(o) /\ DOMAIN o.goal \subseteq Files /\ EditorKnows(o)
      /\ VaultTyped /\ Found /\ Parents /\ FolderFirst
  BY <1>1, LoopFacts
<1>4. /\ o.kind \in {"save", "restore"} /\ o.act \in Requests /\ o.act \in Acts /\ Writing(o, act)
      /\ act[o.act].status = "running" /\ rows[o.act] = <<>>
  BY <1>1, <1>2, EditorFacts
<1>5. PICK kept \in {DOMAIN o.goal, {o.src}, {}} :
        /\ rows' = Recorded(o.act, RowsOf(o, kept))
        /\ unsure' = unsure \cup {<<o.act, f>> : f \in DOMAIN o.goal \ kept}
        /\ act' = Ended(o.act, IF kept = DOMAIN o.goal THEN "completed" ELSE "failed")
  BY <1>1, <1>4 DEF Record
<1>6. PICK new : new = RowsOf(o, kept)
  OBVIOUS
<1>7. /\ new \in Seq(RowT)
      /\ \A i \in DOMAIN new : new[i].path \in DOMAIN o.goal /\ new[i].before = o.before[new[i].path]
  <2>1. DOMAIN o.before = DOMAIN o.goal
    BY <1>2, <1>4 DEF Writing
  <2>2. /\ OpTyped(o) /\ Writing(o, act) /\ kept \in {DOMAIN o.goal, {o.src}, {}}
    BY <1>3, <1>4, <1>5
  <2>3. RowsOf(o, kept) \in Seq(RowT) /\ Paths(RowsOf(o, kept)) = kept
    BY <2>1, <2>2, RowsOfFiles
  <2>4. \A i \in DOMAIN RowsOf(o, kept) : /\ RowsOf(o, kept)[i].path \in DOMAIN o.goal
                                         /\ RowsOf(o, kept)[i].before = o.before[RowsOf(o, kept)[i].path]
    BY <2>2, RowsOfTell
  <2>5. QED
    BY <1>6, <2>3, <2>4
<1>8. \A r \in Requests : act'[r].status = "none" => act[r].status = "none"
  BY <1>3, <1>4, <1>5, StaysStarted
<1>9. Unstarted' /\ \A a \in Tasks : rows'[a] = rows[a] /\ origin'[a] = origin[a]
  BY <1>2, <1>4, <1>5, <1>6, <1>7, <1>8, OwnRows
<1>10. Found'
  <2>1. \A i \in DOMAIN new : Known(o.act, new[i].path, new[i].before)
    BY <1>2, <1>3, <1>4, <1>7 DEF EditorKnows
  <2>2. Grows
    BY <1>2, <1>5 DEF Grows
  <2>3. QED
    BY <1>3, <1>4, <1>5, <1>6, <1>7, <2>1, <2>2, FoundAdds
<1>11. FolderFirst'
  <2>1. Folder \notin Touched(o.act)
    BY <1>4 DEF Touched, Paths
  <2>2. \A i \in DOMAIN new : new[i].path # Folder
    BY <1>3, <1>7, FilesAssumption DEF Folder
  <2>3. QED
    BY <1>3, <1>4, <1>5, <1>6, <1>7, <2>1, <2>2, FolderFirstAdds
<1>12. Parents'
  BY <1>2, <1>3 DEF Parents, Empty
<1>13. unsure \subseteq unsure'
  BY <1>5
<1>14. PICK o2 : o2 = Idle
  OBVIOUS
<1>15. o2.mode # "write" /\ (EditorKnows(o2) /\ Hierarchy(o2) /\ Undoing(o2))' /\ Begin(Loop, o2)
  BY <1>2, <1>14, IdleKnows, IdleKnowsNext
<1>16. QED
  BY <1>9, <1>10, <1>11, <1>12, <1>13, <1>15, LoopExact

-----------------------------------------------------------------------------
(* The restoration of exact states.                                        *)

\* Rows that stay tell the same.
LEMMA SameTold ==
    ASSUME NEW a, rows'[a] = rows[a]
    PROVE  Touched(a)' = Touched(a) /\ \A p : FirstBefore(a, p)' = FirstBefore(a, p)
BY DEF Touched, FirstBefore

\* What is known of a request's restoration.
LEMMA HierarchyFacts ==
    ASSUME VaultInv, ExactInv, op[Loop].kind \in {"delete", "undo"}, op[Loop].pc # "exclude"
    PROVE  LET o == op[Loop] IN
           /\ o.act \in Requests /\ o.act \in Acts /\ o.act \notin Tasks
           /\ act[o.act].status = "running" /\ o.mode = "write" /\ Restoring(o, act)
           /\ o.kind = "undo" =>
                /\ o.src \in Acts /\ o.act # o.src
                /\ ~o.back => DOMAIN o.goal = Touched(o.src) \ {Folder}
<1>1. /\ VaultTyped /\ JobsOK /\ Loop \in VaultThreads /\ Hierarchy(op[Loop])
  BY LoopFacts
<1>2. \/ op[Loop].kind = "delete" /\ Delete(op[Loop], act)
      \/ op[Loop].kind = "undo" /\ Undo(op[Loop], act, rows, author)
  BY <1>1, JobByKind DEF Asked
<1>3. Restoring(op[Loop], act) /\ op[Loop].mode = "write"
  BY <1>1, <1>2 DEF Delete, Undo, Hierarchy
<1>4. op[Loop].act \in Requests /\ act[op[Loop].act].status = "running"
  BY <1>3 DEF Restoring
<1>5. op[Loop].kind = "undo" =>
        /\ op[Loop].src \in Acts /\ op[Loop].act # op[Loop].src
        /\ ~op[Loop].back => DOMAIN op[Loop].goal = Touched(op[Loop].src) \ {Folder}
  BY <1>2, <1>4 DEF Undo, IsOver, Touched
<1>6. QED
  BY <1>3, <1>4, <1>5, FilesAssumption DEF Acts

\* The displaced states are captured: they are what the request first finds.
LEMMA CaptureExact ==
    ASSUME VaultInv, ExactInv, Capture
    PROVE  ExactInv'
<1>1. PICK o : o = op[Loop]
  OBVIOUS
<1>2. PICK good : good = [o EXCEPT !.pc = "apply", !.before = o.seen]
  OBVIOUS
<1>3. PICK bad : bad = [o EXCEPT !.pc = "failed"]
  OBVIOUS
<1>4. /\ o.kind \in Restores /\ o.pc = "capture"
      /\ UNCHANGED <<disk, folder, rows, act, author, unsure>>
  BY <1>1 DEF Capture, Going, At
<1>5. /\ OpTyped(o) /\ DOMAIN o = Fields /\ DOMAIN o.goal \subseteq Files /\ Hierarchy(o) /\ Undoing(o)
      /\ VaultTyped /\ Found /\ Parents /\ FolderFirst
  BY <1>1, LoopFacts
<1>6. /\ good.pc = "apply" /\ good.kind = o.kind /\ good.act = o.act /\ good.src = o.src
      /\ good.goal = o.goal /\ good.seen = o.seen /\ good.before = o.seen
      /\ good.mode = o.mode /\ good.back = o.back /\ good.fold = o.fold
  BY <1>2, <1>5 DEF Fields
<1>7. /\ bad.pc = "failed" /\ bad.kind = o.kind /\ bad.act = o.act /\ bad.src = o.src
      /\ bad.goal = o.goal /\ bad.mode = o.mode /\ bad.back = o.back
  BY <1>3, <1>5 DEF Fields
<1>8. CASE o.kind = "taskundo" /\ UNCHANGED origin /\ (Begin(Loop, good) \/ Begin(Loop, bad))
  <2>1. PICK o2 : Begin(Loop, o2) /\ o2.kind = "taskundo" /\ o2.mode = o.mode
    BY <1>6, <1>7, <1>8
  <2>2. EditorKnows(o2) /\ Hierarchy(o2) /\ Undoing(o2)
    BY <2>1 DEF EditorKnows, Hierarchy, Undoing
  <2>3. QED
    BY <1>1, <1>4, <1>8, <2>1, <2>2, QuietLoopExact
<1>9. CASE o.kind # "taskundo" /\ UNCHANGED origin /\ Begin(Loop, bad)
  <2>1. EditorKnows(bad) /\ Hierarchy(bad) /\ Undoing(bad)
    BY <1>4, <1>5, <1>7, <1>9 DEF EditorKnows, Hierarchy, Undoing, Restores
  <2>2. QED
    BY <1>1, <1>4, <1>7, <1>9, <2>1, QuietLoopExact
<1>10. CASE /\ o.kind # "taskundo" /\ origin' = Finding(o.act, DOMAIN o.goal) /\ Begin(Loop, good)
            /\ AsExpected(o)
  <2>1. /\ o.act \in Requests /\ o.act \in Acts /\ o.act \notin Tasks
        /\ act[o.act].status = "running" /\ o.mode = "write"
    BY <1>1, <1>4, <1>10, HierarchyFacts DEF Restores
  <2>2. /\ \A b \in Acts, f \in Files : origin[b][f] # None => origin'[b][f] = origin[b][f]
        /\ \A b \in Acts \ {o.act} : origin'[b] = origin[b]
        /\ \A f \in Files : origin'[o.act][f] =
             IF f \in DOMAIN o.goal /\ origin[o.act][f] = None THEN disk[f] ELSE origin[o.act][f]
    BY <1>5, <1>10, <2>1, FindingGrows
  <2>3. \A f \in DOMAIN o.goal : Known(o.act, f, o.seen[f])'
    <3>1. CASE o.back
      <4>1. DOMAIN o.goal \subseteq Touched(o.act)
        BY <1>4, <1>5, <1>10, <3>1 DEF Hierarchy, Restores
      <4>2. QED
        BY <1>4, <4>1 DEF Known, Touched
    <3>2. CASE ~o.back
      <4>1. Clean(o.act)
        BY <1>4, <1>5, <1>10, <3>2 DEF Hierarchy, Restores
      <4>2. QED
        BY <1>5, <1>10, <2>2, <4>1 DEF Clean, Known, AsExpected
    <3>3. QED
      BY <3>1, <3>2
  <2>4. Touched(o.act)' = Touched(o.act) /\ Touched(o.src)' = Touched(o.src)
        /\ \A p : FirstBefore(o.src, p)' = FirstBefore(o.src, p)
    BY <1>4, SameTold
  <2>5. EditorKnows(good)'
    BY <1>4, <1>6, <1>10 DEF EditorKnows, Restores
  <2>6. Hierarchy(good)'
    BY <1>4, <1>5, <1>6, <1>10, <2>1, <2>3, <2>4 DEF Hierarchy, Restores
  <2>7. Undoing(good)'
    BY <1>4, <1>5, <1>6, <2>4 DEF Undoing, FolderReady
  <2>8. Unstarted'
    BY <1>4, <2>1, <2>2, NewIsElse
  <2>9. Found'
    BY <1>4, <1>5, <2>2, FoundKept DEF Grows
  <2>10. Parents' /\ FolderFirst'
    BY <1>4, <1>5, FolderFirstKept DEF Parents, Empty
  <2>11. \A a \in Tasks : rows'[a] = rows[a] /\ origin'[a] = origin[a]
    BY <1>4, <2>1, <2>2 DEF Acts
  <2>12. QED
    BY <1>1, <1>4, <1>6, <1>10, <2>5, <2>6, <2>7, <2>8, <2>9, <2>10, <2>11, LoopExact
<1>11. QED
  BY <1>1, <1>2, <1>3, <1>8, <1>9, <1>10 DEF Capture, Continue

\* A restoration that compensates, whatever it wrote.
LEMMA GivesUpExact ==
    ASSUME VaultInv, ExactInv, op[Loop].kind \in Restores, op[Loop].pc # "exclude",
           NEW p \in {"compensate", "failed", "unsure"}, Begin(Loop, [op[Loop] EXCEPT !.pc = p]),
           UNCHANGED <<rows, act, origin, unsure>>, Parents'
    PROVE  ExactInv'
<1>1. PICK o : o = op[Loop]
  OBVIOUS
<1>2. PICK o2 : o2 = [o EXCEPT !.pc = p]
  OBVIOUS
<1>3. /\ DOMAIN o = Fields /\ Hierarchy(o) /\ Undoing(o) /\ Unstarted
      /\ VaultTyped /\ Found /\ FolderFirst
  BY <1>1, LoopFacts
<1>4. /\ o2.pc = p /\ o2.kind = o.kind /\ o2.act = o.act /\ o2.src = o.src /\ o2.goal = o.goal
      /\ o2.mode = o.mode /\ o2.back = o.back
  BY <1>2, <1>3 DEF Fields
<1>5. Touched(o.act)' = Touched(o.act) /\ \A f : FirstBefore(o.src, f)' = FirstBefore(o.src, f)
  BY SameTold
<1>6. EditorKnows(o2)'
  BY <1>1, <1>4 DEF EditorKnows, Restores
<1>7. Hierarchy(o2)'
  BY <1>1, <1>3, <1>4, <1>5 DEF Hierarchy
<1>8. Undoing(o2)'
  BY <1>1, <1>3, <1>4, <1>5 DEF Undoing
<1>9. Unstarted'
  BY <1>3 DEF Unstarted, Clean
<1>10. Found'
  BY <1>3, FoundKept DEF Grows
<1>11. FolderFirst'
  BY <1>3, FolderFirstKept
<1>12. Begin(Loop, o2)
  BY <1>1, <1>2
<1>13. QED
  BY <1>1, <1>4, <1>6, <1>7, <1>8, <1>9, <1>10, <1>11, <1>12, LoopExact

\* The files are restored: no folder is made that the undone activity did not
\* find, since it found no file in it either.
LEMMA ApplyExact ==
    ASSUME VaultInv, ExactInv, Apply
    PROVE  ExactInv'
<1>1. PICK o : o = op[Loop]
  OBVIOUS
<1>2. /\ o.kind \in Restores /\ o.pc = "apply"
      /\ UNCHANGED <<rows, act, origin, unsure>>
  BY <1>1 DEF Apply, Going, At
<1>3. /\ DOMAIN o = Fields /\ DOMAIN o.goal \subseteq Files /\ Hierarchy(o) /\ Undoing(o) /\ Unstarted
      /\ VaultTyped /\ Found /\ Parents /\ FolderFirst
  BY <1>1, LoopFacts
<1>4. CASE Begin(Loop, [o EXCEPT !.pc = "compensate"]) /\ UNCHANGED <<disk, folder>>
  <2>1. Parents'
    BY <1>3, <1>4 DEF Parents, Empty
  <2>2. QED
    BY <1>1, <1>2, <1>4, <2>1, GivesUpExact
<1>5. CASE Intact(o) /\ \E done \in SUBSET DOMAIN o.goal :
             /\ disk' = Changed([f \in done |-> Retained(o, f)])
             /\ folder' = WithParents(Changed([f \in done |-> Retained(o, f)]))
             /\ Begin(Loop, [o EXCEPT !.pc = IF done = DOMAIN o.goal THEN "verify" ELSE "compensate"])
  <2>1. PICK done \in SUBSET DOMAIN o.goal :
             /\ disk' = Changed([f \in done |-> Retained(o, f)])
             /\ folder' = WithParents(Changed([f \in done |-> Retained(o, f)]))
             /\ Begin(Loop, [o EXCEPT !.pc = IF done = DOMAIN o.goal THEN "verify" ELSE "compensate"])
    BY <1>5
  <2>2. Parents'
    BY <2>1, ParentsMade
  <2>3. CASE done # DOMAIN o.goal
    BY <1>1, <1>2, <2>1, <2>2, <2>3, GivesUpExact
  <2>4. CASE done = DOMAIN o.goal
    <3>1. PICK o2 : o2 = [o EXCEPT !.pc = "verify"]
      OBVIOUS
    <3>2. /\ o2.pc = "verify" /\ o2.kind = o.kind /\ o2.act = o.act /\ o2.src = o.src /\ o2.goal = o.goal
          /\ o2.seen = o.seen /\ o2.before = o.before /\ o2.mode = o.mode /\ o2.back = o.back
          /\ o2.fold = o.fold
      BY <1>3, <3>1 DEF Fields
    <3>3. /\ Touched(o.act)' = Touched(o.act) /\ Touched(o.src)' = Touched(o.src)
          /\ \A f : FirstBefore(o.src, f)' = FirstBefore(o.src, f)
      BY <1>2, SameTold
    <3>4. EditorKnows(o2)'
      BY <1>2, <3>2 DEF EditorKnows, Restores
    <3>5. Hierarchy(o2)'
      BY <1>2, <1>3, <3>2, <3>3 DEF Hierarchy, Known
    <3>6. o.kind = "undo" /\ ~o.back => (FolderReady(o) => FolderReady(o)')
      <4>1. SUFFICES ASSUME o.kind = "undo", ~o.back, FolderReady(o), Folder \in Touched(o.src),
                            o.fold # "remove"
                     PROVE  folder' = folder
        <5>1. folder' = folder => Present(folder') = Present(folder)
          OBVIOUS
        <5>2. QED
          BY <3>3, <5>1 DEF FolderReady
      <4>2. SUFFICES ASSUME folder = FALSE, NEW f \in InFolder, disk'[f] # Absent PROVE FALSE
        <5>1. folder' = (folder \/ \E f \in InFolder : disk'[f] # Absent)
          BY <2>1 DEF WithParents
        <5>2. folder \in BOOLEAN
          BY <1>3 DEF VaultTyped
        <5>3. QED
          BY <5>1, <5>2
      <4>3. f \in Files /\ disk[f] = Absent
        BY <1>3, <4>2, FilesAssumption DEF Parents, Empty
      <4>4. f \in DOMAIN o.goal /\ disk'[f] = Retained(o, f)
        BY <2>1, <4>2, <4>3 DEF Changed
      <4>5. o.goal[f] # Absent
        BY <1>5, <4>2, <4>4 DEF Intact
      <4>6. f \in Touched(o.src) /\ o.goal[f] = FirstBefore(o.src, f) /\ o.src \in Acts
        BY <1>1, <1>2, <1>3, <4>1, <4>4, HierarchyFacts DEF Undoing
      <4>7. FirstBefore(o.src, Folder) = Absent
        BY <4>1, <4>2 DEF FolderReady, Present
      <4>8. QED
        BY <1>3, <4>1, <4>2, <4>5, <4>6, <4>7 DEF FolderFirst
    <3>7. Undoing(o2)'
      BY <1>2, <1>3, <3>2, <3>3, <3>6 DEF Undoing, FolderReady
    <3>8. Unstarted'
      BY <1>2, <1>3 DEF Unstarted, Clean
    <3>9. Found'
      BY <1>2, <1>3, FoundKept DEF Grows
    <3>10. FolderFirst'
      BY <1>2, <1>3, FolderFirstKept
    <3>11. Begin(Loop, o2)
      BY <2>1, <2>4, <3>1
    <3>12. QED
      BY <1>1, <1>2, <2>2, <3>2, <3>4, <3>5, <3>7, <3>8, <3>9, <3>10, <3>11, LoopExact
  <2>5. QED
    BY <2>3, <2>4
<1>6. QED
  BY <1>1, <1>4, <1>5 DEF Apply, Continue

\* A failed restoration is compensated.
LEMMA CompensateExact ==
    ASSUME VaultInv, ExactInv, Compensate
    PROVE  ExactInv'
<1>1. PICK o : o = op[Loop]
  OBVIOUS
<1>2. /\ o.kind \in Restores /\ o.pc = "compensate"
      /\ UNCHANGED <<rows, act, origin, unsure>>
  BY <1>1 DEF Compensate, Going, At
<1>3. PICK done \in SUBSET DOMAIN o.goal :
          /\ disk' = Compensated(o, done) /\ folder' = WithParents(Compensated(o, done))
          /\ Begin(Loop, [o EXCEPT !.pc = IF done = DOMAIN o.goal THEN "failed" ELSE "unsure"])
  BY <1>1 DEF Compensate, Continue
<1>4. Parents'
  BY <1>3, ParentsMade
<1>5. QED
  BY <1>1, <1>2, <1>3, <1>4, GivesUpExact

\* The rows of a restoration tell what it displaced.
LEMMA BatchTells ==
    ASSUME NEW o, OpTyped(o), DOMAIN o.before = DOMAIN o.goal
    PROVE  /\ BatchRows(o) \in Seq(RowT) /\ Paths(BatchRows(o)) = DOMAIN o.goal
           /\ \A i \in DOMAIN BatchRows(o) : /\ BatchRows(o)[i].path \in DOMAIN o.goal
                                             /\ BatchRows(o)[i].before = o.before[BatchRows(o)[i].path]
<1>1. BatchRows(o) \in Seq(RowT) /\ Paths(BatchRows(o)) = DOMAIN o.goal
  BY BatchOfFiles
<1>2. \A i \in DOMAIN BatchRows(o) : BatchRows(o)[i].path \in DOMAIN o.goal
  BY <1>1 DEF Paths
<1>3. ASSUME NEW i \in DOMAIN BatchRows(o) PROVE BatchRows(o)[i].before = o.before[BatchRows(o)[i].path]
  <2> DEFINE f == SeqOf(DOMAIN o.goal)[i]
  <2>1. BatchRows(o)[i] = Row(f, o.before[f], o.goal[f])
    BY DEF BatchRows
  <2> HIDE DEF f
  <2>2. QED
    BY <2>1 DEF Row
<1>4. QED
  BY <1>1, <1>2, <1>3

\* A restoration is verified: its rows tell what the request first found, or a
\* task's rollback ends.
LEMMA VerifyExact ==
    ASSUME VaultInv, ExactInv, Verify
    PROVE  ExactInv'
<1>1. PICK o : o = op[Loop]
  OBVIOUS
<1>2. PICK o2 : o2 = [o EXCEPT !.pc = "done"]
  OBVIOUS
<1>3. /\ o.kind \in Restores /\ o.pc = "verify"
      /\ UNCHANGED <<disk, folder, author, origin, unsure>>
  BY <1>1 DEF Verify, Going, At, ghosts
<1>4. /\ DOMAIN o = Fields /\ OpTyped(o) /\ DOMAIN o.goal \subseteq Files
      /\ Hierarchy(o) /\ Undoing(o) /\ Unstarted
      /\ VaultTyped /\ Found /\ Parents /\ FolderFirst
  BY <1>1, LoopFacts
<1>5. CASE Begin(Loop, [o EXCEPT !.pc = "compensate"]) /\ UNCHANGED <<act, rows>>
  <2>1. Parents'
    BY <1>3, <1>4 DEF Parents, Empty
  <2>2. QED
    BY <1>1, <1>3, <1>5, <2>1, GivesUpExact
<1>6. CASE /\ act' = RolledBack(o.act) \/ act' = Ended(o.act, "failed")
           /\ Begin(Loop, Idle) /\ UNCHANGED rows
  <2>1. o.act \in Acts
    BY <1>1, <1>3, RestoreFacts DEF VaultInv
  <2>2. \A r \in Requests : act'[r].status = "none" => act[r].status = "none"
    BY <1>4, <1>6, <2>1, StaysStarted
  <2>3. QED
    BY <1>3, <1>6, <2>2, LoopEndsExact
<1>7. CASE /\ \A f \in DOMAIN o.goal : disk[f] = o.goal[f]
           /\ o.kind # "taskundo" /\ rows' = Recorded(o.act, BatchRows(o))
           /\ Begin(Loop, o2) /\ UNCHANGED act
  <2>1. /\ o2.pc = "done" /\ o2.kind = o.kind /\ o2.act = o.act /\ o2.src = o.src
        /\ o2.goal = o.goal /\ o2.seen = o.seen /\ o2.before = o.before
        /\ o2.mode = o.mode /\ o2.back = o.back /\ o2.fold = o.fold
    BY <1>2, <1>4 DEF Fields
  <2>2. /\ o.kind \in {"delete", "undo"} /\ o.act \in Requests /\ o.act \in Acts
        /\ act[o.act].status = "running" /\ o.mode = "write" /\ Restoring(o, act)
        /\ o.kind = "undo" => o.src \in Acts /\ o.act # o.src
    BY <1>1, <1>3, <1>7, HierarchyFacts DEF Restores
  <2>3. PICK new : new = BatchRows(o)
    OBVIOUS
  <2>4. /\ new \in Seq(RowT) /\ Paths(new) = DOMAIN o.goal /\ rows' = Recorded(o.act, new)
        /\ \A i \in DOMAIN new : /\ new[i].path \in DOMAIN o.goal
                                 /\ new[i].before = o.before[new[i].path]
    <3>1. DOMAIN o.before = DOMAIN o.goal
      BY <1>3, <2>2 DEF Restoring
    <3>2. QED
      BY <1>4, <1>7, <2>3, <3>1, BatchTells
  <2>5. /\ Unstarted' /\ \A a \in Tasks : rows'[a] = rows[a] /\ origin'[a] = origin[a]
        /\ \A b \in Acts \ {o.act} : rows'[b] = rows[b]
        /\ Touched(o.act)' = Touched(o.act) \cup DOMAIN o.goal
    BY <1>3, <1>7, <2>2, <2>4, OwnRows
  <2>6. o.kind = "undo" => /\ Touched(o.src)' = Touched(o.src)
                           /\ \A p : FirstBefore(o.src, p)' = FirstBefore(o.src, p)
    BY <2>2, <2>5, SameTold
  <2>7. \A f \in DOMAIN o.goal : f # Folder
    BY <1>4, FilesAssumption DEF Folder
  <2>8. EditorKnows(o2)'
    BY <2>1, <2>2 DEF EditorKnows
  <2>9. Hierarchy(o2)'
    BY <1>3, <1>4, <2>1, <2>2, <2>5, <2>7 DEF Hierarchy
  <2>10. Undoing(o2)'
    BY <1>3, <1>4, <1>7, <2>1, <2>2, <2>6 DEF Undoing, FolderReady
  <2>11. Found'
    <3>1. \A i \in DOMAIN new : Known(o.act, new[i].path, new[i].before)
      BY <1>3, <1>4, <2>2, <2>4 DEF Hierarchy
    <3>2. Grows
      BY <1>3 DEF Grows
    <3>3. QED
      BY <1>4, <2>2, <2>4, <3>1, <3>2, FoundAdds
  <2>12. FolderFirst'
    <3>1. ASSUME Folder \in Touched(o.act), NEW i \in DOMAIN new, new[i].path \in InFolder
          PROVE  new[i].before = Absent \/ new[i].path \in Touched(o.act)
      <4>1. o.kind = "undo"
        BY <1>3, <1>4, <2>2, <3>1 DEF Hierarchy
      <4>2. CASE o.back
        BY <1>3, <1>4, <2>2, <2>4, <4>2 DEF Hierarchy
      <4>3. CASE ~o.back
        BY <1>3, <1>4, <2>4, <3>1, <4>1, <4>3 DEF Undoing
      <4>4. QED
        BY <4>2, <4>3
    <3>2. \A i \in DOMAIN new : new[i].path # Folder
      BY <2>4, <2>7
    <3>3. QED
      BY <1>4, <2>2, <2>4, <3>1, <3>2, FolderFirstAdds
  <2>13. Parents'
    BY <1>3, <1>4 DEF Parents, Empty
  <2>14. QED
    BY <1>1, <1>3, <1>7, <2>1, <2>5, <2>8, <2>9, <2>10, <2>11, <2>12, <2>13, LoopExact
<1>8. QED
  BY <1>1, <1>2, <1>5, <1>6, <1>7 DEF Verify, Continue

-----------------------------------------------------------------------------
(* A task ends.                                                            *)

\* A task that ends, or goes on to its rollback.
LEMMA EndTaskExact ==
    ASSUME VaultInv, ExactInv, NEW a \in Tasks, NEW outcome \in {"completed", "failed"},
           EndTask(a, outcome)
    PROVE  ExactInv'
<1>1. /\ op[Loop] = Idle /\ UNCHANGED <<disk, folder, rows, author, origin, unsure>>
      /\ VaultTyped /\ a \in Acts
  BY DEF EndTask, ghosts, VaultInv, Acts
<1>2. CASE act' = Ended(a, outcome) /\ UNCHANGED op
  <2>1. Begin(Loop, Idle)
    <3>1. op = [t \in VaultThreads |-> op[t]]
      BY <1>1 DEF VaultTyped, OneOpEach
    <3>2. op = [op EXCEPT ![Loop] = Idle]
      BY <1>1, <3>1
    <3>3. QED
      BY <1>2, <3>2 DEF Begin
  <2>2. \A r \in Requests : act'[r].status = "none" => act[r].status = "none"
    BY <1>1, <1>2, StaysStarted
  <2>3. QED
    BY <1>1, <2>1, <2>2, LoopEndsExact
<1>3. CASE /\ act' = [act EXCEPT ![a].status = "ending"]
           /\ Begin(Loop, [Idle EXCEPT !.kind = "taskundo", !.pc = "enter", !.act = a,
                !.src = a,
                !.goal = [f \in Touched(a) |-> FirstBefore(a, f)],
                !.seen = [f \in Touched(a) |-> LastAfter(a, f)]])
  <2>1. PICK o2 : o2 = [Idle EXCEPT !.kind = "taskundo", !.pc = "enter", !.act = a,
                !.src = a,
                !.goal = [f \in Touched(a) |-> FirstBefore(a, f)],
                !.seen = [f \in Touched(a) |-> LastAfter(a, f)]]
    OBVIOUS
  <2>2. o2.kind = "taskundo" /\ o2.mode = "none"
    BY <2>1 DEF Idle
  <2>3. EditorKnows(o2) /\ Hierarchy(o2) /\ Undoing(o2)
    BY <2>2 DEF EditorKnows, Hierarchy, Undoing
  <2>4. \A r \in Requests : act'[r].status = "none" => act[r].status = "none"
    BY <1>1, <1>3, StaysStarted
  <2>5. Begin(Loop, o2)
    BY <1>3, <2>1
  <2>6. QED
    BY <1>1, <2>2, <2>3, <2>4, <2>5, QuietLoopExact
<1>4. QED
  BY <1>2, <1>3 DEF EndTask, Continue

\* The rollback of a task fails.
LEMMA TaskUndoFailedExact ==
    ASSUME VaultInv, ExactInv, TaskUndoFailed
    PROVE  ExactInv'
<1>1. /\ op[Loop].kind = "taskundo" /\ op[Loop].pc \in {"failed", "unsure"}
      /\ act' = Ended(op[Loop].act, "failed") /\ Begin(Loop, Idle)
      /\ UNCHANGED <<disk, folder, rows, author, origin, unsure>>
  BY DEF TaskUndoFailed, At, Continue, ghosts
<1>2. VaultTyped /\ op[Loop].act \in Acts
  BY <1>1, RestoreFacts DEF VaultInv, Restores
<1>3. \A r \in Requests : act'[r].status = "none" => act[r].status = "none"
  BY <1>1, <1>2, StaysStarted
<1>4. QED
  BY <1>1, <1>3, LoopEndsExact

-----------------------------------------------------------------------------
(* Requests that change the hierarchy.                                     *)

\* A request waits for the hierarchy.
LEMMA AskExact ==
    ASSUME VaultInv, ExactInv, NEW r \in Requests, NEW k \in {"undo", "delete"}, NEW src,
           Ask(r, k, src)
    PROVE  ExactInv'
<1>1. PICK o2 : o2 = [Idle EXCEPT !.kind = k, !.pc = "exclude", !.act = r, !.src = src]
  OBVIOUS
<1>2. /\ Begin(Loop, o2) /\ UNCHANGED <<disk, folder, rows, act, author, origin, unsure>>
  BY <1>1 DEF Ask, Continue, ghosts
<1>3. o2.pc = "exclude" /\ o2.kind = k /\ o2.mode = "none"
  BY <1>1 DEF Idle
<1>4. EditorKnows(o2) /\ Hierarchy(o2) /\ Undoing(o2)
  BY <1>3 DEF EditorKnows, Hierarchy, Undoing
<1>5. QED
  BY <1>2, <1>3, <1>4, QuietLoopExact

\* A deletion is planned: nothing was captured or recorded for it yet.
LEMMA DeletePlanExact ==
    ASSUME VaultInv, ExactInv, DeletePlan
    PROVE  ExactInv'
<1>1. PICK o : o = op[Loop]
  OBVIOUS
<1>2. PICK fs : fs = {f \in Files : disk[f] # Absent
                        /\ (f = o.src \/ (o.src = Folder /\ f \in InFolder))}
  OBVIOUS
<1>3. PICK new : new = [o EXCEPT !.mode = "write", !.goal = [f \in fs |-> Absent],
                          !.seen = [f \in fs |-> disk[f]],
                          !.fold = IF o.src = Folder THEN "remove" ELSE "keep"]
  OBVIOUS
<1>4. PICK o2 : o2 = [new EXCEPT !.pc = FirstStep(new)]
  OBVIOUS
<1>5. /\ o.kind = "delete" /\ o.pc = "exclude" /\ WriteFree(Loop)
      /\ UNCHANGED <<disk, folder, rows, author, origin, unsure>>
  BY <1>1 DEF DeletePlan, At, ghosts
<1>6. /\ DOMAIN o = Fields /\ Unstarted /\ VaultTyped /\ JobsOK /\ Loop \in VaultThreads
      /\ Loop \notin Workers
  BY <1>1, LoopFacts
<1>7. o.act \in Requests /\ o.act \in Acts /\ act[o.act].status = "none" /\ ~o.back
  BY <1>1, <1>5, <1>6, JobByKind DEF Asked, Delete, Restoring, Acts
<1>8. CASE Begin(Loop, Idle) /\ UNCHANGED act
  BY <1>5, <1>8, LoopEndsExact
<1>9. CASE Begin(Loop, o2) /\ act' = Started(o.act)
  <2>1. /\ DOMAIN new = Fields /\ new.kind = o.kind /\ new.act = o.act /\ new.back = o.back
        /\ new.mode = "write" /\ DOMAIN new.goal = fs
    BY <1>3, <1>6 DEF Fields
  <2>2. /\ o2.pc = FirstStep(new) /\ o2.kind = "delete" /\ o2.act = o.act /\ ~o2.back
        /\ o2.mode = "write" /\ o2.goal = new.goal
    BY <1>4, <1>5, <1>7, <2>1 DEF Fields
  <2>3. o2.pc = "capture" \/ (o2.pc = "done" /\ DOMAIN o2.goal = {})
    BY <2>2 DEF FirstStep
  <2>4. Clean(o.act) /\ Touched(o.act) = {}
    BY <1>6, <1>7 DEF Unstarted, Touched, Paths
  <2>5. EditorKnows(o2) /\ Hierarchy(o2) /\ Undoing(o2)
    BY <2>2, <2>3, <2>4 DEF EditorKnows, Hierarchy, Undoing
  <2>6. \A w \in Workers : op[w].mode = "none"
    BY <1>5, <1>6 DEF WriteFree, VaultThreads
  <2>7. \A r \in Requests : act'[r].status = "none" => act[r].status = "none"
    BY <1>6, <1>7, <1>9, StaysStarted
  <2>8. QED
    BY <1>5, <1>9, <2>5, <2>6, <2>7, QuietLoopExact
<1>10. QED
  BY <1>1, <1>2, <1>3, <1>4, <1>8, <1>9 DEF DeletePlan, Continue

\* The marks that rows tell of the folder.
LEMMA MarksOfRows ==
    ASSUME VaultTyped, NEW a \in Acts, Folder \in Touched(a)
    PROVE  FirstBefore(a, Folder) \in Marks /\ LastAfter(a, Folder) \in Marks
<1>1. rows[a] \in Seq(RowT) /\ Folder \in Paths(rows[a])
  BY DEF VaultTyped, Touched
<1>2. \A i \in DOMAIN rows[a] : rows[a][i] \in RowT
  BY <1>1
<1>3. /\ FirstOf(rows[a], Folder) \in DOMAIN rows[a] /\ rows[a][FirstOf(rows[a], Folder)].path = Folder
      /\ LastOf(rows[a], Folder) \in DOMAIN rows[a] /\ rows[a][LastOf(rows[a], Folder)].path = Folder
  BY <1>1, FirstAndLast DEF Of
<1>4. Folder \notin Files
  BY FilesAssumption DEF Folder
<1>5. QED
  BY <1>2, <1>3, <1>4 DEF RowT, FirstBefore, LastAfter

\* What a row of the folder changes.
LEMMA FolderRowTells ==
    ASSUME VaultTyped, Found, FolderFirst, Grows, NEW r \in Acts, NEW x \in Marks, NEW y \in Marks,
           rows' = rows \/ rows' = Recorded(r, <<Row(Folder, x, y)>>),
           rows' = rows \/ x # Absent \/ Folder \in Touched(r) \/ Touched(r) = {}
    PROVE  /\ Found' /\ FolderFirst' /\ \A b \in Acts \ {r} : rows'[b] = rows[b]
           /\ Touched(r) \subseteq Touched(r)' /\ Touched(r)' \subseteq Touched(r) \cup {Folder}
           /\ rows' = rows \/ Folder \in Touched(r)'
<1>1. CASE rows' = rows
  BY <1>1, FoundKept, FolderFirstKept DEF Touched
<1>2. CASE rows' = Recorded(r, <<Row(Folder, x, y)>>) /\ rows' # rows
  <2>1. PICK new : new = <<Row(Folder, x, y)>>
    OBVIOUS
  <2>2. /\ new \in Seq(RowT) /\ DOMAIN new = {1} /\ new[1].path = Folder /\ new[1].before = x
    BY <2>1 DEF Row, RowT
  <2>3. Paths(new) = {Folder} /\ rows' = Recorded(r, new)
    BY <1>2, <2>1, <2>2 DEF Paths
  <2>4. (\A b \in Acts \ {r} : rows'[b] = rows[b]) /\ Touched(r)' = Touched(r) \cup {Folder}
    BY <2>2, <2>3, RowsAdded
  <2>5. Found'
    BY <2>2, <2>3, FoundAdds
  <2>6. FolderFirst'
    <3>1. Folder \notin InFolder
      BY FilesAssumption DEF Folder
    <3>2. \A i \in DOMAIN new : new[i].path \notin InFolder
      BY <2>2, <3>1
    <3>3. Folder \notin Touched(r) =>
             \/ \A i \in DOMAIN new : new[i].path = Folder => new[i].before # Absent
             \/ InFolder \cap (Touched(r) \cup Paths(new)) = {}
      BY <1>2, <2>2, <2>3, <3>1
    <3>4. QED
      BY <2>2, <2>3, <3>2, <3>3, FolderFirstAdds
  <2>7. QED
    BY <2>4, <2>5, <2>6
<1>3. QED
  BY <1>1, <1>2

\* A rollback is planned: a folder that is made has no files yet.
LEMMA UndoPlanExact ==
    ASSUME VaultInv, ExactInv, UndoPlan
    PROVE  ExactInv'
<1>1. PICK o : o = op[Loop]
  OBVIOUS
<1>2. PICK a : a = o.src
  OBVIOUS
<1>3. PICK fs : fs = Touched(a) \ {Folder}
  OBVIOUS
<1>4. PICK fold2 : fold2 =
        IF Folder \notin Touched(a) \/ FirstBefore(a, Folder) = LastAfter(a, Folder)
        THEN "keep" ELSE IF FirstBefore(a, Folder) = Absent THEN "remove" ELSE "make"
  OBVIOUS
<1>5. PICK new : new = [o EXCEPT !.mode = "write", !.fold = fold2, !.made = (fold2 = "make"),
                          !.goal = [f \in fs |-> FirstBefore(a, f)],
                          !.seen = [f \in fs |-> LastAfter(a, f)]]
  OBVIOUS
<1>6. PICK o2 : o2 = [new EXCEPT !.pc = FirstStep(new)]
  OBVIOUS
<1>7. /\ o.kind = "undo" /\ o.pc = "exclude" /\ WriteFree(Loop)
      /\ UNCHANGED <<disk, author, origin, unsure>>
  BY <1>1 DEF UndoPlan, At, ghosts
<1>8. /\ DOMAIN o = Fields /\ Unstarted /\ VaultTyped /\ JobsOK /\ Loop \in VaultThreads
      /\ Loop \notin Workers /\ Found /\ Parents /\ FolderFirst
  BY <1>1, LoopFacts
<1>9. /\ o.act \in Requests /\ o.act \in Acts /\ act[o.act].status = "none" /\ ~o.back
      /\ a \in Acts /\ o.act \notin Tasks
  BY <1>1, <1>2, <1>7, <1>8, JobByKind, FilesAssumption DEF Asked, Undo, Restoring, Acts
<1>10. CASE Begin(Loop, Idle) /\ UNCHANGED <<act, folder, rows>>
  BY <1>7, <1>10, LoopEndsExact
<1>11. CASE /\ CanUndo(a) /\ act' = Started(o.act) /\ folder' = (folder \/ fold2 = "make")
            /\ rows' = IF fold2 = "make" THEN Recorded(o.act, <<Row(Folder, Absent, "here")>>) ELSE rows
            /\ Begin(Loop, o2)
  <2>1. /\ DOMAIN new = Fields /\ new.kind = o.kind /\ new.act = o.act /\ new.back = o.back
        /\ new.src = o.src /\ new.mode = "write" /\ new.fold = fold2
        /\ new.goal = [f \in fs |-> FirstBefore(a, f)] /\ new.seen = [f \in fs |-> LastAfter(a, f)]
    BY <1>5, <1>8 DEF Fields
  <2>2. /\ o2.pc = FirstStep(new) /\ o2.kind = "undo" /\ o2.act = o.act /\ ~o2.back /\ o2.src = a
        /\ o2.mode = "write" /\ o2.goal = new.goal /\ o2.seen = new.seen /\ o2.fold = fold2
    BY <1>2, <1>6, <1>7, <1>9, <2>1 DEF Fields
  <2>3. o2.pc = "capture" \/ (o2.pc = "done" /\ DOMAIN o2.goal = {})
    BY <2>2 DEF FirstStep
  <2>4. /\ DOMAIN o2.goal = fs /\ \A f \in fs : o2.goal[f] = FirstBefore(a, f)
        /\ \A f \in fs : o2.seen[f] = LastAfter(a, f)
    BY <2>1, <2>2
  <2>5. Clean(o.act) /\ Touched(o.act) = {} /\ o.act # a
    BY <1>8, <1>9, <1>11 DEF Unstarted, Touched, Paths, CanUndo, Over
  <2>6. /\ Found' /\ FolderFirst' /\ \A b \in Acts \ {o.act} : rows'[b] = rows[b]
        /\ Touched(o.act)' \subseteq {Folder}
    <3>1. Absent \in Marks /\ "here" \in Marks /\ Grows
      BY <1>7 DEF Marks, Grows
    <3>2. rows' = rows \/ rows' = Recorded(o.act, <<Row(Folder, Absent, "here")>>)
      BY <1>11
    <3>3. QED
      BY <1>8, <1>9, <2>5, <3>1, <3>2, FolderRowTells
  <2>7. Touched(a)' = Touched(a) /\ \A p : FirstBefore(a, p)' = FirstBefore(a, p)
    BY <1>9, <2>5, <2>6, SameTold
  <2>8. Folder \in Touched(a) =>
          /\ FirstBefore(a, Folder) \in Marks /\ LastAfter(a, Folder) \in Marks
          /\ Present(folder) = LastAfter(a, Folder)
    BY <1>8, <1>9, <1>11, MarksOfRows DEF CanUndo
  <2>9. fold2 = "make" => /\ Folder \in Touched(a) /\ FirstBefore(a, Folder) = "here"
                          /\ LastAfter(a, Folder) = Absent /\ ~folder
    BY <1>4, <2>8 DEF Marks, Present
  <2>10. EditorKnows(o2)'
    BY <2>2 DEF EditorKnows
  <2>11. Hierarchy(o2)'
    <3>1. Clean(o.act)'
      BY <1>7, <2>5 DEF Clean
    <3>2. QED
      BY <2>2, <2>3, <3>1 DEF Hierarchy
  <2>12. FolderReady(o2)'
    <3>1. SUFFICES ASSUME Folder \in Touched(a)
                   PROVE  \/ fold2 = "remove" /\ FirstBefore(a, Folder) = Absent
                          \/ fold2 # "remove" /\ FirstBefore(a, Folder) = Present(folder')
      BY <2>2, <2>7 DEF FolderReady
    <3>2. CASE FirstBefore(a, Folder) = LastAfter(a, Folder)
      <4>1. fold2 = "keep" /\ folder' = folder
        BY <1>4, <1>8, <1>11, <3>2 DEF VaultTyped
      <4>2. QED
        BY <2>8, <3>1, <3>2, <4>1
    <3>3. CASE fold2 = "make"
      <4>1. folder' = TRUE
        BY <1>11, <3>3
      <4>2. QED
        BY <2>9, <3>3, <4>1 DEF Present
    <3>4. QED
      BY <1>4, <3>1, <3>2, <3>3
  <2>13. Undoing(o2)'
    <3>1. Folder \in Touched(o.act)' => \A f \in DOMAIN o2.goal \cap InFolder : o2.seen[f] = Absent
      <4>1. SUFFICES ASSUME Folder \in Touched(o.act)', NEW f \in fs \cap InFolder
                     PROVE  LastAfter(a, f) = Absent
        BY <2>4
      <4>2. fold2 = "make"
        <5>1. rows' # rows
          BY <2>5, <4>1 DEF Touched
        <5>2. QED
          BY <1>11, <5>1
      <4>3. disk[f] = Absent
        BY <1>8, <2>9, <4>2 DEF Parents, Empty
      <4>4. disk[f] = LastAfter(a, f)
        BY <1>3, <1>11 DEF CanUndo
      <4>5. QED
        BY <4>3, <4>4
    <3>2. QED
      BY <2>2, <2>3, <2>4, <2>7, <2>12, <3>1 DEF Undoing
  <2>14. Unstarted'
    <3>1. act'[o.act].status = "running"
      BY <1>8, <1>9, <1>11, StartedActs
    <3>2. \A r \in Requests : act'[r].status = "none" => act[r].status = "none"
      BY <1>8, <1>9, <1>11, StaysStarted
    <3>3. QED
      BY <1>7, <1>8, <2>6, <3>1, <3>2 DEF Unstarted, Clean, Acts
  <2>15. Parents'
    BY <1>7, <1>8, <1>11 DEF Parents, Empty
  <2>16. \A w \in Workers : op[w].mode = "none"
    BY <1>7, <1>8 DEF WriteFree, VaultThreads
  <2>17. \A b \in Tasks : rows'[b] = rows[b] /\ origin'[b] = origin[b]
    BY <1>7, <1>9, <2>6 DEF Acts
  <2>18. QED
    BY <1>7, <1>11, <2>6, <2>10, <2>11, <2>13, <2>14, <2>15, <2>16, <2>17, LoopExact
<1>12. QED
  BY <1>1, <1>2, <1>3, <1>4, <1>5, <1>6, <1>10, <1>11 DEF UndoPlan, Continue

\* A step of a request's rollback or deletion that changes no file: it may add
\* a row of the folder, and it goes on or ends.
LEMMA RequestExact ==
    ASSUME VaultInv, ExactInv, op[Loop].kind \in {"delete", "undo"}, op[Loop].pc # "exclude",
           NEW o2, Begin(Loop, o2), UNCHANGED <<disk, author, origin>>, unsure \subseteq unsure',
           NEW x \in Marks, NEW y \in Marks,
           rows' = rows \/ rows' = Recorded(op[Loop].act, <<Row(Folder, x, y)>>),
           rows' = rows \/ x # Absent \/ Folder \in Touched(op[Loop].act),
           \A r \in Requests : act'[r].status = "none" => act[r].status = "none",
           folder' \/ Empty, EditorKnows(o2)', Hierarchy(o2)', Undoing(o2)'
    PROVE  ExactInv'
<1>1. PICK o : o = op[Loop]
  OBVIOUS
<1>2. /\ VaultTyped /\ Found /\ FolderFirst
      /\ o.act \in Requests /\ o.act \in Acts /\ o.act \notin Tasks
      /\ act[o.act].status = "running" /\ o.mode = "write"
  BY <1>1, LoopFacts, HierarchyFacts
<1>3. Grows
  BY DEF Grows
<1>4. Found' /\ FolderFirst' /\ \A b \in Acts \ {o.act} : rows'[b] = rows[b]
  BY <1>1, <1>2, <1>3, FolderRowTells
<1>5. Unstarted'
  BY <1>2, <1>4, NewIsElse
<1>6. \A a \in Tasks : rows'[a] = rows[a] /\ origin'[a] = origin[a]
  BY <1>2, <1>4 DEF Acts
<1>7. Parents'
  BY DEF Parents, Empty
<1>8. QED
  BY <1>1, <1>2, <1>4, <1>5, <1>6, <1>7, LoopExact

\* The same, when it ends.
LEMMA RequestEndsExact ==
    ASSUME VaultInv, ExactInv, op[Loop].kind \in {"delete", "undo"}, op[Loop].pc # "exclude",
           Begin(Loop, Idle), UNCHANGED <<disk, author, origin>>, unsure \subseteq unsure',
           rows' = rows \/ rows' = Recorded(op[Loop].act, <<Row(Folder, "here", Absent)>>),
           NEW ok \in BOOLEAN, act' = Marked(op[Loop], ok), folder' \/ Empty
    PROVE  ExactInv'
<1>1. PICK o : o = op[Loop]
  OBVIOUS
<1>2. /\ VaultTyped /\ o.act \in Acts /\ act[o.act].status = "running"
      /\ o.kind = "undo" => o.src \in Acts
  BY <1>1, LoopFacts, HierarchyFacts
<1>3. \A r \in Requests : act'[r].status = "none" => act[r].status = "none"
  <2>1. PICK mid : mid = Ended(o.act, IF ok THEN "completed" ELSE "failed")
    OBVIOUS
  <2>2. mid \in [Acts -> ActT] /\ mid[o.act].status # "none" /\ \A b \in Acts \ {o.act} : mid[b] = act[b]
    BY <1>2, <2>1 DEF Ended, VaultTyped, ActT
  <2>3. act' = mid \/ (o.src \in Acts /\ act' = [mid EXCEPT ![o.src].undone = TRUE])
    BY <1>1, <1>2, <2>1 DEF Marked
  <2>4. \A b \in Acts : act'[b].status = mid[b].status
    <3>1. CASE act' = mid
      BY <3>1
    <3>2. CASE o.src \in Acts /\ act' = [mid EXCEPT ![o.src].undone = TRUE]
      <4>1. mid[o.src] \in ActT
        BY <2>2, <3>2
      <4>2. act'[o.src] = [mid[o.src] EXCEPT !.undone = TRUE]
        BY <2>2, <3>2
      <4>3. act'[o.src].status = mid[o.src].status
        BY <4>1, <4>2 DEF ActT
      <4>4. \A b \in Acts \ {o.src} : act'[b] = mid[b]
        BY <2>2, <3>2
      <4>5. QED
        BY <4>3, <4>4
    <3>3. QED
      BY <2>3, <3>1, <3>2
  <2>5. QED
    BY <2>2, <2>4 DEF Acts
<1>4. PICK o2 : o2 = Idle
  OBVIOUS
<1>5. (EditorKnows(o2) /\ Hierarchy(o2) /\ Undoing(o2))' /\ Begin(Loop, o2)
  BY <1>4, IdleKnowsNext
<1>6. "here" \in Marks /\ Absent \in Marks /\ "here" # Absent
  BY FilesAssumption DEF Marks
<1>7. QED
  BY <1>3, <1>5, <1>6, RequestExact

\* The folder is removed, and the request ends or begins to take all of it back.
LEMMA FolderStepExact ==
    ASSUME VaultInv, ExactInv, FolderStep
    PROVE  ExactInv'
<1>1. PICK o : o = op[Loop]
  OBVIOUS
<1>2. PICK remove : remove = (o.fold = "remove")
  OBVIOUS
<1>3. /\ o.kind \in Restores /\ o.pc = "done" /\ ~o.back
      /\ UNCHANGED <<disk, author, origin, unsure>>
  BY <1>1 DEF FolderStep, Going, At, ghosts
<1>4. /\ DOMAIN o = Fields /\ Hierarchy(o) /\ Undoing(o) /\ VaultTyped /\ Parents
      /\ Found /\ FolderFirst
  BY <1>1, LoopFacts
<1>5. o.kind \in {"delete", "undo"}
  BY <1>1, <1>3, RestoreFacts DEF Restores, TaskUndo
<1>6. /\ o.act \in Requests /\ o.act \in Acts /\ o.mode = "write"
      /\ o.kind = "undo" => o.src \in Acts /\ o.act # o.src
  BY <1>1, <1>3, <1>5, HierarchyFacts
<1>7. \/ folder' = (folder /\ ~remove) /\ (remove => Empty)
      \/ folder' = folder
  BY <1>1, <1>2 DEF FolderStep
<1>8. /\ rows' = rows \/ rows' = Recorded(o.act, <<Row(Folder, "here", Absent)>>)
      /\ remove /\ Empty => rows' = Recorded(o.act, <<Row(Folder, "here", Absent)>>)
  BY <1>1, <1>2 DEF FolderStep
<1>9. folder' \/ Empty
  BY <1>4, <1>7 DEF Parents, VaultTyped
<1>10. CASE Begin(Loop, Idle) /\ (act' = Marked(o, TRUE) \/ act' = Marked(o, FALSE))
  <2>1. PICK ok \in BOOLEAN : act' = Marked(o, ok)
    BY <1>10
  <2>2. QED
    BY <1>1, <1>3, <1>5, <1>8, <1>9, <1>10, <2>1, RequestEndsExact
<1>11. CASE o.kind = "undo" /\ Begin(Loop, [o EXCEPT !.pc = "revert"]) /\ UNCHANGED act
  <2>1. PICK o2 : o2 = [o EXCEPT !.pc = "revert"]
    OBVIOUS
  <2>2. /\ o2.pc = "revert" /\ o2.kind = "undo" /\ o2.act = o.act /\ o2.src = o.src
        /\ o2.goal = o.goal /\ o2.mode = o.mode /\ ~o2.back /\ o2.fold = o.fold
    BY <1>3, <1>4, <1>11, <2>1 DEF Fields
  <2>3. "here" \in Marks /\ Absent \in Marks /\ "here" # Absent /\ Grows
    BY <1>3, FilesAssumption DEF Marks, Grows
  <2>4. /\ \A b \in Acts \ {o.act} : rows'[b] = rows[b]
        /\ Touched(o.act) \subseteq Touched(o.act)'
        /\ rows' = rows \/ Folder \in Touched(o.act)'
    BY <1>4, <1>6, <1>8, <2>3, FolderRowTells
  <2>5. \A p : FirstBefore(o.src, p)' = FirstBefore(o.src, p)
    BY <1>6, <1>11, <2>4, SameTold
  <2>6. EditorKnows(o2)'
    BY <2>2 DEF EditorKnows
  <2>7. Hierarchy(o2)'
    BY <1>3, <1>4, <1>5, <1>6, <2>2, <2>4 DEF Hierarchy
  <2>8. o.fold = "remove" /\ ~folder' => Folder \in Touched(o.act)'
    <3>1. SUFFICES ASSUME remove, ~folder', rows' = rows PROVE FALSE
      BY <1>2, <2>4
    <3>2. Empty
      BY <1>9, <3>1
    <3>3. rows'[o.act] = rows[o.act] \o <<Row(Folder, "here", Absent)>>
      BY <1>4, <1>6, <1>8, <3>1, <3>2 DEF Recorded, VaultTyped
    <3>4. Len(rows[o.act]) \in Nat /\ rows[o.act] \in Seq(RowT)
      BY <1>4, <1>6 DEF VaultTyped
    <3>5. <<Row(Folder, "here", Absent)>> \in Seq(RowT)
      BY <2>3 DEF Row, RowT
    <3>6. Len(rows'[o.act]) = Len(rows[o.act]) + 1
      <4>1. PICK new : new = <<Row(Folder, "here", Absent)>>
        OBVIOUS
      <4>2. PICK s : s = rows[o.act]
        OBVIOUS
      <4>3. Len(new) = 1 /\ new \in Seq(RowT) /\ s \in Seq(RowT) /\ rows'[o.act] = s \o new
        BY <3>3, <3>4, <3>5, <4>1, <4>2
      <4>4. s \in Seq(RowT) /\ new \in Seq(RowT)
        BY <4>3
      <4>5. Len(s \o new) = Len(s) + Len(new)
        BY <4>4
      <4>6. QED
        BY <4>2, <4>3, <4>5
    <3>7. QED
      BY <3>1, <3>4, <3>6
  <2>9. Undoing(o2)'
    BY <1>3, <1>4, <1>11, <2>2, <2>5, <2>8 DEF Undoing
  <2>10. \A r \in Requests : act'[r].status = "none" => act[r].status = "none"
    BY <1>11
  <2>11. Begin(Loop, o2)
    BY <1>11, <2>1
  <2>12. QED
    BY <1>1, <1>3, <1>5, <1>8, <1>9, <2>3, <2>6, <2>7, <2>9, <2>10, <2>11, RequestExact
<1>12. QED
  BY <1>1, <1>10, <1>11 DEF FolderStep, Continue

\* The way back: what was restored is the request's own.
LEMMA RevertExact ==
    ASSUME VaultInv, ExactInv, Revert
    PROVE  ExactInv'
<1>1. PICK o : o = op[Loop]
  OBVIOUS
<1>2. PICK again : again = (o.fold = "remove" /\ ~folder)
  OBVIOUS
<1>3. PICK o2 : o2 = Reverting(o)
  OBVIOUS
<1>4. /\ o.kind = "undo" /\ o.pc = "revert" /\ Begin(Loop, o2) /\ folder' = (folder \/ again)
      /\ rows' = rows \/ (again /\ rows' = Recorded(o.act, <<Row(Folder, Absent, "here")>>))
      /\ UNCHANGED <<disk, act, author, origin, unsure>>
  BY <1>1, <1>2, <1>3 DEF Revert, At, Continue, ghosts
<1>5. /\ DOMAIN o = Fields /\ Hierarchy(o) /\ Undoing(o) /\ VaultTyped /\ Parents
      /\ Found /\ FolderFirst
  BY <1>1, LoopFacts
<1>6. /\ o.act \in Requests /\ o.act \in Acts /\ o.mode = "write" /\ Restoring(o, act)
      /\ DOMAIN o.goal \subseteq Touched(o.act) /\ ~o.back
  BY <1>1, <1>4, <1>5, HierarchyFacts DEF Hierarchy
<1>7. /\ o2.pc = FirstStep(o) /\ o2.kind = "undo" /\ o2.act = o.act
      /\ o2.goal = o.before /\ o2.mode = "write" /\ o2.back = TRUE
  BY <1>3, <1>4, <1>5, <1>6 DEF Reverting, Fields
<1>8. o2.pc \in {"capture", "done"} /\ DOMAIN o2.goal = DOMAIN o.goal
  BY <1>4, <1>6, <1>7 DEF FirstStep, Restoring
<1>9. again => Folder \in Touched(o.act)
  BY <1>2, <1>4, <1>5, <1>6 DEF Undoing
<1>10. "here" \in Marks /\ Absent \in Marks /\ Grows
  BY <1>4 DEF Marks, Grows
<1>11. Touched(o.act) \subseteq Touched(o.act)'
  BY <1>4, <1>5, <1>6, <1>9, <1>10, FolderRowTells
<1>12. EditorKnows(o2)'
  BY <1>7 DEF EditorKnows
<1>13. Hierarchy(o2)'
  BY <1>6, <1>7, <1>8, <1>11 DEF Hierarchy
<1>14. Undoing(o2)'
  BY <1>7 DEF Undoing
<1>15. folder' \/ Empty
  BY <1>4, <1>5 DEF Parents
<1>16. \A r \in Requests : act'[r].status = "none" => act[r].status = "none"
  BY <1>4
<1>17. QED
  BY <1>1, <1>4, <1>9, <1>10, <1>12, <1>13, <1>14, <1>15, <1>16, RequestExact

\* A rollback that failed ends; a folder that it made goes, when it is empty.
LEMMA UndoFailedExact ==
    ASSUME VaultInv, ExactInv, UndoFailed
    PROVE  ExactInv'
<1>1. PICK o : o = op[Loop]
  OBVIOUS
<1>2. /\ o.kind = "undo" /\ Begin(Loop, Idle) /\ act' = Marked(o, FALSE)
      /\ UNCHANGED <<disk, author, origin>>
  BY <1>1 DEF UndoFailed, At, Continue
<1>3. unsure \subseteq unsure'
  BY <1>1 DEF UndoFailed
<1>4. o.pc # "exclude"
  <2>1. IF o.back THEN o.pc = "done" ELSE o.pc \in {"failed", "unsure"}
    BY <1>1 DEF UndoFailed
  <2>2. QED
    BY <2>1
<1>5. /\ folder' \/ Empty
      /\ rows' = rows \/ rows' = Recorded(o.act, <<Row(Folder, "here", Absent)>>)
  <2>1. IF o.made /\ Empty
        THEN folder' = FALSE /\ rows' = Recorded(o.act, <<Row(Folder, "here", Absent)>>)
        ELSE folder' = folder /\ rows' = rows
    BY <1>1 DEF UndoFailed
  <2>2. folder \/ Empty
    BY LoopFacts DEF Parents
  <2>3. QED
    BY <2>1, <2>2
<1>6. QED
  BY <1>1, <1>2, <1>3, <1>4, <1>5, RequestEndsExact

\* A request that failed ends.
LEMMA RequestFailedExact ==
    ASSUME VaultInv, ExactInv, RequestFailed
    PROVE  ExactInv'
<1>1. /\ op[Loop].kind \in {"undo", "delete"} /\ op[Loop].pc \in {"failed", "unsure"}
      /\ Begin(Loop, Idle) /\ act' = Marked(op[Loop], FALSE)
      /\ UNCHANGED <<disk, folder, rows, author, origin>>
  BY DEF RequestFailed, At, Continue
<1>2. unsure \subseteq unsure'
  BY DEF RequestFailed
<1>3. folder' \/ Empty
  BY <1>1, LoopFacts DEF Parents
<1>4. QED
  BY <1>1, <1>2, <1>3, RequestEndsExact

\* Another program changes a file: it becomes its author.
LEMMA ExternalExact ==
    ASSUME VaultInv, ExactInv, NEW f \in Files, NEW v, ExternalEdit(f, v)
    PROVE  ExactInv'
<1>1. /\ disk' = [disk EXCEPT ![f] = v] /\ author' = [author EXCEPT ![f] = External]
      /\ (f \in InFolder => folder) /\ UNCHANGED <<folder, rows, act, op, origin, unsure>>
  BY DEF ExternalEdit
<1>2. VaultTyped /\ Undoing(op[Loop]) /\ Parents /\ Hierarchy(op[Loop])
  BY LoopFacts
<1>3. \A g \in Files : /\ author'[g] = External \/ (author'[g] = author[g] /\ disk'[g] = disk[g])
  BY <1>1, <1>2 DEF VaultTyped
<1>4. TaskSide' /\ Exclusive' /\ Found' /\ FolderFirst'
  BY <1>1 DEF ExactInv, TaskSide, Locked, Apart, WorkersKnow, Seen, InHand, Known, Exclusive,
     Found, FolderFirst, Touched, FirstBefore
<1>5. Unstarted' /\ EditorKnows(op[Loop])' /\ Hierarchy(op[Loop])'
  BY <1>1 DEF ExactInv, RequestSide, Unstarted, EditorKnows, Hierarchy, Clean, Known, Touched
<1>6. Undoing(op[Loop])'
  <2>1. PICK o : o = op[Loop]
    OBVIOUS
  <2>2. DOMAIN o.goal \subseteq Files /\ op'[Loop] = o /\ Undoing(o)
    BY <1>1, <1>2, <2>1, LoopFacts
  <2>3. Undoing(o)'
    BY <1>1, <1>3, <2>2 DEF Undoing, FolderReady, Touched, FirstBefore
  <2>4. QED
    BY <2>2, <2>3 DEF Undoing, FolderReady
<1>7. Parents'
  <2>1. CASE f \in InFolder
    BY <1>1, <2>1 DEF Parents
  <2>2. CASE f \notin InFolder
    <3>1. \A g \in InFolder : disk'[g] = disk[g]
      BY <1>1, <1>2, <2>2, FilesAssumption DEF VaultTyped
    <3>2. QED
      BY <1>1, <1>2, <3>1 DEF Parents, Empty
  <2>3. QED
    BY <2>1, <2>2
<1>8. QED
  BY <1>4, <1>5, <1>6, <1>7 DEF ExactInv, RequestSide

-----------------------------------------------------------------------------
(* The rollback is exact.                                                  *)

\* Nothing is found, recorded or under way at first.
LEMMA ExactStarts == VaultInit => ExactInv
<1>1. SUFFICES ASSUME VaultInit PROVE ExactInv
  OBVIOUS
<1>2. \A t \in VaultThreads : op[t] = Idle
  BY <1>1 DEF VaultInit
<1>3. \A a \in Acts : rows[a] = <<>> /\ Touched(a) = {} /\ Clean(a)
  BY <1>1 DEF VaultInit, Touched, Paths, Clean
<1>4. /\ Idle.kind = "none" /\ Idle.held = {} /\ Idle.mode = "none"
  BY DEF Idle
<1>5. TaskSide
  <2>1. Locked /\ Apart /\ WorkersKnow
    BY <1>2, <1>4 DEF Locked, Apart, WorkersKnow, Writes, VaultThreads
  <2>2. Seen
    BY <1>3 DEF Seen, Clean, Acts
  <2>3. QED
    BY <2>1, <2>2 DEF TaskSide
<1>6. RequestSide /\ Exclusive
  <2>1. op[Loop] = Idle
    BY <1>2 DEF VaultThreads
  <2>2. EditorKnows(op[Loop]) /\ Hierarchy(op[Loop]) /\ Undoing(op[Loop])
    BY <2>1, <1>4 DEF EditorKnows, Hierarchy, Undoing
  <2>3. Unstarted
    BY <1>3 DEF Unstarted, Acts
  <2>4. QED
    BY <1>4, <2>1, <2>2, <2>3 DEF RequestSide, Exclusive
<1>7. Found /\ FolderFirst
  BY <1>3 DEF Found, FolderFirst
<1>8. Parents
  BY <1>1 DEF VaultInit, Parents
<1>9. QED
  BY <1>5, <1>6, <1>7, <1>8 DEF ExactInv

\* Every step keeps what a rollback rests on.
LEMMA ExactGoesOn == ASSUME VaultInv, ExactInv, [VaultNext]_vaultVars PROVE ExactInv'
<1>1. CASE UNCHANGED vaultVars
  <2>1. UNCHANGED <<disk, folder, rows, act, op, author, origin, unsure>>
    BY <1>1 DEF vaultVars
  <2>2. TaskSide' /\ Exclusive' /\ Found' /\ Parents' /\ FolderFirst'
    BY <2>1 DEF ExactInv, TaskSide, Locked, Apart, WorkersKnow, Seen, InHand, Known, Exclusive,
       Found, Parents, Empty, FolderFirst, Touched, FirstBefore
  <2>3. RequestSide'
    BY <2>1 DEF ExactInv, RequestSide, Unstarted, EditorKnows, Hierarchy, Undoing, FolderReady,
       Clean, Known, Touched, FirstBefore
  <2>4. QED
    BY <2>2, <2>3 DEF ExactInv
<1>2. CASE \E t \in VaultThreads : Thread(t)
  <2>1. PICK t \in VaultThreads : Thread(t)
    BY <1>2
  <2>2. CASE t \in Workers
    BY <2>1, <2>2, WorkerEnterExact, WorkerLockExact, WorkerPrepareExact, WorkerWriteExact,
       WorkerRecordExact DEF Thread
  <2>3. CASE t = Loop
    BY <2>1, <2>3, LoopEnterExact, LoopLockExact, EditorPrepareExact, EditorWriteExact,
       EditorRecordExact DEF Thread
  <2>4. QED
    BY <2>2, <2>3 DEF VaultThreads
<1>3. CASE Restoration
  BY <1>3, CaptureExact, ApplyExact, VerifyExact, CompensateExact DEF Restoration
<1>4. CASE Request
  BY <1>4, DeletePlanExact, UndoPlanExact, FolderStepExact, RevertExact, UndoFailedExact,
     RequestFailedExact, TaskUndoFailedExact DEF Request
<1>5. CASE \E t \in Workers, a \in Tasks, f \in Files, v \in Written \cup {Absent} : Mutate(t, a, f, v)
  BY <1>5, MutateExact
<1>6. CASE \E t \in Workers, a \in Tasks, f, g \in Files : Move(t, a, f, g)
  BY <1>6, MoveExact
<1>7. CASE \E r \in Requests, f \in Files, v \in Written : Save(r, f, v)
  BY <1>7, SaveExact
<1>8. CASE \E r \in Requests, a \in Acts, f \in Files : Restore(r, a, f)
  BY <1>8, RestoreExact
<1>9. CASE \E a \in Tasks, outcome \in {"completed", "failed"} : EndTask(a, outcome)
  BY <1>9, EndTaskExact
<1>10. CASE \E r \in Requests, a \in Acts : Ask(r, "undo", a)
  BY <1>10, AskExact
<1>11. CASE \E r \in Requests, f \in Files \cup {Folder} : Ask(r, "delete", f)
  BY <1>11, AskExact
<1>12. CASE \E f \in Files, v \in State : ExternalEdit(f, v)
  BY <1>12, ExternalExact
<1>13. QED
  BY <1>1, <1>2, <1>3, <1>4, <1>5, <1>6, <1>7, <1>8, <1>9, <1>10, <1>11, <1>12 DEF VaultNext

\* What a rollback rests on holds at every moment.
LEMMA ExactInductive == VaultSpec => [](VaultInv /\ ExactInv)
<1>1. VaultInit => VaultInv /\ ExactInv
  BY VaultStarts, ExactStarts
<1>2. VaultInv /\ ExactInv /\ [VaultNext]_vaultVars => (VaultInv /\ ExactInv)'
  BY VaultGoesOn, ExactGoesOn
<1>3. QED
  BY <1>1, <1>2, PTL DEF VaultSpec

\* Starting or ending an activity marks none as undone.
LEMMA KeepsUndone ==
    ASSUME VaultTyped, NEW b,
           \/ act' = act \/ act' = Started(b)
           \/ act' = Ended(b, "completed") \/ act' = Ended(b, "failed")
           \/ act' = [act EXCEPT ![b].status = "ending"]
    PROVE  \A a \in Acts : act'[a].undone = act[a].undone
<1>1. act \in [Acts -> ActT]
  BY DEF VaultTyped
<1>2. SUFFICES ASSUME NEW a \in Acts PROVE act'[a].undone = act[a].undone
  OBVIOUS
<1>3. act[a] \in ActT
  BY <1>1
<1>4. CASE a # b
  BY <1>1, <1>4 DEF Started, Ended
<1>5. CASE a = b
  <2>1. act' = act \/ \E st : act'[a] = [act[a] EXCEPT !.status = st]
    BY <1>1, <1>5 DEF Started, Ended
  <2>2. QED
    BY <1>3, <2>1 DEF ActT
<1>6. QED
  BY <1>4, <1>5

\* The steps that mark an activity as undone.
TaskMarked == /\ At(Loop, {"taskundo"}, "verify") /\ act' = RolledBack(op[Loop].act)
              /\ \A f \in DOMAIN op[Loop].goal : disk[f] = op[Loop].goal[f]
              /\ UNCHANGED <<disk, folder, author>>
RequestMarked == /\ At(Loop, {"undo"}, "done") /\ ~op[Loop].back /\ act' = Marked(op[Loop], TRUE)
                 /\ folder' = (folder /\ op[Loop].fold # "remove") /\ UNCHANGED <<disk, author>>

\* No other step does.
LEMMA WhoMarks ==
    ASSUME VaultInv, [VaultNext]_vaultVars, NEW a \in Acts, ~act[a].undone, act'[a].undone
    PROVE  TaskMarked \/ RequestMarked
<1>1. SUFFICES ASSUME ~TaskMarked, ~RequestMarked
      PROVE  \E b : \/ act' = act \/ act' = Started(b)
                    \/ act' = Ended(b, "completed") \/ act' = Ended(b, "failed")
                    \/ act' = [act EXCEPT ![b].status = "ending"]
  <2>1. VaultTyped
    BY DEF VaultInv
  <2>2. QED
    BY <2>1, KeepsUndone
<1>2. CASE UNCHANGED vaultVars
  BY <1>2 DEF vaultVars
<1>3. ASSUME NEW t, Thread(t) PROVE act' = act \/ act' = Ended(op[t].act, "completed")
                                    \/ act' = Ended(op[t].act, "failed")
  BY <1>3 DEF Thread, Enter, Lock, Prepare, Write, Record
<1>4. CASE Restoration
  <2>1. CASE Capture \/ Apply \/ Compensate
    BY <2>1 DEF Capture, Apply, Compensate
  <2>2. CASE Verify
    <3>1. /\ op[Loop].pc = "verify" /\ UNCHANGED <<disk, folder, author>>
      BY <2>2 DEF Verify, Going, At, ghosts
    <3>2. \/ act' = act \/ act' = Ended(op[Loop].act, "failed")
          \/ /\ op[Loop].kind = "taskundo" /\ act' = RolledBack(op[Loop].act)
             /\ \A f \in DOMAIN op[Loop].goal : disk[f] = op[Loop].goal[f]
      BY <2>2 DEF Verify
    <3>3. QED
      BY <1>1, <3>1, <3>2 DEF TaskMarked, At
  <2>3. QED
    BY <1>4, <2>1, <2>2 DEF Restoration
<1>5. CASE Request
  <2>1. CASE DeletePlan \/ UndoPlan \/ Revert
    BY <2>1 DEF DeletePlan, UndoPlan, Revert
  <2>2. CASE UndoFailed \/ RequestFailed \/ TaskUndoFailed
    BY <2>2 DEF UndoFailed, RequestFailed, TaskUndoFailed, Marked
  <2>3. CASE FolderStep
    <3>1. op[Loop].pc = "done" /\ ~op[Loop].back /\ UNCHANGED <<disk, author>>
      BY <2>3 DEF FolderStep, Going, At, ghosts
    <3>2. \/ act' = act \/ act' = Marked(op[Loop], FALSE)
          \/ act' = Marked(op[Loop], TRUE) /\ folder' = (folder /\ op[Loop].fold # "remove")
      BY <2>3 DEF FolderStep
    <3>3. CASE op[Loop].kind = "undo"
      BY <1>1, <3>1, <3>2, <3>3 DEF RequestMarked, At, Marked
    <3>4. CASE op[Loop].kind # "undo"
      BY <3>2, <3>4 DEF Marked
    <3>5. QED
      BY <3>3, <3>4
  <2>4. QED
    BY <1>5, <2>1, <2>2, <2>3 DEF Request
<1>6. CASE \E t \in Workers, b \in Tasks, f \in Files, v \in Written \cup {Absent} : Mutate(t, b, f, v)
  BY <1>6 DEF Mutate
<1>7. CASE \E t \in Workers, b \in Tasks, f, g \in Files : Move(t, b, f, g)
  BY <1>7 DEF Move
<1>8. CASE \E r \in Requests, f \in Files, v \in Written : Save(r, f, v)
  BY <1>8 DEF Save
<1>9. CASE \E r \in Requests, b \in Acts, f \in Files : Restore(r, b, f)
  BY <1>9 DEF Restore
<1>10. CASE \E b \in Tasks, outcome \in {"completed", "failed"} : EndTask(b, outcome)
  BY <1>10 DEF EndTask
<1>11. CASE \E r \in Requests, b \in Acts : Ask(r, "undo", b)
  BY <1>11 DEF Ask
<1>12. CASE \E r \in Requests, f \in Files \cup {Folder} : Ask(r, "delete", f)
  BY <1>12 DEF Ask
<1>13. CASE \E f \in Files, v \in State : ExternalEdit(f, v)
  BY <1>13 DEF ExternalEdit
<1>14. QED
  BY <1>2, <1>3, <1>4, <1>5, <1>6, <1>7, <1>8, <1>9, <1>10, <1>11, <1>12, <1>13 DEF VaultNext

\* A rollback that is reported as completed leaves every file as the activity
\* first found it, and the folder too (activity_rollback.py, rollback.py), but
\* for files another program edited and changes reported as uncertain: for any
\* files, activities, threads, edits and failures.
THEOREM RollbackRestores == VaultSpec => RollbackExact
<1>1. ASSUME VaultInv, ExactInv, [VaultNext]_vaultVars,
             NEW a \in Acts, ~act[a].undone, act'[a].undone
      PROVE  /\ \A f \in Touched(a) \ {Folder} :
                  disk'[f] = origin[a][f] \/ author'[f] = External \/ <<a, f>> \in unsure
             /\ Folder \in Touched(a) => Present(folder') = FirstBefore(a, Folder)
  <2>1. PICK o : o = op[Loop]
    OBVIOUS
  <2>2. /\ VaultTyped /\ JobsOK /\ Found /\ Undoing(o) /\ act \in [Acts -> ActT]
    BY <1>1, <2>1, LoopFacts DEF VaultTyped
  <2>3. CASE TaskMarked
    <3>1. /\ o.kind = "taskundo" /\ o.pc = "verify" /\ act' = RolledBack(o.act)
          /\ \A f \in DOMAIN o.goal : disk[f] = o.goal[f] /\ disk'[f] = disk[f]
      BY <2>1, <2>3 DEF TaskMarked, At
    <3>2. TaskUndo(o, act, rows)
      BY <1>1, <2>1, <3>1, RestoreFacts DEF Restores
    <3>3. a = o.act
      BY <1>1, <2>2, <3>1 DEF RolledBack
    <3>4. /\ a \in Tasks /\ DOMAIN o.goal = Touched(a)
          /\ \A f \in DOMAIN o.goal : o.goal[f] = FirstBefore(a, f)
      BY <3>2, <3>3 DEF TaskUndo, Touched, FirstBefore
    <3>5. Folder \notin Touched(a)
      BY <1>1, <3>4 DEF VaultInv, NoFolder
    <3>6. QED
      BY <2>2, <3>1, <3>4, <3>5 DEF Found
  <2>4. CASE RequestMarked
    <3>1. /\ o.kind = "undo" /\ o.pc = "done" /\ ~o.back /\ act' = Marked(o, TRUE)
          /\ folder' = (folder /\ o.fold # "remove") /\ UNCHANGED <<disk, author>>
      BY <2>1, <2>4 DEF RequestMarked, At
    <3>2. o.src \in Acts /\ DOMAIN o.goal = Touched(o.src) \ {Folder}
      BY <1>1, <2>1, <3>1, HierarchyFacts
    <3>3. a = o.src
      <4>1. PICK mid : mid = Ended(o.act, "completed")
        OBVIOUS
      <4>2. act' = [mid EXCEPT ![o.src].undone = TRUE]
        BY <3>1, <4>1 DEF Marked
      <4>3. DOMAIN mid = Acts /\ mid[a].undone = act[a].undone
        <5>1. CASE a = o.act
          BY <1>1, <2>2, <4>1, <5>1 DEF Ended, ActT
        <5>2. CASE a # o.act
          BY <1>1, <2>2, <4>1, <5>2 DEF Ended
        <5>3. QED
          BY <2>2, <4>1, <5>1, <5>2 DEF Ended
      <4>4. QED
        BY <1>1, <4>2, <4>3
    <3>4. /\ \A f \in DOMAIN o.goal : /\ o.goal[f] = FirstBefore(a, f)
                                      /\ disk[f] = o.goal[f] \/ author[f] = External
          /\ FolderReady(o)
      BY <2>2, <3>1, <3>3 DEF Undoing
    <3>5. ASSUME Folder \in Touched(a) PROVE Present(folder') = FirstBefore(a, Folder)
      <4>1. folder \in BOOLEAN
        BY <2>2 DEF VaultTyped
      <4>2. CASE o.fold = "remove" /\ FirstBefore(a, Folder) = Absent
        BY <3>1, <4>2 DEF Present
      <4>3. CASE o.fold # "remove" /\ FirstBefore(a, Folder) = Present(folder)
        <5>1. folder' = folder
          BY <3>1, <4>1, <4>3
        <5>2. QED
          BY <4>3, <5>1
      <4>4. QED
        BY <3>3, <3>4, <3>5, <4>2, <4>3 DEF FolderReady
    <3>6. ASSUME NEW f \in Touched(a) \ {Folder}
          PROVE  disk'[f] = origin[a][f] \/ author'[f] = External \/ <<a, f>> \in unsure
      BY <2>2, <3>1, <3>2, <3>3, <3>4, <3>6 DEF Found
    <3>7. QED
      BY <3>5, <3>6
  <2>5. QED
    BY <1>1, <2>3, <2>4, WhoMarks
<1>2. VaultInv /\ ExactInv /\ [VaultNext]_vaultVars =>
        [\A a \in Acts : ~act[a].undone /\ act'[a].undone =>
           /\ \A f \in Touched(a) \ {Folder} :
                disk'[f] = origin[a][f] \/ author'[f] = External \/ <<a, f>> \in unsure
           /\ Folder \in Touched(a) => Present(folder') = FirstBefore(a, Folder)]_vaultVars
  BY <1>1
<1>3. QED
  BY <1>2, ExactInductive, PTL DEF VaultSpec, RollbackExact

-----------------------------------------------------------------------------
(* What a failed rollback rests on.                                        *)

\* A task's rollback holds its files, and puts back what it displaced.
Fallback(o) ==
  o.kind = "taskundo" =>
    /\ o.fold = "keep"
    /\ o.pc \notin {"enter", "lock"} => o.held = DOMAIN o.goal
    /\ o.pc \in {"enter", "lock", "capture"} => o.before = <<>>
    /\ o.pc = "failed" /\ o.before # <<>> =>
         \A f \in DOMAIN o.goal : disk[f] = o.before[f] \/ author[f] = External
\* A request's rollback displaces what its own activity found, and goes back to that.
TakingBack(o) ==
  o.kind = "undo" /\ o.pc # "exclude" =>
    /\ o.fold \in {"keep", "make", "remove"} /\ o.made = (o.fold = "make")
    /\ o.fold = "remove" /\ o.pc # "revert" => folder
    /\ ~o.back => o.goal = [f \in DOMAIN o.goal |-> o.goal[f]]
    /\ o.back /\ o.pc # "done" => DOMAIN o.goal # {}
    /\ \A f \in DOMAIN o.goal :
         /\ o.back => o.goal[f] = origin[o.act][f]
         /\ ~o.back /\ o.pc \in {"apply", "verify", "compensate", "done", "revert"} =>
              o.before[f] = origin[o.act][f]
         /\ ~o.back /\ o.pc = "failed" => origin[o.act][f] \in {None, disk[f]} \/ author[f] = External
         /\ o.back /\ o.pc = "done" => disk[f] = o.goal[f] \/ author[f] = External
\* Workers hold no file the event loop holds.
LoopApart == \A w \in Workers : op[w].held \cap op[Loop].held = {}

HarmlessInv == LoopApart /\ Fallback(op[Loop]) /\ TakingBack(op[Loop])

\* A worker's step leaves a rollback what it rests on.
LEMMA WorkerHarmless ==
    ASSUME VaultInv, ExactInv, HarmlessInv, NEW t \in Workers, NEW o2, Begin(t, o2),
           o2.held \cap op[Loop].held = {}, folder => folder',
           \A r \in Requests : origin'[r] = origin[r],
           op[Loop].mode = "write" => UNCHANGED <<disk, author>>,
           \A f \in op[Loop].held : disk'[f] = disk[f] /\ author'[f] = author[f]
    PROVE  HarmlessInv'
<1>1. PICK o : o = op[Loop]
  OBVIOUS
<1>2. VaultTyped /\ t \in VaultThreads /\ Loop \in VaultThreads /\ Loop # t
  BY FilesAssumption DEF VaultInv, VaultThreads
<1>3. op'[t] = o2 /\ op'[Loop] = o /\ \A w \in Workers \ {t} : op'[w] = op[w]
  BY <1>1, <1>2, PutOp DEF VaultThreads
<1>4. LoopApart'
  BY <1>1, <1>3 DEF HarmlessInv, LoopApart
<1>5. Fallback(o)'
  BY <1>1 DEF HarmlessInv, Fallback
<1>6. TakingBack(o)'
  <2>1. CASE o.kind = "undo" /\ o.pc # "exclude"
    <3>1. o.act \in Requests /\ o.mode = "write"
      BY <1>1, <2>1, HierarchyFacts
    <3>2. QED
      BY <1>1, <2>1, <3>1 DEF HarmlessInv, TakingBack
  <2>2. CASE ~(o.kind = "undo" /\ o.pc # "exclude")
    BY <2>2 DEF TakingBack
  <2>3. QED
    BY <2>1, <2>2
<1>7. Fallback(op[Loop])' /\ TakingBack(op[Loop])'
  BY <1>3, <1>5, <1>6 DEF Fallback, TakingBack
<1>8. QED
  BY <1>4, <1>7 DEF HarmlessInv

\* A worker's step that changes no file and finds nothing.
LEMMA QuietWorkerHarmless ==
    ASSUME VaultInv, ExactInv, HarmlessInv, NEW t \in Workers, NEW o2, Begin(t, o2),
           o2.held \cap op[Loop].held = {}, UNCHANGED <<disk, folder, author, origin>>
    PROVE  HarmlessInv'
BY WorkerHarmless

\* A worker that gets the hierarchy shared.
LEMMA WorkerEnterHarmless ==
    ASSUME VaultInv, ExactInv, HarmlessInv, NEW t \in Workers, Enter(t)
    PROVE  HarmlessInv'
<1>1. PICK o2 : o2 = [op[t] EXCEPT !.pc = "lock", !.mode = "read"]
  OBVIOUS
<1>2. /\ Begin(t, o2) /\ UNCHANGED <<disk, folder, author, origin>>
      /\ op[t].kind \in Writes \cup {"taskundo"}
  BY <1>1 DEF Enter, At, ghosts
<1>3. o2.held = op[t].held
  BY <1>1, <1>2, WorkerFacts DEF Fields
<1>4. o2.held \cap op[Loop].held = {}
  BY <1>3 DEF HarmlessInv, LoopApart
<1>5. QED
  BY <1>2, <1>4, QuietWorkerHarmless

\* A worker that gets the lock of one more path, which the event loop does not hold.
LEMMA WorkerLockHarmless ==
    ASSUME VaultInv, ExactInv, HarmlessInv, NEW t \in Workers, Lock(t)
    PROVE  HarmlessInv'
<1>1. PICK f \in NextLock(t) : PathFree(t, f) /\
        Begin(t, [op[t] EXCEPT !.held = op[t].held \cup {f},
               !.pc = IF op[t].held \cup {f} # DOMAIN op[t].goal THEN "lock"
                      ELSE IF op[t].kind = "taskundo" THEN "capture" ELSE "prepare"])
  BY DEF Lock
<1>2. PICK pc2 : pc2 = IF op[t].held \cup {f} # DOMAIN op[t].goal THEN "lock"
                       ELSE IF op[t].kind = "taskundo" THEN "capture" ELSE "prepare"
  OBVIOUS
<1>3. PICK o2 : o2 = [op[t] EXCEPT !.held = op[t].held \cup {f}, !.pc = pc2]
  OBVIOUS
<1>4. /\ Begin(t, o2) /\ UNCHANGED <<disk, folder, author, origin>>
      /\ op[t].kind \in Writes \cup {"taskundo"}
  BY <1>1, <1>2, <1>3 DEF Lock, At, ghosts
<1>5. o2.held = op[t].held \cup {f}
  BY <1>3, <1>4, WorkerFacts DEF Fields
<1>6. Loop \in VaultThreads \ {t}
  BY FilesAssumption DEF VaultThreads
<1>7. o2.held \cap op[Loop].held = {}
  BY <1>1, <1>5, <1>6 DEF HarmlessInv, LoopApart, PathFree
<1>8. QED
  BY <1>4, <1>7, QuietWorkerHarmless

\* A worker's call finds nothing for a request.
LEMMA WorkerPrepareHarmless ==
    ASSUME VaultInv, ExactInv, HarmlessInv, NEW t \in Workers, Prepare(t)
    PROVE  HarmlessInv'
<1>1. PICK o : o = op[t]
  OBVIOUS
<1>2. PICK now : now = [f \in DOMAIN o.goal |-> disk[f]]
  OBVIOUS
<1>3. PICK seen2 : seen2 = IF o.kind \in {"save", "restore"} THEN o.seen ELSE now
  OBVIOUS
<1>4. PICK o2 : o2 = [o EXCEPT !.pc = "write", !.before = now, !.seen = seen2]
  OBVIOUS
<1>5. o.kind \in Writes /\ o.pc = "prepare" /\ UNCHANGED <<disk, folder, author>>
  BY <1>1 DEF Prepare, At
<1>6. /\ DOMAIN o = Fields /\ o.act \in Tasks /\ o.act \in Acts /\ o.act \notin Requests /\ VaultTyped
  BY <1>1, <1>5, WorkerFacts DEF VaultInv
<1>7. CASE origin' = Finding(o.act, DOMAIN o.goal) /\ Begin(t, o2)
  <2>1. \A b \in Acts \ {o.act} : origin'[b] = origin[b]
    BY <1>6, <1>7, FindingGrows
  <2>2. \A r \in Requests : origin'[r] = origin[r]
    BY <1>6, <2>1 DEF Acts
  <2>3. o2.held = o.held
    BY <1>4, <1>6 DEF Fields
  <2>4. o2.held \cap op[Loop].held = {}
    BY <1>1, <2>3 DEF HarmlessInv, LoopApart
  <2>5. QED
    BY <1>5, <1>7, <2>2, <2>4, WorkerHarmless
<1>8. CASE UNCHANGED origin /\ Begin(t, Idle)
  <2>1. PICK i : i = Idle
    OBVIOUS
  <2>2. Begin(t, i) /\ i.held \cap op[Loop].held = {}
    BY <1>8, <2>1 DEF Idle
  <2>3. QED
    BY <1>5, <1>8, <2>2, QuietWorkerHarmless
<1>9. QED
  BY <1>1, <1>2, <1>3, <1>4, <1>7, <1>8 DEF Prepare

\* A worker writes files that it holds, and nobody else does.
LEMMA WorkerWriteHarmless ==
    ASSUME VaultInv, ExactInv, HarmlessInv, NEW t \in Workers, Write(t)
    PROVE  HarmlessInv'
<1>1. PICK o : o = op[t]
  OBVIOUS
<1>2. PICK new : new = [f \in DOMAIN o.goal |->
                          IF o.kind = "move" /\ f # o.src THEN disk[o.src] ELSE o.goal[f]]
  OBVIOUS
<1>3. PICK o2 : o2 = [o EXCEPT !.pc = "record", !.goal = new]
  OBVIOUS
<1>4. /\ o.kind \in Writes /\ o.pc = "write" /\ Begin(t, o2)
      /\ disk' = Changed(new) /\ folder' = WithParents(Changed(new))
      /\ author' = [f \in Files |-> IF f \in DOMAIN new THEN o.act ELSE author[f]]
      /\ UNCHANGED origin
  BY <1>1, <1>2, <1>3 DEF Write, At
<1>5. /\ DOMAIN o = Fields /\ op[Loop].mode # "write" /\ o.held = DOMAIN o.goal
  BY <1>1, <1>4, WorkerFacts
<1>6. o2.held = o.held /\ DOMAIN new = o.held
  BY <1>2, <1>3, <1>5 DEF Fields
<1>7. o.held \cap op[Loop].held = {} /\ op[Loop].held \subseteq Files
  BY <1>1, LoopFacts DEF HarmlessInv, LoopApart, OpTyped
<1>8. \A f \in op[Loop].held : disk'[f] = disk[f] /\ author'[f] = author[f]
  BY <1>4, <1>6, <1>7 DEF Changed
<1>9. folder => folder'
  BY <1>4 DEF WithParents
<1>10. QED
  BY <1>4, <1>5, <1>6, <1>7, <1>8, <1>9, WorkerHarmless

\* A worker's call ends.
LEMMA WorkerRecordHarmless ==
    ASSUME VaultInv, ExactInv, HarmlessInv, NEW t \in Workers, Record(t)
    PROVE  HarmlessInv'
<1>1. PICK i : i = Idle
  OBVIOUS
<1>2. Begin(t, i) /\ UNCHANGED <<disk, folder, author, origin>>
  BY <1>1 DEF Record
<1>3. i.held \cap op[Loop].held = {}
  BY <1>1 DEF Idle
<1>4. QED
  BY <1>2, <1>3, QuietWorkerHarmless

\* A tool call that changes one file begins.
LEMMA MutateHarmless ==
    ASSUME VaultInv, ExactInv, HarmlessInv, NEW t \in Workers, NEW a, NEW f, NEW v, Mutate(t, a, f, v)
    PROVE  HarmlessInv'
<1>1. PICK o2 : o2 = [Idle EXCEPT !.kind = "mutate", !.pc = "enter", !.act = a,
                                  !.src = f, !.goal = Only(f, v)]
  OBVIOUS
<1>2. Begin(t, o2) /\ UNCHANGED <<disk, folder, author, origin>>
  BY <1>1 DEF Mutate, ghosts
<1>3. o2.held \cap op[Loop].held = {}
  BY <1>1 DEF Idle
<1>4. QED
  BY <1>2, <1>3, QuietWorkerHarmless

\* A tool call that moves a file begins.
LEMMA MoveHarmless ==
    ASSUME VaultInv, ExactInv, HarmlessInv, NEW t \in Workers, NEW a, NEW f, NEW g, Move(t, a, f, g)
    PROVE  HarmlessInv'
<1>1. PICK o2 : o2 = [Idle EXCEPT !.kind = "move", !.pc = "enter", !.act = a,
                                  !.src = f, !.goal = [x \in {f, g} |-> Absent]]
  OBVIOUS
<1>2. Begin(t, o2) /\ UNCHANGED <<disk, folder, author, origin>>
  BY <1>1 DEF Move, ghosts
<1>3. o2.held \cap op[Loop].held = {}
  BY <1>1 DEF Idle
<1>4. QED
  BY <1>2, <1>3, QuietWorkerHarmless

-----------------------------------------------------------------------------
(* The steps of the event loop.                                            *)

\* An operation of the event loop that goes on with what a rollback rests on.
LEMMA LoopGoes ==
    ASSUME VaultInv, NEW o2, Begin(Loop, o2), \A w \in Workers : op[w].held \cap o2.held = {},
           Fallback(o2)', TakingBack(o2)'
    PROVE  HarmlessInv'
<1>1. Loop \in VaultThreads /\ VaultTyped /\ Loop \notin Workers
  BY FilesAssumption DEF VaultInv, VaultThreads
<1>2. op'[Loop] = o2 /\ \A w \in Workers : op'[w] = op[w]
  BY <1>1, PutOp DEF VaultThreads
<1>3. LoopApart'
  BY <1>2 DEF LoopApart
<1>4. Fallback(op[Loop])' /\ TakingBack(op[Loop])'
  BY <1>2 DEF Fallback, TakingBack
<1>5. QED
  BY <1>3, <1>4 DEF HarmlessInv

\* An operation that is no rollback, or one that has not begun.
LEMMA LoopRests ==
    ASSUME VaultInv, HarmlessInv, NEW o2, Begin(Loop, o2), o2.held \subseteq op[Loop].held,
           o2.kind \notin {"undo", "taskundo"} \/ (o2.kind = "undo" /\ o2.pc = "exclude")
    PROVE  HarmlessInv'
<1>1. \A w \in Workers : op[w].held \cap o2.held = {}
  BY DEF HarmlessInv, LoopApart
<1>2. Fallback(o2)' /\ TakingBack(o2)'
  BY DEF Fallback, TakingBack
<1>3. QED
  BY <1>1, <1>2, LoopGoes

\* An operation that ends.
LEMMA LoopEnds ==
    ASSUME VaultInv, HarmlessInv, Begin(Loop, Idle)
    PROVE  HarmlessInv'
<1>1. PICK o2 : o2 = Idle
  OBVIOUS
<1>2. Begin(Loop, o2) /\ o2.held = {} /\ o2.kind = "none"
  BY <1>1 DEF Idle
<1>3. QED
  BY <1>2, LoopRests

\* The event loop gets the hierarchy shared.
LEMMA LoopEnterHarmless ==
    ASSUME VaultInv, ExactInv, HarmlessInv, Enter(Loop)
    PROVE  HarmlessInv'
<1>1. PICK o : o = op[Loop]
  OBVIOUS
<1>2. PICK o2 : o2 = [o EXCEPT !.pc = "lock", !.mode = "read"]
  OBVIOUS
<1>3. Begin(Loop, o2) /\ o.kind \in Writes \cup {"taskundo"} /\ o.pc = "enter"
  BY <1>1, <1>2 DEF Enter, At
<1>4. DOMAIN o = Fields /\ Fallback(o) /\ LoopApart
  BY <1>1, LoopFacts DEF HarmlessInv
<1>5. /\ o2.pc = "lock" /\ o2.kind = o.kind /\ o2.held = o.held
      /\ o2.fold = o.fold /\ o2.before = o.before
  BY <1>2, <1>4 DEF Fields
<1>6. Fallback(o2)'
  BY <1>3, <1>4, <1>5 DEF Fallback
<1>7. TakingBack(o2)'
  BY <1>3, <1>5 DEF TakingBack, Writes
<1>8. \A w \in Workers : op[w].held \cap o2.held = {}
  BY <1>1, <1>4, <1>5 DEF LoopApart
<1>9. QED
  BY <1>3, <1>6, <1>7, <1>8, LoopGoes

\* The event loop gets the lock of one more path, which no worker has.
LEMMA LoopLockHarmless ==
    ASSUME VaultInv, ExactInv, HarmlessInv, Lock(Loop)
    PROVE  HarmlessInv'
<1>1. PICK o : o = op[Loop]
  OBVIOUS
<1>2. PICK f \in NextLock(Loop) : PathFree(Loop, f) /\
        Begin(Loop, [o EXCEPT !.held = o.held \cup {f},
               !.pc = IF o.held \cup {f} # DOMAIN o.goal THEN "lock"
                      ELSE IF o.kind = "taskundo" THEN "capture" ELSE "prepare"])
  BY <1>1 DEF Lock
<1>3. PICK pc2 : pc2 = IF o.held \cup {f} # DOMAIN o.goal THEN "lock"
                       ELSE IF o.kind = "taskundo" THEN "capture" ELSE "prepare"
  OBVIOUS
<1>4. PICK o2 : o2 = [o EXCEPT !.held = o.held \cup {f}, !.pc = pc2]
  OBVIOUS
<1>5. Begin(Loop, o2) /\ o.kind \in Writes \cup {"taskundo"} /\ o.pc = "lock"
  BY <1>1, <1>2, <1>3, <1>4 DEF Lock, At
<1>6. DOMAIN o = Fields /\ Fallback(o) /\ LoopApart /\ Loop \notin Workers
  BY <1>1, LoopFacts DEF HarmlessInv
<1>7. /\ o2.pc = pc2 /\ o2.kind = o.kind /\ o2.held = o.held \cup {f} /\ o2.goal = o.goal
      /\ o2.fold = o.fold /\ o2.before = o.before
  BY <1>4, <1>6 DEF Fields
<1>8. Fallback(o2)'
  BY <1>3, <1>5, <1>6, <1>7 DEF Fallback
<1>9. TakingBack(o2)'
  BY <1>5, <1>7 DEF TakingBack, Writes
<1>10. \A w \in Workers : op[w].held \cap o2.held = {}
  BY <1>1, <1>2, <1>6, <1>7 DEF LoopApart, PathFree, VaultThreads
<1>11. QED
  BY <1>5, <1>8, <1>9, <1>10, LoopGoes

\* The editor's steps are no rollback's.
LEMMA EditorHarmless ==
    ASSUME VaultInv, ExactInv, HarmlessInv, Prepare(Loop) \/ Write(Loop) \/ Record(Loop)
    PROVE  HarmlessInv'
<1>1. PICK o : o = op[Loop]
  OBVIOUS
<1>2. CASE Record(Loop)
  BY <1>2, LoopEnds DEF Record
<1>3. SUFFICES ASSUME Prepare(Loop) \/ Write(Loop) PROVE HarmlessInv'
  BY <1>2
<1>4. o.kind \in {"save", "restore"} /\ DOMAIN o = Fields
  BY <1>1, <1>3, EditorFacts, LoopFacts DEF Prepare, Write, At
<1>5. CASE Prepare(Loop)
  <2>1. PICK now : now = [f \in DOMAIN o.goal |-> disk[f]]
    OBVIOUS
  <2>2. PICK seen2 : seen2 = IF o.kind \in {"save", "restore"} THEN o.seen ELSE now
    OBVIOUS
  <2>3. PICK o2 : o2 = [o EXCEPT !.pc = "write", !.before = now, !.seen = seen2]
    OBVIOUS
  <2>4. Begin(Loop, o2) \/ Begin(Loop, Idle)
    BY <1>1, <1>5, <2>1, <2>2, <2>3 DEF Prepare
  <2>5. o2.kind = o.kind /\ o2.held = o.held
    BY <1>4, <2>3 DEF Fields
  <2>6. QED
    BY <1>1, <1>4, <2>4, <2>5, LoopRests, LoopEnds
<1>6. CASE Write(Loop)
  <2>1. PICK new : new = [f \in DOMAIN o.goal |->
                            IF o.kind = "move" /\ f # o.src THEN disk[o.src] ELSE o.goal[f]]
    OBVIOUS
  <2>2. PICK o2 : o2 = [o EXCEPT !.pc = "record", !.goal = new]
    OBVIOUS
  <2>3. Begin(Loop, o2)
    BY <1>1, <1>6, <2>1, <2>2 DEF Write
  <2>4. o2.kind = o.kind /\ o2.held = o.held
    BY <1>4, <2>2 DEF Fields
  <2>5. QED
    BY <1>1, <1>4, <2>3, <2>4, LoopRests
<1>7. QED
  BY <1>3, <1>5, <1>6

\* A save begins.
LEMMA SaveHarmless ==
    ASSUME VaultInv, HarmlessInv, NEW r, NEW f, NEW v, Save(r, f, v)
    PROVE  HarmlessInv'
<1>1. PICK o2 : o2 = [Idle EXCEPT !.kind = "save", !.pc = "enter", !.act = r,
                    !.src = f, !.goal = Only(f, v), !.seen = Only(f, disk[f])]
  OBVIOUS
<1>2. Begin(Loop, o2)
  BY <1>1 DEF Save
<1>3. o2.kind = "save" /\ o2.held = {}
  BY <1>1 DEF Idle
<1>4. QED
  BY <1>2, <1>3, LoopRests

\* The restoration of a revision begins.
LEMMA RestoreHarmless ==
    ASSUME VaultInv, HarmlessInv, NEW r, NEW a, NEW f, Restore(r, a, f)
    PROVE  HarmlessInv'
<1>1. PICK o2 : o2 = [Idle EXCEPT !.kind = "restore", !.pc = "enter", !.act = r,
                    !.src = f, !.goal = Only(f, snap[a][f]), !.seen = Only(f, disk[f])]
  OBVIOUS
<1>2. Begin(Loop, o2)
  BY <1>1 DEF Restore
<1>3. o2.kind = "restore" /\ o2.held = {}
  BY <1>1 DEF Idle
<1>4. QED
  BY <1>2, <1>3, LoopRests

\* A request for a rollback or a deletion, which waits for the hierarchy.
LEMMA AskHarmless ==
    ASSUME VaultInv, HarmlessInv, NEW r, NEW kind \in {"undo", "delete"}, NEW src, Ask(r, kind, src)
    PROVE  HarmlessInv'
<1>1. PICK o2 : o2 = [Idle EXCEPT !.kind = kind, !.pc = "exclude", !.act = r, !.src = src]
  OBVIOUS
<1>2. Begin(Loop, o2)
  BY <1>1 DEF Ask, Continue
<1>3. o2.kind = kind /\ o2.pc = "exclude" /\ o2.held = {}
  BY <1>1 DEF Idle
<1>4. QED
  BY <1>2, <1>3, LoopRests

\* A deletion is planned.
LEMMA DeletePlanHarmless ==
    ASSUME VaultInv, ExactInv, HarmlessInv, DeletePlan
    PROVE  HarmlessInv'
<1>1. PICK o : o = op[Loop]
  OBVIOUS
<1>2. o.kind = "delete" /\ DOMAIN o = Fields
  BY <1>1, LoopFacts DEF DeletePlan, At
<1>3. PICK fs : fs = {f \in Files : disk[f] # Absent
                       /\ (f = o.src \/ (o.src = Folder /\ f \in InFolder))}
  OBVIOUS
<1>4. PICK new : new = [o EXCEPT !.mode = "write", !.goal = [f \in fs |-> Absent],
                          !.seen = [f \in fs |-> disk[f]],
                          !.fold = IF o.src = Folder THEN "remove" ELSE "keep"]
  OBVIOUS
<1>5. PICK o2 : o2 = [new EXCEPT !.pc = FirstStep(new)]
  OBVIOUS
<1>6. Begin(Loop, o2) \/ Begin(Loop, Idle)
  BY <1>1, <1>3, <1>4, <1>5 DEF DeletePlan, Continue
<1>7. DOMAIN new = Fields /\ new.kind = "delete" /\ new.held = o.held
  BY <1>2, <1>4 DEF Fields
<1>8. o2.kind = "delete" /\ o2.held = o.held
  BY <1>5, <1>7 DEF Fields
<1>9. QED
  BY <1>1, <1>6, <1>8, LoopRests, LoopEnds

-----------------------------------------------------------------------------
(* The restoration of exact states.                                        *)

\* The displaced states are captured: they are what a rollback goes back to.
LEMMA CaptureHarmless ==
    ASSUME VaultInv, ExactInv, HarmlessInv, Capture
    PROVE  HarmlessInv'
<1>1. PICK o : o = op[Loop]
  OBVIOUS
<1>2. PICK good : good = [o EXCEPT !.pc = "apply", !.before = o.seen]
  OBVIOUS
<1>3. PICK bad : bad = [o EXCEPT !.pc = "failed"]
  OBVIOUS
<1>4. /\ o.kind \in Restores /\ o.pc = "capture"
      /\ UNCHANGED <<disk, folder, author>>
  BY <1>1 DEF Capture, Going, At
<1>5. /\ OpTyped(o) /\ DOMAIN o = Fields /\ DOMAIN o.goal \subseteq Files /\ Hierarchy(o) /\ VaultTyped
      /\ Fallback(o) /\ TakingBack(o) /\ LoopApart
  BY <1>1, LoopFacts DEF HarmlessInv
<1>6. /\ good.pc = "apply" /\ good.kind = o.kind /\ good.act = o.act /\ good.made = o.made
      /\ good.goal = o.goal /\ good.seen = o.seen /\ good.before = o.seen
      /\ good.held = o.held /\ good.back = o.back /\ good.fold = o.fold
  BY <1>2, <1>5 DEF Fields
<1>7. /\ bad.pc = "failed" /\ bad.kind = o.kind /\ bad.act = o.act /\ bad.made = o.made
      /\ bad.goal = o.goal /\ bad.before = o.before
      /\ bad.held = o.held /\ bad.back = o.back /\ bad.fold = o.fold
  BY <1>3, <1>5 DEF Fields
<1>8. \A w \in Workers : op[w].held \cap good.held = {} /\ op[w].held \cap bad.held = {}
  BY <1>1, <1>5, <1>6, <1>7 DEF LoopApart
<1>9. CASE UNCHANGED origin /\ Begin(Loop, bad)
  <2>1. Fallback(bad)'
    BY <1>4, <1>5, <1>7 DEF Fallback
  <2>2. TakingBack(bad)'
    <3>1. CASE o.kind = "undo"
      <4>1. ~o.back => \A f \in DOMAIN o.goal : origin[o.act][f] = None
        BY <1>4, <1>5, <3>1 DEF Hierarchy, Clean
      <4>2. QED
        BY <1>4, <1>5, <1>7, <1>9, <3>1, <4>1 DEF TakingBack
    <3>2. CASE o.kind # "undo"
      BY <1>7, <3>2 DEF TakingBack
    <3>3. QED
      BY <3>1, <3>2
  <2>3. QED
    BY <1>8, <1>9, <2>1, <2>2, LoopGoes
<1>10. CASE /\ AsExpected(o) /\ Begin(Loop, good)
            /\ IF o.kind = "taskundo" THEN UNCHANGED origin ELSE origin' = Finding(o.act, DOMAIN o.goal)
  <2>1. Fallback(good)'
    BY <1>4, <1>5, <1>6 DEF Fallback
  <2>2. TakingBack(good)'
    <3>1. CASE o.kind = "undo"
      <4>1. o.act \in Acts /\ origin' = Finding(o.act, DOMAIN o.goal)
        BY <1>1, <1>4, <1>10, <3>1, HierarchyFacts
      <4>2. /\ \A b \in Acts, f \in Files : origin[b][f] # None => origin'[b][f] = origin[b][f]
            /\ \A f \in Files : origin'[o.act][f] =
                 IF f \in DOMAIN o.goal /\ origin[o.act][f] = None THEN disk[f] ELSE origin[o.act][f]
        BY <1>5, <4>1, FindingGrows
      <4>3. ASSUME ~o.back, NEW f \in DOMAIN o.goal PROVE o.seen[f] = origin'[o.act][f]
        <5>1. origin[o.act][f] = None /\ f \in Files
          BY <1>4, <1>5, <3>1, <4>3 DEF Hierarchy, Clean
        <5>2. QED
          BY <1>10, <4>2, <4>3, <5>1 DEF AsExpected
      <4>4. ASSUME o.back, NEW f \in DOMAIN o.goal PROVE o.goal[f] = origin'[o.act][f]
        <5>1. o.goal[f] = origin[o.act][f] /\ f \in Files
          BY <1>4, <1>5, <3>1, <4>4 DEF TakingBack
        <5>2. o.goal[f] # None
          BY <1>5, <4>4, FilesAssumption DEF OpTyped, Part, State
        <5>3. QED
          BY <4>1, <4>2, <5>1, <5>2
      <4>5. QED
        BY <1>4, <1>5, <1>6, <3>1, <4>3, <4>4 DEF TakingBack
    <3>2. CASE o.kind # "undo"
      BY <1>6, <3>2 DEF TakingBack
    <3>3. QED
      BY <3>1, <3>2
  <2>3. QED
    BY <1>8, <1>10, <2>1, <2>2, LoopGoes
<1>11. QED
  BY <1>1, <1>2, <1>3, <1>9, <1>10 DEF Capture, Continue

\* A restoration that goes on to apply what it captured, and to verify it.
LEMMA RestoringHarmless ==
    ASSUME VaultInv, ExactInv, HarmlessInv, op[Loop].kind \in Restores,
           NEW p \in {"compensate", "verify", "unsure"},
           op[Loop].pc \in {"apply", "verify", "compensate"},
           p = "verify" => op[Loop].pc = "apply",
           Begin(Loop, [op[Loop] EXCEPT !.pc = p]), UNCHANGED origin, folder => folder'
    PROVE  HarmlessInv'
<1>1. PICK o : o = op[Loop]
  OBVIOUS
<1>2. PICK o2 : o2 = [o EXCEPT !.pc = p]
  OBVIOUS
<1>3. DOMAIN o = Fields /\ Fallback(o) /\ TakingBack(o) /\ LoopApart
  BY <1>1, LoopFacts DEF HarmlessInv
<1>4. /\ o2.pc = p /\ o2.kind = o.kind /\ o2.act = o.act /\ o2.made = o.made
      /\ o2.goal = o.goal /\ o2.before = o.before
      /\ o2.held = o.held /\ o2.back = o.back /\ o2.fold = o.fold
  BY <1>2, <1>3 DEF Fields
<1>5. Begin(Loop, o2) /\ \A w \in Workers : op[w].held \cap o2.held = {}
  BY <1>1, <1>2, <1>3, <1>4 DEF LoopApart
<1>6. Fallback(o2)'
  BY <1>1, <1>3, <1>4 DEF Fallback
<1>7. TakingBack(o2)'
  BY <1>1, <1>3, <1>4 DEF TakingBack
<1>8. QED
  BY <1>5, <1>6, <1>7, LoopGoes

\* The files are restored, as far as that goes.
LEMMA ApplyHarmless ==
    ASSUME VaultInv, ExactInv, HarmlessInv, Apply
    PROVE  HarmlessInv'
<1>1. PICK o : o = op[Loop]
  OBVIOUS
<1>2. o.kind \in Restores /\ o.pc = "apply" /\ UNCHANGED origin
  BY <1>1 DEF Apply, Going, At
<1>3. Begin(Loop, [o EXCEPT !.pc = "compensate"]) \/ Begin(Loop, [o EXCEPT !.pc = "verify"])
  BY <1>1 DEF Apply, Continue
<1>4. folder' = folder \/ \E d : folder' = WithParents(d)
  BY DEF Apply
<1>5. folder => folder'
  BY <1>4 DEF WithParents
<1>6. QED
  BY <1>1, <1>2, <1>3, <1>5, RestoringHarmless

\* The captured states are written back: all of them, or the state is uncertain.
LEMMA CompensateHarmless ==
    ASSUME VaultInv, ExactInv, HarmlessInv, Compensate
    PROVE  HarmlessInv'
<1>1. PICK o : o = op[Loop]
  OBVIOUS
<1>2. o.kind \in Restores /\ o.pc = "compensate" /\ UNCHANGED origin
  BY <1>1 DEF Compensate, Going, At
<1>3. PICK done \in SUBSET DOMAIN o.goal :
          /\ disk' = Compensated(o, done) /\ folder' = WithParents(Compensated(o, done))
          /\ Begin(Loop, [o EXCEPT !.pc = IF done = DOMAIN o.goal THEN "failed" ELSE "unsure"])
  BY <1>1 DEF Compensate, Continue
<1>4. folder => folder'
  BY <1>3 DEF WithParents
<1>5. CASE done # DOMAIN o.goal
  BY <1>1, <1>2, <1>3, <1>4, <1>5, RestoringHarmless
<1>6. CASE done = DOMAIN o.goal
  <2>1. PICK o2 : o2 = [o EXCEPT !.pc = "failed"]
    OBVIOUS
  <2>2. /\ DOMAIN o = Fields /\ DOMAIN o.goal \subseteq Files
        /\ Fallback(o) /\ TakingBack(o) /\ LoopApart
    BY <1>1, LoopFacts DEF HarmlessInv
  <2>3. /\ o2.pc = "failed" /\ o2.kind = o.kind /\ o2.act = o.act /\ o2.made = o.made
        /\ o2.goal = o.goal /\ o2.before = o.before
        /\ o2.held = o.held /\ o2.back = o.back /\ o2.fold = o.fold
    BY <2>1, <2>2 DEF Fields
  <2>4. Begin(Loop, o2) /\ \A w \in Workers : op[w].held \cap o2.held = {}
    BY <1>1, <1>3, <1>6, <2>1, <2>2, <2>3 DEF LoopApart
  <2>5. \A f \in DOMAIN o.goal : disk'[f] = o.before[f]
    BY <1>3, <1>6, <2>2 DEF Compensated, Changed
  <2>6. Fallback(o2)'
    BY <1>2, <2>2, <2>3, <2>5 DEF Fallback
  <2>7. TakingBack(o2)'
    BY <1>2, <1>4, <2>2, <2>3, <2>5 DEF TakingBack
  <2>8. QED
    BY <2>4, <2>6, <2>7, LoopGoes
<1>7. QED
  BY <1>5, <1>6

\* The restoration is verified: on the way back the files are again what the
\* rollback found.
LEMMA VerifyHarmless ==
    ASSUME VaultInv, ExactInv, HarmlessInv, Verify
    PROVE  HarmlessInv'
<1>1. PICK o : o = op[Loop]
  OBVIOUS
<1>2. PICK o2 : o2 = [o EXCEPT !.pc = "done"]
  OBVIOUS
<1>3. /\ o.kind \in Restores /\ o.pc = "verify"
      /\ UNCHANGED <<disk, folder, author, origin>>
  BY <1>1 DEF Verify, Going, At, ghosts
<1>4. CASE Begin(Loop, [o EXCEPT !.pc = "compensate"])
  BY <1>1, <1>3, <1>4, RestoringHarmless
<1>5. CASE Begin(Loop, Idle)
  BY <1>5, LoopEnds
<1>6. CASE /\ \A f \in DOMAIN o.goal : disk[f] = o.goal[f]
           /\ o.kind # "taskundo" /\ Begin(Loop, o2)
  <2>1. DOMAIN o = Fields /\ TakingBack(o) /\ LoopApart
    BY <1>1, LoopFacts DEF HarmlessInv
  <2>2. /\ o2.pc = "done" /\ o2.kind = o.kind /\ o2.act = o.act /\ o2.made = o.made
        /\ o2.goal = o.goal /\ o2.before = o.before
        /\ o2.held = o.held /\ o2.back = o.back /\ o2.fold = o.fold
    BY <1>2, <2>1 DEF Fields
  <2>3. \A w \in Workers : op[w].held \cap o2.held = {}
    BY <1>1, <2>1, <2>2 DEF LoopApart
  <2>4. Fallback(o2)'
    BY <1>6, <2>2 DEF Fallback
  <2>5. TakingBack(o2)'
    BY <1>3, <1>6, <2>1, <2>2 DEF TakingBack
  <2>6. QED
    BY <1>6, <2>3, <2>4, <2>5, LoopGoes
<1>7. QED
  BY <1>1, <1>2, <1>4, <1>5, <1>6 DEF Verify, Continue

-----------------------------------------------------------------------------
(* The beginnings and ends of rollbacks.                                   *)

\* A task that ends, or goes on to its rollback.
LEMMA EndTaskHarmless ==
    ASSUME VaultInv, ExactInv, HarmlessInv, NEW a \in Tasks, NEW outcome, EndTask(a, outcome)
    PROVE  HarmlessInv'
<1>1. op[Loop] = Idle /\ VaultTyped /\ LoopApart
  BY DEF EndTask, VaultInv, HarmlessInv
<1>2. CASE UNCHANGED op
  <2>1. Begin(Loop, Idle)
    <3>1. op = [t \in VaultThreads |-> op[t]]
      BY <1>1 DEF VaultTyped, OneOpEach
    <3>2. QED
      BY <1>1, <1>2, <3>1 DEF Begin
  <2>2. QED
    BY <2>1, LoopEnds
<1>3. PICK o2 : o2 = [Idle EXCEPT !.kind = "taskundo", !.pc = "enter", !.act = a,
                !.src = a,
                !.goal = [f \in Touched(a) |-> FirstBefore(a, f)],
                !.seen = [f \in Touched(a) |-> LastAfter(a, f)]]
  OBVIOUS
<1>4. CASE Begin(Loop, o2)
  <2>1. /\ o2.kind = "taskundo" /\ o2.pc = "enter" /\ o2.before = <<>> /\ o2.held = {}
        /\ o2.fold = "keep"
    BY <1>3 DEF Idle
  <2>2. Fallback(o2)' /\ TakingBack(o2)'
    BY <2>1 DEF Fallback, TakingBack
  <2>3. QED
    BY <1>4, <2>1, <2>2, LoopGoes
<1>5. QED
  BY <1>2, <1>3, <1>4 DEF EndTask, Continue

\* The undo of an activity is planned.
LEMMA UndoPlanHarmless ==
    ASSUME VaultInv, ExactInv, HarmlessInv, UndoPlan
    PROVE  HarmlessInv'
<1>1. PICK o : o = op[Loop]
  OBVIOUS
<1>2. PICK a : a = o.src
  OBVIOUS
<1>3. PICK fs : fs = Touched(a) \ {Folder}
  OBVIOUS
<1>4. PICK fold2 : fold2 = IF Folder \notin Touched(a) \/ FirstBefore(a, Folder) = LastAfter(a, Folder)
                 THEN "keep" ELSE IF FirstBefore(a, Folder) = Absent THEN "remove" ELSE "make"
  OBVIOUS
<1>5. PICK new : new = [o EXCEPT !.mode = "write", !.fold = fold2, !.made = (fold2 = "make"),
                          !.goal = [f \in fs |-> FirstBefore(a, f)],
                          !.seen = [f \in fs |-> LastAfter(a, f)]]
  OBVIOUS
<1>6. PICK o2 : o2 = [new EXCEPT !.pc = FirstStep(new)]
  OBVIOUS
<1>7. o.kind = "undo" /\ o.pc = "exclude" /\ UNCHANGED <<disk, author, origin>>
  BY <1>1 DEF UndoPlan, At, ghosts
<1>8. DOMAIN o = Fields /\ VaultTyped /\ JobsOK /\ Loop \in VaultThreads /\ LoopApart
  BY <1>1, LoopFacts DEF HarmlessInv
<1>9. a \in Acts /\ ~o.back
  BY <1>1, <1>2, <1>7, <1>8, JobByKind DEF Asked, Undo, Restoring
<1>10. CASE Begin(Loop, Idle)
  BY <1>10, LoopEnds
<1>11. CASE CanUndo(a) /\ folder' = (folder \/ fold2 = "make") /\ Begin(Loop, o2)
  <2>1. /\ DOMAIN new = Fields /\ new.kind = o.kind /\ new.act = o.act /\ new.back = o.back
        /\ new.fold = fold2 /\ new.made = (fold2 = "make") /\ new.held = o.held
        /\ new.goal = [f \in fs |-> FirstBefore(a, f)]
    BY <1>5, <1>8 DEF Fields
  <2>2. /\ o2.pc = FirstStep(new) /\ o2.kind = "undo" /\ o2.act = o.act /\ ~o2.back
        /\ o2.goal = new.goal /\ o2.fold = fold2 /\ o2.made = (fold2 = "make") /\ o2.held = o.held
    BY <1>6, <1>7, <1>9, <2>1 DEF Fields
  <2>3. o2.pc = "capture" \/ (o2.pc = "done" /\ DOMAIN o2.goal = {})
    BY <2>2 DEF FirstStep
  <2>4. o2.goal = [f \in DOMAIN o2.goal |-> o2.goal[f]]
    BY <2>1, <2>2
  <2>5. fold2 = "remove" => folder
    <3>1. SUFFICES ASSUME fold2 = "remove" PROVE folder
      OBVIOUS
    <3>2. Folder \in Touched(a) /\ FirstBefore(a, Folder) = Absent /\ LastAfter(a, Folder) # Absent
      BY <1>4, <3>1
    <3>3. Present(folder) = LastAfter(a, Folder)
      BY <1>11, <3>2 DEF CanUndo
    <3>4. QED
      BY <3>2, <3>3 DEF Present
  <2>6. fold2 \in {"keep", "make", "remove"}
    BY <1>4
  <2>7. Fallback(o2)'
    BY <2>2 DEF Fallback
  <2>8. TakingBack(o2)'
    BY <1>11, <2>2, <2>3, <2>4, <2>5, <2>6 DEF TakingBack
  <2>9. \A w \in Workers : op[w].held \cap o2.held = {}
    BY <1>1, <1>8, <2>2 DEF LoopApart
  <2>10. QED
    BY <1>11, <2>7, <2>8, <2>9, LoopGoes
<1>12. QED
  BY <1>1, <1>2, <1>3, <1>4, <1>5, <1>6, <1>10, <1>11 DEF UndoPlan, Continue

\* The folder is removed, and the request ends or begins to take all of it back.
LEMMA FolderStepHarmless ==
    ASSUME VaultInv, ExactInv, HarmlessInv, FolderStep
    PROVE  HarmlessInv'
<1>1. PICK o : o = op[Loop]
  OBVIOUS
<1>2. PICK o2 : o2 = [o EXCEPT !.pc = "revert"]
  OBVIOUS
<1>3. o.kind \in Restores /\ o.pc = "done" /\ ~o.back /\ UNCHANGED <<disk, author, origin>>
  BY <1>1 DEF FolderStep, Going, At, ghosts
<1>4. CASE Begin(Loop, Idle)
  BY <1>4, LoopEnds
<1>5. CASE o.kind = "undo" /\ Begin(Loop, o2)
  <2>1. DOMAIN o = Fields /\ TakingBack(o) /\ LoopApart
    BY <1>1, LoopFacts DEF HarmlessInv
  <2>2. /\ o2.pc = "revert" /\ o2.kind = "undo" /\ o2.act = o.act /\ o2.made = o.made
        /\ o2.goal = o.goal /\ o2.before = o.before
        /\ o2.held = o.held /\ o2.back = o.back /\ o2.fold = o.fold
    BY <1>2, <1>5, <2>1 DEF Fields
  <2>3. \A w \in Workers : op[w].held \cap o2.held = {}
    BY <1>1, <2>1, <2>2 DEF LoopApart
  <2>4. Fallback(o2)'
    BY <2>2 DEF Fallback
  <2>5. TakingBack(o2)'
    BY <1>3, <1>5, <2>1, <2>2 DEF TakingBack
  <2>6. QED
    BY <1>5, <2>3, <2>4, <2>5, LoopGoes
<1>6. QED
  BY <1>1, <1>2, <1>4, <1>5 DEF FolderStep, Continue

\* The way back begins: a folder that was removed is there again.
LEMMA RevertHarmless ==
    ASSUME VaultInv, ExactInv, HarmlessInv, Revert
    PROVE  HarmlessInv'
<1>1. PICK o : o = op[Loop]
  OBVIOUS
<1>2. PICK o2 : o2 = Reverting(o)
  OBVIOUS
<1>3. /\ o.kind = "undo" /\ o.pc = "revert" /\ Begin(Loop, o2)
      /\ folder' = (folder \/ (o.fold = "remove" /\ ~folder))
      /\ UNCHANGED <<disk, author, origin>>
  BY <1>1, <1>2 DEF Revert, At, Continue, ghosts
<1>4. /\ DOMAIN o = Fields /\ Hierarchy(o) /\ TakingBack(o) /\ LoopApart /\ VaultTyped
  BY <1>1, LoopFacts DEF HarmlessInv
<1>5. Restoring(o, act) /\ ~o.back
  BY <1>1, <1>3, <1>4, HierarchyFacts DEF Hierarchy
<1>6. /\ o2.pc = FirstStep(o) /\ o2.kind = "undo" /\ o2.act = o.act /\ o2.made = o.made
      /\ o2.goal = o.before /\ o2.held = o.held /\ o2.back = TRUE /\ o2.fold = o.fold
  BY <1>2, <1>3, <1>4 DEF Reverting, Fields
<1>7. DOMAIN o2.goal = DOMAIN o.goal
  BY <1>3, <1>5, <1>6 DEF Restoring
<1>8. o2.pc \in {"capture", "done"} /\ (o2.pc = "done" <=> o.goal = <<>>)
  BY <1>6 DEF FirstStep
<1>9. o.goal = <<>> <=> DOMAIN o.goal = {}
  <2>1. o.goal = <<>> => DOMAIN o.goal = {}
    OBVIOUS
  <2>2. PICK S : S = DOMAIN o.goal
    OBVIOUS
  <2>3. o.goal = [f \in S |-> o.goal[f]]
    BY <1>3, <1>4, <1>5, <2>2 DEF TakingBack
  <2>4. S = {} => o.goal = <<>>
    BY <2>3
  <2>5. QED
    BY <2>1, <2>2, <2>4
<1>10. \A f \in DOMAIN o.goal : o2.goal[f] = origin[o.act][f]
  BY <1>3, <1>4, <1>5, <1>6 DEF TakingBack
<1>11. o.fold = "remove" => folder'
  BY <1>3, <1>4 DEF VaultTyped
<1>12. TakingBack(o2)'
  BY <1>3, <1>4, <1>6, <1>7, <1>8, <1>9, <1>10, <1>11 DEF TakingBack
<1>13. Fallback(o2)'
  BY <1>6 DEF Fallback
<1>14. \A w \in Workers : op[w].held \cap o2.held = {}
  BY <1>1, <1>4, <1>6 DEF LoopApart
<1>15. QED
  BY <1>3, <1>12, <1>13, <1>14, LoopGoes

\* Another program changes a file: it becomes its author.
LEMMA ExternalHarmless ==
    ASSUME VaultInv, ExactInv, HarmlessInv, NEW f \in Files, NEW v, ExternalEdit(f, v)
    PROVE  HarmlessInv'
<1>1. PICK o : o = op[Loop]
  OBVIOUS
<1>2. UNCHANGED <<folder, op, origin>>
  BY DEF ExternalEdit
<1>3. \A g \in Files : disk'[g] = disk[g] \/ author'[g] = External
  BY DEF ExternalEdit, VaultInv, VaultTyped
<1>4. \A g \in Files : author[g] = External => author'[g] = External
  BY DEF ExternalEdit, VaultInv, VaultTyped
<1>5. DOMAIN o.goal \subseteq Files /\ Fallback(o) /\ TakingBack(o) /\ LoopApart
  BY <1>1, LoopFacts DEF HarmlessInv
<1>6. Fallback(o)'
  BY <1>3, <1>4, <1>5 DEF Fallback
<1>7. TakingBack(o)'
  BY <1>2, <1>3, <1>4, <1>5 DEF TakingBack
<1>8. Fallback(op[Loop])' /\ TakingBack(op[Loop])'
  BY <1>1, <1>2, <1>6, <1>7 DEF Fallback, TakingBack
<1>9. LoopApart'
  BY <1>2, <1>5 DEF LoopApart
<1>10. QED
  BY <1>8, <1>9 DEF HarmlessInv

-----------------------------------------------------------------------------
(* A rollback that is reported as failed.                                  *)

\* At first no operation is under way.
LEMMA HarmlessStarts == VaultInit => HarmlessInv
<1> SUFFICES ASSUME VaultInit PROVE HarmlessInv
  OBVIOUS
<1>1. \A t \in VaultThreads : op[t] = Idle
  BY DEF VaultInit
<1>2. op[Loop] = Idle /\ \A w \in Workers : op[w] = Idle
  BY <1>1 DEF VaultThreads
<1>3. LoopApart
  BY <1>2 DEF LoopApart, Idle
<1>4. Fallback(op[Loop]) /\ TakingBack(op[Loop])
  BY <1>2 DEF Fallback, TakingBack, Idle
<1>5. QED
  BY <1>3, <1>4 DEF HarmlessInv

\* Every step keeps what a failed rollback rests on.
LEMMA HarmlessGoesOn == ASSUME VaultInv, ExactInv, HarmlessInv, [VaultNext]_vaultVars PROVE HarmlessInv'
<1>1. CASE UNCHANGED vaultVars
  <2>1. PICK o : o = op[Loop]
    OBVIOUS
  <2>2. UNCHANGED <<disk, folder, op, author, origin>>
    BY <1>1 DEF vaultVars
  <2>3. Fallback(o)' /\ TakingBack(o)'
    BY <2>1, <2>2 DEF HarmlessInv, Fallback, TakingBack
  <2>4. Fallback(op[Loop])' /\ TakingBack(op[Loop])'
    BY <2>1, <2>2, <2>3 DEF Fallback, TakingBack
  <2>5. LoopApart'
    BY <2>2 DEF HarmlessInv, LoopApart
  <2>6. QED
    BY <2>4, <2>5 DEF HarmlessInv
<1>2. CASE \E t \in VaultThreads : Thread(t)
  <2>1. PICK t \in VaultThreads : Thread(t)
    BY <1>2
  <2>2. CASE t \in Workers
    BY <2>1, <2>2, WorkerEnterHarmless, WorkerLockHarmless, WorkerPrepareHarmless,
       WorkerWriteHarmless, WorkerRecordHarmless DEF Thread
  <2>3. CASE t = Loop
    BY <2>1, <2>3, LoopEnterHarmless, LoopLockHarmless, EditorHarmless DEF Thread
  <2>4. QED
    BY <2>2, <2>3 DEF VaultThreads
<1>3. CASE Restoration
  BY <1>3, CaptureHarmless, ApplyHarmless, VerifyHarmless, CompensateHarmless DEF Restoration
<1>4. CASE Request
  <2>1. CASE UndoFailed \/ RequestFailed \/ TaskUndoFailed
    <3>1. Begin(Loop, Idle)
      BY <2>1 DEF UndoFailed, RequestFailed, TaskUndoFailed, Continue
    <3>2. QED
      BY <3>1, LoopEnds
  <2>2. QED
    BY <1>4, <2>1, DeletePlanHarmless, UndoPlanHarmless, FolderStepHarmless, RevertHarmless DEF Request
<1>5. CASE \E t \in Workers, a \in Tasks, f \in Files, v \in Written \cup {Absent} : Mutate(t, a, f, v)
  BY <1>5, MutateHarmless
<1>6. CASE \E t \in Workers, a \in Tasks, f, g \in Files : Move(t, a, f, g)
  BY <1>6, MoveHarmless
<1>7. CASE \E r \in Requests, f \in Files, v \in Written : Save(r, f, v)
  BY <1>7, SaveHarmless
<1>8. CASE \E r \in Requests, a \in Acts, f \in Files : Restore(r, a, f)
  BY <1>8, RestoreHarmless
<1>9. CASE \E a \in Tasks, outcome \in {"completed", "failed"} : EndTask(a, outcome)
  BY <1>9, EndTaskHarmless
<1>10. CASE \E r \in Requests, a \in Acts : Ask(r, "undo", a)
  BY <1>10, AskHarmless
<1>11. CASE \E r \in Requests, f \in Files \cup {Folder} : Ask(r, "delete", f)
  BY <1>11, AskHarmless
<1>12. CASE \E f \in Files, v \in State : ExternalEdit(f, v)
  BY <1>12, ExternalHarmless
<1>13. QED
  BY <1>1, <1>2, <1>3, <1>4, <1>5, <1>6, <1>7, <1>8, <1>9, <1>10, <1>11, <1>12 DEF VaultNext

\* What a failed rollback rests on holds at every moment.
LEMMA HarmlessInductive == VaultSpec => [](VaultInv /\ ExactInv /\ HarmlessInv)
<1>1. VaultInit => VaultInv /\ ExactInv /\ HarmlessInv
  BY VaultStarts, ExactStarts, HarmlessStarts
<1>2. VaultInv /\ ExactInv /\ HarmlessInv /\ [VaultNext]_vaultVars => (VaultInv /\ ExactInv /\ HarmlessInv)'
  BY VaultGoesOn, ExactGoesOn, HarmlessGoesOn
<1>3. QED
  BY <1>1, <1>2, PTL DEF VaultSpec

\* A rollback that ends well is not reported as failed.
LEMMA FolderStepSucceeds ==
    ASSUME VaultInv, ExactInv, FolderStep, op[Loop].kind \in {"undo", "taskundo"}, op'[Loop] = Idle
    PROVE  act'[op[Loop].act].status # "failed"
<1>1. PICK o : o = op[Loop]
  OBVIOUS
<1>2. o.kind \in Restores /\ o.pc = "done"
  BY <1>1 DEF FolderStep, Going, At
<1>3. o.kind = "undo"
  BY <1>1, <1>2, RestoreFacts DEF TaskUndo
<1>4. /\ VaultTyped /\ Loop \in VaultThreads /\ DOMAIN o = Fields /\ act \in [Acts -> ActT]
      /\ o.act \in Acts /\ o.src \in Acts /\ o.act # o.src /\ act[o.act].status = "running"
  BY <1>1, <1>2, <1>3, LoopFacts, HierarchyFacts DEF VaultTyped
<1>5. PICK o2 : o2 = [o EXCEPT !.pc = "revert"]
  OBVIOUS
<1>6. o2.kind = "undo" /\ Idle.kind = "none"
  BY <1>3, <1>4, <1>5 DEF Fields, Idle
<1>7. ~Begin(Loop, o2)
  <2>1. Begin(Loop, o2) => op'[Loop] = o2
    BY <1>4, PutOp
  <2>2. QED
    BY <1>6, <2>1
<1>8. act' = Marked(o, TRUE)
  BY <1>1, <1>3, <1>5, <1>7 DEF FolderStep, Continue
<1>9. PICK mid : mid = Ended(o.act, "completed")
  OBVIOUS
<1>10. mid \in [Acts -> ActT] /\ mid[o.act].status # "failed"
  BY <1>4, <1>9 DEF Ended, ActT
<1>11. act' = [mid EXCEPT ![o.src].undone = TRUE]
  BY <1>3, <1>8, <1>9 DEF Marked
<1>12. act'[o.act] = mid[o.act]
  BY <1>4, <1>10, <1>11
<1>13. QED
  BY <1>1, <1>10, <1>12

\* The steps that end a rollback and report it as failed.
LEMMA WhoFails ==
    ASSUME VaultInv, ExactInv, [VaultNext]_vaultVars, op[Loop].kind \in {"undo", "taskundo"},
           op[Loop].pc \in {"failed", "done"}, op'[Loop] = Idle, act'[op[Loop].act].status = "failed"
    PROVE  TaskUndoFailed \/ UndoFailed \/ RequestFailed
<1>1. PICK o : o = op[Loop]
  OBVIOUS
<1>2. /\ VaultTyped /\ Loop \in VaultThreads /\ Loop \notin Workers /\ DOMAIN o = Fields
      /\ o.kind # "none" /\ o.kind \notin Writes /\ Idle.kind = "none" /\ op[Loop] # Idle
      /\ o.pc \in {"failed", "done"}
  BY <1>1, LoopFacts DEF Writes, Idle
<1>3. ASSUME NEW t \in Workers, NEW o2, Begin(t, o2) PROVE FALSE
  <2>1. t \in VaultThreads /\ t # Loop
    BY <1>2, <1>3 DEF VaultThreads
  <2>2. op'[Loop] = op[Loop]
    BY <1>2, <1>3, <2>1, PutOp
  <2>3. QED
    BY <1>2, <2>2
<1>4. ~UNCHANGED op
  BY <1>2
<1>5. ~UNCHANGED vaultVars
  BY <1>4 DEF vaultVars
<1>6. ASSUME NEW t \in VaultThreads, Thread(t) PROVE FALSE
  <2>1. CASE t \in Workers
    <3>1. \E o2 : Begin(t, o2)
      BY <1>6 DEF Thread, Enter, Lock, Prepare, Write, Record
    <3>2. QED
      BY <1>3, <2>1, <3>1
  <2>2. CASE t = Loop
    <3>1. op[t].pc \in {"enter", "lock", "prepare", "write", "record"}
      BY <1>6 DEF Thread, Enter, Lock, Prepare, Write, Record, At
    <3>2. QED
      BY <1>1, <1>2, <2>2, <3>1
  <2>3. QED
    BY <2>1, <2>2 DEF VaultThreads
<1>7. ~Restoration
  <2>1. Restoration => op[Loop].pc \in {"capture", "apply", "verify", "compensate"}
    BY DEF Restoration, Capture, Apply, Verify, Compensate, Going, At
  <2>2. QED
    BY <1>1, <1>2, <2>1
<1>8. ~DeletePlan /\ ~UndoPlan
  BY <1>1, <1>2 DEF DeletePlan, UndoPlan, At
<1>9. ~FolderStep
  BY FolderStepSucceeds
<1>10. ~Revert
  BY <1>1, <1>2 DEF Revert, At
<1>11. ~\E t \in Workers, a \in Tasks, f \in Files, v \in Written \cup {Absent} : Mutate(t, a, f, v)
  BY <1>3 DEF Mutate
<1>12. ~\E t \in Workers, a \in Tasks, f, g \in Files : Move(t, a, f, g)
  BY <1>3 DEF Move
<1>13. /\ ~\E r \in Requests, f \in Files, v \in Written : Save(r, f, v)
       /\ ~\E r \in Requests, a \in Acts, f \in Files : Restore(r, a, f)
  BY <1>2 DEF Save, Restore
<1>14. ~\E a \in Tasks, outcome \in {"completed", "failed"} : EndTask(a, outcome)
  BY <1>2 DEF EndTask
<1>15. /\ ~\E r \in Requests, a \in Acts : Ask(r, "undo", a)
       /\ ~\E r \in Requests, f \in Files \cup {Folder} : Ask(r, "delete", f)
  BY <1>2 DEF Ask
<1>16. ~\E f \in Files, v \in State : ExternalEdit(f, v)
  BY <1>4 DEF ExternalEdit
<1>17. VaultNext
  BY <1>5
<1>18. Request
  BY <1>6, <1>7, <1>11, <1>12, <1>13, <1>14, <1>15, <1>16, <1>17 DEF VaultNext
<1>19. QED
  BY <1>8, <1>9, <1>10, <1>18 DEF Request

\* A rollback that is reported as failed leaves every path as it found it, the
\* folders too, however far it had come (_compensate_file_state_restores,
\* _restore_activity_states), unless it reports an uncertain state: for any
\* files, activities, threads, edits and failures.
THEOREM FailedRollbackHarmless == VaultSpec => FailureHarmless
<1> DEFINE
  Ends == /\ op[Loop].kind \in {"undo", "taskundo"} /\ op'[Loop] = Idle
          /\ op[Loop].pc \in {"failed", "done"} /\ act'[op[Loop].act].status = "failed"
  FilesKept == \A f \in DOMAIN op[Loop].goal :
             LET found == IF op[Loop].kind = "undo" THEN origin[op[Loop].act][f]
                          ELSE IF op[Loop].before = <<>> THEN None ELSE op[Loop].before[f]
             IN \/ found = None \/ disk'[f] = found \/ author'[f] = External
                \/ <<op[Loop].act, f>> \in unsure'
  FolderKept == op[Loop].fold # "keep" =>
                  folder' = (op[Loop].fold = "remove") \/ \E x \in unsure' : x[1] = op[Loop].act
<1>1. ASSUME VaultInv, ExactInv, HarmlessInv, [VaultNext]_vaultVars, Ends
      PROVE  FilesKept /\ FolderKept
  <2>1. PICK o : o = op[Loop]
    OBVIOUS
  <2>2. Fallback(o) /\ TakingBack(o) /\ VaultTyped
    BY <1>1, <2>1 DEF HarmlessInv, VaultInv
  <2>3. o.kind \in {"undo", "taskundo"} /\ o.pc \in {"failed", "done"}
    BY <1>1, <2>1
  <2>4. CASE TaskUndoFailed
    <3>1. o.kind = "taskundo" /\ o.pc = "failed" /\ UNCHANGED <<disk, author>>
      BY <2>1, <2>3, <2>4 DEF TaskUndoFailed, At, ghosts
    <3>2. QED
      BY <2>1, <2>2, <3>1 DEF Fallback
  <2>5. CASE UndoFailed
    <3>1. /\ o.kind = "undo" /\ UNCHANGED <<disk, author>>
          /\ (o.back /\ o.pc = "done") \/ (~o.back /\ o.pc = "failed")
      BY <2>1, <2>3, <2>5 DEF UndoFailed, At
    <3>2. IF o.made /\ Empty THEN folder' = FALSE ELSE folder' = folder
      BY <2>1, <2>5 DEF UndoFailed
    <3>3. o.made /\ ~Empty => <<o.act, Folder>> \in unsure'
      BY <2>1, <2>5 DEF UndoFailed
    <3>4. FilesKept
      BY <2>1, <2>2, <3>1 DEF TakingBack
    <3>5. /\ o.fold \in {"keep", "make", "remove"} /\ o.made = (o.fold = "make")
          /\ o.fold = "remove" => folder
      BY <2>2, <3>1 DEF TakingBack
    <3>6. FolderKept
      <4>1. SUFFICES ASSUME o.fold # "keep"
                     PROVE  folder' = (o.fold = "remove") \/ \E x \in unsure' : x[1] = o.act
        BY <2>1
      <4>2. CASE o.fold = "remove"
        <5>1. folder' = folder /\ folder = TRUE
          BY <2>2, <3>2, <3>5, <4>2 DEF VaultTyped
        <5>2. QED
          BY <4>2, <5>1
      <4>3. CASE o.fold = "make" /\ Empty
        <5>1. folder' = FALSE
          BY <3>2, <3>5, <4>3
        <5>2. QED
          BY <4>3, <5>1
      <4>4. CASE o.fold = "make" /\ ~Empty
        <5>1. <<o.act, Folder>> \in unsure' /\ <<o.act, Folder>>[1] = o.act
          BY <3>3, <3>5, <4>4
        <5>2. QED
          BY <5>1
      <4>5. QED
        BY <3>5, <4>1, <4>2, <4>3, <4>4
    <3>7. QED
      BY <3>4, <3>6
  <2>6. CASE RequestFailed
    <3>1. o.pc = "failed" /\ o.kind = "undo" /\ o.back
      BY <2>1, <2>3, <2>6 DEF RequestFailed, At
    <3>2. unsure' = unsure \cup {<<o.act, f>> : f \in DOMAIN o.goal}
      BY <2>1, <2>6, <3>1 DEF RequestFailed
    <3>3. FilesKept
      BY <2>1, <3>2
    <3>4. PICK f : f \in DOMAIN o.goal
      BY <2>2, <3>1 DEF TakingBack
    <3>5. <<o.act, f>> \in unsure' /\ <<o.act, f>>[1] = o.act
      BY <3>2, <3>4
    <3>6. QED
      BY <2>1, <3>3, <3>5
  <2>7. QED
    BY <1>1, <2>4, <2>5, <2>6, WhoFails
<1>2. VaultInv /\ ExactInv /\ HarmlessInv /\ [VaultNext]_vaultVars =>
        [Ends => FilesKept /\ FolderKept]_vaultVars
  BY <1>1
<1>3. QED
  BY <1>2, HarmlessInductive, PTL DEF VaultSpec, FailureHarmless
=============================================================================
