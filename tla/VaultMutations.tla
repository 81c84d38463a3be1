--------------------------- MODULE VaultMutations ---------------------------
(***************************************************************************)
(* The recorded changes of a vault's files (core/vault_state): tool calls  *)
(* of tasks write, delete and move files in worker threads; requests of    *)
(* the Explorer save, restore a revision, delete and roll back on the      *)
(* event loop's thread; a task that fails is rolled back there too.  All   *)
(* of them go through the hierarchy lock and the locks of exact paths.     *)
(* Other programs edit the same files and take no lock.                    *)
(*                                                                         *)
(* A content is a model value and stands for its hash.  The vault has one  *)
(* folder, with InFolder the files in it.  Sorting locks by stripe is      *)
(* Rank; no two files share a stripe.                                      *)
(***************************************************************************)
EXTENDS Naturals, Sequences, FiniteSets

CONSTANTS Files,      \* the paths of files
          InFolder,   \* those inside the folder
          Rank,       \* the order in which locks of paths are taken
          Contents,   \* what a file may hold
          Written,    \* the contents that tools and the editor write
          Initial,    \* what the files hold at first
          Absent,     \* the state of a file that does not exist
          None,       \* nothing captured yet
          External,   \* other programs that edit the vault
          Tasks,      \* tasks, each with its activity
          Requests,   \* activities of Explorer requests, numbers
          Workers,    \* threads of tool calls
          Loop,       \* the thread of the event loop
          MaxOps,     \* bound on tool calls and requests
          MaxCalls,   \* tool calls are among the first MaxCalls of them
          MaxTrouble, \* bound on edits by other programs and on failures of
                      \* a write or of the database, together
          Kinds       \* the operations of an instance

ASSUME FilesAssumption == /\ InFolder \subseteq Files
                          /\ Rank \in [Files -> Nat] /\ Written \subseteq Contents
                          /\ Initial \in [Files -> Contents \cup {Absent}]
                          /\ IsFiniteSet(Files) /\ "folder" \notin Files
                          /\ {Absent, None} \cap Contents = {} /\ Absent \notin {None, "here"}
                          /\ Loop \notin Workers /\ Tasks \cap Requests = {}
                          /\ {None, External} \cap (Tasks \cup Requests) = {}

VARIABLES disk,     \* the files
          folder,   \* whether the folder exists
          rows,     \* vault_mutations of each activity
          snap,     \* file_snapshots: the state captured for an activity
          act,      \* vault_activities: status, and whether it was undone
          op,       \* the operation each thread carries out
          ops, trouble,
          author,   \* ghost: who last changed a file
          origin,   \* ghost: the state an activity first found
          unsure    \* ghost: changes reported as uncertain

vaultVars == <<disk, folder, rows, snap, act, op, ops, trouble, author,
          origin, unsure>>
ghosts == <<author, origin, unsure>>

Acts == Tasks \cup Requests
VaultThreads == Workers \cup {Loop}
State == Contents \cup {Absent}
Folder == "folder"

Idle == [kind |-> "none", pc |-> "idle", act |-> None, src |-> None,
         goal |-> <<>>, seen |-> <<>>, before |-> <<>>, held |-> {},
         mode |-> "none", fold |-> "keep", made |-> FALSE, back |-> FALSE]

\* One row of vault_mutations.
Row(p, b, a) == [path |-> p, before |-> b, after |-> a]
Recorded(a, new) == [rows EXCEPT ![a] = rows[a] \o new]

\* The state v of one file, and the files with some of them changed.
Only(f, v) == [x \in {f} |-> v]
Changed(new) == [f \in Files |-> IF f \in DOMAIN new THEN new[f] ELSE disk[f]]

VaultInit ==
  /\ disk = Initial /\ folder = TRUE
  /\ rows = [a \in Acts |-> <<>>]
  /\ snap = [a \in Acts |-> [f \in Files |-> None]]
  /\ act = [a \in Acts |-> [status |-> IF a \in Tasks THEN "running" ELSE "none",
                            undone |-> FALSE]]
  /\ op = [t \in VaultThreads |-> Idle]
  /\ ops = 0 /\ trouble = 0
  /\ author = [f \in Files |-> None]
  /\ origin = [a \in Acts |-> [f \in Files |-> None]]
  /\ unsure = {}

-----------------------------------------------------------------------------
(* Locks.                                                                  *)

\* A reader of the hierarchy waits for the writer and for waiting writers.
ReadFree(t) == \A u \in VaultThreads \ {t} :
                 op[u].mode # "write" /\ op[u].pc # "exclude"
WriteFree(t) == \A u \in VaultThreads \ {t} : op[u].mode = "none"

\* Mutant: a move locks its source first.
NextLockAsGiven(t) ==
  LET left == DOMAIN op[t].goal \ op[t].held
  IN  IF op[t].src \in left THEN {op[t].src}
      ELSE {f \in left : \A g \in left : Rank[f] <= Rank[g]}

\* The locks of the paths are taken one by one in a fixed order.
NextLock(t) ==
  LET left == DOMAIN op[t].goal \ op[t].held
  IN  {f \in left : \A g \in left : Rank[f] <= Rank[g]}

PathFree(t, f) == \A u \in VaultThreads \ {t} : f \notin op[u].held

Begin(t, o) == op' = [op EXCEPT ![t] = o]
At(t, kinds, pc) == op[t].kind \in kinds /\ op[t].pc = pc

Writes == {"mutate", "move", "save", "restore"}

\* vault_file_mutation_lock: the hierarchy shared, then the exact paths.
Enter(t) ==
  /\ At(t, Writes \cup {"taskundo"}, "enter") /\ ReadFree(t)
  /\ Begin(t, [op[t] EXCEPT !.pc = "lock", !.mode = "read"])
  /\ UNCHANGED <<disk, folder, rows, snap, act, ops, trouble, ghosts>>

Lock(t) ==
  /\ At(t, Writes \cup {"taskundo"}, "lock")
  /\ \E f \in NextLock(t) :
       /\ PathFree(t, f)
       /\ LET held == op[t].held \cup {f}
          IN Begin(t, [op[t] EXCEPT !.held = held,
               !.pc = IF held # DOMAIN op[t].goal THEN "lock"
                      ELSE IF op[t].kind = "taskundo" THEN "capture" ELSE "prepare"])
  /\ UNCHANGED <<disk, folder, rows, snap, act, ops, trouble, ghosts>>

-----------------------------------------------------------------------------
(* One write: mutate_vault_file and move_vault_file.                       *)

Fresh(r) == r \in Requests /\ act[r].status = "none"
            /\ \A q \in Requests : q < r => act[q].status # "none"
Started(a) == [act EXCEPT ![a].status = "running"]
\* finish_activity: an activity once rolled back stays so.
Ended(a, status) == [act EXCEPT ![a].status =
                       IF act[a].status = "rolled_back" THEN "rolled_back" ELSE status]
Over(a) == act[a].status \notin {"none", "running", "ending"}

\* A task's tool changes, creates or deletes one file.
Mutate(t, a, f, v) ==
  /\ "mutate" \in Kinds /\ op[t] = Idle /\ ops < MaxCalls
  /\ a \in Tasks /\ act[a].status = "running"
  /\ Begin(t, [Idle EXCEPT !.kind = "mutate", !.pc = "enter", !.act = a,
                           !.src = f, !.goal = Only(f, v)])
  /\ ops' = ops + 1
  /\ UNCHANGED <<disk, folder, rows, snap, act, trouble, ghosts>>

Move(t, a, f, g) ==
  /\ "move" \in Kinds /\ op[t] = Idle /\ ops < MaxCalls
  /\ a \in Tasks /\ act[a].status = "running" /\ f # g
  /\ Begin(t, [Idle EXCEPT !.kind = "move", !.pc = "enter", !.act = a,
                           !.src = f, !.goal = [x \in {f, g} |-> Absent]])
  /\ ops' = ops + 1
  /\ UNCHANGED <<disk, folder, rows, snap, act, trouble, ghosts>>

\* replace_full_text_content compares the hash the editor was opened with,
\* and only then asks for the locks.
Save(r, f, v) ==
  /\ "save" \in Kinds /\ op[Loop] = Idle /\ ops < MaxOps /\ Fresh(r) /\ disk[f] # Absent
  /\ Begin(Loop, [Idle EXCEPT !.kind = "save", !.pc = "enter", !.act = r,
                    !.src = f, !.goal = Only(f, v), !.seen = Only(f, disk[f])])
  /\ act' = Started(r) /\ ops' = ops + 1
  /\ UNCHANGED <<disk, folder, rows, snap, trouble, ghosts>>

\* restore_vault_file_revision: the hash is compared under the lock.
Restore(r, a, f) ==
  /\ "restore" \in Kinds /\ op[Loop] = Idle /\ ops < MaxOps /\ Fresh(r) /\ snap[a][f] # None
  /\ Begin(Loop, [Idle EXCEPT !.kind = "restore", !.pc = "enter", !.act = r,
                    !.src = f, !.goal = Only(f, snap[a][f]), !.seen = Only(f, disk[f])])
  /\ act' = Started(r) /\ ops' = ops + 1
  /\ UNCHANGED <<disk, folder, rows, snap, trouble, ghosts>>

\* ensure_file_snapshot: the first state of a path that an owner captures stays.
Captured(old, now) == IF old = None THEN now ELSE old
Capturing(a, fs) == [snap EXCEPT ![a] = [f \in Files |->
                       IF f \in fs THEN Captured(snap[a][f], disk[f]) ELSE snap[a][f]]]
Finding(a, fs) == [origin EXCEPT ![a] = [f \in Files |->
                     IF f \in fs /\ origin[a][f] = None THEN disk[f] ELSE origin[a][f]]]

\* Conditions on the state found under the lock.
Allowed(t) ==
  LET o == op[t] IN
  /\ o.kind = "move" => disk[o.src] # Absent
  /\ o.kind \in {"mutate", "restore"} /\ o.goal[o.src] = Absent => disk[o.src] # Absent
  /\ o.kind = "restore" => disk[o.src] = o.seen[o.src]

Prepare(t) ==
  /\ At(t, Writes, "prepare")
  /\ LET o  == op[t]
         fs == DOMAIN o.goal
         now == [f \in fs |-> disk[f]]
     IN \/ /\ Allowed(t)
           /\ snap' = Capturing(o.act, fs) /\ origin' = Finding(o.act, fs)
           /\ Begin(t, [o EXCEPT !.pc = "write", !.before = now,
                          !.seen = IF o.kind \in {"save", "restore"} THEN o.seen ELSE now])
           /\ UNCHANGED <<act, trouble>>
        \/ \* a condition fails, or the snapshot cannot be taken
           /\ Allowed(t) => trouble < MaxTrouble
           /\ trouble' = IF Allowed(t) THEN trouble + 1 ELSE trouble
           /\ Begin(t, Idle)
           /\ act' = IF o.act \in Requests THEN Ended(o.act, "failed") ELSE act
           /\ UNCHANGED <<snap, origin>>
  /\ UNCHANGED <<disk, folder, rows, ops, author, unsure>>

\* The parents of a file that is written are made.
WithParents(d) == folder \/ \E f \in InFolder : d[f] # Absent

\* The mutator, or os.replace of a move.
Write(t) ==
  /\ At(t, Writes, "write")
  /\ LET o == op[t]
         new == [f \in DOMAIN o.goal |->
                   IF o.kind = "move" /\ f # o.src THEN disk[o.src] ELSE o.goal[f]]
     IN /\ disk' = Changed(new) /\ folder' = WithParents(Changed(new))
        /\ author' = [f \in Files |-> IF f \in DOMAIN new THEN o.act ELSE author[f]]
        /\ Begin(t, [o EXCEPT !.pc = "record", !.goal = new])
  /\ UNCHANGED <<rows, snap, act, ops, trouble, origin, unsure>>

\* The rows of an operation, the source of a move first.
RowsOf(o, fs) ==
  LET one(f) == IF f \in fs THEN <<Row(f, o.before[f], o.goal[f])>> ELSE <<>>
      rest == DOMAIN o.goal \ {o.src}
  IN  one(o.src) \o (IF rest = {} THEN <<>> ELSE one(CHOOSE f \in rest : TRUE))

\* _persist_or_log_mutation for each path; a failure loses the rows that follow.
Record(t) ==
  /\ At(t, Writes, "record")
  /\ LET o == op[t] IN
     \E kept \in {DOMAIN o.goal, {o.src}, {}} :
       /\ kept # DOMAIN o.goal => trouble < MaxTrouble
       /\ rows' = Recorded(o.act, RowsOf(o, kept))
       /\ unsure' = unsure \cup {<<o.act, f>> : f \in DOMAIN o.goal \ kept}
       /\ trouble' = IF kept = DOMAIN o.goal THEN trouble ELSE trouble + 1
       /\ act' = IF o.act \in Requests
                 THEN Ended(o.act, IF kept = DOMAIN o.goal THEN "completed" ELSE "failed")
                 ELSE act
       /\ Begin(t, Idle)
  /\ UNCHANGED <<disk, folder, snap, ops, author, origin>>

\* Another program changes a file.
ExternalEdit(f, v) ==
  /\ trouble < MaxTrouble /\ v # disk[f] /\ (f \in InFolder => folder)
  /\ disk' = [disk EXCEPT ![f] = v]
  /\ author' = [author EXCEPT ![f] = External]
  /\ trouble' = trouble + 1
  /\ UNCHANGED <<folder, rows, snap, act, op, ops, origin, unsure>>

-----------------------------------------------------------------------------
(* The restoration of exact states (restore_vault_file_states and          *)
(* restore_file_states_atomically), on the thread of the event loop.       *)

Restores == {"taskundo", "delete", "undo"}
Going(pc) == At(Loop, Restores, pc)
Continue(o) == Begin(Loop, o)

\* What rows say of a path: those about it, and the first and the last of them.
Paths(s) == {s[i].path : i \in DOMAIN s}
Of(s, p) == {i \in DOMAIN s : s[i].path = p}
FirstOf(s, p) == CHOOSE i \in Of(s, p) : \A j \in Of(s, p) : i <= j
LastOf(s, p) == CHOOSE i \in Of(s, p) : \A j \in Of(s, p) : j <= i
Touched(a) == Paths(rows[a])
\* Mutant: the state before the last change.
LastBefore(a, p) == rows[a][LastOf(rows[a], p)].before

FirstBefore(a, p) == rows[a][FirstOf(rows[a], p)].before
LastAfter(a, p) == rows[a][LastOf(rows[a], p)].after

Present(b) == IF b THEN "here" ELSE Absent

\* The retained content behind the state to be restored.
Retained(o, f) == IF o.goal[f] = Absent THEN Absent
                  ELSE IF o.back THEN snap[o.act][f]
                  ELSE snap[o.src][f]
\* Restored content must have the recorded hash.
Intact(o) == \A f \in DOMAIN o.goal : Retained(o, f) = o.goal[f]

\* The displaced states must be the expected ones.
AsExpected(o) == \A f \in DOMAIN o.goal : disk[f] = o.seen[f]

\* _capture_restore_before_states and _record_restore_snapshots.
Capture ==
  /\ Going("capture")
  /\ LET o == op[Loop] IN
     \/ /\ AsExpected(o)
        /\ Continue([o EXCEPT !.pc = "apply", !.before = o.seen])
        /\ IF o.kind = "taskundo" THEN UNCHANGED <<snap, origin>>
           ELSE snap' = Capturing(o.act, DOMAIN o.goal) /\ origin' = Finding(o.act, DOMAIN o.goal)
     \/ /\ ~AsExpected(o)
        /\ Continue([o EXCEPT !.pc = "failed"]) /\ UNCHANGED <<snap, origin>>
  /\ UNCHANGED <<disk, folder, rows, act, ops, trouble, author, unsure>>

\* _apply_file_state_restores: contents are checked, files are removed, then
\* written; a failure leaves the paths done so far.
Apply ==
  /\ Going("apply")
  /\ LET o == op[Loop]
         fs == DOMAIN o.goal
         gone == {f \in fs : o.goal[f] = Absent}
     IN \/ /\ Intact(o)
           /\ \E done \in SUBSET fs :
                /\ (done \subseteq gone \/ gone \subseteq done)
                /\ done # fs => trouble < MaxTrouble
                /\ LET d == Changed([f \in done |-> Retained(o, f)])
                   IN disk' = d /\ folder' = WithParents(d)
                /\ author' = [f \in Files |-> IF f \in done THEN o.act ELSE author[f]]
                /\ trouble' = IF done = fs THEN trouble ELSE trouble + 1
                /\ Continue([o EXCEPT !.pc = IF done = fs THEN "verify" ELSE "compensate"])
        \/ /\ ~Intact(o) /\ Continue([o EXCEPT !.pc = "compensate"])
           /\ UNCHANGED <<disk, folder, author, trouble>>
  /\ UNCHANGED <<rows, snap, act, ops, origin, unsure>>

\* A task whose files were restored, and one whose rollback failed.
RolledBack(a) == [act EXCEPT ![a] = [status |-> "rolled_back", undone |-> TRUE]]

SeqOf(S) == CHOOSE s \in [1..Cardinality(S) -> S] : \A x \in S : \E i \in DOMAIN s : s[i] = x
BatchRows(o) == [i \in 1..Cardinality(DOMAIN o.goal) |->
                   LET f == SeqOf(DOMAIN o.goal)[i] IN Row(f, o.before[f], o.goal[f])]

\* The states are verified; then the rows are written in one transaction, or
\* the task's activities are marked.
Verify ==
  /\ Going("verify")
  /\ LET o == op[Loop]
         right == \A f \in DOMAIN o.goal : disk[f] = o.goal[f]
     IN \/ /\ right /\ o.kind = "taskundo"
           /\ \E marked \in BOOLEAN :
                /\ ~marked => trouble < MaxTrouble
                /\ trouble' = IF marked THEN trouble ELSE trouble + 1
                /\ act' = IF marked THEN RolledBack(o.act) ELSE Ended(o.act, "failed")
           /\ Continue(Idle)
           /\ UNCHANGED rows
        \/ /\ right /\ o.kind # "taskundo"
           /\ rows' = Recorded(o.act, BatchRows(o))
           /\ Continue([o EXCEPT !.pc = "done"])
           /\ UNCHANGED <<act, trouble>>
        \/ /\ right /\ o.kind # "taskundo" /\ trouble < MaxTrouble
           /\ trouble' = trouble + 1
           /\ Continue([o EXCEPT !.pc = "compensate"])
           /\ UNCHANGED <<act, rows>>
        \/ /\ ~right
           /\ Continue([o EXCEPT !.pc = "compensate"])
           /\ UNCHANGED <<act, rows, trouble>>
  /\ UNCHANGED <<disk, folder, snap, ops, ghosts>>

\* _compensate_file_state_restores: the captured states are written back.
Compensated(o, fs) == Changed([f \in fs |-> o.before[f]])

Compensate ==
  /\ Going("compensate")
  /\ LET o == op[Loop]
         fs == DOMAIN o.goal
     IN \E done \in SUBSET fs :
          /\ done # fs => trouble < MaxTrouble
          /\ disk' = Compensated(o, done) /\ folder' = WithParents(Compensated(o, done))
          /\ author' = [f \in Files |-> IF f \in done THEN o.act ELSE author[f]]
          /\ trouble' = IF done = fs THEN trouble ELSE trouble + 1
          /\ Continue([o EXCEPT !.pc = IF done = fs THEN "failed" ELSE "unsure"])
  /\ UNCHANGED <<rows, snap, act, ops, origin, unsure>>

-----------------------------------------------------------------------------
(* A task ends.                                                            *)

\* Mutant: the thread of a cancelled call is not waited for.
SettledLoosely(a) == TRUE

\* _call_transactional_sync: a cancelled call waits for its thread.
Settled(a) == \A w \in Workers : op[w].act # a

\* rollback_task_file_mutations: each path back to its first state.
EndTask(a, outcome) ==
  /\ op[Loop] = Idle /\ act[a].status = "running" /\ Settled(a)
  /\ IF outcome = "completed" \/ rows[a] = <<>>
     THEN act' = Ended(a, outcome) /\ UNCHANGED op
     ELSE /\ act' = [act EXCEPT ![a].status = "ending"]
          /\ Continue([Idle EXCEPT !.kind = "taskundo", !.pc = "enter", !.act = a,
                !.src = a,
                !.goal = [f \in Touched(a) |-> FirstBefore(a, f)],
                !.seen = [f \in Touched(a) |-> LastAfter(a, f)]])
  /\ UNCHANGED <<disk, folder, rows, snap, ops, trouble, ghosts>>

\* The observer logs that the rollback failed.
TaskUndoFailed ==
  /\ At(Loop, {"taskundo"}, op[Loop].pc) /\ op[Loop].pc \in {"failed", "unsure"}
  /\ act' = Ended(op[Loop].act, "failed")
  /\ Continue(Idle)
  /\ UNCHANGED <<disk, folder, rows, snap, ops, trouble, ghosts>>

-----------------------------------------------------------------------------
(* Requests that change the hierarchy.                                     *)

Ask(r, kind, src) ==
  /\ kind \in Kinds /\ op[Loop] = Idle /\ ops < MaxOps /\ Fresh(r)
  /\ kind = "undo" => src \in Acts
  /\ kind = "delete" => src \in Files \cup {Folder}
  /\ Continue([Idle EXCEPT !.kind = kind, !.pc = "exclude", !.act = r, !.src = src])
  /\ ops' = ops + 1
  /\ UNCHANGED <<disk, folder, rows, snap, act, trouble, ghosts>>

\* Whether there is something for the restoration to do.
FirstStep(o) == IF o.goal = <<>> THEN "done" ELSE "capture"

\* delete_vault_paths: a file, or the folder and the files in it.
DeletePlan ==
  /\ At(Loop, {"delete"}, "exclude") /\ WriteFree(Loop)
  /\ LET o == op[Loop]
         fs == {f \in Files : disk[f] # Absent
                  /\ (f = o.src \/ (o.src = Folder /\ f \in InFolder))}
         new == [o EXCEPT !.mode = "write", !.goal = [f \in fs |-> Absent],
                          !.seen = [f \in fs |-> disk[f]],
                          !.fold = IF o.src = Folder THEN "remove" ELSE "keep"]
     IN IF (o.src = Folder /\ folder) \/ fs # {}
        THEN Continue([new EXCEPT !.pc = FirstStep(new)]) /\ act' = Started(o.act)
        ELSE Continue(Idle) /\ UNCHANGED act
  /\ UNCHANGED <<disk, folder, rows, snap, ops, trouble, ghosts>>

\* preview_activity_rollback: what may be undone.
CanUndo(a) ==
  LET fs == Touched(a) \ {Folder} IN
  /\ Over(a) /\ ~act[a].undone /\ rows[a] # <<>>
  /\ \A f \in fs : disk[f] = LastAfter(a, f)
  /\ \A f \in fs : FirstBefore(a, f) # Absent => snap[a][f] = FirstBefore(a, f)
  /\ Folder \in Touched(a) =>
       /\ Present(folder) = LastAfter(a, Folder)
       /\ FirstBefore(a, Folder) = Absent =>
            \A f \in InFolder : disk[f] # Absent => f \in fs

\* execute_activity_rollback up to the files: folders are made first.
UndoPlan ==
  /\ At(Loop, {"undo"}, "exclude") /\ WriteFree(Loop)
  /\ LET o == op[Loop]
         a == o.src
         fs == Touched(a) \ {Folder}
         fold == IF Folder \notin Touched(a) \/ FirstBefore(a, Folder) = LastAfter(a, Folder)
                 THEN "keep" ELSE IF FirstBefore(a, Folder) = Absent THEN "remove" ELSE "make"
         new == [o EXCEPT !.mode = "write", !.fold = fold, !.made = (fold = "make"),
                          !.goal = [f \in fs |-> FirstBefore(a, f)],
                          !.seen = [f \in fs |-> LastAfter(a, f)]]
     IN IF CanUndo(a)
        THEN /\ act' = Started(o.act)
             /\ folder' = (folder \/ fold = "make")
             /\ rows' = IF fold = "make" THEN Recorded(o.act, <<Row(Folder, Absent, "here")>>)
                        ELSE rows
             /\ Continue([new EXCEPT !.pc = FirstStep(new)])
        ELSE Continue(Idle) /\ UNCHANGED <<act, folder, rows>>
  /\ UNCHANGED <<disk, snap, ops, trouble, ghosts>>

Empty == \A f \in InFolder : disk[f] = Absent
Marked(o, ok) == IF ok /\ o.kind = "undo"
                 THEN [Ended(o.act, "completed") EXCEPT ![o.src].undone = TRUE]
                 ELSE Ended(o.act, IF ok THEN "completed" ELSE "failed")

\* The files are done: the folder is removed, the vault refreshed, and the
\* activity finished.
FolderStep ==
  /\ Going("done") /\ ~op[Loop].back
  /\ LET o == op[Loop]
         remove == o.fold = "remove"
     IN \/ \* everything succeeds
           /\ remove => Empty
           /\ folder' = (folder /\ ~remove)
           /\ rows' = IF remove THEN Recorded(o.act, <<Row(Folder, "here", Absent)>>) ELSE rows
           /\ act' = Marked(o, TRUE)
           /\ Continue(Idle) /\ UNCHANGED trouble
        \/ \* rmdir fails, on a folder that is not empty
           /\ remove /\ ~Empty
           /\ IF o.kind = "undo" THEN Continue([o EXCEPT !.pc = "revert"]) /\ UNCHANGED act
              ELSE Continue(Idle) /\ act' = Marked(o, FALSE)
           /\ UNCHANGED <<folder, rows, trouble>>
        \/ \* the folder is removed and what follows fails
           /\ (remove => Empty) /\ trouble < MaxTrouble /\ trouble' = trouble + 1
           /\ folder' = (folder /\ ~remove)
           /\ rows' = IF remove THEN Recorded(o.act, <<Row(Folder, "here", Absent)>>) ELSE rows
           /\ IF o.kind = "undo" THEN Continue([o EXCEPT !.pc = "revert"]) /\ UNCHANGED act
              ELSE Continue(Idle) /\ act' = Marked(o, FALSE)
  /\ UNCHANGED <<disk, snap, ops, ghosts>>

\* Mutant: the files are left as they are.
RevertingNothing(o) == [o EXCEPT !.back = TRUE, !.pc = "done"]

\* _restore_activity_states, on a failure after the files: removed folders are
\* made again and the files are restored once more, the other way.
Reverting(o) == [o EXCEPT !.back = TRUE, !.goal = o.before, !.seen = o.goal,
                          !.pc = FirstStep(o)]

Revert ==
  /\ At(Loop, {"undo"}, "revert")
  /\ LET o == op[Loop]
         again == o.fold = "remove" /\ ~folder
     IN /\ folder' = (folder \/ again)
        /\ rows' = IF again THEN Recorded(o.act, <<Row(Folder, Absent, "here")>>) ELSE rows
        /\ Continue(Reverting(o))
  /\ UNCHANGED <<disk, snap, act, ops, trouble, ghosts>>

\* The last of the compensation: folders that were made are removed.
UndoFailed ==
  /\ At(Loop, {"undo"}, op[Loop].pc)
  /\ LET o == op[Loop] IN
     /\ IF o.back THEN o.pc = "done" ELSE o.pc \in {"failed", "unsure"}
     /\ unsure' = unsure \cup (IF o.made /\ ~Empty THEN {<<o.act, Folder>>} ELSE {})
                         \cup (IF o.pc = "unsure" THEN {<<o.act, f>> : f \in DOMAIN o.goal} ELSE {})
     /\ IF o.made /\ Empty
        THEN /\ folder' = FALSE
             /\ rows' = Recorded(o.act, <<Row(Folder, "here", Absent)>>)
        ELSE UNCHANGED <<folder, rows>>
     /\ act' = Marked(o, FALSE)
     /\ Continue(Idle)
  /\ UNCHANGED <<disk, snap, ops, trouble, author, origin>>

\* The request reports that the state is uncertain, or that nothing was deleted.
RequestFailed ==
  /\ At(Loop, {"undo", "delete"}, op[Loop].pc)
  /\ LET o == op[Loop] IN
     /\ o.pc \in {"failed", "unsure"} /\ (o.back \/ o.kind = "delete")
     /\ unsure' = IF o.pc = "unsure" \/ o.back
                  THEN unsure \cup {<<o.act, f>> : f \in DOMAIN o.goal} ELSE unsure
     /\ act' = Marked(o, FALSE)
     /\ Continue(Idle)
  /\ UNCHANGED <<disk, folder, rows, snap, ops, trouble, author, origin>>

-----------------------------------------------------------------------------
Thread(t) == Enter(t) \/ Lock(t) \/ Prepare(t) \/ Write(t) \/ Record(t)
Restoration == Capture \/ Apply \/ Verify \/ Compensate
Request == DeletePlan \/ UndoPlan \/ FolderStep \/ Revert \/ UndoFailed
           \/ RequestFailed \/ TaskUndoFailed

VaultNext ==
  \/ \E t \in VaultThreads : Thread(t)
  \/ Restoration
  \/ Request
  \/ \E t \in Workers, a \in Tasks, f \in Files,
       v \in Written \cup {Absent} : Mutate(t, a, f, v)
  \/ \E t \in Workers, a \in Tasks, f, g \in Files : Move(t, a, f, g)
  \/ \E r \in Requests, f \in Files, v \in Written : Save(r, f, v)
  \/ \E r \in Requests, a \in Acts, f \in Files : Restore(r, a, f)
  \/ \E a \in Tasks, outcome \in {"completed", "failed"} : EndTask(a, outcome)
  \/ \E r \in Requests, a \in Acts : Ask(r, "undo", a)
  \/ \E r \in Requests, f \in Files \cup {Folder} : Ask(r, "delete", f)
  \/ \E f \in Files, v \in State : ExternalEdit(f, v)

VaultSpec == VaultInit /\ [][VaultNext]_vaultVars

-----------------------------------------------------------------------------
(* Properties.                                                             *)

\* Every variable has its type.
VaultTypeOK ==
  /\ disk \in [Files -> State] /\ folder \in BOOLEAN
  /\ \A a \in Acts :
       /\ Touched(a) \subseteq Files \cup {Folder}
       /\ \A f \in Files : {snap[a][f], origin[a][f]} \subseteq State \cup {None}
       /\ act[a].status \in {"none", "running", "ending", "completed", "failed", "rolled_back"}
       /\ act[a].undone \in BOOLEAN
  /\ \A t \in VaultThreads : /\ op[t].held \subseteq Files
                        /\ op[t].mode \in {"none", "read", "write"}
  /\ author \in [Files -> Acts \cup {None, External}]
  /\ unsure \subseteq Acts \X (Files \cup {Folder})

\* A rollback that is reported as completed, a task's or a request's, leaves
\* every file as the activity first found it, and the folder too
\* (activity_rollback.py, rollback.py): whatever order its calls had, however
\* often it changed a path.  Excepted are files another program edited since,
\* and changes whose recording failed, which were reported as uncertain.
RollbackExact ==
  [][\A a \in Acts : ~act[a].undone /\ act'[a].undone =>
       /\ \A f \in Touched(a) \ {Folder} :
            disk'[f] = origin[a][f] \/ author'[f] = External \/ <<a, f>> \in unsure
       /\ Folder \in Touched(a) => Present(folder') = FirstBefore(a, Folder)]_vaultVars

\* A rollback that is reported as failed leaves every path as it found it,
\* the folders too, however far it had come (_compensate_file_state_restores,
\* _restore_activity_states), unless it reports an uncertain state.
FailureHarmless ==
  [][LET o == op[Loop] IN
     /\ o.kind \in {"undo", "taskundo"} /\ op'[Loop] = Idle /\ o.pc \in {"failed", "done"}
     /\ act'[o.act].status = "failed"
     => /\ \A f \in DOMAIN o.goal :
             LET found == IF o.kind = "undo" THEN origin[o.act][f]
                          ELSE IF o.before = <<>> THEN None ELSE o.before[f]
             IN \/ found = None \/ disk'[f] = found \/ author'[f] = External
                \/ <<o.act, f>> \in unsure'
        /\ o.fold # "keep" => folder' = (o.fold = "remove") \/ \E x \in unsure' : x[1] = o.act]_vaultVars

\* Nothing of a task lands in the vault after it was rolled back: a thread that
\* cancellation cannot stop has been waited for (_call_transactional_sync).
NothingAfterRollback ==
  VaultTypeOK /\ \A a \in Tasks : act[a].undone =>
    /\ \A w \in Workers : op[w].act # a
    /\ \A f \in Files : author[f] = a => <<a, f>> \in unsure \/ disk[f] = FirstBefore(a, f)

\* While an operation is under way some thread can go on: the locks of the
\* hierarchy and of the paths are never waited for in a circle, whichever way
\* files are moved and however readers and a waiting writer queue up.
NoCircularWait ==
  (\E t \in VaultThreads : op[t] # Idle) =>
    ENABLED (\/ \E t \in VaultThreads : Thread(t)
             \/ Restoration \/ Request)

-----------------------------------------------------------------------------
(***************************************************************************)
(* What the repository says of this code and the code does not keep: TLC   *)
(* finds a counterexample (README, section 3.2).                           *)
(***************************************************************************)

\* Save "with optimistic concurrency checks" (api/endpoints.py): it replaces the
\* content its hash check passed on.
SaveKeepsEdits ==
  [][op[Loop].kind = "save" /\ op[Loop].pc = "write" /\ op'[Loop] # op[Loop] =>
       \A f \in DOMAIN op[Loop].goal :
         disk[f] = op[Loop].seen[f] \/ author[f] = External]_vaultVars
=============================================================================
