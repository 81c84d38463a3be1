----------------------------- MODULE ChatHistory -----------------------------
(***************************************************************************)
(* The durable history of chat sessions and what reduces it: the canonical *)
(* messages and context checkpoints of chat_store.py, recovery-card        *)
(* compaction and session-map reduction (compaction.py), the explicit      *)
(* strategy upgrade (context_strategy_upgrade.py), forks and deletion.     *)
(*                                                                         *)
(* The model sees the effective history: the latest checkpoint's           *)
(* replacement followed by the canonical messages after its boundary.  An  *)
(* entry of a history is a canonical message or a summary, and `covers` is *)
(* the set of canonical messages it stands for; `seen` is what the author  *)
(* of a checkpoint was shown.  Sequence indexes start at 1 here and at 0   *)
(* in the code.  Token counts are abstracted: which of the evictable       *)
(* groups bring a session under its low watermark is a free choice.        *)
(* Reducing a history takes an author (a model call), during which only    *)
(* writers that do not take the session's history lock can run.            *)
(***************************************************************************)
EXTENDS Naturals, FiniteSets, SequencesExt

CONSTANTS Sessions,        \* session ids
          First,           \* the session that exists at the start
          Jobs,            \* compactions and upgrades that may be under way
          Retained,        \* compaction_retained_turns, at least 1
          MaxMessages,     \* bound on a session's canonical messages
          MaxMarks,        \* bound on a session's checkpoints
          MaxRevision      \* bound on the revision reached by failing retries

ASSUME HistoryConstants == /\ First \in Sessions
                           /\ Retained \in Nat \ {0}

VARIABLES state,     \* session -> "new", "live" or "gone" (chat_sessions row)
          raw,       \* session -> its canonical messages, in order
          marks,     \* session -> its checkpoints, oldest first
          rev,       \* session -> history_revision
          failed,    \* session -> accepted_user_sequence_index, 0: no marker
          running,   \* session -> a turn is between its prompt and its outcome
          strategy,  \* the configured compaction strategy
          job        \* job -> what the compaction or upgrade is doing

vars == <<state, raw, marks, rev, failed, running, strategy, job>>
chat == <<state, raw, marks, rev, failed, running>>

Idle == [st |-> "idle"]

(***************************************************************************)
(* Histories.                                                              *)
(***************************************************************************)
Entry(s, k, i) == [kind |-> k, covers |-> {<<s, i>>}, origin |-> i]
Covers(es) == UNION {es[i].covers : i \in 1..Len(es)}
Through(s, i) == UNION {raw[s][k].covers : k \in {n \in 1..Len(raw[s]) : raw[s][n].origin <= i}}

NoMark == [kind |-> "none", last |-> 0, obs |-> 0, repl |-> <<>>, seen |-> {}]
Latest(s) == IF marks[s] = <<>> THEN NoMark ELSE Last(marks[s])

Suffix(s, i) == SubSeq(raw[s], i + 1, Len(raw[s]))
Effective(s) == Latest(s).repl \o Suffix(s, Latest(s).last)

\* StoredChatMessage.sequence_index: the position inside a replacement, the
\* canonical index after it.
IndexOf(s, i) == IF i <= Len(Latest(s).repl)
                 THEN i
                 ELSE Latest(s).last + i - Len(Latest(s).repl)

IsResponse(e) == e.kind \in {"call", "text"}
\* Mutant: every request starts a group.
StartsGroupAtRequests(e) == e.kind \in {"user", "card", "map", "reply"}
StartsGroup(e) == e.kind \in {"user", "card", "map"}
GroupStarts(es) ==
    {i \in 1..Len(es) : i = 1 \/ StartsGroup(es[i])}
\* The k-th of a set of positions, and the entries at a set of positions.
Nth(I, k) == CHOOSE i \in I : Cardinality({j \in I : j <= i}) = k
Selected(es, I) == [k \in 1..Cardinality(I) |-> es[Nth(I, k)]]

\* The last position of the k-th group.
GroupEnd(es, k) ==
    IF k < Cardinality(GroupStarts(es)) THEN Nth(GroupStarts(es), k + 1) - 1 ELSE Len(es)

ToolHistoryOk(es) ==
    \A i \in 1..Len(es) :
        /\ es[i].kind = "reply" => i > 1 /\ es[i - 1].kind = "call"
        /\ es[i].kind = "call" => i < Len(es) /\ es[i + 1].kind = "reply"

ForkPoints(s) ==
    {i \in 1..Len(raw[s]) : /\ IsResponse(raw[s][i])
                            /\ ToolHistoryOk(SubSeq(raw[s], 1, i))}

Paused(s) == raw[s] # <<>> /\ Last(raw[s]).kind = "call"
Locked(s) == \E j \in Jobs : job[j].st = "authoring" /\ job[j].s = s

(***************************************************************************)
(* Chat turns.  Messages are appended under the session's history lock,    *)
(* except the replies that close an abandoned review.                      *)
(***************************************************************************)
AddMessages(s, kinds, bump) ==
    /\ state[s] = "live"
    /\ Len(raw[s]) + Len(kinds) <= MaxMessages
    /\ raw' = [raw EXCEPT ![s] = @ \o
                [i \in 1..Len(kinds) |-> Entry(s, kinds[i], Len(raw[s]) + i)]]
    /\ rev' = [rev EXCEPT ![s] = @ + 1 + bump]

\* The accepted user request is stored when the turn starts.
Accept(s) ==
    /\ ~running[s] /\ ~Paused(s) /\ ~Locked(s)
    /\ AddMessages(s, <<"user">>, 0)
    /\ running' = [running EXCEPT ![s] = TRUE]
    /\ UNCHANGED <<state, marks, failed, strategy, job>>

TurnOutputs == {<<"text">>, <<"call">>, <<"call", "reply", "text">>}

\* The turn's messages are committed and the failure marker, if any, cleared.
Answer(s) ==
    /\ running[s] /\ ~Paused(s) /\ ~Locked(s)
    /\ \E out \in TurnOutputs :
          AddMessages(s, out, IF failed[s] = 0 THEN 0 ELSE 1)
    /\ failed' = [failed EXCEPT ![s] = 0]
    /\ running' = [running EXCEPT ![s] = FALSE]
    /\ UNCHANGED <<state, marks, strategy, job>>

\* A review pauses the turn; its resumption commits the replies and more.
Resume(s) ==
    /\ Paused(s) /\ ~Locked(s)
    /\ \E out \in TurnOutputs : AddMessages(s, <<"reply">> \o out, 0)
    /\ UNCHANGED <<state, marks, failed, running, strategy, job>>

\* A resumption that ended early: its replies are written without the lock.
Close(s) ==
    /\ Paused(s)
    /\ AddMessages(s, <<"reply">>, 0)
    /\ UNCHANGED <<state, marks, failed, running, strategy, job>>

\* The turn fails: the marker names the newest canonical message.
Fail(s) ==
    /\ state[s] = "live" /\ running[s] /\ rev[s] < MaxRevision
    /\ failed' = [failed EXCEPT ![s] = Len(raw[s])]
    /\ rev' = [rev EXCEPT ![s] = @ + 1]
    /\ running' = [running EXCEPT ![s] = FALSE]
    /\ UNCHANGED <<state, raw, marks, strategy, job>>

\* A manual retry looks the accepted request up in the effective history.
RetryTarget(s) ==
    {i \in 1..Len(Effective(s)) : /\ IndexOf(s, i) = failed[s]
                                  /\ Effective(s)[i].kind = "user"}
Retry(s) ==
    /\ state[s] = "live" /\ ~running[s] /\ failed[s] # 0
    /\ RetryTarget(s) # {} /\ rev[s] < MaxRevision
    /\ rev' = [rev EXCEPT ![s] = @ + 1]
    /\ running' = [running EXCEPT ![s] = TRUE]
    /\ UNCHANGED <<state, raw, marks, failed, strategy, job>>

(***************************************************************************)
(* Forks and deletion, each one transaction.                               *)
(***************************************************************************)
\* Mutant: the consumed boundary decides what a fork inherits.
EligibleByConsumed(s, p) ==
    Selected(marks[s], {i \in 1..Len(marks[s]) : marks[s][i].last <= p})
Eligible(s, p) ==
    Selected(marks[s], {i \in 1..Len(marks[s]) : marks[s][i].obs <= p})

Fork(s, d) ==
    /\ state[s] = "live" /\ state[d] = "new"
    /\ \E p \in ForkPoints(s) :
          /\ raw' = [raw EXCEPT ![d] = SubSeq(raw[s], 1, p)]
          /\ marks' = [marks EXCEPT ![d] = Eligible(s, p)]
    /\ state' = [state EXCEPT ![d] = "live"]
    /\ rev' = [rev EXCEPT ![d] = 1]
    /\ UNCHANGED <<failed, running, strategy, job>>

Delete(s) ==
    /\ state[s] = "live"
    /\ state' = [state EXCEPT ![s] = "gone"]
    /\ raw' = [raw EXCEPT ![s] = <<>>]
    /\ marks' = [marks EXCEPT ![s] = <<>>]
    /\ rev' = [rev EXCEPT ![s] = 0]
    /\ failed' = [failed EXCEPT ![s] = 0]
    /\ running' = [running EXCEPT ![s] = FALSE]
    /\ UNCHANGED <<strategy, job>>

(***************************************************************************)
(* Reductions.  A job resolves its strategy, waits for the history lock,   *)
(* takes a snapshot, has a summary authored and commits a checkpoint.      *)
(***************************************************************************)
SessionStrategy(s) ==
    IF Latest(s).kind = "none" THEN strategy ELSE Latest(s).kind

Configure ==
    /\ strategy' = IF strategy = "card" THEN "map" ELSE "card"
    /\ UNCHANGED <<chat, job>>

AskCompact(j, s) ==
    /\ job[j] = Idle /\ state[s] = "live"
    /\ job' = [job EXCEPT ![j] = [st |-> "asked", s |-> s,
                                  path |-> SessionStrategy(s)]]
    /\ UNCHANGED <<chat, strategy>>

\* An upgrade is admitted for the session's current recovery card.
AskUpgrade(j, s) ==
    /\ job[j] = Idle /\ state[s] = "live"
    /\ \A k \in Jobs : job[k] # Idle => job[k].path # "upgrade" \/ job[k].s # s
    /\ Latest(s).kind = "card" /\ strategy = "map"
    /\ raw[s] # <<>> /\ ToolHistoryOk(raw[s])
    /\ Cardinality(GroupStarts(raw[s])) = 1 => IsResponse(Last(raw[s]))
    /\ job' = [job EXCEPT ![j] = [st |-> "asked", s |-> s, path |-> "upgrade",
                                  from |-> Len(marks[s])]]
    /\ UNCHANGED <<chat, strategy>>

\* split_history_for_compaction: where the retained turns begin, 1 if all are.
RetainedFrom(es) ==
    LET gs == GroupStarts(es)
    IN  IF Retained >= Cardinality(gs)
        THEN 1
        ELSE Nth(gs, Cardinality(gs) - Retained + 1)

\* The recovery card stands for the older messages and closes over everything
\* stored; the retained messages keep their origins.
CardMark(s) ==
    LET es == Effective(s)
        cut == RetainedFrom(es)
        card == [kind |-> "card", covers |-> Covers(SubSeq(es, 1, cut - 1)),
                 origin |-> 0]
    IN  [kind |-> "card", last |-> Len(raw[s]), obs |-> Len(raw[s]),
         repl |-> <<card>> \o SubSeq(es, cut, Len(es)),
         seen |-> Latest(s).seen \cup Covers(es)]

\* The groups of `es` that may leave: all of them, but an unfinished last one.
Evictable(es) ==
    Cardinality(GroupStarts(es)) - IF IsResponse(Last(es)) THEN 0 ELSE 1

\* The positions the author of a map is shown: retrieval replies are left out.
Projected(es) == {i \in 1..Len(es) : es[i].kind # "reply"}

\* Mutant: the boundary of a map is the newest message its author saw.
MapMarkObserved(es, k, covered, known, before) ==
    LET end == GroupEnd(es, k)
        newest == Last(es).origin
    IN  [kind |-> "map", last |-> newest, obs |-> newest, seen |-> known \cup Covers(es),
         repl |-> <<[kind |-> "map", origin |-> 0,
                     covers |-> covered \cup Covers(SubSeq(es, 1, end))]>>]

\* The map that consumes the first k groups of `es` on top of `covered` and
\* was authored by one that had seen `known`, through index `before`.
MapMark(es, k, covered, known, before) ==
    LET end == GroupEnd(es, k)
        kept == {i \in Projected(es) : i > end}
        map == [kind |-> "map", origin |-> 0,
                covers |-> covered \cup Covers(SubSeq(es, 1, end))]
        newest == es[IF kept = {} THEN end ELSE Nth(kept, Cardinality(kept))].origin
    IN  [kind |-> "map", last |-> es[end].origin,
         obs |-> IF before > newest THEN before ELSE newest,
         repl |-> <<map>>,
         seen |-> known \cup UNION {es[i].covers : i \in Projected(es)}]

\* What a job may author from the history it finds under the lock.
Drafts(j) ==
    LET s == job[j].s
        es == Suffix(s, Latest(s).last)
        plans(h) == IF h # <<>> /\ ToolHistoryOk(h) THEN 1..Evictable(h) ELSE {}
    IN  CASE job[j].path = "card" ->
                IF RetainedFrom(Effective(s)) = 1 THEN {} ELSE {CardMark(s)}
          [] job[j].path = "map" ->
                IF Latest(s).kind = "card" THEN {}
                ELSE {MapMark(es, k, Covers(Latest(s).repl), Latest(s).seen,
                              Latest(s).obs) : k \in plans(es)}
          [] job[j].path = "upgrade" ->
                IF Latest(s).kind # "card" \/ Len(marks[s]) # job[j].from THEN {}
                ELSE {MapMark(raw[s], k, {}, {}, 0) : k \in plans(raw[s])}

\* A card asked for before a map was pinned is asked for again as a map.
StrategyChanged(j) ==
    /\ job[j].st = "asked" /\ job[j].path = "card" /\ ~Locked(job[j].s)
    /\ Latest(job[j].s).kind = "map"
    /\ job' = [job EXCEPT ![j].path = "map"]
    /\ UNCHANGED <<chat, strategy>>

Begin(j) ==
    /\ job[j].st = "asked" /\ state[job[j].s] = "live" /\ ~Locked(job[j].s)
    /\ job[j].path = "card" => Latest(job[j].s).kind # "map"
    /\ Len(marks[job[j].s]) < MaxMarks
    /\ \E m \in Drafts(j) :
          job' = [job EXCEPT ![j] =
                    [st |-> "authoring", s |-> job[j].s, path |-> job[j].path,
                     rev |-> rev[job[j].s], mark |-> m,
                     read |-> Effective(job[j].s)]]
    /\ UNCHANGED <<chat, strategy>>

\* Nothing to reduce, a refused or failed author, or a cancelled task.
GiveUp(j) ==
    /\ job[j].st # "idle"
    /\ job' = [job EXCEPT ![j] = Idle]
    /\ UNCHANGED <<chat, strategy>>

\* Mutant: the revision is not compared.
CanCommitAnyRevision(j) == state[job[j].s] = "live"

\* add_context_checkpoint: against the revision the snapshot was taken at.
CanCommit(j) == /\ state[job[j].s] = "live"
                /\ rev[job[j].s] = job[j].rev

Commit(j) ==
    /\ job[j].st = "authoring"
    /\ CanCommit(j)
    /\ marks' = [marks EXCEPT ![job[j].s] = Append(@, job[j].mark)]
    /\ rev' = [rev EXCEPT ![job[j].s] = @ + 1]
    /\ job' = [job EXCEPT ![j] = Idle]
    /\ UNCHANGED <<state, raw, failed, running, strategy>>

-----------------------------------------------------------------------------
Init ==
    /\ state = [s \in Sessions |-> IF s = First THEN "live" ELSE "new"]
    /\ raw = [s \in Sessions |-> <<>>]
    /\ marks = [s \in Sessions |-> <<>>]
    /\ rev = [s \in Sessions |-> 0]
    /\ failed = [s \in Sessions |-> 0]
    /\ running = [s \in Sessions |-> FALSE]
    /\ strategy = "card"
    /\ job = [j \in Jobs |-> Idle]

Next ==
    \/ \E s \in Sessions : \/ Accept(s) \/ Answer(s) \/ Resume(s) \/ Close(s)
                           \/ Fail(s) \/ Retry(s) \/ Delete(s)
    \/ \E s, d \in Sessions : Fork(s, d)
    \/ Configure
    \/ \E j \in Jobs : \/ \E s \in Sessions : AskCompact(j, s) \/ AskUpgrade(j, s)
                       \/ StrategyChanged(j) \/ Begin(j) \/ GiveUp(j) \/ Commit(j)

Spec == Init /\ [][Next]_vars

-----------------------------------------------------------------------------
(***************************************************************************)
(* Properties.                                                             *)
(***************************************************************************)

\* Every variable has its type.
TypeOK ==
    /\ state \in [Sessions -> {"new", "live", "gone"}]
    /\ \A s \in Sessions :
          /\ \A i \in 1..Len(raw[s]) : /\ raw[s][i].kind \in {"user", "text", "call", "reply"}
                                      /\ raw[s][i].origin = i
          /\ \A i \in 1..Len(marks[s]) : /\ marks[s][i].kind \in {"card", "map"}
                                        /\ marks[s][i].last \in 1..Len(raw[s])
                                        /\ marks[s][i].obs \in 1..Len(raw[s])
          /\ failed[s] \in 0..Len(raw[s])
    /\ rev \in [Sessions -> Nat]
    /\ running \in [Sessions -> BOOLEAN]
    /\ strategy \in {"card", "map"}
    /\ \A j \in Jobs : job[j].st \in {"idle", "asked", "authoring"}

\* However often a session was compacted, upgraded or forked, the history the
\* model is given stands for every canonical message exactly once, in order.
NothingLost ==
    TypeOK /\ \A s \in Sessions :
        LET es == Effective(s)
        IN  /\ Covers(es) = Covers(raw[s])
            /\ \A i, k \in 1..Len(es) : i < k =>
                  \A x \in es[i].covers, y \in es[k].covers : x[2] < y[2]

\* A reduction never separates a tool reply from its call: the effective
\* history has an unanswered call only where the canonical one has.
EffectiveSound ==
    \A s \in Sessions :
        ToolHistoryOk(Effective(s)) \/ (Paused(s) /\
            ToolHistoryOk(Front(Effective(s))))

\* No checkpoint of a session was authored from messages the session does not
\* hold, a fork's from later messages of its source: an inherited summary never
\* carries what was said after the fork point.
ForkIsolation ==
    \A s \in Sessions : \A i \in 1..Len(marks[s]) :
        marks[s][i].seen \subseteq Through(s, marks[s][i].obs)

\* A checkpoint is committed only over the very history its author was given,
\* although replies of a closed review are written without the lock.
AuthoredFromCurrent ==
    [][\A j \in Jobs : Commit(j) => job[j].read = Effective(job[j].s)]_vars

-----------------------------------------------------------------------------
(***************************************************************************)
(* What the repository says of this code and the code does not keep: TLC   *)
(* finds a counterexample (README, section 3.2).                           *)
(***************************************************************************)

\* Manual retry of the latest unfinished turn: nothing having happened in the
\* session since the turn failed, its accepted request is found.
RetryAvailable ==
    \A s \in Sessions : failed[s] # 0 /\ failed[s] = Len(raw[s]) /\ ~running[s]
                           => RetryTarget(s) # {}
=============================================================================
