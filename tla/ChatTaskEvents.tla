--------------------------- MODULE ChatTaskEvents ---------------------------
(***************************************************************************)
(* ChatTaskEventBuffer of core/chat/task_events.py: the bounded buffer a   *)
(* chat task publishes its events to, the projection it keeps for readers  *)
(* that reattach, and the subscriptions behind the event stream endpoint.  *)
(*                                                                         *)
(* One action is one section under the buffer's lock, with what follows it *)
(* up to the next suspension.  A reader is a browser: it keeps the number  *)
(* of the last event it saw over disconnections.                           *)
(***************************************************************************)
EXTENDS Naturals, Sequences, FiniteSets

CONSTANTS
    Tasks,              \* chat tasks
    Readers,            \* browsers that follow a task
    Tools,              \* tool call ids
    Kinds,              \* the kinds of event the tasks of this instance publish
    MaxEventsPerTask,   \* max_events_per_task
    MaxTerminalTasks,   \* max_terminal_tasks
    MaxProjectedTools,  \* max_projected_tools_per_task
    MaxSaid,            \* bound: events one task publishes
    MaxOpens            \* bound: how often one reader connects

ProjectedKinds == {"delta", "thinking_delta", "chat_retry_scheduled",
                   "tool_call_started", "tool_call_finished", "review_required"}
TerminalKinds == {"done", "cancelled", "error", "chat_retry_redirect"}

NoTool == "none"

ASSUME BufferAssumption ==
    /\ Kinds \subseteq ProjectedKinds \cup TerminalKinds
    /\ NoTool \notin Tools
    /\ MaxEventsPerTask \in Nat \ {0}
    /\ MaxTerminalTasks \in Nat \ {0}
    /\ MaxProjectedTools \in Nat \ {0}
    /\ MaxSaid \in Nat
    /\ MaxOpens \in Nat

\* An event without its sequence number.  Only tool events name a tool.
Said ==
    [kind : Kinds \ {"tool_call_started", "tool_call_finished"}, tool : {NoTool}]
    \cup [kind : Kinds \cap {"tool_call_started", "tool_call_finished"}, tool : Tools]
CancelledEvent == [kind |-> "cancelled", tool |-> NoTool]

IsTerminal(e) == e.kind \in TerminalKinds
\* reset_response: set in every retry notice and in the redirect.
Resets(e) == e.kind \in {"chat_retry_scheduled", "chat_retry_redirect"}

VARIABLES
    stream,  \* stream[t]: _streams[t]; present is FALSE when there is none
    order,   \* _terminal_order
    life,    \* life[t]: "running" until its last own event, "finishing" until the task is over, "over"
    rd,      \* rd[r]: a browser and its subscription
    opens,   \* opens[r]: how often r has connected
    said     \* said[t]: all events of each stream t has had, the current stream's last

vars == <<stream, order, life, rd, opens, said>>

-----------------------------------------------------------------------------
(***************************************************************************)
(* The replay projection.                                                  *)
(***************************************************************************)

\* The deltas themselves stand for the text they add; tools is a dictionary in
\* insertion order; 0 is None.
EmptyProjection ==
    [response |-> {}, reasoning |-> {}, tools |-> <<>>, review |-> 0, terminal |-> 0, latest |-> 0]

ToolIndex(tools, id) == {i \in DOMAIN tools : tools[i].id = id}

\* Mutant: the place of the new call is not made first.
RoomForNone(tools, id) == tools

\* A call that is not known yet takes the place of the oldest when the
\* dictionary is full.
RoomFor(tools, id) ==
    IF ToolIndex(tools, id) = {} /\ Len(tools) >= MaxProjectedTools THEN Tail(tools) ELSE tools

WithTool(tools, e, n) ==
    LET room == RoomFor(tools, e.tool)
        start == e.kind = "tool_call_started"
    IN  IF ToolIndex(room, e.tool) = {}
        THEN Append(room, [id |-> e.tool, started |-> IF start THEN n ELSE 0, latest |-> n])
        ELSE [i \in DOMAIN room |->
                 IF room[i].id # e.tool THEN room[i]
                 ELSE [id |-> e.tool, started |-> IF start THEN n ELSE room[i].started, latest |-> n]]

\* _reset_projected_response
ResetResponse(p) == [p EXCEPT !.response = {}, !.reasoning = {}]

\* _reduce_projection, for event n.  (Every name the code appends is a
\* projected one, so the projection stays available.)
Reduce(p, e, n) ==
    LET q == [p EXCEPT !.latest = n]
    IN  CASE e.kind = "delta" -> [q EXCEPT !.response = @ \cup {n}]
          [] e.kind = "thinking_delta" -> [q EXCEPT !.reasoning = @ \cup {n}]
          [] e.kind = "chat_retry_scheduled" -> ResetResponse(q)
          [] e.kind \in {"tool_call_started", "tool_call_finished"} ->
                [q EXCEPT !.tools = WithTool(@, e, n)]
          [] e.kind = "review_required" -> [q EXCEPT !.review = n]
          [] IsTerminal(e) -> [(IF Resets(e) THEN ResetResponse(q) ELSE q) EXCEPT !.terminal = n]

-----------------------------------------------------------------------------
(***************************************************************************)
(* The buffer.                                                             *)
(***************************************************************************)

NoStream == [present |-> FALSE, events |-> <<>>, next |-> 1, terminal |-> 0, proj |-> EmptyProjection]
NewStream == [NoStream EXCEPT !.present = TRUE]

\* _trim_stream_events
Trimmed(events) ==
    IF Len(events) > MaxEventsPerTask
    THEN SubSeq(events, Len(events) - MaxEventsPerTask + 1, Len(events)) ELSE events

\* The stream after append: sequence number, projection, trimming, end.
Appended(s, e) ==
    [s EXCEPT !.present = TRUE,
              !.next = @ + 1,
              !.events = Trimmed(Append(@, [seq |-> s.next, said |-> e])),
              !.proj = Reduce(@, e, s.next),
              !.terminal = IF IsTerminal(e) THEN s.next ELSE @]

\* _remember_terminal: t, which is in the order at most once, moves to its end;
\* the head leaves it when it is too long (one task enters at a time, so one
\* leaves), and takes its stream along if that is terminal.
Remembered(o, t) ==
    LET at == {i \in DOMAIN o : o[i] = t}
        i == CHOOSE i \in at : TRUE
    IN  Append(IF at = {} THEN o ELSE SubSeq(o, 1, i - 1) \o SubSeq(o, i + 1, Len(o)), t)
Stale(o) == IF Len(o) > MaxTerminalTasks THEN {o[1]} ELSE {}

Evicted(str, gone) ==
    [t \in Tasks |-> IF t \in gone /\ str[t].terminal # 0 THEN NoStream ELSE str[t]]

\* Everything that was said in t's current stream.
Current(t) == said[t][Len(said[t])]

\* append: a terminal stream refuses (the guard), a missing one is created.
AppendTo(t, e) ==
    LET str == [stream EXCEPT ![t] = Appended(@, e)]
        ord == Remembered(order, t)
    IN  /\ stream[t].terminal = 0
        /\ IF IsTerminal(e)
           THEN /\ stream' = Evicted(str, Stale(ord))
                /\ order' = IF Stale(ord) = {} THEN ord ELSE Tail(ord)
           ELSE /\ stream' = str
                /\ order' = order
        /\ said' = [said EXCEPT ![t] =
                       IF stream[t].present
                       THEN [said[t] EXCEPT ![Len(said[t])] = Append(Current(t), e)]
                       ELSE Append(said[t], <<e>>)]

\* A task publishes; its own last event is a terminal one.
Publish(t, e) ==
    /\ life[t] = "running"
    /\ stream[t].next <= MaxSaid
    /\ AppendTo(t, e)
    /\ life' = [life EXCEPT ![t] = IF IsTerminal(e) THEN "finishing" ELSE @]
    /\ UNCHANGED <<rd, opens>>

\* _append_cancelled_if_open, the on_cancelled hook: whether the task was
\* queued, running or in its post-turn compaction.  Between is_terminal and
\* append nobody else publishes for t.
CancelHook(t) ==
    /\ life[t] # "over"
    /\ life' = [life EXCEPT ![t] = "over"]
    /\ IF stream[t].terminal # 0 THEN UNCHANGED <<stream, order, said>> ELSE AppendTo(t, CancelledEvent)
    /\ UNCHANGED <<rd, opens>>

\* The task ends by itself.
TaskOver(t) ==
    /\ life[t] = "finishing"
    /\ life' = [life EXCEPT ![t] = "over"]
    /\ UNCHANGED <<stream, order, rd, opens, said>>

-----------------------------------------------------------------------------
(***************************************************************************)
(* Readers.                                                                *)
(***************************************************************************)

Oldest(s) == s.events[1].seq

\* Mutant: the cursor just before the oldest event is refused too late.
CursorAvailableLoose(s, after) == s.events # <<>> => after + 2 >= Oldest(s)

\* _raise_if_cursor_expired
CursorAvailable(s, after) == s.events # <<>> => after + 1 >= Oldest(s)

Following(r) == rd[r].ph \in {"opened", "yielding", "parked"}

\* chat_task_events: a finished task whose stream is gone, or a cursor that is
\* too old, is a 410; otherwise the response is made and its generator starts
\* later.
OpenStream(r, t, after) ==
    /\ ~Following(r)
    /\ opens[r] < MaxOpens
    /\ life[t] = "over" => stream[t].present
    /\ stream[t].present => CursorAvailable(stream[t], after)
    /\ rd' = [rd EXCEPT ![r] = [ph |-> "opened", task |-> t, cursor |-> after, inc |-> 0, from |-> 0, seen |-> 0, batch |-> {}]]
    /\ opens' = [opens EXCEPT ![r] = @ + 1]
    /\ UNCHANGED <<stream, order, life, said>>

\* A browser resumes after what it saw, starts over, or hydrates the replay
\* snapshot and resumes after its cursor.
Resume(r) == OpenStream(r, rd[r].task, rd[r].cursor)
StartOver(r, t) == OpenStream(r, t, 0)
Hydrate(r, t) == OpenStream(r, t, IF stream[t].present THEN stream[t].proj.latest ELSE 0)

\* Mutant: the changed event is taken after the lock is released.
ChangedLate(r) == Len(said[rd[r].task][rd[r].inc]) > rd[r].seen + 1

\* The changed event r waits for has been set: its stream grew since.
Changed(r) == Len(said[rd[r].task][rd[r].inc]) > rd[r].seen

\* _subscription_state, with what subscribe does with the answer: a missing
\* stream is created, an expired cursor raises, the events after the cursor
\* are handed out, the end is seen, or the reader waits.
Fetch(r) ==
    LET t == rd[r].task
        s == IF stream[t].present THEN stream[t] ELSE NewStream
        n == s.next - 1
        after == {s.events[i].seq : i \in {j \in DOMAIN s.events : s.events[j].seq > rd[r].cursor}}
        runs == IF stream[t].present THEN said[t] ELSE Append(said[t], <<>>)
        ph == IF ~CursorAvailable(s, rd[r].cursor) THEN "expired"
              ELSE IF after # {} THEN "yielding"
              ELSE IF s.terminal # 0 /\ s.terminal <= rd[r].cursor THEN "ended"
              ELSE "parked"
    IN  /\ rd[r].ph = "opened"
        /\ rd' = [rd EXCEPT ![r] = [@ EXCEPT !.ph = ph, !.inc = Len(runs), !.seen = n,
                                               !.batch = IF ph = "yielding" THEN after ELSE {}]]
        /\ stream' = [stream EXCEPT ![t] = s]
        /\ said' = [said EXCEPT ![t] = runs]
        /\ UNCHANGED <<order, life, opens>>

\* One event of the answer is sent: it was copied out of the buffer by Fetch, in
\* the order of the sequence numbers.
Yield(r) ==
    LET n == CHOOSE n \in rd[r].batch : \A m \in rd[r].batch : n <= m
        e == said[rd[r].task][rd[r].inc][n]
        ph == IF IsTerminal(e) THEN "ended" ELSE IF rd[r].batch = {n} THEN "parked" ELSE "yielding"
    IN  /\ rd[r].ph = "yielding"
        /\ rd' = [rd EXCEPT ![r] = [@ EXCEPT !.cursor = n, !.ph = ph, !.from = rd[r].inc,
                                               !.batch = rd[r].batch \ {n}]]
        /\ UNCHANGED <<stream, order, life, opens, said>>

\* await changed.wait() returns.
Wake(r) ==
    /\ rd[r].ph = "parked"
    /\ Changed(r)
    /\ rd' = [rd EXCEPT ![r].ph = "opened"]
    /\ UNCHANGED <<stream, order, life, opens, said>>

\* The browser goes away; stream_chat_task_sse cancels what is pending.
Disconnect(r) ==
    /\ Following(r)
    /\ rd' = [rd EXCEPT ![r].ph = "away", ![r].batch = {}]
    /\ UNCHANGED <<stream, order, life, opens, said>>

-----------------------------------------------------------------------------
Init ==
    /\ stream = [t \in Tasks |-> NoStream]
    /\ order = <<>>
    /\ life = [t \in Tasks |-> "running"]
    /\ \E t \in Tasks :
          rd = [r \in Readers |-> [ph |-> "away", task |-> t, cursor |-> 0, inc |-> 0, from |-> 0, seen |-> 0, batch |-> {}]]
    /\ opens = [r \in Readers |-> 0]
    /\ said = [t \in Tasks |-> <<>>]

TaskStep(t) == (\E e \in Said : Publish(t, e)) \/ CancelHook(t) \/ TaskOver(t)
ReaderStep(r) == Fetch(r) \/ Yield(r) \/ Wake(r)
BrowserStep(r) ==
    \/ Resume(r)
    \/ \E t \in Tasks : StartOver(r, t) \/ Hydrate(r, t)
    \/ Disconnect(r)

Next ==
    \/ \E t \in Tasks : TaskStep(t)
    \/ \E r \in Readers : ReaderStep(r) \/ BrowserStep(r)

\* The event loop runs a subscription that can go on.
Fairness == \A r \in Readers : WF_vars(ReaderStep(r))

Spec == Init /\ [][Next]_vars /\ Fairness

-----------------------------------------------------------------------------
(***************************************************************************)
(* Properties.                                                             *)
(***************************************************************************)

\* Every variable has its type.
TypeOK ==
    /\ \A t \in Tasks :
          /\ stream[t].present \in BOOLEAN
          /\ \A i \in DOMAIN stream[t].events :
                stream[t].events[i].seq \in Nat \ {0} /\ stream[t].events[i].said \in Said \cup {CancelledEvent}
          /\ stream[t].next \in Nat \ {0}
          /\ stream[t].terminal \in Nat
    /\ \A i \in DOMAIN order : order[i] \in Tasks
    /\ life \in [Tasks -> {"running", "finishing", "over"}]
    /\ \A r \in Readers :
          /\ rd[r].ph \in {"away", "opened", "yielding", "parked", "ended", "expired"}
          /\ rd[r].task \in Tasks
          /\ {rd[r].cursor, rd[r].inc, rd[r].from, rd[r].seen} \subseteq Nat

\* What was said in t's current stream, by kind.
Kept(t, kinds) == {n \in DOMAIN Current(t) : Current(t)[n].kind \in kinds}
LastOf(S) == IF S = {} THEN 0 ELSE CHOOSE n \in S : \A m \in S : m <= n

\* The snapshot a reattaching browser is given is what it would show if it
\* had been there all along: the text since the last restart of the answer,
\* the newest state of each tool call that is still projected, the review, the
\* end, all of it up to the cursor handed out with it; and the projected calls
\* are the most recent ones, within the limit.
ReplayFaithful ==
    TypeOK /\ \A t \in Tasks : stream[t].present =>
        LET p == stream[t].proj
            log == Current(t)
            reset == LastOf({n \in DOMAIN log : Resets(log[n])})
            ids == {p.tools[i].id : i \in DOMAIN p.tools}
            OfTool(id) == {n \in DOMAIN log : log[n].tool = id}
        IN  /\ p.latest = Len(log)
            /\ p.response = {n \in Kept(t, {"delta"}) : n > reset}
            /\ p.reasoning = {n \in Kept(t, {"thinking_delta"}) : n > reset}
            /\ p.review = LastOf(Kept(t, {"review_required"}))
            /\ p.terminal = LastOf(Kept(t, TerminalKinds))
            /\ Len(p.tools) = Cardinality(ids)
            /\ Len(p.tools) <= MaxProjectedTools
            /\ \A i \in DOMAIN p.tools : p.tools[i].latest = LastOf(OfTool(p.tools[i].id))
            /\ LastOf(Kept(t, {"tool_call_started", "tool_call_finished"})) > 0 =>
                  log[LastOf(Kept(t, {"tool_call_started", "tool_call_finished"}))].tool \in ids

\* A reader sees a growing log, without gaps and without repetitions, in spite
\* of trimming, eviction, slow readers and reconnections.
LogView(r) == IF Following(r) THEN "reading" ELSE rd[r].ph
Log == INSTANCE EventLog WITH
          Events <- Said \cup {CancelledEvent},
          Closing <- {e \in Said \cup {CancelledEvent} : IsTerminal(e)},
          logs <- said,
          mode <- [r \in Readers |-> LogView(r)],
          of <- [r \in Readers |-> rd[r].task],
          inc <- [r \in Readers |-> rd[r].from],
          pos <- [r \in Readers |-> rd[r].cursor]
SeesTheLog == Log!LogSpec

\* A reader of a stream that has ended comes to the end, is told that it is
\* too late, or goes away, unless the stream is evicted under it.
ReadersFinish ==
    \A r \in Readers, t \in Tasks :
        (Following(r) /\ rd[r].task = t /\ stream[t].terminal # 0)
            ~> (~Following(r) \/ rd[r].task # t \/ stream[t].terminal = 0)
=============================================================================
