----------------------------- MODULE EventsProofs -----------------------------
(***************************************************************************)
(* Proofs about ChatTaskEvents: the bounded buffer, its readers and its    *)
(* evictions implement the unbounded log of EventLog, and the projection   *)
(* kept for readers that reattach is what that log says.                   *)
(*                                                                         *)
(* The step simulation needs three things that no single section under the *)
(* buffer's lock shows: the retained events are the last of what was said  *)
(* (Retained), a stream that is gone had ended (Ordered), and what a       *)
(* reader has yet to hand out is the next stretch of the log it fetched    *)
(* from, which is the log it was given events of before (Reading).         *)
(***************************************************************************)
EXTENDS ChatTaskEvents, Integers, FiniteSetTheorems, SequenceTheorems, TLAPS

Events == Said \cup {CancelledEvent}
Entries == [seq : Nat, said : Events]
ToolStates == [id : Tools, started : Nat, latest : Nat]
Projections ==
    [response : SUBSET Nat, reasoning : SUBSET Nat, tools : Seq(ToolStates),
     review : Nat, terminal : Nat, latest : Nat]
Streams ==
    [present : BOOLEAN, events : Seq(Entries), next : Nat \ {0}, terminal : Nat,
     proj : Projections]
Phases == {"away", "opened", "yielding", "parked", "ended", "expired"}
Subscriptions ==
    [ph : Phases, task : Tasks, cursor : Nat, inc : Nat, from : Nat, seen : Nat,
     batch : SUBSET Nat]
Lives == {"running", "finishing", "over"}

Typed ==
    /\ stream \in [Tasks -> Streams]
    /\ life \in [Tasks -> Lives]
    /\ rd \in [Readers -> Subscriptions]
    /\ said \in [Tasks -> Seq(Seq(Events))]

HasEnded(log) == log # <<>> /\ IsTerminal(log[Len(log)])

\* The buffer of a stream s against everything that was said in it.
Retained(s, log) ==
    /\ s.next = Len(log) + 1
    /\ s.proj.latest = Len(log)
    /\ s.terminal # 0 <=> HasEnded(log)
    /\ s.terminal # 0 => s.terminal = Len(log)
    /\ Len(s.events) <= Len(log)
    /\ \A i \in DOMAIN s.events : s.events[i].seq = Len(log) - Len(s.events) + i
    /\ log # <<>> => s.events # <<>>

\* A stream s against the logs its task has had and the task's life: one log
\* while it runs; each later one only for a cancellation that came after the
\* task's own last event, or for a reader.
Last(logs) == logs[Len(logs)]
Ordered(s, logs, l) ==
    /\ s.present => logs # <<>> /\ Retained(s, Last(logs))
    /\ ~s.present => s = NoStream
    /\ \A k \in DOMAIN logs : k < Len(logs) \/ ~s.present => HasEnded(logs[k])
    /\ l = "running" => /\ s.terminal = 0
                        /\ Len(logs) <= 1
                        /\ ~s.present => logs = <<>>
    /\ l # "running" /\ s.present /\ s.terminal = 0 => Last(logs) = <<>>
    /\ \A k \in DOMAIN logs : k > 1 => Len(logs[k]) <= 1

\* What a task has said is never taken back.
Grown(old, new) ==
    /\ Len(old) <= Len(new)
    /\ \A k \in DOMAIN old : Len(old[k]) <= Len(new[k])

\* A subscription against the logs of its task.
Reading(x, logs) ==
    /\ x.from # 0 => x.from <= Len(logs) /\ x.cursor > 0
    /\ x.ph = "yielding" => /\ x.inc \in DOMAIN logs
                            /\ x.from \in {0, x.inc}
                            /\ x.cursor < x.seen
                            /\ x.seen <= Len(logs[x.inc])
                            /\ x.batch = (x.cursor + 1)..x.seen

InOrder == \A t \in Tasks : Ordered(stream[t], said[t], life[t])
InReading == \A r \in Readers : Reading(rd[r], said[rd[r].task])
IInv == Typed /\ InOrder /\ InReading

-----------------------------------------------------------------------------
(***************************************************************************)
(* The operators of the buffer.                                            *)
(***************************************************************************)

\* Every event has a kind the buffer knows, and a tool event names a tool.
LEMMA EventKinds ==
    ASSUME NEW e \in Events
    PROVE  /\ e.kind \in ProjectedKinds \cup TerminalKinds
           /\ e.kind \in {"tool_call_started", "tool_call_finished"} => e.tool \in Tools
<1>1. CASE e \in [kind : Kinds \ {"tool_call_started", "tool_call_finished"}, tool : {NoTool}]
  BY <1>1, BufferAssumption
<1>2. CASE e \in [kind : Kinds \cap {"tool_call_started", "tool_call_finished"}, tool : Tools]
  BY <1>2, BufferAssumption
<1>3. CASE e = CancelledEvent
  BY <1>3 DEF CancelledEvent, TerminalKinds
<1>4. QED
  BY <1>1, <1>2, <1>3 DEF Events, Said

\* _trim_stream_events keeps a last stretch, and something of something.
LEMMA TrimmedKeepsLast ==
    ASSUME NEW ev \in Seq(Entries)
    PROVE  /\ Trimmed(ev) \in Seq(Entries)
           /\ Len(Trimmed(ev)) <= Len(ev)
           /\ ev # <<>> => Trimmed(ev) # <<>>
           /\ \A i \in DOMAIN Trimmed(ev) : Trimmed(ev)[i] = ev[Len(ev) - Len(Trimmed(ev)) + i]
<1>1. CASE Len(ev) > MaxEventsPerTask
  <2> DEFINE m == Len(ev) - MaxEventsPerTask + 1
  <2>1. m \in 1..Len(ev) /\ Len(ev) \in 1..Len(ev)
    BY <1>1, BufferAssumption
  <2>2. Trimmed(ev) = SubSeq(ev, m, Len(ev))
    BY <1>1 DEF Trimmed
  <2>3. /\ SubSeq(ev, m, Len(ev)) \in Seq(Entries)
        /\ Len(SubSeq(ev, m, Len(ev))) = MaxEventsPerTask
        /\ \A i \in 1..MaxEventsPerTask : SubSeq(ev, m, Len(ev))[i] = ev[m + i - 1]
    BY <1>1, <2>1, BufferAssumption
  <2>4. DOMAIN Trimmed(ev) = 1..MaxEventsPerTask /\ Trimmed(ev) # <<>>
    <3>1. DOMAIN SubSeq(ev, m, Len(ev)) = 1..MaxEventsPerTask
      BY <2>3, LenProperties
    <3>2. Len(Trimmed(ev)) > 0
      BY <2>2, <2>3, BufferAssumption
    <3>3. Trimmed(ev) # <<>>
      BY <3>2
    <3>4. QED
      BY <2>2, <3>1, <3>3
  <2>5. \A i \in 1..MaxEventsPerTask : Len(ev) - MaxEventsPerTask + i = m + i - 1
    BY BufferAssumption
  <2>6. QED
    BY <1>1, <2>2, <2>3, <2>4, <2>5
<1>2. CASE ~(Len(ev) > MaxEventsPerTask)
  BY <1>2 DEF Trimmed
<1>3. QED
  BY <1>1, <1>2

\* The dictionary of tool calls stays one.
LEMMA WithToolTyped ==
    ASSUME NEW tools \in Seq(ToolStates), NEW n \in Nat, NEW e, e.tool \in Tools
    PROVE  WithTool(tools, e, n) \in Seq(ToolStates)
<1> DEFINE room == RoomFor(tools, e.tool)
           start == e.kind = "tool_call_started"
           fresh == [id |-> e.tool, started |-> IF start THEN n ELSE 0, latest |-> n]
           upd == [i \in DOMAIN room |->
                     IF room[i].id # e.tool THEN room[i]
                     ELSE [id |-> e.tool, started |-> IF start THEN n ELSE room[i].started,
                           latest |-> n]]
<1>1. room \in Seq(ToolStates)
  BY BufferAssumption DEF RoomFor
<1>2. fresh \in ToolStates
  BY DEF ToolStates
<1>3. upd \in Seq(ToolStates)
  <2>1. \A i \in DOMAIN room : upd[i] \in ToolStates
    <3> SUFFICES ASSUME NEW i \in DOMAIN room PROVE upd[i] \in ToolStates
      OBVIOUS
    <3>1. room[i] \in ToolStates
      BY <1>1, ElementOfSeq, LenProperties
    <3>2. room[i].started \in Nat
      BY <3>1 DEF ToolStates
    <3>3. (IF start THEN n ELSE room[i].started) \in Nat
      BY <3>2
    <3>4. QED
      BY <3>1, <3>3 DEF ToolStates
  <2>2. DOMAIN upd = 1..Len(room) /\ Len(room) \in Nat
    BY <1>1
  <2> HIDE DEF upd
  <2>3. upd \in [1..Len(room) -> ToolStates]
    BY <2>1, <2>2 DEF upd
  <2>4. QED
    BY <2>2, <2>3
<1>4. WithTool(tools, e, n) = IF ToolIndex(room, e.tool) = {} THEN Append(room, fresh) ELSE upd
  BY DEF WithTool
<1>5. Append(room, fresh) \in Seq(ToolStates)
  BY <1>1, <1>2, AppendProperties
<1>6. QED
  BY <1>3, <1>4, <1>5

\* The projection stays one, and its cursor is the event it has just taken in.
LEMMA ReduceTyped ==
    ASSUME NEW p \in Projections, NEW e \in Events, NEW n \in Nat
    PROVE  Reduce(p, e, n) \in Projections /\ Reduce(p, e, n).latest = n
<1> DEFINE q == [p EXCEPT !.latest = n]
<1>1. q \in Projections /\ q.latest = n
  BY DEF Projections
<1>2. ResetResponse(q) \in Projections /\ ResetResponse(q).latest = n
  BY <1>1 DEF ResetResponse, Projections
<1>3. CASE e.kind = "delta"
  <2>1. Reduce(p, e, n) = [q EXCEPT !.response = @ \cup {n}]
    BY <1>3 DEF Reduce, IsTerminal, TerminalKinds
  <2>2. q.response \cup {n} \in SUBSET Nat
    BY <1>1 DEF Projections
  <2>3. QED
    BY <1>1, <2>1, <2>2 DEF Projections
<1>4. CASE e.kind = "thinking_delta"
  <2>1. Reduce(p, e, n) = [q EXCEPT !.reasoning = @ \cup {n}]
    BY <1>4 DEF Reduce, IsTerminal, TerminalKinds
  <2>2. q.reasoning \cup {n} \in SUBSET Nat
    BY <1>1 DEF Projections
  <2>3. QED
    BY <1>1, <2>1, <2>2 DEF Projections
<1>5. CASE e.kind = "chat_retry_scheduled"
  <2>1. Reduce(p, e, n) = ResetResponse(q)
    BY <1>5 DEF Reduce, IsTerminal, TerminalKinds
  <2>2. QED
    BY <1>2, <2>1
<1>6. CASE e.kind \in {"tool_call_started", "tool_call_finished"}
  <2>1. Reduce(p, e, n) = [q EXCEPT !.tools = WithTool(@, e, n)]
    BY <1>6 DEF Reduce, IsTerminal, TerminalKinds
  <2>2. WithTool(q.tools, e, n) \in Seq(ToolStates)
    BY <1>1, <1>6, WithToolTyped, EventKinds DEF Projections
  <2>3. QED
    BY <1>1, <2>1, <2>2 DEF Projections
<1>7. CASE e.kind = "review_required"
  <2>1. Reduce(p, e, n) = [q EXCEPT !.review = n]
    BY <1>7 DEF Reduce, IsTerminal, TerminalKinds
  <2>2. QED
    BY <1>1, <2>1 DEF Projections
<1>8. CASE IsTerminal(e)
  <2>1. Reduce(p, e, n) = [(IF Resets(e) THEN ResetResponse(q) ELSE q) EXCEPT !.terminal = n]
    BY <1>8 DEF Reduce, IsTerminal, TerminalKinds
  <2>2. QED
    BY <1>1, <1>2, <2>1 DEF Projections
<1>9. QED
  BY <1>3, <1>4, <1>5, <1>6, <1>7, <1>8, EventKinds DEF ProjectedKinds, IsTerminal

\* append to an open stream: the buffer still holds the last of what was said.
LEMMA AppendedRetains ==
    ASSUME NEW s \in Streams, NEW log \in Seq(Events), Retained(s, log), s.terminal = 0,
           NEW e \in Events
    PROVE  /\ Appended(s, e) \in Streams
           /\ Appended(s, e).present
           /\ Retained(Appended(s, e), Append(log, e))
           /\ Appended(s, e).terminal # 0 <=> IsTerminal(e)
<1> DEFINE entry == [seq |-> s.next, said |-> e]
           ev == Append(s.events, entry)
           a == Appended(s, e)
           lg == Append(log, e)
<1>1. /\ s.events \in Seq(Entries) /\ s.next \in Nat /\ s.next = Len(log) + 1
      /\ s.proj \in Projections /\ Len(s.events) <= Len(log) /\ s.terminal = 0
  BY DEF Streams, Retained
<1>2. entry \in Entries /\ entry.seq = Len(log) + 1
  BY <1>1 DEF Entries
<1>3. /\ ev \in Seq(Entries) /\ Len(ev) = Len(s.events) + 1 /\ ev # <<>>
      /\ \A i \in DOMAIN ev : ev[i].seq = Len(log) + 1 - Len(ev) + i
  <2>1. /\ ev \in Seq(Entries) /\ Len(ev) = Len(s.events) + 1 /\ ev[Len(s.events) + 1] = entry
        /\ \A i \in 1..Len(s.events) : ev[i] = s.events[i]
    BY <1>1, <1>2, AppendProperties
  <2>2. \A i \in 1..Len(s.events) : s.events[i].seq = Len(log) - Len(s.events) + i
    BY <1>1 DEF Retained
  <2> HIDE DEF ev, entry
  <2>3. DOMAIN ev = 1..(Len(s.events) + 1) /\ ev # <<>> /\ Len(s.events) \in Nat /\ Len(log) \in Nat
    BY <1>1, <2>1
  <2>4. ASSUME NEW i \in DOMAIN ev PROVE ev[i].seq = Len(log) + 1 - Len(ev) + i
    <3>1. CASE i \in 1..Len(s.events)
      <4>1. ev[i].seq = Len(log) - Len(s.events) + i
        BY <2>1, <2>2, <3>1
      <4>2. Len(ev) = Len(s.events) + 1 /\ i \in Nat
        BY <2>1, <3>1
      <4>3. QED
        BY <2>3, <4>1, <4>2
    <3>2. CASE i = Len(s.events) + 1
      BY <1>2, <2>1, <2>3, <3>2
    <3>3. QED
      BY <2>3, <3>1, <3>2
  <2>5. QED
    BY <2>1, <2>3, <2>4
<1>4. /\ a.present = TRUE /\ a.next = s.next + 1 /\ a.events = Trimmed(ev)
      /\ a.proj = Reduce(s.proj, e, s.next)
      /\ a.terminal = IF IsTerminal(e) THEN s.next ELSE s.terminal
  BY DEF Appended, Streams
<1>5. a.proj \in Projections /\ a.proj.latest = s.next
  BY <1>1, <1>4, ReduceTyped
<1>6. a = [s EXCEPT !.present = a.present, !.next = a.next, !.events = a.events,
                    !.proj = a.proj, !.terminal = a.terminal]
  BY <1>4 DEF Appended, Streams
<1>7. lg \in Seq(Events) /\ Len(lg) = Len(log) + 1 /\ lg[Len(lg)] = e /\ lg # <<>>
  OBVIOUS
<1> HIDE DEF ev, entry, a, lg
<1>8. /\ a.events \in Seq(Entries) /\ Len(a.events) <= Len(ev) /\ a.events # <<>>
      /\ \A i \in DOMAIN a.events : a.events[i] = ev[Len(ev) - Len(a.events) + i]
  BY <1>3, <1>4, TrimmedKeepsLast
<1>9. a \in Streams
  <2>1. a.present \in BOOLEAN
    BY <1>4, Zenon
  <2>2. a.next \in Nat \ {0} /\ a.terminal \in Nat
    BY <1>1, <1>4
  <2>3. QED
    BY <1>5, <1>6, <1>8, <2>1, <2>2 DEF Streams
<1>10. \A i \in DOMAIN a.events : a.events[i].seq = Len(lg) - Len(a.events) + i
  <2> SUFFICES ASSUME NEW i \in DOMAIN a.events
               PROVE  a.events[i].seq = Len(lg) - Len(a.events) + i
    OBVIOUS
  <2>1. i \in 1..Len(a.events) /\ Len(a.events) \in Nat /\ Len(ev) \in Nat /\ DOMAIN ev = 1..Len(ev)
    BY <1>3, <1>8
  <2> DEFINE j == Len(ev) - Len(a.events) + i
  <2>2. j \in DOMAIN ev
    BY <1>8, <2>1
  <2>3. a.events[i] = ev[j] /\ ev[j].seq = Len(log) + 1 - Len(ev) + j
    BY <1>3, <1>8, <2>2
  <2>4. Len(log) \in Nat
    OBVIOUS
  <2>5. Len(log) + 1 - Len(ev) + j = (Len(log) + 1) - Len(a.events) + i
    <3>1. \A n \in Nat, m \in Nat : \A x \in 1..n :
              Len(log) + 1 - m + (m - n + x) = (Len(log) + 1) - n + x
      BY <2>4, SMT
    <3>2. \A m \in Nat : \A x \in 1..Len(a.events) :
              Len(log) + 1 - m + (m - Len(a.events) + x) = (Len(log) + 1) - Len(a.events) + x
      BY <2>1, <3>1
    <3>3. \A x \in 1..Len(a.events) :
              Len(log) + 1 - Len(ev) + (Len(ev) - Len(a.events) + x) = (Len(log) + 1) - Len(a.events) + x
      BY <2>1, <3>2
    <3>4. QED
      BY <2>1, <3>3
  <2>6. QED
    BY <1>7, <2>3, <2>5
<1>11. Retained(a, lg)
  BY <1>1, <1>3, <1>4, <1>5, <1>7, <1>8, <1>10 DEF Retained, HasEnded
<1>12. QED
  BY <1>1, <1>4, <1>9, <1>11 DEF a, lg

\* A stream that is not there, and one that has just been made, hold nothing.
LEMMA NothingRetained ==
    /\ NoStream \in Streams /\ NewStream \in Streams
    /\ Retained(NoStream, <<>>) /\ Retained(NewStream, <<>>)
    /\ ~NoStream.present /\ NewStream.present
    /\ NoStream.terminal = 0 /\ NewStream.terminal = 0
<1>1. EmptyProjection \in Projections /\ EmptyProjection.latest = 0
  BY DEF EmptyProjection, Projections
<1>2. NoStream \in Streams
  BY <1>1 DEF NoStream, Streams
<1>3. NewStream \in Streams
  BY <1>2 DEF NewStream, Streams
<1>4. QED
  BY <1>1, <1>2, <1>3 DEF NoStream, NewStream, Retained, HasEnded

-----------------------------------------------------------------------------
(***************************************************************************)
(* One stream and its task.                                                *)
(***************************************************************************)

\* The logs after an event is added to the last one.
LEMMA LastGrows ==
    ASSUME NEW logs \in Seq(Seq(Events)), logs # <<>>, NEW e \in Events, NEW new,
           new = [logs EXCEPT ![Len(logs)] = Append(@, e)]
    PROVE  /\ new \in Seq(Seq(Events)) /\ Len(new) = Len(logs)
           /\ Last(new) = Append(Last(logs), e)
           /\ \A k \in DOMAIN logs : k # Len(logs) => new[k] = logs[k]
           /\ Grown(logs, new)
<1> DEFINE x == Append(Last(logs), e)
<1>1. Len(logs) \in DOMAIN logs /\ Last(logs) \in Seq(Events)
  BY DEF Last
<1>2. x \in Seq(Events) /\ Len(x) = Len(Last(logs)) + 1 /\ Len(Last(logs)) \in Nat
  BY <1>1
<1>3. new = [logs EXCEPT ![Len(logs)] = x]
  BY DEF Last
<1> HIDE DEF x
<1>4. new \in Seq(Seq(Events)) /\ Len(new) = Len(logs)
  BY <1>1, <1>2, <1>3, ExceptSeq
<1>5. new[Len(logs)] = x /\ \A k \in DOMAIN logs : k # Len(logs) => new[k] = logs[k]
  BY <1>1, <1>3
<1>6. ASSUME NEW k \in DOMAIN logs PROVE Len(logs[k]) <= Len(new[k])
  <2>1. CASE k = Len(logs)
    BY <1>2, <1>5, <2>1 DEF Last
  <2>2. CASE k # Len(logs)
    <3>1. logs[k] \in Seq(Events)
      BY ElementOfSeq, LenProperties
    <3>2. Len(logs[k]) \in Nat
      BY <3>1
    <3>3. QED
      BY <1>5, <2>2, <3>2
  <2>3. QED
    BY <2>1, <2>2
<1>7. Len(logs) <= Len(new)
  BY <1>4
<1>8. QED
  BY <1>4, <1>5, <1>6, <1>7 DEF Grown, Last, x

\* The logs after another one is begun.
LEMMA AnotherLog ==
    ASSUME NEW logs \in Seq(Seq(Events)), NEW x \in Seq(Events), NEW new, new = Append(logs, x)
    PROVE  /\ new \in Seq(Seq(Events)) /\ Len(new) = Len(logs) + 1
           /\ Last(new) = x
           /\ \A k \in DOMAIN logs : new[k] = logs[k]
           /\ Grown(logs, new)
<1>1. /\ new \in Seq(Seq(Events)) /\ Len(new) = Len(logs) + 1 /\ new[Len(logs) + 1] = x
      /\ \A k \in 1..Len(logs) : new[k] = logs[k]
  BY AppendProperties
<1>2. Len(logs) \in Nat /\ DOMAIN logs = 1..Len(logs)
  OBVIOUS
<1>3. ASSUME NEW k \in DOMAIN logs PROVE Len(logs[k]) <= Len(new[k])
  <2>1. logs[k] \in Seq(Events)
    BY ElementOfSeq, LenProperties
  <2>2. Len(logs[k]) \in Nat
    BY <2>1
  <2>3. QED
    BY <1>1, <1>2, <2>2
<1>4. Len(logs) <= Len(new)
  BY <1>1, <1>2
<1>5. QED
  BY <1>1, <1>2, <1>3, <1>4 DEF Grown, Last

\* append to an open stream: an event while the task runs, or the last one.
LEMMA AppendToOpen ==
    ASSUME NEW s \in Streams, NEW logs \in Seq(Seq(Events)), NEW l, NEW l2,
           Ordered(s, logs, l), s.terminal = 0, s.present, NEW e \in Events,
           (l = "running" /\ ~IsTerminal(e) /\ l2 = l) \/ (IsTerminal(e) /\ l2 # "running"),
           NEW new, new = [logs EXCEPT ![Len(logs)] = Append(@, e)]
    PROVE  /\ Appended(s, e) \in Streams
           /\ Appended(s, e).present
           /\ Ordered(Appended(s, e), new, l2)
<1>1. logs # <<>> /\ Retained(s, Last(logs)) /\ Last(logs) \in Seq(Events)
  BY DEF Ordered, Last
<1>2. /\ Appended(s, e) \in Streams
      /\ Appended(s, e).present
      /\ Retained(Appended(s, e), Append(Last(logs), e))
      /\ Appended(s, e).terminal # 0 <=> IsTerminal(e)
  BY <1>1, AppendedRetains
<1>3. /\ new \in Seq(Seq(Events)) /\ Len(new) = Len(logs)
      /\ Last(new) = Append(Last(logs), e)
      /\ \A k \in DOMAIN logs : k # Len(logs) => new[k] = logs[k]
  BY <1>1, LastGrows
<1>4. DOMAIN new = DOMAIN logs /\ new # <<>> /\ DOMAIN logs = 1..Len(logs) /\ Len(logs) \in Nat
  BY <1>1, <1>3
<1>5. \A k \in DOMAIN new : k < Len(new) => HasEnded(new[k])
  <2> SUFFICES ASSUME NEW k \in DOMAIN new, k < Len(new) PROVE HasEnded(new[k])
    OBVIOUS
  <2>1. k \in DOMAIN logs /\ k < Len(logs) /\ k # Len(logs)
    BY <1>3, <1>4
  <2>2. HasEnded(logs[k])
    BY <2>1 DEF Ordered
  <2>3. QED
    BY <1>3, <2>1, <2>2
<1>6. l = "running" => Len(new) <= 1
  BY <1>3 DEF Ordered
<1>7. l # "running" => Last(logs) = <<>>
  BY DEF Ordered
<1>8. \A k \in DOMAIN new : k > 1 => Len(new[k]) <= 1
  <2> SUFFICES ASSUME NEW k \in DOMAIN new, k > 1 PROVE Len(new[k]) <= 1
    OBVIOUS
  <2>1. CASE k # Len(logs)
    <3>1. new[k] = logs[k] /\ Len(logs[k]) <= 1
      BY <1>3, <1>4, <2>1 DEF Ordered
    <3>2. QED
      BY <3>1
  <2>2. CASE k = Len(logs)
    <3>1. ~(Len(new) <= 1)
      BY <1>3, <1>4, <2>2
    <3>2. Last(logs) = <<>>
      BY <1>6, <1>7, <3>1
    <3>3. Append(<<>>, e) = <<e>> /\ Len(<<e>>) = 1
      OBVIOUS
    <3>4. new[k] = <<e>>
      BY <1>3, <2>2, <3>2, <3>3 DEF Last
    <3>5. Len(new[k]) = 1
      BY <3>3, <3>4, Zenon
    <3>6. \A n : n = 1 => n <= 1
      OBVIOUS
    <3>7. QED
      BY <3>5, <3>6, Zenon
  <2>3. QED
    BY <2>1, <2>2
<1>9. l2 # "running" => Appended(s, e).terminal # 0
  BY <1>2
<1>10. l2 = "running" => Appended(s, e).terminal = 0 /\ Len(new) <= 1
  BY <1>2, <1>6
<1>11. Ordered(Appended(s, e), new, l2)
  BY <1>2, <1>3, <1>4, <1>5, <1>8, <1>9, <1>10 DEF Ordered
<1>12. QED
  BY <1>2, <1>11

\* append makes the stream that is missing.
LEMMA AppendToMissing ==
    ASSUME NEW s \in Streams, NEW logs \in Seq(Seq(Events)), NEW l, NEW l2,
           Ordered(s, logs, l), ~s.present, NEW e \in Events,
           (l = "running" /\ ~IsTerminal(e) /\ l2 = l) \/ (IsTerminal(e) /\ l2 # "running"),
           NEW new, new = Append(logs, <<e>>)
    PROVE  /\ Appended(s, e) \in Streams
           /\ Appended(s, e).present
           /\ Ordered(Appended(s, e), new, l2)
<1>1. s = NoStream /\ Append(<<>>, e) = <<e>> /\ <<e>> \in Seq(Events) /\ Len(<<e>>) = 1
  BY DEF Ordered
<1>2. /\ Appended(s, e) \in Streams
      /\ Appended(s, e).present
      /\ Retained(Appended(s, e), <<e>>)
      /\ Appended(s, e).terminal # 0 <=> IsTerminal(e)
  <2>1. <<>> \in Seq(Events)
    OBVIOUS
  <2>2. Retained(s, <<>>) /\ s.terminal = 0
    BY <1>1, NothingRetained
  <2>3. QED
    BY <1>1, <2>1, <2>2, AppendedRetains
<1>3. /\ new \in Seq(Seq(Events)) /\ Len(new) = Len(logs) + 1
      /\ Last(new) = <<e>>
      /\ \A k \in DOMAIN logs : new[k] = logs[k]
  BY <1>1, AnotherLog
<1>4. /\ new # <<>> /\ Len(logs) \in Nat /\ DOMAIN logs = 1..Len(logs)
      /\ DOMAIN new = 1..(Len(logs) + 1)
  BY <1>3
<1>5. \A k \in DOMAIN new : k < Len(new) => k \in DOMAIN logs /\ new[k] = logs[k]
  BY <1>3, <1>4
<1>6. \A k \in DOMAIN new : k < Len(new) => HasEnded(new[k])
  BY <1>5 DEF Ordered
<1>7. l = "running" => Len(new) = 1
  BY <1>3 DEF Ordered
<1>8. \A k \in DOMAIN new : k > 1 => Len(new[k]) <= 1
  <2> SUFFICES ASSUME NEW k \in DOMAIN new, k > 1 PROVE Len(new[k]) <= 1
    OBVIOUS
  <2>1. CASE k < Len(new)
    BY <1>5, <2>1 DEF Ordered
  <2>2. CASE k = Len(new)
    BY <1>1, <1>3, <2>2 DEF Last
  <2>3. QED
    BY <1>3, <1>4, <2>1, <2>2
<1>9. l2 # "running" => Appended(s, e).terminal # 0
  BY <1>2
<1>10. l2 = "running" => Appended(s, e).terminal = 0 /\ Len(new) <= 1
  BY <1>2, <1>7
<1>11. Ordered(Appended(s, e), new, l2)
  BY <1>2, <1>3, <1>4, <1>6, <1>8, <1>9, <1>10 DEF Ordered
<1>12. QED
  BY <1>2, <1>11

\* _remember_terminal evicts streams that have ended, so every log of the
\* task has.
LEMMA EvictOrdered ==
    ASSUME NEW s \in Streams, NEW logs \in Seq(Seq(Events)), NEW l,
           Ordered(s, logs, l), s.terminal # 0
    PROVE  Ordered(NoStream, logs, l)
<1>1. s.present
  BY NothingRetained DEF Ordered
<1>2. HasEnded(Last(logs)) /\ l # "running"
  BY <1>1 DEF Ordered, Retained
<1>3. \A k \in DOMAIN logs : HasEnded(logs[k])
  BY <1>1, <1>2 DEF Ordered, Last
<1>4. QED
  BY <1>2, <1>3, NothingRetained DEF Ordered

\* The task goes on to its end and its stream stays as it is.
LEMMA OverOrdered ==
    ASSUME NEW s \in Streams, NEW logs \in Seq(Seq(Events)), NEW l, NEW l2,
           Ordered(s, logs, l), l2 # "running", l # "running" \/ s.terminal # 0
    PROVE  Ordered(s, logs, l2)
BY DEF Ordered

\* _subscription_state makes the stream that is missing.
LEMMA MadeOrdered ==
    ASSUME NEW s \in Streams, NEW logs \in Seq(Seq(Events)), NEW l,
           Ordered(s, logs, l), ~s.present,
           NEW new, new = Append(logs, <<>>)
    PROVE  /\ new \in Seq(Seq(Events))
           /\ Ordered(NewStream, new, l)
           /\ Grown(logs, new)
<1>1. /\ new \in Seq(Seq(Events)) /\ Len(new) = Len(logs) + 1
      /\ Last(new) = <<>>
      /\ \A k \in DOMAIN logs : new[k] = logs[k]
      /\ Grown(logs, new)
  BY <<>> \in Seq(Events), AnotherLog
<1>2. /\ new # <<>> /\ Len(logs) \in Nat /\ DOMAIN logs = 1..Len(logs)
      /\ DOMAIN new = 1..(Len(logs) + 1)
  BY <1>1
<1>3. \A k \in DOMAIN new : k < Len(new) => k \in DOMAIN logs /\ new[k] = logs[k]
  BY <1>1, <1>2
<1>4. \A k \in DOMAIN new : k < Len(new) => HasEnded(new[k])
  BY <1>3 DEF Ordered
<1>5. l = "running" => Len(new) <= 1
  BY <1>1 DEF Ordered
<1>6. \A k \in DOMAIN new : k > 1 => Len(new[k]) <= 1
  <2> SUFFICES ASSUME NEW k \in DOMAIN new, k > 1 PROVE Len(new[k]) <= 1
    OBVIOUS
  <2>1. CASE k < Len(new)
    BY <1>3, <2>1 DEF Ordered
  <2>2. CASE k = Len(new)
    BY <1>1, <2>2 DEF Last
  <2>3. QED
    BY <1>1, <1>2, <2>1, <2>2
<1>7. QED
  BY <1>1, <1>2, <1>4, <1>5, <1>6, NothingRetained DEF Ordered

-----------------------------------------------------------------------------
(***************************************************************************)
(* The invariant.                                                          *)
(***************************************************************************)

\* The logs of a task never shrink.
LEMMA SameLogs == \A logs \in Seq(Seq(Events)) : Grown(logs, logs)
<1> SUFFICES ASSUME NEW logs \in Seq(Seq(Events)) PROVE Grown(logs, logs)
  OBVIOUS
<1>1. ASSUME NEW k \in DOMAIN logs PROVE Len(logs[k]) \in Nat
  <2>1. logs[k] \in Seq(Events)
    BY ElementOfSeq, LenProperties
  <2>2. QED
    BY <2>1
<1>2. QED
  BY <1>1 DEF Grown

\* A subscription that is left alone still fits logs that have grown.
LEMMA ReadingGrown ==
    ASSUME NEW x \in Subscriptions, NEW old \in Seq(Seq(Events)), NEW new \in Seq(Seq(Events)),
           Grown(old, new), Reading(x, old)
    PROVE  Reading(x, new)
<1>1. Len(old) <= Len(new) /\ Len(old) \in Nat /\ Len(new) \in Nat
  BY DEF Grown
<1>2. DOMAIN old = 1..Len(old) /\ DOMAIN new = 1..Len(new)
  OBVIOUS
<1>3. x.from # 0 => x.from <= Len(new) /\ x.cursor > 0
  BY <1>1 DEF Reading, Subscriptions
<1>4. ASSUME x.ph = "yielding"
      PROVE  x.inc \in DOMAIN new /\ x.seen <= Len(new[x.inc])
  <2>1. x.inc \in DOMAIN old /\ x.seen <= Len(old[x.inc]) /\ x.seen \in Nat
    BY <1>4 DEF Reading, Subscriptions
  <2>2. x.inc \in DOMAIN new
    BY <1>1, <1>2, <2>1
  <2>3. Len(old[x.inc]) <= Len(new[x.inc])
    BY <2>1 DEF Grown
  <2>4. old[x.inc] \in Seq(Events) /\ new[x.inc] \in Seq(Events)
    BY <1>2, <2>1, <2>2, ElementOfSeq
  <2>5. Len(old[x.inc]) \in Nat /\ Len(new[x.inc]) \in Nat
    BY <2>4, LenProperties
  <2>6. QED
    BY <2>1, <2>2, <2>3, <2>5
<1>5. QED
  BY <1>3, <1>4 DEF Reading

\* The subscriptions are left alone.
LEMMA AllReading ==
    ASSUME Typed, InReading, rd' = rd, said' \in [Tasks -> Seq(Seq(Events))],
           \A u \in Tasks : Grown(said[u], said'[u])
    PROVE  InReading'
<1> SUFFICES ASSUME NEW r \in Readers PROVE Reading(rd[r], said'[rd[r].task])
  BY DEF InReading
<1>1. rd[r] \in Subscriptions /\ rd[r].task \in Tasks
  BY DEF Typed, Subscriptions
<1>2. Reading(rd[r], said[rd[r].task])
  BY DEF InReading
<1>3. QED
  BY <1>1, <1>2, ReadingGrown DEF Typed

\* One subscription moves on.
LEMMA OneReading ==
    ASSUME Typed, InReading, said' \in [Tasks -> Seq(Seq(Events))],
           \A u \in Tasks : Grown(said[u], said'[u]),
           NEW r \in Readers, NEW x \in Subscriptions, rd' = [rd EXCEPT ![r] = x],
           Reading(x, said'[x.task])
    PROVE  rd' \in [Readers -> Subscriptions] /\ InReading'
<1>1. rd' \in [Readers -> Subscriptions]
  BY DEF Typed
<1>2. ASSUME NEW q \in Readers PROVE Reading(rd'[q], said'[rd'[q].task])
  <2>1. CASE q = r
    BY <2>1 DEF Typed
  <2>2. CASE q # r
    <3>1. rd'[q] = rd[q] /\ rd[q] \in Subscriptions /\ rd[q].task \in Tasks
      BY <2>2 DEF Typed, Subscriptions
    <3>2. Reading(rd[q], said[rd[q].task])
      BY DEF InReading
    <3>3. QED
      BY <3>1, <3>2, ReadingGrown DEF Typed
  <2>3. QED
    BY <2>1, <2>2
<1>3. QED
  BY <1>1, <1>2 DEF InReading

\* append: the streams stay in order, the evicted ones too.
LEMMA AppendToInOrder ==
    ASSUME Typed, InOrder, NEW t \in Tasks, NEW e \in Events, AppendTo(t, e),
           \A u \in Tasks : u # t => life'[u] = life[u],
           \/ life[t] = "running" /\ ~IsTerminal(e) /\ life'[t] = life[t]
           \/ IsTerminal(e) /\ life'[t] # "running"
    PROVE  /\ stream' \in [Tasks -> Streams]
           /\ said' \in [Tasks -> Seq(Seq(Events))]
           /\ InOrder'
           /\ \A u \in Tasks : Grown(said[u], said'[u])
<1> DEFINE a == Appended(stream[t], e)
           str == [stream EXCEPT ![t] = a]
           new == IF stream[t].present
                  THEN [said[t] EXCEPT ![Len(said[t])] = Append(Current(t), e)] ELSE Append(said[t], <<e>>)
<1>1. /\ stream[t] \in Streams /\ said[t] \in Seq(Seq(Events))
      /\ Ordered(stream[t], said[t], life[t]) /\ stream[t].terminal = 0
  BY DEF Typed, InOrder, AppendTo
<1>2. said' = [said EXCEPT ![t] = new]
  <2>1. CASE stream[t].present
    BY <2>1 DEF AppendTo, Typed
  <2>2. CASE ~stream[t].present
    BY <2>2 DEF AppendTo, Typed
  <2>3. QED
    BY <2>1, <2>2
<1>3. stream' = str \/ \E gone : stream' = Evicted(str, gone)
  BY DEF AppendTo
<1>4. /\ a \in Streams /\ Ordered(a, new, life'[t])
      /\ new \in Seq(Seq(Events)) /\ Grown(said[t], new)
  <2>1. CASE stream[t].present
    <3>1. said[t] # <<>> /\ new = [said[t] EXCEPT ![Len(said[t])] = Append(@, e)]
      BY <1>1, <2>1 DEF Ordered, Current
    <3> HIDE DEF new
    <3>2. a \in Streams /\ Ordered(a, new, life'[t])
      BY <1>1, <2>1, <3>1, AppendToOpen, ZenonT(30)
    <3>3. new \in Seq(Seq(Events)) /\ Grown(said[t], new)
      BY <1>1, <3>1, LastGrows
    <3>4. QED
      BY <3>2, <3>3
  <2>2. CASE ~stream[t].present
    <3>1. new = Append(said[t], <<e>>) /\ <<e>> \in Seq(Events)
      BY <2>2
    <3> HIDE DEF new
    <3>2. a \in Streams /\ Ordered(a, new, life'[t])
      BY <1>1, <2>2, <3>1, AppendToMissing, ZenonT(30)
    <3>3. new \in Seq(Seq(Events)) /\ Grown(said[t], new)
      BY <1>1, <3>1, AnotherLog
    <3>4. QED
      BY <3>2, <3>3
  <2>3. QED
    BY <2>1, <2>2
<1> HIDE DEF a, new
<1>5. \A u \in Tasks : said'[u] = IF u = t THEN new ELSE said[u]
  BY <1>2 DEF Typed
<1>6. said' \in [Tasks -> Seq(Seq(Events))]
  BY <1>2, <1>4 DEF Typed
<1>7. \A u \in Tasks : Grown(said[u], said'[u])
  BY <1>4, <1>5, SameLogs DEF Typed
<1>8. ASSUME NEW u \in Tasks
      PROVE  str[u] \in Streams /\ Ordered(str[u], said'[u], life'[u])
  <2>1. CASE u = t
    BY <1>4, <1>5, <2>1 DEF Typed
  <2>2. CASE u # t
    <3>1. str[u] = stream[u] /\ said'[u] = said[u] /\ life'[u] = life[u]
      BY <1>5, <2>2 DEF Typed
    <3>2. QED
      BY <3>1 DEF Typed, InOrder
  <2>3. QED
    BY <2>1, <2>2
<1> HIDE DEF str
<1>9. ASSUME NEW u \in Tasks
      PROVE  Ordered(NoStream, said'[u], life'[u]) \/ str[u].terminal = 0
  BY <1>6, <1>8, EvictOrdered
<1>10. str \in [Tasks -> Streams]
  BY <1>4 DEF str, Typed
<1>11. CASE stream' = str
  BY <1>6, <1>7, <1>8, <1>10, <1>11 DEF InOrder
<1>12. CASE \E gone : stream' = Evicted(str, gone)
  <2>1. PICK gone : stream' = [u \in Tasks |-> IF u \in gone /\ str[u].terminal # 0 THEN NoStream ELSE str[u]]
    BY <1>12 DEF Evicted
  <2>2. stream' \in [Tasks -> Streams]
    BY <1>8, <2>1, NothingRetained
  <2>3. ASSUME NEW u \in Tasks PROVE Ordered(stream'[u], said'[u], life'[u])
    BY <1>8, <1>9, <2>1
  <2>4. QED
    BY <1>6, <1>7, <2>2, <2>3 DEF InOrder
<1>13. QED
  BY <1>3, <1>11, <1>12

\* The logs of a buffer that no reader and no task touches.
LEMMA NothingSaid ==
    ASSUME Typed, said' = said
    PROVE  said' \in [Tasks -> Seq(Seq(Events))] /\ \A u \in Tasks : Grown(said[u], said'[u])
BY SameLogs DEF Typed

\* The state the buffer starts in.
LEMMA InitIInv == Init => IInv
<1> SUFFICES ASSUME Init PROVE IInv
  OBVIOUS
<1>1. PICK t0 \in Tasks :
          rd = [r \in Readers |-> [ph |-> "away", task |-> t0, cursor |-> 0, inc |-> 0, from |-> 0, seen |-> 0, batch |-> {}]]
  BY DEF Init
<1>2. rd \in [Readers -> Subscriptions] /\ \A r \in Readers : rd[r].from = 0 /\ rd[r].ph = "away"
  BY <1>1 DEF Subscriptions, Phases
<1>3. Typed
  <2>1. stream \in [Tasks -> Streams] /\ life \in [Tasks -> Lives]
    BY NothingRetained DEF Init, Lives
  <2>2. <<>> \in Seq(Seq(Events))
    OBVIOUS
  <2>3. said \in [Tasks -> Seq(Seq(Events))]
    BY <2>2 DEF Init
  <2>4. QED
    BY <1>2, <2>1, <2>3 DEF Typed
<1>4. ASSUME NEW t \in Tasks PROVE Ordered(stream[t], said[t], life[t])
  <2>1. stream[t] = NoStream /\ said[t] = <<>> /\ life[t] = "running"
    BY DEF Init
  <2>2. QED
    BY <2>1, NothingRetained DEF Ordered
<1>5. InReading
  BY <1>2 DEF InReading, Reading
<1>6. QED
  BY <1>3, <1>4, <1>5 DEF IInv, InOrder

\* Publish keeps the invariant.
LEMMA PublishIInv == ASSUME IInv, NEW t \in Tasks, NEW e \in Said, Publish(t, e) PROVE IInv'
<1>1. e \in Events /\ Typed /\ InOrder /\ InReading
  BY DEF Events, IInv
<1>2. life' \in [Tasks -> Lives] /\ \A u \in Tasks : u # t => life'[u] = life[u]
  BY <1>1 DEF Publish, Typed, Lives
<1>3. \/ life[t] = "running" /\ ~IsTerminal(e) /\ life'[t] = life[t]
      \/ IsTerminal(e) /\ life'[t] # "running"
  BY <1>1 DEF Publish, Typed
<1>4. AppendTo(t, e) /\ rd' = rd
  BY DEF Publish
<1>5. /\ stream' \in [Tasks -> Streams]
      /\ said' \in [Tasks -> Seq(Seq(Events))]
      /\ InOrder'
      /\ \A u \in Tasks : Grown(said[u], said'[u])
  BY <1>1, <1>2, <1>3, <1>4, AppendToInOrder
<1>6. InReading'
  BY <1>1, <1>4, <1>5, AllReading
<1>7. QED
  BY <1>1, <1>2, <1>4, <1>5, <1>6 DEF IInv, Typed

\* The hook of a cancelled task keeps the invariant.
LEMMA CancelHookIInv == ASSUME IInv, NEW t \in Tasks, CancelHook(t) PROVE IInv'
<1>1. CancelledEvent \in Events /\ IsTerminal(CancelledEvent) /\ Typed /\ InOrder /\ InReading
  BY DEF Events, IInv, IsTerminal, CancelledEvent, TerminalKinds
<1>2. /\ life' \in [Tasks -> Lives] /\ life'[t] = "over" /\ rd' = rd
      /\ \A u \in Tasks : u # t => life'[u] = life[u]
  BY <1>1 DEF CancelHook, Typed, Lives
<1>3. CASE AppendTo(t, CancelledEvent)
  <2>1. /\ stream' \in [Tasks -> Streams]
        /\ said' \in [Tasks -> Seq(Seq(Events))]
        /\ InOrder'
        /\ \A u \in Tasks : Grown(said[u], said'[u])
    BY <1>1, <1>2, <1>3, AppendToInOrder
  <2>2. InReading'
    BY <1>1, <1>2, <2>1, AllReading
  <2>3. QED
    BY <1>1, <1>2, <2>1, <2>2 DEF IInv, Typed
<1>4. CASE stream[t].terminal # 0 /\ stream' = stream /\ said' = said
  <2>1. ASSUME NEW u \in Tasks PROVE Ordered(stream[u], said[u], life'[u])
    <3>1. Ordered(stream[u], said[u], life[u]) /\ stream[u] \in Streams /\ said[u] \in Seq(Seq(Events))
      BY <1>1 DEF InOrder, Typed
    <3>2. QED
      BY <1>2, <1>4, <3>1, OverOrdered
  <2>2. InReading'
    BY <1>1, <1>2, <1>4, AllReading, NothingSaid
  <2>3. QED
    BY <1>1, <1>2, <1>4, <2>1, <2>2 DEF IInv, Typed, InOrder
<1>5. QED
  BY <1>3, <1>4 DEF CancelHook

\* The end of a task keeps the invariant.
LEMMA TaskOverIInv == ASSUME IInv, NEW t \in Tasks, TaskOver(t) PROVE IInv'
<1>1. Typed /\ InOrder /\ InReading /\ stream' = stream /\ said' = said /\ rd' = rd /\ life[t] = "finishing"
  BY DEF IInv, TaskOver
<1>2. /\ life' \in [Tasks -> Lives] /\ life'[t] = "over"
      /\ \A u \in Tasks : u # t => life'[u] = life[u]
  BY <1>1 DEF TaskOver, Typed, Lives
<1>3. ASSUME NEW u \in Tasks PROVE Ordered(stream[u], said[u], life'[u])
  <2>1. Ordered(stream[u], said[u], life[u]) /\ stream[u] \in Streams /\ said[u] \in Seq(Seq(Events))
    BY <1>1 DEF InOrder, Typed
  <2>2. QED
    BY <1>1, <1>2, <2>1, OverOrdered
<1>4. InReading'
  BY <1>1, AllReading, NothingSaid
<1>5. QED
  BY <1>1, <1>2, <1>3, <1>4 DEF IInv, Typed, InOrder

\* A reader connects, in one of the three ways, and the invariant is kept.
LEMMA OpenStreamIInv ==
    ASSUME IInv, NEW r \in Readers, NEW t \in Tasks, NEW after \in Nat, OpenStream(r, t, after)
    PROVE  IInv'
<1> DEFINE x == [ph |-> "opened", task |-> t, cursor |-> after, inc |-> 0, from |-> 0, seen |-> 0, batch |-> {}]
<1>1. Typed /\ InOrder /\ InReading /\ stream' = stream /\ said' = said /\ life' = life
  BY DEF IInv, OpenStream
<1>2. x \in Subscriptions /\ rd' = [rd EXCEPT ![r] = x]
  BY DEF Subscriptions, Phases, OpenStream
<1>3. Reading(x, said'[x.task])
  BY DEF Reading
<1> HIDE DEF x
<1>4. rd' \in [Readers -> Subscriptions] /\ InReading'
  BY <1>1, <1>2, <1>3, NothingSaid, OneReading
<1>5. QED
  BY <1>1, <1>4 DEF IInv, Typed, InOrder

\* Where each way of connecting starts.
LEMMA Connecting ==
    ASSUME Typed, NEW r \in Readers
    PROVE  /\ Resume(r) => \E t \in Tasks, after \in Nat : OpenStream(r, t, after)
           /\ \A t \in Tasks : StartOver(r, t) \/ Hydrate(r, t) => \E after \in Nat : OpenStream(r, t, after)
<1>1. rd[r].task \in Tasks /\ rd[r].cursor \in Nat
  BY DEF Typed, Subscriptions
<1>2. Resume(r) => \E t \in Tasks, after \in Nat : OpenStream(r, t, after)
  BY <1>1, Zenon DEF Resume
<1>3. ASSUME NEW t \in Tasks, StartOver(r, t) \/ Hydrate(r, t)
      PROVE  \E after \in Nat : OpenStream(r, t, after)
  <2>1. stream[t].proj.latest \in Nat
    BY DEF Typed, Streams, Projections
  <2>2. (IF stream[t].present THEN stream[t].proj.latest ELSE 0) \in Nat
    BY <2>1
  <2>3. CASE StartOver(r, t)
    BY <2>3 DEF StartOver
  <2>4. CASE Hydrate(r, t)
    BY <2>2, <2>4, Zenon DEF Hydrate
  <2>5. QED
    BY <1>3, <2>3, <2>4
<1>4. QED
  BY <1>2, <1>3

\* The events a fetch copies out are all those after the cursor, unless the
\* cursor is too old for the buffer; then there are events after it.
LEMMA FetchedEvents ==
    ASSUME NEW s \in Streams, NEW log \in Seq(Events), Retained(s, log), NEW c \in Nat,
           NEW after, after = {s.events[i].seq : i \in {j \in DOMAIN s.events : s.events[j].seq > c}}
    PROVE  /\ CursorAvailable(s, c) => after = (c + 1)..Len(log)
           /\ ~CursorAvailable(s, c) => c < Len(log)
           /\ s.next - 1 = Len(log)
<1> DEFINE m == Len(s.events)
           L == Len(log)
<1>1. m \in Nat /\ L \in Nat /\ m <= L /\ s.next = L + 1 /\ DOMAIN s.events = 1..m
  BY DEF Retained, Streams
<1>2. \A i \in 1..m : s.events[i].seq = L - m + i
  BY <1>1 DEF Retained
<1>3. log # <<>> => s.events # <<>>
  BY DEF Retained
<1>4. s.events # <<>> => m > 0
  BY DEF Streams
<1>5. L > 0 => m > 0
  BY <1>3, <1>4
<1> HIDE DEF m, L
<1>6. after = {n \in (L - m + 1)..L : n > c}
  <2>1. ASSUME NEW n \in after PROVE n \in (L - m + 1)..L /\ n > c
    <3>1. PICK i \in DOMAIN s.events : s.events[i].seq > c /\ n = s.events[i].seq
      OBVIOUS
    <3>2. i \in 1..m /\ n = L - m + i /\ n > c
      BY <1>1, <1>2, <3>1
    <3>3. QED
      BY <1>1, <3>2
  <2>2. ASSUME NEW n \in (L - m + 1)..L, n > c PROVE n \in after
    <3> DEFINE i == n - L + m
    <3>1. i \in 1..m /\ L - m + i = n
      BY <1>1
    <3>2. i \in DOMAIN s.events /\ s.events[i].seq = n
      BY <1>1, <1>2, <3>1
    <3>3. QED
      BY <2>2, <3>2
  <2>3. QED
    BY <2>1, <2>2
<1>7. ASSUME CursorAvailable(s, c) PROVE after = (c + 1)..L
  <2>1. s.events # <<>> => c + 1 >= L - m + 1
    BY <1>1, <1>2, <1>4, <1>7 DEF CursorAvailable, Oldest
  <2>2. m = 0 \/ c >= L - m
    <3>1. s.events = <<>> => m = 0
      BY DEF m
    <3>2. QED
      BY <1>1, <2>1, <3>1
  <2>3. \A n \in Int : (n \in (L - m + 1)..L /\ n > c) <=> n \in (c + 1)..L
    BY <1>1, <1>5, <2>2
  <2>4. (L - m + 1)..L \subseteq Int /\ (c + 1)..L \subseteq Int
    BY <1>1
  <2>5. \A n : n \in after <=> n \in (c + 1)..L
    BY <1>6, <2>3, <2>4, Zenon
  <2>6. QED
    BY <2>5, Zenon
<1>8. ASSUME ~CursorAvailable(s, c) PROVE c < L
  <2>1. s.events # <<>> /\ ~(c + 1 >= s.events[1].seq)
    BY <1>8 DEF CursorAvailable, Oldest
  <2>2. s.events[1].seq = L - m + 1
    BY <1>1, <1>2, <1>4, <2>1
  <2>3. QED
    BY <1>1, <2>1, <2>2
<1>9. QED
  BY <1>1, <1>7, <1>8 DEF L

\* The subscription x after a fetch, o before it; logs are those of its task.
Answer(o, x, logs) ==
    /\ x \in Subscriptions /\ x.task = o.task /\ x.cursor = o.cursor /\ x.from = o.from
    /\ logs \in Seq(Seq(Events)) /\ logs # <<>> /\ Last(logs) \in Seq(Events)
    /\ x.inc = Len(logs) /\ x.seen = Len(Last(logs))
    /\ x.ph \in {"yielding", "expired", "ended", "parked"}
    /\ x.ph = "yielding" => x.cursor < x.seen /\ x.batch = (x.cursor + 1)..x.seen
    /\ x.ph = "expired" => x.cursor < x.seen
    /\ x.ph = "ended" => x.cursor >= x.seen /\ HasEnded(Last(logs))

\* What _subscription_state answers, and what subscribe does with it.
LEMMA Fetched ==
    ASSUME IInv, NEW r \in Readers, Fetch(r),
           NEW t, t = rd[r].task, NEW x, x = rd'[r], NEW logs, logs = said'[t]
    PROVE  /\ t \in Tasks /\ Answer(rd[r], x, logs) /\ rd' = [rd EXCEPT ![r] = x]
           /\ stream' \in [Tasks -> Streams] /\ said' = [said EXCEPT ![t] = logs]
           /\ \A u \in Tasks : u # t => stream'[u] = stream[u]
           /\ Ordered(stream'[t], logs, life[t]) /\ Grown(said[t], logs)
           /\ logs = said[t] \/ (logs = Append(said[t], <<>>) /\ x.ph = "parked" /\ ~stream[t].present)
<1> DEFINE s == IF stream[rd[r].task].present THEN stream[rd[r].task] ELSE NewStream
           c == rd[r].cursor
           after == {s.events[i].seq : i \in {j \in DOMAIN s.events : s.events[j].seq > c}}
           runs == IF stream[rd[r].task].present THEN said[rd[r].task] ELSE Append(said[rd[r].task], <<>>)
           ph == IF ~CursorAvailable(s, c) THEN "expired"
                 ELSE IF after # {} THEN "yielding"
                 ELSE IF s.terminal # 0 /\ s.terminal <= c THEN "ended"
                 ELSE "parked"
           out == IF ph = "yielding" THEN after ELSE {}
           log == Last(runs)
<1>1. Typed /\ InOrder /\ rd[r] \in Subscriptions
  BY DEF IInv, Typed
<1>2. /\ t \in Tasks /\ c \in Nat /\ stream[t] \in Streams /\ said[t] \in Seq(Seq(Events))
      /\ Ordered(stream[t], said[t], life[t])
  BY <1>1 DEF Typed, Subscriptions, InOrder
<1>3. /\ rd' = [rd EXCEPT ![r] = [rd[r] EXCEPT !.ph = ph, !.inc = Len(runs), !.seen = s.next - 1, !.batch = out]]
      /\ stream' = [stream EXCEPT ![t] = s]
      /\ said' = [said EXCEPT ![t] = runs]
  <2>1. /\ rd' = [rd EXCEPT ![r] = [rd[r] EXCEPT !.ph = ph, !.inc = Len(runs), !.seen = s.next - 1, !.batch = out]]
        /\ stream' = [stream EXCEPT ![rd[r].task] = s]
        /\ said' = [said EXCEPT ![rd[r].task] = runs]
    BY Zenon DEF Fetch
  <2> HIDE DEF s, runs, out, ph
  <2>2. QED
    BY <2>1
<1>4. /\ s \in Streams /\ s.present /\ runs \in Seq(Seq(Events))
      /\ Ordered(s, runs, life[t]) /\ Grown(said[t], runs)
  <2>1. CASE stream[t].present
    BY <1>2, <2>1, SameLogs
  <2>2. CASE ~stream[t].present
    BY <1>2, <2>2, MadeOrdered, NothingRetained
  <2>3. QED
    BY <2>1, <2>2
<1>5. runs # <<>> /\ Retained(s, log) /\ log \in Seq(Events)
  <2>1. runs # <<>> /\ Retained(s, log)
    BY <1>4 DEF Ordered
  <2> HIDE DEF runs, s
  <2>2. QED
    BY <1>4, <2>1 DEF Last
<1>6. logs = runs
  BY <1>1, <1>2, <1>3 DEF Typed
<1>7. /\ CursorAvailable(s, c) => after = (c + 1)..Len(log)
      /\ ~CursorAvailable(s, c) => c < Len(log)
      /\ s.next - 1 = Len(log)
  <2> HIDE DEF s, log
  <2>1. QED
    BY <1>2, <1>4, <1>5, FetchedEvents
<1>8. ~stream[t].present => ph = "parked"
  <2> SUFFICES ASSUME ~stream[t].present PROVE ph = "parked"
    OBVIOUS
  <2>1. s = NewStream /\ s.events = <<>> /\ s.terminal = 0
    BY DEF NewStream, NoStream
  <2> HIDE DEF s
  <2>2. CursorAvailable(s, c) /\ after = {}
    BY <2>1 DEF CursorAvailable
  <2>3. QED
    BY <2>1, <2>2
<1>9. /\ ph \in {"yielding", "expired", "ended", "parked"}
      /\ ph = "yielding" => CursorAvailable(s, c) /\ after # {}
      /\ ph = "expired" => ~CursorAvailable(s, c)
      /\ ph = "ended" => CursorAvailable(s, c) /\ s.terminal # 0 /\ s.terminal <= c
  <2> HIDE DEF s, after, runs, c
  <2>1. QED
    BY Zenon
<1>10. s.terminal # 0 => HasEnded(log) /\ s.terminal = Len(log)
  BY <1>5 DEF Retained
<1>11. out \in SUBSET Nat /\ (ph = "yielding" => out = after)
  <2> HIDE DEF s, ph, runs, after, c, log
  <2>1. CASE ph = "yielding"
    <3>1. after = (c + 1)..Len(log) /\ Len(log) \in Nat
      BY <1>5, <1>7, <1>9, <2>1
    <3>2. after \in SUBSET Nat
      BY <1>2, <3>1
    <3>3. QED
      BY <2>1, <3>2
  <2>2. QED
    BY <2>1
<1> HIDE DEF s, after, runs, ph, out, log, c
<1>12. /\ x = [rd[r] EXCEPT !.ph = ph, !.inc = Len(runs), !.seen = s.next - 1, !.batch = out]
       /\ rd' = [rd EXCEPT ![r] = x]
  BY <1>1, <1>3 DEF Typed
<1>13. /\ x.task = t /\ x.cursor = c /\ x.from = rd[r].from /\ x.ph = ph
       /\ x.inc = Len(runs) /\ x.seen = s.next - 1 /\ x.batch = out
  BY <1>1, <1>12 DEF Subscriptions, c
<1>14. Len(runs) \in Nat /\ s.next - 1 \in Nat /\ Len(log) \in Nat
  BY <1>4, <1>5, <1>7
<1>15. x \in Subscriptions
  <2>1. ph \in Phases
    BY <1>9 DEF Phases
  <2>2. QED
    BY <1>1, <1>11, <1>12, <1>14, <2>1 DEF Subscriptions
<1>16. x.ph = "yielding" => x.cursor < x.seen /\ x.batch = (x.cursor + 1)..x.seen
  BY <1>2, <1>7, <1>9, <1>11, <1>13, <1>14
<1>17. x.ph = "expired" => x.cursor < x.seen
  BY <1>7, <1>9, <1>13
<1>18. x.ph = "ended" => x.cursor >= x.seen /\ HasEnded(log)
  BY <1>2, <1>7, <1>9, <1>10, <1>13, <1>14
<1>19. stream' \in [Tasks -> Streams] /\ stream'[t] = s /\ \A u \in Tasks : u # t => stream'[u] = stream[u]
  BY <1>1, <1>2, <1>3, <1>4 DEF Typed
<1>20. runs = said[t] \/ (runs = Append(said[t], <<>>) /\ x.ph = "parked" /\ ~stream[t].present)
  BY <1>8, <1>13 DEF runs
<1>21. Answer(rd[r], x, runs)
  BY <1>4, <1>5, <1>7, <1>9, <1>13, <1>15, <1>16, <1>17, <1>18 DEF Answer, log, c
<1>22. QED
  BY <1>2, <1>3, <1>4, <1>6, <1>12, <1>19, <1>20, <1>21

\* A subscription that fetches keeps the invariant: what it hands out next is
\* of the log its last event came from, for only a first log is long enough to
\* have been left behind in.
LEMMA FetchIInv == ASSUME IInv, NEW r \in Readers, Fetch(r) PROVE IInv'
<1> DEFINE t == rd[r].task
           x == rd'[r]
           logs == said'[t]
<1>0. /\ t \in Tasks /\ Answer(rd[r], x, logs) /\ rd' = [rd EXCEPT ![r] = x]
      /\ stream' \in [Tasks -> Streams] /\ said' = [said EXCEPT ![t] = logs]
      /\ \A u \in Tasks : u # t => stream'[u] = stream[u]
      /\ Ordered(stream'[t], logs, life[t]) /\ Grown(said[t], logs)
  <2>1. t = rd[r].task /\ x = rd'[r] /\ logs = said'[t]
    OBVIOUS
  <2> HIDE DEF t, x, logs
  <2>2. QED
    BY <2>1, Fetched
<1>1. /\ t \in Tasks /\ x \in Subscriptions /\ rd' = [rd EXCEPT ![r] = x]
      /\ x.task = t /\ x.cursor = rd[r].cursor /\ x.from = rd[r].from
      /\ logs \in Seq(Seq(Events)) /\ logs # <<>> /\ Last(logs) \in Seq(Events)
      /\ x.inc = Len(logs) /\ x.seen = Len(Last(logs))
      /\ stream' \in [Tasks -> Streams] /\ said' = [said EXCEPT ![t] = logs]
      /\ \A u \in Tasks : u # t => stream'[u] = stream[u]
      /\ Ordered(stream'[t], logs, life[t]) /\ Grown(said[t], logs)
      /\ x.ph = "yielding" => x.cursor < x.seen /\ x.batch = (x.cursor + 1)..x.seen
  <2> HIDE DEF x, logs
  <2>1. QED
    BY <1>0 DEF Answer
<1>2. Typed /\ InOrder /\ InReading /\ life' = life /\ Reading(rd[r], said[t])
  BY DEF IInv, InReading, Fetch
<1> HIDE DEF x, logs, t
<1>3. said' \in [Tasks -> Seq(Seq(Events))] /\ \A u \in Tasks : Grown(said[u], said'[u])
  BY <1>1, <1>2, SameLogs DEF Typed
<1>4. x.from # 0 => x.from <= Len(logs) /\ x.cursor > 0
  <2>1. x.from # 0 => x.from <= Len(said[t]) /\ x.cursor > 0
    BY <1>1, <1>2 DEF Reading
  <2>2. Len(said[t]) <= Len(logs) /\ Len(said[t]) \in Nat /\ Len(logs) \in Nat
    BY <1>1, <1>2 DEF Grown, Typed
  <2>3. QED
    BY <1>1, <2>1, <2>2 DEF Subscriptions
<1>5. ASSUME x.ph = "yielding" PROVE x.from \in {0, x.inc}
  <2> SUFFICES ASSUME x.from # 0 PROVE x.from = x.inc
    OBVIOUS
  <2>1. Len(logs) \in Nat \ {0} /\ Len(logs) \in DOMAIN logs /\ x.from \in Nat /\ x.cursor \in Nat
    BY <1>1 DEF Subscriptions
  <2>2. Len(logs[Len(logs)]) > 1
    <3>1. x.cursor < x.seen /\ x.cursor > 0 /\ x.seen = Len(logs[Len(logs)]) /\ x.seen \in Nat
      BY <1>1, <1>4, <1>5 DEF Last, Subscriptions
    <3>2. QED
      BY <2>1, <3>1
  <2>3. Len(logs[Len(logs)]) \in Nat
    BY <1>1 DEF Last
  <2>4. ~(Len(logs) > 1)
    BY <1>1, <2>1, <2>2, <2>3 DEF Ordered
  <2>5. QED
    BY <1>1, <1>4, <2>1, <2>4
<1>6. Reading(x, logs)
  <2>1. Len(logs) \in DOMAIN logs
    BY <1>1
  <2>2. x.ph = "yielding" => x.inc \in DOMAIN logs /\ x.seen <= Len(logs[x.inc])
    BY <1>1, <2>1 DEF Last
  <2>3. QED
    BY <1>1, <1>4, <1>5, <2>2 DEF Reading
<1>7. rd' \in [Readers -> Subscriptions] /\ InReading'
  <2>1. said'[x.task] = logs
    BY <1>1 DEF logs
  <2>2. QED
    BY <1>1, <1>2, <1>3, <1>6, <2>1, OneReading
<1>8. InOrder'
  <2>1. ASSUME NEW u \in Tasks PROVE Ordered(stream'[u], said'[u], life[u])
    <3>1. CASE u = t
      BY <1>1, <3>1 DEF logs
    <3>2. CASE u # t
      BY <1>1, <1>2, <3>2 DEF InOrder, Typed
    <3>3. QED
      BY <3>1, <3>2
  <2>2. QED
    BY <1>2, <2>1 DEF InOrder
<1>9. QED
  BY <1>1, <1>2, <1>3, <1>7, <1>8 DEF IInv, Typed

\* The subscription y after an event of log is handed out, x before.
HandsOut(x, y, log) ==
    /\ x \in Subscriptions /\ y \in Subscriptions
    /\ x.ph = "yielding" /\ x.from \in {0, x.inc}
    /\ log \in Seq(Events) /\ x.cursor < Len(log)
    /\ y.task = x.task /\ y.inc = x.inc /\ y.from = x.inc /\ y.seen = x.seen
    /\ y.cursor = x.cursor + 1 /\ y.batch = x.batch \ {y.cursor}
    /\ x.seen <= Len(log) /\ x.cursor < x.seen
    /\ x.batch = (x.cursor + 1)..x.seen
    /\ y.ph = IF IsTerminal(log[y.cursor]) THEN "ended"
              ELSE IF x.batch = {y.cursor} THEN "parked" ELSE "yielding"

\* One event is handed out: the one after the cursor, of the log the
\* subscription fetched from.
LEMMA Yielded ==
    ASSUME IInv, NEW r \in Readers, Yield(r),
           NEW x, x = rd[r], NEW y, y = rd'[r], NEW log, log = said[x.task][x.inc]
    PROVE  HandsOut(x, y, log) /\ rd' = [rd EXCEPT ![r] = y] /\ x.inc \in DOMAIN said[x.task]
<1> DEFINE n == CHOOSE n \in rd[r].batch : \A m \in rd[r].batch : n <= m
           ph == IF IsTerminal(said[rd[r].task][rd[r].inc][n]) THEN "ended"
                 ELSE IF rd[r].batch = {n} THEN "parked" ELSE "yielding"
<1>1. Typed /\ rd[r] \in Subscriptions /\ Reading(x, said[x.task]) /\ x.ph = "yielding"
  BY DEF IInv, Typed, InReading, Yield
<1>2. /\ x.inc \in DOMAIN said[x.task] /\ x.from \in {0, x.inc} /\ x.cursor < x.seen
      /\ x.seen <= Len(log) /\ x.batch = (x.cursor + 1)..x.seen
  BY <1>1 DEF Reading
<1>3. x.cursor \in Nat /\ x.seen \in Nat /\ x.task \in Tasks /\ x.inc \in Nat
  BY <1>1 DEF Subscriptions
<1>4. log \in Seq(Events)
  <2>1. said[x.task] \in Seq(Seq(Events))
    BY <1>1, <1>3 DEF Typed
  <2>2. QED
    BY <1>2, <2>1, ElementOfSeq, LenProperties
<1>5. n = x.cursor + 1
  <2>1. \A m \in x.batch : x.cursor + 1 <= m
    BY <1>2, <1>3
  <2>2. x.cursor + 1 \in x.batch /\ x.batch \subseteq Nat
    BY <1>2, <1>3
  <2>3. \A k \in x.batch : (\A m \in x.batch : k <= m) => k = x.cursor + 1
    BY <1>3, <2>1, <2>2
  <2>4. QED
    BY <2>1, <2>2, <2>3
<1>6. rd' = [rd EXCEPT ![r] = [rd[r] EXCEPT !.cursor = n, !.ph = ph, !.from = rd[r].inc,
                                            !.batch = rd[r].batch \ {n}]]
  BY Zenon DEF Yield
<1>7. ph = IF IsTerminal(log[n]) THEN "ended" ELSE IF x.batch = {n} THEN "parked" ELSE "yielding"
  OBVIOUS
<1> HIDE DEF n, ph
<1>8. /\ y = [rd[r] EXCEPT !.cursor = n, !.ph = ph, !.from = rd[r].inc, !.batch = rd[r].batch \ {n}]
      /\ rd' = [rd EXCEPT ![r] = y]
  BY <1>1, <1>6 DEF Typed
<1>9. /\ y.cursor = n /\ y.ph = ph /\ y.from = x.inc /\ y.batch = x.batch \ {n}
      /\ y.task = x.task /\ y.inc = x.inc /\ y.seen = x.seen
  BY <1>1, <1>8 DEF Subscriptions
<1>10. y \in Subscriptions
  <2>1. ph \in Phases
    BY DEF ph, Phases
  <2>2. rd[r].batch \ {n} \in SUBSET Nat /\ n \in Nat /\ rd[r].inc \in Nat
    BY <1>1, <1>3, <1>5 DEF Subscriptions
  <2>3. QED
    BY <1>1, <1>8, <2>1, <2>2 DEF Subscriptions
<1>11. x.cursor < Len(log)
  <2>1. Len(log) \in Nat
    BY <1>4, LenProperties
  <2>2. QED
    BY <1>2, <1>3, <2>1
<1>12. QED
  BY <1>1, <1>2, <1>4, <1>5, <1>7, <1>8, <1>9, <1>10, <1>11 DEF HandsOut

\* Handing out an event keeps the invariant.
LEMMA YieldIInv == ASSUME IInv, NEW r \in Readers, Yield(r) PROVE IInv'
<1> DEFINE x == rd[r]
           y == rd'[r]
           log == said[x.task][x.inc]
<1>0. HandsOut(x, y, log) /\ rd' = [rd EXCEPT ![r] = y] /\ x.inc \in DOMAIN said[x.task]
  <2>1. x = rd[r] /\ y = rd'[r] /\ log = said[x.task][x.inc]
    OBVIOUS
  <2> HIDE DEF x, y, log
  <2>2. QED
    BY <2>1, Yielded
<1>1. /\ x \in Subscriptions /\ y \in Subscriptions /\ rd' = [rd EXCEPT ![r] = y]
      /\ x.inc \in DOMAIN said[x.task]
      /\ y.task = x.task /\ y.inc = x.inc /\ y.from = x.inc /\ y.seen = x.seen
      /\ y.cursor = x.cursor + 1 /\ y.batch = x.batch \ {y.cursor}
      /\ x.seen <= Len(log) /\ x.cursor < x.seen
      /\ x.batch = (x.cursor + 1)..x.seen
      /\ y.ph = "yielding" => x.batch # {y.cursor}
  <2> HIDE DEF x, y, log
  <2>1. QED
    BY <1>0 DEF HandsOut
<1>2. Typed /\ InOrder /\ InReading /\ stream' = stream /\ said' = said /\ life' = life
  BY DEF IInv, Yield
<1>3. x.task \in Tasks /\ said[x.task] \in Seq(Seq(Events))
  BY <1>1, <1>2 DEF Typed, Subscriptions
<1>4. log = said[y.task][y.inc]
  BY <1>1
<1> HIDE DEF x, y, log
<1>5. /\ y.cursor \in Nat /\ y.seen \in Nat /\ x.cursor \in Nat /\ y.from <= Len(said[y.task])
      /\ y.cursor > 0
  BY <1>1, <1>3 DEF Subscriptions
<1>6. ASSUME y.ph = "yielding" PROVE y.cursor < y.seen /\ y.batch = (y.cursor + 1)..y.seen
  <2>1. x.batch # {y.cursor}
    BY <1>1, <1>6
  <2>2. y.cursor # y.seen
    BY <1>1, <1>5, <2>1
  <2>3. y.cursor < y.seen
    BY <1>1, <1>5, <2>2
  <2>4. y.batch = (y.cursor + 1)..y.seen
    BY <1>1, <1>5
  <2>5. QED
    BY <2>3, <2>4
<1>7. Reading(y, said'[y.task])
  BY <1>1, <1>2, <1>4, <1>5, <1>6 DEF Reading
<1>8. rd' \in [Readers -> Subscriptions] /\ InReading'
  BY <1>1, <1>2, <1>7, NothingSaid, OneReading
<1>9. QED
  BY <1>2, <1>8 DEF IInv, Typed, InOrder

\* A subscription that waits no longer, or is given up, keeps the invariant.
LEMMA RestIInv == ASSUME IInv, NEW r \in Readers, Wake(r) \/ Disconnect(r) PROVE IInv'
<1> DEFINE x == rd[r]
           y == rd'[r]
<1>1. Typed /\ InOrder /\ InReading /\ stream' = stream /\ said' = said /\ life' = life /\ x \in Subscriptions
  BY DEF IInv, Wake, Disconnect, Typed
<1>2. /\ y \in Subscriptions /\ rd' = [rd EXCEPT ![r] = y] /\ y.ph # "yielding"
      /\ y.task = x.task /\ y.from = x.from /\ y.cursor = x.cursor
  <2>1. CASE Wake(r)
    <3>1. rd' = [rd EXCEPT ![r] = [x EXCEPT !.ph = "opened"]]
      BY <1>1, <2>1 DEF Wake, Typed
    <3>2. y = [x EXCEPT !.ph = "opened"]
      BY <1>1, <3>1 DEF Typed
    <3> HIDE DEF x, y
    <3>3. y \in Subscriptions /\ y.ph = "opened" /\ y.task = x.task /\ y.from = x.from /\ y.cursor = x.cursor
      BY <1>1, <3>2 DEF Subscriptions, Phases
    <3>4. QED
      BY <3>1, <3>2, <3>3
  <2>2. CASE Disconnect(r)
    <3>1. rd' = [rd EXCEPT ![r] = [x EXCEPT !.ph = "away", !.batch = {}]]
      BY <1>1, <2>2 DEF Disconnect, Typed, Subscriptions
    <3>2. y = [x EXCEPT !.ph = "away", !.batch = {}]
      BY <1>1, <3>1 DEF Typed
    <3> HIDE DEF x, y
    <3>3. y \in Subscriptions /\ y.ph = "away" /\ y.task = x.task /\ y.from = x.from /\ y.cursor = x.cursor
      BY <1>1, <3>2 DEF Subscriptions, Phases
    <3>4. QED
      BY <3>1, <3>2, <3>3
  <2>3. QED
    BY <2>1, <2>2
<1>3. Reading(x, said[x.task])
  BY <1>1 DEF InReading
<1> HIDE DEF x, y
<1>4. Reading(y, said'[y.task])
  BY <1>1, <1>2, <1>3 DEF Reading
<1>5. rd' \in [Readers -> Subscriptions] /\ InReading'
  BY <1>1, <1>2, <1>4, NothingSaid, OneReading
<1>6. QED
  BY <1>1, <1>5 DEF IInv, Typed, InOrder

\* Every step keeps the invariant.
LEMMA NextIInv == IInv /\ [Next]_vars => IInv'
<1> SUFFICES ASSUME IInv, [Next]_vars PROVE IInv'
  OBVIOUS
<1>0. Typed
  BY DEF IInv
<1>1. ASSUME NEW t \in Tasks, TaskStep(t) PROVE IInv'
  BY <1>1, PublishIInv, CancelHookIInv, TaskOverIInv DEF TaskStep
<1>2. ASSUME NEW r \in Readers, ReaderStep(r) PROVE IInv'
  BY <1>2, FetchIInv, YieldIInv, RestIInv DEF ReaderStep
<1>3. ASSUME NEW r \in Readers, BrowserStep(r) PROVE IInv'
  <2>1. CASE Disconnect(r)
    BY <2>1, RestIInv
  <2>2. CASE Resume(r)
    BY <1>0, <2>2, Connecting, OpenStreamIInv
  <2>3. CASE \E t \in Tasks : StartOver(r, t) \/ Hydrate(r, t)
    <3>1. PICK t \in Tasks : StartOver(r, t) \/ Hydrate(r, t)
      BY <2>3
    <3>2. PICK after \in Nat : OpenStream(r, t, after)
      BY <1>0, <3>1, Connecting
    <3>3. QED
      BY <3>2, OpenStreamIInv
  <2>4. QED
    BY <1>3, <2>1, <2>2, <2>3 DEF BrowserStep
<1>4. CASE UNCHANGED vars
  BY <1>4 DEF vars, IInv, Typed, InOrder, InReading
<1>5. QED
  BY <1>1, <1>2, <1>3, <1>4 DEF Next

-----------------------------------------------------------------------------
(***************************************************************************)
(* The simulation.                                                         *)
(***************************************************************************)

\* A log is closed when its last event is a terminal one.
LEMMA ClosedIsEnded ==
    ASSUME NEW log \in Seq(Events)
    PROVE  Log!Closed(log) <=> HasEnded(log)
<1>1. log # <<>> => log[Len(log)] \in Said \cup {CancelledEvent}
  BY DEF Events
<1>2. QED
  BY <1>1 DEF Log!Closed, HasEnded

\* The state the buffer starts in is one the log may start in.
LEMMA InitLog == Init => Log!LogInit
<1> SUFFICES ASSUME Init PROVE Log!LogInit
  OBVIOUS
<1>1. PICK t0 \in Tasks :
          rd = [r \in Readers |-> [ph |-> "away", task |-> t0, cursor |-> 0, inc |-> 0, from |-> 0, seen |-> 0, batch |-> {}]]
  BY DEF Init
<1>2. \A r \in Readers : rd[r].ph = "away" /\ rd[r].task \in Tasks /\ rd[r].from = 0 /\ rd[r].cursor = 0
  BY <1>1
<1>3. said = [t \in Tasks |-> <<>>]
  BY DEF Init
<1>4. [r \in Readers |-> LogView(r)] = [r \in Readers |-> "away"]
  BY <1>2 DEF LogView, Following
<1>5. [r \in Readers |-> rd[r].task] \in [Readers -> Tasks]
  BY <1>2
<1>6. [r \in Readers |-> rd[r].from] = [r \in Readers |-> 0] /\ [r \in Readers |-> rd[r].cursor] = [r \in Readers |-> 0]
  BY <1>2
<1>7. QED
  BY <1>3, <1>4, <1>5, <1>6 DEF Log!LogInit

\* append is a task saying something, in its current log or in a new one.
LEMMA AppendLog ==
    ASSUME IInv, NEW t \in Tasks, NEW e \in Events, AppendTo(t, e), rd' = rd
    PROVE  Log!LogNext
<1>1. /\ stream[t] \in Streams /\ said[t] \in Seq(Seq(Events)) /\ stream[t].terminal = 0
      /\ Ordered(stream[t], said[t], life[t]) /\ Typed
  BY DEF IInv, Typed, InOrder, AppendTo
<1>2. UNCHANGED Log!reader
  BY DEF Log!reader, LogView, Following
<1>3. CASE stream[t].present
  <2>1. said[t] # <<>> /\ Retained(stream[t], Last(said[t])) /\ Last(said[t]) \in Seq(Events)
    BY <1>1, <1>3 DEF Ordered, Last
  <2>2. ~Log!Closed(Last(said[t]))
    BY <1>1, <2>1, ClosedIsEnded DEF Retained
  <2>3. Len(said[t]) > 0
    BY <1>1, <2>1
  <2>4. said' = [said EXCEPT ![t] = [said[t] EXCEPT ![Len(said[t])] = Append(Current(t), e)]]
    BY <1>1, <1>3 DEF AppendTo, Typed
  <2>5. Log!Say(t, e)
    BY <1>2, <2>2, <2>3, <2>4 DEF Log!Say, Last, Current
  <2>6. QED
    BY <2>5 DEF Log!LogNext, Events
<1>4. CASE ~stream[t].present
  <2>1. \A k \in DOMAIN said[t] : HasEnded(said[t][k]) /\ said[t][k] \in Seq(Events)
    BY <1>1, <1>4 DEF Ordered
  <2>2. \A k \in DOMAIN said[t] : Log!Closed(said[t][k])
    BY <2>1, ClosedIsEnded
  <2>3. said' = [said EXCEPT ![t] = Append(said[t], <<e>>)]
    BY <1>1, <1>4 DEF AppendTo, Typed
  <2>4. Log!Open(t, <<e>>)
    BY <1>2, <2>2, <2>3 DEF Log!Open
  <2>5. QED
    BY <2>4 DEF Log!LogNext, Events
<1>5. QED
  BY <1>3, <1>4

\* What the log shows of a subscription.
View(x) == IF x.ph \in {"opened", "yielding", "parked"} THEN "reading" ELSE x.ph

\* What the log shows of the readers when one of them moves on.
LEMMA OneView ==
    ASSUME Typed, NEW r \in Readers, NEW y, rd' = [rd EXCEPT ![r] = y]
    PROVE  /\ [q \in Readers |-> LogView(q)]' = [[q \in Readers |-> LogView(q)] EXCEPT ![r] = View(y)]
           /\ [q \in Readers |-> rd[q].task]' = [[q \in Readers |-> rd[q].task] EXCEPT ![r] = y.task]
           /\ [q \in Readers |-> rd[q].from]' = [[q \in Readers |-> rd[q].from] EXCEPT ![r] = y.from]
           /\ [q \in Readers |-> rd[q].cursor]' = [[q \in Readers |-> rd[q].cursor] EXCEPT ![r] = y.cursor]
<1>1. rd'[r] = y /\ \A q \in Readers : q # r => rd'[q] = rd[q]
  BY DEF Typed
<1>2. LogView(r)' = View(y) /\ \A q \in Readers : q # r => LogView(q)' = LogView(q)
  BY <1>1 DEF LogView, Following, View
<1>3. [q \in Readers |-> LogView(q)]' = [[q \in Readers |-> LogView(q)] EXCEPT ![r] = View(y)]
  BY <1>2
<1>4. [q \in Readers |-> rd[q].task]' = [[q \in Readers |-> rd[q].task] EXCEPT ![r] = y.task]
  <2> DEFINE f == [q \in Readers |-> rd[q].task]
             g == [q \in Readers |-> rd'[q].task]
  <2>1. /\ DOMAIN f = Readers /\ DOMAIN g = Readers /\ f = [q \in Readers |-> f[q]]
        /\ g = [q \in Readers |-> g[q]] /\ g[r] = y.task
        /\ \A q \in Readers : q # r => g[q] = f[q]
    BY <1>1
  <2> HIDE DEF f, g
  <2>2. g = [f EXCEPT ![r] = y.task]
    BY <2>1
  <2>3. QED
    BY <2>2 DEF f, g
<1>5. [q \in Readers |-> rd[q].from]' = [[q \in Readers |-> rd[q].from] EXCEPT ![r] = y.from]
  <2> DEFINE f == [q \in Readers |-> rd[q].from]
             g == [q \in Readers |-> rd'[q].from]
  <2>1. /\ DOMAIN f = Readers /\ DOMAIN g = Readers /\ f = [q \in Readers |-> f[q]]
        /\ g = [q \in Readers |-> g[q]] /\ g[r] = y.from
        /\ \A q \in Readers : q # r => g[q] = f[q]
    BY <1>1
  <2> HIDE DEF f, g
  <2>2. g = [f EXCEPT ![r] = y.from]
    BY <2>1
  <2>3. QED
    BY <2>2 DEF f, g
<1>6. [q \in Readers |-> rd[q].cursor]' = [[q \in Readers |-> rd[q].cursor] EXCEPT ![r] = y.cursor]
  <2> DEFINE f == [q \in Readers |-> rd[q].cursor]
             g == [q \in Readers |-> rd'[q].cursor]
  <2>1. /\ DOMAIN f = Readers /\ DOMAIN g = Readers /\ f = [q \in Readers |-> f[q]]
        /\ g = [q \in Readers |-> g[q]] /\ g[r] = y.cursor
        /\ \A q \in Readers : q # r => g[q] = f[q]
    BY <1>1
  <2> HIDE DEF f, g
  <2>2. g = [f EXCEPT ![r] = y.cursor]
    BY <2>1
  <2>3. QED
    BY <2>2 DEF f, g
<1>7. QED
  BY <1>3, <1>4, <1>5, <1>6, Zenon

\* A reader connects: it attaches to the log.
LEMMA OpenLog ==
    ASSUME IInv, NEW r \in Readers, NEW t \in Tasks, NEW after \in Nat, OpenStream(r, t, after)
    PROVE  Log!LogNext
<1> DEFINE x == [ph |-> "opened", task |-> t, cursor |-> after, inc |-> 0, from |-> 0, seen |-> 0, batch |-> {}]
<1>1. Typed /\ said' = said /\ rd' = [rd EXCEPT ![r] = x] /\ ~Following(r)
  BY DEF IInv, OpenStream
<1>2. x.ph = "opened" /\ x.task = t /\ x.from = 0 /\ x.cursor = after
  OBVIOUS
<1>3. LogView(r) # "reading"
  <2>1. rd[r].ph \in Phases
    BY <1>1 DEF Typed, Subscriptions
  <2>2. QED
    BY <1>1, <2>1 DEF LogView, Phases
<1> HIDE DEF x
<1>4. /\ [q \in Readers |-> LogView(q)]' = [[q \in Readers |-> LogView(q)] EXCEPT ![r] = "reading"]
      /\ [q \in Readers |-> rd[q].task]' = [[q \in Readers |-> rd[q].task] EXCEPT ![r] = t]
      /\ [q \in Readers |-> rd[q].from]' = [[q \in Readers |-> rd[q].from] EXCEPT ![r] = 0]
      /\ [q \in Readers |-> rd[q].cursor]' = [[q \in Readers |-> rd[q].cursor] EXCEPT ![r] = after]
  <2>1. View(x) = "reading"
    BY <1>2 DEF View
  <2>2. /\ [q \in Readers |-> LogView(q)]' = [[q \in Readers |-> LogView(q)] EXCEPT ![r] = View(x)]
        /\ [q \in Readers |-> rd[q].task]' = [[q \in Readers |-> rd[q].task] EXCEPT ![r] = x.task]
        /\ [q \in Readers |-> rd[q].from]' = [[q \in Readers |-> rd[q].from] EXCEPT ![r] = x.from]
        /\ [q \in Readers |-> rd[q].cursor]' = [[q \in Readers |-> rd[q].cursor] EXCEPT ![r] = x.cursor]
    BY <1>1, OneView, Zenon
  <2>3. QED
    BY <1>2, <2>1, <2>2, Zenon
<1>5. [q \in Readers |-> rd[q].cursor]'[r] = after
  BY <1>4
<1>6. Log!Attach(r, t)
  BY <1>1, <1>3, <1>4, <1>5 DEF Log!Attach
<1>7. QED
  BY <1>6 DEF Log!LogNext

\* A reader whose task and place stay what they were changes its mode at most.
LEMMA SamePlace ==
    ASSUME Typed, NEW r \in Readers, NEW y, rd' = [rd EXCEPT ![r] = y],
           y.task = rd[r].task, y.from = rd[r].from, y.cursor = rd[r].cursor
    PROVE  /\ [q \in Readers |-> LogView(q)]' = [[q \in Readers |-> LogView(q)] EXCEPT ![r] = View(y)]
           /\ UNCHANGED <<[q \in Readers |-> rd[q].task], [q \in Readers |-> rd[q].from],
                          [q \in Readers |-> rd[q].cursor]>>
           /\ View(y) = LogView(r) => UNCHANGED Log!reader
<1>1. rd'[r] = y /\ \A q \in Readers : q # r => rd'[q] = rd[q]
  BY DEF Typed
<1>2. \A q \in Readers : rd'[q].task = rd[q].task /\ rd'[q].from = rd[q].from /\ rd'[q].cursor = rd[q].cursor
  BY <1>1
<1>3. UNCHANGED <<[q \in Readers |-> rd[q].task], [q \in Readers |-> rd[q].from],
                  [q \in Readers |-> rd[q].cursor]>>
  <2>1. [q \in Readers |-> rd'[q].task] = [q \in Readers |-> rd[q].task]
    BY <1>2, Zenon
  <2>2. [q \in Readers |-> rd'[q].from] = [q \in Readers |-> rd[q].from]
    BY <1>2, Zenon
  <2>3. [q \in Readers |-> rd'[q].cursor] = [q \in Readers |-> rd[q].cursor]
    BY <1>2, Zenon
  <2>4. QED
    BY <2>1, <2>2, <2>3, Zenon
<1>4. [q \in Readers |-> LogView(q)]' = [[q \in Readers |-> LogView(q)] EXCEPT ![r] = View(y)]
  BY OneView, Zenon
<1>5. ASSUME View(y) = LogView(r) PROVE UNCHANGED Log!reader
  <2>1. [[q \in Readers |-> LogView(q)] EXCEPT ![r] = View(y)] = [q \in Readers |-> LogView(q)]
    BY <1>5
  <2>2. [q \in Readers |-> LogView(q)]' = [q \in Readers |-> LogView(q)]
    BY <1>4, <2>1, Zenon
  <2>3. QED
    BY <1>3, <2>2, Zenon DEF Log!reader
<1>6. QED
  BY <1>3, <1>4, <1>5, Zenon

\* A fetch begins a log, finds the end, is too late, or changes nothing that
\* the log shows.
LEMMA FetchLog ==
    ASSUME IInv, NEW r \in Readers, Fetch(r)
    PROVE  Log!LogNext \/ UNCHANGED Log!lvars
<1> DEFINE t == rd[r].task
           x == rd'[r]
           logs == said'[t]
<1>0. /\ t \in Tasks /\ Answer(rd[r], x, logs) /\ rd' = [rd EXCEPT ![r] = x]
      /\ said' = [said EXCEPT ![t] = logs]
      /\ logs = said[t] \/ (logs = Append(said[t], <<>>) /\ x.ph = "parked" /\ ~stream[t].present)
  <2>1. t = rd[r].task /\ x = rd'[r] /\ logs = said'[t]
    OBVIOUS
  <2> HIDE DEF t, x, logs
  <2>2. QED
    BY <2>1, Fetched
<1>1. /\ t \in Tasks /\ x \in Subscriptions /\ rd' = [rd EXCEPT ![r] = x]
      /\ x.task = t /\ x.cursor = rd[r].cursor /\ x.from = rd[r].from
      /\ logs \in Seq(Seq(Events)) /\ logs # <<>> /\ Last(logs) \in Seq(Events)
      /\ x.inc = Len(logs) /\ x.seen = Len(Last(logs))
      /\ said' = [said EXCEPT ![t] = logs]
      /\ logs = said[t] \/ (logs = Append(said[t], <<>>) /\ x.ph = "parked" /\ ~stream[t].present)
      /\ x.ph \in {"yielding", "expired", "ended", "parked"}
      /\ x.ph = "expired" => x.cursor < x.seen
      /\ x.ph = "ended" => x.cursor >= x.seen /\ HasEnded(Last(logs))
  <2> HIDE DEF x, logs
  <2>1. QED
    BY <1>0 DEF Answer
<1>2. Typed /\ InOrder /\ rd[r].ph = "opened" /\ LogView(r) = "reading"
  BY DEF IInv, Fetch, LogView, Following
<1> HIDE DEF x, logs
<1>3. /\ [q \in Readers |-> LogView(q)]' = [[q \in Readers |-> LogView(q)] EXCEPT ![r] = View(x)]
      /\ UNCHANGED <<[q \in Readers |-> rd[q].task], [q \in Readers |-> rd[q].from],
                     [q \in Readers |-> rd[q].cursor]>>
      /\ View(x) = LogView(r) => UNCHANGED Log!reader
  BY <1>1, <1>2, SamePlace, Zenon DEF t
<1>4. \/ x.ph \in {"yielding", "parked"} /\ View(x) = "reading"
      \/ x.ph \in {"expired", "ended"} /\ View(x) = x.ph
  BY <1>1 DEF View
<1>5. CASE logs = Append(said[t], <<>>) /\ x.ph = "parked" /\ ~stream[t].present
  <2>1. UNCHANGED Log!reader
    BY <1>2, <1>3, <1>4, <1>5
  <2>2. said[t] \in Seq(Seq(Events)) /\ \A k \in DOMAIN said[t] : HasEnded(said[t][k])
    BY <1>1, <1>2, <1>5 DEF Typed, InOrder, Ordered
  <2>3. \A k \in DOMAIN said[t] : Log!Closed(said[t][k])
    BY <2>2, ClosedIsEnded
  <2>4. Log!Open(t, <<>>)
    BY <1>1, <1>5, <2>1, <2>3 DEF Log!Open
  <2>5. QED
    BY <1>1, <2>4 DEF Log!LogNext
<1>6. CASE logs = said[t]
  <2>1. said' = said
    BY <1>1, <1>2, <1>6 DEF Typed
  <2>2. CASE View(x) = "reading"
    BY <1>2, <1>3, <2>1, <2>2 DEF Log!lvars, Log!reader
  <2> DEFINE k == Len(logs)
  <2>3. k \in DOMAIN said[t] /\ said[t][k] = Last(logs) /\ x.cursor \in Nat
    BY <1>1, <1>6 DEF Last, Subscriptions
  <2> HIDE DEF k
  <2>4. CASE x.ph = "expired"
    <3>1. [q \in Readers |-> rd[q].task][r] = t /\ [q \in Readers |-> rd[q].cursor][r] = x.cursor
      BY <1>1 DEF t
    <3>2. x.cursor < Len(said[t][k]) /\ View(x) = "expired"
      BY <1>1, <1>4, <2>3, <2>4
    <3>3. Log!TooLate(r)
      BY <1>2, <1>3, <2>1, <2>3, <3>1, <3>2 DEF Log!TooLate
    <3>4. QED
      BY <3>3 DEF Log!LogNext
  <2>5. CASE x.ph = "ended"
    <3>1. [q \in Readers |-> rd[q].task][r] = t /\ [q \in Readers |-> rd[q].cursor][r] = x.cursor
      BY <1>1 DEF t
    <3>2. x.cursor >= Len(said[t][k]) /\ View(x) = "ended" /\ Log!Closed(said[t][k])
      BY <1>1, <1>4, <2>3, <2>5, ClosedIsEnded
    <3>3. Log!AtEnd(r)
      BY <1>2, <1>3, <2>1, <2>3, <3>1, <3>2 DEF Log!AtEnd
    <3>4. QED
      BY <3>3 DEF Log!LogNext
  <2>6. QED
    BY <1>4, <2>2, <2>4, <2>5
<1>7. QED
  BY <1>1, <1>5, <1>6

\* An event is handed out: it is delivered, the next one of the same log.
LEMMA YieldLog == ASSUME IInv, NEW r \in Readers, Yield(r) PROVE Log!LogNext
<1> DEFINE x == rd[r]
           y == rd'[r]
           log == said[x.task][x.inc]
<1>0. HandsOut(x, y, log) /\ rd' = [rd EXCEPT ![r] = y] /\ x.inc \in DOMAIN said[x.task]
  <2>1. x = rd[r] /\ y = rd'[r] /\ log = said[x.task][x.inc]
    OBVIOUS
  <2> HIDE DEF x, y, log
  <2>2. QED
    BY <2>1, Yielded
<1>1. /\ x \in Subscriptions /\ y \in Subscriptions /\ rd' = [rd EXCEPT ![r] = y]
      /\ x.ph = "yielding" /\ x.inc \in DOMAIN said[x.task] /\ x.from \in {0, x.inc}
      /\ log \in Seq(Events) /\ x.cursor < Len(log)
      /\ y.task = x.task /\ y.from = x.inc /\ y.cursor = x.cursor + 1
      /\ IsTerminal(log[y.cursor]) => y.ph = "ended"
      /\ ~IsTerminal(log[y.cursor]) => y.ph \in {"parked", "yielding"}
  <2> HIDE DEF x, y, log
  <2>1. QED
    BY <1>0 DEF HandsOut
<1>2. Typed /\ said' = said /\ LogView(r) = "reading"
  BY <1>1 DEF IInv, Yield, LogView, Following
<1>3. /\ [q \in Readers |-> rd[q].task][r] = x.task
      /\ [q \in Readers |-> rd[q].from][r] = x.from
      /\ [q \in Readers |-> rd[q].cursor][r] = x.cursor
      /\ [q \in Readers |-> LogView(q)][r] = "reading"
  BY <1>2
<1> HIDE DEF y
<1>4. /\ [q \in Readers |-> LogView(q)]' = [[q \in Readers |-> LogView(q)] EXCEPT ![r] = View(y)]
      /\ [q \in Readers |-> rd[q].task]' = [[q \in Readers |-> rd[q].task] EXCEPT ![r] = x.task]
      /\ [q \in Readers |-> rd[q].from]' = [[q \in Readers |-> rd[q].from] EXCEPT ![r] = x.inc]
      /\ [q \in Readers |-> rd[q].cursor]' = [[q \in Readers |-> rd[q].cursor] EXCEPT ![r] = x.cursor + 1]
  <2> HIDE DEF x, log
  <2>1. /\ [q \in Readers |-> LogView(q)]' = [[q \in Readers |-> LogView(q)] EXCEPT ![r] = View(y)]
        /\ [q \in Readers |-> rd[q].task]' = [[q \in Readers |-> rd[q].task] EXCEPT ![r] = y.task]
        /\ [q \in Readers |-> rd[q].from]' = [[q \in Readers |-> rd[q].from] EXCEPT ![r] = y.from]
        /\ [q \in Readers |-> rd[q].cursor]' = [[q \in Readers |-> rd[q].cursor] EXCEPT ![r] = y.cursor]
    BY <1>1, <1>2, OneView, Zenon
  <2>2. QED
    BY <1>1, <2>1, Zenon
<1>5. [q \in Readers |-> rd[q].task]' = [q \in Readers |-> rd[q].task]
  <2> DEFINE f == [q \in Readers |-> rd[q].task]
  <2>1. [f EXCEPT ![r] = x.task] = f
    OBVIOUS
  <2>2. QED
    BY <1>4, <2>1, Zenon
<1> HIDE DEF x, log
<1>6. View(y) = IF IsTerminal(log[x.cursor + 1]) THEN "ended" ELSE "reading"
  BY <1>1 DEF View
<1>7. log[x.cursor + 1] \in Said \cup {CancelledEvent}
  <2>1. x.cursor + 1 \in 1..Len(log)
    BY <1>1 DEF Subscriptions
  <2>2. QED
    BY <1>1, <2>1, ElementOfSeq DEF Events
<1>8. View(y) = IF log[x.cursor + 1] \in {e \in Said \cup {CancelledEvent} : IsTerminal(e)} THEN "ended" ELSE "reading"
  BY <1>6, <1>7
<1>9. log = said[x.task][x.inc]
  BY DEF log
<1>10. Log!Deliver(r)
  BY <1>1, <1>2, <1>3, <1>4, <1>5, <1>8, <1>9 DEF Log!Deliver
<1>11. QED
  BY <1>10 DEF Log!LogNext

\* A subscription that wakes up shows nothing, one that is given up leaves.
LEMMA RestLog ==
    ASSUME IInv, NEW r \in Readers, Wake(r) \/ Disconnect(r)
    PROVE  Log!LogNext \/ UNCHANGED Log!lvars
<1> DEFINE y == rd'[r]
<1>1. Typed /\ said' = said /\ rd[r] \in Subscriptions /\ LogView(r) = "reading"
  BY DEF IInv, Wake, Disconnect, Typed, LogView, Following
<1>2. CASE Wake(r)
  <2>1. rd' = [rd EXCEPT ![r] = [rd[r] EXCEPT !.ph = "opened"]]
    BY <1>1, <1>2 DEF Wake, Typed
  <2>2. y = [rd[r] EXCEPT !.ph = "opened"]
    BY <1>1, <2>1 DEF Typed
  <2> HIDE DEF y
  <2>3. /\ y.task = rd[r].task /\ y.from = rd[r].from /\ y.cursor = rd[r].cursor
        /\ View(y) = LogView(r) /\ rd' = [rd EXCEPT ![r] = y]
    BY <1>1, <2>1, <2>2 DEF Subscriptions, View
  <2>4. UNCHANGED Log!reader
    BY <1>1, <2>3, SamePlace, Zenon
  <2>5. QED
    BY <1>1, <2>4 DEF Log!lvars, Log!reader
<1>3. CASE Disconnect(r)
  <2>1. rd' = [rd EXCEPT ![r] = [rd[r] EXCEPT !.ph = "away", !.batch = {}]]
    BY <1>1, <1>3 DEF Disconnect, Typed, Subscriptions
  <2>2. y = [rd[r] EXCEPT !.ph = "away", !.batch = {}]
    BY <1>1, <2>1 DEF Typed
  <2> HIDE DEF y
  <2>3. /\ y.task = rd[r].task /\ y.from = rd[r].from /\ y.cursor = rd[r].cursor
        /\ View(y) = "away" /\ rd' = [rd EXCEPT ![r] = y]
    BY <1>1, <2>1, <2>2 DEF Subscriptions, View
  <2>4. /\ [q \in Readers |-> LogView(q)]' = [[q \in Readers |-> LogView(q)] EXCEPT ![r] = View(y)]
        /\ UNCHANGED <<[q \in Readers |-> rd[q].task], [q \in Readers |-> rd[q].from],
                       [q \in Readers |-> rd[q].cursor]>>
    BY <1>1, <2>3, SamePlace, Zenon
  <2>5. Log!Leave(r)
    BY <1>1, <2>3, <2>4 DEF Log!Leave
  <2>6. QED
    BY <2>5 DEF Log!LogNext
<1>4. QED
  BY <1>2, <1>3

\* A step of a task says something or shows nothing.
LEMMA TaskLog ==
    ASSUME IInv, NEW t \in Tasks, TaskStep(t)
    PROVE  Log!LogNext \/ UNCHANGED Log!lvars
<1>1. CASE \E e \in Said : Publish(t, e)
  <2>1. PICK e \in Said : Publish(t, e)
    BY <1>1
  <2>2. e \in Events /\ AppendTo(t, e) /\ rd' = rd
    BY <2>1 DEF Publish, Events
  <2>3. QED
    BY <2>2, AppendLog
<1>2. ASSUME said' = said, rd' = rd PROVE UNCHANGED Log!lvars
  BY <1>2 DEF Log!lvars, LogView, Following
<1>3. CASE CancelHook(t)
  <2>1. CancelledEvent \in Events
    BY DEF Events
  <2>2. QED
    BY <1>2, <1>3, <2>1, AppendLog DEF CancelHook
<1>4. CASE TaskOver(t)
  BY <1>2, <1>4 DEF TaskOver
<1>5. QED
  BY <1>1, <1>3, <1>4 DEF TaskStep

\* Every step is a step of the log or shows nothing.
LEMMA NextLog == IInv /\ [Next]_vars => [Log!LogNext]_(Log!lvars)
<1> SUFFICES ASSUME IInv, [Next]_vars PROVE Log!LogNext \/ UNCHANGED Log!lvars
  OBVIOUS
<1>0. Typed
  BY DEF IInv
<1>1. ASSUME NEW r \in Readers, ReaderStep(r) PROVE Log!LogNext \/ UNCHANGED Log!lvars
  BY <1>1, FetchLog, YieldLog, RestLog DEF ReaderStep
<1>2. ASSUME NEW r \in Readers, BrowserStep(r) PROVE Log!LogNext \/ UNCHANGED Log!lvars
  <2>1. CASE Disconnect(r)
    BY <2>1, RestLog
  <2>2. CASE Resume(r)
    BY <1>0, <2>2, Connecting, OpenLog
  <2>3. CASE \E t \in Tasks : StartOver(r, t) \/ Hydrate(r, t)
    <3>1. PICK t \in Tasks : StartOver(r, t) \/ Hydrate(r, t)
      BY <2>3
    <3>2. PICK after \in Nat : OpenStream(r, t, after)
      BY <1>0, <3>1, Connecting
    <3>3. QED
      BY <3>2, OpenLog
  <2>4. QED
    BY <1>2, <2>1, <2>2, <2>3 DEF BrowserStep
<1>3. CASE UNCHANGED vars
  BY <1>3 DEF vars, Log!lvars, LogView, Following
<1>4. QED
  BY <1>1, <1>2, <1>3, TaskLog DEF Next

-----------------------------------------------------------------------------
(***************************************************************************)
(* The theorems.                                                           *)
(***************************************************************************)

\* The buffer holds the last of what was said, a stream that is gone had
\* ended, and every subscription is where its cursor says, at all times.
THEOREM AlwaysIInv == Spec => []IInv
<1>1. Init => IInv
  BY InitIInv
<1>2. IInv /\ [Next]_vars => IInv'
  BY NextIInv
<1>3. QED
  BY <1>1, <1>2, PTL DEF Spec

\* For any number of tasks and readers and any limits, ChatTaskEventBuffer
\* and its subscriptions give every reader what an unbounded log would: each
\* event once, in order, none skipped and never two streams mixed, or the news
\* that it is too late.
THEOREM BufferImplementsLog == Spec => SeesTheLog
<1>1. Init => Log!LogInit
  BY InitLog
<1>2. IInv /\ [Next]_vars => [Log!LogNext]_(Log!lvars)
  BY NextLog
<1>3. Spec => []IInv
  BY AlwaysIInv
<1>4. Spec => Log!LogSpec
  BY <1>1, <1>2, <1>3, PTL DEF Spec, Log!LogSpec
<1>5. QED
  BY <1>4 DEF SeesTheLog

-----------------------------------------------------------------------------
(***************************************************************************)
(* The replay projection.  It is kept event by event; what it is compared  *)
(* with is computed from the whole log.                                    *)
(***************************************************************************)

ToolKinds == {"tool_call_started", "tool_call_finished"}
ResetKinds == {"chat_retry_scheduled", "chat_retry_redirect"}

\* Where the events of some kinds are in a log, and the newest of them.
Where(log, ks) == {n \in DOMAIN log : log[n].kind \in ks}
Newest(log, ks) == LastOf(Where(log, ks))
OfCall(log, id) == {n \in DOMAIN log : log[n].tool = id}

\* The pieces of text since the last restart of the answer.
Texts(log, k) == {n \in Where(log, {k}) : n > Newest(log, ResetKinds)}

\* The projected tool calls against the log: each once, with its newest event,
\* and the newest call is among them.
ToolsReplay(tools, log) ==
    /\ \A i, j \in DOMAIN tools : tools[i].id = tools[j].id => i = j
    /\ Len(tools) <= MaxProjectedTools
    /\ \A i \in DOMAIN tools : tools[i].latest = LastOf(OfCall(log, tools[i].id))
    /\ Newest(log, ToolKinds) \in 0..Len(log)
    /\ Newest(log, ToolKinds) > 0 =>
          \E i \in DOMAIN tools : tools[i].id = log[Newest(log, ToolKinds)].tool

Replays(p, log) ==
    /\ p.response = Texts(log, "delta")
    /\ p.reasoning = Texts(log, "thinking_delta")
    /\ p.review = Newest(log, {"review_required"})
    /\ p.terminal = Newest(log, TerminalKinds)
    /\ Newest(log, ResetKinds) \in 0..Len(log)
    /\ ToolsReplay(p.tools, log)

Replayed ==
    /\ order \in Seq(Tasks)
    /\ \A t \in Tasks : stream[t].present => Replays(stream[t].proj, Last(said[t]))

\* The greatest of a set of numbers that was extended by a greater one.
LEMMA LastOfTop ==
    ASSUME NEW n \in Nat, NEW S \in SUBSET (1..n)
    PROVE  LastOf(S \cup {n + 1}) = n + 1
<1> DEFINE T == S \cup {n + 1}
<1>1. \A m \in T : m \in Nat /\ m <= n + 1
  OBVIOUS
<1>2. n + 1 \in T /\ T # {}
  OBVIOUS
<1> HIDE DEF T
<1>3. \A k \in T : (\A m \in T : m <= k) => k = n + 1
  BY <1>1, <1>2
<1>4. (CHOOSE k \in T : \A m \in T : m <= k) = n + 1
  BY <1>1, <1>2, <1>3
<1>5. LastOf(T) = n + 1
  BY <1>2, <1>4 DEF LastOf
<1>6. QED
  BY <1>5 DEF T

\* A log with one more event.
LEMMA OneMore ==
    ASSUME NEW log \in Seq(Events), NEW e \in Events
    PROVE  /\ Append(log, e) \in Seq(Events) /\ Len(Append(log, e)) = Len(log) + 1
           /\ DOMAIN Append(log, e) = 1..(Len(log) + 1) /\ DOMAIN log = 1..Len(log)
           /\ Len(log) \in Nat
           /\ Append(log, e)[Len(log) + 1] = e
           /\ \A n \in 1..Len(log) : Append(log, e)[n] = log[n]
OBVIOUS

\* The newest event of some kinds, after one more event.
LEMMA NewestMore ==
    ASSUME NEW log \in Seq(Events), NEW e \in Events, NEW ks
    PROVE  /\ Where(log, ks) \in SUBSET (1..Len(log))
           /\ e.kind \in ks => Where(Append(log, e), ks) = Where(log, ks) \cup {Len(log) + 1}
           /\ e.kind \notin ks => Where(Append(log, e), ks) = Where(log, ks)
           /\ e.kind \in ks => Newest(Append(log, e), ks) = Len(log) + 1
           /\ e.kind \notin ks => Newest(Append(log, e), ks) = Newest(log, ks)
<1> DEFINE n == Len(log)
           lg == Append(log, e)
<1>1. /\ n \in Nat /\ DOMAIN log = 1..n /\ DOMAIN lg = 1..(n + 1) /\ lg[n + 1] = e
      /\ \A m \in 1..n : lg[m] = log[m]
  BY OneMore
<1> HIDE DEF n, lg
<1>2. Where(log, ks) \in SUBSET (1..n)
  BY <1>1 DEF Where
<1>3. \A m : m \in 1..(n + 1) <=> m \in 1..n \/ m = n + 1
  BY <1>1
<1>4. e.kind \in ks => Where(lg, ks) = Where(log, ks) \cup {n + 1}
  BY <1>1, <1>3 DEF Where
<1>5. e.kind \notin ks => Where(lg, ks) = Where(log, ks)
  BY <1>1, <1>3 DEF Where
<1>6. e.kind \in ks => Newest(lg, ks) = n + 1
  BY <1>1, <1>2, <1>4, LastOfTop DEF Newest
<1>7. QED
  BY <1>2, <1>4, <1>5, <1>6 DEF Newest, n, lg

\* The newest event of a tool call, after one more event.
LEMMA CallMore ==
    ASSUME NEW log \in Seq(Events), NEW e \in Events, NEW id
    PROVE  /\ e.tool = id => LastOf(OfCall(Append(log, e), id)) = Len(log) + 1
           /\ e.tool # id => LastOf(OfCall(Append(log, e), id)) = LastOf(OfCall(log, id))
<1> DEFINE n == Len(log)
           lg == Append(log, e)
<1>1. /\ n \in Nat /\ DOMAIN log = 1..n /\ DOMAIN lg = 1..(n + 1) /\ lg[n + 1] = e
      /\ \A m \in 1..n : lg[m] = log[m]
  BY OneMore
<1> HIDE DEF n, lg
<1>2. OfCall(log, id) \in SUBSET (1..n)
  BY <1>1 DEF OfCall
<1>3. \A m : m \in 1..(n + 1) <=> m \in 1..n \/ m = n + 1
  BY <1>1
<1>4. e.tool = id => OfCall(lg, id) = OfCall(log, id) \cup {n + 1}
  BY <1>1, <1>3 DEF OfCall
<1>5. e.tool # id => OfCall(lg, id) = OfCall(log, id)
  BY <1>1, <1>3 DEF OfCall
<1>6. e.tool = id => LastOf(OfCall(lg, id)) = n + 1
  BY <1>1, <1>2, <1>4, LastOfTop
<1>7. QED
  BY <1>5, <1>6 DEF n, lg

\* The text, after one more event: longer, empty or the same.
LEMMA TextsMore ==
    ASSUME NEW log \in Seq(Events), NEW e \in Events, NEW k, k \notin ResetKinds,
           Newest(log, ResetKinds) \in 0..Len(log)
    PROVE  /\ e.kind = k => Texts(Append(log, e), k) = Texts(log, k) \cup {Len(log) + 1}
           /\ e.kind \in ResetKinds => Texts(Append(log, e), k) = {}
           /\ e.kind # k /\ e.kind \notin ResetKinds => Texts(Append(log, e), k) = Texts(log, k)
           /\ Newest(Append(log, e), ResetKinds) \in 0..(Len(log) + 1)
<1> DEFINE lg == Append(log, e)
           n == Len(log)
           old == Newest(log, ResetKinds)
           new == Newest(lg, ResetKinds)
<1>1. /\ Where(log, {k}) \in SUBSET (1..n) /\ n \in Nat /\ old \in 0..n
      /\ e.kind = k => Where(lg, {k}) = Where(log, {k}) \cup {n + 1}
      /\ e.kind # k => Where(lg, {k}) = Where(log, {k})
      /\ e.kind \in ResetKinds => new = n + 1
      /\ e.kind \notin ResetKinds => new = old
  <2>1. /\ Where(log, {k}) \in SUBSET (1..n)
        /\ e.kind \in {k} => Where(lg, {k}) = Where(log, {k}) \cup {n + 1}
        /\ e.kind \notin {k} => Where(lg, {k}) = Where(log, {k})
    BY NewestMore
  <2>2. /\ e.kind \in ResetKinds => new = n + 1
        /\ e.kind \notin ResetKinds => new = old
    BY NewestMore
  <2>3. n \in Nat /\ old \in 0..n
    BY OneMore
  <2> HIDE DEF lg, n, old, new
  <2>4. QED
    BY <2>1, <2>2, <2>3
<1> HIDE DEF lg, n, old, new
<1>2. ASSUME e.kind = k PROVE Texts(lg, k) = Texts(log, k) \cup {n + 1}
  <2>1. new = old /\ Where(lg, {k}) = Where(log, {k}) \cup {n + 1}
    BY <1>1, <1>2
  <2>2. n + 1 > old
    BY <1>1
  <2>3. QED
    BY <2>1, <2>2 DEF Texts, old, new
<1>3. ASSUME e.kind \in ResetKinds PROVE Texts(lg, k) = {}
  <2>1. new = n + 1 /\ Where(lg, {k}) = Where(log, {k})
    BY <1>1, <1>3
  <2>2. \A m \in Where(lg, {k}) : ~(m > n + 1)
    BY <1>1, <2>1
  <2>3. QED
    BY <2>1, <2>2 DEF Texts, new
<1>4. ASSUME e.kind # k, e.kind \notin ResetKinds PROVE Texts(lg, k) = Texts(log, k)
  BY <1>1, <1>4 DEF Texts, old, new
<1>5. new \in 0..(n + 1)
  BY <1>1
<1>6. QED
  BY <1>2, <1>3, <1>4, <1>5 DEF lg, n, new


\* Only tool events name a tool.
LEMMA NamesNoTool ==
    ASSUME NEW e \in Events, e.kind \notin ToolKinds
    PROVE  e.tool \notin Tools
<1>1. e.tool = NoTool
  BY DEF Events, Said, CancelledEvent, ToolKinds
<1>2. QED
  BY <1>1, BufferAssumption

\* An event that is not a tool's leaves the projected calls right.
LEMMA ToolsSame ==
    ASSUME NEW tools \in Seq(ToolStates), NEW log \in Seq(Events), NEW e \in Events,
           e.kind \notin ToolKinds, ToolsReplay(tools, log)
    PROVE  ToolsReplay(tools, Append(log, e))
<1> DEFINE lg == Append(log, e)
           top == Newest(log, ToolKinds)
<1>1. Newest(lg, ToolKinds) = top
  BY NewestMore
<1>2. Len(lg) = Len(log) + 1 /\ Len(log) \in Nat /\ \A m \in 1..Len(log) : lg[m] = log[m]
  BY OneMore
<1>3. ASSUME NEW i \in DOMAIN tools PROVE tools[i].latest = LastOf(OfCall(lg, tools[i].id))
  <2>1. tools[i] \in ToolStates
    BY ElementOfSeq, LenProperties
  <2>2. tools[i].id \in Tools
    BY <2>1 DEF ToolStates
  <2>3. e.tool # tools[i].id
    BY <2>2, NamesNoTool
  <2>4. LastOf(OfCall(lg, tools[i].id)) = LastOf(OfCall(log, tools[i].id))
    BY <2>3, CallMore
  <2>5. QED
    BY <2>4 DEF ToolsReplay
<1> HIDE DEF lg
<1>4. /\ top \in 0..Len(log)
      /\ top > 0 => \E i \in DOMAIN tools : tools[i].id = log[top].tool
  BY DEF ToolsReplay
<1> HIDE DEF top
<1>5. top \in 0..Len(lg) /\ (top > 0 => lg[top] = log[top])
  BY <1>2, <1>4
<1>6. top > 0 => \E i \in DOMAIN tools : tools[i].id = lg[top].tool
  BY <1>4, <1>5
<1>7. QED
  BY <1>1, <1>3, <1>5, <1>6 DEF ToolsReplay, lg

\* Some of the calls of a dictionary, each once and with its newest event.
Calls(tools, log) ==
    /\ \A i, j \in DOMAIN tools : tools[i].id = tools[j].id => i = j
    /\ \A i \in DOMAIN tools : tools[i].latest = LastOf(OfCall(log, tools[i].id))

\* Room is made for a call: the others keep their place and their newest event.
LEMMA RoomMade ==
    ASSUME NEW tools \in Seq(ToolStates), NEW log, ToolsReplay(tools, log), NEW id
    PROVE  /\ RoomFor(tools, id) \in Seq(ToolStates)
           /\ Calls(RoomFor(tools, id), log)
           /\ Len(RoomFor(tools, id)) <= MaxProjectedTools
           /\ ToolIndex(RoomFor(tools, id), id) = {} => Len(RoomFor(tools, id)) < MaxProjectedTools
<1>1. Len(tools) \in Nat /\ Len(tools) <= MaxProjectedTools /\ DOMAIN tools = 1..Len(tools)
  BY DEF ToolsReplay
<1>2. CASE ToolIndex(tools, id) = {} /\ Len(tools) >= MaxProjectedTools
  <2>1. tools # <<>>
    BY <1>1, <1>2, BufferAssumption
  <2>2. RoomFor(tools, id) = Tail(tools)
    BY <1>2 DEF RoomFor
  <2> DEFINE rest == Tail(tools)
  <2>3. /\ rest \in Seq(ToolStates) /\ Len(rest) = Len(tools) - 1
        /\ \A i \in 1..Len(rest) : rest[i] = tools[i + 1]
    BY <2>1, HeadTailProperties
  <2> HIDE DEF rest
  <2>4. DOMAIN rest = 1..Len(rest) /\ Len(rest) \in Nat /\ Len(rest) < MaxProjectedTools
    BY <1>1, <2>3, BufferAssumption
  <2>5. \A i \in DOMAIN rest : i + 1 \in DOMAIN tools /\ rest[i] = tools[i + 1]
    BY <1>1, <2>3, <2>4
  <2>6. ASSUME NEW i \in DOMAIN rest, NEW j \in DOMAIN rest, rest[i].id = rest[j].id
        PROVE  i = j
    <3>1. i + 1 = j + 1
      BY <2>5, <2>6 DEF ToolsReplay
    <3>2. i \in Nat /\ j \in Nat
      BY <2>4
    <3>3. QED
      BY <3>1, <3>2
  <2>7. \A i \in DOMAIN rest : rest[i].latest = LastOf(OfCall(log, rest[i].id))
    BY <2>5 DEF ToolsReplay
  <2>8. Len(rest) <= MaxProjectedTools
    BY <2>4, BufferAssumption
  <2>9. RoomFor(tools, id) = rest
    BY <2>2 DEF rest
  <2>10. QED
    BY <2>3, <2>4, <2>6, <2>7, <2>8, <2>9 DEF Calls
<1>3. CASE ~(ToolIndex(tools, id) = {} /\ Len(tools) >= MaxProjectedTools)
  <2>1. RoomFor(tools, id) = tools
    BY <1>3 DEF RoomFor
  <2>2. ToolIndex(tools, id) = {} => Len(tools) < MaxProjectedTools
    BY <1>1, <1>3, BufferAssumption
  <2>3. QED
    BY <1>1, <2>1, <2>2 DEF Calls, ToolsReplay
<1>4. QED
  BY <1>2, <1>3

\* A call that is not projected yet is added.
LEMMA ToolAdded ==
    ASSUME NEW room \in Seq(ToolStates), NEW log \in Seq(Events), NEW e \in Events,
           e.kind \in ToolKinds, Calls(room, log), Len(room) < MaxProjectedTools,
           ToolIndex(room, e.tool) = {},
           NEW x \in ToolStates, x.id = e.tool, x.latest = Len(log) + 1
    PROVE  ToolsReplay(Append(room, x), Append(log, e))
<1> SUFFICES ASSUME NEW new, new = Append(room, x), NEW lg, lg = Append(log, e)
             PROVE  ToolsReplay(new, lg)
  OBVIOUS
<1>1. /\ Len(new) = Len(room) + 1 /\ new[Len(room) + 1] = x
      /\ \A i \in 1..Len(room) : new[i] = room[i]
      /\ DOMAIN new = 1..(Len(room) + 1) /\ DOMAIN room = 1..Len(room) /\ Len(room) \in Nat
  OBVIOUS
<1>2. \A i \in DOMAIN room : room[i].id # e.tool
  BY DEF ToolIndex
<1>3. \A i \in DOMAIN new : (i \in DOMAIN room /\ new[i] = room[i]) \/ (i = Len(room) + 1 /\ new[i] = x)
  BY <1>1
<1>4. ASSUME NEW i \in DOMAIN new, NEW j \in DOMAIN new, new[i].id = new[j].id
      PROVE  i = j
  <2>1. CASE i \in DOMAIN room /\ new[i] = room[i] /\ j \in DOMAIN room /\ new[j] = room[j]
    BY <1>4, <2>1 DEF Calls
  <2>2. \A k \in DOMAIN room : room[k].id # x.id
    BY <1>2
  <2>3. CASE i \in DOMAIN room /\ new[i] = room[i] /\ new[j] = x
    BY <1>4, <2>2, <2>3
  <2>4. CASE j \in DOMAIN room /\ new[j] = room[j] /\ new[i] = x
    BY <1>4, <2>2, <2>4
  <2>5. CASE i = Len(room) + 1 /\ j = Len(room) + 1
    BY <2>5
  <2>6. QED
    BY <1>3, <2>1, <2>3, <2>4, <2>5
<1>5. Len(new) <= MaxProjectedTools
  BY <1>1, BufferAssumption
<1>6. ASSUME NEW i \in DOMAIN new PROVE new[i].latest = LastOf(OfCall(lg, new[i].id))
  <2>1. CASE i \in DOMAIN room /\ new[i] = room[i]
    <3>1. e.tool # room[i].id
      BY <1>2, <2>1
    <3>2. LastOf(OfCall(lg, room[i].id)) = LastOf(OfCall(log, room[i].id))
      BY <3>1, CallMore
    <3>3. QED
      BY <2>1, <3>2 DEF Calls
  <2>2. CASE new[i] = x
    <3>1. LastOf(OfCall(lg, x.id)) = Len(log) + 1
      BY CallMore
    <3>2. QED
      BY <2>2, <3>1
  <2>3. QED
    BY <1>3, <2>1, <2>2
<1>7. Newest(lg, ToolKinds) = Len(log) + 1 /\ Len(lg) = Len(log) + 1 /\ Len(log) \in Nat /\ lg[Len(log) + 1] = e
  BY NewestMore, OneMore
<1>8. Newest(lg, ToolKinds) \in 0..Len(lg)
  BY <1>7
<1>9. \E i \in DOMAIN new : new[i].id = lg[Newest(lg, ToolKinds)].tool
  <2>1. lg[Newest(lg, ToolKinds)] = e
    BY <1>7, Zenon
  <2>2. Len(room) + 1 \in DOMAIN new
    BY <1>1
  <2>3. new[Len(room) + 1].id = e.tool
    BY <1>1, Zenon
  <2>4. QED
    BY <2>1, <2>2, <2>3, Zenon
<1>10. QED
  BY <1>4, <1>5, <1>6, <1>8, <1>9 DEF ToolsReplay

\* A call that is projected is brought up to date.
LEMMA ToolUpdated ==
    ASSUME NEW room \in Seq(ToolStates), NEW log \in Seq(Events), NEW e \in Events,
           e.kind \in ToolKinds, Calls(room, log), Len(room) <= MaxProjectedTools,
           ToolIndex(room, e.tool) # {},
           NEW new \in Seq(ToolStates), Len(new) = Len(room),
           \A i \in DOMAIN room : /\ new[i].id = room[i].id
                                  /\ room[i].id # e.tool => new[i] = room[i]
                                  /\ room[i].id = e.tool => new[i].latest = Len(log) + 1
    PROVE  ToolsReplay(new, Append(log, e))
<1> SUFFICES ASSUME NEW lg, lg = Append(log, e)
             PROVE  ToolsReplay(new, lg)
  OBVIOUS
<1>1. DOMAIN new = DOMAIN room
  BY LenProperties
<1>2. \A i, j \in DOMAIN new : new[i].id = new[j].id => i = j
  BY <1>1 DEF Calls
<1>3. ASSUME NEW i \in DOMAIN new PROVE new[i].latest = LastOf(OfCall(lg, new[i].id))
  <2>1. CASE room[i].id # e.tool
    <3>1. LastOf(OfCall(lg, room[i].id)) = LastOf(OfCall(log, room[i].id))
      BY <2>1, CallMore
    <3>2. QED
      BY <1>1, <2>1, <3>1 DEF Calls
  <2>2. CASE room[i].id = e.tool
    <3>1. LastOf(OfCall(lg, room[i].id)) = Len(log) + 1
      BY <2>2, CallMore
    <3>2. QED
      BY <1>1, <2>2, <3>1
  <2>3. QED
    BY <2>1, <2>2
<1>4. Newest(lg, ToolKinds) = Len(log) + 1 /\ Len(lg) = Len(log) + 1 /\ Len(log) \in Nat /\ lg[Len(log) + 1] = e
  BY NewestMore, OneMore
<1>5. Newest(lg, ToolKinds) \in 0..Len(lg)
  BY <1>4
<1>6. \E i \in DOMAIN new : new[i].id = lg[Newest(lg, ToolKinds)].tool
  <2>1. lg[Newest(lg, ToolKinds)] = e
    BY <1>4, Zenon
  <2>2. PICK i \in DOMAIN room : room[i].id = e.tool
    BY DEF ToolIndex
  <2>3. i \in DOMAIN new /\ new[i].id = e.tool
    BY <1>1, <2>2
  <2>4. QED
    BY <2>1, <2>3, Zenon
<1>7. QED
  BY <1>2, <1>3, <1>5, <1>6 DEF ToolsReplay

\* A tool event keeps the projected calls right.
LEMMA ToolsMore ==
    ASSUME NEW tools \in Seq(ToolStates), NEW log \in Seq(Events), NEW e \in Events,
           e.kind \in ToolKinds, ToolsReplay(tools, log), NEW n \in Nat, n = Len(log) + 1
    PROVE  ToolsReplay(WithTool(tools, e, n), Append(log, e))
<1> DEFINE start == e.kind = "tool_call_started"
           fresh == [id |-> e.tool, started |-> IF start THEN n ELSE 0, latest |-> n]
<1>0. e.tool \in Tools
  BY EventKinds DEF ToolKinds
<1>1. SUFFICES ASSUME NEW room \in Seq(ToolStates), room = RoomFor(tools, e.tool),
                      Calls(room, log), Len(room) <= MaxProjectedTools,
                      ToolIndex(room, e.tool) = {} => Len(room) < MaxProjectedTools
               PROVE  ToolsReplay(WithTool(tools, e, n), Append(log, e))
  BY RoomMade
<1>2. CASE ToolIndex(room, e.tool) = {}
  <2>1. WithTool(tools, e, n) = Append(room, fresh)
    BY <1>1, <1>2 DEF WithTool
  <2>2. fresh \in ToolStates /\ fresh.id = e.tool /\ fresh.latest = Len(log) + 1
    BY <1>0 DEF ToolStates
  <2> HIDE DEF fresh
  <2>3. QED
    BY <1>1, <1>2, <2>1, <2>2, ToolAdded
<1>3. CASE ToolIndex(room, e.tool) # {}
  <2> DEFINE upd == [i \in DOMAIN room |->
                        IF room[i].id # e.tool THEN room[i]
                        ELSE [id |-> e.tool, started |-> IF start THEN n ELSE room[i].started, latest |-> n]]
  <2>1. WithTool(tools, e, n) = upd
    BY <1>1, <1>3 DEF WithTool
  <2>2. upd \in Seq(ToolStates)
    BY <1>0, <2>1, WithToolTyped
  <2>3. DOMAIN upd = DOMAIN room
    OBVIOUS
  <2>4. ASSUME NEW i \in DOMAIN room
        PROVE  /\ upd[i].id = room[i].id
               /\ room[i].id # e.tool => upd[i] = room[i]
               /\ room[i].id = e.tool => upd[i].latest = Len(log) + 1
    <3>1. CASE room[i].id # e.tool
      BY <3>1
    <3>2. CASE room[i].id = e.tool
      BY <3>2
    <3>3. QED
      BY <3>1, <3>2
  <2> HIDE DEF upd
  <2>5. Len(upd) = Len(room)
    BY <2>2, <2>3
  <2>6. QED
    BY <1>1, <1>3, <2>1, <2>2, <2>4, <2>5, ToolUpdated
<1>4. QED
  BY <1>2, <1>3

\* What _reduce_projection does to the fields of the projection.
Reduced(r, p, e, n) ==
    /\ e.kind = "delta" => r.response = p.response \cup {n}
    /\ e.kind = "thinking_delta" => r.reasoning = p.reasoning \cup {n}
    /\ e.kind \in ResetKinds => r.response = {} /\ r.reasoning = {}
    /\ e.kind \notin ResetKinds \cup {"delta"} => r.response = p.response
    /\ e.kind \notin ResetKinds \cup {"thinking_delta"} => r.reasoning = p.reasoning
    /\ e.kind = "review_required" => r.review = n
    /\ e.kind # "review_required" => r.review = p.review
    /\ e.kind \in TerminalKinds => r.terminal = n
    /\ e.kind \notin TerminalKinds => r.terminal = p.terminal
    /\ e.kind \in ToolKinds => r.tools = WithTool(p.tools, e, n)
    /\ e.kind \notin ToolKinds => r.tools = p.tools

\* Each kind of event changes its fields and no other.
LEMMA ReduceFields ==
    ASSUME NEW p \in Projections, NEW e \in Events, NEW n \in Nat
    PROVE  Reduced(Reduce(p, e, n), p, e, n)
<1> DEFINE q == [p EXCEPT !.latest = n]
           z == ResetResponse(q)
           r == Reduce(p, e, n)
<1>1. /\ q \in Projections /\ q.response = p.response /\ q.reasoning = p.reasoning
      /\ q.review = p.review /\ q.terminal = p.terminal /\ q.tools = p.tools
  BY DEF Projections
<1>2. /\ z \in Projections /\ z.response = {} /\ z.reasoning = {}
      /\ z.review = p.review /\ z.terminal = p.terminal /\ z.tools = p.tools
  BY <1>1 DEF ResetResponse, Projections
<1>3. CASE e.kind = "delta"
  <2>1. r = [q EXCEPT !.response = @ \cup {n}]
    BY <1>3 DEF Reduce, IsTerminal, TerminalKinds
  <2> HIDE DEF q, r
  <2>2. Reduced(r, p, e, n)
    BY <1>1, <1>3, <2>1 DEF Reduced, ToolKinds, ResetKinds, TerminalKinds, Projections
  <2>3. QED
    BY <2>2 DEF r
<1>4. CASE e.kind = "thinking_delta"
  <2>1. r = [q EXCEPT !.reasoning = @ \cup {n}]
    BY <1>4 DEF Reduce, IsTerminal, TerminalKinds
  <2> HIDE DEF q, r
  <2>2. Reduced(r, p, e, n)
    BY <1>1, <1>4, <2>1 DEF Reduced, ToolKinds, ResetKinds, TerminalKinds, Projections
  <2>3. QED
    BY <2>2 DEF r
<1>5. CASE e.kind \in {"tool_call_started", "tool_call_finished"}
  <2>1. r = [q EXCEPT !.tools = WithTool(@, e, n)]
    BY <1>5 DEF Reduce, IsTerminal, TerminalKinds
  <2> HIDE DEF q, r
  <2>2. Reduced(r, p, e, n)
    BY <1>1, <1>5, <2>1 DEF Reduced, ToolKinds, ResetKinds, TerminalKinds, Projections
  <2>3. QED
    BY <2>2 DEF r
<1>6. CASE e.kind = "review_required"
  <2>1. r = [q EXCEPT !.review = n]
    BY <1>6 DEF Reduce, IsTerminal, TerminalKinds
  <2> HIDE DEF q, r
  <2>2. Reduced(r, p, e, n)
    BY <1>1, <1>6, <2>1 DEF Reduced, ToolKinds, ResetKinds, TerminalKinds, Projections
  <2>3. QED
    BY <2>2 DEF r
<1>7. CASE e.kind = "chat_retry_scheduled"
  <2>1. r = z
    BY <1>7 DEF Reduce, IsTerminal, TerminalKinds
  <2> HIDE DEF q, r, z
  <2>2. Reduced(r, p, e, n)
    BY <1>2, <1>7, <2>1 DEF Reduced, ToolKinds, ResetKinds, TerminalKinds
  <2>3. QED
    BY <2>2 DEF r
<1>8. CASE IsTerminal(e) /\ e.kind = "chat_retry_redirect"
  <2>1. r = [z EXCEPT !.terminal = n]
    BY <1>8 DEF Reduce, IsTerminal, TerminalKinds, Resets
  <2> HIDE DEF q, r, z
  <2>2. Reduced(r, p, e, n)
    BY <1>2, <1>8, <2>1 DEF Reduced, ToolKinds, ResetKinds, TerminalKinds, Projections
  <2>3. QED
    BY <2>2 DEF r
<1>9. CASE IsTerminal(e) /\ e.kind # "chat_retry_redirect"
  <2>1. r = [q EXCEPT !.terminal = n]
    BY <1>9 DEF Reduce, IsTerminal, TerminalKinds, Resets
  <2> HIDE DEF q, r, z
  <2>2. Reduced(r, p, e, n)
    BY <1>1, <1>9, <2>1 DEF Reduced, ToolKinds, ResetKinds, TerminalKinds, Projections, IsTerminal
  <2>3. QED
    BY <2>2 DEF r
<1>10. QED
  BY <1>3, <1>4, <1>7, <1>5, <1>6, <1>8, <1>9, EventKinds DEF ProjectedKinds, IsTerminal

\* _reduce_projection keeps the projection what the log says.
LEMMA ReduceReplays ==
    ASSUME NEW p \in Projections, NEW log \in Seq(Events), NEW e \in Events, Replays(p, log),
           NEW n \in Nat, n = Len(log) + 1
    PROVE  Replays(Reduce(p, e, n), Append(log, e))
<1> DEFINE r == Reduce(p, e, n)
           lg == Append(log, e)
<1>1. Reduced(r, p, e, n)
  BY ReduceFields
<1>2. Newest(log, ResetKinds) \in 0..Len(log)
  BY DEF Replays
<1>3. /\ e.kind = "delta" => Texts(lg, "delta") = Texts(log, "delta") \cup {n}
      /\ e.kind \in ResetKinds => Texts(lg, "delta") = {}
      /\ e.kind \notin ResetKinds \cup {"delta"} => Texts(lg, "delta") = Texts(log, "delta")
      /\ Newest(lg, ResetKinds) \in 0..(Len(log) + 1)
  BY <1>2, TextsMore, "delta" \notin ResetKinds DEF ResetKinds
<1>4. /\ e.kind = "thinking_delta" =>
             Texts(lg, "thinking_delta") = Texts(log, "thinking_delta") \cup {n}
      /\ e.kind \in ResetKinds => Texts(lg, "thinking_delta") = {}
      /\ e.kind \notin ResetKinds \cup {"thinking_delta"} =>
             Texts(lg, "thinking_delta") = Texts(log, "thinking_delta")
  BY <1>2, TextsMore, "thinking_delta" \notin ResetKinds DEF ResetKinds
<1>5. /\ e.kind = "review_required" => Newest(lg, {"review_required"}) = n
      /\ e.kind # "review_required" =>
             Newest(lg, {"review_required"}) = Newest(log, {"review_required"})
  <2>1. /\ e.kind \in {"review_required"} => Newest(lg, {"review_required"}) = Len(log) + 1
        /\ e.kind \notin {"review_required"} =>
             Newest(lg, {"review_required"}) = Newest(log, {"review_required"})
    BY NewestMore
  <2> HIDE DEF lg
  <2>2. QED
    BY <2>1
<1>6. /\ e.kind \in TerminalKinds => Newest(lg, TerminalKinds) = n
      /\ e.kind \notin TerminalKinds => Newest(lg, TerminalKinds) = Newest(log, TerminalKinds)
  BY NewestMore
<1>7. Len(lg) = Len(log) + 1
  BY OneMore
<1>8. p.tools \in Seq(ToolStates) /\ ToolsReplay(p.tools, log)
  BY DEF Projections, Replays
<1>9. e.kind \in ToolKinds => ToolsReplay(WithTool(p.tools, e, n), lg)
  BY <1>8, ToolsMore
<1>10. e.kind \notin ToolKinds => ToolsReplay(p.tools, lg)
  BY <1>8, ToolsSame
<1> HIDE DEF r, lg
<1>11. r.response = Texts(lg, "delta")
  BY <1>1, <1>3 DEF Reduced, Replays
<1>12. r.reasoning = Texts(lg, "thinking_delta")
  BY <1>1, <1>4 DEF Reduced, Replays
<1>13. r.review = Newest(lg, {"review_required"})
  BY <1>1, <1>5 DEF Reduced, Replays
<1>14. r.terminal = Newest(lg, TerminalKinds)
  BY <1>1, <1>6 DEF Reduced, Replays
<1>15. ToolsReplay(r.tools, lg)
  BY <1>1, <1>9, <1>10 DEF Reduced
<1>16. Replays(r, lg)
  BY <1>3, <1>7, <1>11, <1>12, <1>13, <1>14, <1>15 DEF Replays
<1>17. QED
  BY <1>16 DEF r, lg

\* An empty projection is what an empty log says.
LEMMA NothingReplayed == Replays(EmptyProjection, <<>>)
<1>1. \A ks : Where(<<>>, ks) = {}
  BY DEF Where
<1>2. \A ks : Newest(<<>>, ks) = 0
  BY <1>1 DEF Newest, LastOf
<1>3. \A k : Texts(<<>>, k) = {}
  BY <1>1 DEF Texts
<1>4. Len(<<>>) = 0 /\ DOMAIN <<>> = {}
  OBVIOUS
<1>5. ToolsReplay(<<>>, <<>>)
  BY <1>2, <1>4, BufferAssumption DEF ToolsReplay
<1>6. /\ EmptyProjection.response = {} /\ EmptyProjection.reasoning = {}
      /\ EmptyProjection.review = 0 /\ EmptyProjection.terminal = 0
      /\ EmptyProjection.tools = <<>>
  BY DEF EmptyProjection
<1>7. QED
  BY <1>2, <1>3, <1>4, <1>5, <1>6 DEF Replays

\* _remember_terminal keeps a list of tasks.
LEMMA RememberedTyped ==
    ASSUME NEW o \in Seq(Tasks), NEW t \in Tasks
    PROVE  Remembered(o, t) \in Seq(Tasks) /\ Remembered(o, t) # <<>>
<1> DEFINE at == {i \in DOMAIN o : o[i] = t}
           i == CHOOSE i \in at : TRUE
           before == SubSeq(o, 1, i - 1)
           behind == SubSeq(o, i + 1, Len(o))
           rest == IF at = {} THEN o ELSE before \o behind
<1>1. rest \in Seq(Tasks)
  <2>1. CASE at = {}
    BY <2>1
  <2>2. CASE at # {}
    <3>1. i \in at
      BY <2>2
    <3>2. i \in 1..Len(o) /\ Len(o) \in Nat /\ \A k \in 1..Len(o) : o[k] \in Tasks
      BY <3>1
    <3> HIDE DEF i
    <3>3. before \in Seq(Tasks)
      <4>1. 1 \in Int /\ i - 1 \in Int /\ \A k \in 1..(i - 1) : o[k] \in Tasks
        BY <3>2
      <4>2. QED
        BY <4>1, SubSeqProperties
    <3>4. behind \in Seq(Tasks)
      <4>1. i + 1 \in Int /\ Len(o) \in Int /\ \A k \in (i + 1)..Len(o) : o[k] \in Tasks
        BY <3>2
      <4>2. QED
        BY <4>1, SubSeqProperties
    <3> HIDE DEF before, behind
    <3>5. before \o behind \in Seq(Tasks)
      BY <3>3, <3>4, ConcatProperties, Zenon
    <3>6. QED
      BY <2>2, <3>5
  <2>3. QED
    BY <2>1, <2>2
<1>2. Remembered(o, t) = Append(rest, t)
  BY DEF Remembered
<1> HIDE DEF rest
<1>3. Append(rest, t) \in Seq(Tasks) /\ Len(Append(rest, t)) = Len(rest) + 1 /\ Len(rest) \in Nat
  BY <1>1
<1>4. QED
  BY <1>2, <1>3

\* append: the projection of the stream it adds to, and of every stream that
\* is still there.
LEMMA AppendToReplayed ==
    ASSUME IInv, Replayed, NEW t \in Tasks, NEW e \in Events, AppendTo(t, e)
    PROVE  Replayed'
<1> DEFINE s == stream[t]
           a == Appended(s, e)
           str == [stream EXCEPT ![t] = a]
           new == IF s.present
                  THEN [said[t] EXCEPT ![Len(said[t])] = Append(Current(t), e)] ELSE Append(said[t], <<e>>)
<1>1. /\ s \in Streams /\ said[t] \in Seq(Seq(Events))
      /\ Ordered(s, said[t], life[t]) /\ Typed
  BY DEF IInv, Typed, InOrder
<1>2. said' = [said EXCEPT ![t] = new]
  <2>1. CASE s.present
    BY <2>1 DEF AppendTo
  <2>2. CASE ~s.present
    BY <2>2 DEF AppendTo
  <2>3. QED
    BY <2>1, <2>2
<1>3. stream' = str \/ \E gone : stream' = Evicted(str, gone)
  BY DEF AppendTo
<1>4. order' \in Seq(Tasks)
  <2>1. order' = order \/ order' = Remembered(order, t) \/ order' = Tail(Remembered(order, t))
    BY DEF AppendTo
  <2>2. Remembered(order, t) \in Seq(Tasks) /\ Remembered(order, t) # <<>> /\ order \in Seq(Tasks)
    BY RememberedTyped DEF Replayed
  <2>3. Tail(Remembered(order, t)) \in Seq(Tasks)
    BY <2>2, HeadTailProperties
  <2>4. QED
    BY <2>1, <2>2, <2>3
<1>5. a.proj = Reduce(s.proj, e, s.next) /\ s.proj \in Projections /\ s.next \in Nat
  BY <1>1 DEF Appended, Streams
<1> HIDE DEF a
<1>6. Replays(a.proj, Last(new))
  <2>1. CASE s.present
    <3>1. said[t] # <<>> /\ Retained(s, Last(said[t])) /\ Last(said[t]) \in Seq(Events)
      BY <1>1, <2>1 DEF Ordered, Last
    <3>2. new = [said[t] EXCEPT ![Len(said[t])] = Append(@, e)]
      BY <2>1 DEF Current
    <3> HIDE DEF new
    <3>3. Last(new) = Append(Last(said[t]), e)
      BY <1>1, <3>1, <3>2, LastGrows
    <3>4. s.next = Len(Last(said[t])) + 1
      BY <3>1 DEF Retained
    <3>5. Replays(s.proj, Last(said[t]))
      BY <2>1 DEF Replayed
    <3> HIDE DEF s
    <3>6. QED
      BY <1>5, <3>1, <3>3, <3>4, <3>5, ReduceReplays
  <2>2. CASE ~s.present
    <3>1. s = NoStream /\ new = Append(said[t], <<e>>)
      BY <1>1, <2>2 DEF Ordered
    <3>2. /\ <<>> \in Seq(Events) /\ <<e>> \in Seq(Events) /\ Append(<<>>, e) = <<e>>
          /\ Len(<<>>) + 1 = 1
      OBVIOUS
    <3>3. s.proj = EmptyProjection /\ s.next = 1
      BY <3>1 DEF NoStream
    <3> HIDE DEF new, s
    <3>4. Last(new) = <<e>>
      BY <1>1, <3>1, <3>2, AnotherLog
    <3>5. Replays(s.proj, <<>>)
      BY <3>3, NothingReplayed
    <3>6. Replays(a.proj, Append(<<>>, e))
      BY <1>5, <3>2, <3>3, <3>5, ReduceReplays
    <3>7. QED
      BY <3>2, <3>4, <3>6
  <2>3. QED
    BY <2>1, <2>2
<1> HIDE DEF new
<1>7. ASSUME NEW u \in Tasks, str[u].present PROVE Replays(str[u].proj, Last(said'[u]))
  <2>1. CASE u = t
    BY <1>1, <1>2, <1>6, <2>1 DEF Typed
  <2>2. CASE u # t
    <3>1. str[u] = stream[u] /\ said'[u] = said[u]
      BY <1>1, <1>2, <2>2 DEF Typed
    <3>2. QED
      BY <1>7, <3>1 DEF Replayed
  <2>3. QED
    BY <2>1, <2>2
<1> HIDE DEF str
<1>8. ASSUME NEW u \in Tasks, stream'[u].present PROVE Replays(stream'[u].proj, Last(said'[u]))
  <2>1. stream'[u] = str[u]
    BY <1>3, <1>8, NothingRetained DEF Evicted
  <2>2. QED
    BY <1>7, <1>8, <2>1
<1>9. QED
  BY <1>4, <1>8 DEF Replayed

\* _subscription_state: a stream it makes has an empty projection.
LEMMA FetchReplayed ==
    ASSUME IInv, Replayed, NEW r \in Readers, Fetch(r)
    PROVE  Replayed'
<1> DEFINE t == rd[r].task
<1>1. Typed /\ t \in Tasks /\ order' = order /\ said[t] \in Seq(Seq(Events))
  BY DEF IInv, Typed, Subscriptions, Fetch
<1>2. CASE stream[t].present
  <2>1. stream' = [stream EXCEPT ![t] = stream[t]] /\ said' = [said EXCEPT ![t] = said[t]]
    BY <1>2 DEF Fetch
  <2>2. stream' = stream /\ said' = said
    BY <1>1, <2>1 DEF Typed
  <2>3. QED
    BY <1>1, <2>2 DEF Replayed
<1>3. CASE ~stream[t].present
  <2>1. stream' = [stream EXCEPT ![t] = NewStream] /\ said' = [said EXCEPT ![t] = Append(said[t], <<>>)]
    BY <1>3 DEF Fetch
  <2>2. Last(Append(said[t], <<>>)) = <<>>
    BY <1>1, AnotherLog, <<>> \in Seq(Events)
  <2>3. NewStream.proj = EmptyProjection
    BY DEF NewStream, NoStream
  <2> HIDE DEF t
  <2>4. ASSUME NEW u \in Tasks, stream'[u].present PROVE Replays(stream'[u].proj, Last(said'[u]))
    <3>1. CASE u = t
      BY <1>1, <2>1, <2>2, <2>3, <3>1, NothingReplayed DEF Typed
    <3>2. CASE u # t
      <4>1. stream'[u] = stream[u] /\ said'[u] = said[u]
        BY <1>1, <2>1, <3>2 DEF Typed
      <4>2. QED
        BY <2>4, <4>1 DEF Replayed
    <3>3. QED
      BY <3>1, <3>2
  <2>5. QED
    BY <1>1, <2>4 DEF Replayed
<1>4. QED
  BY <1>2, <1>3

\* Every step keeps the projections what the logs say.
LEMMA NextReplayed == IInv /\ Replayed /\ [Next]_vars => Replayed'
<1> SUFFICES ASSUME IInv, Replayed, [Next]_vars PROVE Replayed'
  OBVIOUS
<1>1. ASSUME UNCHANGED <<stream, order, said>> PROVE Replayed'
  BY <1>1 DEF Replayed
<1>2. ASSUME NEW t \in Tasks, TaskStep(t) PROVE Replayed'
  <2>1. CASE \E e \in Said : Publish(t, e)
    <3>1. PICK e \in Said : Publish(t, e)
      BY <2>1
    <3>2. e \in Events /\ AppendTo(t, e)
      BY <3>1 DEF Publish, Events
    <3>3. QED
      BY <3>2, AppendToReplayed
  <2>2. CASE CancelHook(t)
    <3>1. UNCHANGED <<stream, order, said>> \/ AppendTo(t, CancelledEvent)
      BY <2>2 DEF CancelHook
    <3>2. CancelledEvent \in Events
      BY DEF Events
    <3>3. QED
      BY <1>1, <3>1, <3>2, AppendToReplayed
  <2>3. CASE TaskOver(t)
    BY <1>1, <2>3 DEF TaskOver
  <2>4. QED
    BY <1>2, <2>1, <2>2, <2>3 DEF TaskStep
<1>3. ASSUME NEW r \in Readers, ReaderStep(r) PROVE Replayed'
  <2>1. CASE Fetch(r)
    BY <2>1, FetchReplayed
  <2>2. CASE Yield(r) \/ Wake(r)
    <3>1. UNCHANGED <<stream, order, said>>
      BY <2>2 DEF Yield, Wake
    <3>2. QED
      BY <1>1, <3>1
  <2>3. QED
    BY <1>3, <2>1, <2>2 DEF ReaderStep
<1>4. ASSUME NEW r \in Readers, BrowserStep(r) PROVE Replayed'
  <2>1. UNCHANGED <<stream, order, said>>
    BY <1>4 DEF BrowserStep, Resume, StartOver, Hydrate, OpenStream, Disconnect
  <2>2. QED
    BY <1>1, <2>1
<1>5. CASE UNCHANGED vars
  BY <1>1, <1>5 DEF vars
<1>6. QED
  BY <1>2, <1>3, <1>4, <1>5 DEF Next

\* The invariant makes every variable what its type says.
LEMMA TypedIsTypeOK == ASSUME IInv, Replayed PROVE TypeOK
<1>1. ASSUME NEW t \in Tasks
      PROVE  /\ stream[t].present \in BOOLEAN
             /\ \A i \in DOMAIN stream[t].events :
                   stream[t].events[i].seq \in Nat \ {0} /\ stream[t].events[i].said \in Said \cup {CancelledEvent}
             /\ stream[t].next \in Nat \ {0}
             /\ stream[t].terminal \in Nat
  <2> SUFFICES ASSUME NEW s, s = stream[t]
               PROVE  /\ s.present \in BOOLEAN
                      /\ \A i \in DOMAIN s.events :
                            s.events[i].seq \in Nat \ {0} /\ s.events[i].said \in Said \cup {CancelledEvent}
                      /\ s.next \in Nat \ {0}
                      /\ s.terminal \in Nat
    OBVIOUS
  <2>1. s \in Streams /\ Ordered(s, said[t], life[t]) /\ said[t] \in Seq(Seq(Events))
    BY DEF IInv, Typed, InOrder
  <2>2. s.present \in BOOLEAN /\ s.events \in Seq(Entries) /\ s.next \in Nat \ {0} /\ s.terminal \in Nat
    BY <2>1 DEF Streams
  <2>3. ASSUME NEW i \in DOMAIN s.events
        PROVE  s.events[i].seq \in Nat \ {0} /\ s.events[i].said \in Said \cup {CancelledEvent}
    <3>1. s.events[i] \in Entries
      BY <2>2, ElementOfSeq, LenProperties
    <3>2. s.events[i].said \in Said \cup {CancelledEvent}
      BY <3>1 DEF Entries, Events
    <3>3. s.present
      <4>1. ASSUME ~s.present PROVE FALSE
        <5>1. s = NoStream
          BY <2>1, <4>1 DEF Ordered
        <5>2. DOMAIN s.events = {}
          BY <5>1 DEF NoStream
        <5>3. QED
          BY <5>2
      <4>2. QED
        BY <4>1
    <3>4. Retained(s, Last(said[t])) /\ Last(said[t]) \in Seq(Events)
      BY <2>1, <3>3 DEF Ordered, Last
    <3>5. /\ s.events[i].seq = Len(Last(said[t])) - Len(s.events) + i
          /\ Len(s.events) <= Len(Last(said[t]))
      BY <3>4 DEF Retained
    <3>6. Len(s.events) \in Nat /\ Len(Last(said[t])) \in Nat /\ i \in 1..Len(s.events)
      BY <2>2, <3>4
    <3>7. s.events[i].seq \in Nat \ {0}
      <4>1. \A a, b \in Nat : \A x \in 1..b : b <= a => a - b + x \in Nat \ {0}
        OBVIOUS
      <4>2. Len(Last(said[t])) - Len(s.events) + i \in Nat \ {0}
        BY <3>5, <3>6, <4>1
      <4>3. QED
        BY <3>5, <4>2
    <3>8. QED
      BY <3>2, <3>7
  <2>4. QED
    BY <2>2, <2>3
<1>2. \A i \in DOMAIN order : order[i] \in Tasks
  BY ElementOfSeq, LenProperties DEF Replayed
<1>3. life \in [Tasks -> {"running", "finishing", "over"}]
  BY DEF IInv, Typed, Lives
<1>4. ASSUME NEW r \in Readers
      PROVE  /\ rd[r].ph \in {"away", "opened", "yielding", "parked", "ended", "expired"}
             /\ rd[r].task \in Tasks
             /\ {rd[r].cursor, rd[r].inc, rd[r].from, rd[r].seen} \subseteq Nat
  <2>1. rd[r] \in Subscriptions
    BY DEF IInv, Typed
  <2>2. QED
    BY <2>1 DEF Subscriptions, Phases
<1>5. QED
  BY <1>1, <1>2, <1>3, <1>4 DEF TypeOK

\* A dictionary has as many calls as it has ids.
LEMMA CallsCounted ==
    ASSUME NEW tools \in Seq(ToolStates),
           \A i, j \in DOMAIN tools : tools[i].id = tools[j].id => i = j
    PROVE  Len(tools) = Cardinality({tools[i].id : i \in DOMAIN tools})
<1> DEFINE ids == {tools[i].id : i \in DOMAIN tools}
           f == [i \in 1..Len(tools) |-> tools[i].id]
<1>1. Len(tools) \in Nat /\ DOMAIN tools = 1..Len(tools)
  OBVIOUS
<1>2. f \in [1..Len(tools) -> ids] /\ \A x \in ids : \E i \in 1..Len(tools) : f[i] = x
  BY <1>1
<1>3. \A i, j \in 1..Len(tools) : f[i] = f[j] => i = j
  BY <1>1
<1> HIDE DEF f, ids
<1>4. f \in Bijection(1..Len(tools), ids)
  BY <1>2, <1>3 DEF Bijection, Injection, Surjection, IsInjective
<1>5. ExistsBijection(1..Len(tools), ids)
  BY <1>4 DEF ExistsBijection
<1>6. Cardinality(ids) = Len(tools)
  BY <1>1, <1>5, FS_CountingElements
<1>7. QED
  BY <1>6 DEF ids

\* The invariant says what a snapshot promises.
LEMMA SnapshotFaithful == ASSUME IInv, Replayed PROVE ReplayFaithful
<1>1. TypeOK
  BY TypedIsTypeOK
<1>2. \A ks : \A t \in Tasks : Kept(t, ks) = Where(Current(t), ks)
  BY DEF Kept, Where
<1>3. \A t \in Tasks : Current(t) = Last(said[t])
  BY DEF Current, Last
<1>4. \A log : {n \in DOMAIN log : Resets(log[n])} = Where(log, ResetKinds)
  BY DEF Where, Resets, ResetKinds
<1>5. ASSUME NEW t \in Tasks, stream[t].present,
             NEW p, p = stream[t].proj, NEW log, log = Current(t)
      PROVE  /\ p.latest = Len(log)
             /\ p.response = {n \in Kept(t, {"delta"}) : n > LastOf({m \in DOMAIN log : Resets(log[m])})}
             /\ p.reasoning = {n \in Kept(t, {"thinking_delta"}) : n > LastOf({m \in DOMAIN log : Resets(log[m])})}
             /\ p.review = LastOf(Kept(t, {"review_required"}))
             /\ p.terminal = LastOf(Kept(t, TerminalKinds))
             /\ Len(p.tools) = Cardinality({p.tools[i].id : i \in DOMAIN p.tools})
             /\ Len(p.tools) <= MaxProjectedTools
             /\ \A i \in DOMAIN p.tools : p.tools[i].latest = LastOf({n \in DOMAIN log : log[n].tool = p.tools[i].id})
             /\ LastOf(Kept(t, {"tool_call_started", "tool_call_finished"})) > 0 =>
                   log[LastOf(Kept(t, {"tool_call_started", "tool_call_finished"}))].tool
                      \in {p.tools[i].id : i \in DOMAIN p.tools}
  <2>1. stream[t] \in Streams /\ Retained(stream[t], log) /\ Replays(p, log)
    BY <1>3, <1>5 DEF IInv, Typed, InOrder, Ordered, Replayed
  <2>2. p.tools \in Seq(ToolStates) /\ p.latest = Len(log)
    BY <1>5, <2>1 DEF Streams, Projections, Retained
  <2>3. /\ p.response = Texts(log, "delta") /\ p.reasoning = Texts(log, "thinking_delta")
        /\ p.review = Newest(log, {"review_required"}) /\ p.terminal = Newest(log, TerminalKinds)
        /\ ToolsReplay(p.tools, log)
    BY <2>1 DEF Replays
  <2>4. /\ p.response = {n \in Kept(t, {"delta"}) : n > LastOf({m \in DOMAIN log : Resets(log[m])})}
        /\ p.reasoning = {n \in Kept(t, {"thinking_delta"}) : n > LastOf({m \in DOMAIN log : Resets(log[m])})}
    <3>1. LastOf({n \in DOMAIN log : Resets(log[n])}) = Newest(log, ResetKinds)
      BY <1>4 DEF Newest
    <3>2. QED
      BY <1>2, <1>5, <2>3, <3>1 DEF Texts
  <2>5. /\ p.review = LastOf(Kept(t, {"review_required"}))
        /\ p.terminal = LastOf(Kept(t, TerminalKinds))
    BY <1>2, <1>5, <2>3 DEF Newest
  <2>6. Len(p.tools) = Cardinality({p.tools[i].id : i \in DOMAIN p.tools})
    BY <2>2, <2>3, CallsCounted DEF ToolsReplay
  <2>7. \A i \in DOMAIN p.tools : p.tools[i].latest = LastOf({n \in DOMAIN log : log[n].tool = p.tools[i].id})
    BY <2>3 DEF ToolsReplay, OfCall
  <2>8. LastOf(Kept(t, {"tool_call_started", "tool_call_finished"})) = Newest(log, ToolKinds)
    BY <1>2, <1>5 DEF Newest, ToolKinds
  <2>9. Newest(log, ToolKinds) > 0 => log[Newest(log, ToolKinds)].tool \in {p.tools[i].id : i \in DOMAIN p.tools}
    BY <2>3 DEF ToolsReplay
  <2>10. Len(p.tools) <= MaxProjectedTools
    BY <2>3 DEF ToolsReplay
  <2>11. QED
    BY <2>2, <2>4, <2>5, <2>6, <2>7, <2>8, <2>9, <2>10
<1>6. QED
  BY <1>1, <1>5 DEF ReplayFaithful

\* For any number of events, whatever was trimmed out of the buffer and
\* whichever tool calls had to make room, the snapshot a browser hydrates from
\* is what it would show had it followed the stream from the start.
THEOREM ReplayAlwaysFaithful == Spec => []ReplayFaithful
<1>1. Init => Replayed
  BY DEF Init, Replayed, NoStream
<1>2. IInv /\ Replayed /\ [Next]_vars => Replayed'
  BY NextReplayed
<1>3. IInv /\ Replayed => ReplayFaithful
  BY SnapshotFaithful
<1>4. Spec => []IInv
  BY AlwaysIInv
<1>5. QED
  BY <1>1, <1>2, <1>3, <1>4, PTL DEF Spec
=============================================================================
