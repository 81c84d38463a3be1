------------------------------ MODULE EventLog ------------------------------
(***************************************************************************)
(* What a live view of a chat task promises, whatever buffer is behind it. *)
(*                                                                         *)
(* Every task has a log that only grows and that a closing event ends.     *)
(* A reader holds the position of the last event it was given.  It is      *)
(* given the event after that, of the same log, and nothing else; or it is *)
(* told that the log no longer reaches back far enough; or it has reached  *)
(* the end.  A closed log may be forgotten and the task then have another; *)
(* what one subscription is given never mixes the two.                     *)
(***************************************************************************)
EXTENDS Naturals, Sequences

CONSTANTS
    Tasks,     \* chat tasks
    Readers,   \* subscriptions
    Events,    \* what a log can hold
    Closing    \* the events that end a log

VARIABLES
    logs,   \* logs[t]: the logs t has had, the current one last
    mode,   \* mode[r]: "away", "reading", "ended" or "expired"
    of,     \* of[r]: the task r reads or read last
    inc,    \* inc[r]: which of that task's logs, 0 before the first event
    pos     \* pos[r]: the position in it

lvars == <<logs, mode, of, inc, pos>>
reader == <<mode, of, inc, pos>>

Closed(log) == log # <<>> /\ log[Len(log)] \in Closing

LogInit ==
    /\ logs = [t \in Tasks |-> <<>>]
    /\ mode = [r \in Readers |-> "away"]
    /\ of \in [Readers -> Tasks]
    /\ inc = [r \in Readers |-> 0]
    /\ pos = [r \in Readers |-> 0]

\* The task says something: its log grows by one event.
Say(t, e) ==
    LET n == Len(logs[t])
    IN  /\ n > 0
        /\ ~Closed(logs[t][n])
        /\ logs' = [logs EXCEPT ![t][n] = Append(@, e)]
        /\ UNCHANGED reader

\* A log comes into being, empty or with a first event; an older one of the
\* same task is closed (and forgotten) or never held anything.
Open(t, first) ==
    /\ \A k \in DOMAIN logs[t] : Closed(logs[t][k])
    /\ logs' = [logs EXCEPT ![t] = Append(@, first)]
    /\ UNCHANGED reader

\* A reader picks a task and the position it wants to go on from.
Attach(r, t) ==
    /\ mode[r] # "reading"
    /\ mode' = [mode EXCEPT ![r] = "reading"]
    /\ of' = [of EXCEPT ![r] = t]
    /\ inc' = [inc EXCEPT ![r] = 0]
    /\ pos'[r] \in Nat
    /\ pos' = [pos EXCEPT ![r] = pos'[r]]
    /\ UNCHANGED logs

\* The next event, of the log the last one came from.
Deliver(r) ==
    /\ mode[r] = "reading"
    /\ \E k \in DOMAIN logs[of[r]] :
          LET log == logs[of[r]][k]
          IN  /\ inc[r] \in {0, k}
              /\ pos[r] < Len(log)
              /\ inc' = [inc EXCEPT ![r] = k]
              /\ mode' = [mode EXCEPT ![r] =
                             IF log[pos[r] + 1] \in Closing THEN "ended" ELSE "reading"]
    /\ pos' = [pos EXCEPT ![r] = @ + 1]
    /\ UNCHANGED <<logs, of>>

\* The end, for a reader that was already there: some log of the task is
\* closed and has nothing after the reader's position.
AtEnd(r) ==
    /\ mode[r] = "reading"
    /\ \E k \in DOMAIN logs[of[r]] :
          Closed(logs[of[r]][k]) /\ pos[r] >= Len(logs[of[r]][k])
    /\ mode' = [mode EXCEPT ![r] = "ended"]
    /\ UNCHANGED <<logs, of, inc, pos>>

\* Too late: there is an event after the reader's position it will not get.
TooLate(r) ==
    /\ mode[r] = "reading"
    /\ \E k \in DOMAIN logs[of[r]] : pos[r] < Len(logs[of[r]][k])
    /\ mode' = [mode EXCEPT ![r] = "expired"]
    /\ UNCHANGED <<logs, of, inc, pos>>

Leave(r) ==
    /\ mode[r] = "reading"
    /\ mode' = [mode EXCEPT ![r] = "away"]
    /\ UNCHANGED <<logs, of, inc, pos>>

LogNext ==
    \/ \E t \in Tasks, e \in Events : Say(t, e) \/ Open(t, <<e>>)
    \/ \E t \in Tasks : Open(t, <<>>)
    \/ \E r \in Readers, t \in Tasks : Attach(r, t)
    \/ \E r \in Readers : Deliver(r) \/ AtEnd(r) \/ TooLate(r) \/ Leave(r)

LogSpec == LogInit /\ [][LogNext]_lvars
=============================================================================
