----------------------------- MODULE TurnsProofs -----------------------------
(***************************************************************************)
(* Proofs about ChatTurns: the stored history follows the tool protocol,   *)
(* and a request is answered at most once; and, at the end, about          *)
(* ChatRecovery: automatic recovery of a turn repeats no effect.           *)
(***************************************************************************)
EXTENDS ChatTurns, ChatRecovery, Integers, SequenceTheorems, TLAPS

TaskKinds == {"turn", "resume", "retry", "restart"}
Phases == {"requested", "claimed", "queued", "preparing", "running",
           "compacting", "finishing", "hook", "over"}
Endings == {"open", "done", "error", "cancelled", "redirect", "refused", "lost"}
Outcomes == {"none", "answer", "review", "failed", "restart", "cancelled", "lost"}
Statuses == {"pending", "resuming", "completed", "failed", "cancelled"}
Task == [kind : TaskKinds, ph : Phases, user : Nat, review : Nat, blocked : BOOLEAN,
         restarts : Nat, ended : Endings, outcome : Outcomes]
Message == [k : {"user", "answer", "calls", "replies"}, of : Nat, by : TaskKinds]
Review == [status : Statuses, user : Nat, task : Nat]

Typed ==
    /\ tasks \in Seq(Task)
    /\ gate \in Seq(Nat)
    /\ hist \in Seq(Message)
    /\ marker \in [at : Nat, retryable : BOOLEAN]
    /\ reviews \in Seq(Review)
    /\ crashes \in 0..MaxCrashes
    /\ mixed \in BOOLEAN

Ids == DOMAIN tasks
Newest == Len(tasks)

-----------------------------------------------------------------------------
(***************************************************************************)
(* What holds of every behaviour, mixed or not.                            *)
(***************************************************************************)

\* What a task's phase and kind say of its other fields.
TaskOK(t) ==
    /\ tasks[t].user <= Len(hist)
    /\ tasks[t].review <= Len(reviews)
    /\ tasks[t].restarts <= Retries
    /\ tasks[t].ph \in {"running", "compacting", "finishing"} => tasks[t].user > 0
    /\ tasks[t].ph = "requested" => (tasks[t].kind = "retry" /\ tasks[t].user > 0)
    /\ tasks[t].ph = "claimed" => tasks[t].kind = "resume"
    /\ tasks[t].ph \in {"queued", "preparing"} => tasks[t].kind \in {"turn", "resume"}
    /\ (tasks[t].ph \in {"queued", "preparing"} /\ tasks[t].kind = "turn") => tasks[t].user = 0
    /\ (tasks[t].ph = "hook" /\ tasks[t].kind # "resume") =>
          (tasks[t].user > 0 /\ tasks[t].restarts < Retries)
    /\ tasks[t].kind = "resume" =>
          /\ tasks[t].review > 0
          /\ tasks[t].user = reviews[tasks[t].review].user
          /\ reviews[tasks[t].review].status # "pending"
          /\ tasks[t].ph # "over" => reviews[tasks[t].review].status = "resuming"

\* A review is resumed by one task.
OneResume ==
    \A t, u \in Ids :
        (tasks[t].kind = "resume" /\ tasks[u].kind = "resume" /\ tasks[t].review = tasks[u].review) => t = u

Bounds ==
    /\ \A t \in Ids : TaskOK(t)
    /\ OneResume
    /\ \A i \in DOMAIN gate : gate[i] \in Ids
    /\ marker.at <= Len(hist)
    /\ \A r \in DOMAIN reviews : reviews[r].user \in 1..Len(hist)
    /\ \A i \in DOMAIN hist : hist[i].k = "calls" => hist[i].of \in DOMAIN reviews
    /\ \A i \in DOMAIN hist : hist[i].k = "answer" => hist[i].of < i

\* A queued task is in the gate, and turns are there in the order of their posts.
Queue ==
    /\ \A t \in Ids : tasks[t].ph = "queued" => \E i \in DOMAIN gate : gate[i] = t
    /\ \A i, j \in DOMAIN gate :
          (i < j /\ tasks[gate[i]].kind = "turn" /\ tasks[gate[j]].kind = "turn") => gate[i] < gate[j]

-----------------------------------------------------------------------------
(***************************************************************************)
(* What holds while no task outside the gate ran alongside or after a      *)
(* later one.                                                              *)
(***************************************************************************)

Runs(t) == tasks[t].ph \in Executing
Live(t) == tasks[t].ph \in {"queued", "preparing", "running"}
Plain(t) == tasks[t].kind # "resume"
\* The newest task is a retry that was asked for, or one whose restart is to be
\* decided: it may run outside the gate at any moment.
Aside(t) == t = Newest /\ (tasks[t].ph = "requested" \/ (tasks[t].ph = "hook" /\ Plain(t)))
\* A review that nobody has replied to for certain.
Waits(t) == tasks[t].kind = "resume" /\ tasks[t].ph \in {"claimed", "queued", "preparing", "running"}
Waiting(r) == reviews[r].status = "pending" \/ \E t \in Ids : Waits(t) /\ tasks[t].review = r
LastCalls(r) == hist # <<>> /\ hist[Len(hist)].k = "calls" /\ hist[Len(hist)].of = r
Unanswered(u) == \A i \in DOMAIN hist : hist[i].k = "answer" => hist[i].of # u
Usable == marker.retryable /\ marker.at \in DOMAIN hist /\ hist[marker.at].k = "user"

\* Tasks execute one at a time, ...
One == \A t, u \in Ids : (Runs(t) /\ Runs(u)) => t = u
\* ... and nobody is about to while the newest runs or may run outside the gate.
Alone ==
    \A t \in Ids : (Aside(t) \/ (t = Newest /\ Runs(t) /\ Plain(t))) => \A u \in Ids : u # t => ~Live(u)
\* An open review keeps every task but its own from running.
Blocks ==
    ReviewOpen => /\ \A t \in Ids : ~(Runs(t) /\ Plain(t)) /\ ~Aside(t)
                  /\ ~Usable
\* A waiting review's calls are the last message, and its request has no answer.
Pending == \A r \in DOMAIN reviews : Waiting(r) => (LastCalls(r) /\ Unanswered(reviews[r].user))
\* A resumed task that committed has replied to its review.
Late(t) == tasks[t].kind = "resume" /\ tasks[t].ph \in {"compacting", "finishing"}
Replied == \A t \in Ids : Late(t) => \A i \in Unmatched(hist) : hist[i].of # tasks[t].review
\* The protocol, as HistorySound states it.
Follows ==
    /\ Misplaced(hist) = {}
    /\ \A i \in Unmatched(hist) :
          i = Len(hist) /\ reviews[hist[i].of].status \in {"pending", "resuming"}
\* The request a running task is about to answer.
InHand(t) ==
    /\ (tasks[t].kind = "turn" /\ tasks[t].ph = "running") =>
          (tasks[t].user = Len(hist) /\ hist[Len(hist)].k = "user")
    /\ (Plain(t) /\ (tasks[t].ph = "running" \/ Aside(t))) => Unanswered(tasks[t].user)
    /\ (Aside(t) /\ tasks[t].ph = "requested") =>
          \A i \in DOMAIN hist : hist[i].k = "answer" => i <= tasks[t].user
\* The answers, as AnsweredOnce states them.
OneAnswer ==
    \A i, j \in DOMAIN hist :
        (hist[i].k = "answer" /\ hist[j].k = "answer" /\ hist[i].of = hist[j].of) => i = j
TurnAnswer ==
    \A i \in DOMAIN hist : (hist[i].k = "answer" /\ hist[i].by = "turn") =>
        \A j \in hist[i].of + 1 .. i : hist[j].k # "user"
MarkerOpen == marker.at > 0 => \A i \in DOMAIN hist : hist[i].k = "answer" => i <= marker.at
Answers == OneAnswer /\ TurnAnswer /\ MarkerOpen

Serial ==
    /\ One /\ Alone /\ Blocks /\ Pending /\ Replied /\ Follows
    /\ \A t \in Ids : InHand(t)
    /\ Answers

IInv == Typed /\ Bounds /\ Queue /\ (~mixed => Serial)

-----------------------------------------------------------------------------
(***************************************************************************)
(* The shapes of a step: what it does to the tasks and to the gate.        *)
(***************************************************************************)

\* Task t is now rec, the others are as they were.
Becomes(t, rec) ==
    /\ tasks' \in Seq(Task)
    /\ DOMAIN tasks' = DOMAIN tasks
    /\ Len(tasks') = Len(tasks)
    /\ tasks'[t] = rec
    /\ \A u \in DOMAIN tasks : u # t => tasks'[u] = tasks[u]

\* A task rec was added.
Gains(rec) ==
    /\ tasks' \in Seq(Task)
    /\ Len(tasks') = Len(tasks) + 1
    /\ DOMAIN tasks' = 1 .. Len(tasks) + 1
    /\ tasks'[Len(tasks) + 1] = rec
    /\ \A u \in DOMAIN tasks : tasks'[u] = tasks[u]

\* The same, but a task of before may be over now.
Grown(rec) ==
    /\ tasks' \in Seq(Task)
    /\ Len(tasks') = Len(tasks) + 1
    /\ DOMAIN tasks' = 1 .. Len(tasks) + 1
    /\ tasks'[Len(tasks) + 1] = rec
    /\ \A u \in DOMAIN tasks :
          /\ tasks'[u].kind = tasks[u].kind
          /\ tasks'[u].user = tasks[u].user
          /\ tasks'[u].review = tasks[u].review
          /\ tasks'[u] = tasks[u] \/ tasks'[u].ph = "over"

\* At most t has left the gate.
Thins(t) ==
    /\ gate' \in Seq(Nat)
    /\ \A i \in DOMAIN gate' : \E a \in DOMAIN gate : gate'[i] = gate[a]
    /\ \A i, j \in DOMAIN gate' :
          i < j => \E a, b \in DOMAIN gate : a < b /\ gate'[i] = gate[a] /\ gate'[j] = gate[b]
    /\ \A a \in DOMAIN gate : gate[a] # t => \E i \in DOMAIN gate' : gate'[i] = gate[a]

\* An update of one task.
LEMMA Updating ==
    ASSUME tasks \in Seq(Task), NEW t \in DOMAIN tasks, NEW rec \in Task,
           tasks' = [tasks EXCEPT ![t] = rec]
    PROVE  Becomes(t, rec)
BY DEF Becomes

\* A new task.
LEMMA Adding ==
    ASSUME tasks \in Seq(Task), NEW rec \in Task, tasks' = Append(tasks, rec)
    PROVE  Gains(rec)
BY DEF Gains

\* h is g without its element at n.
Lacks(h, g, n) ==
    /\ h \in Seq(Nat)
    /\ DOMAIN h = 1 .. Len(g) - 1
    /\ \A i \in DOMAIN h : i < n => (i \in DOMAIN g /\ h[i] = g[i])
    /\ \A i \in DOMAIN h : i >= n => (i + 1 \in DOMAIN g /\ h[i] = g[i + 1])

\* The same, for elements that are given.
LEMMA Skipping ==
    ASSUME NEW g \in Seq(Nat), NEW n \in 1..Len(g), NEW h \in Seq(Nat), Len(h) = Len(g) - 1,
           \A i \in 1..Len(g) - 1 : i < n => h[i] = g[i],
           \A i \in 1..Len(g) - 1 : i >= n => h[i] = g[i + 1]
    PROVE  Lacks(h, g, n)
<1>1. Len(g) \in Nat /\ DOMAIN g = 1..Len(g) /\ DOMAIN h = 1 .. Len(g) - 1
  OBVIOUS
<1>2. ASSUME NEW i \in DOMAIN h, i < n PROVE i \in DOMAIN g /\ h[i] = g[i]
  BY <1>1, <1>2
<1>3. ASSUME NEW i \in DOMAIN h, i >= n PROVE i + 1 \in DOMAIN g /\ h[i] = g[i + 1]
  <2>1. i \in 1..Len(g) - 1
    BY <1>1
  <2>2. h[i] = g[i + 1]
    BY <1>3, <2>1
  <2>3. \A m \in Nat : \A x : x \in 1..m - 1 => x + 1 \in 1..m
    OBVIOUS
  <2> QED
    BY <1>1, <2>1, <2>2, <2>3
<1> QED
  BY <1>1, <1>2, <1>3 DEF Lacks

\* A sequence without its element at n.
LEMMA Cutting ==
    ASSUME NEW g \in Seq(Nat), NEW n \in 1..Len(g)
    PROVE  Lacks(SubSeq(g, 1, n - 1) \o SubSeq(g, n + 1, Len(g)), g, n)
<1> DEFINE before == SubSeq(g, 1, n - 1)
           after == SubSeq(g, n + 1, Len(g))
           h == before \o after
<1>1. /\ before \in Seq(Nat) /\ Len(before) = n - 1
      /\ \A i \in 1..n - 1 : before[i] = g[i]
  OBVIOUS
<1>2. /\ after \in Seq(Nat) /\ Len(after) = Len(g) - n
      /\ \A i \in 1..Len(g) - n : after[i] = g[i + n]
  OBVIOUS
<1>4. Len(g) \in Nat
  OBVIOUS
<1> HIDE DEF before, after
<1>5. /\ h \in Seq(Nat)
      /\ Len(h) = Len(before) + Len(after)
      /\ \A i \in 1 .. Len(before) + Len(after) :
            h[i] = IF i <= Len(before) THEN before[i] ELSE after[i - Len(before)]
  BY <1>1, <1>2, ConcatProperties
<1> HIDE DEF h
<1>6. Len(h) = Len(g) - 1
  BY <1>1, <1>2, <1>4, <1>5
<1>7. ASSUME NEW i \in 1..Len(g) - 1, i < n PROVE h[i] = g[i]
  <2>1. i \in 1 .. Len(before) + Len(after) /\ i <= Len(before) /\ i \in 1..n - 1
    BY <1>1, <1>2, <1>4, <1>7
  <2>2. h[i] = before[i]
    BY <1>5, <2>1
  <2> QED
    BY <1>1, <2>1, <2>2
<1>8. ASSUME NEW i \in 1..Len(g) - 1, i >= n PROVE h[i] = g[i + 1]
  <2>1. i - (n - 1) \in 1..Len(g) - n /\ (i - (n - 1)) + n = i + 1
    BY <1>4, <1>8
  <2>3. i \in 1 .. Len(before) + Len(after) /\ ~(i <= Len(before)) /\ Len(before) = n - 1
    BY <1>1, <1>2, <1>4, <1>8
  <2>4. h[i] = after[i - Len(before)]
    BY <1>5, <2>3
  <2>2. h[i] = after[i - (n - 1)]
    BY <2>3, <2>4
  <2> QED
    BY <2>1, <2>2, <1>2
<1>9. Lacks(h, g, n)
  BY <1>5, <1>6, <1>7, <1>8, Skipping
<1> QED
  BY <1>9 DEF h, before, after

\* Leaving the gate keeps the order of the others.
LEMMA Thinning ==
    ASSUME gate \in Seq(Nat), NEW t, gate' = Without(t)
    PROVE  Thins(t)
<1> DEFINE places == {i \in DOMAIN gate : gate[i] = t}
           place == CHOOSE i \in places : TRUE
<1>1. CASE places = {}
  <2>1. gate' = gate
    BY <1>1 DEF Without
  <2> QED
    BY <2>1 DEF Thins
<1>2. CASE places # {}
  <2>1. place \in places
    BY <1>2
  <2>2. gate' = SubSeq(gate, 1, place - 1) \o SubSeq(gate, place + 1, Len(gate))
    BY <1>2 DEF Without
  <2>3. place \in 1..Len(gate) /\ gate[place] = t
    BY <2>1
  <2> HIDE DEF place, places
  <2>4. Len(gate) \in Nat /\ DOMAIN gate = 1..Len(gate)
    OBVIOUS
  <2>6. SUFFICES ASSUME NEW n \in 1..Len(gate), gate[n] = t, NEW h, Lacks(h, gate, n)
                 PROVE  /\ h \in Seq(Nat)
                        /\ \A i \in DOMAIN h : \E a \in DOMAIN gate : h[i] = gate[a]
                        /\ \A i, j \in DOMAIN h :
                              i < j => \E a, b \in DOMAIN gate : a < b /\ h[i] = gate[a] /\ h[j] = gate[b]
                        /\ \A a \in DOMAIN gate : gate[a] # t => \E i \in DOMAIN h : h[i] = gate[a]
    <3>1. Lacks(gate', gate, place)
      BY <2>2, <2>3, Cutting
    <3>2. PICK n \in 1..Len(gate) : gate[n] = t /\ Lacks(gate', gate, n)
      BY <3>1, <2>3
    <3> QED
      BY <3>2 DEF Thins
  <2>8. h \in Seq(Nat) /\ DOMAIN h = 1 .. Len(gate) - 1
    BY <2>6 DEF Lacks
  <2>9. gate[n] = t
    BY <2>6
  <2>5. ASSUME NEW i \in DOMAIN h, i < n PROVE i \in DOMAIN gate /\ h[i] = gate[i]
    BY <2>5, <2>6 DEF Lacks
  <2>7. ASSUME NEW i \in DOMAIN h, i >= n PROVE i + 1 \in DOMAIN gate /\ h[i] = gate[i + 1]
    BY <2>6, <2>7, Zenon DEF Lacks
  <2>10. ASSUME NEW i \in DOMAIN h PROVE \E a \in DOMAIN gate : h[i] = gate[a]
    <3>1. i < n \/ i >= n
      BY <2>8
    <3> QED
      BY <3>1, <2>5, <2>7, Zenon
  <2>11. ASSUME NEW i \in DOMAIN h, NEW j \in DOMAIN h, i < j
         PROVE  \E a, b \in DOMAIN gate : a < b /\ h[i] = gate[a] /\ h[j] = gate[b]
    <3>0. i \in Nat /\ j \in Nat /\ n \in Nat
      BY <2>8
    <3>4. i < j + 1 /\ i + 1 < j + 1
      BY <3>0, <2>11
    <3>1. CASE j < n
      <4>1. i < n
        BY <3>0, <3>1, <2>11
      <4> QED
        BY <3>1, <4>1, <2>11, <2>5, Zenon
    <3>2. CASE i < n /\ j >= n
      BY <3>2, <3>4, <2>5, <2>7, Zenon
    <3>3. CASE i >= n
      <4>1. j >= n
        BY <3>0, <3>3, <2>11
      <4> QED
        BY <3>3, <3>4, <4>1, <2>7, Zenon
    <3> QED
      BY <3>0, <3>1, <3>2, <3>3
  <2>12. ASSUME NEW a \in DOMAIN gate, gate[a] # t
         PROVE  \E i \in DOMAIN h : h[i] = gate[a]
    <3>1. a # n /\ a \in 1..Len(gate)
      BY <2>12, <2>9, <2>4
    <3>2. CASE a < n
      <4>1. a \in DOMAIN h
        BY <3>1, <3>2, <2>8, <2>4
      <4> QED
        BY <3>2, <4>1, <2>5
    <3>3. CASE a > n
      <4>1. a - 1 \in DOMAIN h /\ a - 1 >= n /\ (a - 1) + 1 = a
        <5>1. \A m \in Nat : \A x, y \in 1..m : x > y => (x - 1 \in 1..m - 1 /\ x - 1 >= y /\ (x - 1) + 1 = x)
          OBVIOUS
        <5> QED
          BY <5>1, <3>1, <3>3, <2>8, <2>4
      <4>2. h[a - 1] = gate[a]
        BY <4>1, <2>7
      <4> QED
        BY <4>1, <4>2
    <3> QED
      BY <3>1, <3>2, <3>3
  <2> QED
    BY <2>8, <2>10, <2>11, <2>12
<1> QED
  BY <1>1, <1>2

\* A gate nobody left.
LEMMA GateKept ==
    ASSUME gate \in Seq(Nat), NEW t, gate' = gate
    PROVE  Thins(t)
BY DEF Thins

-----------------------------------------------------------------------------
(***************************************************************************)
(* Bounds and Queue.                                                       *)
(***************************************************************************)

\* Messages and reviews are only added, and what is added refers to what is there.
Extends ==
    /\ hist' \in Seq(Message)
    /\ reviews' \in Seq(Review)
    /\ Len(hist) <= Len(hist') /\ \A i \in DOMAIN hist : hist'[i] = hist[i]
    /\ Len(reviews) <= Len(reviews') /\ \A r \in DOMAIN reviews : reviews'[r].user = reviews[r].user
    /\ \A i \in DOMAIN hist' : i > Len(hist) =>
          /\ hist'[i].k = "calls" => hist'[i].of \in DOMAIN reviews'
          /\ hist'[i].k = "answer" => hist'[i].of < i
    /\ \A r \in DOMAIN reviews' : r > Len(reviews) => reviews'[r].user \in 1..Len(hist')

\* Task u is as it was, its review too.
Kept(u) ==
    /\ u \in DOMAIN tasks
    /\ tasks'[u] = tasks[u]
    /\ tasks[u].kind = "resume" => reviews'[tasks[u].review].status = reviews[tasks[u].review].status

\* A step without messages and with the reviews of before.
LEMMA NothingAdded ==
    ASSUME Typed, Bounds, hist' = hist, reviews' = reviews
    PROVE  Extends
BY DEF Typed, Bounds, Extends

\* A review gets another status.
LEMMA ReviewStatus ==
    ASSUME reviews \in Seq(Review), NEW r \in DOMAIN reviews, NEW s \in Statuses,
           reviews' = [reviews EXCEPT ![r].status = s]
    PROVE  /\ reviews' \in Seq(Review) /\ Len(reviews') = Len(reviews) /\ DOMAIN reviews' = DOMAIN reviews
           /\ \A q \in DOMAIN reviews : reviews'[q].user = reviews[q].user /\ (q # r => reviews'[q].status = reviews[q].status)
           /\ reviews'[r].status = s
<1> DEFINE rv == [reviews[r] EXCEPT !.status = s]
<1>1. reviews[r] \in Review
  OBVIOUS
<1>2. rv \in Review /\ rv.user = reviews[r].user /\ rv.status = s
  BY <1>1 DEF Review
<1>3. reviews' = [reviews EXCEPT ![r] = rv]
  OBVIOUS
<1> HIDE DEF rv
<1>4. reviews' \in Seq(Review) /\ Len(reviews') = Len(reviews) /\ DOMAIN reviews' = DOMAIN reviews
  BY <1>2, <1>3
<1>5. reviews'[r] = rv /\ \A q \in DOMAIN reviews : q # r => reviews'[q] = reviews[q]
  BY <1>3
<1> QED
  BY <1>2, <1>4, <1>5

\* The same when the status of a review changes.
LEMMA StatusChanged ==
    ASSUME Typed, Bounds, hist' = hist, NEW r \in DOMAIN reviews, NEW s \in Statuses,
           reviews' = [reviews EXCEPT ![r].status = s]
    PROVE  Extends
<1>1. reviews' \in Seq(Review) /\ Len(reviews') = Len(reviews)
      /\ \A q \in DOMAIN reviews : reviews'[q].user = reviews[q].user
  <2>1. reviews \in Seq(Review)
    BY DEF Typed
  <2>2. /\ reviews' \in Seq(Review) /\ Len(reviews') = Len(reviews) /\ DOMAIN reviews' = DOMAIN reviews
        /\ \A q \in DOMAIN reviews : reviews'[q].user = reviews[q].user /\ (q # r => reviews'[q].status = reviews[q].status)
        /\ reviews'[r].status = s
    BY <2>1, ReviewStatus
  <2> QED
    BY <2>2
<1> QED
  BY <1>1 DEF Typed, Bounds, Extends

\* A task that was kept is as it should be.
LEMMA TaskKept ==
    ASSUME Typed, Extends, NEW u, Kept(u), TaskOK(u)
    PROVE  TaskOK(u)'
<1>1. tasks[u] \in Task
  BY DEF Typed, Kept
<1>2. tasks[u].user \in Nat /\ tasks[u].review \in Nat
  BY <1>1 DEF Task
<1>3. Len(hist) \in Nat /\ Len(hist') \in Nat /\ Len(reviews) \in Nat /\ Len(reviews') \in Nat
      /\ Len(hist) <= Len(hist') /\ Len(reviews) <= Len(reviews') /\ DOMAIN reviews = 1..Len(reviews)
  BY DEF Typed, Extends
<1>4. tasks[u].user <= Len(hist') /\ tasks[u].review <= Len(reviews')
  BY <1>2, <1>3 DEF TaskOK
<1>5. tasks[u].kind = "resume" => /\ tasks[u].review \in DOMAIN reviews
                                  /\ reviews'[tasks[u].review].user = reviews[tasks[u].review].user
                                  /\ reviews'[tasks[u].review].status = reviews[tasks[u].review].status
  BY <1>2, <1>3 DEF TaskOK, Extends, Kept
<1> QED
  BY <1>4, <1>5 DEF TaskOK, Kept

\* Bounds, from the tasks that changed.
LEMMA BoundsNext ==
    ASSUME Typed, Bounds, Extends, OneResume',
           \A u \in DOMAIN tasks' : Kept(u) \/ TaskOK(u)',
           \A i \in DOMAIN gate' : gate'[i] \in DOMAIN tasks',
           marker'.at <= Len(hist')
    PROVE  Bounds'
<1>1. ASSUME NEW u \in DOMAIN tasks' PROVE TaskOK(u)'
  <2>1. CASE Kept(u)
    <3>1. TaskOK(u)
      BY <2>1 DEF Bounds, Kept, Ids
    <3> QED
      BY <2>1, <3>1, TaskKept
  <2> QED
    BY <2>1
<1>2. /\ Len(hist) \in Nat /\ Len(hist') \in Nat /\ Len(reviews) \in Nat /\ Len(reviews') \in Nat
      /\ DOMAIN hist = 1..Len(hist) /\ DOMAIN hist' = 1..Len(hist')
      /\ DOMAIN reviews = 1..Len(reviews) /\ DOMAIN reviews' = 1..Len(reviews')
  BY DEF Typed, Extends
<1>3. ASSUME NEW r \in DOMAIN reviews' PROVE reviews'[r].user \in 1..Len(hist')
  <2>1. CASE r > Len(reviews)
    BY <2>1 DEF Extends
  <2>2. CASE r <= Len(reviews)
    <3>1. r \in DOMAIN reviews
      BY <2>2, <1>2
    <3>2. reviews'[r].user \in 1..Len(hist) /\ Len(hist) <= Len(hist')
      BY <3>1 DEF Bounds, Extends
    <3> QED
      BY <3>2, <1>2
  <2> QED
    BY <2>1, <2>2, <1>2
<1>4. ASSUME NEW i \in DOMAIN hist'
      PROVE  /\ hist'[i].k = "calls" => hist'[i].of \in DOMAIN reviews'
             /\ hist'[i].k = "answer" => hist'[i].of < i
  <2>1. CASE i > Len(hist)
    BY <2>1 DEF Extends
  <2>2. CASE i <= Len(hist)
    <3>1. i \in DOMAIN hist /\ hist'[i] = hist[i]
      BY <2>2, <1>2 DEF Extends
    <3>2. DOMAIN reviews \subseteq DOMAIN reviews'
      BY <1>2 DEF Extends
    <3> QED
      BY <3>1, <3>2 DEF Bounds
  <2> QED
    BY <2>1, <2>2, <1>2
<1> QED
  BY <1>1, <1>3, <1>4 DEF Bounds, Ids

\* One task per review, when a task keeps its kind and review ...
LEMMA OneResumeMoved ==
    ASSUME OneResume, NEW t \in DOMAIN tasks, NEW rec, Becomes(t, rec),
           rec.kind = tasks[t].kind, rec.review = tasks[t].review
    PROVE  OneResume'
<1>1. \A u \in DOMAIN tasks : tasks'[u].kind = tasks[u].kind /\ tasks'[u].review = tasks[u].review
  BY DEF Becomes
<1> QED
  BY <1>1 DEF OneResume, Ids, Becomes

\* ... and when the new task resumes nothing, or a review that no task resumed.
LEMMA OneResumeAdded ==
    ASSUME tasks \in Seq(Task), OneResume, NEW rec, Grown(rec),
           rec.kind = "resume" => \A u \in DOMAIN tasks : tasks[u].kind = "resume" => tasks[u].review # rec.review
    PROVE  OneResume'
<1>1. \A u \in DOMAIN tasks' : u = Len(tasks) + 1 \/ u \in DOMAIN tasks
  BY DEF Grown
<1>2. /\ DOMAIN tasks' = 1 .. Len(tasks) + 1
      /\ tasks'[Len(tasks) + 1] = rec
      /\ \A u \in DOMAIN tasks : tasks'[u].kind = tasks[u].kind /\ tasks'[u].review = tasks[u].review
  BY DEF Grown
<1> QED
  BY <1>1, <1>2 DEF OneResume, Ids

\* The gate after a step in which t is not queued any more.
LEMMA QueueThinned ==
    ASSUME Bounds, Queue, NEW t \in DOMAIN tasks, NEW rec, Becomes(t, rec),
           rec.kind = tasks[t].kind, rec.ph # "queued", Thins(t)
    PROVE  Queue' /\ \A i \in DOMAIN gate' : gate'[i] \in DOMAIN tasks'
<1>1. \A u \in DOMAIN tasks : tasks'[u].kind = tasks[u].kind
  BY DEF Becomes
<1>2. \A i \in DOMAIN gate : gate[i] \in DOMAIN tasks
  BY DEF Bounds, Ids
<1>3. \A i \in DOMAIN gate' : gate'[i] \in DOMAIN tasks'
  BY <1>2 DEF Thins, Becomes
<1>4. ASSUME NEW u \in DOMAIN tasks', tasks'[u].ph = "queued"
      PROVE  \E i \in DOMAIN gate' : gate'[i] = u
  <2>1. u # t /\ u \in DOMAIN tasks /\ tasks[u].ph = "queued"
    BY <1>4 DEF Becomes
  <2>2. PICK a \in DOMAIN gate : gate[a] = u
    BY <2>1 DEF Queue, Ids
  <2> QED
    BY <2>1, <2>2 DEF Thins
<1>5. ASSUME NEW i \in DOMAIN gate', NEW j \in DOMAIN gate', i < j,
             tasks'[gate'[i]].kind = "turn", tasks'[gate'[j]].kind = "turn"
      PROVE  gate'[i] < gate'[j]
  <2>1. PICK a \in DOMAIN gate, b \in DOMAIN gate : a < b /\ gate'[i] = gate[a] /\ gate'[j] = gate[b]
    BY <1>5 DEF Thins
  <2>2. tasks[gate[a]].kind = "turn" /\ tasks[gate[b]].kind = "turn"
    BY <1>1, <1>2, <1>5, <2>1
  <2> QED
    BY <2>1, <2>2 DEF Queue
<1> QED
  BY <1>3, <1>4, <1>5 DEF Queue, Ids

\* The gate after a step that adds a task outside it.
LEMMA QueueAside ==
    ASSUME tasks \in Seq(Task), Bounds, Queue, NEW rec, Grown(rec), rec.ph # "queued", gate' = gate
    PROVE  Queue' /\ \A i \in DOMAIN gate' : gate'[i] \in DOMAIN tasks'
<1>1. \A i \in DOMAIN gate : gate[i] \in DOMAIN tasks
  BY DEF Bounds, Ids
<1>2. DOMAIN tasks \subseteq DOMAIN tasks' /\ \A u \in DOMAIN tasks' : u = Len(tasks) + 1 \/ u \in DOMAIN tasks
  BY DEF Grown
<1>3. /\ tasks'[Len(tasks) + 1] = rec
      /\ \A u \in DOMAIN tasks : tasks'[u].kind = tasks[u].kind /\ (tasks'[u] = tasks[u] \/ tasks'[u].ph = "over")
  BY DEF Grown
<1>4. \A u \in DOMAIN tasks' : tasks'[u].ph = "queued" => (u \in DOMAIN tasks /\ tasks[u].ph = "queued")
  BY <1>2, <1>3
<1>5. \A i \in DOMAIN gate' : gate'[i] \in DOMAIN tasks /\ tasks'[gate'[i]].kind = tasks[gate'[i]].kind
  BY <1>1, <1>3
<1> QED
  BY <1>2, <1>4, <1>5 DEF Queue, Ids

\* The gate after a step that puts x, which is the newest task or no turn, at its end.
LEMMA QueueJoined ==
    ASSUME tasks \in Seq(Task), gate \in Seq(Nat), Bounds, Queue, NEW x \in Nat, x \in DOMAIN tasks',
           DOMAIN tasks \subseteq DOMAIN tasks',
           gate' = Append(gate, x),
           \A u \in DOMAIN tasks : tasks'[u].kind = tasks[u].kind,
           \A u \in DOMAIN tasks' : u # x => (u \in DOMAIN tasks /\ tasks'[u] = tasks[u]),
           tasks'[x].kind = "turn" => x > Len(tasks)
    PROVE  Queue' /\ \A i \in DOMAIN gate' : gate'[i] \in DOMAIN tasks'
<1>1. \A i \in DOMAIN gate : gate[i] \in DOMAIN tasks
  BY DEF Bounds, Ids
<1>2. /\ Len(gate) \in Nat /\ DOMAIN gate = 1..Len(gate) /\ DOMAIN gate' = 1 .. Len(gate) + 1
      /\ gate'[Len(gate) + 1] = x /\ \A i \in DOMAIN gate : gate'[i] = gate[i]
  OBVIOUS
<1>3. \A i \in DOMAIN gate' : i = Len(gate) + 1 \/ i \in DOMAIN gate
  BY <1>2
<1>4. \A i \in DOMAIN gate' : gate'[i] \in DOMAIN tasks'
  BY <1>1, <1>2, <1>3
<1>5. ASSUME NEW u \in DOMAIN tasks', tasks'[u].ph = "queued"
      PROVE  \E i \in DOMAIN gate' : gate'[i] = u
  <2>1. CASE u = x
    <3>1. Len(gate) + 1 \in DOMAIN gate'
      BY <1>2
    <3> QED
      BY <3>1, <2>1, <1>2
  <2>2. CASE u # x
    <3>1. u \in DOMAIN tasks /\ tasks[u].ph = "queued"
      BY <1>5, <2>2
    <3>2. PICK i \in DOMAIN gate : gate[i] = u
      BY <3>1 DEF Queue, Ids
    <3>3. i \in DOMAIN gate'
      BY <1>2
    <3> QED
      BY <3>2, <3>3, <1>2
  <2> QED
    BY <2>1, <2>2
<1>6. ASSUME NEW i \in DOMAIN gate', NEW j \in DOMAIN gate', i < j,
             tasks'[gate'[i]].kind = "turn", tasks'[gate'[j]].kind = "turn"
      PROVE  gate'[i] < gate'[j]
  <2>1. i \in DOMAIN gate
    BY <1>2, <1>6
  <2>2. gate'[i] = gate[i] /\ gate[i] \in DOMAIN tasks /\ tasks[gate[i]].kind = "turn"
    BY <1>1, <1>2, <1>6, <2>1
  <2>3. CASE j \in DOMAIN gate
    <3>1. gate'[j] = gate[j] /\ gate[j] \in DOMAIN tasks /\ tasks[gate[j]].kind = "turn"
      BY <1>1, <1>2, <1>6, <2>3
    <3> QED
      BY <3>1, <2>1, <2>2, <2>3, <1>6 DEF Queue
  <2>4. CASE j = Len(gate) + 1
    <3>1. gate'[j] = x /\ x > Len(tasks)
      BY <1>2, <1>6, <2>4
    <3>2. DOMAIN tasks = 1..Len(tasks) /\ Len(tasks) \in Nat
      OBVIOUS
    <3> QED
      BY <2>2, <3>1, <3>2
  <2> QED
    BY <2>3, <2>4, <1>3
<1> QED
  BY <1>4, <1>5, <1>6 DEF Queue, Ids

-----------------------------------------------------------------------------
(***************************************************************************)
(* Serial, when the step adds no message and no task comes nearer to       *)
(* running.                                                                *)
(***************************************************************************)

\* A plain task that executes outside the queue's protection, and a retry asked for.
Works(t) == Runs(t) /\ Plain(t)
Asks(t) == Aside(t) /\ tasks[t].ph = "requested"
Holds(t) == Plain(t) /\ (tasks[t].ph = "running" \/ Aside(t))
Turns(t) == tasks[t].kind = "turn" /\ tasks[t].ph = "running"

\* What t owes it owed before.
Calm(t) ==
    /\ tasks'[t].kind = tasks[t].kind
    /\ tasks'[t].user = tasks[t].user
    /\ tasks'[t].review = tasks[t].review
    /\ Waits(t)' => Waits(t)
    /\ Late(t)' => Late(t)
    /\ Turns(t)' => Turns(t)
    /\ Holds(t)' => Holds(t)
    /\ Asks(t)' => Asks(t)

\* What t may do it could do before.
Quiet(t) ==
    /\ Live(t)' => Live(t)
    /\ Works(t)' => Works(t)
    /\ Aside(t)' => (Aside(t) \/ (t = Newest /\ Works(t)))

Calms ==
    /\ DOMAIN tasks' = DOMAIN tasks
    /\ Len(tasks') = Len(tasks)
    /\ \A t \in DOMAIN tasks : Calm(t)

Quiets == Calms /\ \A t \in DOMAIN tasks : Quiet(t)

\* The reviews are those of before; one may have been settled.
Settles ==
    /\ DOMAIN reviews' = DOMAIN reviews
    /\ \A r \in DOMAIN reviews :
          /\ reviews'[r].user = reviews[r].user
          /\ reviews'[r].status = "pending" => reviews[r].status = "pending"
          /\ reviews'[r].status = "resuming" => reviews[r].status = "resuming"

\* Nobody runs together with another, nor starts after a later task.
LEMMA Unmixed ==
    ASSUME mixed \in BOOLEAN, Watch, ~mixed'
    PROVE  /\ ~mixed
           /\ One'
           /\ \A t \in DOMAIN tasks : (tasks[t].ph = "requested" /\ Runs(t)') => ~(t < Len(tasks'))
           /\ \A t \in DOMAIN tasks : (tasks[t].ph = "hook" /\ tasks'[t].ended = "redirect") => ~(t + 1 < Len(tasks'))
<1>1. mixed' = (mixed \/ Mixed)
  BY DEF Watch
<1>2. ~mixed /\ ~Mixed
  BY <1>1
<1> QED
  BY <1>2 DEF Mixed, One, Runs, Ids

\* Calm steps keep everything but what is said of the marker, of the protocol and of who may run.
LEMMA CalmSerial ==
    ASSUME Typed, Serial, Calms, Settles, One', Alone', Blocks', hist' = hist, Follows', MarkerOpen'
    PROVE  Serial'
<1>1. Len(tasks') = Len(tasks) /\ DOMAIN tasks' = DOMAIN tasks
  BY DEF Calms
<1>5. Pending'
  <2>1. \A t \in DOMAIN tasks : (Waits(t)' => Waits(t)) /\ tasks'[t].review = tasks[t].review
    BY DEF Calms, Calm
  <2>2. \A r \in DOMAIN reviews : reviews'[r].status = "pending" => reviews[r].status = "pending"
    BY DEF Settles
  <2>3. \A r \in DOMAIN reviews : Waiting(r)' => Waiting(r)
    BY <1>1, <2>1, <2>2 DEF Waiting, Ids
  <2>4. \A r \in DOMAIN reviews : reviews'[r].user = reviews[r].user
    BY DEF Settles
  <2>5. DOMAIN reviews' = DOMAIN reviews
    BY DEF Settles
  <2>6. Pending
    BY DEF Serial
  <2> QED
    BY <2>3, <2>4, <2>5, <2>6 DEF Pending, LastCalls, Unanswered
<1>6. Replied'
  <2>1. \A t \in DOMAIN tasks : (Late(t)' => Late(t)) /\ tasks'[t].review = tasks[t].review
    BY DEF Calms, Calm
  <2>2. Replied
    BY DEF Serial
  <2> QED
    BY <1>1, <2>1, <2>2 DEF Replied, Ids, Unmatched
<1>7. ASSUME NEW t \in DOMAIN tasks PROVE InHand(t)'
  <2>1. Calm(t) /\ InHand(t)
    BY DEF Calms, Serial, Ids
  <2>2. Turns(t)' => (tasks'[t].user = Len(hist) /\ hist[Len(hist)].k = "user")
    BY <2>1 DEF Calm, InHand, Turns
  <2>3. Holds(t)' => \A i \in DOMAIN hist : hist[i].k = "answer" => hist[i].of # tasks'[t].user
    BY <2>1 DEF Calm, InHand, Holds, Unanswered
  <2>4. Asks(t)' => \A i \in DOMAIN hist : hist[i].k = "answer" => i <= tasks'[t].user
    BY <2>1 DEF Calm, InHand, Asks
  <2> QED
    BY <2>2, <2>3, <2>4 DEF InHand, Turns, Holds, Asks, Unanswered
<1>8. Answers'
  <2>1. OneAnswer /\ TurnAnswer
    BY DEF Serial, Answers
  <2> QED
    BY <2>1 DEF Answers, OneAnswer, TurnAnswer
<1> QED
  BY <1>1, <1>5, <1>6, <1>7, <1>8 DEF Serial, Ids

\* Quiet steps keep the newest task alone.
LEMMA QuietAlone ==
    ASSUME Alone, DOMAIN tasks' = DOMAIN tasks, Len(tasks') = Len(tasks), \A t \in DOMAIN tasks : Quiet(t)
    PROVE  Alone'
<1>1. SUFFICES ASSUME NEW t \in DOMAIN tasks, Aside(t)' \/ (t = Newest /\ Works(t)'),
                      NEW u \in DOMAIN tasks, u # t
               PROVE  ~Live(u)'
  BY DEF Alone, Ids, Newest, Works
<1>2. Aside(t) \/ (t = Newest /\ Works(t))
  BY <1>1 DEF Quiet
<1>3. ~Live(u)
  BY <1>1, <1>2 DEF Alone, Ids, Works
<1> QED
  BY <1>3 DEF Quiet

\* Quiet steps keep everything but what is said of the marker and of the protocol.
LEMMA QuietSerial ==
    ASSUME Typed, Serial, Quiets, Settles, One', hist' = hist, Follows',
           Usable' => (Usable \/ ~ReviewOpen), MarkerOpen'
    PROVE  Serial'
<1>1. Calms /\ Len(tasks') = Len(tasks) /\ DOMAIN tasks' = DOMAIN tasks
  BY DEF Quiets, Calms
<1>2. ReviewOpen' => ReviewOpen
  BY DEF ReviewOpen, Settles
<1>3. Alone'
  BY <1>1, QuietAlone DEF Serial, Quiets
<1>4. Blocks'
  <2>1. SUFFICES ASSUME ReviewOpen'
                 PROVE  (\A t \in DOMAIN tasks : ~Works(t)' /\ ~Aside(t)') /\ ~Usable'
    BY <1>1 DEF Blocks, Ids, Works
  <2>2. ReviewOpen /\ ~Usable /\ \A t \in DOMAIN tasks : ~Works(t) /\ ~Aside(t)
    BY <1>2, <2>1 DEF Serial, Blocks, Ids, Works
  <2>3. \A t \in DOMAIN tasks : (Works(t)' => Works(t)) /\ (Aside(t)' => (Aside(t) \/ Works(t)))
    BY DEF Quiets, Quiet
  <2> QED
    BY <2>2, <2>3
<1> QED
  BY <1>1, <1>3, <1>4, CalmSerial

-----------------------------------------------------------------------------
(***************************************************************************)
(* A task moves on without a message: the steps of all tasks but the first *)
(* and the last of a run.                                                  *)
(***************************************************************************)

\* How t, now rec, may have moved on.
Recedes(t, rec) ==
    /\ rec \in Task
    /\ rec.kind = tasks[t].kind /\ rec.user = tasks[t].user
    /\ rec.review = tasks[t].review /\ rec.restarts = tasks[t].restarts
    /\ tasks[t].ph # "over"
    /\ \/ rec.ph \in {"hook", "over", "finishing"}
       \/ /\ tasks[t].kind = "resume"
          /\ tasks[t].ph \in {"queued", "preparing"}
          /\ rec.ph \in {"preparing", "running"}
    /\ rec.ph = "finishing" => tasks[t].ph = "compacting"
    /\ (rec.ph = "hook" /\ tasks[t].kind # "resume") => (tasks[t].ph = "running" /\ tasks[t].restarts < Retries)

\* The marker is as it was, or a running task failed.
Marks(t) ==
    \/ marker' = marker
    \/ /\ tasks[t].ph = "running"
       /\ marker' \in [at : Nat, retryable : BOOLEAN]
       /\ marker'.at = Len(hist)

\* The review of t, which is over now, has got a last status, and its calls replies.
SettledBy(t, rec, s) ==
    /\ tasks[t].kind = "resume"
    /\ rec.ph = "over"
    /\ s \in {"completed", "failed", "cancelled"}
    /\ reviews' = [reviews EXCEPT ![tasks[t].review].status = s]
    /\ ~mixed => \A i \in Unmatched(hist) : hist[i].of # tasks[t].review

\* A task that moved on in this way can do nothing it could not do before.
LEMMA RecedingQuiet ==
    ASSUME NEW t \in DOMAIN tasks, NEW rec, Becomes(t, rec), Recedes(t, rec)
    PROVE  Quiets
<1>1. DOMAIN tasks' = DOMAIN tasks /\ Len(tasks') = Len(tasks) /\ tasks'[t] = rec
      /\ \A u \in DOMAIN tasks : u # t => tasks'[u] = tasks[u]
  BY DEF Becomes
<1>2. ASSUME NEW u \in DOMAIN tasks, u # t PROVE Calm(u) /\ Quiet(u)
  <2>1. tasks'[u] = tasks[u]
    BY <1>1, <1>2
  <2> QED
    BY <1>1, <2>1 DEF Calm, Quiet, Live, Works, Runs, Plain, Aside, Waits, Late, Turns, Holds, Asks, Newest
<1>3. Calm(t) /\ Quiet(t)
  <2>1. tasks'[t].kind = tasks[t].kind /\ tasks'[t].user = tasks[t].user /\ tasks'[t].review = tasks[t].review
    BY <1>1 DEF Recedes
  <2>2. CASE tasks[t].kind = "resume" /\ tasks[t].ph \in {"queued", "preparing"} /\ rec.ph \in {"preparing", "running"}
    BY <1>1, <2>1, <2>2 DEF Calm, Quiet, Live, Works, Runs, Plain, Aside, Waits, Late, Turns, Holds, Asks, Newest, Executing
  <2>3. CASE rec.ph \in {"hook", "over", "finishing"}
    <3>1. ~Live(t)' /\ ~Works(t)' /\ ~Waits(t)' /\ ~Turns(t)' /\ ~Asks(t)'
      BY <1>1, <2>3 DEF Live, Works, Runs, Waits, Turns, Asks, Executing
    <3>2. Late(t)' => Late(t)
      BY <1>1, <2>1, <2>3 DEF Late, Recedes
    <3>3. Aside(t)' => (t = Newest /\ Works(t))
      BY <1>1, <2>1, <2>3 DEF Aside, Works, Runs, Plain, Recedes, Newest, Executing
    <3>4. Holds(t)' => Holds(t)
      BY <1>1, <2>1, <2>3 DEF Holds, Aside, Plain, Recedes, Newest
    <3> QED
      BY <2>1, <3>1, <3>2, <3>3, <3>4 DEF Calm, Quiet
  <2> QED
    BY <2>2, <2>3 DEF Recedes
<1> QED
  BY <1>1, <1>2, <1>3 DEF Quiets, Calms

\* At most the review of t has changed its status, and only when t is over now.
OwnStatus(t, rec) ==
    \A r \in DOMAIN reviews :
        \/ reviews'[r].status = reviews[r].status
        \/ tasks[t].kind = "resume" /\ rec.ph = "over" /\ r = tasks[t].review

\* Such a step keeps what holds of every behaviour.
LEMMA RecedingBounds ==
    ASSUME Typed, Bounds, Queue, NEW t \in DOMAIN tasks, NEW rec, Becomes(t, rec), Recedes(t, rec), Thins(t),
           Marks(t), crashes' = crashes, Watch, Extends, Settles, OwnStatus(t, rec)
    PROVE  Typed' /\ Bounds' /\ Queue'
<1>1. TaskOK(t) /\ OneResume
  BY DEF Bounds, Ids
<1>2. /\ tasks \in Seq(Task) /\ reviews \in Seq(Review) /\ mixed \in BOOLEAN /\ tasks[t] \in Task
      /\ DOMAIN reviews = 1..Len(reviews) /\ Len(reviews) \in Nat
  BY DEF Typed
<1>3. /\ tasks[t].review \in Nat /\ tasks[t].user \in Nat
      /\ Len(hist) \in Nat /\ Len(hist') \in Nat /\ Len(hist) <= Len(hist')
  BY <1>2 DEF Task, Typed, Extends
<1>4. tasks[t].kind = "resume" => /\ tasks[t].review \in DOMAIN reviews
                                  /\ reviews[tasks[t].review].status = "resuming"
                                  /\ tasks[t].user = reviews[tasks[t].review].user
  BY <1>1, <1>2, <1>3 DEF TaskOK, Recedes
<1>6. Typed'
  <2>1. mixed' \in BOOLEAN
    BY DEF Watch
  <2>2. marker' \in [at : Nat, retryable : BOOLEAN]
    BY DEF Marks, Typed
  <2> QED
    BY <2>1, <2>2 DEF Typed, Becomes, Thins, Extends
<1>7. rec.kind = tasks[t].kind /\ rec.review = tasks[t].review /\ rec.ph # "queued"
  BY DEF Recedes
<1>8. OneResume'
  BY <1>1, <1>7, OneResumeMoved
<1>9. Queue' /\ \A i \in DOMAIN gate' : gate'[i] \in DOMAIN tasks'
  BY <1>7, QueueThinned
<1>10. TaskOK(t)'
  <2>1. tasks'[t] = rec
    BY DEF Becomes
  <2>2. /\ rec.user <= Len(hist') /\ rec.review <= Len(reviews')
        /\ rec.restarts <= Retries
    <3>1. Len(reviews') = Len(reviews)
      BY <1>2 DEF Settles, Extends
    <3> QED
      BY <1>1, <1>3, <3>1 DEF TaskOK, Recedes
  <2>3. rec.ph \in {"running", "compacting", "finishing"} => rec.user > 0
    <3>1. CASE rec.ph = "finishing"
      BY <3>1, <1>1 DEF TaskOK, Recedes
    <3>2. CASE rec.ph = "running"
      <4>1. tasks[t].kind = "resume"
        BY <3>2 DEF Recedes
      <4>2. reviews[tasks[t].review].user \in 1..Len(hist)
        BY <1>4, <4>1 DEF Bounds
      <4> QED
        BY <1>4, <4>1, <4>2 DEF Recedes
    <3> QED
      BY <3>1, <3>2 DEF Recedes
  <2>4. /\ rec.ph # "requested" /\ rec.ph # "claimed"
        /\ rec.ph \in {"queued", "preparing"} => rec.kind = "resume"
        /\ (rec.ph = "hook" /\ rec.kind # "resume") => (rec.user > 0 /\ rec.restarts < Retries)
    BY <1>1 DEF Recedes, TaskOK
  <2>5. rec.kind = "resume" =>
          /\ rec.review > 0
          /\ rec.user = reviews'[rec.review].user
          /\ reviews'[rec.review].status # "pending"
          /\ rec.ph # "over" => reviews'[rec.review].status = "resuming"
    <3>1. SUFFICES ASSUME tasks[t].kind = "resume"
                   PROVE  /\ tasks[t].review > 0
                          /\ tasks[t].user = reviews'[tasks[t].review].user
                          /\ reviews'[tasks[t].review].status # "pending"
                          /\ rec.ph # "over" => reviews'[tasks[t].review].status = "resuming"
      BY DEF Recedes
    <3>2. tasks[t].review > 0 /\ tasks[t].user = reviews'[tasks[t].review].user
          /\ reviews'[tasks[t].review].status # "pending"
      BY <1>2, <1>4, <3>1 DEF Settles
    <3>3. rec.ph # "over" => reviews'[tasks[t].review].status = "resuming"
      BY <1>4, <3>1 DEF OwnStatus
    <3> QED
      BY <3>2, <3>3
  <2> QED
    BY <2>1, <2>2, <2>3, <2>4, <2>5 DEF TaskOK
<1>11. \A u \in DOMAIN tasks' : Kept(u) \/ TaskOK(u)'
  <2>1. SUFFICES ASSUME NEW u \in DOMAIN tasks, u # t PROVE Kept(u)
    BY <1>10 DEF Becomes
  <2>2. tasks'[u] = tasks[u] /\ TaskOK(u) /\ tasks[u] \in Task
    BY <1>2, <2>1 DEF Becomes, Bounds, Ids
  <2>3. SUFFICES ASSUME tasks[u].kind = "resume"
                 PROVE  reviews'[tasks[u].review].status = reviews[tasks[u].review].status
    BY <2>2 DEF Kept
  <2>4. tasks[u].review \in DOMAIN reviews
    BY <1>2, <2>2, <2>3 DEF TaskOK, Task
  <2>5. tasks[t].kind = "resume" => tasks[u].review # tasks[t].review
    BY <1>1, <2>1, <2>3 DEF OneResume, Ids
  <2> QED
    BY <2>4, <2>5 DEF OwnStatus
<1>12. marker'.at <= Len(hist')
  <2>1. marker.at <= Len(hist) /\ marker.at \in Nat
    BY DEF Bounds, Typed
  <2>2. CASE marker' = marker
    BY <1>3, <2>1, <2>2
  <2>3. CASE marker'.at = Len(hist)
    BY <1>3, <2>3
  <2> QED
    BY <2>2, <2>3 DEF Marks
<1>13. Bounds'
  BY <1>8, <1>9, <1>11, <1>12, BoundsNext
<1> QED
  BY <1>6, <1>9, <1>13

\* A step without a message keeps the invariant.
LEMMA Receding ==
    ASSUME IInv, NEW t \in DOMAIN tasks, NEW rec, Becomes(t, rec), Recedes(t, rec), Thins(t), Marks(t),
           hist' = hist, crashes' = crashes, Watch,
           reviews' = reviews \/ \E s : SettledBy(t, rec, s)
    PROVE  IInv'
<1>1. Typed /\ Bounds /\ Queue /\ TaskOK(t)
  BY DEF IInv, Bounds, Ids
<1>2. /\ reviews \in Seq(Review) /\ mixed \in BOOLEAN /\ tasks[t] \in Task
      /\ DOMAIN reviews = 1..Len(reviews) /\ Len(reviews) \in Nat
  BY <1>1 DEF Typed
<1>3. tasks[t].review \in Nat
  BY <1>2 DEF Task
<1>4. tasks[t].kind = "resume" => tasks[t].review \in DOMAIN reviews
  BY <1>1, <1>2, <1>3 DEF TaskOK, Recedes
<1>5. Extends /\ Settles /\ OwnStatus(t, rec)
  <2>1. CASE reviews' = reviews
    BY <2>1, <1>1, NothingAdded DEF Settles, OwnStatus
  <2>2. CASE \E s : SettledBy(t, rec, s)
    <3>1. PICK s : SettledBy(t, rec, s)
      BY <2>2
    <3>2. /\ tasks[t].review \in DOMAIN reviews /\ s \in Statuses
          /\ reviews' = [reviews EXCEPT ![tasks[t].review].status = s]
          /\ tasks[t].kind = "resume" /\ rec.ph = "over"
      BY <3>1, <1>4 DEF SettledBy, Statuses
    <3>3. Extends
      BY <3>2, <1>1, StatusChanged
    <3>4. s # "pending" /\ s # "resuming"
      BY <3>1 DEF SettledBy
    <3>5. \A r \in DOMAIN reviews : reviews[r] \in Review
      BY <1>2
    <3>6. Settles
      BY <3>2, <3>4, <3>5 DEF Settles, Review
    <3>7. OwnStatus(t, rec)
      BY <3>2 DEF OwnStatus
    <3> QED
      BY <3>3, <3>6, <3>7
  <2> QED
    BY <2>1, <2>2
<1>6. Typed' /\ Bounds' /\ Queue'
  BY <1>1, <1>5, RecedingBounds
<1>14. ASSUME ~mixed' PROVE Serial'
  <2>1. ~mixed /\ One'
    BY <1>2, <1>14, Unmixed
  <2>2. Serial
    BY <2>1 DEF IInv
  <2>3. Quiets
    BY RecedingQuiet
  <2>4. Follows'
    <3>1. Follows /\ Unmatched(hist') = Unmatched(hist) /\ Misplaced(hist') = Misplaced(hist)
      BY <2>2 DEF Serial
    <3>2. CASE reviews' = reviews
      BY <3>1, <3>2 DEF Follows
    <3>3. CASE \E s : SettledBy(t, rec, s)
      <4>1. PICK s : SettledBy(t, rec, s)
        BY <3>3
      <4>2. /\ reviews' = [reviews EXCEPT ![tasks[t].review].status = s]
            /\ \A i \in Unmatched(hist) : hist[i].of # tasks[t].review
        BY <2>1, <4>1 DEF SettledBy
      <4>3. \A i \in Unmatched(hist) : hist[i].of \in DOMAIN reviews
        BY <1>1 DEF Bounds, Unmatched
      <4>4. \A i \in Unmatched(hist) : reviews'[hist[i].of].status = reviews[hist[i].of].status
        BY <4>2, <4>3
      <4> QED
        BY <3>1, <4>4 DEF Follows
    <3> QED
      BY <3>2, <3>3
  <2>5. Usable' => (Usable \/ ~ReviewOpen)
    <3>1. CASE marker' = marker
      BY <3>1 DEF Usable
    <3>2. CASE tasks[t].ph = "running" /\ marker'.at = Len(hist)
      <4>1. CASE tasks[t].kind # "resume"
        BY <2>2, <3>2, <4>1 DEF Serial, Blocks, Runs, Plain, Executing, Ids
      <4>2. CASE tasks[t].kind = "resume"
        <5>1. Waits(t)
          BY <3>2, <4>2 DEF Waits
        <5>2. Waiting(tasks[t].review)
          BY <5>1 DEF Waiting, Ids
        <5>3. LastCalls(tasks[t].review)
          BY <1>4, <2>2, <4>2, <5>2 DEF Serial, Pending
        <5> QED
          BY <3>2, <5>3 DEF Usable, LastCalls
      <4> QED
        BY <4>1, <4>2
    <3> QED
      BY <3>1, <3>2 DEF Marks
  <2>6. MarkerOpen'
    <3>1. CASE marker' = marker
      BY <2>2, <3>1 DEF Serial, Answers, MarkerOpen
    <3>2. CASE marker'.at = Len(hist)
      <4>1. \A i \in DOMAIN hist : i <= Len(hist)
        BY <1>1 DEF Typed
      <4> QED
        BY <3>2, <4>1 DEF MarkerOpen
    <3> QED
      BY <3>1, <3>2 DEF Marks
  <2> QED
    BY <1>1, <1>5, <2>1, <2>2, <2>3, <2>4, <2>5, <2>6, QuietSerial
<1> QED
  BY <1>6, <1>14 DEF IInv

-----------------------------------------------------------------------------

\* rec is task t in another phase.
Moved(t, rec, phase) ==
    /\ rec \in Task
    /\ rec.kind = tasks[t].kind /\ rec.user = tasks[t].user
    /\ rec.review = tasks[t].review /\ rec.restarts = tasks[t].restarts
    /\ rec.ph = phase

\* A task that leaves the gate.
LEMMA Leaving ==
    ASSUME Typed, NEW t \in DOMAIN tasks, NEW phase \in Phases, NEW ended \in Endings, NEW outcome \in Outcomes,
           Leave(t, phase, ended, outcome)
    PROVE  \E rec : Becomes(t, rec) /\ Moved(t, rec, phase) /\ Thins(t)
<1> DEFINE rec == [tasks[t] EXCEPT !.ph = phase, !.outcome = outcome,
                    !.ended = IF tasks[t].ended = "open" THEN ended ELSE tasks[t].ended]
<1>1. tasks[t] \in Task /\ tasks \in Seq(Task) /\ gate \in Seq(Nat)
  BY DEF Typed
<1>2. Moved(t, rec, phase)
  BY <1>1 DEF Moved, Task
<1>3. tasks' = [tasks EXCEPT ![t] = rec] /\ gate' = Without(t)
  BY DEF Leave
<1> HIDE DEF rec
<1>4. Becomes(t, rec)
  BY <1>1, <1>2, <1>3, Updating DEF Moved
<1>5. Thins(t)
  BY <1>1, <1>3, Thinning
<1> QED
  BY <1>2, <1>4, <1>5

\* Task t changes its phase, and perhaps how it ended.
Rephases(t, phase) ==
    \/ tasks' = [tasks EXCEPT ![t].ph = phase]
    \/ \E ended \in Endings : tasks' = [tasks EXCEPT ![t] = [tasks[t] EXCEPT !.ph = phase, !.ended = ended]]

\* That is a move.
LEMMA Moving ==
    ASSUME Typed, NEW t \in DOMAIN tasks, NEW phase \in Phases, Rephases(t, phase)
    PROVE  \E rec : Becomes(t, rec) /\ Moved(t, rec, phase)
<1>1. tasks[t] \in Task /\ tasks \in Seq(Task)
  BY DEF Typed
<1>2. CASE tasks' = [tasks EXCEPT ![t].ph = phase]
  <2> DEFINE rec == [tasks[t] EXCEPT !.ph = phase]
  <2>1. Moved(t, rec, phase)
    BY <1>1 DEF Moved, Task
  <2>2. tasks' = [tasks EXCEPT ![t] = rec]
    BY <1>2
  <2> HIDE DEF rec
  <2>3. Becomes(t, rec)
    BY <1>1, <2>1, <2>2, Updating DEF Moved
  <2> QED
    BY <2>1, <2>3
<1>3. ASSUME NEW ended \in Endings, tasks' = [tasks EXCEPT ![t] = [tasks[t] EXCEPT !.ph = phase, !.ended = ended]]
      PROVE  \E rec : Becomes(t, rec) /\ Moved(t, rec, phase)
  <2> DEFINE rec == [tasks[t] EXCEPT !.ph = phase, !.ended = ended]
  <2>1. Moved(t, rec, phase)
    BY <1>1 DEF Moved, Task
  <2>2. tasks' = [tasks EXCEPT ![t] = rec]
    BY <1>3
  <2> HIDE DEF rec
  <2>3. Becomes(t, rec)
    BY <1>1, <2>1, <2>2, Updating DEF Moved
  <2> QED
    BY <2>1, <2>3
<1> QED
  BY <1>2, <1>3 DEF Rephases

\* The moves without a message: each is one of those that Receding allows.
LEMMA PreflightOver ==
    ASSUME IInv, NEW t \in DOMAIN tasks, Preflight(t), tasks[t].blocked \/ ReviewOpen
    PROVE  IInv'
<1>1. Typed
  BY DEF IInv
<1>2. tasks[t].ph = "queued" /\ UNCHANGED <<hist, marker, reviews, crashes>> /\ Watch /\ Leave(t, "over", "error", "failed")
  BY DEF Preflight
<1>3. PICK rec : Becomes(t, rec) /\ Moved(t, rec, "over") /\ Thins(t)
  BY <1>1, <1>2, Leaving DEF Phases, Endings, Outcomes
<1>4. Recedes(t, rec) /\ Marks(t)
  BY <1>2, <1>3 DEF Recedes, Moved, Marks
<1> QED
  BY <1>2, <1>3, <1>4, Receding

\* _prepare_chat_execution fails.
LEMMA PrepareFailsKeeps ==
    ASSUME IInv, NEW t \in DOMAIN tasks, PrepareFails(t)
    PROVE  IInv'
<1>1. Typed /\ TaskOK(t)
  BY DEF IInv, Bounds, Ids
<1>2. tasks[t].ph = "preparing" /\ UNCHANGED <<hist, marker, reviews, crashes>> /\ Watch
  BY DEF PrepareFails
<1>3. CASE tasks[t].kind = "turn"
  <2>1. Leave(t, "over", "error", "failed")
    BY <1>3 DEF PrepareFails
  <2>2. PICK rec : Becomes(t, rec) /\ Moved(t, rec, "over") /\ Thins(t)
    BY <1>1, <2>1, Leaving DEF Phases, Endings, Outcomes
  <2>3. Recedes(t, rec) /\ Marks(t)
    BY <1>2, <2>2 DEF Recedes, Moved, Marks
  <2> QED
    BY <1>2, <2>2, <2>3, Receding
<1>4. CASE tasks[t].kind # "turn"
  <2>1. Leave(t, "hook", "open", "failed")
    BY <1>4 DEF PrepareFails
  <2>2. PICK rec : Becomes(t, rec) /\ Moved(t, rec, "hook") /\ Thins(t)
    BY <1>1, <2>1, Leaving DEF Phases, Endings, Outcomes
  <2>3. tasks[t].kind = "resume"
    BY <1>1, <1>2, <1>4 DEF TaskOK
  <2>4. Recedes(t, rec) /\ Marks(t)
    BY <1>2, <2>2, <2>3 DEF Recedes, Moved, Marks
  <2> QED
    BY <1>2, <2>2, <2>4, Receding
<1> QED
  BY <1>3, <1>4

\* The run fails.
LEMMA FailKeeps ==
    ASSUME IInv, NEW t \in DOMAIN tasks, NEW retryable \in BOOLEAN, Fail(t, retryable)
    PROVE  IInv'
<1> DEFINE phase == IF tasks[t].kind = "resume" THEN "hook" ELSE "over"
<1>1. Typed
  BY DEF IInv
<1>2. /\ tasks[t].ph = "running" /\ UNCHANGED <<hist, reviews, crashes>> /\ Watch
      /\ Leave(t, phase, "error", "failed")
  BY DEF Fail
<1>3. phase \in Phases /\ phase \in {"hook", "over"} /\ (phase = "hook" => tasks[t].kind = "resume")
  BY DEF Phases
<1> HIDE DEF phase
<1>4. PICK rec : Becomes(t, rec) /\ Moved(t, rec, phase) /\ Thins(t)
  BY <1>1, <1>2, <1>3, Leaving DEF Endings, Outcomes
<1>5. Recedes(t, rec)
  BY <1>2, <1>3, <1>4 DEF Recedes, Moved
<1>6. Marks(t)
  <2>1. marker' = [at |-> Len(hist), retryable |-> retryable] /\ Len(hist) \in Nat
    BY <1>1 DEF Fail, Marked, Typed
  <2> QED
    BY <1>2, <2>1 DEF Marks
<1> QED
  BY <1>2, <1>4, <1>5, <1>6, Receding

\* The run asks for a rollback and a restart.
LEMMA NeedsRestartKeeps ==
    ASSUME IInv, NEW t \in DOMAIN tasks, NeedsRestart(t)
    PROVE  IInv'
<1>1. Typed
  BY DEF IInv
<1>2. /\ tasks[t].ph = "running" /\ UNCHANGED <<hist, reviews, crashes>> /\ Watch
      /\ Leave(t, "hook", "open", "restart") /\ tasks[t].restarts < Retries
  BY DEF NeedsRestart
<1>4. PICK rec : Becomes(t, rec) /\ Moved(t, rec, "hook") /\ Thins(t)
  BY <1>1, <1>2, Leaving DEF Phases, Endings, Outcomes
<1>5. Recedes(t, rec)
  BY <1>2, <1>4 DEF Recedes, Moved
<1>6. Marks(t)
  <2>1. marker' = [at |-> Len(hist), retryable |-> TRUE] /\ Len(hist) \in Nat
    BY <1>1 DEF NeedsRestart, Marked, Typed
  <2> QED
    BY <1>2, <2>1 DEF Marks
<1> QED
  BY <1>2, <1>4, <1>5, <1>6, Receding

\* A task is cancelled.
LEMMA CancelKeeps ==
    ASSUME IInv, NEW t \in DOMAIN tasks, Cancel(t)
    PROVE  IInv'
<1> DEFINE phase == IF tasks[t].kind = "resume" THEN "hook" ELSE "over"
<1>1. Typed
  BY DEF IInv
<1>2. /\ tasks[t].ph # "over" /\ UNCHANGED <<hist, marker, reviews, crashes>> /\ Watch
      /\ Leave(t, phase, "cancelled", "cancelled")
  BY DEF Cancel, Active
<1>3. phase \in Phases /\ phase \in {"hook", "over"} /\ (phase = "hook" => tasks[t].kind = "resume")
  BY DEF Phases
<1> HIDE DEF phase
<1>4. PICK rec : Becomes(t, rec) /\ Moved(t, rec, phase) /\ Thins(t)
  BY <1>1, <1>2, <1>3, Leaving DEF Endings, Outcomes
<1>5. Recedes(t, rec) /\ Marks(t)
  BY <1>2, <1>3, <1>4 DEF Recedes, Moved, Marks
<1> QED
  BY <1>2, <1>4, <1>5, Receding

\* The moves that only change the phase.
LEMMA PhaseKeeps ==
    ASSUME IInv, NEW t \in DOMAIN tasks, NEW phase \in Phases, Rephases(t, phase),
           UNCHANGED <<gate, hist, marker, reviews, crashes>>, Watch,
           \/ phase = "over" /\ tasks[t].ph # "over"
           \/ phase = "finishing" /\ tasks[t].ph = "compacting"
           \/ phase \in {"preparing", "running"} /\ tasks[t].kind = "resume" /\ tasks[t].ph \in {"queued", "preparing"}
    PROVE  IInv'
<1>1. Typed /\ gate \in Seq(Nat)
  BY DEF IInv, Typed
<1>2. PICK rec : Becomes(t, rec) /\ Moved(t, rec, phase)
  BY <1>1, Moving
<1>3. Thins(t)
  BY <1>1, GateKept
<1>4. Recedes(t, rec) /\ Marks(t)
  BY <1>2 DEF Recedes, Moved, Marks
<1> QED
  BY <1>2, <1>3, <1>4, Receding

\* Compaction is over; a retry is refused; a resumed task has the gate.
LEMMA PhasesKeep ==
    ASSUME IInv, NEW t \in DOMAIN tasks,
           Compacted(t) \/ RetryFails(t) \/ ResumePrepare(t)
    PROVE  IInv'
<1>1. CASE Compacted(t)
  <2>1. /\ Rephases(t, "finishing") /\ tasks[t].ph = "compacting"
        /\ UNCHANGED <<gate, hist, marker, reviews, crashes>> /\ Watch
    BY <1>1 DEF Compacted, Rephases
  <2>2. "finishing" \in Phases
    BY DEF Phases
  <2> QED
    BY <2>1, <2>2, PhaseKeeps
<1>2. CASE RetryFails(t)
  <2>1. /\ Rephases(t, "over") /\ tasks[t].ph # "over"
        /\ UNCHANGED <<gate, hist, marker, reviews, crashes>> /\ Watch
    BY <1>2 DEF RetryFails, Rephases, Endings
  <2>2. "over" \in Phases
    BY DEF Phases
  <2> QED
    BY <2>1, <2>2, PhaseKeeps
<1>3. CASE ResumePrepare(t)
  <2>1. /\ Rephases(t, "preparing") /\ tasks[t].kind = "resume" /\ tasks[t].ph = "queued"
        /\ UNCHANGED <<gate, hist, marker, reviews, crashes>> /\ Watch
    BY <1>3 DEF ResumePrepare, Rephases
  <2>2. "preparing" \in Phases
    BY DEF Phases
  <2> QED
    BY <2>1, <2>2, PhaseKeeps
<1> QED
  BY <1>1, <1>2, <1>3

\* A resumed review begins: its request is stored already.
LEMMA BeginResume ==
    ASSUME IInv, NEW t \in DOMAIN tasks, Begin(t), tasks[t].kind # "turn"
    PROVE  IInv'
<1>1. Typed /\ Bounds /\ TaskOK(t) /\ gate \in Seq(Nat) /\ tasks \in Seq(Task) /\ tasks[t] \in Task
  BY DEF IInv, Bounds, Ids, Typed
<1>2. /\ tasks[t].ph = "preparing" /\ UNCHANGED <<gate, marker, reviews, crashes>> /\ Watch /\ hist' = hist
      /\ tasks[t].kind = "resume"
  BY <1>1 DEF Begin, TaskOK
<1>3. tasks[t].user # 0
  <2>1. tasks[t].review \in DOMAIN reviews /\ tasks[t].user = reviews[tasks[t].review].user
    BY <1>1, <1>2 DEF TaskOK, Task, Typed
  <2> QED
    BY <1>1, <2>1 DEF Bounds, Typed
<1> DEFINE rec == [tasks[t] EXCEPT !.ph = "running",
                    !.user = IF tasks[t].user = 0 THEN Len(hist) + 1 ELSE tasks[t].user]
<1>4. Moved(t, rec, "running")
  BY <1>1, <1>3 DEF Moved, Task, Phases
<1>5. tasks' = [tasks EXCEPT ![t] = rec]
  BY DEF Begin
<1> HIDE DEF rec
<1>6. Becomes(t, rec)
  BY <1>1, <1>4, <1>5, Updating DEF Moved
<1>7. Thins(t)
  BY <1>1, <1>2, GateKept
<1>8. Recedes(t, rec) /\ Marks(t)
  BY <1>2, <1>4 DEF Recedes, Moved, Marks
<1> QED
  BY <1>2, <1>6, <1>7, <1>8, Receding

-----------------------------------------------------------------------------
(***************************************************************************)
(* Reviews that are settled.                                               *)
(***************************************************************************)

\* Messages that are no answers change nothing about the answers.
LEMMA AnswersKept ==
    ASSUME Typed, Answers, Extends, \A i \in DOMAIN hist' : i > Len(hist) => hist'[i].k # "answer",
           marker'.at > 0 => marker' = marker
    PROVE  Answers'
<1>1. /\ Len(hist) \in Nat /\ Len(hist') \in Nat /\ Len(hist) <= Len(hist')
      /\ DOMAIN hist = 1..Len(hist) /\ DOMAIN hist' = 1..Len(hist')
      /\ \A i \in DOMAIN hist : hist'[i] = hist[i]
  BY DEF Typed, Extends
<1>2. ASSUME NEW i \in DOMAIN hist', hist'[i].k = "answer"
      PROVE  i \in DOMAIN hist /\ hist[i] = hist'[i] /\ hist[i].of \in Nat
  <2>1. i \in DOMAIN hist /\ hist[i] = hist'[i]
    BY <1>1, <1>2
  <2>2. hist[i] \in Message
    BY <2>1 DEF Typed
  <2> QED
    BY <2>1, <2>2 DEF Message
<1>3. OneAnswer'
  BY <1>2 DEF Answers, OneAnswer
<1>4. TurnAnswer'
  <2>1. SUFFICES ASSUME NEW i \in DOMAIN hist', hist'[i].k = "answer", hist'[i].by = "turn",
                        NEW j \in hist'[i].of + 1 .. i
                 PROVE  hist'[j].k # "user"
    BY DEF TurnAnswer
  <2>2. i \in DOMAIN hist /\ hist[i] = hist'[i] /\ hist[i].of \in Nat
    BY <1>2, <2>1
  <2>3. hist[j].k # "user"
    BY <2>1, <2>2 DEF Answers, TurnAnswer
  <2>4. j \in DOMAIN hist
    BY <1>1, <2>1, <2>2
  <2> QED
    BY <1>1, <2>3, <2>4
<1>5. MarkerOpen'
  BY <1>2 DEF Answers, MarkerOpen
<1> QED
  BY <1>3, <1>4, <1>5 DEF Answers

\* A resumed task that is not over has a review that is being resumed.
LEMMA OwnReview ==
    ASSUME Typed, Bounds, NEW t \in DOMAIN tasks, tasks[t].kind = "resume", tasks[t].ph # "over"
    PROVE  /\ tasks[t].review \in DOMAIN reviews
           /\ reviews[tasks[t].review].status = "resuming"
           /\ reviews[tasks[t].review].user = tasks[t].user
           /\ ReviewOpen
<1>1. TaskOK(t) /\ tasks[t] \in Task /\ DOMAIN reviews = 1..Len(reviews) /\ Len(reviews) \in Nat
  BY DEF Bounds, Ids, Typed
<1>2. tasks[t].review \in Nat
  BY <1>1 DEF Task
<1>3. tasks[t].review \in DOMAIN reviews /\ reviews[tasks[t].review].status = "resuming"
  BY <1>1, <1>2 DEF TaskOK
<1> QED
  BY <1>1, <1>3 DEF TaskOK, ReviewOpen

\* The calls of the last message have no reply yet.
LEMMA LastUnmatched ==
    ASSUME Typed, NEW r, LastCalls(r)
    PROVE  Len(hist) \in Unmatched(hist) /\ hist[Len(hist)].of = r
<1>1. hist \in Seq(Message) /\ hist # <<>>
  BY DEF Typed, LastCalls
<1>2. Len(hist) \in DOMAIN hist /\ \A j \in DOMAIN hist : ~(j > Len(hist))
  BY <1>1
<1> QED
  BY <1>2 DEF Unmatched, LastCalls

\* The replies that close an interrupted review.
LEMMA ClosingKeeps ==
    ASSUME IInv, NEW t \in DOMAIN tasks, NEW rec, Becomes(t, rec), Moved(t, rec, "over"),
           gate' = gate, marker' = marker, crashes' = crashes, Watch,
           tasks[t].kind = "resume", tasks[t].ph \in {"claimed", "hook"},
           NEW s \in {"failed", "cancelled"}, reviews' = [reviews EXCEPT ![tasks[t].review].status = s],
           hist' = Append(hist, Replies(t, tasks[t].review)), Sound(hist'),
           \A i \in Unmatched(hist) : hist[i].of = tasks[t].review
    PROVE  IInv'
<1>1. Typed /\ Bounds /\ Queue /\ OneResume /\ mixed \in BOOLEAN
  BY DEF IInv, Bounds, Typed
<1>2. /\ tasks[t].review \in DOMAIN reviews /\ ReviewOpen
      /\ tasks \in Seq(Task) /\ reviews \in Seq(Review) /\ hist \in Seq(Message) /\ gate \in Seq(Nat)
  BY <1>1, OwnReview DEF Typed
<1>3. Recedes(t, rec) /\ Marks(t) /\ Thins(t)
  <2>1. Thins(t)
    BY <1>2, GateKept
  <2> QED
    BY <2>1 DEF Recedes, Marks, Moved
<1>4. Replies(t, tasks[t].review) \in Message /\ Replies(t, tasks[t].review).k = "replies"
  <2>1. tasks[t] \in Task
    BY <1>2
  <2> QED
    BY <2>1 DEF Replies, Message, Task
<1>5. /\ hist' \in Seq(Message) /\ Len(hist') = Len(hist) + 1 /\ \A i \in DOMAIN hist : hist'[i] = hist[i]
      /\ hist'[Len(hist) + 1].k = "replies" /\ DOMAIN hist' = 1 .. Len(hist) + 1
      /\ DOMAIN hist = 1..Len(hist) /\ Len(hist) \in Nat
  BY <1>2, <1>4
<1>6. \A i \in DOMAIN hist' : i > Len(hist) => hist'[i].k = "replies"
  <2>1. \A i \in DOMAIN hist' : i > Len(hist) => i = Len(hist) + 1
    BY <1>5
  <2> QED
    BY <1>5, <2>1
<1>7. /\ reviews' \in Seq(Review) /\ Len(reviews') = Len(reviews) /\ DOMAIN reviews' = DOMAIN reviews
      /\ \A r \in DOMAIN reviews : reviews'[r].user = reviews[r].user /\ (r # tasks[t].review => reviews'[r].status = reviews[r].status)
      /\ reviews'[tasks[t].review].status = s
  BY <1>2, ReviewStatus DEF Statuses
<1>8. Extends
  <2>1. \A r \in DOMAIN reviews' : ~(r > Len(reviews))
    BY <1>2, <1>7
  <2> QED
    BY <1>5, <1>6, <1>7, <2>1, <1>2 DEF Extends
<1>9. Settles /\ OwnStatus(t, rec)
  BY <1>7 DEF Settles, OwnStatus, Moved
<1>10. Typed' /\ Bounds' /\ Queue'
  BY <1>1, <1>3, <1>8, <1>9, RecedingBounds
<1>11. ASSUME ~mixed' PROVE Serial'
  <2>1. ~mixed /\ One'
    BY <1>1, <1>11, Unmixed
  <2>2. Serial
    BY <2>1 DEF IInv
  <2>3. Quiets
    BY <1>3, RecedingQuiet
  <2>4. ~Usable /\ \A u \in DOMAIN tasks : ~Works(u) /\ ~Aside(u)
    BY <1>2, <2>2 DEF Serial, Blocks, Works, Ids
  <2>5. \A u \in DOMAIN tasks : ~Works(u)' /\ ~Aside(u)'
    BY <2>3, <2>4 DEF Quiets, Quiet
  <2>6. DOMAIN tasks' = DOMAIN tasks
    BY DEF Becomes
  <2>7. Alone'
    BY <2>5, <2>6 DEF Alone, Ids, Works
  <2>8. Blocks'
    <3>1. ~Usable'
      <4>1. marker.at \in Nat /\ marker.at <= Len(hist)
        BY <1>1 DEF Typed, Bounds
      <4>2. marker.at \in DOMAIN hist' => (marker.at \in DOMAIN hist /\ hist'[marker.at] = hist[marker.at])
        BY <1>5, <4>1
      <4> QED
        BY <2>4, <4>2 DEF Usable
    <3> QED
      BY <2>5, <2>6, <3>1 DEF Blocks, Ids, Works
  <2>9. \A r \in DOMAIN reviews' : ~Waiting(r)'
    <3>1. SUFFICES ASSUME NEW r \in DOMAIN reviews, Waiting(r)' PROVE FALSE
      BY <1>7
    <3>2. Waiting(r) /\ r # tasks[t].review
      <4>1. CASE reviews'[r].status = "pending"
        BY <1>7, <3>1, <4>1 DEF Waiting
      <4>2. CASE \E u \in DOMAIN tasks : Waits(u)' /\ tasks'[u].review = r
        <5>1. PICK u \in DOMAIN tasks : Waits(u)' /\ tasks'[u].review = r
          BY <4>2
        <5>2. u # t
          BY <5>1 DEF Waits, Becomes, Moved
        <5>3. Waits(u) /\ tasks[u].review = r
          BY <5>1, <5>2 DEF Waits, Becomes
        <5>4. r # tasks[t].review
          BY <1>1, <5>2, <5>3 DEF OneResume, Waits, Ids
        <5> QED
          BY <5>3, <5>4 DEF Waiting, Ids
      <4> QED
        BY <2>6, <3>1, <4>1, <4>2 DEF Waiting, Ids
    <3>3. LastCalls(r)
      BY <2>2, <3>2 DEF Serial, Pending
    <3> QED
      BY <1>1, <3>2, <3>3, LastUnmatched
  <2>10. Pending'
    BY <2>9 DEF Pending
  <2>11. Unmatched(hist') = {} /\ Misplaced(hist') = {}
    BY DEF Sound
  <2>12. Replied' /\ Follows'
    BY <2>11 DEF Replied, Follows
  <2>13. ASSUME NEW u \in DOMAIN tasks PROVE InHand(u)'
    <3>1. ~Turns(u)' /\ ~Holds(u)' /\ ~Asks(u)'
      <4>1. ~Works(u)' /\ ~Aside(u)'
        BY <2>5
      <4> QED
        BY <4>1 DEF Turns, Holds, Asks, Works, Runs, Plain, Executing
    <3> QED
      BY <3>1 DEF InHand, Turns, Holds, Asks
  <2>14. Answers'
    <3>1. Answers
      BY <2>2 DEF Serial
    <3>2. \A i \in DOMAIN hist' : i > Len(hist) => hist'[i].k # "answer"
      BY <1>6
    <3> QED
      BY <1>1, <1>8, <3>1, <3>2, AnswersKept
  <2> QED
    BY <2>1, <2>6, <2>7, <2>8, <2>10, <2>12, <2>13, <2>14 DEF Serial, Ids
<1> QED
  BY <1>10, <1>11 DEF IInv

\* The three outcomes of mark_deferred_review_terminal for a task that is over with it.
LEMMA SettlingKeeps ==
    ASSUME IInv, NEW t \in DOMAIN tasks, NEW rec, Becomes(t, rec), Moved(t, rec, "over"),
           gate' = gate, marker' = marker, crashes' = crashes, Watch,
           tasks[t].kind = "resume", tasks[t].ph \in {"claimed", "hook"},
           NEW s \in {"failed", "cancelled"}, Settle(t, s)
    PROVE  IInv'
<1> DEFINE r == tasks[t].review
<1>1. Recedes(t, rec) /\ Marks(t)
  BY DEF Recedes, Marks, Moved
<1>2. Thins(t)
  BY GateKept DEF IInv, Typed
<1>3. \/ UNCHANGED <<hist, reviews>>
      \/ /\ ~Conflicting(t, r)
         /\ reviews' = [reviews EXCEPT ![r].status = s]
         /\ hist' = Closing(t, r)
  BY DEF Settle
<1>4. CASE UNCHANGED <<hist, reviews>>
  BY <1>1, <1>2, <1>4, Receding
<1>5. CASE /\ ~Conflicting(t, r)
           /\ reviews' = [reviews EXCEPT ![r].status = s]
           /\ hist' = Closing(t, r)
  <2>1. CASE \E i \in Unmatched(hist) : hist[i].of = r
    <3>1. hist' = Append(hist, Replies(t, r)) /\ Sound(hist') /\ \A i \in Unmatched(hist) : hist[i].of = r
      BY <1>5, <2>1 DEF Closing, Conflicting
    <3> QED
      BY <1>5, <3>1, ClosingKeeps
  <2>2. CASE ~\E i \in Unmatched(hist) : hist[i].of = r
    <3>1. hist' = hist
      BY <1>5, <2>2 DEF Closing
    <3>2. SettledBy(t, rec, s)
      BY <1>5, <2>2 DEF SettledBy, Moved
    <3> QED
      BY <1>1, <1>2, <3>1, <3>2, Receding
  <2> QED
    BY <2>1, <2>2
<1> QED
  BY <1>3, <1>4, <1>5

\* The hooks of a resumed review, and a resumed task that cannot be started.
LEMMA HooksKeep ==
    ASSUME IInv, NEW t \in DOMAIN tasks, ReviewHook(t) \/ ResumeStartFails(t)
    PROVE  IInv'
<1>1. Typed /\ TaskOK(t) /\ "over" \in Phases
  BY DEF IInv, Bounds, Ids, Phases
<1>2. CASE ReviewHook(t)
  <2> DEFINE s == IF tasks[t].outcome = "cancelled" THEN "cancelled" ELSE "failed"
  <2>1. /\ tasks[t].ph = "hook" /\ tasks[t].kind = "resume" /\ Settle(t, s)
        /\ gate' = gate /\ marker' = marker /\ crashes' = crashes /\ Watch /\ Rephases(t, "over")
    BY <1>2 DEF ReviewHook, Rephases
  <2>2. s \in {"failed", "cancelled"}
    OBVIOUS
  <2> HIDE DEF s
  <2>3. PICK rec : Becomes(t, rec) /\ Moved(t, rec, "over")
    BY <1>1, <2>1, Moving
  <2> QED
    BY <2>1, <2>2, <2>3, SettlingKeeps
<1>3. CASE ResumeStartFails(t)
  <2>1. /\ tasks[t].ph = "claimed" /\ Settle(t, "failed")
        /\ gate' = gate /\ marker' = marker /\ crashes' = crashes /\ Watch /\ Rephases(t, "over")
    BY <1>3 DEF ResumeStartFails, Rephases, Endings
  <2>2. tasks[t].kind = "resume"
    BY <1>1, <2>1 DEF TaskOK
  <2>3. PICK rec : Becomes(t, rec) /\ Moved(t, rec, "over")
    BY <1>1, <2>1, Moving
  <2> QED
    BY <2>1, <2>2, <2>3, SettlingKeeps
<1> QED
  BY <1>2, <1>3

\* The body ends; a resumed review that committed is completed.
LEMMA FinishKeeps ==
    ASSUME IInv, NEW t \in DOMAIN tasks, Finish(t)
    PROVE  IInv'
<1>1. Typed /\ tasks[t] \in Task
  BY DEF IInv, Typed
<1>2. tasks[t].ph = "finishing" /\ marker' = marker /\ crashes' = crashes /\ Watch
      /\ Leave(t, "over", "done", tasks[t].outcome)
  BY DEF Finish
<1>3. tasks[t].outcome \in Outcomes
  BY <1>1 DEF Task
<1>4. PICK rec : Becomes(t, rec) /\ Moved(t, rec, "over") /\ Thins(t)
  BY <1>1, <1>2, <1>3, Leaving DEF Phases, Endings
<1>5. Recedes(t, rec) /\ Marks(t)
  BY <1>2, <1>4 DEF Recedes, Marks, Moved
<1>6. hist' = hist /\ (reviews' = reviews \/ SettledBy(t, rec, "completed"))
  <2>1. CASE tasks[t].kind # "resume"
    BY <2>1 DEF Finish
  <2>2. CASE tasks[t].kind = "resume"
    <3>1. Settle(t, "completed")
      BY <2>2 DEF Finish
    <3>2. hist' = hist /\ (reviews' = reviews \/ reviews' = [reviews EXCEPT ![tasks[t].review].status = "completed"])
      BY <3>1 DEF Settle
    <3>3. ~mixed => \A i \in Unmatched(hist) : hist[i].of # tasks[t].review
      BY <1>2, <2>2 DEF IInv, Serial, Replied, Late, Ids
    <3> QED
      BY <1>4, <2>2, <3>2, <3>3 DEF SettledBy, Moved
  <2> QED
    BY <2>1, <2>2
<1> QED
  BY <1>2, <1>4, <1>5, <1>6, Receding

-----------------------------------------------------------------------------
(***************************************************************************)
(* Steps that add a task, and the crash.                                   *)
(***************************************************************************)

\* A new task, and nothing else.
LEMMA GainsGrown ==
    ASSUME NEW rec, Gains(rec)
    PROVE  Grown(rec)
BY DEF Gains, Grown

\* A step that adds a task keeps what holds of every behaviour.
LEMMA AddingBounds ==
    ASSUME Typed, Bounds, Queue, NEW rec, Grown(rec), Extends, marker' = marker, crashes' = crashes, Watch,
           \/ rec.ph # "queued" /\ gate' = gate
           \/ rec.ph = "queued" /\ Gains(rec) /\ gate' = Append(gate, Len(tasks) + 1),
           NEW n, n = Len(tasks) + 1, TaskOK(n)',
           \A u \in DOMAIN tasks : Kept(u) \/ TaskOK(u)',
           rec.kind = "resume" => \A u \in DOMAIN tasks : tasks[u].kind = "resume" => tasks[u].review # rec.review
    PROVE  Typed' /\ Bounds' /\ Queue'
<1>1. OneResume /\ tasks \in Seq(Task) /\ gate \in Seq(Nat)
  BY DEF Bounds, Typed
<1>2. Len(tasks) \in Nat /\ DOMAIN tasks = 1..Len(tasks) /\ DOMAIN tasks' = 1 .. Len(tasks) + 1
  BY <1>1 DEF Grown
<1>3. Queue' /\ gate' \in Seq(Nat) /\ \A i \in DOMAIN gate' : gate'[i] \in DOMAIN tasks'
  <2>1. CASE rec.ph # "queued" /\ gate' = gate
    BY <1>1, <2>1, QueueAside
  <2>2. CASE Gains(rec) /\ gate' = Append(gate, Len(tasks) + 1)
    <3> DEFINE x == Len(tasks) + 1
    <3>1. x \in Nat /\ x \in DOMAIN tasks' /\ DOMAIN tasks \subseteq DOMAIN tasks' /\ x > Len(tasks)
      BY <1>2
    <3>2. \A u \in DOMAIN tasks' : u # x => (u \in DOMAIN tasks /\ tasks'[u] = tasks[u])
      BY <1>2, <2>2 DEF Gains
    <3>3. \A u \in DOMAIN tasks : tasks'[u].kind = tasks[u].kind
      BY DEF Grown
    <3>4. gate' = Append(gate, x)
      BY <2>2
    <3>5. gate' \in Seq(Nat)
      BY <1>1, <3>1, <3>4
    <3> HIDE DEF x
    <3> QED
      BY <1>1, <3>1, <3>2, <3>3, <3>4, <3>5, QueueJoined
  <2> QED
    BY <2>1, <2>2
<1>4. OneResume'
  BY <1>1, OneResumeAdded
<1>5. \A u \in DOMAIN tasks' : Kept(u) \/ TaskOK(u)'
  <2>1. \A u \in DOMAIN tasks' : u = Len(tasks) + 1 \/ u \in DOMAIN tasks
    BY <1>2
  <2> QED
    BY <2>1
<1>6. marker'.at <= Len(hist')
  <2>1. marker.at \in Nat /\ marker.at <= Len(hist) /\ Len(hist) \in Nat /\ Len(hist') \in Nat /\ Len(hist) <= Len(hist')
    BY DEF Typed, Bounds, Extends
  <2> QED
    BY <2>1
<1>7. Bounds'
  BY <1>3, <1>4, <1>5, <1>6, BoundsNext
<1>8. Typed'
  <2>1. mixed' \in BOOLEAN
    BY DEF Watch
  <2> QED
    BY <1>3, <2>1 DEF Typed, Grown, Extends
<1> QED
  BY <1>3, <1>7, <1>8

\* The reviews are those of before; a pending one may be claimed by the new task.
Claims(rec) ==
    /\ DOMAIN reviews' = DOMAIN reviews
    /\ \A r \in DOMAIN reviews :
          /\ reviews'[r].user = reviews[r].user
          /\ reviews'[r].status = "pending" => reviews[r].status = "pending"
          /\ reviews'[r].status \in {"pending", "resuming"} <=> reviews[r].status \in {"pending", "resuming"}
    /\ rec.kind = "resume" => (rec.review \in DOMAIN reviews /\ reviews[rec.review].status = "pending")

\* A step that adds a task keeps what holds while nothing is mixed.
LEMMA AddingSerial ==
    ASSUME Typed, Bounds, Serial, NEW rec, Grown(rec), Claims(rec), One', hist' = hist, marker' = marker,
           rec.ph \in {"queued", "requested", "claimed", "running"},
           (rec.ph = "requested" \/ (rec.ph = "running" /\ rec.kind # "resume")) =>
               (~ReviewOpen /\ \A u \in DOMAIN tasks : ~Live(u)),
           NEW n, n = Len(tasks) + 1, InHand(n)'
    PROVE  Serial'
<1>1. /\ Len(tasks) \in Nat /\ DOMAIN tasks = 1..Len(tasks) /\ DOMAIN tasks' = 1..n /\ Len(tasks') = n
      /\ tasks'[n] = rec /\ tasks \in Seq(Task)
  BY DEF Typed, Grown
<1>2. \A u \in DOMAIN tasks' : u = n \/ u \in DOMAIN tasks
  BY <1>1
<1>3. \A u \in DOMAIN tasks : u # n /\ u # Len(tasks')
  BY <1>1
<1>4. \A u \in DOMAIN tasks :
          /\ tasks'[u].kind = tasks[u].kind
          /\ tasks'[u].user = tasks[u].user
          /\ tasks'[u].review = tasks[u].review
          /\ tasks'[u] = tasks[u] \/ tasks'[u].ph = "over"
  BY DEF Grown
<1>5. \A u \in DOMAIN tasks : ~Aside(u)'
  BY <1>3 DEF Aside, Newest
<1>6. \A u \in DOMAIN tasks : (Live(u)' => Live(u)) /\ (Works(u)' => Works(u)) /\ (Waits(u)' => Waits(u))
                             /\ (Late(u)' => Late(u)) /\ (Turns(u)' => Turns(u))
  BY <1>4 DEF Live, Works, Runs, Plain, Waits, Late, Turns, Executing
<1>7. ReviewOpen' <=> ReviewOpen
  BY DEF ReviewOpen, Claims
<1>8. (Aside(n)' \/ Works(n)') => (rec.ph = "requested" \/ (rec.ph = "running" /\ rec.kind # "resume"))
  BY <1>1 DEF Aside, Works, Runs, Plain, Executing
<1>9. Alone'
  <2>1. SUFFICES ASSUME NEW t \in DOMAIN tasks', Aside(t)' \/ (t = Len(tasks') /\ Works(t)'),
                        NEW u \in DOMAIN tasks', u # t
                 PROVE  ~Live(u)'
    BY DEF Alone, Ids, Newest, Works
  <2>2. t = n
    BY <1>1, <1>2, <1>3, <1>5, <2>1
  <2>3. u \in DOMAIN tasks
    BY <1>2, <2>1, <2>2
  <2> QED
    BY <1>6, <1>8, <2>1, <2>2, <2>3
<1>10. Blocks'
  <2>1. SUFFICES ASSUME ReviewOpen'
                 PROVE  (\A t \in DOMAIN tasks' : ~Works(t)' /\ ~Aside(t)') /\ ~Usable'
    BY DEF Blocks, Ids, Works
  <2>2. ReviewOpen /\ ~Usable /\ \A t \in DOMAIN tasks : ~Works(t)
    BY <1>7, <2>1 DEF Serial, Blocks, Ids, Works
  <2>3. ~Usable'
    BY <2>2 DEF Usable
  <2> QED
    BY <1>2, <1>5, <1>6, <1>8, <2>2, <2>3
<1>11. Pending'
  <2>1. ASSUME NEW r \in DOMAIN reviews, Waiting(r)' PROVE Waiting(r)
    <3>1. CASE reviews'[r].status = "pending"
      BY <3>1 DEF Claims, Waiting
    <3>2. CASE \E u \in DOMAIN tasks' : Waits(u)' /\ tasks'[u].review = r
      <4>1. PICK u \in DOMAIN tasks' : Waits(u)' /\ tasks'[u].review = r
        BY <3>2
      <4>2. CASE u = n
        BY <1>1, <4>1, <4>2 DEF Claims, Waiting, Waits
      <4>3. CASE u \in DOMAIN tasks
        BY <1>4, <1>6, <4>1, <4>3 DEF Waiting, Ids
      <4> QED
        BY <1>2, <4>2, <4>3
    <3> QED
      BY <2>1, <3>1, <3>2 DEF Waiting, Ids
  <2>2. DOMAIN reviews' = DOMAIN reviews /\ \A r \in DOMAIN reviews : reviews'[r].user = reviews[r].user
    BY DEF Claims
  <2>3. Pending
    BY DEF Serial
  <2> QED
    BY <2>1, <2>2, <2>3 DEF Pending, LastCalls, Unanswered
<1>12. Replied'
  <2>1. ~Late(n)'
    BY <1>1 DEF Late
  <2>2. Replied
    BY DEF Serial
  <2> QED
    BY <1>2, <1>4, <1>6, <2>1, <2>2 DEF Replied, Ids, Unmatched
<1>13. Follows'
  <2>1. Follows /\ Unmatched(hist') = Unmatched(hist) /\ Misplaced(hist') = Misplaced(hist)
    BY DEF Serial
  <2>2. \A i \in Unmatched(hist) : hist[i].of \in DOMAIN reviews
    BY DEF Bounds, Unmatched
  <2>3. \A i \in Unmatched(hist) : reviews'[hist[i].of].status \in {"pending", "resuming"}
    BY <2>1, <2>2 DEF Claims, Follows
  <2> QED
    BY <2>1, <2>3 DEF Follows
<1>14. ASSUME NEW u \in DOMAIN tasks PROVE InHand(u)'
  <2>1. InHand(u)
    BY DEF Serial, Ids
  <2>2. Turns(u)' => (tasks'[u].user = Len(hist) /\ hist[Len(hist)].k = "user")
    BY <1>4, <1>6, <2>1 DEF InHand, Turns
  <2>3. Holds(u)' => \A i \in DOMAIN hist : hist[i].k = "answer" => hist[i].of # tasks'[u].user
    <3>1. Holds(u)' => Holds(u)
      BY <1>4, <1>5 DEF Holds, Plain
    <3> QED
      BY <1>4, <2>1, <3>1 DEF InHand, Holds, Unanswered
  <2>4. ~Asks(u)'
    BY <1>5 DEF Asks
  <2> QED
    BY <2>2, <2>3, <2>4 DEF InHand, Turns, Holds, Asks, Unanswered
<1>15. Answers'
  BY DEF Serial, Answers, OneAnswer, TurnAnswer, MarkerOpen
<1>16. \A u \in DOMAIN tasks' : InHand(u)'
  BY <1>2, <1>14
<1> QED
  BY <1>9, <1>10, <1>11, <1>12, <1>13, <1>15, <1>16 DEF Serial, Ids

\* The reviews are those of before.
LEMMA NoClaim ==
    ASSUME reviews' = reviews, NEW rec, rec.kind # "resume"
    PROVE  Claims(rec)
BY DEF Claims

\* The tasks of before, when only a task was added.
LEMMA AllKept ==
    ASSUME NEW rec, Gains(rec), reviews' = reviews
    PROVE  \A u \in DOMAIN tasks : Kept(u)
BY DEF Gains, Kept

\* A turn is posted.
LEMMA SendKeeps ==
    ASSUME IInv, Send
    PROVE  IInv'
<1> DEFINE rec == [NewTask("turn", "queued") EXCEPT !.blocked = ReviewOpen]
<1>1. Typed /\ Bounds /\ Queue /\ tasks \in Seq(Task) /\ mixed \in BOOLEAN /\ Len(tasks) \in Nat
  BY DEF IInv, Typed
<1>2. /\ rec \in Task /\ rec.kind = "turn" /\ rec.ph = "queued" /\ rec.user = 0 /\ rec.review = 0 /\ rec.restarts = 0
  BY DEF NewTask, Task, TaskKinds, Phases, Endings, Outcomes, ReviewOpen
<1>3. /\ tasks' = Append(tasks, rec) /\ gate' = Append(gate, Len(tasks) + 1)
      /\ hist' = hist /\ marker' = marker /\ reviews' = reviews /\ crashes' = crashes /\ Watch
  BY DEF Send
<1> HIDE DEF rec
<1>4. Gains(rec)
  BY <1>1, <1>2, <1>3, Adding
<1>5. Grown(rec) /\ Claims(rec) /\ Extends /\ \A u \in DOMAIN tasks : Kept(u)
  BY <1>1, <1>2, <1>3, <1>4, GainsGrown, NoClaim, NothingAdded, AllKept
<1>6. PICK n \in Nat : n = Len(tasks) + 1
  BY <1>1
<1>7. tasks'[n] = rec
  BY <1>4, <1>6 DEF Gains
<1>8. TaskOK(n)'
  <2>1. Len(hist) >= 0 /\ Len(reviews) >= 0 /\ Retries >= 0
    BY <1>1, TurnsAssumption DEF Typed
  <2> QED
    BY <1>2, <1>3, <1>7, <2>1 DEF TaskOK
<1>9. Typed' /\ Bounds' /\ Queue'
  BY <1>1, <1>2, <1>3, <1>4, <1>5, <1>6, <1>8, AddingBounds
<1>10. ASSUME ~mixed' PROVE Serial'
  <2>1. ~mixed /\ One'
    BY <1>1, <1>3, <1>10, Unmixed
  <2>2. Serial
    BY <2>1 DEF IInv
  <2>3. InHand(n)'
    BY <1>2, <1>7 DEF InHand, Aside
  <2> QED
    BY <1>1, <1>2, <1>3, <1>5, <1>6, <2>1, <2>2, <2>3, AddingSerial
<1> QED
  BY <1>9, <1>10 DEF IInv

\* A retry is asked for.
LEMMA RetryRequestKeeps ==
    ASSUME IInv, RetryRequest
    PROVE  IInv'
<1> DEFINE rec == [NewTask("retry", "requested") EXCEPT !.user = marker.at]
<1>1. Typed /\ Bounds /\ Queue /\ tasks \in Seq(Task) /\ mixed \in BOOLEAN /\ Len(tasks) \in Nat
      /\ marker.at \in Nat /\ marker.at <= Len(hist) /\ Len(hist) \in Nat /\ DOMAIN hist = 1..Len(hist)
  BY DEF IInv, Typed, Bounds
<1>2. /\ rec \in Task /\ rec.kind = "retry" /\ rec.ph = "requested" /\ rec.user = marker.at
      /\ rec.review = 0 /\ rec.restarts = 0
  BY <1>1 DEF NewTask, Task, TaskKinds, Phases, Endings, Outcomes
<1>3. /\ tasks' = Append(tasks, rec) /\ gate' = gate
      /\ hist' = hist /\ marker' = marker /\ reviews' = reviews /\ crashes' = crashes /\ Watch
      /\ Usable /\ \A t \in DOMAIN tasks : ~Active(t)
  BY DEF RetryRequest, Usable
<1> HIDE DEF rec
<1>4. Gains(rec)
  BY <1>1, <1>2, <1>3, Adding
<1>5. Grown(rec) /\ Claims(rec) /\ Extends /\ \A u \in DOMAIN tasks : Kept(u)
  BY <1>1, <1>2, <1>3, <1>4, GainsGrown, NoClaim, NothingAdded, AllKept
<1>6. PICK n \in Nat : n = Len(tasks) + 1
  BY <1>1
<1>7. tasks'[n] = rec
  BY <1>4, <1>6 DEF Gains
<1>11. marker.at > 0
  BY <1>1, <1>3 DEF Usable
<1>8. TaskOK(n)'
  <2>1. Len(reviews) >= 0 /\ Retries >= 0
    BY <1>1, TurnsAssumption DEF Typed
  <2> QED
    BY <1>1, <1>2, <1>3, <1>7, <1>11, <2>1 DEF TaskOK
<1>9. Typed' /\ Bounds' /\ Queue'
  BY <1>1, <1>2, <1>3, <1>4, <1>5, <1>6, <1>8, AddingBounds
<1>10. ASSUME ~mixed' PROVE Serial'
  <2>1. ~mixed /\ One'
    BY <1>1, <1>3, <1>10, Unmixed
  <2>2. Serial
    BY <2>1 DEF IInv
  <2>3. ~ReviewOpen
    BY <1>3, <2>2 DEF Serial, Blocks
  <2>4. \A u \in DOMAIN tasks : ~Live(u)
    BY <1>3 DEF Active, Live
  <2>5. \A i \in DOMAIN hist : hist[i].k = "answer" => i <= marker.at
    BY <1>11, <2>2 DEF Serial, Answers, MarkerOpen
  <2>6. \A i \in DOMAIN hist : hist[i].k = "answer" => hist[i].of # marker.at
    <3>1. SUFFICES ASSUME NEW i \in DOMAIN hist, hist[i].k = "answer" PROVE hist[i].of # marker.at
      OBVIOUS
    <3>2. hist[i].of < i /\ i <= marker.at
      BY <1>1, <2>5, <3>1 DEF Bounds
    <3>3. hist[i].of \in Nat
      <4>1. hist[i] \in Message
        BY <1>1 DEF Typed
      <4> QED
        BY <4>1 DEF Message
    <3> QED
      BY <1>1, <3>2, <3>3
  <2>7. InHand(n)'
    <3>1. tasks'[n].user = marker.at /\ tasks'[n].kind = "retry"
      BY <1>2, <1>7
    <3> QED
      BY <1>3, <2>5, <2>6, <3>1 DEF InHand, Unanswered
  <2> QED
    BY <1>1, <1>2, <1>3, <1>5, <1>6, <2>1, <2>2, <2>3, <2>4, <2>7, AddingSerial
<1> QED
  BY <1>9, <1>10 DEF IInv

\* A review is claimed.
LEMMA SubmitKeeps ==
    ASSUME IInv, NEW r \in DOMAIN reviews, Submit(r)
    PROVE  IInv'
<1> DEFINE rec == [NewTask("resume", "claimed") EXCEPT !.review = r, !.user = reviews[r].user]
<1>1. /\ Typed /\ Bounds /\ Queue /\ tasks \in Seq(Task) /\ mixed \in BOOLEAN /\ Len(tasks) \in Nat
      /\ reviews \in Seq(Review) /\ DOMAIN reviews = 1..Len(reviews) /\ Len(reviews) \in Nat
      /\ reviews[r] \in Review /\ Len(hist) \in Nat
  BY DEF IInv, Typed
<1>2. reviews[r].user \in 1..Len(hist)
  BY <1>1 DEF Bounds
<1>3. /\ rec \in Task /\ rec.kind = "resume" /\ rec.ph = "claimed" /\ rec.user = reviews[r].user
      /\ rec.review = r /\ rec.restarts = 0
  <2>1. r \in Nat /\ reviews[r].user \in Nat
    BY <1>1, <1>2
  <2> QED
    BY <2>1 DEF NewTask, Task, TaskKinds, Phases, Endings, Outcomes
<1>4. /\ tasks' = Append(tasks, rec) /\ gate' = gate
      /\ hist' = hist /\ marker' = marker /\ crashes' = crashes /\ Watch
      /\ reviews[r].status = "pending" /\ reviews' = [reviews EXCEPT ![r].status = "resuming"]
  BY DEF Submit, Claimable
<1> HIDE DEF rec
<1>5. Gains(rec) /\ Grown(rec)
  BY <1>1, <1>3, <1>4, Adding, GainsGrown
<1>6. "resuming" \in Statuses
  BY DEF Statuses
<1>7. Extends
  BY <1>1, <1>4, <1>6, StatusChanged
<1>8. /\ reviews' \in Seq(Review) /\ Len(reviews') = Len(reviews) /\ DOMAIN reviews' = DOMAIN reviews
      /\ \A q \in DOMAIN reviews : reviews'[q].user = reviews[q].user /\ (q # r => reviews'[q].status = reviews[q].status)
      /\ reviews'[r].status = "resuming"
  BY <1>1, <1>4, <1>6, ReviewStatus
<1>9. Claims(rec)
  BY <1>3, <1>4, <1>8 DEF Claims
<1>10. PICK n \in Nat : n = Len(tasks) + 1
  BY <1>1
<1>11. tasks'[n] = rec
  BY <1>5, <1>10 DEF Gains
<1>12. TaskOK(n)'
  <2>1. Retries >= 0
    BY TurnsAssumption
  <2> QED
    BY <1>1, <1>2, <1>3, <1>4, <1>8, <1>11, <2>1 DEF TaskOK
<1>13. \A u \in DOMAIN tasks : tasks[u].kind = "resume" => tasks[u].review # r
  BY <1>1, <1>4 DEF Bounds, TaskOK, Ids
<1>14. ASSUME NEW u \in DOMAIN tasks PROVE Kept(u)
  <2>1. tasks'[u] = tasks[u]
    BY <1>5 DEF Gains
  <2>2. ASSUME tasks[u].kind = "resume" PROVE tasks[u].review \in DOMAIN reviews
    <3>1. TaskOK(u) /\ tasks[u] \in Task
      BY <1>1 DEF Bounds, Ids
    <3>2. tasks[u].review \in Nat
      BY <3>1 DEF Task
    <3> QED
      BY <1>1, <2>2, <3>1, <3>2 DEF TaskOK
  <2>3. tasks[u].kind = "resume" => reviews'[tasks[u].review].status = reviews[tasks[u].review].status
    <3>1. \A q \in DOMAIN reviews : q # r => reviews'[q].status = reviews[q].status
      BY <1>8, Zenon
    <3> QED
      BY <1>13, <2>2, <3>1, Zenon
  <2> QED
    BY <2>1, <2>3 DEF Kept
<1>15. Typed' /\ Bounds' /\ Queue'
  BY <1>1, <1>3, <1>4, <1>5, <1>7, <1>10, <1>12, <1>13, <1>14, AddingBounds
<1>16. ASSUME ~mixed' PROVE Serial'
  <2>1. ~mixed /\ One'
    BY <1>1, <1>4, <1>16, Unmixed
  <2>2. Serial
    BY <2>1 DEF IInv
  <2>3. InHand(n)'
    BY <1>3, <1>11 DEF InHand, Aside, Plain
  <2> QED
    BY <1>1, <1>3, <1>4, <1>5, <1>9, <1>10, <2>1, <2>2, <2>3, AddingSerial
<1> QED
  BY <1>15, <1>16 DEF IInv

\* A rollback restart, or none.
LEMMA RestartHookKeeps ==
    ASSUME IInv, NEW t \in DOMAIN tasks, RestartHook(t)
    PROVE  IInv'
<1> DEFINE old == [tasks[t] EXCEPT !.ph = "over", !.ended = "redirect"]
           rec == [NewTask("restart", "running") EXCEPT !.user = tasks[t].user,
                                                        !.restarts = tasks[t].restarts + 1]
<1>1. /\ Typed /\ Bounds /\ Queue /\ tasks \in Seq(Task) /\ mixed \in BOOLEAN /\ tasks[t] \in Task /\ TaskOK(t)
      /\ Len(tasks) \in Nat /\ DOMAIN tasks = 1..Len(tasks) /\ Len(hist) \in Nat /\ Len(reviews) \in Nat
  BY DEF IInv, Typed, Bounds, Ids
<1>2. /\ tasks[t].ph = "hook" /\ tasks[t].kind # "resume" /\ Watch
      /\ gate' = gate /\ hist' = hist /\ marker' = marker /\ reviews' = reviews /\ crashes' = crashes
  BY DEF RestartHook
<1>3. \/ tasks' = Append([tasks EXCEPT ![t] = old], rec)
      \/ tasks' = [tasks EXCEPT ![t] = [tasks[t] EXCEPT !.ph = "over", !.ended = "error"]]
  BY DEF RestartHook
<1>4. CASE tasks' = [tasks EXCEPT ![t] = [tasks[t] EXCEPT !.ph = "over", !.ended = "error"]]
  <2>1. Rephases(t, "over") /\ "over" \in Phases
    BY <1>4 DEF Rephases, Endings, Phases
  <2> QED
    BY <1>2, <2>1, PhaseKeeps
<1>5. CASE tasks' = Append([tasks EXCEPT ![t] = old], rec)
  <2>1. /\ old \in Task /\ old.ph = "over" /\ old.ended = "redirect" /\ old.kind = tasks[t].kind
        /\ old.user = tasks[t].user /\ old.review = tasks[t].review /\ old.restarts = tasks[t].restarts
    BY <1>1 DEF Task, Phases, Endings
  <2>2. /\ rec \in Task /\ rec.kind = "restart" /\ rec.ph = "running" /\ rec.user = tasks[t].user
        /\ rec.review = 0 /\ rec.restarts = tasks[t].restarts + 1
    <3>1. tasks[t].user \in Nat /\ tasks[t].restarts + 1 \in Nat
      BY <1>1 DEF Task
    <3>2. SUFFICES ASSUME NEW a \in Nat, NEW b \in Nat,
                          rec = [NewTask("restart", "running") EXCEPT !.user = a, !.restarts = b]
                   PROVE  /\ rec \in Task /\ rec.kind = "restart" /\ rec.ph = "running" /\ rec.user = a
                          /\ rec.review = 0 /\ rec.restarts = b
      BY <3>1
    <3> HIDE DEF rec
    <3> QED
      BY <3>2 DEF NewTask, Task, TaskKinds, Phases, Endings, Outcomes
  <2> HIDE DEF old, rec
  <2> DEFINE mid == [tasks EXCEPT ![t] = old]
  <2>3. /\ mid \in Seq(Task) /\ Len(mid) = Len(tasks) /\ DOMAIN mid = DOMAIN tasks
        /\ mid[t] = old /\ \A u \in DOMAIN tasks : u # t => mid[u] = tasks[u]
    BY <1>1, <2>1
  <2>4. tasks' = Append(mid, rec)
    BY <1>5
  <2> HIDE DEF mid
  <2>5. /\ tasks' \in Seq(Task) /\ Len(tasks') = Len(tasks) + 1 /\ DOMAIN tasks' = 1 .. Len(tasks) + 1
        /\ tasks'[Len(tasks) + 1] = rec /\ \A u \in DOMAIN tasks : tasks'[u] = mid[u]
    BY <1>1, <2>2, <2>3, <2>4
  <2>6. tasks'[t] = old /\ \A u \in DOMAIN tasks : u # t => tasks'[u] = tasks[u]
    BY <2>3, <2>5
  <2>7. Grown(rec)
    BY <2>1, <2>5, <2>6 DEF Grown
  <2>8. Claims(rec) /\ Extends
    BY <1>1, <1>2, <2>2, NoClaim, NothingAdded
  <2>9. PICK n \in Nat : n = Len(tasks) + 1
    BY <1>1
  <2>10. tasks'[n] = rec
    BY <2>5, <2>9
  <2>11. /\ tasks[t].user > 0 /\ tasks[t].user <= Len(hist) /\ tasks[t].restarts < Retries /\ tasks[t].review <= Len(reviews)
         /\ tasks[t].restarts \in Nat /\ Retries \in Nat
    BY <1>1, <1>2, TurnsAssumption DEF TaskOK, Task
  <2>12. TaskOK(n)'
    BY <1>1, <1>2, <2>2, <2>10, <2>11 DEF TaskOK
  <2>13. TaskOK(t)'
    BY <1>1, <1>2, <2>1, <2>6, <2>11 DEF TaskOK
  <2>14. \A u \in DOMAIN tasks : Kept(u) \/ TaskOK(u)'
    <3>1. \A u \in DOMAIN tasks : u # t => Kept(u)
      BY <1>2, <2>6 DEF Kept
    <3> QED
      BY <2>13, <3>1
  <2>15. Typed' /\ Bounds' /\ Queue'
    BY <1>1, <1>2, <2>2, <2>7, <2>8, <2>9, <2>12, <2>14, AddingBounds
  <2>16. ASSUME ~mixed' PROVE Serial'
    <3>1. ~mixed /\ One' /\ ~(t + 1 < Len(tasks'))
      BY <1>1, <1>2, <2>1, <2>6, <2>16, Unmixed
    <3>2. Serial
      BY <3>1 DEF IInv
    <3>3. t = Len(tasks)
      BY <1>1, <2>5, <3>1
    <3>4. Aside(t)
      BY <1>2, <3>3 DEF Aside, Newest, Plain
    <3>5. ~ReviewOpen
      BY <3>2, <3>4 DEF Serial, Blocks, Ids
    <3>6. ASSUME NEW u \in DOMAIN tasks PROVE ~Live(u)
      <4>1. CASE u = t
        BY <1>2, <4>1 DEF Live
      <4>2. CASE u # t
        BY <3>2, <3>4, <4>2 DEF Serial, Alone, Ids
      <4> QED
        BY <4>1, <4>2
    <3>7. InHand(n)'
      <4>1. Unanswered(tasks[t].user)
        BY <1>2, <3>2, <3>4 DEF Serial, InHand, Plain, Ids
      <4>2. tasks'[n].user = tasks[t].user /\ tasks'[n].kind = "restart" /\ tasks'[n].ph = "running"
        BY <2>2, <2>10
      <4> QED
        BY <1>2, <4>1, <4>2 DEF InHand, Unanswered
    <3> QED
      BY <1>1, <1>2, <2>2, <2>7, <2>8, <2>9, <3>1, <3>2, <3>5, <3>6, <3>7, AddingSerial
  <2> QED
    BY <2>15, <2>16 DEF IInv
<1> QED
  BY <1>3, <1>4, <1>5

-----------------------------------------------------------------------------
(***************************************************************************)
(* Tasks that come nearer to running.                                      *)
(***************************************************************************)

\* What holds of every behaviour, from the task that changed.
LEMMA MovedBounds ==
    ASSUME Typed, Bounds, Queue, NEW t \in DOMAIN tasks, NEW rec, Becomes(t, rec), Extends,
           rec.kind = tasks[t].kind, rec.review = tasks[t].review, crashes' = crashes, Watch,
           gate' \in Seq(Nat), Queue', \A i \in DOMAIN gate' : gate'[i] \in DOMAIN tasks',
           marker' \in [at : Nat, retryable : BOOLEAN], marker'.at <= Len(hist'),
           TaskOK(t)', \A u \in DOMAIN tasks : u # t => Kept(u)
    PROVE  Typed' /\ Bounds' /\ Queue'
<1>1. OneResume'
  BY OneResumeMoved DEF Bounds
<1>2. \A u \in DOMAIN tasks' : Kept(u) \/ TaskOK(u)'
  BY DEF Becomes
<1>3. Bounds'
  BY <1>1, <1>2, BoundsNext
<1>4. mixed' \in BOOLEAN
  BY DEF Watch
<1>5. Typed'
  BY <1>4 DEF Typed, Becomes, Extends
<1> QED
  BY <1>3, <1>5

\* A retry starts.
LEMMA RetryStartKeeps ==
    ASSUME IInv, NEW t \in DOMAIN tasks, RetryStart(t)
    PROVE  IInv'
<1>1. /\ Typed /\ Bounds /\ Queue /\ tasks \in Seq(Task) /\ mixed \in BOOLEAN /\ TaskOK(t) /\ tasks[t] \in Task
      /\ Len(tasks) \in Nat /\ DOMAIN tasks = 1..Len(tasks) /\ gate \in Seq(Nat)
  BY DEF IInv, Typed, Bounds, Ids
<1>2. /\ tasks[t].ph = "requested" /\ Watch /\ Rephases(t, "running")
      /\ gate' = gate /\ hist' = hist /\ reviews' = reviews /\ crashes' = crashes
      /\ marker' = [at |-> tasks[t].user, retryable |-> TRUE]
  BY DEF RetryStart, Rephases
<1>3. tasks[t].kind = "retry" /\ tasks[t].user > 0 /\ tasks[t].user <= Len(hist) /\ tasks[t].user \in Nat
  BY <1>1, <1>2 DEF TaskOK, Task
<1>4. PICK rec : Becomes(t, rec) /\ Moved(t, rec, "running")
  BY <1>1, <1>2, Moving DEF Phases
<1>5. /\ rec.kind = tasks[t].kind /\ rec.review = tasks[t].review /\ rec.user = tasks[t].user
      /\ rec.restarts = tasks[t].restarts /\ rec.ph = "running"
  BY <1>4 DEF Moved
<1>6. /\ DOMAIN tasks' = DOMAIN tasks /\ Len(tasks') = Len(tasks) /\ tasks'[t] = rec
      /\ \A u \in DOMAIN tasks : u # t => tasks'[u] = tasks[u]
  BY <1>4 DEF Becomes
<1>7. Extends /\ Settles
  BY <1>1, <1>2, NothingAdded DEF Settles
<1>8. Thins(t)
  BY <1>1, <1>2, GateKept
<1>9. rec.ph # "queued"
  BY <1>5
<1>10. Queue' /\ \A i \in DOMAIN gate' : gate'[i] \in DOMAIN tasks'
  BY <1>1, <1>4, <1>5, <1>8, <1>9, QueueThinned
<1>11. TaskOK(t)'
  BY <1>1, <1>2, <1>3, <1>5, <1>6 DEF TaskOK
<1>12. \A u \in DOMAIN tasks : u # t => Kept(u)
  BY <1>2, <1>6 DEF Kept
<1>13. marker' \in [at : Nat, retryable : BOOLEAN] /\ marker'.at <= Len(hist') /\ gate' \in Seq(Nat)
  BY <1>1, <1>2, <1>3
<1>14. Typed' /\ Bounds' /\ Queue'
  BY <1>1, <1>2, <1>4, <1>5, <1>7, <1>10, <1>11, <1>12, <1>13, MovedBounds
<1>15. ASSUME ~mixed' PROVE Serial'
  <2>1. Runs(t)'
    BY <1>5, <1>6 DEF Runs, Executing
  <2>2. ~mixed /\ One' /\ ~(t < Len(tasks'))
    BY <1>1, <1>2, <1>15, <2>1, Unmixed
  <2>3. Serial
    BY <2>2 DEF IInv
  <2>4. t = Len(tasks)
    BY <1>1, <1>6, <2>2
  <2>5. Aside(t)
    BY <1>2, <2>4 DEF Aside, Newest
  <2>6. ~ReviewOpen
    BY <2>3, <2>5 DEF Serial, Blocks, Ids
  <2>7. Calms
    <3>1. ASSUME NEW u \in DOMAIN tasks, u # t PROVE Calm(u)
      <4>1. tasks'[u] = tasks[u]
        BY <1>6, <3>1
      <4> QED
        BY <1>6, <4>1 DEF Calm, Plain, Aside, Waits, Late, Turns, Holds, Asks, Newest
    <3>2. Calm(t)
      <4>1. ~Waits(t)' /\ ~Late(t)' /\ ~Turns(t)' /\ ~Asks(t)'
        BY <1>3, <1>5, <1>6 DEF Waits, Late, Turns, Asks
      <4>2. Holds(t)
        BY <1>3, <2>5 DEF Holds, Plain
      <4> QED
        BY <1>5, <1>6, <4>1, <4>2 DEF Calm
    <3> QED
      BY <1>6, <3>1, <3>2 DEF Calms
  <2>8. Alone'
    <3>1. SUFFICES ASSUME NEW u \in DOMAIN tasks, u # t PROVE ~Live(u)'
      BY <1>6, <2>4 DEF Alone, Ids, Aside, Newest
    <3>2. ~Live(u)
      BY <2>3, <2>5, <3>1 DEF Serial, Alone, Ids
    <3> QED
      BY <1>6, <3>1, <3>2 DEF Live
  <2>9. Blocks'
    BY <1>2, <2>6 DEF Blocks, ReviewOpen
  <2>10. Follows'
    BY <1>2, <2>3 DEF Serial, Follows, Unmatched, Misplaced
  <2>11. MarkerOpen'
    <3>1. \A i \in DOMAIN hist : hist[i].k = "answer" => i <= tasks[t].user
      BY <1>2, <2>3, <2>5 DEF Serial, InHand, Ids
    <3> QED
      BY <1>2, <3>1 DEF MarkerOpen
  <2> QED
    BY <1>1, <1>2, <1>7, <2>2, <2>3, <2>7, <2>8, <2>9, <2>10, <2>11, CalmSerial
<1> QED
  BY <1>14, <1>15 DEF IInv

\* A turn gets the gate and is not refused: if it is the newest task, nobody else waits,
\* because turns get the gate in the order of their posts.
LEMMA PreflightGo ==
    ASSUME IInv, NEW t \in DOMAIN tasks, Preflight(t), ~(tasks[t].blocked \/ ReviewOpen)
    PROVE  IInv'
<1>1. /\ Typed /\ Bounds /\ Queue /\ tasks \in Seq(Task) /\ mixed \in BOOLEAN /\ TaskOK(t) /\ tasks[t] \in Task
      /\ Len(tasks) \in Nat /\ DOMAIN tasks = 1..Len(tasks) /\ gate \in Seq(Nat)
  BY DEF IInv, Typed, Bounds, Ids
<1>2. /\ tasks[t].kind = "turn" /\ tasks[t].ph = "queued" /\ HoldsGate(t) /\ Watch /\ Rephases(t, "preparing")
      /\ gate' = gate /\ hist' = hist /\ reviews' = reviews /\ crashes' = crashes /\ marker' = marker
  BY DEF Preflight, Rephases
<1>4. PICK rec : Becomes(t, rec) /\ Moved(t, rec, "preparing")
  BY <1>1, <1>2, Moving DEF Phases
<1>5. /\ rec.kind = tasks[t].kind /\ rec.review = tasks[t].review /\ rec.user = tasks[t].user
      /\ rec.restarts = tasks[t].restarts /\ rec.ph = "preparing"
  BY <1>4 DEF Moved
<1>6. /\ DOMAIN tasks' = DOMAIN tasks /\ Len(tasks') = Len(tasks) /\ tasks'[t] = rec
      /\ \A u \in DOMAIN tasks : u # t => tasks'[u] = tasks[u]
  BY <1>4 DEF Becomes
<1>7. Extends /\ Settles
  BY <1>1, <1>2, NothingAdded DEF Settles
<1>8. Thins(t)
  BY <1>1, <1>2, GateKept
<1>9. rec.ph # "queued"
  BY <1>5
<1>10. Queue' /\ \A i \in DOMAIN gate' : gate'[i] \in DOMAIN tasks'
  BY <1>1, <1>4, <1>5, <1>8, <1>9, QueueThinned
<1>11. TaskOK(t)'
  BY <1>1, <1>2, <1>5, <1>6 DEF TaskOK
<1>12. \A u \in DOMAIN tasks : u # t => Kept(u)
  BY <1>2, <1>6 DEF Kept
<1>13. marker' \in [at : Nat, retryable : BOOLEAN] /\ marker'.at <= Len(hist') /\ gate' \in Seq(Nat)
  BY <1>1, <1>2 DEF Typed, Bounds
<1>14. Typed' /\ Bounds' /\ Queue'
  BY <1>1, <1>2, <1>4, <1>5, <1>7, <1>10, <1>11, <1>12, <1>13, MovedBounds
<1>15. ASSUME ~mixed' PROVE Serial'
  <2>2. ~mixed /\ One'
    BY <1>1, <1>2, <1>15, Unmixed
  <2>3. Serial
    BY <2>2 DEF IInv
  <2>7. Calms
    <3>1. ASSUME NEW u \in DOMAIN tasks, u # t PROVE Calm(u)
      <4>1. tasks'[u] = tasks[u]
        BY <1>6, <3>1
      <4> QED
        BY <1>6, <4>1 DEF Calm, Plain, Aside, Waits, Late, Turns, Holds, Asks, Newest
    <3>2. Calm(t)
      BY <1>2, <1>5, <1>6 DEF Calm, Plain, Aside, Waits, Late, Turns, Holds, Asks, Newest
    <3> QED
      BY <1>6, <3>1, <3>2 DEF Calms
  <2>8. Alone'
    <3>1. SUFFICES ASSUME NEW s \in DOMAIN tasks, Aside(s)' \/ (s = Len(tasks) /\ Works(s)'),
                          NEW u \in DOMAIN tasks, u # s, Live(u)'
                   PROVE  FALSE
      BY <1>6 DEF Alone, Ids, Works, Newest
    <3>2. CASE s # t
      <4>1. Aside(s) \/ (s = Len(tasks) /\ Works(s))
        <5>1. tasks'[s] = tasks[s]
          BY <1>6, <3>2
        <5> QED
          BY <1>6, <3>1, <5>1 DEF Aside, Works, Runs, Plain, Newest
      <4>2. ~Live(t)
        BY <2>3, <3>2, <4>1 DEF Serial, Alone, Ids, Works, Newest
      <4> QED
        BY <1>2, <4>2 DEF Live
    <3>3. CASE s = t
      <4>1. t = Len(tasks) /\ u # t /\ tasks'[u] = tasks[u] /\ Live(u)
        BY <1>5, <1>6, <3>1, <3>3 DEF Aside, Newest, Live
      <4>2. ~Runs(u)
        <5>1. Runs(t)'
          BY <1>5, <1>6 DEF Runs, Executing
        <5>2. ~Runs(u)'
          BY <1>6, <2>2, <4>1, <5>1 DEF One, Ids
        <5> QED
          BY <4>1, <5>2 DEF Runs
      <4>3. tasks[u].ph = "queued"
        BY <4>1, <4>2 DEF Live, Runs, Executing
      <4>4. TaskOK(u)
        BY <1>1 DEF Bounds, Ids
      <4>5. tasks[u].kind = "turn"
        <5>1. CASE tasks[u].kind = "resume"
          BY <1>1, <4>3, <5>1, OwnReview
        <5> QED
          BY <4>3, <4>4, <5>1 DEF TaskOK
      <4>6. PICK i \in DOMAIN gate : gate[i] = u
        BY <1>1, <4>3 DEF Queue, Ids
      <4>7. gate # <<>> /\ gate[1] = t
        BY <1>2 DEF HoldsGate
      <4>8. 1 \in DOMAIN gate /\ 1 < i
        BY <1>1, <4>1, <4>6, <4>7
      <4>9. gate[1] < gate[i]
        BY <1>1, <1>2, <4>5, <4>6, <4>7, <4>8 DEF Queue
      <4> QED
        BY <1>1, <4>1, <4>6, <4>7, <4>9
    <3> QED
      BY <3>2, <3>3
  <2>9. Blocks'
    BY <1>2 DEF Blocks, ReviewOpen
  <2>10. Follows'
    BY <1>2, <2>3 DEF Serial, Follows, Unmatched, Misplaced
  <2>11. MarkerOpen'
    BY <1>2, <2>3 DEF Serial, Answers, MarkerOpen
  <2> QED
    BY <1>1, <1>2, <1>7, <2>2, <2>3, <2>7, <2>8, <2>9, <2>10, <2>11, CalmSerial
<1> QED
  BY <1>14, <1>15 DEF IInv

\* The turn has the gate.
LEMMA PreflightKeeps ==
    ASSUME IInv, NEW t \in DOMAIN tasks, Preflight(t)
    PROVE  IInv'
BY PreflightOver, PreflightGo

\* A claimed review's task is started and enters the gate.
LEMMA ResumeStartKeeps ==
    ASSUME IInv, NEW t \in DOMAIN tasks, ResumeStart(t)
    PROVE  IInv'
<1> DEFINE rv == tasks[t].review
<1>1. /\ Typed /\ Bounds /\ Queue /\ tasks \in Seq(Task) /\ mixed \in BOOLEAN /\ TaskOK(t) /\ tasks[t] \in Task
      /\ Len(tasks) \in Nat /\ DOMAIN tasks = 1..Len(tasks) /\ gate \in Seq(Nat) /\ reviews \in Seq(Review)
  BY DEF IInv, Typed, Bounds, Ids
<1>2. /\ tasks[t].ph = "claimed" /\ Watch /\ Rephases(t, "queued")
      /\ gate' = Append(gate, t) /\ hist' = hist /\ crashes' = crashes /\ marker' = marker
      /\ reviews' = [reviews EXCEPT ![rv].task = t]
  BY DEF ResumeStart, Rephases
<1>3. tasks[t].kind = "resume"
  BY <1>1, <1>2 DEF TaskOK
<1>4. /\ rv \in DOMAIN reviews /\ ReviewOpen /\ reviews[rv].status = "resuming"
  BY <1>1, <1>2, <1>3, OwnReview
<1>5. PICK rec : Becomes(t, rec) /\ Moved(t, rec, "queued")
  BY <1>1, <1>2, Moving DEF Phases
<1>6. /\ rec.kind = tasks[t].kind /\ rec.review = tasks[t].review /\ rec.user = tasks[t].user
      /\ rec.restarts = tasks[t].restarts /\ rec.ph = "queued"
  BY <1>5 DEF Moved
<1>7. /\ DOMAIN tasks' = DOMAIN tasks /\ Len(tasks') = Len(tasks) /\ tasks'[t] = rec
      /\ \A u \in DOMAIN tasks : u # t => tasks'[u] = tasks[u]
  BY <1>5 DEF Becomes
<1> HIDE DEF rv
<1>8. /\ reviews' \in Seq(Review) /\ Len(reviews') = Len(reviews) /\ DOMAIN reviews' = DOMAIN reviews
      /\ \A q \in DOMAIN reviews : reviews'[q].user = reviews[q].user /\ reviews'[q].status = reviews[q].status
  <2> DEFINE new == [reviews[rv] EXCEPT !.task = t]
  <2>1. reviews[rv] \in Review /\ t \in Nat
    BY <1>1, <1>4
  <2>2. new \in Review /\ new.user = reviews[rv].user /\ new.status = reviews[rv].status
    BY <2>1 DEF Review
  <2>3. reviews' = [reviews EXCEPT ![rv] = new]
    BY <1>2
  <2> HIDE DEF new
  <2>4. reviews' \in Seq(Review) /\ Len(reviews') = Len(reviews) /\ DOMAIN reviews' = DOMAIN reviews
    BY <1>1, <1>4, <2>2, <2>3
  <2>5. \A q \in DOMAIN reviews : reviews'[q] = IF q = rv THEN new ELSE reviews[q]
    BY <1>1, <2>3
  <2> QED
    BY <2>2, <2>4, <2>5
<1>9. Extends
  <2>1. DOMAIN reviews = 1..Len(reviews) /\ Len(reviews) \in Nat
    BY <1>1
  <2> QED
    BY <1>1, <1>2, <1>8, <2>1 DEF Extends, Typed
<1>10. Settles
  BY <1>8 DEF Settles
<1>11. Queue' /\ \A i \in DOMAIN gate' : gate'[i] \in DOMAIN tasks'
  <2>1. t \in Nat /\ t \in DOMAIN tasks' /\ DOMAIN tasks \subseteq DOMAIN tasks'
    BY <1>1, <1>7
  <2>2. \A u \in DOMAIN tasks : tasks'[u].kind = tasks[u].kind
    BY <1>6, <1>7
  <2>3. \A u \in DOMAIN tasks' : u # t => (u \in DOMAIN tasks /\ tasks'[u] = tasks[u])
    BY <1>7
  <2>4. tasks'[t].kind # "turn"
    BY <1>3, <1>6, <1>7
  <2> QED
    BY <1>1, <1>2, <2>1, <2>2, <2>3, <2>4, QueueJoined
<1>12. TaskOK(t)'
  <2>1. reviews'[tasks[t].review].user = reviews[tasks[t].review].user /\ reviews'[tasks[t].review].status = "resuming"
    BY <1>4, <1>8 DEF rv
  <2> QED
    BY <1>1, <1>2, <1>3, <1>6, <1>7, <1>8, <2>1 DEF TaskOK
<1>13. ASSUME NEW u \in DOMAIN tasks, u # t PROVE Kept(u)
  <2>1. tasks'[u] = tasks[u]
    BY <1>7, <1>13
  <2>2. ASSUME tasks[u].kind = "resume" PROVE tasks[u].review \in DOMAIN reviews
    <3>1. TaskOK(u) /\ tasks[u] \in Task
      BY <1>1 DEF Bounds, Ids
    <3>2. tasks[u].review \in Nat
      BY <3>1 DEF Task
    <3> QED
      BY <1>1, <2>2, <3>1, <3>2 DEF TaskOK
  <2>3. tasks[u].kind = "resume" => reviews'[tasks[u].review].status = reviews[tasks[u].review].status
    BY <1>8, <2>2
  <2> QED
    BY <2>1, <2>3 DEF Kept
<1>14. marker' \in [at : Nat, retryable : BOOLEAN] /\ marker'.at <= Len(hist') /\ gate' \in Seq(Nat)
  BY <1>1, <1>2 DEF Typed, Bounds
<1>15. Typed' /\ Bounds' /\ Queue'
  BY <1>1, <1>2, <1>5, <1>6, <1>9, <1>11, <1>12, <1>13, <1>14, MovedBounds
<1>16. ASSUME ~mixed' PROVE Serial'
  <2>1. ~mixed /\ One'
    BY <1>1, <1>2, <1>16, Unmixed
  <2>2. Serial
    BY <2>1 DEF IInv
  <2>3. Calms
    <3>1. ASSUME NEW u \in DOMAIN tasks, u # t PROVE Calm(u)
      <4>1. tasks'[u] = tasks[u]
        BY <1>7, <3>1
      <4> QED
        BY <1>7, <4>1 DEF Calm, Plain, Aside, Waits, Late, Turns, Holds, Asks, Newest
    <3>2. Calm(t)
      BY <1>2, <1>3, <1>6, <1>7 DEF Calm, Plain, Aside, Waits, Late, Turns, Holds, Asks, Newest
    <3> QED
      BY <1>7, <3>1, <3>2 DEF Calms
  <2>4. ~Usable /\ \A u \in DOMAIN tasks : ~Works(u) /\ ~Aside(u)
    BY <1>4, <2>2 DEF Serial, Blocks, Works, Ids
  <2>5. ASSUME NEW u \in DOMAIN tasks PROVE ~Works(u)' /\ ~Aside(u)'
    <3>1. CASE u = t
      BY <1>3, <1>6, <1>7, <3>1 DEF Works, Plain, Aside
    <3>2. CASE u # t
      BY <1>7, <2>4, <3>2 DEF Works, Runs, Plain, Aside, Newest
    <3> QED
      BY <3>1, <3>2
  <2>6. Alone'
    BY <1>7, <2>5 DEF Alone, Ids, Works
  <2>7. Blocks'
    BY <1>2, <1>7, <2>4, <2>5 DEF Blocks, Ids, Works, Usable
  <2>8. Follows'
    <3>1. Follows /\ Unmatched(hist') = Unmatched(hist) /\ Misplaced(hist') = Misplaced(hist)
      BY <1>2, <2>2 DEF Serial
    <3>2. \A i \in Unmatched(hist) : hist[i].of \in DOMAIN reviews
      BY <1>1 DEF Bounds, Unmatched
    <3>3. \A i \in Unmatched(hist) : reviews'[hist[i].of].status = reviews[hist[i].of].status
      BY <1>8, <3>2
    <3> QED
      BY <1>2, <3>1, <3>3 DEF Follows
  <2>9. MarkerOpen'
    BY <1>2, <2>2 DEF Serial, Answers, MarkerOpen
  <2> QED
    BY <1>1, <1>2, <1>10, <2>1, <2>2, <2>3, <2>6, <2>7, <2>8, <2>9, CalmSerial
<1> QED
  BY <1>15, <1>16 DEF IInv

\* The process dies.
LEMMA CrashKeeps ==
    ASSUME IInv, Crash
    PROVE  IInv'
<1> DEFINE new(t) == IF IsOver(t) THEN tasks[t]
                     ELSE [tasks[t] EXCEPT !.ph = "over", !.ended = "lost", !.outcome = "lost"]
<1>1. /\ Typed /\ Bounds /\ tasks \in Seq(Task) /\ mixed \in BOOLEAN /\ Len(tasks) \in Nat /\ DOMAIN tasks = 1..Len(tasks)
  BY DEF IInv, Typed
<1>2. /\ tasks' = [t \in DOMAIN tasks |-> new(t)] /\ gate' = <<>> /\ hist' = hist /\ marker' = marker /\ reviews' = reviews
      /\ crashes' = crashes + 1 /\ crashes < MaxCrashes /\ Watch
  BY DEF Crash
<1>3. ASSUME NEW t \in DOMAIN tasks
      PROVE  /\ new(t) \in Task /\ new(t).ph = "over" /\ new(t).kind = tasks[t].kind /\ new(t).user = tasks[t].user
             /\ new(t).review = tasks[t].review /\ new(t).restarts = tasks[t].restarts
  <2>1. tasks[t] \in Task
    BY <1>1
  <2> QED
    BY <2>1 DEF Task, Phases, Endings, Outcomes, IsOver
<1> HIDE DEF new
<1>4. tasks' \in Seq(Task) /\ Len(tasks') = Len(tasks) /\ DOMAIN tasks' = DOMAIN tasks
  <2>1. tasks' \in [1..Len(tasks) -> Task]
    BY <1>1, <1>2, <1>3
  <2> QED
    BY <1>1, <2>1
<1>5. \A t \in DOMAIN tasks : /\ tasks'[t].ph = "over" /\ tasks'[t].kind = tasks[t].kind /\ tasks'[t].user = tasks[t].user
                             /\ tasks'[t].review = tasks[t].review /\ tasks'[t].restarts = tasks[t].restarts
  BY <1>2, <1>3
<1>6. Extends /\ Settles
  BY <1>1, <1>2, NothingAdded DEF Settles
<1>7. ASSUME NEW t \in DOMAIN tasks PROVE TaskOK(t)'
  <2>1. TaskOK(t)
    BY <1>1 DEF Bounds, Ids
  <2> QED
    BY <1>2, <1>5, <2>1 DEF TaskOK
<1>8. OneResume'
  BY <1>1, <1>4, <1>5 DEF Bounds, OneResume, Ids
<1>9. gate' \in Seq(Nat) /\ DOMAIN gate' = {}
  BY <1>2
<1>10. Queue'
  BY <1>4, <1>5, <1>9 DEF Queue, Ids
<1>11. marker'.at <= Len(hist')
  BY <1>1, <1>2 DEF Bounds
<1>12. Bounds'
  BY <1>1, <1>4, <1>6, <1>7, <1>8, <1>9, <1>11, BoundsNext
<1>13. Typed'
  <2>1. mixed' \in BOOLEAN
    BY <1>2 DEF Watch
  <2>2. crashes' \in 0..MaxCrashes
    BY <1>1, <1>2, TurnsAssumption DEF Typed
  <2> QED
    BY <1>1, <1>2, <1>4, <1>9, <2>1, <2>2 DEF Typed
<1>14. ASSUME ~mixed' PROVE Serial'
  <2>1. ~mixed /\ One'
    BY <1>1, <1>2, <1>14, Unmixed
  <2>2. Serial
    BY <2>1 DEF IInv
  <2>3. Quiets
    BY <1>4, <1>5 DEF Quiets, Quiet, Calms, Calm, Live, Works, Runs, Plain, Aside, Waits, Late, Turns, Holds, Asks, Executing
  <2>4. Follows' /\ MarkerOpen' /\ (Usable' => Usable)
    BY <1>2, <2>2 DEF Serial, Follows, Unmatched, Misplaced, Answers, MarkerOpen, Usable
  <2> QED
    BY <1>1, <1>2, <1>6, <2>1, <2>2, <2>3, <2>4, QuietSerial
<1> QED
  BY <1>10, <1>12, <1>13, <1>14 DEF IInv

-----------------------------------------------------------------------------
(***************************************************************************)
(* The messages of a run.                                                  *)
(***************************************************************************)

\* Calls without replies were without replies before.
LEMMA UnmatchedBefore ==
    ASSUME Typed, Extends
    PROVE  \A i \in Unmatched(hist') : i \in DOMAIN hist => (i \in Unmatched(hist) /\ hist'[i] = hist[i])
<1>1. DOMAIN hist \subseteq DOMAIN hist' /\ \A i \in DOMAIN hist : hist'[i] = hist[i]
  BY DEF Typed, Extends
<1> QED
  BY <1>1 DEF Unmatched

\* Without an open review there is nothing to reply to.
LEMMA NothingOpen ==
    ASSUME Typed, Bounds, Serial, ~ReviewOpen
    PROVE  Unmatched(hist) = {} /\ \A r \in DOMAIN reviews : ~Waiting(r)
<1>1. \A i \in Unmatched(hist) : hist[i].of \in DOMAIN reviews /\ reviews[hist[i].of].status \in {"pending", "resuming"}
  BY DEF Serial, Follows, Bounds, Unmatched
<1>2. Unmatched(hist) = {}
  BY <1>1 DEF ReviewOpen
<1>3. ASSUME NEW r \in DOMAIN reviews, Waiting(r) PROVE FALSE
  <2>1. CASE reviews[r].status = "pending"
    BY <2>1 DEF ReviewOpen
  <2>2. CASE \E t \in DOMAIN tasks : Waits(t)
    <3>1. PICK t \in DOMAIN tasks : Waits(t)
      BY <2>2
    <3>2. tasks[t].kind = "resume" /\ tasks[t].ph # "over"
      BY <3>1 DEF Waits
    <3> QED
      BY <3>2, OwnReview
  <2> QED
    BY <1>3, <2>1, <2>2 DEF Waiting, Ids
<1> QED
  BY <1>2, <1>3

\* A turn begins: its request is stored.
LEMMA BeginTurn ==
    ASSUME IInv, NEW t \in DOMAIN tasks, Begin(t), tasks[t].kind = "turn"
    PROVE  IInv'
<1> DEFINE rec == [tasks[t] EXCEPT !.ph = "running",
                    !.user = IF tasks[t].user = 0 THEN Len(hist) + 1 ELSE tasks[t].user]
<1>1. /\ Typed /\ Bounds /\ Queue /\ tasks \in Seq(Task) /\ mixed \in BOOLEAN /\ TaskOK(t) /\ tasks[t] \in Task
      /\ Len(tasks) \in Nat /\ DOMAIN tasks = 1..Len(tasks) /\ gate \in Seq(Nat)
      /\ hist \in Seq(Message) /\ Len(hist) \in Nat /\ DOMAIN hist = 1..Len(hist)
  BY DEF IInv, Typed, Bounds, Ids
<1>2. /\ tasks[t].ph = "preparing" /\ gate' = gate /\ marker' = marker /\ reviews' = reviews /\ crashes' = crashes
      /\ Watch /\ hist' = Append(hist, UserMessage(t)) /\ tasks' = [tasks EXCEPT ![t] = rec]
  BY DEF Begin
<1>3. /\ rec \in Task /\ rec.ph = "running" /\ rec.user = Len(hist) + 1 /\ rec.kind = "turn"
      /\ rec.review = tasks[t].review /\ rec.restarts = tasks[t].restarts
  <2>1. tasks[t].user = 0
    BY <1>1, <1>2 DEF TaskOK
  <2>2. Len(hist) + 1 \in Nat
    BY <1>1
  <2> QED
    BY <1>1, <2>1, <2>2 DEF Task, Phases
<1> HIDE DEF rec
<1>4. Becomes(t, rec)
  BY <1>1, <1>2, <1>3, Updating
<1>5. UserMessage(t) \in Message /\ UserMessage(t).k = "user"
  BY <1>1 DEF UserMessage, Message, Task
<1>6. /\ hist' \in Seq(Message) /\ Len(hist') = Len(hist) + 1 /\ DOMAIN hist' = 1 .. Len(hist) + 1
      /\ hist'[Len(hist) + 1].k = "user" /\ \A i \in DOMAIN hist : hist'[i] = hist[i]
  BY <1>1, <1>2, <1>5
<1>7. \A i \in DOMAIN hist' : i = Len(hist) + 1 \/ i \in DOMAIN hist
  BY <1>1, <1>6
<1>8. \A i \in DOMAIN hist' : i > Len(hist) => hist'[i].k = "user"
  <2>1. \A i \in DOMAIN hist : ~(i > Len(hist))
    BY <1>1
  <2> QED
    BY <1>6, <1>7, <2>1
<1>9. Extends
  <2>1. reviews \in Seq(Review) /\ \A r \in DOMAIN reviews : ~(r > Len(reviews))
    BY <1>1 DEF Typed
  <2> QED
    BY <1>1, <1>2, <1>6, <1>8, <2>1 DEF Extends
<1>10. /\ DOMAIN tasks' = DOMAIN tasks /\ Len(tasks') = Len(tasks) /\ tasks'[t] = rec
       /\ \A u \in DOMAIN tasks : u # t => tasks'[u] = tasks[u]
  BY <1>4 DEF Becomes
<1>11. Queue' /\ \A i \in DOMAIN gate' : gate'[i] \in DOMAIN tasks'
  <2>1. Thins(t) /\ rec.ph # "queued" /\ rec.kind = tasks[t].kind
    BY <1>1, <1>2, <1>3, GateKept
  <2> QED
    BY <1>1, <1>4, <2>1, QueueThinned
<1>12. TaskOK(t)'
  BY <1>1, <1>2, <1>3, <1>6, <1>10 DEF TaskOK
<1>13. \A u \in DOMAIN tasks : u # t => Kept(u)
  BY <1>2, <1>10 DEF Kept
<1>14. marker' \in [at : Nat, retryable : BOOLEAN] /\ marker'.at <= Len(hist') /\ gate' \in Seq(Nat)
  <2>1. marker \in [at : Nat, retryable : BOOLEAN] /\ marker.at \in Nat /\ marker.at <= Len(hist)
    BY <1>1 DEF Typed, Bounds
  <2> QED
    BY <1>1, <1>2, <1>6, <2>1
<1>15. Typed' /\ Bounds' /\ Queue'
  BY <1>1, <1>2, <1>3, <1>4, <1>9, <1>11, <1>12, <1>13, <1>14, MovedBounds
<1>16. ASSUME ~mixed' PROVE Serial'
  <2>1. ~mixed /\ One'
    BY <1>1, <1>2, <1>16, Unmixed
  <2>2. Serial
    BY <2>1 DEF IInv
  <2>3. Works(t) /\ Live(t) /\ Runs(t)'
    BY <1>2, <1>3, <1>10 DEF Works, Live, Runs, Plain, Executing
  <2>4. ~ReviewOpen
    BY <2>2, <2>3 DEF Serial, Blocks, Works, Ids
  <2>5. Unmatched(hist) = {} /\ \A r \in DOMAIN reviews : ~Waiting(r)
    BY <1>1, <2>2, <2>4, NothingOpen
  <2>6. ASSUME NEW u \in DOMAIN tasks, u # t PROVE ~Runs(u)' /\ ~Aside(u)'
    <3>1. ~Runs(u)'
      BY <1>10, <2>1, <2>3, <2>6 DEF One, Ids
    <3>2. ~Aside(u)
      BY <2>2, <2>3, <2>6 DEF Serial, Alone, Ids
    <3> QED
      BY <1>10, <2>6, <3>1, <3>2 DEF Aside, Plain, Newest
  <2>7. Alone'
    <3>1. ASSUME NEW u \in DOMAIN tasks PROVE Quiet(u)
      <4>1. CASE u = t
        BY <1>3, <1>10, <2>3, <4>1 DEF Quiet, Aside
      <4>2. CASE u # t
        BY <1>10, <4>2 DEF Quiet, Live, Works, Runs, Plain, Aside, Newest
      <4> QED
        BY <4>1, <4>2
    <3>2. Alone
      BY <2>2 DEF Serial
    <3> QED
      BY <1>10, <3>1, <3>2, QuietAlone
  <2>8. Blocks'
    BY <1>2, <2>4 DEF Blocks, ReviewOpen
  <2>9. Pending'
    <3>1. \A u \in DOMAIN tasks : Waits(u)' => (Waits(u) /\ tasks'[u].review = tasks[u].review)
      BY <1>3, <1>10 DEF Waits
    <3>2. \A r \in DOMAIN reviews : ~Waiting(r)'
      BY <1>2, <1>10, <2>5, <3>1 DEF Waiting, Ids
    <3> QED
      BY <1>2, <3>2 DEF Pending
  <2>10. Unmatched(hist') = {}
    <3>1. SUFFICES ASSUME NEW i \in Unmatched(hist') PROVE FALSE
      OBVIOUS
    <3>2. i \in DOMAIN hist' /\ hist'[i].k = "calls"
      BY <3>1 DEF Unmatched
    <3>3. i \in DOMAIN hist
      BY <1>6, <1>7, <3>2
    <3> QED
      BY <1>1, <1>9, <2>5, <3>1, <3>3, UnmatchedBefore
  <2>11. Misplaced(hist') = {}
    <3>1. SUFFICES ASSUME NEW j \in DOMAIN hist', hist'[j].k = "replies"
                   PROVE  j > 1 /\ hist'[j-1].k = "calls" /\ hist'[j-1].of = hist'[j].of
      BY DEF Misplaced
    <3>2. j \in DOMAIN hist /\ hist'[j] = hist[j]
      BY <1>6, <1>7, <3>1
    <3>3. j > 1 /\ hist[j-1].k = "calls" /\ hist[j-1].of = hist[j].of
      BY <2>2, <3>1, <3>2 DEF Serial, Follows, Misplaced
    <3>4. j - 1 \in DOMAIN hist
      BY <1>1, <3>2, <3>3
    <3> QED
      BY <1>6, <3>2, <3>3, <3>4
  <2>12. Replied' /\ Follows'
    BY <2>10, <2>11 DEF Replied, Follows
  <2>13. ASSUME NEW u \in DOMAIN tasks PROVE InHand(u)'
    <3>1. CASE u # t
      BY <2>6, <3>1 DEF InHand, Runs, Executing
    <3>2. CASE u = t
      <4>1. tasks'[u].user = Len(hist) + 1 /\ Len(hist') = Len(hist) + 1 /\ hist'[Len(hist')].k = "user" /\ ~Aside(u)'
        BY <1>3, <1>6, <1>10, <3>2 DEF Aside
      <4>2. ASSUME NEW i \in DOMAIN hist', hist'[i].k = "answer" PROVE hist'[i].of # Len(hist) + 1
        <5>1. i \in DOMAIN hist /\ hist'[i] = hist[i]
          BY <1>6, <1>7, <4>2
        <5>2. hist[i].of < i /\ hist[i] \in Message
          BY <1>1, <4>2, <5>1 DEF Bounds
        <5>3. hist[i].of \in Nat
          BY <5>2 DEF Message
        <5> QED
          BY <1>1, <5>1, <5>2, <5>3
      <4> QED
        BY <4>1, <4>2 DEF InHand, Unanswered
    <3> QED
      BY <3>1, <3>2
  <2>14. Answers'
    <3>1. Answers /\ \A i \in DOMAIN hist' : i > Len(hist) => hist'[i].k # "answer"
      BY <1>8, <2>2 DEF Serial
    <3> QED
      BY <1>1, <1>2, <1>9, <3>1, AnswersKept
  <2> QED
    BY <1>10, <2>1, <2>7, <2>8, <2>9, <2>12, <2>13, <2>14 DEF Serial, Ids
<1> QED
  BY <1>15, <1>16 DEF IInv

\* The body begins.
LEMMA BeginKeeps ==
    ASSUME IInv, NEW t \in DOMAIN tasks, Begin(t)
    PROVE  IInv'
BY BeginTurn, BeginResume

\* What a commit stores: for a resumed review the replies, then calls or an answer.
Stores(t, deferred) ==
    /\ hist' \in Seq(Message)
    /\ DOMAIN hist' = 1..Len(hist')
    /\ \A i \in DOMAIN hist : hist'[i] = hist[i]
    /\ tasks[t].kind # "resume" => Len(hist') = Len(hist) + 1
    /\ tasks[t].kind = "resume" =>
          /\ Len(hist') = Len(hist) + 2
          /\ hist'[Len(hist) + 1].k = "replies"
          /\ hist'[Len(hist) + 1].of = tasks[t].review
    /\ deferred =>
          /\ hist'[Len(hist')].k = "calls"
          /\ hist'[Len(hist')].of = Len(reviews) + 1
          /\ reviews' = Append(reviews, [status |-> "pending", user |-> tasks[t].user, task |-> 0])
    /\ ~deferred =>
          /\ hist'[Len(hist')].k = "answer"
          /\ hist'[Len(hist')].of = tasks[t].user
          /\ hist'[Len(hist')].by = tasks[t].kind
          /\ reviews' = reviews

\* The one or two messages of a commit.
LEMMA Storing ==
    ASSUME Typed, NEW t \in DOMAIN tasks, NEW deferred \in BOOLEAN, Commit(t, deferred)
    PROVE  Stores(t, deferred)
<1> DEFINE r == Len(reviews) + 1
           rep == Replies(t, tasks[t].review)
           last == IF deferred THEN Calls(t, r) ELSE Answer(t, tasks[t].user)
           old == IF tasks[t].kind = "resume" THEN <<rep>> ELSE <<>>
           new == IF deferred THEN <<Calls(t, r)>> ELSE <<Answer(t, tasks[t].user)>>
<1>1. /\ hist \in Seq(Message) /\ Len(hist) \in Nat /\ DOMAIN hist = 1..Len(hist)
      /\ tasks[t] \in Task /\ Len(reviews) \in Nat
  BY DEF Typed
<1>2. /\ hist' = (hist \o old) \o new
      /\ reviews' = IF deferred THEN Append(reviews, [status |-> "pending", user |-> tasks[t].user, task |-> 0])
                    ELSE reviews
  BY DEF Commit
<1>3. /\ rep \in Message /\ rep.k = "replies" /\ rep.of = tasks[t].review
  BY <1>1 DEF Replies, Message, Task
<1>4. /\ last \in Message
      /\ deferred => (last.k = "calls" /\ last.of = Len(reviews) + 1)
      /\ ~deferred => (last.k = "answer" /\ last.of = tasks[t].user /\ last.by = tasks[t].kind)
  <2>1. CASE deferred
    BY <1>1, <2>1 DEF Calls, Message, Task
  <2>2. CASE ~deferred
    BY <1>1, <2>2 DEF Answer, Message, Task
  <2> QED
    BY <2>1, <2>2
<1>5. new = <<last>>
  OBVIOUS
<1> HIDE DEF r, rep, last, new
<1>6. CASE tasks[t].kind # "resume"
  <2>1. hist' = hist \o <<last>>
    BY <1>1, <1>2, <1>5, <1>6
  <2> HIDE DEF old
  <2>2. /\ hist' \in Seq(Message) /\ Len(hist') = Len(hist) + 1 /\ DOMAIN hist' = 1 .. Len(hist) + 1
        /\ \A i \in DOMAIN hist : hist'[i] = hist[i]
        /\ hist'[Len(hist) + 1] = last
    BY <1>1, <1>4, <2>1
  <2> QED
    BY <1>2, <1>4, <1>6, <2>2 DEF Stores
<1>7. CASE tasks[t].kind = "resume"
  <2>1. hist' = (hist \o <<rep>>) \o <<last>>
    BY <1>2, <1>5, <1>7
  <2> HIDE DEF old
  <2> DEFINE mid == hist \o <<rep>>
  <2>2. /\ mid \in Seq(Message) /\ Len(mid) = Len(hist) + 1 /\ DOMAIN mid = 1 .. Len(hist) + 1
        /\ \A i \in DOMAIN hist : mid[i] = hist[i]
        /\ mid[Len(hist) + 1] = rep
    BY <1>1, <1>3
  <2>3. hist' = mid \o <<last>>
    BY <2>1
  <2> HIDE DEF mid
  <2>4. /\ hist' \in Seq(Message) /\ Len(hist') = Len(mid) + 1 /\ DOMAIN hist' = 1 .. Len(mid) + 1
        /\ \A i \in DOMAIN mid : hist'[i] = mid[i]
        /\ hist'[Len(mid) + 1] = last
    BY <1>4, <2>2, <2>3
  <2>5. Len(hist') = Len(hist) + 2 /\ DOMAIN hist' = 1..Len(hist') /\ hist'[Len(hist')] = last
    BY <1>1, <2>2, <2>4
  <2>6. hist'[Len(hist) + 1] = rep /\ \A i \in DOMAIN hist : hist'[i] = hist[i]
    <3>1. Len(hist) + 1 \in DOMAIN mid /\ \A i \in DOMAIN hist : i \in DOMAIN mid
      BY <1>1, <2>2
    <3> QED
      BY <2>2, <2>4, <3>1
  <2>7. Stores(t, deferred)
    BY <1>2, <1>3, <1>4, <1>7, <2>4, <2>5, <2>6 DEF Stores
  <2> QED
    BY <2>7
<1> QED
  BY <1>6, <1>7

\* What a commit stores refers to what is there.
LEMMA StoredExtends ==
    ASSUME Typed, Bounds, NEW t \in DOMAIN tasks, NEW deferred \in BOOLEAN, Stores(t, deferred),
           tasks[t].user > 0
    PROVE  /\ Extends
           /\ \A r \in DOMAIN reviews : reviews'[r] = reviews[r]
           /\ Len(reviews') = IF deferred THEN Len(reviews) + 1 ELSE Len(reviews)
           /\ \A i \in DOMAIN hist' : i > Len(hist) =>
                 i = Len(hist') \/ (tasks[t].kind = "resume" /\ i = Len(hist) + 1)
<1>1. /\ Len(hist) \in Nat /\ DOMAIN hist = 1..Len(hist) /\ reviews \in Seq(Review) /\ Len(reviews) \in Nat
      /\ DOMAIN reviews = 1..Len(reviews) /\ tasks[t] \in Task /\ TaskOK(t)
  BY DEF Typed, Bounds, Ids
<1>2. /\ tasks[t].user \in Nat /\ tasks[t].user <= Len(hist)
  BY <1>1 DEF Task, TaskOK
<1>3. /\ hist' \in Seq(Message) /\ Len(hist') \in Nat /\ DOMAIN hist' = 1..Len(hist') /\ Len(hist) < Len(hist')
      /\ \A i \in DOMAIN hist : hist'[i] = hist[i]
  <2>1. /\ hist' \in Seq(Message) /\ DOMAIN hist' = 1..Len(hist') /\ \A i \in DOMAIN hist : hist'[i] = hist[i]
        /\ Len(hist') = Len(hist) + 1 \/ (tasks[t].kind = "resume" /\ Len(hist') = Len(hist) + 2)
    BY DEF Stores
  <2>3. Len(hist') = Len(hist) + 1 \/ Len(hist') = Len(hist) + 2
    BY <2>1
  <2>4. Len(hist) \in Nat
    BY <1>1
  <2>2. Len(hist') \in Nat /\ Len(hist) < Len(hist')
    BY <2>3, <2>4
  <2> QED
    BY <2>1, <2>2
<1>4. ASSUME NEW i \in DOMAIN hist', i > Len(hist)
      PROVE  i = Len(hist') \/ (tasks[t].kind = "resume" /\ i = Len(hist) + 1)
  <2>1. Len(hist') = Len(hist) + 1 \/ (tasks[t].kind = "resume" /\ Len(hist') = Len(hist) + 2)
    BY DEF Stores
  <2>2. i \in 1..Len(hist')
    BY <1>3
  <2> QED
    BY <1>1, <1>4, <2>1, <2>2
<1>5. /\ reviews' \in Seq(Review) /\ Len(reviews') = IF deferred THEN Len(reviews) + 1 ELSE Len(reviews)
      /\ \A r \in DOMAIN reviews : reviews'[r] = reviews[r]
      /\ deferred => reviews'[Len(reviews) + 1].user = tasks[t].user
  <2>1. CASE deferred
    <3> DEFINE new == [status |-> "pending", user |-> tasks[t].user, task |-> 0]
    <3>1. new \in Review /\ new.user = tasks[t].user
      BY <1>2 DEF Review, Statuses
    <3>2. reviews' = Append(reviews, new)
      BY <2>1 DEF Stores
    <3> HIDE DEF new
    <3> QED
      BY <1>1, <2>1, <3>1, <3>2
  <2>2. CASE ~deferred
    BY <1>1, <2>2 DEF Stores
  <2> QED
    BY <2>1, <2>2
<1>6. DOMAIN reviews' = 1..Len(reviews') /\ Len(reviews') \in Nat /\ Len(reviews) <= Len(reviews')
  BY <1>1, <1>5
<1>7. ASSUME NEW i \in DOMAIN hist', i > Len(hist)
      PROVE  /\ hist'[i].k = "calls" => hist'[i].of \in DOMAIN reviews'
             /\ hist'[i].k = "answer" => hist'[i].of < i
  <2>1. CASE tasks[t].kind = "resume" /\ i = Len(hist) + 1
    BY <2>1 DEF Stores
  <2>2. CASE i = Len(hist') /\ deferred
    <3>1. hist'[i].k = "calls" /\ hist'[i].of = Len(reviews) + 1
      BY <2>2 DEF Stores
    <3>2. Len(reviews) + 1 \in DOMAIN reviews'
      BY <1>1, <1>5, <1>6, <2>2
    <3> QED
      BY <3>1, <3>2
  <2>3. CASE i = Len(hist') /\ ~deferred
    <3>1. hist'[i].k = "answer" /\ hist'[i].of = tasks[t].user
      BY <2>3 DEF Stores
    <3> QED
      BY <1>1, <1>2, <1>3, <2>3, <3>1
  <2> QED
    BY <1>4, <1>7, <2>1, <2>2, <2>3
<1>8. ASSUME NEW r \in DOMAIN reviews', r > Len(reviews) PROVE reviews'[r].user \in 1..Len(hist')
  <2>1. deferred /\ r = Len(reviews) + 1
    BY <1>1, <1>5, <1>6, <1>8
  <2> QED
    BY <1>1, <1>2, <1>3, <1>5, <2>1
<1>9. Extends
  BY <1>1, <1>3, <1>5, <1>6, <1>7, <1>8 DEF Extends
<1> QED
  BY <1>4, <1>5, <1>9

\* What a task that commits finds: its request without an answer, and no calls without
\* replies but, right at the end, those of the review it resumes.
LEMMA CommitReady ==
    ASSUME Typed, Bounds, Serial, NEW t \in DOMAIN tasks, tasks[t].ph = "running"
    PROVE  /\ Unanswered(tasks[t].user)
           /\ \A i \in Unmatched(hist) : tasks[t].kind = "resume" /\ i = Len(hist) /\ hist[i].of = tasks[t].review
           /\ \A q \in DOMAIN reviews : Waiting(q) => (tasks[t].kind = "resume" /\ q = tasks[t].review)
           /\ tasks[t].kind = "resume" => LastCalls(tasks[t].review)
<1>1. CASE tasks[t].kind # "resume"
  <2>1. Works(t) /\ Holds(t)
    BY <1>1 DEF Works, Runs, Plain, Holds, Executing
  <2>2. ~ReviewOpen
    BY <2>1 DEF Serial, Blocks, Works, Ids
  <2>3. Unanswered(tasks[t].user)
    BY <2>1 DEF Serial, InHand, Holds, Ids
  <2>4. Unmatched(hist) = {} /\ \A r \in DOMAIN reviews : ~Waiting(r)
    BY <2>2, NothingOpen
  <2> QED
    BY <1>1, <2>3, <2>4
<1>2. CASE tasks[t].kind = "resume"
  <2>1. /\ tasks[t].review \in DOMAIN reviews /\ reviews[tasks[t].review].user = tasks[t].user
    BY <1>2, OwnReview
  <2>2. Waiting(tasks[t].review)
    BY <1>2 DEF Waiting, Waits, Ids
  <2>3. Pending /\ Follows
    BY DEF Serial
  <2>4. LastCalls(tasks[t].review) /\ Unanswered(tasks[t].user)
    BY <2>1, <2>2, <2>3 DEF Pending
  <2>5. \A i \in Unmatched(hist) : i = Len(hist) /\ hist[i].of = tasks[t].review
    BY <2>3, <2>4 DEF Follows, LastCalls
  <2>6. \A q \in DOMAIN reviews : Waiting(q) => q = tasks[t].review
    BY <2>3, <2>4 DEF Pending, LastCalls
  <2> QED
    BY <1>2, <2>4, <2>5, <2>6
<1> QED
  BY <1>1, <1>2

\* The protocol after a commit.
LEMMA CommitFollows ==
    ASSUME Typed, Bounds, Serial, NEW t \in DOMAIN tasks, tasks[t].ph = "running",
           NEW deferred \in BOOLEAN, Stores(t, deferred), Extends,
           \A i \in DOMAIN hist' : i > Len(hist) => i = Len(hist') \/ (tasks[t].kind = "resume" /\ i = Len(hist) + 1)
    PROVE  /\ \A i \in Unmatched(hist') : i = Len(hist') /\ deferred /\ hist'[i].of = Len(reviews) + 1
           /\ Misplaced(hist') = {}
<1>1. /\ Len(hist) \in Nat /\ DOMAIN hist = 1..Len(hist) /\ DOMAIN hist' = 1..Len(hist') /\ Len(hist') \in Nat
      /\ \A i \in DOMAIN hist : hist'[i] = hist[i]
  BY DEF Typed, Extends
<1>2. \A i \in DOMAIN hist' : i \in DOMAIN hist \/ i > Len(hist)
  BY <1>1
<1>3. ASSUME NEW i \in Unmatched(hist') PROVE i = Len(hist') /\ deferred /\ hist'[i].of = Len(reviews) + 1
  <2>1. /\ i \in DOMAIN hist' /\ hist'[i].k = "calls"
        /\ \A j \in DOMAIN hist' : ~(j > i /\ hist'[j].k = "replies" /\ hist'[j].of = hist'[i].of)
    BY <1>3 DEF Unmatched
  <2>2. CASE i \in DOMAIN hist
    <3>1. i \in Unmatched(hist) /\ hist'[i] = hist[i]
      BY <1>3, <2>2, UnmatchedBefore
    <3>2. tasks[t].kind = "resume" /\ i = Len(hist) /\ hist[i].of = tasks[t].review
      BY <3>1, CommitReady
    <3>3. Len(hist) + 1 \in DOMAIN hist' /\ Len(hist) + 1 > i
      BY <1>1, <3>2 DEF Stores
    <3>4. hist'[Len(hist) + 1].k = "replies" /\ hist'[Len(hist) + 1].of = hist'[i].of
      BY <3>1, <3>2 DEF Stores
    <3> QED
      BY <2>1, <3>3, <3>4
  <2>3. CASE i > Len(hist)
    <3>1. CASE tasks[t].kind = "resume" /\ i = Len(hist) + 1
      BY <2>1, <3>1 DEF Stores
    <3>2. CASE i = Len(hist')
      BY <2>1, <3>2 DEF Stores
    <3> QED
      BY <2>1, <2>3, <3>1, <3>2
  <2> QED
    BY <1>2, <2>1, <2>2, <2>3
<1>4. Misplaced(hist') = {}
  <2>1. SUFFICES ASSUME NEW j \in DOMAIN hist', hist'[j].k = "replies"
                 PROVE  j > 1 /\ hist'[j-1].k = "calls" /\ hist'[j-1].of = hist'[j].of
    BY DEF Misplaced
  <2>2. CASE j \in DOMAIN hist
    <3>1. hist'[j] = hist[j]
      BY <1>1, <2>2
    <3>2. j > 1 /\ hist[j-1].k = "calls" /\ hist[j-1].of = hist[j].of
      BY <2>1, <2>2, <3>1 DEF Serial, Follows, Misplaced
    <3>3. j - 1 \in DOMAIN hist
      BY <1>1, <2>2, <3>2
    <3> QED
      BY <1>1, <3>1, <3>2, <3>3
  <2>3. CASE j > Len(hist)
    <3>1. tasks[t].kind = "resume" /\ j = Len(hist) + 1
      <4>1. CASE j = Len(hist')
        <5>1. hist'[Len(hist')].k # "replies"
          BY DEF Stores
        <5> QED
          BY <2>1, <4>1, <5>1
      <4> QED
        BY <2>1, <2>3, <4>1
    <3>2. LastCalls(tasks[t].review)
      BY <3>1, CommitReady
    <3>3. Len(hist) \in Unmatched(hist) /\ hist[Len(hist)].of = tasks[t].review
      BY <3>2, LastUnmatched
    <3>4. Len(hist) \in DOMAIN hist /\ hist[Len(hist)].k = "calls"
      BY <3>3 DEF Unmatched
    <3>5. hist'[j].of = tasks[t].review
      BY <3>1 DEF Stores
    <3>6. j > 1 /\ j - 1 = Len(hist)
      BY <1>1, <3>1, <3>4
    <3> QED
      BY <1>1, <3>3, <3>4, <3>5, <3>6
  <2> QED
    BY <1>2, <2>2, <2>3
<1> QED
  BY <1>3, <1>4

\* The answers after a commit.
LEMMA CommitAnswers ==
    ASSUME Typed, Bounds, Serial, NEW t \in DOMAIN tasks, tasks[t].ph = "running",
           NEW deferred \in BOOLEAN, Stores(t, deferred), Extends, marker'.at = 0,
           \A i \in DOMAIN hist' : i > Len(hist) => i = Len(hist') \/ (tasks[t].kind = "resume" /\ i = Len(hist) + 1)
    PROVE  Answers'
<1>1. /\ Len(hist) \in Nat /\ DOMAIN hist = 1..Len(hist) /\ DOMAIN hist' = 1..Len(hist') /\ Len(hist') \in Nat
      /\ \A i \in DOMAIN hist : hist'[i] = hist[i]
  BY DEF Typed, Extends
<1>2. \A i \in DOMAIN hist' : i \in DOMAIN hist \/ i > Len(hist)
  BY <1>1
<1>3. CASE deferred
  <2>1. ASSUME NEW i \in DOMAIN hist', i > Len(hist) PROVE hist'[i].k # "answer"
    <3>1. CASE i = Len(hist')
      BY <1>3, <3>1 DEF Stores
    <3>2. CASE tasks[t].kind = "resume" /\ i = Len(hist) + 1
      BY <3>2 DEF Stores
    <3> QED
      BY <2>1, <3>1, <3>2
  <2>2. Answers /\ (marker'.at > 0 => marker' = marker)
    BY DEF Serial
  <2> QED
    BY <2>1, <2>2, AnswersKept
<1>4. CASE ~deferred
  <2>1. hist'[Len(hist')].k = "answer" /\ hist'[Len(hist')].of = tasks[t].user /\ hist'[Len(hist')].by = tasks[t].kind
    BY <1>4 DEF Stores
  <2>2. ASSUME NEW i \in DOMAIN hist', hist'[i].k = "answer"
        PROVE  i = Len(hist') \/ (i \in DOMAIN hist /\ hist[i].k = "answer" /\ hist'[i] = hist[i])
    <3>1. CASE i \in DOMAIN hist
      BY <1>1, <2>2, <3>1
    <3>2. CASE i > Len(hist)
      <4>1. CASE tasks[t].kind = "resume" /\ i = Len(hist) + 1
        BY <2>2, <4>1 DEF Stores
      <4> QED
        BY <2>2, <3>2, <4>1
    <3> QED
      BY <1>2, <3>1, <3>2
  <2>3. \A i \in DOMAIN hist : hist[i].k = "answer" => hist[i].of # tasks[t].user
    BY CommitReady DEF Unanswered
  <2>4. OneAnswer'
    <3>1. SUFFICES ASSUME NEW i \in DOMAIN hist', NEW j \in DOMAIN hist', hist'[i].k = "answer", hist'[j].k = "answer",
                          hist'[i].of = hist'[j].of
                   PROVE  i = j
      BY DEF OneAnswer
    <3>2. CASE i \in DOMAIN hist /\ hist[i].k = "answer" /\ hist'[i] = hist[i]
          /\ j \in DOMAIN hist /\ hist[j].k = "answer" /\ hist'[j] = hist[j]
      BY <3>1, <3>2 DEF Serial, Answers, OneAnswer
    <3> QED
      BY <2>1, <2>2, <2>3, <3>1, <3>2
  <2>5. TurnAnswer'
    <3>1. SUFFICES ASSUME NEW i \in DOMAIN hist', hist'[i].k = "answer", hist'[i].by = "turn",
                          NEW j \in hist'[i].of + 1 .. i
                   PROVE  hist'[j].k # "user"
      BY DEF TurnAnswer
    <3>2. CASE i = Len(hist')
      <4>1. tasks[t].kind = "turn"
        BY <2>1, <3>1, <3>2
      <4>2. tasks[t].user = Len(hist)
        BY <4>1 DEF Serial, InHand, Ids
      <4>3. Len(hist') = Len(hist) + 1
        BY <4>1 DEF Stores
      <4>4. j = Len(hist')
        BY <1>1, <2>1, <3>1, <3>2, <4>2, <4>3
      <4> QED
        BY <2>1, <4>4
    <3>3. CASE i \in DOMAIN hist /\ hist[i].k = "answer" /\ hist'[i] = hist[i]
      <4>1. hist[i] \in Message
        BY <3>3 DEF Typed
      <4>2. hist[i].of \in Nat
        BY <4>1 DEF Message
      <4>3. hist[j].k # "user"
        BY <3>1, <3>3 DEF Serial, Answers, TurnAnswer
      <4>4. j \in DOMAIN hist
        BY <1>1, <3>1, <3>3, <4>2
      <4> QED
        BY <1>1, <4>3, <4>4
    <3> QED
      BY <2>2, <3>1, <3>2, <3>3
  <2>6. MarkerOpen'
    BY DEF MarkerOpen
  <2> QED
    BY <2>4, <2>5, <2>6 DEF Answers
<1> QED
  BY <1>3, <1>4


\* A commit.
LEMMA CommitKeeps ==
    ASSUME IInv, NEW t \in DOMAIN tasks, NEW deferred \in BOOLEAN, Commit(t, deferred)
    PROVE  IInv'
<1> DEFINE rec == [tasks[t] EXCEPT
                        !.ph = IF deferred THEN "finishing" ELSE "compacting",
                        !.outcome = IF deferred THEN "review" ELSE "answer",
                        !.ended = "done"]
           next == Len(reviews) + 1
<1>1. /\ Typed /\ Bounds /\ Queue /\ tasks \in Seq(Task) /\ mixed \in BOOLEAN /\ TaskOK(t) /\ tasks[t] \in Task
      /\ gate \in Seq(Nat) /\ hist \in Seq(Message) /\ Len(hist) \in Nat /\ DOMAIN hist = 1..Len(hist)
      /\ reviews \in Seq(Review) /\ Len(reviews) \in Nat /\ DOMAIN reviews = 1..Len(reviews)
  BY DEF IInv, Typed, Bounds, Ids
<1>2. /\ tasks[t].ph = "running" /\ gate' = gate /\ crashes' = crashes /\ marker' = NoMarker
      /\ Watch /\ tasks' = [tasks EXCEPT ![t] = rec]
  BY DEF Commit, Cleared
<1>3. /\ rec \in Task /\ rec.ph \in {"finishing", "compacting"} /\ rec.user = tasks[t].user /\ rec.kind = tasks[t].kind
      /\ rec.review = tasks[t].review /\ rec.restarts = tasks[t].restarts
  BY <1>1 DEF Task, Phases, Outcomes, Endings
<1> HIDE DEF rec
<1>4. Becomes(t, rec)
  BY <1>1, <1>2, <1>3, Updating
<1>5. Stores(t, deferred)
  BY <1>1, Storing
<1>6. tasks[t].user > 0 /\ tasks[t].review <= Len(reviews) /\ tasks[t].review \in Nat
  BY <1>1, <1>2 DEF TaskOK, Task
<1>7. /\ Extends
      /\ \A r \in DOMAIN reviews : reviews'[r] = reviews[r]
      /\ Len(reviews') = IF deferred THEN next ELSE Len(reviews)
      /\ \A i \in DOMAIN hist' : i > Len(hist) => i = Len(hist') \/ (tasks[t].kind = "resume" /\ i = Len(hist) + 1)
  BY <1>1, <1>5, <1>6, StoredExtends
<1>8. /\ DOMAIN tasks' = DOMAIN tasks /\ Len(tasks') = Len(tasks) /\ tasks'[t] = rec
      /\ \A u \in DOMAIN tasks : u # t => tasks'[u] = tasks[u]
  BY <1>4 DEF Becomes
<1>9. Queue' /\ \A i \in DOMAIN gate' : gate'[i] \in DOMAIN tasks'
  <2>1. Thins(t) /\ rec.ph # "queued"
    BY <1>1, <1>2, <1>3, GateKept
  <2> QED
    BY <1>1, <1>3, <1>4, <2>1, QueueThinned
<1>10. \A u \in DOMAIN tasks : tasks[u].kind = "resume" => tasks[u].review \in DOMAIN reviews
  <2>1. ASSUME NEW u \in DOMAIN tasks, tasks[u].kind = "resume" PROVE tasks[u].review \in DOMAIN reviews
    <3>1. TaskOK(u) /\ tasks[u] \in Task
      BY <1>1 DEF Bounds, Ids
    <3>2. tasks[u].review \in Nat
      BY <3>1 DEF Task
    <3> QED
      BY <1>1, <2>1, <3>1, <3>2 DEF TaskOK
  <2> QED
    BY <2>1
<1>11. /\ Len(hist') \in Nat /\ Len(hist) <= Len(hist') /\ DOMAIN hist' = 1..Len(hist')
       /\ Len(reviews') \in Nat /\ Len(reviews) <= Len(reviews') /\ DOMAIN reviews' = 1..Len(reviews')
  BY <1>7 DEF Extends
<1>12. TaskOK(t)'
  <2>1. tasks[t].user \in Nat /\ tasks[t].user <= Len(hist') /\ tasks[t].review <= Len(reviews')
    BY <1>1, <1>6, <1>11 DEF TaskOK, Task
  <2>2. tasks[t].kind = "resume" => reviews'[tasks[t].review] = reviews[tasks[t].review]
    BY <1>7, <1>10
  <2> QED
    BY <1>1, <1>2, <1>3, <1>6, <1>8, <2>1, <2>2 DEF TaskOK
<1>13. \A u \in DOMAIN tasks : u # t => Kept(u)
  BY <1>7, <1>8, <1>10 DEF Kept
<1>14. /\ marker' \in [at : Nat, retryable : BOOLEAN] /\ marker'.at <= Len(hist') /\ gate' \in Seq(Nat)
       /\ marker'.at = 0 /\ ~marker'.retryable
  BY <1>1, <1>2, <1>11 DEF NoMarker
<1>15. Typed' /\ Bounds' /\ Queue'
  BY <1>1, <1>2, <1>3, <1>4, <1>7, <1>9, <1>12, <1>13, <1>14, MovedBounds
<1>16. ASSUME ~mixed' PROVE Serial'
  <2>1. ~mixed /\ One'
    BY <1>1, <1>2, <1>16, Unmixed
  <2>2. Serial
    BY <2>1 DEF IInv
  <2>3. Runs(t) /\ Live(t)
    BY <1>2 DEF Live, Runs, Executing
  <2>4. ASSUME NEW u \in DOMAIN tasks PROVE ~Works(u)' /\ ~Aside(u)'
    <3>1. CASE u = t
      BY <1>3, <1>8, <3>1 DEF Works, Runs, Aside, Executing
    <3>2. CASE u # t
      <4>1. ~Runs(u)
        BY <2>2, <2>3, <3>2 DEF Serial, One, Ids
      <4>2. ~Aside(u)
        BY <2>2, <2>3, <3>2 DEF Serial, Alone, Ids
      <4> QED
        BY <1>8, <3>2, <4>1, <4>2 DEF Works, Runs, Aside, Plain, Newest
    <3> QED
      BY <3>1, <3>2
  <2>5. Alone'
    BY <1>8, <2>4 DEF Alone, Ids, Works
  <2>6. Blocks'
    <3>1. ~Usable'
      BY <1>14 DEF Usable
    <3> QED
      BY <1>8, <2>4, <3>1 DEF Blocks, Ids, Works
  <2>7. /\ Unanswered(tasks[t].user)
        /\ \A q \in DOMAIN reviews : Waiting(q) => (tasks[t].kind = "resume" /\ q = tasks[t].review)
    BY <1>1, <1>2, <2>2, CommitReady
  <2>8. ASSUME NEW r \in DOMAIN reviews PROVE ~Waiting(r)'
    <3>1. ASSUME reviews[r].status = "pending" PROVE FALSE
      <4>1. tasks[t].kind = "resume" /\ r = tasks[t].review
        BY <2>7, <3>1 DEF Waiting
      <4>2. reviews[r].status = "resuming"
        BY <1>1, <1>2, <4>1, OwnReview
      <4> QED
        BY <3>1, <4>2
    <3>2. ASSUME NEW u \in DOMAIN tasks, Waits(u)', tasks'[u].review = r PROVE FALSE
      <4>1. u # t
        BY <1>3, <1>8, <3>2 DEF Waits
      <4>2. Waits(u) /\ tasks[u].review = r
        BY <1>8, <3>2, <4>1 DEF Waits
      <4>3. tasks[t].kind = "resume" /\ r = tasks[t].review
        BY <2>7, <4>2 DEF Waiting, Ids
      <4>4. OneResume /\ tasks[u].kind = "resume"
        BY <1>1, <4>2 DEF Bounds, Waits
      <4> QED
        BY <4>1, <4>2, <4>3, <4>4 DEF OneResume, Ids
    <3>3. reviews'[r].status # "pending"
      BY <1>7, <3>1
    <3> QED
      BY <1>8, <3>2, <3>3 DEF Waiting, Ids
  <2>9. deferred => /\ reviews'[next].status = "pending" /\ reviews'[next].user = tasks[t].user
                    /\ hist'[Len(hist')].k = "calls" /\ hist'[Len(hist')].of = next
    <3> DEFINE new == [status |-> "pending", user |-> tasks[t].user, task |-> 0]
    <3>1. deferred => /\ reviews' = Append(reviews, new)
                      /\ hist'[Len(hist')].k = "calls" /\ hist'[Len(hist')].of = next
      BY <1>5 DEF Stores
    <3>2. new.status = "pending" /\ new.user = tasks[t].user
      OBVIOUS
    <3> HIDE DEF new
    <3> QED
      BY <1>1, <3>1, <3>2
  <2>10. Pending'
    <3>1. SUFFICES ASSUME NEW r \in DOMAIN reviews', Waiting(r)'
                   PROVE  LastCalls(r)' /\ Unanswered(reviews[r].user)'
      BY DEF Pending
    <3>2. r \notin DOMAIN reviews
      BY <2>8, <3>1
    <3>3. deferred /\ r = next
      BY <1>1, <1>7, <1>11, <3>1, <3>2
    <3>4. hist' # <<>> /\ hist'[Len(hist')].k = "calls" /\ hist'[Len(hist')].of = r /\ reviews'[r].user = tasks[t].user
      <4>1. hist' # <<>>
        <5>1. Len(hist') = Len(hist) + 1 \/ Len(hist') = Len(hist) + 2
          BY <1>5 DEF Stores
        <5> QED
          BY <1>1, <5>1
      <4> QED
        BY <2>9, <3>3, <4>1
    <3>5. ASSUME NEW i \in DOMAIN hist', hist'[i].k = "answer" PROVE hist'[i].of # tasks[t].user
      <4>1. CASE i \in DOMAIN hist
        BY <2>7, <3>5, <4>1, <1>7 DEF Extends, Unanswered
      <4>2. CASE i > Len(hist)
        BY <1>5, <1>7, <3>3, <3>5, <4>2 DEF Stores
      <4> QED
        BY <1>1, <1>11, <4>1, <4>2
    <3> QED
      BY <3>4, <3>5 DEF LastCalls, Unanswered
  <2>11. /\ \A i \in Unmatched(hist') : i = Len(hist') /\ deferred /\ hist'[i].of = next
         /\ Misplaced(hist') = {}
    BY <1>1, <1>2, <1>5, <1>7, <2>2, CommitFollows
  <2>12. Replied'
    <3>1. SUFFICES ASSUME NEW u \in DOMAIN tasks, Late(u)', NEW i \in Unmatched(hist')
                   PROVE  hist'[i].of # tasks'[u].review
      BY <1>8 DEF Replied, Ids
    <3>2. tasks[u].kind = "resume" /\ tasks'[u].review = tasks[u].review
      BY <1>3, <1>8, <3>1 DEF Late
    <3> QED
      BY <1>1, <1>10, <2>11, <3>1, <3>2
  <2>13. Follows'
    BY <2>9, <2>11 DEF Follows
  <2>14. ASSUME NEW u \in DOMAIN tasks PROVE InHand(u)'
    <3>1. ~(Plain(u)' /\ tasks'[u].ph = "running") /\ ~Aside(u)'
      BY <2>4 DEF Works, Runs, Executing
    <3> QED
      BY <3>1 DEF InHand, Plain
  <2>15. Answers'
    BY <1>1, <1>2, <1>5, <1>7, <1>14, <2>2, CommitAnswers
  <2> QED
    BY <1>8, <2>1, <2>5, <2>6, <2>10, <2>12, <2>13, <2>14, <2>15 DEF Serial, Ids
<1> QED
  BY <1>15, <1>16 DEF IInv

-----------------------------------------------------------------------------
(***************************************************************************)
(* The invariant and the theorems.                                         *)
(***************************************************************************)

\* An empty session.
LEMMA Starts ==
    ASSUME Init
    PROVE  IInv
<1>1. /\ tasks = <<>> /\ gate = <<>> /\ hist = <<>> /\ marker = NoMarker /\ reviews = <<>> /\ crashes = 0
      /\ mixed = FALSE
  BY DEF Init
<1>2. /\ DOMAIN tasks = {} /\ DOMAIN gate = {} /\ DOMAIN hist = {} /\ DOMAIN reviews = {} /\ Len(hist) = 0
  BY <1>1
<1>3. Typed
  <2>1. marker \in [at : Nat, retryable : BOOLEAN]
    BY <1>1 DEF NoMarker
  <2>2. crashes \in 0..MaxCrashes
    BY <1>1, TurnsAssumption
  <2>3. tasks \in Seq(Task) /\ gate \in Seq(Nat) /\ hist \in Seq(Message) /\ reviews \in Seq(Review)
    BY <1>1
  <2> QED
    BY <1>1, <2>1, <2>2, <2>3 DEF Typed
<1>4. marker.at = 0 /\ ~marker.retryable
  BY <1>1 DEF NoMarker
<1>5. Bounds
  BY <1>2, <1>4 DEF Bounds, OneResume, Ids
<1>6. Queue
  BY <1>2 DEF Queue, Ids
<1>7. Unmatched(hist) = {} /\ Misplaced(hist) = {}
  BY <1>2 DEF Unmatched, Misplaced
<1>8. One /\ Alone /\ Blocks /\ Pending /\ Replied /\ Follows
  BY <1>2, <1>4, <1>7 DEF One, Alone, Blocks, Pending, Replied, Follows, Ids, ReviewOpen
<1>9. Answers
  BY <1>2, <1>4 DEF Answers, OneAnswer, TurnAnswer, MarkerOpen
<1> QED
  BY <1>2, <1>3, <1>5, <1>6, <1>8, <1>9 DEF IInv, Serial, Ids

\* A step of a task.
LEMMA TaskStepKeeps ==
    ASSUME IInv, NEW t \in DOMAIN tasks, TaskStep(t)
    PROVE  IInv'
<1>1. CASE Preflight(t) \/ PrepareFails(t) \/ Begin(t)
  BY <1>1, PreflightKeeps, PrepareFailsKeeps, BeginKeeps
<1>2. CASE \E deferred \in BOOLEAN : Commit(t, deferred)
  BY <1>2, CommitKeeps
<1>3. CASE \E retryable \in BOOLEAN : Fail(t, retryable)
  BY <1>3, FailKeeps
<1>4. CASE NeedsRestart(t) \/ Finish(t) \/ RestartHook(t) \/ RetryStart(t) \/ ResumeStart(t)
  BY <1>4, NeedsRestartKeeps, FinishKeeps, RestartHookKeeps, RetryStartKeeps, ResumeStartKeeps
<1>5. CASE Compacted(t) \/ RetryFails(t) \/ ResumePrepare(t)
  BY <1>5, PhasesKeep
<1>6. CASE ReviewHook(t) \/ ResumeStartFails(t)
  BY <1>6, HooksKeep
<1> QED
  BY <1>1, <1>2, <1>3, <1>4, <1>5, <1>6 DEF TaskStep

\* A step of the session.
LEMMA Keeps ==
    ASSUME IInv, [Next]_vars
    PROVE  IInv'
<1>1. CASE Send \/ RetryRequest \/ Crash
  BY <1>1, SendKeeps, RetryRequestKeeps, CrashKeeps
<1>2. CASE \E r \in DOMAIN reviews : Submit(r)
  BY <1>2, SubmitKeeps
<1>3. CASE \E t \in DOMAIN tasks : TaskStep(t) \/ Cancel(t)
  BY <1>3, TaskStepKeeps, CancelKeeps
<1>4. CASE UNCHANGED vars
  <2>1. /\ tasks' = tasks /\ gate' = gate /\ hist' = hist /\ marker' = marker /\ reviews' = reviews
        /\ crashes' = crashes /\ mixed' = mixed
    BY <1>4 DEF vars
  <2>2. Typed' /\ Queue'
    BY <2>1 DEF IInv, Typed, Queue, Ids
  <2>3. Bounds'
    BY <2>1 DEF IInv, Bounds, OneResume, TaskOK, Ids
  <2>4. Serial <=> Serial'
    <3>1. (One <=> One') /\ (Alone <=> Alone') /\ (Blocks <=> Blocks')
      BY <2>1 DEF One, Alone, Blocks, Ids, Newest, Runs, Live, Aside, Plain, ReviewOpen, Usable
    <3>2. (Pending <=> Pending') /\ (Replied <=> Replied') /\ (Follows <=> Follows')
      BY <2>1 DEF Pending, Waiting, Waits, LastCalls, Unanswered, Replied, Late, Follows, Ids, Unmatched, Misplaced
    <3>3. (\A t \in Ids : InHand(t)) <=> (\A t \in Ids : InHand(t))'
      BY <2>1 DEF InHand, Ids, Newest, Aside, Plain, Unanswered
    <3>4. Answers <=> Answers'
      BY <2>1 DEF Answers, OneAnswer, TurnAnswer, MarkerOpen
    <3> QED
      BY <3>1, <3>2, <3>3, <3>4 DEF Serial
  <2> QED
    BY <2>1, <2>2, <2>3, <2>4 DEF IInv
<1> QED
  BY <1>1, <1>2, <1>3, <1>4 DEF Next

\* The inductive invariant of the session's tasks.
THEOREM SessionInvariant == Spec => []IInv
<1>1. Init => IInv
  BY Starts
<1>2. IInv /\ [Next]_vars => IInv'
  BY Keeps
<1> QED
  BY <1>1, <1>2, PTL DEF Spec

\* The stored history follows the tool protocol at every moment, whatever tasks,
\* reviews, retries, restarts, cancellations and crashes there are: commit, close
\* and settle (Commit, Settle) put every reply right after its call, and leave no
\* call open but the last message's, of the open review, as long as no task
\* outside the gate ran alongside or after a later one.
THEOREM HistoryStaysSound == Spec => []HistorySound
<1>1. ASSUME IInv PROVE HistorySound
  <2>1. ASSUME NEW t \in DOMAIN tasks
        PROVE  /\ tasks[t].kind \in {"turn", "resume", "retry", "restart"}
               /\ tasks[t].ph \in {"requested", "claimed", "queued", "preparing", "running",
                                   "compacting", "finishing", "hook", "over"}
               /\ tasks[t].user \in 0..Len(hist)
               /\ tasks[t].review \in 0..Len(reviews)
               /\ tasks[t].restarts \in 0..Retries
    <3>1. tasks[t] \in Task /\ TaskOK(t) /\ Len(hist) \in Nat /\ Len(reviews) \in Nat
      BY <1>1 DEF IInv, Typed, Bounds, Ids
    <3> QED
      BY <3>1, TurnsAssumption DEF Task, TaskKinds, Phases, TaskOK
  <2>2. \A i \in DOMAIN gate : gate[i] \in DOMAIN tasks
    BY <1>1 DEF IInv, Bounds, Ids
  <2>3. \A i \in DOMAIN hist : hist[i].k \in {"user", "answer", "calls", "replies"}
    <3>1. \A i \in DOMAIN hist : hist[i] \in Message
      BY <1>1 DEF IInv, Typed
    <3> QED
      BY <3>1 DEF Message
  <2>4. marker.at \in 0..Len(hist) /\ marker.retryable \in BOOLEAN
    <3>1. marker.at \in Nat /\ marker.at <= Len(hist) /\ Len(hist) \in Nat /\ marker.retryable \in BOOLEAN
      BY <1>1 DEF IInv, Typed, Bounds
    <3> QED
      BY <3>1
  <2>5. \A r \in DOMAIN reviews :
           reviews[r].status \in {"pending", "resuming", "completed", "failed", "cancelled"}
    <3>1. \A r \in DOMAIN reviews : reviews[r] \in Review
      BY <1>1 DEF IInv, Typed
    <3> QED
      BY <3>1 DEF Review, Statuses
  <2>6. crashes \in 0..MaxCrashes /\ mixed \in BOOLEAN
    BY <1>1 DEF IInv, Typed
  <2>7. TypeOK
    BY <2>1, <2>2, <2>3, <2>4, <2>5, <2>6 DEF TypeOK
  <2>8. ~mixed => Follows
    BY <1>1 DEF IInv, Serial
  <2> QED
    BY <2>7, <2>8 DEF HistorySound, Follows
<1> QED
  BY <1>1, SessionInvariant, PTL

\* Under the same proviso a stored request gets at most one answer, a turn answers
\* the newest request, and no answer is stored after the message that the failure
\* marker (_record_latest_turn_failure) offers to retry.
THEOREM AnsweredAtMostOnce == Spec => []AnsweredOnce
<1>1. ASSUME IInv PROVE AnsweredOnce
  <2>1. ~mixed => Answers
    BY <1>1 DEF IInv, Serial
  <2> QED
    BY <2>1 DEF AnsweredOnce, Answers, OneAnswer, TurnAnswer, MarkerOpen
<1> QED
  BY <1>1, SessionInvariant, PTL

-----------------------------------------------------------------------------
(***************************************************************************)
(* Automatic recovery.                                                     *)
(*                                                                         *)
(* NoRepeatedEffect counts effects; the coordinator sees only the ledger.  *)
(* What ties the two is where a call that may not be repeated stands when  *)
(* its effect is there: its reply is in the history the next attempt       *)
(* starts from, or the current run's ledger shows it as failed or as       *)
(* started and hit (Passed), which is what decide refuses to retry.        *)
(***************************************************************************)

CallStatuses == {"none", "started", "completed", "failed"}
Entries == [ToolCalls -> CallStatuses]

RecoveryTyped ==
    /\ plan \in Seq(Policies)
    /\ ledger \in Seq(Entries)
    /\ Len(ledger) > 0
    /\ at \in 0..Len(plan)
    /\ taken \in [ToolCalls -> Nat]
    /\ undone \in [ToolCalls -> Nat]
    /\ mine \in [ToolCalls -> Nat]
    /\ hit \in BOOLEAN
    /\ attempt \in 1..MaxAttempts
    /\ restarts \in 0..MaxRetries
    /\ ph \in {"running", "deciding", "rollback", "over"}

\* The run in hand cannot take the effect of call i (again).
Passed(i) ==
    \/ i <= at
    \/ /\ i = at + 1
       /\ \/ ledger[Run][i] = "failed"
          \/ ledger[Run][i] = "started" /\ hit

\* An external effect happened at most once, some run's ledger shows its call,
\* and the run is past it.
ExternalOnce ==
    \A i \in ToolCalls : plan[i] \in External =>
        /\ taken[i] <= 1
        /\ taken[i] = 1 => /\ \E k \in DOMAIN ledger : ledger[k][i] # "none"
                           /\ ph = "over" \/ Passed(i)

\* Every vault effect was undone but the one of the task in hand.
VaultOnce ==
    \A i \in ToolCalls : plan[i] = "vault_transactional" =>
        /\ mine[i] <= 1
        /\ mine[i] = 1 => ph = "over" \/ Passed(i)
        /\ \/ taken[i] = undone[i] + mine[i]
           \/ ph = "over" /\ taken[i] = undone[i]

\* The failure hook was entered by a decision that still holds.
RestartJustified == ph = "rollback" => ~WholeTurnRestartRefusal /\ restarts < MaxRetries

RecoveryInv == RecoveryTyped /\ ExternalOnce /\ VaultOnce /\ RestartJustified

-----------------------------------------------------------------------------

\* decide lets no attempt follow one whose ledger shows a call that may not be
\* repeated as failed or unresolved.
LEMMA RetryIsSafe ==
    ASSUME RecoveryTyped, NEW sound \in BOOLEAN, NEW snapshot \in BOOLEAN, CanRetry(sound, snapshot),
           NEW i \in ToolCalls, plan[i] \in External \cup {"vault_transactional"}
    PROVE  ledger[Run][i] \notin {"failed", "started"}
<1>1. plan # <<>>
  BY DEF ToolCalls, RecoveryTyped
<1>2. Decide(sound, snapshot) \in {"replay_no_effect", "resume_snapshot"}
  BY <1>1 DEF CanRetry
<1> DEFINE failed == WithStatus(Run, "failed")
           unresolved == WithStatus(Run, "started")
<1>3. ~Some(failed, External) /\ ~Some(unresolved, External)
  BY <1>2 DEF Decide
<1>4. ~Some(failed \cup unresolved, {"vault_transactional"})
  BY <1>2, <1>3 DEF Decide
<1>5. QED
  BY <1>3, <1>4 DEF Some, WithStatus

\* A restart of the whole turn is decided only when no run of the task made an
\* external call, and within the budget.
LEMMA RestartIsSafe ==
    ASSUME NEW sound \in BOOLEAN, NEW snapshot \in BOOLEAN, CanRestart(sound, snapshot)
    PROVE  ~WholeTurnRestartRefusal /\ restarts < MaxRetries
<1>1. Decide(sound, snapshot) = "terminal_rollback_restart"
  BY DEF CanRestart
<1>2. ~WholeTurnRestartRefusal
  BY <1>1 DEF Decide
<1>3. QED
  BY <1>2 DEF CanRestart

\* The invariant holds in the initial states.
LEMMA RecoveryStarts == RecoveryInit => RecoveryInv
<1> SUFFICES ASSUME RecoveryInit PROVE RecoveryInv
  OBVIOUS
<1>1. PICK n \in 0..MaxCalls : plan \in [1..n -> Policies]
  BY DEF RecoveryInit
<1>2. plan \in Seq(Policies) /\ Len(plan) \in Nat
  BY <1>1, RecoveryAssumption
<1>3. ledger \in Seq(Entries) /\ Len(ledger) = 1
  BY DEF RecoveryInit, Entries, CallStatuses, ToolCalls
<1>4. taken \in [ToolCalls -> Nat] /\ undone \in [ToolCalls -> Nat] /\ mine \in [ToolCalls -> Nat]
  BY DEF RecoveryInit, ToolCalls
<1>5. at = 0 /\ hit \in BOOLEAN /\ attempt = 1 /\ restarts = 0 /\ ph = "running"
  BY Zenon DEF RecoveryInit
<1>6. RecoveryTyped
  BY <1>2, <1>3, <1>4, <1>5, RecoveryAssumption DEF RecoveryTyped
<1>7. ExternalOnce /\ VaultOnce /\ RestartJustified
  BY DEF RecoveryInit, ToolCalls, ExternalOnce, VaultOnce, RestartJustified
<1>8. QED
  BY <1>6, <1>7 DEF RecoveryInv

\* What a step that keeps the ledger and the effects does to the invariant: the
\* run in hand is where it was.
LEMMA SameRun ==
    ASSUME RecoveryInv, UNCHANGED <<plan, ledger, at, taken, undone, mine, hit, attempt, restarts>>,
           ph' \in {"running", "deciding", "rollback", "over"},
           ph # "over",
           ph' = "rollback" => ~WholeTurnRestartRefusal /\ restarts < MaxRetries
    PROVE  RecoveryInv'
<1> USE DEF RecoveryInv, ToolCalls, Run
<1>1. RecoveryTyped'
  BY DEF RecoveryTyped, Entries
<1>2. ExternalOnce' /\ VaultOnce'
  BY DEF ExternalOnce, VaultOnce, Passed
<1>3. RestartJustified'
  BY DEF RestartJustified, WholeTurnRestartRefusal, Some
<1>4. QED
  BY <1>1, <1>2, <1>3

\* Every step of a run keeps the invariant.
LEMMA RunStepIInv == ASSUME RecoveryInv, RunStep PROVE RecoveryInv'
<1> USE DEF RecoveryInv
<1>0. ph # "over" /\ ph # "rollback" /\ ph # "deciding" /\ ToolCalls = 1..Len(plan) /\ Run \in DOMAIN ledger
  BY DEF RunStep, StartCall, TakeEffect, CallReturns, CallFails, RunFails, Ends, Running, RecoveryTyped, ToolCalls, Run
<1>1. ASSUME NEW i \in ToolCalls, StartCall(i) PROVE RecoveryInv'
  <2>1. /\ i = at + 1 /\ ledger[Run][i] = "none" /\ ToolCalls' = ToolCalls /\ Run' = Run
        /\ ledger' \in Seq(Entries) /\ Len(ledger') = Len(ledger)
        /\ \A k \in DOMAIN ledger, j \in ToolCalls :
              ledger'[k][j] = IF k = Run /\ j = i THEN "started" ELSE ledger[k][j]
    BY <1>0, <1>1, SMTT(30) DEF StartCall, Running, RecoveryTyped, Entries, CallStatuses, ToolCalls, Run
  <2>2. RecoveryTyped'
    BY <1>1, <2>1 DEF StartCall, RecoveryTyped, Entries, ToolCalls
  <2>3. \A j \in ToolCalls : Passed(j) => Passed(j)'
    BY <1>0, <1>1, <2>1 DEF StartCall, Passed, RecoveryTyped, ToolCalls
  <2>4. ExternalOnce' /\ VaultOnce'
    BY <1>0, <1>1, <2>1, <2>3 DEF StartCall, ExternalOnce, VaultOnce
  <2>5. QED
    BY <1>0, <1>1, <2>2, <2>4 DEF StartCall, RestartJustified
<1>2. ASSUME NEW i \in ToolCalls, TakeEffect(i) PROVE RecoveryInv'
  <2>1. i = at + 1 /\ ledger[Run][i] = "started" /\ ~hit /\ hit' /\ ToolCalls' = ToolCalls /\ Run' = Run
    BY <1>2 DEF TakeEffect, Running, ToolCalls, Run
  <2>2. RecoveryTyped'
    BY <1>2, <2>1, SMTT(30) DEF TakeEffect, RecoveryTyped, Entries, ToolCalls
  <2>3. ~Passed(i) /\ Passed(i)' /\ \A j \in ToolCalls : Passed(j) => Passed(j)'
    BY <1>2, <2>1 DEF TakeEffect, Passed, RecoveryTyped, ToolCalls
  <2>4. ExternalOnce'
    <3>1. /\ \A j \in ToolCalls : j # i => taken'[j] = taken[j]
          /\ taken'[i] = taken[i] + 1
          /\ plan' = plan /\ ledger' = ledger /\ ph' = ph
      BY <1>2 DEF TakeEffect, RecoveryTyped
    <3>2. taken[i] \in Nat
      BY DEF RecoveryTyped
    <3>3. plan[i] \in External => taken[i] = 0
      BY <1>0, <2>3, <3>2 DEF ExternalOnce
    <3>4. plan[i] \in External => taken'[i] = 1 /\ ledger[Run][i] # "none"
      BY <2>1, <3>1, <3>3
    <3>5. QED
      BY <1>0, <2>1, <2>3, <3>1, <3>4 DEF ExternalOnce
  <2>5. VaultOnce'
    <3>1. \A j \in ToolCalls : j # i => taken'[j] = taken[j] /\ mine'[j] = mine[j]
      BY <1>2 DEF TakeEffect, RecoveryTyped
    <3>2. plan[i] = "vault_transactional" => mine[i] = 0 /\ taken[i] = undone[i] + mine[i]
      <4>1. mine[i] \in Nat
        BY DEF RecoveryTyped
      <4>2. QED
        BY <1>0, <2>3, <4>1 DEF VaultOnce
    <3>3. taken'[i] = taken[i] + 1 /\ mine'[i] = mine[i] + 1 /\ undone' = undone /\ plan' = plan
      BY <1>2 DEF TakeEffect, RecoveryTyped
    <3>4. taken[i] \in Nat /\ undone[i] \in Nat
      BY DEF RecoveryTyped
    <3>5. ph' = ph
      BY <1>2 DEF TakeEffect
    <3>6. QED
      BY <1>0, <2>1, <2>3, <3>1, <3>2, <3>3, <3>4, <3>5 DEF VaultOnce
  <2>6. QED
    BY <1>0, <1>2, <2>2, <2>4, <2>5 DEF TakeEffect, RestartJustified
<1>3. ASSUME NEW i \in ToolCalls, NEW status \in CallStatuses \ {"none", "started"},
             Running(i), ledger[Run][i] = "started",
             ledger' = [ledger EXCEPT ![Run][i] = status],
             at' \in {at, i}, at' = at => status = "failed", ph' \in {"running", "deciding"},
             UNCHANGED <<plan, taken, undone, mine, hit, attempt, restarts>>
      PROVE  RecoveryInv'
  <2>1. /\ i = at + 1 /\ ToolCalls' = ToolCalls /\ Run' = Run
        /\ ledger' \in Seq(Entries) /\ Len(ledger') = Len(ledger)
        /\ \A k \in DOMAIN ledger, j \in ToolCalls :
              ledger'[k][j] = IF k = Run /\ j = i THEN status ELSE ledger[k][j]
    BY <1>0, <1>3, SMTT(30) DEF Running, RecoveryTyped, Entries, CallStatuses, ToolCalls, Run
  <2>2. RecoveryTyped'
    BY <1>0, <1>3, <2>1 DEF RecoveryTyped, Entries
  <2>3. \A j \in ToolCalls : Passed(j) => Passed(j)'
    BY <1>0, <1>3, <2>1, SMTT(30) DEF Passed, RecoveryTyped
  <2>4. ExternalOnce' /\ VaultOnce'
    BY <1>0, <1>3, <2>1, <2>3 DEF ExternalOnce, VaultOnce, CallStatuses
  <2>5. QED
    BY <1>3, <2>2, <2>4 DEF RestartJustified
<1>4. ASSUME NEW i \in ToolCalls, CallReturns(i) PROVE RecoveryInv'
  <2>1. at' # at /\ at' = i /\ "completed" \in CallStatuses \ {"none", "started"}
    BY <1>4 DEF CallReturns, Running, CallStatuses, RecoveryTyped
  <2>2. QED
    BY <1>0, <1>3, <1>4, <2>1 DEF CallReturns, Running
<1>5. ASSUME NEW i \in ToolCalls, CallFails(i) PROVE RecoveryInv'
  BY <1>0, <1>3, <1>5 DEF CallFails, Running, CallStatuses
<1>6. CASE RunFails \/ Ends
  BY <1>0, <1>6, SameRun DEF RunFails, Ends
<1>7. QED
  BY <1>1, <1>2, <1>4, <1>5, <1>6 DEF RunStep

\* A new run, whether of the same task or of its replacement, starts with a blank
\* page of the ledger.
LEMMA NewPage ==
    ASSUME RecoveryTyped, ledger' = Append(ledger, Blank), plan' = plan
    PROVE  /\ ledger' \in Seq(Entries) /\ Len(ledger') = Len(ledger) + 1 /\ Run' = Run + 1
           /\ \A k \in DOMAIN ledger : k \in DOMAIN ledger' /\ ledger'[k] = ledger[k]
           /\ \A i \in ToolCalls : ledger'[Run'][i] = "none"
<1>1. Blank \in Entries
  BY DEF Blank, Entries, CallStatuses
<1>2. QED
  BY <1>1 DEF RecoveryTyped, Run, Blank

\* Every decision and its consequences keep the invariant.
LEMMA RecoverIInv == ASSUME RecoveryInv, Recover \/ CancelTurn PROVE RecoveryInv'
<1> USE DEF RecoveryInv
<1>1. ASSUME NEW sound \in BOOLEAN, NEW snapshot \in BOOLEAN, Retry(sound, snapshot)
      PROVE  RecoveryInv'
  <2>1. CanRetry(sound, snapshot) /\ ToolCalls' = ToolCalls
    BY <1>1 DEF Retry, ToolCalls
  <2>2. \A i \in ToolCalls : plan[i] \in External \cup {"vault_transactional"} =>
           ledger[Run][i] \notin {"failed", "started"}
    BY <2>1, RetryIsSafe
  <2>3. \A i \in ToolCalls : plan[i] \in External \cup {"vault_transactional"} /\ Passed(i) => i <= at
    BY <2>2 DEF Passed
  <2>4. RecoveryTyped'
    BY <1>1, <2>1, NewPage, RecoveryAssumption DEF Retry, CanRetry, RecoveryTyped, Entries
  <2>5. ExternalOnce'
    BY <1>1, <2>1, <2>3, NewPage DEF Retry, ExternalOnce, Passed
  <2>6. VaultOnce'
    BY <1>1, <2>1, <2>3 DEF Retry, VaultOnce, Passed
  <2>7. QED
    BY <1>1, <2>4, <2>5, <2>6 DEF Retry, RestartJustified
<1>2. ASSUME NEW sound \in BOOLEAN, NEW snapshot \in BOOLEAN, RollbackRestart(sound, snapshot)
      PROVE  RecoveryInv'
  BY <1>2, RestartIsSafe, SameRun DEF RollbackRestart
<1>3. ASSUME NEW sound \in BOOLEAN, NEW snapshot \in BOOLEAN, Rejected(sound, snapshot)
      PROVE  RecoveryInv'
  BY <1>3, SameRun DEF Rejected
<1>4. CASE Replace
  <2>1. ToolCalls' = ToolCalls /\ ph = "rollback"
    BY <1>4 DEF Replace, ToolCalls
  <2>2. \A i \in ToolCalls : plan[i] \in External => taken[i] = 0
    <3> SUFFICES ASSUME NEW i \in ToolCalls, plan[i] \in External, taken[i] = 1
                 PROVE  FALSE
      BY DEF ExternalOnce, RecoveryTyped
    <3>1. PICK k \in DOMAIN ledger : ledger[k][i] # "none"
      BY DEF ExternalOnce
    <3>2. QED
      BY <2>1, <3>1 DEF RestartJustified, WholeTurnRestartRefusal, Some
  <2>3. RolledBack \in [ToolCalls -> Nat] /\ Zero \in [ToolCalls -> Nat]
    BY DEF RolledBack, Zero, RecoveryTyped
  <2>4. RecoveryTyped'
    BY <1>4, <2>1, <2>3, NewPage, RecoveryAssumption DEF Replace, RecoveryTyped, Entries, RestartJustified
  <2>5. ExternalOnce'
    BY <1>4, <2>1, <2>2 DEF Replace, ExternalOnce
  <2>6. VaultOnce'
    BY <1>4, <2>1 DEF Replace, VaultOnce, RolledBack, Zero, RecoveryTyped
  <2>7. QED
    BY <1>4, <2>4, <2>5, <2>6 DEF Replace, RestartJustified
<1>5. CASE Abandon
  <2>1. ToolCalls' = ToolCalls /\ ph = "rollback" /\ ph' = "over"
    BY <1>5 DEF Abandon, ToolCalls
  <2>2. RolledBack \in [ToolCalls -> Nat]
    BY DEF RolledBack, RecoveryTyped
  <2>3. RecoveryTyped'
    BY <1>5, <2>1, <2>2 DEF Abandon, RecoveryTyped, Entries
  <2>4. ExternalOnce'
    BY <1>5, <2>1 DEF Abandon, ExternalOnce
  <2>5. VaultOnce'
    BY <1>5, <2>1 DEF Abandon, VaultOnce, RolledBack
  <2>6. QED
    BY <2>1, <2>3, <2>4, <2>5 DEF RestartJustified
<1>6. CASE CancelTurn
  BY <1>6, SameRun DEF CancelTurn
<1>7. QED
  BY <1>1, <1>2, <1>3, <1>4, <1>5, <1>6 DEF Recover

\* However a turn is retried, resumed, rolled back and restarted by itself, an
\* external effect happens at most once and a vault effect that happened before
\* was undone before it happens again.
THEOREM EffectsHappenOnce == RecoverySpec => []NoRepeatedEffect
<1>1. RecoveryInv /\ [RecoveryNext]_recoveryVars => RecoveryInv'
  <2> SUFFICES ASSUME RecoveryInv, [RecoveryNext]_recoveryVars PROVE RecoveryInv'
    OBVIOUS
  <2>1. CASE UNCHANGED recoveryVars
    BY <2>1 DEF RecoveryInv, RecoveryTyped, ExternalOnce, VaultOnce, RestartJustified, Passed, Entries, ToolCalls,
                Run, WholeTurnRestartRefusal, Some, recoveryVars
  <2>2. QED
    BY <2>1, RunStepIInv, RecoverIInv DEF RecoveryNext
<1>2. RecoveryInv => NoRepeatedEffect
  <2> SUFFICES ASSUME RecoveryInv PROVE NoRepeatedEffect
    OBVIOUS
  <2>1. RecoveryTypeOK
    BY DEF RecoveryInv, RecoveryTyped, RecoveryTypeOK, Entries, CallStatuses
  <2>2. ASSUME NEW i \in ToolCalls PROVE /\ plan[i] \in External => taken[i] <= 1
                                         /\ plan[i] = "vault_transactional" => taken[i] - undone[i] <= 1
    BY <2>2 DEF RecoveryInv, RecoveryTyped, ExternalOnce, VaultOnce
  <2>3. QED
    BY <2>1, <2>2 DEF NoRepeatedEffect
<1>3. QED
  BY RecoveryStarts, <1>1, <1>2, PTL DEF RecoverySpec

=============================================================================
