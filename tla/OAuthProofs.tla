------------------------------ MODULE OAuthProofs ------------------------------
(***************************************************************************)
(* Proofs about OAuthConnections: that no answer that arrives late makes a *)
(* revoked grant usable, and that a refresh only ever replaces tokens of   *)
(* the authorization it refreshed.                                         *)
(*                                                                         *)
(* FailClosed speaks of the stored grant alone.  It is kept because of     *)
(* what every call under way has captured: as long as the binding it holds *)
(* is the one the row resolves to, the connection has not changed since    *)
(* its authorization started (Captured).                                   *)
(***************************************************************************)
EXTENDS OAuthConnections, TLAPS, FiniteSetTheorems

Ops == {"idle", "prime", "waiting", "exchange", "client", "refresh"}
Bindings == [gen : 1..(MaxChanges + 1), id : 0..ids]
Grants == [bound : Bindings, attempt : Attempts, id : 1..ids]
Calls == [op : Ops, task : BOOLEAN, bound : Bindings \cup {None},
          attempt : 0..MaxAttempts, base : Grants \cup {None}]

\* The counters, and the records of the row and of the calls under way.
Counted ==
    /\ ids \in Nat
    /\ changes \in Nat
    /\ gen \in Nat
    /\ gen >= 1
    /\ kind = "google" => changes <= MaxChanges /\ gen <= changes + 1
    /\ kind = "mcp" => gen = 1
    /\ kind = "google" => cut = {}

Typed ==
    /\ kind \in Kinds
    /\ live \in BOOLEAN
    /\ binding \in Bindings \cup {None}
    /\ pending # None => pending \in [attempt : Attempts, bound : Bindings]
    /\ grant # None => grant \in Grants
    /\ attempt \in 0..MaxAttempts
    /\ cut \subseteq {"start", "disconnect"}
    /\ flight \in [Requests -> Calls]
    /\ \A r \in Requests :
          flight[r].op # "idle" => flight[r].bound \in Bindings /\ flight[r].attempt \in Attempts

\* The attempts that started are the first ones, each at its own change (MCP).
Numbered ==
    /\ begun \in [Attempts -> Nat]
    /\ \A a \in Attempts : begun[a] <= changes + 1
    /\ \E n \in 0..MaxAttempts : \A a \in Attempts : begun[a] > 0 <=> a <= n
    /\ "start" \in cut => \E a \in Attempts : begun[a] = 0
    /\ kind = "mcp" => \A a, b \in Attempts : begun[a] = begun[b] /\ begun[a] > 0 => a = b

\* Whatever is stored is bound to what the row resolves to, and authorized since
\* the last change.
Stored ==
    /\ pending # None => /\ pending.bound = Resolved
                         /\ begun[pending.attempt] = changes + 1
    /\ grant # None => /\ grant.bound = Resolved
                       /\ begun[grant.attempt] = changes + 1

\* So is whatever a call under way may still store.
Captured ==
    \A r \in Requests : flight[r].op # "idle" =>
        /\ begun[flight[r].attempt] > 0
        /\ flight[r].bound = Resolved => begun[flight[r].attempt] = changes + 1

\* A refresh knows the authorization whose tokens are stored.
KnowsGrant(f) ==
    /\ kind = "google" /\ f.op = "refresh" => f.base # None /\ f.base.attempt = f.attempt
    /\ kind = "google" => f.op # "client"
    /\ kind = "mcp" /\ f.op \in {"client", "refresh"} /\ f.bound = Resolved =>
          grant # None /\ grant.attempt = f.attempt

Refreshing == \A r \in Requests : KnowsGrant(flight[r])

IInv == Counted /\ Typed /\ Numbered /\ Stored /\ Captured /\ Refreshing

-----------------------------------------------------------------------------

\* Started counts the attempts, which are the first ones: the next number is new.
LEMMA StartedIsLast ==
    ASSUME Numbered
    PROVE  /\ Started \in 0..MaxAttempts
           /\ \A a \in Attempts : begun[a] > 0 <=> a <= Started
<1>1. PICK n \in 0..MaxAttempts : \A a \in Attempts : begun[a] > 0 <=> a <= n
  BY DEF Numbered
<1>2. {a \in Attempts : begun[a] > 0} = 1..n
  BY <1>1, ConnectionAssumption DEF Attempts
<1>3. Cardinality(1..n) = n
  BY <1>1, FS_Interval, ConnectionAssumption
<1>4. Started = n
  BY <1>2, <1>3 DEF Started
<1>5. QED
  BY <1>1, <1>4

\* The invariant holds in the initial states.
LEMMA InitIInv == Init => IInv
<1> SUFFICES ASSUME Init PROVE IInv
  OBVIOUS
<1> USE ConnectionAssumption DEF Init
<1>1. Counted
  BY DEF Counted
<1>2. Typed
  BY DEF Typed, Bindings, Grants, Calls, Ops, Call, Idle
<1>3. Numbered
  BY DEF Numbered, Attempts
<1>4. Stored /\ Captured /\ Refreshing
  BY DEF Stored, Captured, Refreshing, KnowsGrant, Call, Idle
<1>5. QED
  BY <1>1, <1>2, <1>3, <1>4 DEF IInv

\* What a change of the connection does to what is stored and to what the calls
\* under way hold: the row resolves to nothing, or to an identity nobody has.
LEMMA AfterChange ==
    ASSUME IInv, NEW b \in {None, Fresh}, Change(b), live' \in BOOLEAN,
           kind' = kind, begun' = begun, flight' = flight, cut' \in SUBSET cut,
           attempt' = attempt,
           \/ gen' = gen
           \/ kind = "google" /\ gen' = gen + 1 /\ b = None,
           kind = "google" => changes < MaxChanges
    PROVE  IInv'
<1> USE ConnectionAssumption DEF IInv, Change, Fresh
<1>1. Counted'
  BY DEF Counted
<1>2. ids <= ids' /\ b \in Bindings' \cup {None}
  <2> USE DEF Counted
  <2>1. ids \in Nat /\ ids' = ids + 1 /\ MaxChanges \in Nat
    OBVIOUS
  <2>2. gen \in 1..(MaxChanges + 1)
    <3>1. CASE kind = "google"
      BY <3>1
    <3>2. CASE kind = "mcp"
      BY <3>2, <2>1
    <3>3. kind \in {"google", "mcp"}
      BY DEF Typed
    <3>4. QED
      BY <3>1, <3>2, <3>3
  <2>3. ids + 1 \in 0..ids'
    BY <2>1
  <2>4. Fresh \in Bindings'
    BY <2>2, <2>3 DEF Bindings
  <2>5. QED
    BY <2>1, <2>4
<1>3. Bindings \subseteq Bindings' /\ Grants \subseteq Grants'
  BY <1>2 DEF Bindings, Grants, Counted
<1>4. Typed'
  BY <1>2, <1>3 DEF Typed, Calls
<1>5. Numbered'
  BY DEF Numbered, Counted
<1>6. \A r \in Requests : flight[r].op # "idle" => flight[r].bound # Resolved'
  BY DEF Resolved, Typed, Bindings, Counted
<1>7. Stored' /\ Captured' /\ Refreshing'
  BY <1>6 DEF Stored, Captured, Refreshing, KnowsGrant
<1>8. QED
  BY <1>1, <1>4, <1>5, <1>7

\* A step that keeps the row, its changes and the numbering keeps what they say.
LEMMA SameConnection ==
    ASSUME IInv,
           UNCHANGED <<kind, live, gen, binding, begun, changes>>,
           cut' \in SUBSET cut,
           ids' \in Nat, ids <= ids'
    PROVE  /\ Counted' /\ Numbered'
           /\ Resolved' = Resolved
           /\ Bindings \subseteq Bindings'
           /\ Grants \subseteq Grants'
           /\ binding' \in Bindings' \cup {None}
<1> USE DEF IInv, Counted
<1>1. Counted' /\ Numbered'
  BY DEF Numbered
<1>2. Resolved' = Resolved
  BY DEF Resolved
<1>3. Bindings \subseteq Bindings' /\ Grants \subseteq Grants'
  BY DEF Bindings, Grants
<1>4. QED
  BY <1>1, <1>2, <1>3 DEF Typed

\* A call that sets out with the binding the row resolves to, for an attempt
\* authorized since the last change, keeps the invariant.
LEMMA Launched ==
    ASSUME IInv,
           UNCHANGED <<kind, live, gen, binding, grant, attempt, cut, ids, begun, changes>>,
           pending' \in {pending, None},
           NEW r \in Requests, NEW f \in Calls, flight' = [flight EXCEPT ![r] = f],
           Resolved # None, f.bound = Resolved,
           f.attempt \in Attempts, begun[f.attempt] = changes + 1,
           KnowsGrant(f)
    PROVE  IInv'
<1> USE ConnectionAssumption DEF IInv
<1>1. /\ Counted' /\ Numbered' /\ Resolved' = Resolved
      /\ Bindings' = Bindings /\ Grants' = Grants /\ Calls' = Calls
  BY SameConnection DEF Counted, Bindings, Grants, Calls
<1>2. Resolved \in Bindings
  BY DEF Resolved, Typed
<1>3. Typed'
  BY <1>1, <1>2 DEF Typed
<1>4. Stored'
  BY <1>1 DEF Stored
<1>5. Captured'
  BY <1>1 DEF Captured, Typed, Counted
<1>6. Refreshing'
  BY <1>1 DEF Refreshing, KnowsGrant, Typed
<1>7. QED
  BY <1>1, <1>3, <1>4, <1>5, <1>6

\* A call that ends, with or without an answer, keeps what the others hold.
LEMMA EndedKeeps ==
    ASSUME IInv, NEW r \in Requests, Ended(r),
           UNCHANGED <<kind, live, gen, binding, cut, begun, changes>>,
           ids' \in Nat, ids <= ids'
    PROVE  /\ Captured'
           /\ flight' \in [Requests -> Calls']
           /\ \A x \in Requests : flight'[x].op # "idle" =>
                 flight'[x].bound \in Bindings' /\ flight'[x].attempt \in Attempts
           /\ attempt' \in 0..MaxAttempts
<1> USE ConnectionAssumption DEF IInv, Ended
<1>1. /\ Resolved' = Resolved /\ Bindings \subseteq Bindings'
      /\ Calls \subseteq Calls'
  BY SameConnection DEF Calls
<1>2. Idle \in Calls'
  BY DEF Call, Idle, Ops, Calls
<1>3. Idle.op = "idle"
  BY DEF Call, Idle
<1>4. Captured'
  BY <1>1, <1>3 DEF Captured, Typed
<1>5. QED
  BY <1>1, <1>2, <1>3, <1>4 DEF Typed

\* Every action keeps the invariant.
LEMMA NextIInv == ASSUME IInv, [Next]_vars PROVE IInv'
<1> USE ConnectionAssumption DEF IInv, store, process
<1>1. ASSUME SetSecret
      PROVE  IInv'
  BY <1>1, AfterChange DEF SetSecret, Change, Counted, Typed
<1>2. ASSUME ClientChanged
      PROVE  IInv'
  BY <1>2, AfterChange DEF ClientChanged, Change, Counted, Typed
<1>3. ASSUME DisconnectGoogle
      PROVE  IInv'
  BY <1>3, AfterChange DEF DisconnectGoogle, Change, Counted, Typed
<1>4. ASSUME DeleteConnection
      PROVE  IInv'
  BY <1>4, AfterChange DEF DeleteConnection, Change, Counted, Typed
<1>5. ASSUME DisconnectMcp
      PROVE  IInv'
  BY <1>5, AfterChange DEF DisconnectMcp, Change, Counted, Typed
<1>6. ASSUME StartGoogle
      PROVE  IInv'
  <2> DEFINE a == Started + 1
  <2>1. a \in Attempts /\ begun[a] = 0
    BY <1>6, StartedIsLast DEF StartGoogle, Numbered, Attempts
  <2>2. Counted' /\ Resolved' = Resolved /\ Bindings' = Bindings /\ Grants' = Grants /\ Calls' = Calls
    BY <1>6 DEF StartGoogle, Counted, Resolved, Bindings, Grants, Calls
  <2>3. pending' = [attempt |-> a, bound |-> Resolved] /\ Resolved \in Bindings
    BY <1>6 DEF StartGoogle, Resolved, Typed
  <2>4. begun' = [begun EXCEPT ![a] = changes + 1]
    BY <1>6 DEF StartGoogle
  <2>5. Typed'
    BY <1>6, <2>1, <2>2, <2>3 DEF StartGoogle, Typed
  <2>6. Numbered'
    <3>1. Started \in 0..MaxAttempts /\ \A b \in Attempts : begun[b] > 0 <=> b <= Started
      BY StartedIsLast
    <3>2. \A b \in Attempts : begun'[b] > 0 <=> b <= a
      BY <2>1, <2>4, <3>1 DEF Numbered, Attempts, Counted
    <3>3. a \in 0..MaxAttempts
      BY <2>1 DEF Attempts
    <3>4. QED
      BY <1>6, <2>1, <2>4, <3>2, <3>3 DEF StartGoogle, Numbered, Counted
  <2>7. Stored'
    BY <1>6, <2>1, <2>2, <2>3, <2>4 DEF StartGoogle, Stored, Typed, Numbered, Counted, Grants
  <2>8. Captured'
    BY <1>6, <2>1, <2>2, <2>4 DEF StartGoogle, Captured, Typed, Numbered, Counted
  <2>9. Refreshing'
    BY <1>6, <2>2 DEF StartGoogle, Refreshing, KnowsGrant
  <2>10. QED
    BY <2>2, <2>5, <2>6, <2>7, <2>8, <2>9
<1>7. ASSUME NEW r \in Requests, StartMcp(r)
      PROVE  IInv'
  <2> DEFINE a == Started + 1
  <2>0. kind = "mcp" /\ live
    BY <1>7 DEF StartMcp, Change, Counted, Typed
  <2>1. a \in Attempts /\ begun[a] = 0
    BY <1>7, StartedIsLast DEF StartMcp, Numbered, Attempts
  <2>2. Counted' /\ ids' = ids + 1 /\ changes' = changes + 1
    BY <1>7 DEF StartMcp, Change, Counted
  <2>3. Fresh \in Bindings' /\ Bindings \subseteq Bindings' /\ Grants \subseteq Grants'
    BY <2>0, <2>2 DEF Fresh, Bindings, Grants, Counted
  <2>4. Resolved' = Fresh
    BY <1>7, <2>3 DEF StartMcp, Change, Resolved, Fresh, Bindings, Counted
  <2>5. /\ begun' = [begun EXCEPT ![a] = changes' + 1]
        /\ flight' = [flight EXCEPT ![r] = Call("prime", TRUE, Fresh, a, None)]
    BY <1>7, <2>2 DEF StartMcp, Counted
  <2>6. Typed'
    <3>1. Call("prime", TRUE, Fresh, a, None) \in Calls' /\ Calls \subseteq Calls'
      BY <2>1, <2>3 DEF Call, Calls, Ops, Attempts
    <3>2. QED
      BY <1>7, <2>0, <2>1, <2>3, <2>5, <3>1 DEF StartMcp, Change, Call, Typed, Attempts
  <2>7. Numbered'
    <3>1. Started \in 0..MaxAttempts /\ \A b \in Attempts : begun[b] > 0 <=> b <= Started
      BY StartedIsLast
    <3>2. \A b \in Attempts : begun'[b] > 0 <=> b <= a
      BY <2>1, <2>2, <2>5, <3>1, SMTT(30) DEF Numbered, Attempts, Counted
    <3>3. a \in 0..MaxAttempts
      BY <2>1 DEF Attempts
    <3>4. \A b, c \in Attempts : begun'[b] = begun'[c] /\ begun'[b] > 0 => b = c
      BY <2>0, <2>1, <2>2, <2>5 DEF Numbered, Counted
    <3>5. QED
      BY <1>7, <2>1, <2>2, <2>5, <3>2, <3>3, <3>4 DEF StartMcp, Typed, Numbered, Counted
  <2>8. Stored'
    BY <1>7 DEF StartMcp, Change, Stored
  <2>9. \A x \in Requests : x # r /\ flight[x].op # "idle" => flight[x].bound # Resolved'
    BY <2>4 DEF Fresh, Typed, Bindings, Counted
  <2>10. Captured'
    BY <2>1, <2>2, <2>5, <2>9 DEF Call, Captured, Typed, Numbered, Counted
  <2>11. Refreshing'
    BY <1>7, <2>0, <2>5, <2>9 DEF Call, StartMcp, Refreshing, KnowsGrant, Typed
  <2>12. QED
    BY <2>2, <2>6, <2>7, <2>8, <2>10, <2>11
<1>8. ASSUME NEW call \in {"start", "disconnect"}, CancelAttempt(call)
      PROVE  IInv'
  <2>1. Resolved' = Resolved /\ Bindings' = Bindings /\ Grants' = Grants /\ Calls' = Calls
    BY <1>8 DEF CancelAttempt, Resolved, Bindings, Grants, Calls
  <2>2. Counted'
    BY <1>8 DEF CancelAttempt, Counted
  <2>3. \A x \in Requests : flight'[x] = Idle \/ flight'[x] = flight[x]
    BY <1>8 DEF CancelAttempt, WithoutTask
  <2>4. Idle \in Calls
    BY DEF Call, Idle, Ops, Calls
  <2>5. Idle.op = "idle"
    BY DEF Call, Idle
  <2>6. Typed'
    BY <1>8, <2>1, <2>3, <2>4, <2>5 DEF CancelAttempt, WithoutTask, Typed
  <2>7. Numbered'
    <3>1. call = "start" => Started + 1 \in Attempts /\ begun[Started + 1] = 0
      BY <1>8, StartedIsLast DEF CancelAttempt, Numbered, Attempts
    <3>2. QED
      BY <1>8, <3>1 DEF CancelAttempt, Numbered
  <2>8. Stored' /\ Captured' /\ Refreshing'
    BY <1>8, <2>1, <2>3, <2>5 DEF CancelAttempt, Stored, Captured, Refreshing, KnowsGrant
  <2>9. QED
    BY <2>2, <2>6, <2>7, <2>8
<1>9. ASSUME NEW call \in {"start", "disconnect"}, CutFails(call)
      PROVE  IInv'
  <2>1. Resolved' = Resolved /\ Bindings' = Bindings /\ Grants' = Grants /\ Calls' = Calls
    BY <1>9 DEF CutFails, Resolved, Bindings, Grants, Calls
  <2>2. QED
    BY <1>9, <2>1 DEF CutFails, Counted, Typed, Numbered, Stored, Captured, Refreshing, KnowsGrant
<1>10. ASSUME NEW r \in Requests, CompleteGoogle(r)
      PROVE  IInv'
  <2> DEFINE f == Call("exchange", FALSE, Resolved, pending.attempt, None)
  <2>1. pending.attempt \in Attempts /\ begun[pending.attempt] = changes + 1
    BY <1>10 DEF CompleteGoogle, Typed, Stored, Grants
  <2>2. Resolved # None /\ Resolved \in Bindings
    BY <1>10 DEF CompleteGoogle, Resolved, Typed
  <2>3. f \in Calls /\ f.bound = Resolved /\ f.attempt = pending.attempt
    BY <1>10, <2>1, <2>2 DEF CompleteGoogle, Typed, Call, Calls, Ops, Attempts
  <2>4. KnowsGrant(f)
    BY <1>10 DEF CompleteGoogle, KnowsGrant, Call
  <2>5. QED
    BY <1>10, <2>1, <2>2, <2>3, <2>4, Launched DEF CompleteGoogle
<1>11. ASSUME NEW r \in Requests, RefreshGoogle(r)
      PROVE  IInv'
  <2> DEFINE f == Call("refresh", FALSE, Resolved, grant.attempt, grant)
  <2>1. grant.attempt \in Attempts /\ begun[grant.attempt] = changes + 1
    BY <1>11 DEF RefreshGoogle, Usable, Typed, Stored, Grants
  <2>2. Resolved # None /\ Resolved \in Bindings
    BY <1>11 DEF RefreshGoogle, Usable, Resolved, Typed
  <2>3. f \in Calls /\ f.bound = Resolved /\ f.attempt = grant.attempt
    BY <1>11, <2>1, <2>2 DEF RefreshGoogle, Usable, Typed, Call, Calls, Ops, Attempts
  <2>4. KnowsGrant(f)
    BY <1>11 DEF RefreshGoogle, Usable, KnowsGrant, Call
  <2>5. QED
    BY <1>11, <2>1, <2>2, <2>3, <2>4, Launched DEF RefreshGoogle
<1>12. ASSUME NEW r \in Requests, CompletePersisted(r)
      PROVE  IInv'
  <2> DEFINE f == Call("exchange", FALSE, Resolved, pending.attempt, None)
  <2>1. pending.attempt \in Attempts /\ begun[pending.attempt] = changes + 1
    BY <1>12 DEF CompletePersisted, Typed, Stored, Grants
  <2>2. Resolved # None /\ Resolved \in Bindings
    BY <1>12 DEF CompletePersisted, Resolved, Typed
  <2>3. f \in Calls /\ f.bound = Resolved /\ f.attempt = pending.attempt
    BY <1>12, <2>1, <2>2 DEF CompletePersisted, Typed, Call, Calls, Ops, Attempts
  <2>4. KnowsGrant(f)
    BY <1>12 DEF CompletePersisted, KnowsGrant, Call
  <2>5. QED
    BY <1>12, <2>1, <2>2, <2>3, <2>4, Launched DEF CompletePersisted
<1>13. ASSUME NEW r \in Requests, ConnectClient(r)
      PROVE  IInv'
  <2> DEFINE f == Call("client", FALSE, Resolved, grant.attempt, None)
  <2>1. grant.attempt \in Attempts /\ begun[grant.attempt] = changes + 1
    BY <1>13 DEF ConnectClient, Usable, Typed, Stored, Grants
  <2>2. Resolved # None /\ Resolved \in Bindings
    BY <1>13 DEF ConnectClient, Usable, Resolved, Typed
  <2>3. f \in Calls /\ f.bound = Resolved /\ f.attempt = grant.attempt
    BY <1>13, <2>1, <2>2 DEF ConnectClient, Usable, Typed, Call, Calls, Ops, Attempts
  <2>4. KnowsGrant(f)
    BY <1>13 DEF ConnectClient, Usable, KnowsGrant, Call
  <2>5. QED
    BY <1>13, <2>1, <2>2, <2>3, <2>4, Launched DEF ConnectClient
<1>14. ASSUME NEW r \in Requests, Prime(r)
      PROVE  IInv'
  <2>1. /\ Counted' /\ Numbered'
        /\ Resolved' = Resolved /\ Bindings' = Bindings /\ Grants' = Grants /\ Calls' = Calls
    BY <1>14, SameConnection DEF Prime, Counted, Bindings, Grants, Calls
  <2>2. Typed'
    BY <1>14, <2>1 DEF Prime, Typed, Calls, Ops
  <2>3. Stored'
    BY <1>14, <2>1 DEF Prime, MayWrite, Stored, Captured, Typed
  <2>4. Captured'
    BY <1>14, <2>1 DEF Prime, Captured, Typed
  <2>5. Refreshing'
    BY <1>14, <2>1 DEF Prime, Refreshing, KnowsGrant, Typed
  <2>6. QED
    BY <2>1, <2>2, <2>3, <2>4, <2>5
<1>15. ASSUME NEW r \in Requests, CompleteInMemory(r)
      PROVE  IInv'
  <2>1. /\ Counted' /\ Numbered'
        /\ Resolved' = Resolved /\ Bindings' = Bindings /\ Grants' = Grants /\ Calls' = Calls
    BY <1>15, SameConnection DEF CompleteInMemory, Counted, Bindings, Grants, Calls
  <2>2. Typed'
    BY <1>15, <2>1 DEF CompleteInMemory, Typed, Calls, Ops
  <2>3. Stored'
    BY <1>15, <2>1 DEF CompleteInMemory, MayWrite, Stored, Captured, Typed
  <2>4. Captured'
    BY <1>15, <2>1 DEF CompleteInMemory, Captured, Typed
  <2>5. Refreshing'
    BY <1>15, <2>1 DEF CompleteInMemory, Refreshing, KnowsGrant, Typed
  <2>6. QED
    BY <2>1, <2>2, <2>3, <2>4, <2>5
<1>16. ASSUME NEW r \in Requests, RefreshMcp(r)
      PROVE  IInv'
  <2>1. /\ Counted' /\ Numbered'
        /\ Resolved' = Resolved /\ Bindings' = Bindings /\ Grants' = Grants /\ Calls' = Calls
    BY <1>16, SameConnection DEF RefreshMcp, Counted, Bindings, Grants, Calls
  <2>2. Typed'
    BY <1>16, <2>1 DEF RefreshMcp, Typed, Calls, Ops
  <2>3. Stored'
    BY <1>16, <2>1 DEF RefreshMcp, MayWrite, Stored, Captured, Typed
  <2>4. Captured'
    BY <1>16, <2>1 DEF RefreshMcp, Captured, Typed
  <2>5. Refreshing'
    BY <1>16, <2>1 DEF RefreshMcp, Refreshing, KnowsGrant, Typed
  <2>6. QED
    BY <2>1, <2>2, <2>3, <2>4, <2>5
<1>17. ASSUME NEW r \in Requests, Save(r)
      PROVE  IInv'
  <2> DEFINE g == [bound |-> flight[r].bound, attempt |-> flight[r].attempt, id |-> ids + 1]
  <2>1. /\ UNCHANGED <<kind, live, gen, binding, cut, begun, changes>>
        /\ ids' = ids + 1 /\ ids' \in Nat /\ ids <= ids'
    BY <1>17 DEF Save, Counted
  <2>2. /\ Counted' /\ Numbered' /\ Captured'
        /\ Resolved' = Resolved /\ Bindings \subseteq Bindings' /\ Grants \subseteq Grants'
    BY <1>17, <2>1, SameConnection, EndedKeeps DEF Save
  <2>3. /\ flight[r].bound = Resolved /\ flight[r].bound \in Bindings
        /\ flight[r].attempt \in Attempts /\ begun[flight[r].attempt] = changes + 1
    BY <1>17 DEF Save, MayWrite, Typed, Captured
  <2>4. grant' = g /\ g \in Grants' /\ g # None
    BY <1>17, <2>1, <2>2, <2>3 DEF Save, Grants, Bindings, Attempts, Counted
  <2>5. Typed'
    BY <1>17, <2>1, <2>2, <2>4, EndedKeeps DEF Save, Typed
  <2>6. Stored'
    BY <1>17, <2>1, <2>2, <2>3, <2>4 DEF Save, Stored
  <2>7. Refreshing'
    <3> SUFFICES ASSUME NEW x \in Requests, flight'[x].op # "idle"
                 PROVE  /\ flight'[x] = flight[x]
                        /\ kind = "mcp" /\ flight[x].op \in {"client", "refresh"}
                              /\ flight[x].bound = Resolved =>
                           g.attempt = flight[x].attempt
      BY <2>1, <2>2, <2>4, ConnectionAssumption DEF Refreshing, KnowsGrant, Typed
    <3>1. flight'[x] = flight[x]
      BY <1>17 DEF Save, Ended, Call, Idle, Typed
    <3>2. ASSUME kind = "mcp", flight[x].op \in {"client", "refresh"}, flight[x].bound = Resolved
          PROVE  g.attempt = flight[x].attempt
      <4>1. flight[x].attempt \in Attempts /\ begun[flight[x].attempt] = changes + 1
        BY <3>2 DEF Captured, Typed
      <4>2. QED
        BY <2>3, <3>2, <4>1 DEF Numbered, Counted
    <3>3. QED
      BY <3>1, <3>2
  <2>8. QED
    BY <2>2, <2>5, <2>6, <2>7
<1>18. ASSUME NEW r \in Requests, GiveUp(r)
      PROVE  IInv'
  <2>1. /\ UNCHANGED <<kind, live, gen, binding, cut, begun, changes>>
        /\ ids' = ids /\ ids' \in Nat /\ ids <= ids'
    BY <1>18 DEF GiveUp, Counted
  <2>2. /\ Counted' /\ Numbered' /\ Captured' /\ Resolved' = Resolved
        /\ Bindings' = Bindings /\ Grants' = Grants /\ Calls' = Calls
    BY <1>18, <2>1, SameConnection, EndedKeeps DEF GiveUp, Bindings, Grants, Calls
  <2>3. Typed'
    BY <1>18, <2>1, <2>2, EndedKeeps DEF GiveUp, Typed
  <2>4. Stored'
    BY <1>18, <2>1, <2>2 DEF GiveUp, Stored
  <2>5. Refreshing'
    BY <1>18, <2>1, <2>2 DEF GiveUp, Ended, Call, Idle, Refreshing, KnowsGrant, Typed
  <2>6. QED
    BY <2>2, <2>3, <2>4, <2>5
<1>19. ASSUME Expire
      PROVE  IInv'
  <2>1. /\ Counted' /\ Numbered'
        /\ Resolved' = Resolved /\ Bindings' = Bindings /\ Grants' = Grants /\ Calls' = Calls
    BY <1>19, SameConnection DEF Expire, Counted, Bindings, Grants, Calls
  <2>2. QED
    BY <1>19, <2>1 DEF Expire, Typed, Stored, Captured, Refreshing, KnowsGrant
<1>20. ASSUME Restart
      PROVE  IInv'
  <2>1. /\ Counted' /\ Numbered'
        /\ Resolved' = Resolved /\ Bindings' = Bindings /\ Grants' = Grants /\ Calls' = Calls
    BY <1>20, SameConnection DEF Restart, Counted, Bindings, Grants, Calls
  <2>2. Typed'
    BY <1>20, <2>1 DEF Restart, Typed, Calls, Call, Idle, Ops
  <2>3. Stored' /\ Captured' /\ Refreshing'
    BY <1>20, <2>1 DEF Restart, Stored, Captured, Refreshing, KnowsGrant, Call, Idle
  <2>4. QED
    BY <2>1, <2>2, <2>3
<1>21. ASSUME UNCHANGED vars
      PROVE  IInv'
  BY <1>21 DEF vars, Counted, Typed, Numbered, Stored, Captured, Refreshing,
         KnowsGrant, Resolved, Bindings, Grants, Calls
<1>22. QED
  BY <1>1, <1>2, <1>3, <1>4, <1>5, <1>6, <1>7, <1>8, <1>9, <1>10, <1>11,
     <1>12, <1>13, <1>14, <1>15, <1>16, <1>17, <1>18, <1>19, <1>20, <1>21 DEF Next

\* The invariant holds in every reachable state.
THEOREM AlwaysIInv == Spec => []IInv
<1>1. IInv /\ [Next]_vars => IInv'
  BY NextIInv
<1>2. QED
  BY InitIInv, <1>1, PTL DEF Spec

\* Whatever answer arrives late, and however calls, changes and restarts
\* interleave: a grant that load_token_state or the MCP storage hands out comes
\* from an authorization started after the last replacement of the secret,
\* change of client, disconnect or deletion.
THEOREM NoRevivedGrant == Spec => []FailClosed
<1>1. IInv => FailClosed
  <2> SUFFICES ASSUME IInv PROVE FailClosed
    OBVIOUS
  <2>1. gen \in 1..(MaxChanges + 1)
    BY ConnectionAssumption DEF IInv, Counted, Typed
  <2>2. TypeOK
    BY <2>1 DEF IInv, Typed, TypeOK, Bindings, Grants, Calls, Ops
  <2>3. QED
    BY <2>2 DEF FailClosed, Usable, IInv, Stored
<1>2. QED
  BY AlwaysIInv, <1>1, PTL

\* save_token_state with expected_token_state (Google) and the fence (MCP) let the
\* answer to a refresh replace only tokens of the authorization it refreshed.
THEOREM RefreshReplacesItsOwn == Spec => RefreshKeepsAuthorization
<1> DEFINE Own(r) == (flight[r].op = "refresh" /\ flight'[r].op # "refresh" /\ grant' # grant)
                         => grant # None /\ grant.attempt = flight[r].attempt
<1>1. IInv /\ [Next]_vars => [\A r \in Requests : Own(r)]_vars
  <2> SUFFICES ASSUME IInv, Next, NEW r \in Requests, flight[r].op = "refresh",
                      flight'[r].op # "refresh", grant' # grant
               PROVE  grant # None /\ grant.attempt = flight[r].attempt
    OBVIOUS
  <2>1. Save(r)
    <3>1. ~(SetSecret \/ ClientChanged \/ DisconnectGoogle \/ DeleteConnection \/ DisconnectMcp)
      BY DEF SetSecret, ClientChanged, DisconnectGoogle, DeleteConnection, DisconnectMcp, process
    <3>2. ~(StartGoogle \/ Expire \/ Restart)
      BY DEF StartGoogle, Expire, Restart, store
    <3>3. ASSUME NEW call, CancelAttempt(call) \/ CutFails(call)
          PROVE  FALSE
      BY <3>3 DEF CancelAttempt, CutFails, store
    <3>4. PICK x \in Requests :
              \/ CompleteGoogle(x) \/ RefreshGoogle(x) \/ StartMcp(x) \/ Prime(x)
              \/ CompleteInMemory(x) \/ CompletePersisted(x) \/ ConnectClient(x) \/ RefreshMcp(x)
              \/ Save(x) \/ GiveUp(x)
      BY <3>1, <3>2, <3>3, Zenon DEF Next
    <3>5. ~(\/ CompleteGoogle(x) \/ RefreshGoogle(x) \/ Prime(x) \/ CompleteInMemory(x)
            \/ CompletePersisted(x) \/ ConnectClient(x) \/ RefreshMcp(x) \/ GiveUp(x))
      BY DEF CompleteGoogle, RefreshGoogle, Prime, CompleteInMemory, CompletePersisted,
             ConnectClient, RefreshMcp, GiveUp, store
    <3>6. ~StartMcp(x)
      BY DEF StartMcp, Call, Idle, IInv, Typed
    <3>7. Save(x) /\ x = r
      BY <3>4, <3>5, <3>6 DEF Save, Ended, Typed, IInv
    <3>8. QED
      BY <3>7
  <2>2. CASE kind = "google"
    BY <2>1, <2>2 DEF Save, StillBase, IInv, Refreshing, KnowsGrant
  <2>3. CASE kind = "mcp"
    BY <2>1, <2>3 DEF Save, MayWrite, IInv, Refreshing, KnowsGrant
  <2>4. QED
    BY <2>2, <2>3, ConnectionAssumption DEF IInv, Typed
<1>2. QED
  BY AlwaysIInv, <1>1, PTL DEF Spec, RefreshKeepsAuthorization

=============================================================================
