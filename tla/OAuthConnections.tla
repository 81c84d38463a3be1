--------------------------- MODULE OAuthConnections ---------------------------
(***************************************************************************)
(* The OAuth grant of one connection, Google's or an MCP server's, and     *)
(* everything that may be under way when the connection is reconfigured:   *)
(* core/integrations/google/{oauth,connection}.py, core/mcp/oauth.py,      *)
(* oauth_storage.py and service.py over core/oauth/storage.py.             *)
(*                                                                         *)
(* All of it runs on one event loop, and every durable change is one       *)
(* transaction of access.db: what lies between two awaits is one action.   *)
(* Both providers bind what they store to a value that every revocation    *)
(* replaces, and check it in the transaction that writes: Google's is the  *)
(* identity in the client secret's payload, with the generation of the     *)
(* connection's row; MCP's is the oauth_fence_token of the row.            *)
(***************************************************************************)
EXTENDS Naturals, FiniteSets

CONSTANTS
    Kinds,         \* the providers of this instance, of "google" and "mcp"
    Requests,      \* calls and retained clients that may be under way at once
    MaxAttempts,   \* bound on the authorizations started
    MaxChanges,    \* bound on the changes of the connection
    MaxRefreshes,  \* bound on the token refreshes
    MaxCrashes,    \* bound on the restarts of the process
    None

ASSUME ConnectionAssumption ==
    /\ Kinds \subseteq {"google", "mcp"}
    /\ {MaxAttempts, MaxChanges, MaxRefreshes, MaxCrashes} \subseteq Nat
    /\ None \notin [gen : Nat, id : Nat]
    /\ None \notin [bound : [gen : Nat, id : Nat], attempt : Nat, id : Nat]

VARIABLES
    kind,     \* the provider of the connection
    live,     \* its row exists; a deleted connection id is never used again
    gen,      \* oauth_generation of a Google row
    binding,  \* [gen, id]: Google's client secret, MCP's fence token; or None
    pending,  \* the persisted PKCE attempt, or None
    grant,    \* the persisted tokens, or None
    attempt,  \* MCP: the attempt in MCPOAuthCoordinator._attempts, 0 for none
    cut,      \* MCP: calls that cancelled the attempt and have yet to fence
    flight,   \* flight[r]: what r waits for, and what it captured before
    ids,      \* identities handed out: uuid4 and token_hex never repeat
    begun,    \* begun[a]: how often the connection had changed when a started
    changes, refreshes, crashes

store == <<live, gen, binding, pending, grant>>
process == <<attempt, cut, flight>>
vars == <<kind, store, process, ids, begun, changes, refreshes, crashes>>

Attempts == 1 .. MaxAttempts

\* A call under way: what it waits for, whether it is the task of an attempt, the
\* binding, the attempt and the tokens it set out with.
Call(op, task, bound, a, base) ==
    [op |-> op, task |-> task, bound |-> bound, attempt |-> a, base |-> base]

Idle == Call("idle", FALSE, None, 0, None)

Started == Cardinality({a \in Attempts : begun[a] > 0})

\* resolve_client_credential: the secret counts only under the row's generation.
\* _check_transaction: the fence of a row that is there.
Resolved == IF live /\ binding # None /\ binding.gen = gen THEN binding ELSE None

\* load_token_state; for MCP whatever the namespace holds.
Usable ==
    /\ Resolved # None
    /\ grant # None
    /\ kind = "google" => grant.bound = Resolved

-----------------------------------------------------------------------------
(***************************************************************************)
(* Changes of the connection.                                              *)
(***************************************************************************)

Fresh == [gen |-> gen, id |-> ids + 1]

\* The row or its secret changes under everything that was authorized before.
Change(b) ==
    /\ live
    /\ binding' = b
    /\ ids' = ids + 1
    /\ pending' = None
    /\ grant' = None
    /\ changes' = changes + 1

\* set_client_secret, set_oauth_client_secret
SetSecret ==
    /\ changes < MaxChanges
    /\ Change(Fresh)
    /\ UNCHANGED <<kind, live, gen, process, begun, refreshes, crashes>>

\* update_connection with another client id: Google's generation moves on and
\* the namespace, the secret included, goes; MCP rotates the fence and keeps
\* the configured secret, which is no part of the binding.
ClientChanged ==
    /\ changes < MaxChanges
    /\ Change(IF kind = "google" THEN None ELSE Fresh)
    /\ gen' = IF kind = "google" THEN gen + 1 ELSE gen
    /\ UNCHANGED <<kind, live, process, begun, refreshes, crashes>>

\* Google: clear_token_state rotates the identity of a secret that is there.
DisconnectGoogle ==
    /\ kind = "google"
    /\ changes < MaxChanges
    /\ Change(IF binding = None THEN None ELSE Fresh)
    /\ UNCHANGED <<kind, live, gen, process, begun, refreshes, crashes>>

DeleteConnection ==
    /\ changes < MaxChanges
    /\ Change(None)
    /\ live' = FALSE
    /\ UNCHANGED <<kind, gen, process, begun, refreshes, crashes>>

-----------------------------------------------------------------------------
(***************************************************************************)
(* Google: start, complete, refresh.                                       *)
(***************************************************************************)

\* GoogleOAuthCoordinator.start has no await: its re-checks find what it wrote.
\* An earlier pending attempt is replaced.
StartGoogle ==
    LET a == Started + 1
    IN  /\ kind = "google"
        /\ a \in Attempts
        /\ Resolved # None
        /\ pending' = [attempt |-> a, bound |-> Resolved]
        /\ begun' = [begun EXCEPT ![a] = changes + 1]
        /\ UNCHANGED <<kind, live, gen, binding, grant, process, ids,
                       changes, refreshes, crashes>>

\* complete up to the token request: the state matches, the attempt is consumed.
CompleteGoogle(r) ==
    /\ kind = "google"
    /\ flight[r] = Idle
    /\ Resolved # None
    /\ pending # None /\ pending.bound = Resolved
    /\ pending' = None
    /\ flight' = [flight EXCEPT ![r] = Call("exchange", FALSE, Resolved, pending.attempt, None)]
    /\ UNCHANGED <<kind, live, gen, binding, grant, attempt, cut, ids, begun,
                   changes, refreshes, crashes>>

\* refresh, access_token: one at a time for a connection (_refresh_locks).
RefreshGoogle(r) ==
    /\ kind = "google"
    /\ refreshes < MaxRefreshes
    /\ flight[r] = Idle
    /\ \A x \in Requests : flight[x].op # "refresh"
    /\ Usable
    /\ flight' = [flight EXCEPT ![r] = Call("refresh", FALSE, Resolved, grant.attempt, grant)]
    /\ refreshes' = refreshes + 1
    /\ UNCHANGED <<kind, store, attempt, cut, ids, begun, changes, crashes>>

-----------------------------------------------------------------------------
(***************************************************************************)
(* MCP: start and disconnect await the end of the attempt they cancel      *)
(* before they fence.                                                      *)
(***************************************************************************)

\* _cancel_attempt: the task of the attempt in memory ends.
WithoutTask(a) == [r \in Requests |-> IF flight[r].task /\ flight[r].attempt = a
                                      THEN Idle ELSE flight[r]]

\* The start lock is held until the authorization URL is known.  (With no attempt
\* to cancel the call does not suspend; nothing that may come between then differs
\* from its coming before.)
CancelAttempt(call) ==
    /\ kind = "mcp"
    /\ live
    /\ call \notin cut
    /\ changes + Cardinality(cut) < MaxChanges
    /\ call = "start" => /\ Started < MaxAttempts
                         /\ \A r \in Requests : flight[r].op # "prime"
    /\ flight' = WithoutTask(attempt)
    /\ attempt' = 0
    /\ cut' = cut \cup {call}
    /\ UNCHANGED <<kind, store, ids, begun, changes, refreshes, crashes>>

\* The rest of _start: disconnect_oauth, then the attempt's own task.
StartMcp(r) ==
    LET a == Started + 1
    IN  /\ "start" \in cut
        /\ flight[r] = Idle
        /\ Change(Fresh)
        /\ cut' = cut \ {"start"}
        /\ attempt' = a
        /\ begun' = [begun EXCEPT ![a] = changes + 2]
        /\ flight' = [flight EXCEPT ![r] = Call("prime", TRUE, Fresh, a, None)]
        /\ UNCHANGED <<kind, live, gen, refreshes, crashes>>

\* The rest of disconnect.  An attempt started meanwhile stays in memory.
DisconnectMcp ==
    /\ "disconnect" \in cut
    /\ Change(Fresh)
    /\ cut' = cut \ {"disconnect"}
    /\ UNCHANGED <<kind, live, gen, attempt, flight, begun, refreshes, crashes>>

\* The connection was deleted during the wait: disconnect_oauth finds no row.
CutFails(call) ==
    /\ call \in cut
    /\ ~live
    /\ cut' = cut \ {call}
    /\ UNCHANGED <<kind, store, attempt, flight, ids, begun, changes, refreshes, crashes>>

\* Mutant: the storage handed out at the start writes whatever the row says.
MayWriteAlways(bound) == live

\* put_sync_if_unchanged guarded by the client secret; _write_payload under
\* _check_transaction.
MayWrite(bound) == Resolved = bound

\* Discovery and registration are done: _perform_authorization_code_grant
\* persists the attempt and waits for the callback.
Prime(r) ==
    /\ flight[r].op = "prime"
    /\ MayWrite(flight[r].bound)
    /\ pending' = [attempt |-> flight[r].attempt, bound |-> flight[r].bound]
    /\ flight' = [flight EXCEPT ![r].op = "waiting"]
    /\ UNCHANGED <<kind, live, gen, binding, grant, attempt, cut, ids, begun,
                   changes, refreshes, crashes>>

\* complete with the attempt in memory: the storage of the attempt consumes the
\* persisted half, the task goes on to the token endpoint.
CompleteInMemory(r) ==
    /\ flight[r].op = "waiting"
    /\ flight[r].attempt = attempt
    /\ MayWrite(flight[r].bound)
    /\ pending # None /\ pending.attempt = attempt
    /\ pending' = None
    /\ flight' = [flight EXCEPT ![r].op = "exchange"]
    /\ UNCHANGED <<kind, live, gen, binding, grant, attempt, cut, ids, begun,
                   changes, refreshes, crashes>>

\* complete without one: after a restart, or while a start or a disconnect waits.
CompletePersisted(r) ==
    /\ kind = "mcp"
    /\ attempt = 0
    /\ flight[r] = Idle
    /\ Resolved # None
    /\ pending # None
    /\ pending' = None
    /\ flight' = [flight EXCEPT ![r] = Call("exchange", FALSE, Resolved, pending.attempt, None)]
    /\ UNCHANGED <<kind, live, gen, binding, grant, attempt, cut, ids, begun,
                   changes, refreshes, crashes>>

\* A client is connected with the stored tokens and retained; the lease that
\* holds it outlives an invalidation.
ConnectClient(r) ==
    /\ kind = "mcp"
    /\ flight[r] = Idle
    /\ Usable
    /\ refreshes < MaxRefreshes
    /\ flight' = [flight EXCEPT ![r] = Call("client", FALSE, Resolved, grant.attempt, None)]
    /\ UNCHANGED <<kind, store, attempt, cut, ids, begun, changes, refreshes, crashes>>

\* FastMCP finds the client's access token expired and refreshes it.
RefreshMcp(r) ==
    /\ flight[r].op = "client"
    /\ refreshes < MaxRefreshes
    /\ flight' = [flight EXCEPT ![r].op = "refresh"]
    /\ refreshes' = refreshes + 1
    /\ UNCHANGED <<kind, store, attempt, cut, ids, begun, changes, crashes>>

-----------------------------------------------------------------------------
(***************************************************************************)
(* Answers, failures and restarts, for both.                               *)
(***************************************************************************)

\* Mutant: a Google refresh is guarded by the credential alone.
StillBaseAlways(f) == TRUE

\* save_token_state with expected_token_state: the grant that was refreshed is
\* still the one stored.  FastMCP's set_tokens has no such guard.
StillBase(f) == f.op = "refresh" /\ kind = "google" => grant = f.base

\* What r's call leaves behind: the attempt in memory is popped.
Ended(r) ==
    /\ flight' = [flight EXCEPT ![r] = Idle]
    /\ attempt' = IF flight[r].task /\ flight[r].attempt = attempt THEN 0 ELSE attempt

\* The token endpoint answered and the store takes it.
Save(r) ==
    /\ flight[r].op \in {"exchange", "refresh"}
    /\ MayWrite(flight[r].bound)
    /\ StillBase(flight[r])
    /\ grant' = [bound |-> flight[r].bound, attempt |-> flight[r].attempt, id |-> ids + 1]
    /\ ids' = ids + 1
    /\ Ended(r)
    /\ UNCHANGED <<kind, live, gen, binding, pending, cut, begun, changes,
                   refreshes, crashes>>

\* An error, a timeout or a guard that does not match any more: nothing is written.
GiveUp(r) ==
    /\ flight[r] # Idle
    /\ Ended(r)
    /\ pending' = IF /\ pending # None
                     /\ flight[r].op = "waiting"
                     /\ pending.attempt = flight[r].attempt
                  THEN None ELSE pending
    /\ UNCHANGED <<kind, live, gen, binding, grant, cut, ids, begun, changes,
                   refreshes, crashes>>

\* A persisted attempt older than ten minutes is deleted by whoever reads it.
Expire ==
    /\ attempt = 0
    /\ pending # None
    /\ pending' = None
    /\ UNCHANGED <<kind, live, gen, binding, grant, process, ids, begun,
                   changes, refreshes, crashes>>

\* The process restarts: access.db is all that is left.
Restart ==
    /\ crashes < MaxCrashes
    /\ crashes' = crashes + 1
    /\ flight' = [r \in Requests |-> Idle]
    /\ attempt' = 0
    /\ cut' = {}
    /\ UNCHANGED <<kind, store, ids, begun, changes, refreshes>>

-----------------------------------------------------------------------------

Init ==
    /\ kind \in Kinds
    /\ live = TRUE
    /\ gen = 1
    /\ binding = IF kind = "google" THEN None ELSE [gen |-> 1, id |-> 0]
    /\ pending = None
    /\ grant = None
    /\ attempt = 0
    /\ cut = {}
    /\ flight = [r \in Requests |-> Idle]
    /\ ids = 0
    /\ begun = [a \in Attempts |-> 0]
    /\ changes = 0
    /\ refreshes = 0
    /\ crashes = 0

Next ==
    \/ SetSecret \/ ClientChanged \/ DisconnectGoogle \/ DeleteConnection
    \/ StartGoogle \/ DisconnectMcp \/ Expire \/ Restart
    \/ \E call \in {"start", "disconnect"} : CancelAttempt(call) \/ CutFails(call)
    \/ \E r \in Requests :
          \/ CompleteGoogle(r) \/ RefreshGoogle(r)
          \/ StartMcp(r) \/ Prime(r) \/ CompleteInMemory(r) \/ CompletePersisted(r)
          \/ ConnectClient(r) \/ RefreshMcp(r)
          \/ Save(r) \/ GiveUp(r)

Spec == Init /\ [][Next]_vars

-----------------------------------------------------------------------------
(***************************************************************************)
(* Properties.                                                             *)
(***************************************************************************)

\* Every variable has its type.
TypeOK ==
    LET Binding == [gen : 1..(MaxChanges + 1), id : 0..ids]
    IN  /\ kind \in Kinds
        /\ live \in BOOLEAN
        /\ gen \in 1..(MaxChanges + 1)
        /\ binding \in Binding \cup {None}
        /\ pending # None => pending \in [attempt : Attempts, bound : Binding]
        /\ grant # None => grant \in [bound : Binding, attempt : Attempts, id : 1..ids]
        /\ attempt \in 0..MaxAttempts
        /\ cut \subseteq {"start", "disconnect"}
        /\ \A r \in Requests : flight[r].op \in
              {"idle", "prime", "waiting", "exchange", "client", "refresh"}

\* Whatever was under way when the secret was replaced, the client changed, the
\* grant disconnected or the connection deleted: a grant that can be used comes
\* from an authorization started after the last of these.
FailClosed == TypeOK /\ (Usable => begun[grant.attempt] = changes + 1)

\* The answer to a refresh replaces tokens of the authorization it refreshed.
\* It revives nothing and never takes the place of a newer authorization.
RefreshKeepsAuthorization ==
    [][\A r \in Requests :
          (flight[r].op = "refresh" /\ flight'[r].op # "refresh" /\ grant' # grant)
              => grant # None /\ grant.attempt = flight[r].attempt]_vars

-----------------------------------------------------------------------------
(***************************************************************************)
(* What the repository says of this code and the code does not keep: TLC   *)
(* finds a counterexample (README, section 3.2).                           *)
(***************************************************************************)

\* ADR 0041: a late response cannot overwrite a newer completed authorization.
NewerAuthorizationKept ==
    [][(grant # None /\ grant' # None) => grant'.attempt >= grant.attempt]_vars

=============================================================================
