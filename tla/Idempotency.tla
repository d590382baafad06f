----------------------------- MODULE Idempotency -----------------------------
(***************************************************************************)
(* The idempotency middleware and its table.  A client slot sends an HTTP  *)
(* request, waits for its end and may send it again; each statement on     *)
(* idempotency_keys is one step, and the requests of a scope (user, key,   *)
(* endpoint) interleave.  What the handler does is in moved: the money     *)
(* transactions that committed under the scope, each by the hash of the    *)
(* body it acted on.                                                       *)
(***************************************************************************)
EXTENDS Naturals, Sequences

CONSTANTS
  Requests,       \* client slots
  Scopes,         \* (user, key, endpoint) triples
  Hashes,         \* request body hashes
  ScopeOf,        \* the scope a slot sends
  HashOf,         \* the body it sends
  BoundedLatency, \* TRUE: the environment ends every request that claimed a
                  \* key, release included, before its row turns stale
  MaxDeaths,      \* bound on requests that vanish without a trace
  Null            \* no row, no snapshot, no lock holder, no success

(* A row of idempotency_keys: `age` tells whether updated_at < NOW() - 60 s;  *)
(* only a completed row has a response to replay.                              *)
Unsettled == [status: {"processing", "failed"}, hash: Hashes, snapshot: {Null},
              age: {"fresh", "stale"}]
Settled == [status: {"completed"}, hash: Hashes, snapshot: Hashes, age: {"fresh"}]
Row == Unsettled \cup Settled

ASSUME IdempotencyAssumption ==
  /\ Null \notin Requests /\ Null \notin Hashes /\ Null \notin Row
  /\ ScopeOf \in [Requests -> Scopes]
  /\ HashOf \in [Requests -> Hashes]
  /\ BoundedLatency \in BOOLEAN
  /\ MaxDeaths \in Nat

VARIABLES
  row,      \* committed row of each scope in idempotency_keys
  rowLock,  \* money transaction that holds the row's exclusive lock
  stage,    \* where each request is in the middleware chain
  existing, \* the row findByScope returned to it
  reply,    \* the hash its 2xx response reports on; Null for any other response
  moved,    \* money movements committed under each scope, in order
  deaths    \* requests that vanished so far

Stage == {"idle", "create", "lookup", "decide", "handler", "completing", "finishing"}

vars == <<row, rowLock, stage, existing, reply, moved, deaths>>

Processing(h) == [status |-> "processing", hash |-> h, snapshot |-> Null, age |-> "fresh"]

\* Claimed: the request passed the middleware and runs the handler.
Claimed(r) == stage[r] \in {"handler", "completing", "finishing"}

IsStatus(s, x) == row[s] # Null /\ row[s].status = x

Goto(r, x) == stage' = [stage EXCEPT ![r] = x]
Unlock(r) == rowLock' = [s \in Scopes |-> IF rowLock[s] = r THEN Null ELSE rowLock[s]]

-----------------------------------------------------------------------------
Init ==
  /\ row = [s \in Scopes |-> Null]
  /\ rowLock = [s \in Scopes |-> Null]
  /\ stage = [r \in Requests |-> "idle"]
  /\ existing = [r \in Requests |-> Null]
  /\ reply = [r \in Requests |-> Null]
  /\ moved = [s \in Scopes |-> <<>>]
  /\ deaths = 0

\* A request arrives: a first attempt or a retry with the same key and body.
Send(r) ==
  /\ stage[r] = "idle"
  /\ Goto(r, "create")
  /\ reply' = [reply EXCEPT ![r] = Null]
  /\ UNCHANGED <<row, rowLock, existing, moved, deaths>>

\* INSERT; the unique index on the scope lets one request win.
TryCreate(r) ==
  LET s == ScopeOf[r] IN
  /\ stage[r] = "create"
  /\ \/ /\ row[s] = Null
        /\ row' = [row EXCEPT ![s] = Processing(HashOf[r])]
        /\ Goto(r, "handler")
     \/ /\ row[s] # Null
        /\ Goto(r, "lookup")
        /\ UNCHANGED row
  /\ UNCHANGED <<rowLock, existing, reply, moved, deaths>>

\* A plain SELECT: the last committed version, whoever holds the lock.  Rows are
\* never deleted, so the lookup after a duplicate insert finds one.
FindByScope(r) ==
  /\ stage[r] = "lookup"
  /\ existing' = [existing EXCEPT ![r] = row[ScopeOf[r]]]
  /\ Goto(r, "decide")
  /\ UNCHANGED <<row, rowLock, reply, moved, deaths>>

\* The middleware leaves the row it read behind.
Decided(r, x) ==
  /\ stage[r] = "decide"
  /\ existing' = [existing EXCEPT ![r] = Null]
  /\ Goto(r, x)
  /\ UNCHANGED <<rowLock, moved, deaths>>

\* Slip of Replay: the body is not compared.
ReplayAnyBody(r) ==
  /\ Decided(r, "idle")
  /\ existing[r].status = "completed"
  /\ reply' = [reply EXCEPT ![r] = existing[r].snapshot]
  /\ UNCHANGED row

\* completed with the same body: the stored response, again.
Replay(r) ==
  /\ Decided(r, "idle")
  /\ existing[r].status = "completed" /\ existing[r].hash = HashOf[r]
  /\ reply' = [reply EXCEPT ![r] = existing[r].snapshot]
  /\ UNCHANGED row

\* completed or processing with another body: 409 IDEMPOTENCY_KEY_REUSED.
RejectReused(r) ==
  /\ Decided(r, "idle")
  /\ existing[r].status # "failed" /\ existing[r].hash # HashOf[r]
  /\ UNCHANGED <<row, reply>>

\* UPDATE ... WHERE the row still permits it: waits for the row's lock, then
\* claims the row or answers 409 REQUEST_IN_FLIGHT.
TakeOver(r, permitted) ==
  LET s == ScopeOf[r] IN
  /\ rowLock[s] = Null
  /\ \/ /\ permitted
        /\ row' = [row EXCEPT ![s] = Processing(HashOf[r])]
        /\ Decided(r, "handler")
     \/ /\ ~permitted
        /\ Decided(r, "idle")
        /\ UNCHANGED row
  /\ UNCHANGED reply

\* Slip of TakeOverFailed: UPDATE ... WHERE id, without the status.
TakeOverFailedBlindly(r) ==
  /\ stage[r] = "decide" /\ existing[r].status = "failed"
  /\ TakeOver(r, TRUE)

TakeOverFailed(r) ==
  /\ stage[r] = "decide" /\ existing[r].status = "failed"
  /\ TakeOver(r, IsStatus(ScopeOf[r], "failed"))

\* Slip of TakeOverStale: a processing row always answers REQUEST_IN_FLIGHT.
TakeOverStaleNever(r) ==
  /\ stage[r] = "decide"
  /\ existing[r].status = "processing" /\ existing[r].hash = HashOf[r]
  /\ TakeOver(r, FALSE)

TakeOverStale(r) ==
  /\ stage[r] = "decide"
  /\ existing[r].status = "processing" /\ existing[r].hash = HashOf[r]
  /\ TakeOver(r, IsStatus(ScopeOf[r], "processing") /\ row[ScopeOf[r]].age = "stale")

\* The handler throws, or a statement of its transaction fails: rollback, an
\* error response, then 'finish'.
HandlerFails(r) ==
  /\ stage[r] \in {"handler", "completing"}
  /\ Unlock(r)
  /\ Goto(r, "finishing")
  /\ UNCHANGED <<row, existing, reply, moved, deaths>>

\* complete(): the last statement of the money transaction.  It names the row by
\* id alone, whatever its status and whoever owns it by now.
Complete(r) ==
  /\ stage[r] = "handler"
  /\ rowLock[ScopeOf[r]] = Null
  /\ rowLock' = [rowLock EXCEPT ![ScopeOf[r]] = r]
  /\ Goto(r, "completing")
  /\ UNCHANGED <<row, existing, reply, moved, deaths>>

\* Slip of Settle: the response is not stored with the completed status.
SettleWithoutSnapshot(r) ==
  LET s == ScopeOf[r] IN
  /\ stage[r] = "completing"
  /\ row' = [row EXCEPT ![s].status = "completed", ![s].age = "fresh"]
  /\ moved' = [moved EXCEPT ![s] = Append(@, HashOf[r])]
  /\ Unlock(r)
  /\ Goto(r, "finishing")
  /\ UNCHANGED <<existing, deaths>>

\* COMMIT: the movement and the completed row appear together.
Settle(r) ==
  LET s == ScopeOf[r] IN
  /\ stage[r] = "completing"
  /\ row' = [row EXCEPT ![s] = [status |-> "completed", hash |-> @.hash,
                                snapshot |-> HashOf[r], age |-> "fresh"]]
  /\ moved' = [moved EXCEPT ![s] = Append(@, HashOf[r])]
  /\ Unlock(r)
  /\ Goto(r, "finishing")
  /\ UNCHANGED <<existing, deaths>>

Commit(r) == Settle(r) /\ reply' = [reply EXCEPT ![r] = HashOf[r]]

\* The connection is lost after MySQL committed: the client gets a 500.
CommitUnacknowledged(r) == Settle(r) /\ UNCHANGED reply

\* Slip of MarkFailed: the key is released whatever its status.
MarkFailedAlways(r) ==
  LET s == ScopeOf[r] IN
  /\ stage[r] = "finishing"
  /\ rowLock[s] = Null
  /\ row' = [row EXCEPT ![s] = [status |-> "failed", hash |-> @.hash,
                                snapshot |-> Null, age |-> "fresh"]]
  /\ Goto(r, "idle")
  /\ UNCHANGED <<rowLock, existing, reply, moved, deaths>>

\* res 'finish': release the key unless the transaction completed it.
MarkFailed(r) ==
  LET s == ScopeOf[r] IN
  /\ stage[r] = "finishing"
  /\ rowLock[s] = Null
  /\ row' = [row EXCEPT ![s] = IF IsStatus(s, "processing")
                                 THEN [@ EXCEPT !.status = "failed", !.age = "fresh"]
                                 ELSE @]
  /\ Goto(r, "idle")
  /\ UNCHANGED <<rowLock, existing, reply, moved, deaths>>

\* That UPDATE fails and is only logged, or the process exits before it (shutdown).
ReleaseLost(r) ==
  /\ stage[r] = "finishing"
  /\ Goto(r, "idle")
  /\ UNCHANGED <<row, rowLock, existing, reply, moved, deaths>>

\* A request vanishes: its process dies, or its client hangs up and 'finish' is
\* never emitted.  MySQL rolls back what it had open.
Die(r) ==
  /\ stage[r] # "idle" /\ deaths < MaxDeaths
  /\ deaths' = deaths + 1
  /\ Unlock(r)
  /\ existing' = [existing EXCEPT ![r] = Null]
  /\ Goto(r, "idle")
  /\ UNCHANGED <<row, reply, moved>>

\* Sixty seconds pass on the database clock since the row was written.
Age(s) ==
  /\ IsStatus(s, "processing") /\ row[s].age = "fresh"
  /\ BoundedLatency => ~\E r \in Requests : Claimed(r) /\ ScopeOf[r] = s
  /\ row' = [row EXCEPT ![s].age = "stale"]
  /\ UNCHANGED <<rowLock, stage, existing, reply, moved, deaths>>

Advance(r) ==
  \/ TryCreate(r) \/ FindByScope(r) \/ Replay(r) \/ RejectReused(r)
  \/ TakeOverFailed(r) \/ TakeOverStale(r)
  \/ HandlerFails(r) \/ Complete(r) \/ Commit(r) \/ CommitUnacknowledged(r)
  \/ MarkFailed(r) \/ ReleaseLost(r)

Next ==
  \/ \E r \in Requests : Send(r) \/ Advance(r) \/ Die(r)
  \/ \E s \in Scopes : Age(s)

Spec == Init /\ [][Next]_vars

\* Clients retry, a request in progress goes on to some end, and time passes.
FairSpec ==
  /\ Spec
  /\ \A r \in Requests : WF_vars(Send(r)) /\ WF_vars(Advance(r))
  /\ \A s \in Scopes : WF_vars(Age(s))

-----------------------------------------------------------------------------
(* Properties.                                                             *)

\* Every variable has its type; a row has a response to replay exactly when it
\* is completed, so the middleware never replays an empty snapshot.
TypeOK ==
  /\ row \in [Scopes -> Row \cup {Null}]
  /\ rowLock \in [Scopes -> Requests \cup {Null}]
  /\ stage \in [Requests -> Stage]
  /\ existing \in [Requests -> Row \cup {Null}]
  /\ reply \in [Requests -> Hashes \cup {Null}]
  /\ moved \in [Scopes -> Seq(Hashes)]
  /\ deaths \in 0 .. MaxDeaths

\* However a client retries and whatever fails, a scope moves money at most
\* once ("network retries can never move money twice", README.md).
AtMostOnce == \A s \in Scopes : Len(moved[s]) <= 1

\* A client that got a 2xx, from the handler or replayed, asked for exactly the
\* movement that was committed under its key.
SuccessMeansMoved ==
  \A r \in Requests : reply[r] # Null =>
    reply[r] = HashOf[r] /\ moved[ScopeOf[r]] = <<HashOf[r]>>

\* The response a key replays reports on the last movement committed under it,
\* and a movement always leaves one: neither a crash nor a slow request leaves a
\* replayable success that moved no money, or a movement that replays as a 409.
ReplaysLastMovement ==
  \A s \in Scopes :
    /\ IsStatus(s, "completed") <=> moved[s] # <<>>
    /\ moved[s] # <<>> => row[s].snapshot = moved[s][Len(moved[s])]

\* A completed row never changes again: no late release, takeover or second
\* completion disturbs the response that retries replay.
CompletedIsFinal ==
  [][\A s \in Scopes : IsStatus(s, "completed") => row'[s] = row[s]]_vars

\* The row is still processing though no request owns it.
Orphaned(s) ==
  /\ IsStatus(s, "processing")
  /\ ~\E r \in Requests : Claimed(r) /\ ScopeOf[r] = s

\* A key left in processing by a request that vanished is taken over by a retry
\* after the staleness window rather than locked out forever.
OrphansAreTakenOver == \A s \in Scopes : Orphaned(s) ~> ~Orphaned(s)
=============================================================================
