------------------------------- MODULE MoneyApi -------------------------------
(***************************************************************************)
(* The money endpoints whole: the idempotency middleware in front of the   *)
(* money transactions.  A request carries a key and a call; a retry is     *)
(* another request with the same key and call.  complete() is the last     *)
(* statement of the money transaction, and both tables commit together.    *)
(* Administrators change wallet statuses without a key.                    *)
(***************************************************************************)
EXTENDS Integers, Sequences

CONSTANTS
  Wallets, Users, WalletOf, Opening, MinAmount, MaxAmount, FirstEntryId, Null,
  Clients,        \* requests to the money endpoints
  Admins,         \* requests to PATCH /admin/wallets/:id/status
  Keys,           \* Idempotency-Key values
  KeyOf,          \* the key of each client request
  CallOf,         \* the call each request carries
  BoundedLatency, \* as in Idempotency
  MaxDeaths       \* as in Idempotency

\* A key is scoped to its user and endpoint; the body hash tells calls apart.
ScopeOf == [r \in Clients |-> <<CallOf[r].user, KeyOf[r], CallOf[r].op>>]
HashOf == [r \in Clients |-> CallOf[r]]
Scopes == {ScopeOf[r] : r \in Clients}
Calls == {CallOf[r] : r \in Clients \cup Admins}

VARIABLES
  balance, status, entries, audit, nextEntryId, lock, phase, call, view, posted, noted,
  row, rowLock, stage, existing, reply, moved, deaths

W == INSTANCE Wallets WITH Requests <- Clients \cup Admins
I == INSTANCE Idempotency WITH Requests <- Clients, Hashes <- Calls

ASSUME MoneyApiAssumption ==
  /\ W!WalletsAssumption /\ I!IdempotencyAssumption
  /\ Clients \cap Admins = {}
  /\ \A r \in Clients : W!IsMoney(CallOf[r])
  /\ \A r \in Admins : ~W!IsMoney(CallOf[r])

walletVars == <<balance, status, entries, audit, nextEntryId, lock, phase, call,
                view, posted, noted>>
keyVars == <<row, rowLock, stage, existing, reply, moved, deaths>>
apiVars == <<walletVars, keyVars>>

InitApi == W!Init /\ I!Init

\* The middleware, before and after the handler.  A client sends a request once.
Middleware(r) ==
  /\ \/ phase[r] = "idle" /\ I!Send(r)
     \/ I!TryCreate(r) \/ I!FindByScope(r) \/ I!Replay(r) \/ I!RejectReused(r)
     \/ I!TakeOverFailed(r) \/ I!TakeOverStale(r)
     \/ I!MarkFailed(r) \/ I!ReleaseLost(r)
  /\ UNCHANGED walletVars

\* The service opens its transaction and works until it has written.
Handle(r) ==
  /\ stage[r] = "handler"
  /\ \/ W!Begin(r, CallOf[r])
     \/ \E w \in Wallets : W!AcquireLock(r, w)
     \/ W!Post(r)
  /\ UNCHANGED keyVars

\* Slip of Complete: the key is completed before the ledger is written.
CompleteFirst(r) == I!Complete(r) /\ UNCHANGED walletVars

Complete(r) ==
  /\ phase[r] = "written"
  /\ I!Complete(r)
  /\ UNCHANGED walletVars

\* Slip of Commit: complete() ran on another connection and did not commit.
CommitMoneyOnly(r) == W!Commit(r) /\ I!HandlerFails(r)

\* One commit for the ledger and the key, acknowledged or not.
Commit(r) == W!Commit(r) /\ (I!Commit(r) \/ I!CommitUnacknowledged(r))

\* A check throws, a statement fails, or no connection could be had at all.
Fail(r) ==
  /\ I!HandlerFails(r)
  /\ \/ W!Refuse(r)
     \/ W!Abort(r)
     \/ phase[r] = "idle" /\ UNCHANGED walletVars

\* A request vanishes, and with it the transaction it had open.
Die(r) ==
  /\ I!Die(r)
  /\ IF phase[r] \in {"locking", "written"} THEN W!Abort(r) ELSE UNCHANGED walletVars

Age == (\E s \in Scopes : I!Age(s)) /\ UNCHANGED walletVars

Administer(r) ==
  /\ W!Begin(r, CallOf[r]) \/ W!Step(r) \/ W!Abort(r)
  /\ UNCHANGED keyVars

NextApi ==
  \/ \E r \in Clients :
       \/ Middleware(r) \/ Handle(r) \/ Complete(r) \/ Commit(r) \/ Fail(r) \/ Die(r)
  \/ Age
  \/ \E r \in Admins : Administer(r)

SpecApi == InitApi /\ [][NextApi]_apiVars

-----------------------------------------------------------------------------
(* What the clients see.                                                   *)

PaymentOf(c) == [from |-> W!Debited(c), to |-> W!Credited(c), amount |-> c.amount]

B == INSTANCE Bank WITH
  Accounts <- Wallets, Keys <- Scopes, Statuses <- W!WalletStatus,
  Payments <- {PaymentOf(CallOf[r]) : r \in Clients},
  funds <- balance, standing <- status,
  paid <- [s \in Scopes |-> IF moved[s] = <<>> THEN Null
                            ELSE PaymentOf(moved[s][Len(moved[s])])]

\* The endpoints implement the bank: every committed transaction is one payment
\* or one status change, in one order, and no key pays twice.
ImplementsBank == B!BankSpec

-----------------------------------------------------------------------------
(* Properties.                                                             *)

\* Completing a key never waits: whoever else holds the row's lock acts for the
\* same user and so would hold the wallet this request holds.  Two requests can
\* therefore not wait for each other across the two tables.
CompletionNeverWaits ==
  \A r \in Clients : phase[r] = "written" => rowLock[ScopeOf[r]] \in {Null, r}

\* A key replays the last payment made under it, and a payment made leaves a key
\* that replays it, though a slow request may complete or release a key that a
\* retry took over meanwhile.
KeysReplayTheirPayment == I!ReplaysLastMovement
=============================================================================
