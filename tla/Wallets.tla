------------------------------- MODULE Wallets -------------------------------
(***************************************************************************)
(* The money transactions of the wallet service: fund, withdraw, transfer  *)
(* and the administrator's freeze or unfreeze, run concurrently against    *)
(* the rows of `wallets`, `transaction_entries` and `admin_audit_log`.     *)
(*                                                                         *)
(* A request is one call of runTransaction.  It takes the row locks of     *)
(* SELECT ... FOR UPDATE one row at a time, decides on the rows it read,   *)
(* writes (Post or UpdateStatus), and commits or rolls back.  What it      *)
(* writes is private (view, posted, noted) until Commit.  Entry ids come   *)
(* from an AUTO_INCREMENT counter, which a rollback does not give back.    *)
(***************************************************************************)
EXTENDS Integers, Sequences, AuditTrail

CONSTANTS
  Wallets,      \* ids of the rows of `wallets`, ordered as the primary key
  Users,        \* callers of the API
  WalletOf,     \* the wallet of a user; Null for an account without one
  Requests,     \* transactions; each runs at most once
  Calls,        \* the calls a request may carry
  Opening,      \* balance each wallet starts with, funded before Init
  MinAmount,    \* MIN_TRANSACTION_AMOUNT_KOBO
  MaxAmount,    \* MAX_TRANSACTION_AMOUNT_KOBO
  FirstEntryId, \* first entry id still free at Init
  Null          \* no wallet, no lock holder, and the settlement side (NULL)

WalletStatus == {"active", "frozen"}
MoneyOps == {"fund", "withdraw", "transfer"}

\* `wallet` is the recipient of a transfer or the target of updateWalletStatus,
\* and may name no existing row; operations ignore the fields they do not take.
\* `amount` is any integer a client may send.
CallType == [op: MoneyOps \cup {"updateWalletStatus"}, user: Users,
             wallet: Nat, amount: Int, status: WalletStatus]

ASSUME WalletsAssumption ==
  /\ Wallets \subseteq Nat
  /\ Null \notin Nat /\ Null \notin Requests
  /\ WalletOf \in [Users -> Wallets \cup {Null}]
  /\ \A u, v \in Users : WalletOf[u] = WalletOf[v] => u = v \/ WalletOf[u] = Null
  /\ Calls \subseteq CallType
  /\ Opening \in [Wallets -> Nat]
  /\ MinAmount \in Nat \ {0} /\ MaxAmount \in Nat
  /\ FirstEntryId \in Nat
  /\ \A w \in Wallets : 2*w + 1 < FirstEntryId

VARIABLES
  balance,      \* committed wallets.balance
  status,       \* committed wallets.status
  entries,      \* committed rows of transaction_entries
  audit,        \* committed wallet.status.updated rows of each wallet, in order
  nextEntryId,  \* AUTO_INCREMENT of transaction_entries
  lock,         \* holder of the exclusive lock of each wallet row
  phase,        \* where each request is
  call,         \* the call it carries
  view,         \* the wallet rows it has locked, as its transaction sees them
  posted,       \* entries it inserted and has not committed
  noted         \* audit rows it inserted and has not committed

vars == <<balance, status, entries, audit, nextEntryId, lock, phase, call, view,
          posted, noted>>
committed == <<balance, status, entries, audit>>

-----------------------------------------------------------------------------
(* Ledger lines.  A line of the settlement side has no wallet and no       *)
(* balance after it.                                                       *)

Direction == {"CREDIT", "DEBIT"}
WalletLine == [id: Nat, wallet: Wallets, direction: Direction,
               amount: Nat \ {0}, balanceAfter: Nat]
SystemLine == [id: Nat, wallet: {Null}, direction: Direction,
               amount: Nat \ {0}, balanceAfter: {Null}]

Signed(e) == IF e.direction = "CREDIT" THEN e.amount ELSE -e.amount

LinesOf(w) == {e \in entries : e.wallet = w}

Line(i, w, d, n, after) ==
  [id |-> i, wallet |-> w, direction |-> d, amount |-> n, balanceAfter |-> after]

-----------------------------------------------------------------------------
(* What a call needs and does.                                             *)

Own(c) == WalletOf[c.user]
IsMoney(c) == c.op \in MoneyOps

\* Slip of ValidAmount: .min without .max.
ValidAmountUncapped(n) == n >= MinAmount

\* amountSchema: what `validate` lets through to the handlers.
ValidAmount(n) == n \in MinAmount .. MaxAmount

\* The two sides of a money movement; Null is the settlement side.
Debited(c)  == IF c.op = "fund" THEN Null ELSE Own(c)
Credited(c) == CASE c.op = "fund"     -> Own(c)
                 [] c.op = "withdraw" -> Null
                 [] c.op = "transfer" -> c.wallet

\* The rows the SELECT ... FOR UPDATE of the call selects.
Needs(c) == (CASE c.op \in {"fund", "withdraw"} -> {Own(c)}
               [] c.op = "transfer"             -> {Own(c), c.wallet}
               [] c.op = "updateWalletStatus"   -> {c.wallet}) \cap Wallets

Held(r) == {w \in Wallets : lock[w] = r}

\* Slip of RefusedUnlocked: no SELF_TRANSFER.
RefusedUnlockedSelfless(c) == c.op = "transfer" /\ Own(c) = Null

\* transfer looks up the sender outside the transaction and refuses before
\* any lock is requested.
RefusedUnlocked(c) == c.op = "transfer" /\ Own(c) \in {Null, c.wallet}

\* Slip of NextLock: no ORDER BY, rows are visited in any order.
NextLockUnordered(r, w) ==
  /\ phase[r] = "locking" /\ ~RefusedUnlocked(call[r])
  /\ w \in Needs(call[r]) \ Held(r)

\* The row lock the statement waits for: ORDER BY id visits rows in key order.
NextLock(r, w) ==
  /\ phase[r] = "locking" /\ ~RefusedUnlocked(call[r])
  /\ w \in Needs(call[r]) \ Held(r)
  /\ \A v \in Needs(call[r]) \ Held(r) : w <= v

\* Slip of RefusedLocked: no look at the balance of the debited wallet.
RefusedLockedUnfunded(r) ==
  LET c == call[r] IN
  \/ IsMoney(c) /\ Own(c) = Null
  \/ c.op \in {"transfer", "updateWalletStatus"} /\ c.wallet \notin Wallets
  \/ IsMoney(c) /\ \E w \in Needs(c) : view[r][w].status # "active"

\* Slip of RefusedLocked: only the caller's wallet has to be active.
RefusedLockedOwnStatus(r) ==
  LET c == call[r] IN
  \/ IsMoney(c) /\ Own(c) = Null
  \/ c.op \in {"transfer", "updateWalletStatus"} /\ c.wallet \notin Wallets
  \/ IsMoney(c) /\ \E w \in Needs(c) \cap {Own(c)} : view[r][w].status # "active"
  \/ IsMoney(c) /\ Debited(c) \in Wallets /\ view[r][Debited(c)].balance < c.amount

\* The checks made on the locked rows.
RefusedLocked(r) ==
  LET c == call[r] IN
  \/ IsMoney(c) /\ Own(c) = Null
  \/ c.op \in {"transfer", "updateWalletStatus"} /\ c.wallet \notin Wallets
  \/ IsMoney(c) /\ \E w \in Needs(c) : view[r][w].status # "active"
  \/ IsMoney(c) /\ Debited(c) \in Wallets /\ view[r][Debited(c)].balance < c.amount

\* All rows read and all checks passed.
Cleared(r) ==
  /\ phase[r] = "locking"
  /\ ~RefusedUnlocked(call[r])
  /\ Held(r) = Needs(call[r])
  /\ ~RefusedLocked(r)

-----------------------------------------------------------------------------
\* Before the run each wallet with money was funded once: lines 2w and 2w+1.
Init ==
  /\ balance = Opening
  /\ status = [w \in Wallets |-> "active"]
  /\ entries = UNION {{Line(2*w, w, "CREDIT", Opening[w], Opening[w]),
                       Line(2*w + 1, Null, "DEBIT", Opening[w], Null)}
                        : w \in {x \in Wallets : Opening[x] > 0}}
  /\ audit = [w \in Wallets |-> <<>>]
  /\ nextEntryId = FirstEntryId
  /\ lock = [w \in Wallets |-> Null]
  /\ phase = [r \in Requests |-> "idle"]
  /\ call = [r \in Requests |-> Null]
  /\ view = [r \in Requests |-> [w \in Wallets |-> Null]]
  /\ posted = [r \in Requests |-> {}]
  /\ noted = [r \in Requests |-> <<>>]

\* The controller calls the service, which opens a transaction; the route has
\* rejected an amount out of bounds before.
Begin(r, c) ==
  /\ phase[r] = "idle"
  /\ IsMoney(c) => ValidAmount(c.amount)
  /\ phase' = [phase EXCEPT ![r] = "locking"]
  /\ call' = [call EXCEPT ![r] = c]
  /\ UNCHANGED <<committed, nextEntryId, lock, view, posted, noted>>

\* Slip of AcquireLock: the row is read without waiting for its holder.
AcquireLockUnqueued(r, w) ==
  /\ NextLock(r, w)
  /\ lock' = [lock EXCEPT ![w] = r]
  /\ view' = [view EXCEPT ![r][w] = [balance |-> balance[w], status |-> status[w]]]
  /\ UNCHANGED <<committed, nextEntryId, phase, call, posted, noted>>

\* FOR UPDATE locks one more row and reads its latest committed version.
AcquireLock(r, w) ==
  /\ NextLock(r, w)
  /\ lock[w] = Null
  /\ lock' = [lock EXCEPT ![w] = r]
  /\ view' = [view EXCEPT ![r][w] = [balance |-> balance[w], status |-> status[w]]]
  /\ UNCHANGED <<committed, nextEntryId, phase, call, posted, noted>>

\* The end of a transaction: its locks go, and with them its private state.
Release(r, outcome) ==
  /\ phase' = [phase EXCEPT ![r] = outcome]
  /\ lock' = [w \in Wallets |-> IF lock[w] = r THEN Null ELSE lock[w]]
  /\ call' = [call EXCEPT ![r] = Null]
  /\ view' = [view EXCEPT ![r] = [w \in Wallets |-> Null]]
  /\ posted' = [posted EXCEPT ![r] = {}]
  /\ noted' = [noted EXCEPT ![r] = <<>>]

\* A check throws an AppError; runTransaction rolls back.
Refuse(r) ==
  /\ phase[r] = "locking"
  /\ \/ RefusedUnlocked(call[r])
     \/ Held(r) = Needs(call[r]) /\ RefusedLocked(r)
  /\ Release(r, "rolledback")
  /\ UNCHANGED <<committed, nextEntryId>>

\* Slip of NewBalance: the recipient is set to the balance it was read with.
NewBalanceUncredited(r, w) ==
  LET c == call[r]
      row == view[r][w] IN
  CASE w = Debited(c)  -> row.balance - c.amount
    [] w = Credited(c) -> row.balance

\* The balance the call leaves on a wallet it has locked.
NewBalance(r, w) ==
  LET c == call[r]
      row == view[r][w] IN
  CASE w = Debited(c)  -> row.balance - c.amount
    [] w = Credited(c) -> row.balance + c.amount

\* ledger.record and updateBalance: the caller's own line is inserted first,
\* its counterparty's second, and each wallet is set to its line's balance.
\* The CHECK (balance >= 0) of the table is not a guard: the model shows that
\* the service's own check under the lock is enough.
Post(r) ==
  LET c == call[r]
      own == Own(c)
      other == IF c.op = "transfer" THEN c.wallet ELSE Null
      side(w) == IF w = Credited(c) THEN "CREDIT" ELSE "DEBIT" IN
  /\ Cleared(r) /\ IsMoney(c)
  /\ posted' = [posted EXCEPT ![r] =
       {Line(nextEntryId, own, side(own), c.amount, NewBalance(r, own)),
        Line(nextEntryId + 1, other, side(other), c.amount,
             IF other = Null THEN Null ELSE NewBalance(r, other))}]
  /\ nextEntryId' = nextEntryId + 2
  /\ view' = [view EXCEPT ![r] = [w \in Wallets |->
       IF w \in Needs(c)
         THEN [balance |-> NewBalance(r, w), status |-> view[r][w].status]
         ELSE view[r][w]]]
  /\ phase' = [phase EXCEPT ![r] = "written"]
  /\ UNCHANGED <<committed, lock, call, noted>>

\* updateWalletStatus: a change writes the row and its audit row, setting the
\* status it already has writes nothing.
UpdateStatus(r) ==
  LET c == call[r]
      old == view[r][c.wallet].status IN
  /\ Cleared(r) /\ ~IsMoney(c)
  /\ IF old = c.status
       THEN UNCHANGED <<view, noted>>
       ELSE /\ view' = [view EXCEPT ![r][c.wallet].status = c.status]
            /\ noted' = [noted EXCEPT ![r] = <<[from |-> old, to |-> c.status]>>]
  /\ phase' = [phase EXCEPT ![r] = "written"]
  /\ UNCHANGED <<committed, nextEntryId, lock, call, posted>>

\* COMMIT: the rows and lines of the transaction appear together.
Commit(r) ==
  /\ phase[r] = "written"
  /\ balance' = [w \in Wallets |-> IF lock[w] = r THEN view[r][w].balance ELSE balance[w]]
  /\ status' = [w \in Wallets |-> IF lock[w] = r THEN view[r][w].status ELSE status[w]]
  /\ entries' = entries \cup posted[r]
  /\ audit' = [w \in Wallets |->
       IF w = call[r].wallet THEN audit[w] \o noted[r] ELSE audit[w]]
  /\ Release(r, "committed")
  /\ UNCHANGED nextEntryId

\* Slip of Abort: the audit row was written outside the transaction.
AbortKeepsAudit(r) ==
  /\ phase[r] \in {"locking", "written"}
  /\ audit' = [w \in Wallets |->
       IF w = call[r].wallet THEN audit[w] \o noted[r] ELSE audit[w]]
  /\ Release(r, "rolledback")
  /\ UNCHANGED <<balance, status, entries, nextEntryId>>

\* A lost connection, a failing statement, a lock wait timeout, or the death of
\* the process: InnoDB rolls the transaction back.
Abort(r) ==
  /\ phase[r] \in {"locking", "written"}
  /\ Release(r, "rolledback")
  /\ UNCHANGED <<committed, nextEntryId>>

Step(r) ==
  \/ \E w \in Wallets : AcquireLock(r, w)
  \/ Refuse(r) \/ Post(r) \/ UpdateStatus(r) \/ Commit(r)

Next == \E r \in Requests :
  \/ \E c \in Calls : Begin(r, c)
  \/ Step(r)
  \/ Abort(r)

Spec == Init /\ [][Next]_vars

\* An open transaction goes on when it can: the event loop runs its next
\* statement and InnoDB grants a free lock.  Failures are not owed.
FairSpec == Spec /\ \A r \in Requests : WF_vars(Step(r))

-----------------------------------------------------------------------------
(* Types.                                                                  *)

Row == [balance: Nat, status: WalletStatus]
Change == {c \in [from: WalletStatus, to: WalletStatus] : c.from # c.to}

\* Every variable has its type: balances never go below zero though nothing but
\* the check under the row lock prevents it, and an audit row is a real change.
TypeOK ==
  /\ balance \in [Wallets -> Nat]
  /\ status \in [Wallets -> WalletStatus]
  /\ entries \subseteq WalletLine \cup SystemLine
  /\ audit \in [Wallets -> Seq(Change)]
  /\ nextEntryId \in Nat
  /\ lock \in [Wallets -> Requests \cup {Null}]
  /\ phase \in [Requests -> {"idle", "locking", "written", "committed", "rolledback"}]
  /\ call \in [Requests -> Calls \cup {Null}]
  /\ view \in [Requests -> [Wallets -> Row \cup {Null}]]
  /\ posted \in [Requests -> SUBSET (WalletLine \cup SystemLine)]
  /\ noted \in [Requests -> Seq(Change)]

-----------------------------------------------------------------------------
(* Properties.                                                             *)

\* Read in id order, the lines are one unbroken account that ends in b.
Chain(lines, b) ==
  LET Before(e) == {g \in lines : g.id < e.id}
      After(e) == {g \in lines : e.id < g.id} IN
  /\ \A e \in lines : Before(e) = {} => e.balanceAfter = Signed(e)
  /\ \A e \in lines, f \in lines : e.id < f.id /\ Before(f) \cap After(e) = {} =>
       f.balanceAfter = e.balanceAfter + Signed(f)
  /\ \A e \in lines : After(e) = {} => b = e.balanceAfter
  /\ lines = {} => b = 0

\* The lines of a wallet chain, in id order, to its balance: each balance_after
\* is the previous one plus or minus the amount, the first starts from zero and
\* the last is wallets.balance.  Two transactions that both computed from the
\* same row, or a balance written without its line, would break the chain
\* (wallets.service.ts, transfers.service.ts).
LedgerChain == \A w \in Wallets : Chain(LinesOf(w), balance[w])

\* A line that becomes visible is newer than every visible line of its wallet,
\* although ids are drawn before the commit and a rollback leaves holes: a page
\* of the statement below a cursor never gains a row (listStatement).
StatementAppends ==
  [][\A w \in Wallets : \A f \in LinesOf(w), e \in entries' \ entries :
       e.wallet = w => f.id < e.id]_vars

\* No balance moves while the committed status is frozen, even if the money
\* transaction was under way when the administrator froze the wallet
\* (admin.service.ts locks the same row).
FrozenMovesNothing ==
  [][\A w \in Wallets : status[w] = "frozen" => balance'[w] = balance[w]]_vars

\* The audit rows of a wallet tell its whole history: they chain from the
\* initial status to the present one, none missing and none stale.
AuditReplaysStatus == \A w \in Wallets : Replay(audit[w], status[w])

\* Postings inserted since Init, rolled back or not.
Postings == (nextEntryId - FirstEntryId) \div 2

\* No number the services compute, committed or not, outgrows the cap of one
\* request times the postings made: the cap "bounds ... JS safe-integer
\* arithmetic" (money.ts) for as long as that product is below 2^53.
BalancesStaySafe ==
  \A w \in Wallets :
    LET bound == Opening[w] + MaxAmount * Postings IN
    /\ balance[w] <= bound
    /\ \A r \in Requests : lock[w] = r => view[r][w].balance <= bound

\* r waits for a row lock that q holds.
Waits(r, q) == \E w \in Wallets : NextLock(r, w) /\ lock[w] = q /\ q # r

\* No set of requests waits only for one another, so crossing transfers queue
\* rather than deadlock (findManyByIdsForUpdate orders by id).
NoWaitCycle ==
  \A S \in (SUBSET Requests) \ {{}} : \E r \in S : ~\E q \in S : Waits(r, q)

\* Every transaction that starts ends, with no help from a timeout.
TransactionsEnd ==
  \A r \in Requests : phase[r] = "locking" ~> phase[r] \in {"committed", "rolledback"}

=============================================================================
