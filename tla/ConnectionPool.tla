--------------------------- MODULE ConnectionPool ---------------------------
(***************************************************************************)
(* The connection pool that every statement of every request goes through. *)
(* A statement outside a transaction borrows a connection and returns it;  *)
(* a transaction keeps the one its BEGIN borrowed until it ends.  transfer *)
(* and updateUserStatus run a statement on the pool inside a transaction,  *)
(* so they need a second connection while they hold the first.  Row locks  *)
(* are modelled as far as a connection waits for them: those of FOR UPDATE *)
(* and those that foreign keys take on the users row of the caller.        *)
(***************************************************************************)
EXTENDS Naturals, Sequences, FiniteSets, Functions, SequencesExt

CONSTANTS
  Requests,  \* HTTP requests in flight together; each runs once
  PoolMax,   \* DB_POOL_MAX
  OpOf,      \* the endpoint each request calls
  RowsOf,    \* the rows its transaction locks FOR UPDATE: of `users` for
             \* updateUserStatus, of `wallets` for the others
  CallerRow, \* the users row of its caller
  Null       \* no holder

Ops == {"fund", "transfer", "updateUserStatus", "updateWalletStatus", "signUp",
        "statement"}

Rows == (UNION Range(RowsOf)) \cup Range(CallerRow)

ASSUME PoolAssumption ==
  /\ IsFiniteSet(Requests)
  /\ PoolMax \in Nat \ {0}
  /\ OpOf \in [Requests -> Ops]
  /\ DOMAIN RowsOf = Requests /\ DOMAIN CallerRow = Requests
  /\ \A r \in Requests :
       OpOf[r] # "updateUserStatus" => RowsOf[r] \cap Range(CallerRow) = {}
  /\ Null \notin Requests

VARIABLES
  step,    \* the next statement of each request; 0 before it arrives
  waiting, \* requests that wait for a connection, first come first served
  lent,    \* requests with a connection for the statement they are about to run
  open,    \* requests with a transaction, and its connection, open
  holder,  \* the request that holds the exclusive lock of each row
  readers  \* the requests that hold its shared lock

rowLocks == <<holder, readers>>
poolVars == <<step, waiting, lent, open, rowLocks>>

\* What a request asks of the database, in order; withdraw asks what fund does.
\* "claim" is the INSERT of an idempotency key and "audit" that of an audit row,
\* whose foreign keys read the caller's users row under a shared lock; "release"
\* is the UPDATE on 'finish'.
Program(op) ==
  CASE op = "fund"               -> <<"query", "claim", "begin", "lock", "commit", "release">>
    [] op = "transfer"           -> <<"query", "claim", "begin", "query", "lock", "commit",
                                      "release">>
    [] op = "updateUserStatus"   -> <<"query", "begin", "lock", "audit", "query", "commit">>
    [] op = "updateWalletStatus" -> <<"query", "begin", "lock", "audit", "commit">>
    [] op = "signUp"             -> <<"query", "begin", "commit">>
    [] op = "statement"          -> <<"query", "query", "query">>

Statements == [r \in Requests |-> Program(OpOf[r])]

Active(r) == step[r] \in 1 .. Len(Statements[r])
Doing(r, s) == Active(r) /\ Statements[r][step[r]] = s
OnPool(r) == \E s \in {"query", "claim", "begin", "release"} : Doing(r, s)

Used == Cardinality(lent) + Cardinality(open)

\* Locks that another transaction would have to give up first.
CanRead(r, row) == holder[row] \in {r, Null}
CanWrite(r, row) == CanRead(r, row) /\ readers[row] \subseteq {r}

-----------------------------------------------------------------------------
Init ==
  /\ step = [r \in Requests |-> 0]
  /\ waiting = <<>>
  /\ lent = {}
  /\ open = {}
  /\ holder = [row \in Rows |-> Null]
  /\ readers = [row \in Rows |-> {}]

Proceed(r) == step' = [step EXCEPT ![r] = @ + 1]

Arrive(r) ==
  /\ step[r] = 0
  /\ Proceed(r)
  /\ UNCHANGED <<waiting, lent, open, rowLocks>>

\* The pool queues every acquire and serves the queue in order.
Acquire(r) ==
  /\ OnPool(r) /\ r \notin lent /\ ~Contains(waiting, r)
  /\ waiting' = Append(waiting, r)
  /\ UNCHANGED <<step, lent, open, rowLocks>>

\* Slip of Grant: no maximum.
GrantAlways ==
  /\ waiting # <<>>
  /\ lent' = lent \cup {Head(waiting)}
  /\ waiting' = Tail(waiting)
  /\ UNCHANGED <<step, open, rowLocks>>

Grant ==
  /\ waiting # <<>> /\ Used < PoolMax
  /\ lent' = lent \cup {Head(waiting)}
  /\ waiting' = Tail(waiting)
  /\ UNCHANGED <<step, open, rowLocks>>

\* A statement of its own: the connection goes back to the pool.
Query(r) ==
  /\ r \in lent
  /\ \/ Doing(r, "query") \/ Doing(r, "release")
     \/ Doing(r, "claim") /\ CanRead(r, CallerRow[r])
  /\ lent' = lent \ {r}
  /\ Proceed(r)
  /\ UNCHANGED <<waiting, open, rowLocks>>

BeginTransaction(r) ==
  /\ r \in lent /\ Doing(r, "begin")
  /\ lent' = lent \ {r}
  /\ open' = open \cup {r}
  /\ Proceed(r)
  /\ UNCHANGED <<waiting, rowLocks>>

\* FOR UPDATE, on the transaction's own connection.  A status that is set already
\* is neither written nor audited; an administrator's own account is refused
\* (StatementFails).
Lock(r) ==
  /\ Doing(r, "lock")
  /\ \A row \in RowsOf[r] : CanWrite(r, row)
  /\ holder' = [row \in Rows |-> IF row \in RowsOf[r] THEN r ELSE holder[row]]
  /\ \/ Proceed(r)
     \/ /\ Statements[r][step[r] + 1] = "audit" /\ CallerRow[r] \notin RowsOf[r]
        /\ step' = [step EXCEPT ![r] = @ + 2]
  /\ UNCHANGED <<waiting, lent, open, readers>>

\* recordAction, which names the administrator.
Audit(r) ==
  /\ Doing(r, "audit") /\ CallerRow[r] \notin RowsOf[r]
  /\ CanRead(r, CallerRow[r])
  /\ readers' = [readers EXCEPT ![CallerRow[r]] = @ \cup {r}]
  /\ Proceed(r)
  /\ UNCHANGED <<waiting, lent, open, holder>>

\* Slip of GiveBack: an open transaction is neither committed nor rolled back.
GiveBackUnfinished(r) ==
  /\ lent' = lent \ {r}
  /\ UNCHANGED <<open, rowLocks>>

\* Whatever r holds of the pool and of the rows is given back.
GiveBack(r) ==
  /\ lent' = lent \ {r}
  /\ open' = open \ {r}
  /\ holder' = [row \in Rows |-> IF holder[row] = r THEN Null ELSE holder[row]]
  /\ readers' = [row \in Rows |-> readers[row] \ {r}]

Commit(r) ==
  /\ Doing(r, "commit")
  /\ GiveBack(r)
  /\ Proceed(r)
  /\ UNCHANGED waiting

\* An error ends the request: 500, and 'finish' releases the key it claimed.
EndsAt(r) ==
  LET p == Statements[r] IN
  IF \E i \in 1 .. step[r] - 1 : p[i] = "claim" /\ step[r] < Len(p)
    THEN Len(p) ELSE Len(p) + 1

Fail(r) ==
  /\ GiveBack(r)
  /\ step' = [step EXCEPT ![r] = EndsAt(r)]

\* Slip of AcquireTimesOut: no acquireConnectionTimeout.
AcquireWaitsForever(r) == Contains(waiting, r) /\ UNCHANGED poolVars

\* acquireConnectionTimeout passes: the acquire is withdrawn and throws.
AcquireTimesOut(r) ==
  /\ \E i \in DOMAIN waiting : waiting[i] = r /\ waiting' = RemoveAt(waiting, i)
  /\ Fail(r)

\* A statement fails, a row lock is not granted in time, or the service refuses.
StatementFails(r) ==
  /\ Active(r) /\ ~Contains(waiting, r)
  /\ Fail(r)
  /\ UNCHANGED waiting

\* r waits for q to give up the lock of a row.
WaitsFor(r, q) ==
  /\ q # r
  /\ \/ /\ Doing(r, "lock")
        /\ \E row \in RowsOf[r] : holder[row] = q \/ q \in readers[row]
     \/ /\ Doing(r, "audit") \/ (Doing(r, "claim") /\ r \in lent)
        /\ holder[CallerRow[r]] = q

\* Each of S waits for another of S; in a least such set, each for the next.
Circle(S) == S # {} /\ \A r \in S : \E q \in S : WaitsFor(r, q)

Waiters == {r \in Requests : \E q \in Requests : WaitsFor(r, q)}

OnCircle(r) ==
  /\ r \in Waiters
  /\ \E S \in SUBSET Waiters :
       r \in S /\ Circle(S) /\ \A T \in SUBSET S : Circle(T) => T = S

\* InnoDB finds a circle of lock waits and rolls one of its transactions back.
DeadlockVictim(r) ==
  /\ OnCircle(r)
  /\ Fail(r)
  /\ UNCHANGED waiting

Advance(r) ==
  \/ Acquire(r) \/ Query(r) \/ BeginTransaction(r) \/ Lock(r) \/ Audit(r) \/ Commit(r)

Next ==
  \/ Grant
  \/ \E r \in Requests :
       \/ Arrive(r) \/ Advance(r) \/ DeadlockVictim(r)
       \/ AcquireTimesOut(r) \/ StatementFails(r)

Spec == Init /\ [][Next]_poolVars

\* Statements run, a free connection is handed out, deadlocks of row locks are
\* detected, and the acquire timer fires.
FairSpec ==
  /\ Spec
  /\ WF_poolVars(Grant)
  /\ WF_poolVars(\E r \in Requests : DeadlockVictim(r))
  /\ \A r \in Requests : WF_poolVars(Advance(r)) /\ WF_poolVars(AcquireTimesOut(r))

-----------------------------------------------------------------------------
\* Every variable has its type, and the pool never lends more than its maximum.
TypeOK ==
  /\ step \in [Requests -> 0 .. 8]
  /\ waiting \in Seq(Requests)
  /\ lent \in SUBSET Requests
  /\ open \in SUBSET Requests
  /\ holder \in [Rows -> Requests \cup {Null}]
  /\ readers \in [Rows -> SUBSET Requests]
  /\ Used <= PoolMax

\* r needs a connection and all are out, or a row lock that another holds.
Stuck(r) ==
  \/ OnPool(r) /\ r \notin lent /\ Used = PoolMax
  \/ r \in Waiters

\* The requests in flight never all wait for one another, for a connection or a
\* row, with only a timeout to free them (README.md: crossing transfers "can
\* never deadlock").
SomeoneMoves ==
  (\E r \in Requests : Active(r)) => \E r \in Requests : Active(r) /\ ~Stuck(r)

\* r asks the pool for a second connection inside its transaction
\* (transfers.service.ts, admin.service.ts).
WantsSecond(r) == r \in open /\ Doing(r, "query") /\ r \notin lent

\* Administrators change the status of each other's accounts: each has locked the
\* row of the next, and waits to name itself in the audit log.
AdminsInCircle ==
  \E S \in SUBSET {r \in Waiters : OpOf[r] = "updateUserStatus"} : Circle(S)

\* The service comes to a standstill in two ways only: a transaction asks the pool
\* for a second connection, or administrators change each other's accounts.  Wallet
\* rows, claims of keys and freezes with their audit rows never cause one.
StallsAreExplained ==
  ~SomeoneMoves => AdminsInCircle \/ \E r \in Requests : WantsSecond(r)

\* Every request ends, if only because the acquire timeout breaks a standstill on
\* the pool and InnoDB one on the rows: in the end nobody is in flight.
RequestsEnd == <>[](\A r \in Requests : ~Active(r))
=============================================================================
