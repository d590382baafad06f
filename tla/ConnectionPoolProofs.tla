------------------------ MODULE ConnectionPoolProofs ------------------------
(***************************************************************************)
(* Theorems about the connection pool, for any pool size and any requests. *)
(***************************************************************************)
EXTENDS ConnectionPool, FiniteSetTheorems, SequenceTheorems, TLAPS

\* A sequence without its k-th element.
LEMMA RemoveAtProperties ==
  ASSUME NEW S, NEW s \in Seq(S), NEW k \in 1 .. Len(s)
  PROVE  /\ Len(RemoveAt(s, k)) = Len(s) - 1
         /\ \A i \in 1 .. Len(RemoveAt(s, k)) :
              RemoveAt(s, k)[i] = IF i < k THEN s[i] ELSE s[i + 1]
         /\ RemoveAt(s, k) \in Seq(S)
<1> DEFINE before == SubSeq(s, 1, k - 1)
           after == SubSeq(s, k + 1, Len(s))
<1>1. /\ before \in Seq(S) /\ Len(before) = k - 1
      /\ \A i \in 1 .. k - 1 : before[i] = s[i]
  OBVIOUS
<1>2. /\ after \in Seq(S) /\ Len(after) = Len(s) - k
      /\ \A i \in 1 .. Len(s) - k : after[i] = s[i + k]
  OBVIOUS
<1>3. RemoveAt(s, k) = before \o after
  BY DEF RemoveAt
<1> HIDE DEF before, after
<1>4. /\ before \o after \in Seq(S)
      /\ Len(before \o after) = Len(before) + Len(after)
      /\ \A i \in 1 .. Len(before) + Len(after) :
           (before \o after)[i] = IF i <= Len(before) THEN before[i] ELSE after[i - Len(before)]
  BY <1>1, <1>2, ConcatProperties, Zenon
<1>5. Len(before) + Len(after) = Len(s) - 1
  BY <1>1, <1>2
<1>6. ASSUME NEW i \in 1 .. Len(s) - 1
      PROVE  (before \o after)[i] = IF i < k THEN s[i] ELSE s[i + 1]
  <2>1. CASE i < k
    BY <1>1, <1>4, <1>5, <2>1
  <2>2. CASE ~(i < k)
    <3>1. /\ i - (k - 1) \in 1 .. Len(s) - k /\ ~(i <= k - 1)
          /\ i - (k - 1) + k = i + 1
      BY <2>2
    <3>2. after[i - (k - 1)] = s[i + 1]
      BY <1>2, <3>1
    <3>3. (before \o after)[i] = after[i - (k - 1)]
      BY <1>1, <1>4, <1>5, <3>1
    <3> QED BY <2>2, <3>2, <3>3, Zenon
  <2> QED BY <2>1, <2>2
<1> QED BY <1>3, <1>4, <1>5, <1>6

USE PoolAssumption DEF PoolAssumption, rowLocks

-----------------------------------------------------------------------------
(* Where each statement stands in the programs, by step.                   *)

Begins(op, n) ==
  <<op, n>> \in {<<"fund", 3>>, <<"transfer", 3>>, <<"updateUserStatus", 2>>,
                <<"updateWalletStatus", 2>>, <<"signUp", 2>>}
Locks(op, n) ==
  <<op, n>> \in {<<"fund", 4>>, <<"transfer", 5>>, <<"updateUserStatus", 3>>,
                <<"updateWalletStatus", 3>>}
Audits(op, n) == <<op, n>> \in {<<"updateUserStatus", 4>>, <<"updateWalletStatus", 4>>}
Commits(op, n) ==
  <<op, n>> \in {<<"fund", 5>>, <<"transfer", 6>>, <<"updateUserStatus", 6>>,
                <<"updateWalletStatus", 5>>, <<"signUp", 3>>}
Queries(op, n) ==
  \/ op \in Ops /\ n = 1
  \/ <<op, n>> \in {<<"transfer", 4>>, <<"updateUserStatus", 5>>,
                   <<"statement", 2>>, <<"statement", 3>>}
Claims(op, n) == <<op, n>> \in {<<"fund", 2>>, <<"transfer", 2>>}
Releases(op, n) == <<op, n>> \in {<<"fund", 6>>, <<"transfer", 7>>}
LastStep(op) == CASE op = "fund" -> 6 [] op = "transfer" -> 7
                  [] op = "updateUserStatus" -> 6 [] op = "updateWalletStatus" -> 5
                  [] op \in {"signUp", "statement"} -> 3

\* The steps at which a transaction is open, those at which it has its rows, and
\* those at which it has named the caller in the audit log.
OpenSteps ==
  {<<"fund", 4>>, <<"fund", 5>>, <<"transfer", 4>>, <<"transfer", 5>>, <<"transfer", 6>>,
   <<"updateUserStatus", 3>>, <<"updateUserStatus", 4>>, <<"updateUserStatus", 5>>,
   <<"updateUserStatus", 6>>, <<"updateWalletStatus", 3>>, <<"updateWalletStatus", 4>>,
   <<"updateWalletStatus", 5>>, <<"signUp", 3>>}
LockedSteps ==
  {<<"fund", 5>>, <<"transfer", 6>>, <<"updateUserStatus", 4>>, <<"updateUserStatus", 5>>,
   <<"updateUserStatus", 6>>, <<"updateWalletStatus", 4>>, <<"updateWalletStatus", 5>>}
AuditedSteps ==
  {<<"updateUserStatus", 5>>, <<"updateUserStatus", 6>>, <<"updateWalletStatus", 5>>}

\* What each program has at each step.
LEMMA Programs ==
  \A op \in Ops :
    /\ Len(Program(op)) = LastStep(op)
    /\ \A n \in 1 .. LastStep(op) :
         /\ Program(op)[n] = "begin" <=> Begins(op, n)
         /\ Program(op)[n] = "lock" <=> Locks(op, n)
         /\ Program(op)[n] = "audit" <=> Audits(op, n)
         /\ Program(op)[n] = "commit" <=> Commits(op, n)
         /\ Program(op)[n] = "query" <=> Queries(op, n)
         /\ Program(op)[n] = "claim" <=> Claims(op, n)
         /\ Program(op)[n] = "release" <=> Releases(op, n)
<1> SUFFICES ASSUME NEW op \in Ops
             PROVE  /\ Len(Program(op)) = LastStep(op)
                    /\ \A n \in 1 .. LastStep(op) :
                         /\ Program(op)[n] = "begin" <=> Begins(op, n)
                         /\ Program(op)[n] = "lock" <=> Locks(op, n)
                         /\ Program(op)[n] = "audit" <=> Audits(op, n)
                         /\ Program(op)[n] = "commit" <=> Commits(op, n)
                         /\ Program(op)[n] = "query" <=> Queries(op, n)
                         /\ Program(op)[n] = "claim" <=> Claims(op, n)
                         /\ Program(op)[n] = "release" <=> Releases(op, n)
  OBVIOUS
<1> USE DEF Begins, Locks, Audits, Commits, Queries, Claims, Releases, LastStep, Ops
<1>1. CASE op = "fund"
  <2>1. Program(op) = <<"query", "claim", "begin", "lock", "commit", "release">>
    BY <1>1 DEF Program
  <2>2. /\ Len(Program(op)) = 6
        /\ Program(op)[1] = "query"
        /\ Program(op)[2] = "claim"
        /\ Program(op)[3] = "begin"
        /\ Program(op)[4] = "lock"
        /\ Program(op)[5] = "commit"
        /\ Program(op)[6] = "release"
    BY <2>1
  <2>3. 1 .. LastStep(op) = {1, 2, 3, 4, 5, 6}
    BY <1>1
  <2> QED BY <1>1, <2>2, <2>3
<1>2. CASE op = "transfer"
  <2>1. Program(op) = <<"query", "claim", "begin", "query", "lock", "commit", "release">>
    BY <1>2 DEF Program
  <2>2. /\ Len(Program(op)) = 7
        /\ Program(op)[1] = "query"
        /\ Program(op)[2] = "claim"
        /\ Program(op)[3] = "begin"
        /\ Program(op)[4] = "query"
        /\ Program(op)[5] = "lock"
        /\ Program(op)[6] = "commit"
        /\ Program(op)[7] = "release"
    BY <2>1
  <2>3. 1 .. LastStep(op) = {1, 2, 3, 4, 5, 6, 7}
    BY <1>2
  <2> QED BY <1>2, <2>2, <2>3
<1>3. CASE op = "updateUserStatus"
  <2>1. Program(op) = <<"query", "begin", "lock", "audit", "query", "commit">>
    BY <1>3 DEF Program
  <2>2. /\ Len(Program(op)) = 6
        /\ Program(op)[1] = "query"
        /\ Program(op)[2] = "begin"
        /\ Program(op)[3] = "lock"
        /\ Program(op)[4] = "audit"
        /\ Program(op)[5] = "query"
        /\ Program(op)[6] = "commit"
    BY <2>1
  <2>3. 1 .. LastStep(op) = {1, 2, 3, 4, 5, 6}
    BY <1>3
  <2> QED BY <1>3, <2>2, <2>3
<1>4. CASE op = "updateWalletStatus"
  <2>1. Program(op) = <<"query", "begin", "lock", "audit", "commit">>
    BY <1>4 DEF Program
  <2>2. /\ Len(Program(op)) = 5
        /\ Program(op)[1] = "query"
        /\ Program(op)[2] = "begin"
        /\ Program(op)[3] = "lock"
        /\ Program(op)[4] = "audit"
        /\ Program(op)[5] = "commit"
    BY <2>1
  <2>3. 1 .. LastStep(op) = {1, 2, 3, 4, 5}
    BY <1>4
  <2> QED BY <1>4, <2>2, <2>3
<1>5. CASE op = "signUp"
  <2>1. Program(op) = <<"query", "begin", "commit">>
    BY <1>5 DEF Program
  <2>2. /\ Len(Program(op)) = 3
        /\ Program(op)[1] = "query"
        /\ Program(op)[2] = "begin"
        /\ Program(op)[3] = "commit"
    BY <2>1
  <2>3. 1 .. LastStep(op) = {1, 2, 3}
    BY <1>5
  <2> QED BY <1>5, <2>2, <2>3
<1>6. CASE op = "statement"
  <2>1. Program(op) = <<"query", "query", "query">>
    BY <1>6 DEF Program
  <2>2. /\ Len(Program(op)) = 3
        /\ Program(op)[1] = "query"
        /\ Program(op)[2] = "query"
        /\ Program(op)[3] = "query"
    BY <2>1
  <2>3. 1 .. LastStep(op) = {1, 2, 3}
    BY <1>6
  <2> QED BY <1>6, <2>2, <2>3
<1> QED BY <1>1, <1>2, <1>3, <1>4, <1>5, <1>6 DEF Ops

\* The same of a request and its next statement.
LEMMA NextStatement ==
  ASSUME step \in [Requests -> Nat], NEW r \in Requests
  PROVE  /\ Active(r) <=> step[r] \in 1 .. LastStep(OpOf[r])
         /\ Doing(r, "begin") <=> Begins(OpOf[r], step[r])
         /\ Doing(r, "lock") <=> Locks(OpOf[r], step[r])
         /\ Doing(r, "audit") <=> Audits(OpOf[r], step[r])
         /\ Doing(r, "commit") <=> Commits(OpOf[r], step[r])
         /\ Doing(r, "query") <=> Queries(OpOf[r], step[r])
         /\ Doing(r, "claim") <=> Claims(OpOf[r], step[r])
         /\ Doing(r, "release") <=> Releases(OpOf[r], step[r])
         /\ LastStep(OpOf[r]) \in 1 .. 7
<1>1. OpOf[r] \in Ops
  OBVIOUS
<1>2. Len(Program(OpOf[r])) = LastStep(OpOf[r]) /\ LastStep(OpOf[r]) \in 1 .. 7
  <2>1. LastStep(OpOf[r]) \in 1 .. 7
    BY <1>1 DEF LastStep, Ops
  <2> QED BY <1>1, <2>1, Programs
<1>3. step[r] \notin 1 .. LastStep(OpOf[r]) =>
        /\ ~Begins(OpOf[r], step[r]) /\ ~Locks(OpOf[r], step[r])
        /\ ~Audits(OpOf[r], step[r]) /\ ~Commits(OpOf[r], step[r]) /\ ~Queries(OpOf[r], step[r])
        /\ ~Claims(OpOf[r], step[r]) /\ ~Releases(OpOf[r], step[r])
  BY <1>1 DEF Begins, Locks, Audits, Commits, Queries, Claims, Releases, LastStep, Ops
<1> QED BY <1>1, <1>2, <1>3, Programs DEF Active, Doing, Statements

-----------------------------------------------------------------------------
(* The invariant: a request waits or borrows only for a statement on the pool, *)
(* has a transaction open exactly between its "begin" and its "commit", and    *)
(* holds its rows only past its "lock" and the caller's only past its "audit". *)

InTransaction(r) == <<OpOf[r], step[r]>> \in OpenSteps
PastLock(r) == <<OpOf[r], step[r]>> \in LockedSteps
PastAudit(r) == <<OpOf[r], step[r]>> \in AuditedSteps

Queue ==
  /\ waiting \in Seq(Requests)
  /\ \A q \in Requests : Contains(waiting, q) => OnPool(q) /\ q \notin lent
  /\ \A i, j \in 1 .. Len(waiting) : waiting[i] = waiting[j] => i = j

Borrowed ==
  /\ lent \in SUBSET Requests /\ open \in SUBSET Requests
  /\ \A r \in lent : OnPool(r)
  /\ \A r \in Requests : r \in open <=> InTransaction(r)
  /\ Used <= PoolMax

RowsHeld ==
  /\ holder \in [Rows -> Requests \cup {Null}]
  /\ readers \in [Rows -> SUBSET Requests]
  /\ \A x \in Rows :
       /\ holder[x] # Null => PastLock(holder[x]) /\ x \in RowsOf[holder[x]]
       /\ \A r \in readers[x] : PastAudit(r)

Steps ==
  /\ step \in [Requests -> Nat]
  /\ \A r \in Requests : step[r] <= LastStep(OpOf[r]) + 1

PoolInv == Steps /\ Queue /\ Borrowed /\ RowsHeld

\* The type invariant is part of it.
LEMMA PoolTypes == PoolInv => TypeOK
<1> SUFFICES ASSUME PoolInv PROVE TypeOK
  OBVIOUS
<1>1. step \in [Requests -> 0 .. 8]
  <2>1. \A r \in Requests : step[r] \in 0 .. 8
    BY NextStatement DEF PoolInv, Steps
  <2> QED BY <2>1 DEF PoolInv, Steps
<1> QED BY <1>1 DEF PoolInv, Queue, Borrowed, RowsHeld, TypeOK

LEMMA InitPoolInv == Init => PoolInv
<1> SUFFICES ASSUME Init PROVE PoolInv
  OBVIOUS
<1>1. Steps
  BY NextStatement DEF Init, Steps
<1>2. Queue
  BY DEF Init, Queue, Contains
<1>3. Borrowed
  BY FS_EmptySet DEF Init, Borrowed, InTransaction, OpenSteps, Used
<1>4. RowsHeld
  BY DEF Init, RowsHeld
<1> QED BY <1>1, <1>2, <1>3, <1>4 DEF PoolInv

\* A statement of r changes nothing about the next statement of another.
LEMMA OthersStay ==
  ASSUME step \in [Requests -> Nat], NEW r \in Requests, NEW n,
         step' = [step EXCEPT ![r] = n], NEW q \in Requests, q # r
  PROVE  /\ OnPool(q)' <=> OnPool(q)
         /\ InTransaction(q)' <=> InTransaction(q)
         /\ PastLock(q)' <=> PastLock(q)
         /\ PastAudit(q)' <=> PastAudit(q)
BY DEF OnPool, Doing, Active, InTransaction, OpenSteps, PastLock, LockedSteps, PastAudit,
       AuditedSteps

\* A request that gives everything back and ends its transaction keeps the
\* invariant, in the queue or out of it.
LEMMA GiveBackPoolInv ==
  ASSUME PoolInv, NEW r \in Requests, NEW n \in Nat, n <= LastStep(OpOf[r]) + 1,
         step' = [step EXCEPT ![r] = n], GiveBack(r), ~InTransaction(r)',
         waiting' \in Seq(Requests),
         \A i \in 1 .. Len(waiting') : waiting'[i] # r
           /\ \E j \in 1 .. Len(waiting) : waiting'[i] = waiting[j],
         \A i, j \in 1 .. Len(waiting') : waiting'[i] = waiting'[j] => i = j
  PROVE  PoolInv'
<1> USE DEF PoolInv
<1>1. Steps'
  BY DEF Steps
<1>2. Queue'
  <2>1. ASSUME NEW q \in Requests, Contains(waiting', q)
        PROVE  OnPool(q)' /\ q \notin lent'
    <3>1. q # r /\ Contains(waiting, q)
      BY <2>1 DEF Contains
    <3> QED BY <3>1, OthersStay DEF Queue, Steps, GiveBack
  <2> QED BY <2>1 DEF Queue
<1>3. Borrowed'
  <2>1. lent' = lent \ {r} /\ open' = open \ {r}
    BY DEF GiveBack
  <2>2. Used' <= Used /\ Used \in Nat /\ Used' \in Nat
    <3>1. /\ IsFiniteSet(lent) /\ IsFiniteSet(open)
          /\ lent' \in SUBSET lent /\ open' \in SUBSET open
      BY <2>1, FS_Subset DEF Borrowed
    <3>2. /\ Cardinality(lent') <= Cardinality(lent)
          /\ Cardinality(open') <= Cardinality(open)
          /\ IsFiniteSet(lent') /\ IsFiniteSet(open')
      BY <3>1, FS_Subset
    <3>3. /\ Cardinality(lent) \in Nat /\ Cardinality(lent') \in Nat
          /\ Cardinality(open) \in Nat /\ Cardinality(open') \in Nat
      BY <3>1, <3>2, FS_CardinalityType
    <3> QED BY <3>2, <3>3 DEF Used
  <2>3. Used' <= PoolMax
    BY <2>2 DEF Borrowed
  <2> QED BY <2>1, <2>3, OthersStay DEF Borrowed, Steps
<1>4. RowsHeld'
  BY OthersStay DEF RowsHeld, GiveBack, Steps
<1> QED BY <1>1, <1>2, <1>3, <1>4

\* A request that goes on to a later statement without a connection in hand.
LEMMA GoesOnPoolInv ==
  ASSUME PoolInv, NEW r \in Requests, NEW n \in Nat, n <= LastStep(OpOf[r]) + 1,
         step' = [step EXCEPT ![r] = n],
         ~Contains(waiting, r), UNCHANGED waiting, lent' = lent \ {r}
  PROVE  /\ Steps' /\ Queue' /\ step'[r] = n
         /\ lent' \in SUBSET Requests /\ \A q \in lent' : OnPool(q)'
<1> USE DEF PoolInv
<1>1. Steps' /\ step'[r] = n
  BY DEF Steps
<1>2. \A q \in Requests : q # r => (OnPool(q)' <=> OnPool(q))
  BY OthersStay DEF Steps
<1>3. Queue'
  BY <1>2 DEF Queue
<1> QED BY <1>1, <1>2, <1>3 DEF Borrowed

\* The same of the next statement.
LEMMA ProceedPoolInv ==
  ASSUME PoolInv, NEW r \in Requests, Proceed(r), Active(r) \/ step[r] = 0,
         ~Contains(waiting, r), UNCHANGED waiting, lent' = lent \ {r}
  PROVE  /\ Steps' /\ Queue' /\ step'[r] = step[r] + 1
         /\ lent' \in SUBSET Requests /\ \A q \in lent' : OnPool(q)'
<1>1. /\ step[r] + 1 \in Nat /\ step[r] + 1 <= LastStep(OpOf[r]) + 1
      /\ step' = [step EXCEPT ![r] = step[r] + 1]
  BY NextStatement DEF PoolInv, Steps, Proceed
<1> QED BY <1>1, GoesOnPoolInv

\* No request runs a statement on the pool while it waits or before it arrives.
LEMMA NotWaiting ==
  ASSUME PoolInv, NEW r \in Requests, r \in lent \/ ~OnPool(r)
  PROVE  ~Contains(waiting, r)
BY DEF PoolInv, Queue

\* Finite sets and their sizes, for the count of borrowed connections.
LEMMA Sizes ==
  ASSUME PoolInv
  PROVE  /\ IsFiniteSet(lent) /\ IsFiniteSet(open)
         /\ Cardinality(lent) \in Nat /\ Cardinality(open) \in Nat
         /\ Used = Cardinality(lent) + Cardinality(open)
<1>1. IsFiniteSet(lent) /\ IsFiniteSet(open)
  BY FS_Subset DEF PoolInv, Borrowed
<1> QED BY <1>1, FS_CardinalityType DEF Used

LEMMA ArrivePoolInv ==
  ASSUME PoolInv, NEW r \in Requests, Arrive(r)
  PROVE  PoolInv'
<1> USE DEF PoolInv, Arrive
<1>1. ~OnPool(r) /\ r \notin lent
  BY DEF OnPool, Doing, Active, Borrowed
<1>2. /\ Steps' /\ Queue' /\ step'[r] = 1
      /\ \A q \in lent' : OnPool(q)'
  BY <1>1, NotWaiting, ProceedPoolInv
<1>3. ~InTransaction(r) /\ ~InTransaction(r)' /\ ~PastLock(r) /\ ~PastAudit(r)
  BY <1>2 DEF InTransaction, OpenSteps, PastLock, LockedSteps, PastAudit, AuditedSteps
<1>4. \A q \in Requests : (InTransaction(q)' <=> InTransaction(q)) /\ (PastLock(q) => PastLock(q)')
          /\ (PastAudit(q) => PastAudit(q)')
  BY <1>3, OthersStay DEF Steps, Proceed
<1>5. Borrowed'
  BY <1>2, <1>4 DEF Borrowed, Used
<1>6. RowsHeld'
  BY <1>4 DEF RowsHeld
<1> QED BY <1>2, <1>5, <1>6

LEMMA AcquirePoolInv ==
  ASSUME PoolInv, NEW r \in Requests, Acquire(r)
  PROVE  PoolInv'
<1> USE DEF PoolInv, Acquire
<1>1. Steps' /\ Borrowed' /\ RowsHeld'
  BY DEF Steps, Borrowed, RowsHeld, Used, OnPool, Doing, Active, InTransaction, OpenSteps, PastLock, LockedSteps, PastAudit, AuditedSteps
<1>2. \A q \in Requests : (OnPool(q)' <=> OnPool(q)) /\ (Contains(waiting', q) => q = r \/ Contains(waiting, q))
  BY DEF Queue, OnPool, Doing, Active, Contains
<1>3. \A i, j \in 1 .. Len(waiting') : waiting'[i] = waiting'[j] => i = j
  BY DEF Queue, Contains
<1>4. Queue'
  BY <1>2, <1>3 DEF Queue
<1> QED BY <1>1, <1>4

LEMMA GrantPoolInv ==
  ASSUME PoolInv, Grant
  PROVE  PoolInv'
<1> DEFINE r == Head(waiting)
<1> USE DEF PoolInv, Grant
<1>1. r \in Requests /\ r = waiting[1] /\ waiting[1] \in Requests /\ Contains(waiting, r)
  BY DEF Queue, Contains
<1>2. OnPool(r) /\ r \notin lent
  BY <1>1 DEF Queue
<1> HIDE DEF r
<1>3. lent' = lent \cup {r}
  BY DEF r
<1>4. \A q \in Requests : OnPool(q)' <=> OnPool(q)
  BY DEF OnPool, Doing, Active
<1>5. Queue'
  <2>1. \A q \in Requests : Contains(waiting', q) => Contains(waiting, q) /\ q # r
    BY <1>1 DEF Queue, Contains
  <2>2. \A i, j \in 1 .. Len(waiting') : waiting'[i] = waiting'[j] => i = j
    BY DEF Queue
  <2>3. waiting' \in Seq(Requests)
    BY DEF Queue
  <2> QED BY <1>3, <1>4, <2>1, <2>2, <2>3 DEF Queue
<1>6. Used' <= PoolMax
  <2>1. Cardinality(lent') = Cardinality(lent) + 1
    BY <1>2, <1>3, Sizes, FS_AddElement
  <2> QED BY <2>1, Sizes DEF Used
<1>7. Borrowed'
  BY <1>1, <1>2, <1>3, <1>4, <1>6 DEF Borrowed, InTransaction, OpenSteps
<1>8. Steps' /\ RowsHeld'
  BY DEF Steps, RowsHeld, PastLock, LockedSteps, PastAudit, AuditedSteps
<1> QED BY <1>5, <1>7, <1>8

LEMMA QueryPoolInv ==
  ASSUME PoolInv, NEW r \in Requests, Query(r)
  PROVE  PoolInv'
<1> USE DEF PoolInv, Query
<1>1. /\ Steps' /\ Queue' /\ step'[r] = step[r] + 1
      /\ lent' \in SUBSET Requests /\ \A q \in lent' : OnPool(q)'
  BY NotWaiting, ProceedPoolInv DEF Doing
<1>2. Queries(OpOf[r], step[r]) \/ Claims(OpOf[r], step[r]) \/ Releases(OpOf[r], step[r])
  BY NextStatement DEF Steps
<1>3. step'[r] = step[r] + 1 /\ step[r] \in Nat
  BY <1>1 DEF Steps
<1>4. /\ InTransaction(r)' <=> InTransaction(r)
      /\ PastLock(r) => PastLock(r)'
      /\ PastAudit(r) => PastAudit(r)'
  BY <1>2, <1>3 DEF InTransaction, OpenSteps, PastLock, LockedSteps, PastAudit, AuditedSteps, Queries, Claims, Releases
<1>5. \A q \in Requests : (InTransaction(q)' <=> InTransaction(q)) /\ (PastLock(q) => PastLock(q)')
          /\ (PastAudit(q) => PastAudit(q)')
  BY <1>4, OthersStay DEF Steps, Proceed
<1>6. Used' <= PoolMax
  <2>1. Cardinality(lent') = Cardinality(lent) - 1
    BY Sizes, FS_RemoveElement
  <2> QED BY <2>1, Sizes DEF Used, Borrowed
<1>7. Borrowed'
  BY <1>1, <1>5, <1>6 DEF Borrowed
<1>8. RowsHeld'
  BY <1>5 DEF RowsHeld
<1> QED BY <1>1, <1>7, <1>8

LEMMA BeginPoolInv ==
  ASSUME PoolInv, NEW r \in Requests, BeginTransaction(r)
  PROVE  PoolInv'
<1> USE DEF PoolInv, BeginTransaction
<1>1. /\ Steps' /\ Queue' /\ step'[r] = step[r] + 1
      /\ lent' \in SUBSET Requests /\ \A q \in lent' : OnPool(q)'
  BY NotWaiting, ProceedPoolInv DEF Doing
<1>2. Begins(OpOf[r], step[r]) /\ step[r] \in Nat
  BY NextStatement DEF Steps
<1>3. ~InTransaction(r) /\ InTransaction(r)' /\ ~PastLock(r) /\ ~PastAudit(r)
  BY <1>1, <1>2 DEF InTransaction, OpenSteps, PastLock, LockedSteps, PastAudit, AuditedSteps, Begins
<1>4. \A q \in Requests : q # r =>
        (InTransaction(q)' <=> InTransaction(q)) /\ (PastLock(q) => PastLock(q)')
          /\ (PastAudit(q) => PastAudit(q)')
  BY OthersStay DEF Steps, Proceed
<1>5. Used' <= PoolMax
  <2>1. Cardinality(lent') = Cardinality(lent) - 1
    BY Sizes, FS_RemoveElement
  <2>2. Cardinality(open') = Cardinality(open) + 1
    BY <1>3, Sizes, FS_AddElement DEF Borrowed
  <2> QED BY <2>1, <2>2, Sizes DEF Used, Borrowed
<1>6. Borrowed'
  BY <1>1, <1>3, <1>4, <1>5 DEF Borrowed
<1>7. RowsHeld'
  BY <1>3, <1>4 DEF RowsHeld
<1> QED BY <1>1, <1>6, <1>7

LEMMA LockPoolInv ==
  ASSUME PoolInv, NEW r \in Requests, Lock(r)
  PROVE  PoolInv'
<1> USE DEF PoolInv, Lock
<1>1. /\ Locks(OpOf[r], step[r]) /\ step[r] \in Nat /\ OpOf[r] \in Ops
      /\ step[r] + 1 <= LastStep(OpOf[r])
  BY NextStatement DEF Steps, Locks, LastStep
<1>2. ~OnPool(r) /\ r \notin lent
  BY <1>1, NextStatement
  DEF Steps, OnPool, Borrowed, Locks, Queries, Claims, Begins, Releases
<1>3. PICK n \in Nat :
        /\ step' = [step EXCEPT ![r] = n] /\ n <= LastStep(OpOf[r]) + 1
        /\ <<OpOf[r], n>> \in LockedSteps
  <2>1. CASE Proceed(r)
    <3>1. <<OpOf[r], step[r] + 1>> \in LockedSteps
      BY <1>1 DEF Locks, LockedSteps
    <3>2. /\ step' = [step EXCEPT ![r] = step[r] + 1]
          /\ step[r] + 1 \in Nat /\ step[r] + 1 <= LastStep(OpOf[r]) + 1
      BY <1>1, <2>1, NextStatement DEF Proceed, Steps
    <3> HIDE DEF Lock, PoolInv
    <3> QED BY <3>1, <3>2, Zenon
  <2>2. CASE Statements[r][step[r] + 1] = "audit" /\ step' = [step EXCEPT ![r] = @ + 2]
    <3>1. Audits(OpOf[r], step[r] + 1)
      BY <1>1, <2>2, Programs DEF Statements
    <3>2. /\ <<OpOf[r], step[r] + 2>> \in LockedSteps
          /\ step[r] + 2 <= LastStep(OpOf[r]) + 1
      BY <1>1, <3>1 DEF Audits, LockedSteps, LastStep
    <3>3. step' = [step EXCEPT ![r] = step[r] + 2] /\ step[r] + 2 \in Nat
      BY <1>1, <2>2
    <3> HIDE DEF Lock, PoolInv
    <3> QED BY <3>2, <3>3, Zenon
  <2> QED BY <2>1, <2>2
<1>4. /\ ~Contains(waiting, r) /\ UNCHANGED waiting /\ lent' = lent \ {r}
      /\ UNCHANGED <<lent, open, readers>>
      /\ holder' = [row \in Rows |-> IF row \in RowsOf[r] THEN r ELSE holder[row]]
  BY <1>2, NotWaiting
<1> HIDE DEF Lock, PoolInv
<1>5. /\ Steps' /\ Queue' /\ step'[r] = n
      /\ lent' \in SUBSET Requests /\ \A q \in lent' : OnPool(q)'
  BY <1>3, <1>4, GoesOnPoolInv
<1> USE DEF PoolInv
<1>6. InTransaction(r) /\ InTransaction(r)' /\ PastLock(r)' /\ ~PastAudit(r)
  BY <1>1, <1>3, <1>5
  DEF InTransaction, OpenSteps, PastLock, LockedSteps, PastAudit, AuditedSteps, Locks
<1>7. \A q \in Requests : q # r =>
        (InTransaction(q)' <=> InTransaction(q)) /\ (PastLock(q) => PastLock(q)')
          /\ (PastAudit(q) => PastAudit(q)')
  BY <1>3, OthersStay DEF Steps
<1>8. Borrowed'
  BY <1>4, <1>5, <1>6, <1>7 DEF Borrowed, Used
<1>9. RowsHeld'
  BY <1>4, <1>6, <1>7 DEF RowsHeld
<1> QED BY <1>5, <1>8, <1>9

LEMMA AuditPoolInv ==
  ASSUME PoolInv, NEW r \in Requests, Audit(r)
  PROVE  PoolInv'
<1> USE DEF PoolInv, Audit
<1>1. Audits(OpOf[r], step[r]) /\ step[r] \in Nat
  BY NextStatement DEF Steps
<1>2. ~OnPool(r) /\ r \notin lent
  BY <1>1, NextStatement
  DEF Steps, OnPool, Borrowed, Audits, Queries, Claims, Begins, Releases
<1>3. /\ Steps' /\ Queue' /\ step'[r] = step[r] + 1
      /\ lent' \in SUBSET Requests /\ \A q \in lent' : OnPool(q)'
  BY <1>2, NotWaiting, ProceedPoolInv DEF Doing
<1>4. InTransaction(r) /\ InTransaction(r)' /\ PastLock(r)' /\ PastAudit(r)'
  BY <1>1, <1>3
  DEF InTransaction, OpenSteps, PastLock, LockedSteps, PastAudit, AuditedSteps, Audits
<1>5. \A q \in Requests : q # r =>
        (InTransaction(q)' <=> InTransaction(q)) /\ (PastLock(q) => PastLock(q)')
          /\ (PastAudit(q) => PastAudit(q)')
  BY OthersStay DEF Steps, Proceed
<1>6. Borrowed'
  BY <1>3, <1>4, <1>5 DEF Borrowed, Used
<1>7. RowsHeld'
  BY <1>4, <1>5 DEF RowsHeld
<1> QED BY <1>3, <1>6, <1>7

LEMMA CommitPoolInv ==
  ASSUME PoolInv, NEW r \in Requests, Commit(r)
  PROVE  PoolInv'
<1> USE DEF PoolInv, Commit, Proceed
<1>1. /\ Commits(OpOf[r], step[r]) /\ step[r] \in Nat /\ LastStep(OpOf[r]) \in Nat
      /\ step[r] <= LastStep(OpOf[r])
  BY NextStatement DEF Steps, Doing
<1>2. ~OnPool(r)
  BY <1>1, NextStatement DEF Steps, OnPool, Commits, Queries, Claims, Begins, Releases
<1>3. ~InTransaction(r)'
  BY <1>1 DEF InTransaction, OpenSteps, Commits, Steps
<1>4. \A i \in 1 .. Len(waiting') : waiting'[i] # r
        /\ \E j \in 1 .. Len(waiting) : waiting'[i] = waiting[j]
  <2>1. ~Contains(waiting, r)
    BY <1>2, NotWaiting
  <2> QED BY <2>1 DEF Contains
<1>5. /\ waiting' \in Seq(Requests)
      /\ GiveBack(r) /\ step' = [step EXCEPT ![r] = step[r] + 1]
  BY DEF Queue
<1>6. \A i, j \in 1 .. Len(waiting') : waiting'[i] = waiting'[j] => i = j
  BY DEF Queue
<1>7. step[r] + 1 \in Nat /\ step[r] + 1 <= LastStep(OpOf[r]) + 1
  BY <1>1
<1> HIDE DEF PoolInv, Commit
<1> QED BY <1>7, <1>1, <1>3, <1>4, <1>5, <1>6, GiveBackPoolInv

\* Where an error leaves a request: no transaction is open there.
LEMMA EndsOutside ==
  ASSUME PoolInv, NEW r \in Requests, Active(r)
  PROVE  /\ EndsAt(r) \in Nat /\ EndsAt(r) <= LastStep(OpOf[r]) + 1
         /\ <<OpOf[r], EndsAt(r)>> \notin OpenSteps
<1>1. /\ OpOf[r] \in Ops /\ Len(Statements[r]) = LastStep(OpOf[r])
      /\ step[r] \in 1 .. LastStep(OpOf[r])
  BY Programs, NextStatement DEF Statements, PoolInv, Steps
<1>2. CASE OpOf[r] \in {"fund", "transfer"}
  BY <1>1, <1>2 DEF EndsAt, LastStep, OpenSteps
<1>3. CASE OpOf[r] \notin {"fund", "transfer"}
  <2>1. \A i \in 1 .. step[r] - 1 : Statements[r][i] # "claim"
    BY <1>1, <1>3, Programs DEF Statements, Claims
  <2>2. EndsAt(r) = LastStep(OpOf[r]) + 1
    BY <1>1, <2>1 DEF EndsAt
  <2> QED BY <1>1, <1>3, <2>2 DEF LastStep, Ops, OpenSteps
<1> QED BY <1>2, <1>3

\* Who waits for a row does not wait for a connection.
LEMMA WaitersAreNotQueued ==
  ASSUME PoolInv, NEW r \in Requests, NEW q, WaitsFor(r, q)
  PROVE  ~Contains(waiting, r)
<1> SUFFICES ASSUME OnPool(r), r \notin lent PROVE FALSE
  BY NotWaiting
<1>1. Locks(OpOf[r], step[r]) \/ Audits(OpOf[r], step[r])
  BY NextStatement DEF WaitsFor, PoolInv, Steps
<1> QED BY <1>1, NextStatement
  DEF PoolInv, Steps, OnPool, Locks, Audits, Queries, Claims, Begins, Releases

LEMMA FailPoolInv ==
  ASSUME PoolInv, NEW r \in Requests,
         AcquireTimesOut(r) \/ StatementFails(r) \/ DeadlockVictim(r)
  PROVE  PoolInv'
<1> USE DEF PoolInv
<1>1. Active(r)
  <2>1. StatementFails(r) \/ DeadlockVictim(r) \/ Contains(waiting, r)
    BY DEF AcquireTimesOut, Contains, Queue
  <2> QED BY <2>1 DEF StatementFails, DeadlockVictim, OnCircle, Waiters, WaitsFor, Queue,
                    OnPool, Doing
<1>2. /\ Fail(r) /\ GiveBack(r)
      /\ step' = [step EXCEPT ![r] = EndsAt(r)]
  BY DEF AcquireTimesOut, StatementFails, DeadlockVictim, Fail
<1>3. ~InTransaction(r)'
  BY <1>1, <1>2, EndsOutside DEF InTransaction, OpenSteps, Steps
<1>4. /\ waiting' \in Seq(Requests)
      /\ \A i \in 1 .. Len(waiting') : waiting'[i] # r
           /\ \E j \in 1 .. Len(waiting) : waiting'[i] = waiting[j]
      /\ \A i, j \in 1 .. Len(waiting') : waiting'[i] = waiting'[j] => i = j
  <2>1. CASE StatementFails(r) \/ DeadlockVictim(r)
    <3>1. ~Contains(waiting, r) /\ UNCHANGED waiting
      <4>1. CASE StatementFails(r)
        BY <4>1 DEF StatementFails
      <4>2. CASE DeadlockVictim(r)
        BY <4>2, WaitersAreNotQueued DEF DeadlockVictim, OnCircle, Waiters
      <4> QED BY <2>1, <4>1, <4>2
    <3> QED BY <3>1 DEF Queue, Contains
  <2>2. CASE AcquireTimesOut(r)
    <3>1. PICK k \in 1 .. Len(waiting) : waiting[k] = r /\ waiting' = RemoveAt(waiting, k)
      BY <2>2 DEF AcquireTimesOut, Queue
    <3>2. waiting \in Seq(Requests)
      BY DEF Queue
    <3>3. /\ Len(waiting') = Len(waiting) - 1
          /\ \A i \in 1 .. Len(waiting') :
               waiting'[i] = IF i < k THEN waiting[i] ELSE waiting[i + 1]
          /\ waiting' \in Seq(Requests)
      BY <3>1, <3>2, RemoveAtProperties
    <3>4. \A i \in 1 .. Len(waiting') :
            \E j \in 1 .. Len(waiting) : j # k /\ waiting'[i] = waiting[j]
              /\ j = IF i < k THEN i ELSE i + 1
      BY <3>1, <3>2, <3>3
    <3>5. \A i \in 1 .. Len(waiting') : waiting'[i] # r
      BY <3>1, <3>4 DEF Queue
    <3>6. \A i, j \in 1 .. Len(waiting') : waiting'[i] = waiting'[j] => i = j
      BY <3>1, <3>2, <3>3, <3>4 DEF Queue
    <3> QED BY <3>3, <3>4, <3>5, <3>6
  <2> QED BY <2>1, <2>2
<1> QED BY <1>1, <1>2, <1>3, <1>4, EndsOutside, GiveBackPoolInv

LEMMA StepPoolInv == PoolInv /\ [Next]_poolVars => PoolInv'
<1> SUFFICES ASSUME PoolInv, [Next]_poolVars PROVE PoolInv'
  OBVIOUS
<1>1. CASE Grant
  BY <1>1, GrantPoolInv
<1>2. ASSUME NEW r \in Requests,
             \/ Arrive(r) \/ Advance(r) \/ DeadlockVictim(r)
             \/ AcquireTimesOut(r) \/ StatementFails(r)
      PROVE  PoolInv'
  BY <1>2, ArrivePoolInv, AcquirePoolInv, QueryPoolInv, BeginPoolInv, LockPoolInv,
     AuditPoolInv, CommitPoolInv, FailPoolInv
  DEF Advance
<1>3. CASE UNCHANGED poolVars
  <2> USE <1>3 DEF poolVars
  <2>1. Steps' /\ RowsHeld'
    BY DEF PoolInv, Steps, RowsHeld, PastLock, LockedSteps, PastAudit, AuditedSteps
  <2>2. \A q \in Requests : (OnPool(q)' <=> OnPool(q)) /\ (InTransaction(q)' <=> InTransaction(q))
    BY DEF OnPool, Doing, Active, InTransaction, OpenSteps
  <2>3. Queue'
    BY <2>2 DEF PoolInv, Queue
  <2>4. Borrowed'
    BY <2>2 DEF PoolInv, Borrowed, Used
  <2> QED BY <2>1, <2>3, <2>4 DEF PoolInv
<1> QED BY <1>1, <1>2, <1>3 DEF Next

\* Every variable keeps its type, and no more connections are out than the pool
\* has, whatever the requests (knexfile.ts).
THEOREM TypeCorrect == Spec => []TypeOK
<1> QED BY InitPoolInv, StepPoolInv, PoolTypes, PTL DEF Spec

-----------------------------------------------------------------------------
(* Standstills.                                                            *)

\* The rows a request names are rows.
LEMMA RowsNamed == \A r \in Requests : RowsOf[r] \subseteq Rows /\ CallerRow[r] \in Rows
<1> SUFFICES ASSUME NEW r \in Requests PROVE RowsOf[r] \subseteq Rows /\ CallerRow[r] \in Rows
  OBVIOUS
<1>1. RowsOf[r] \in Range(RowsOf) /\ CallerRow[r] \in Range(CallerRow)
  BY DEF Range
<1>2. RowsOf[r] \subseteq UNION Range(RowsOf)
  BY <1>1
<1> QED BY <1>1, <1>2 DEF Rows

\* All requests in flight are stuck, and no transaction asks for a second connection.
Standstill ==
  /\ \A q \in Requests : Active(q) => Stuck(q)
  /\ \A q \in Requests : ~WantsSecond(q)

\* At a standstill, whoever holds a row waits to name its caller in the audit log,
\* for another that holds the caller's row; nobody has done it.
LEMMA HoldersAudit ==
  ASSUME PoolInv, Standstill, NEW x \in Rows
  PROVE  /\ readers[x] = {}
         /\ holder[x] # Null =>
              /\ holder[x] \in Requests /\ Doing(holder[x], "audit")
              /\ holder[CallerRow[holder[x]]] \in Requests \ {holder[x]}
<1>1. step \in [Requests -> Nat]
  BY DEF PoolInv, Steps
<1>2. ASSUME NEW q \in Requests, PastLock(q)
      PROVE  Doing(q, "audit") /\ holder[CallerRow[q]] \in Requests \ {q}
  <2>1. /\ InTransaction(q) /\ step[q] \in Nat
        /\ \/ Commits(OpOf[q], step[q]) \/ Queries(OpOf[q], step[q])
           \/ Audits(OpOf[q], step[q])
    BY <1>1, <1>2 DEF PastLock, LockedSteps, InTransaction, OpenSteps, Commits, Queries, Audits
  <2>2. /\ q \in open /\ Active(q)
        /\ Doing(q, "commit") \/ Doing(q, "query") \/ Doing(q, "audit")
    BY <1>1, <2>1, NextStatement DEF PoolInv, Borrowed, Doing
  <2>3. Stuck(q)
    BY <2>2 DEF Standstill
  <2>4. ~(OnPool(q) /\ q \notin lent)
    BY <2>2 DEF Standstill, WantsSecond, OnPool, Doing
  <2>5. PICK p \in Requests : WaitsFor(q, p)
    BY <2>3, <2>4 DEF Stuck, Waiters
  <2>6. ~Doing(q, "lock") /\ ~Doing(q, "claim")
    BY <2>2 DEF Doing
  <2> QED BY <2>5, <2>6 DEF WaitsFor
<1>3. holder[x] # Null => holder[x] \in Requests /\ PastLock(holder[x])
  BY DEF PoolInv, RowsHeld
<1>4. readers[x] = {}
  <2> SUFFICES ASSUME NEW q \in readers[x] PROVE FALSE
    OBVIOUS
  <2>1. q \in Requests /\ PastAudit(q)
    BY DEF PoolInv, RowsHeld
  <2>2. PastLock(q) /\ ~Audits(OpOf[q], step[q])
    BY <2>1 DEF PastAudit, AuditedSteps, PastLock, LockedSteps, Audits
  <2> QED BY <1>1, <1>2, <2>1, <2>2, NextStatement
<1> QED BY <1>2, <1>3, <1>4

\* So the holders of the rows that others wait to name are administrators, each of
\* whom changes the account of another.
LEMMA HoldersAreInCircle ==
  ASSUME PoolInv, Standstill, NEW x \in Rows, holder[x] # Null
  PROVE  AdminsInCircle
<1> DEFINE S == {q \in Requests : \E p \in Requests :
                   q # p /\ Doing(p, "audit") /\ holder[CallerRow[p]] = q}
<1>1. holder[CallerRow[holder[x]]] \in S
  BY HoldersAudit
<1>2. ASSUME NEW q \in S
      PROVE  /\ OpOf[q] = "updateUserStatus"
             /\ \E p \in S : WaitsFor(q, p)
  <2>1. PICK p \in Requests : q # p /\ Doing(p, "audit") /\ holder[CallerRow[p]] = q
    BY <1>2
  <2>2. q \in Requests /\ q # Null /\ CallerRow[p] \in Rows /\ CallerRow[q] \in Rows
    BY <1>2, RowsNamed
  <2>3. CallerRow[p] \in RowsOf[q]
    BY <2>1, <2>2 DEF PoolInv, RowsHeld
  <2>4. OpOf[q] = "updateUserStatus"
    <3>1. CallerRow[p] \in Range(CallerRow)
      BY DEF Range
    <3> QED BY <2>2, <2>3, <3>1
  <2>5. Doing(q, "audit") /\ holder[CallerRow[q]] \in Requests \ {q}
    BY <2>1, <2>2, HoldersAudit
  <2>6. holder[CallerRow[q]] \in S
    BY <2>2, <2>5
  <2>7. WaitsFor(q, holder[CallerRow[q]])
    BY <2>5 DEF WaitsFor
  <2> QED BY <2>4, <2>6, <2>7
<1> HIDE DEF S
<1>3. S \subseteq Requests
  BY DEF S
<1>4. Circle(S)
  BY <1>1, <1>2 DEF Circle
<1>5. S \subseteq {r \in Waiters : OpOf[r] = "updateUserStatus"}
  BY <1>2, <1>3 DEF Waiters
<1> QED BY <1>4, <1>5 DEF AdminsInCircle

\* Who waits for a row waits for the holder of one, or for a reader.
LEMMA WaitersNeedARow ==
  ASSUME NEW r \in Requests, NEW q \in Requests, WaitsFor(r, q)
  PROVE  \E x \in Rows : holder[x] = q \/ q \in readers[x]
BY RowsNamed DEF WaitsFor

\* A stuck request that has a connection waits for a second one, or for a row.
LEMMA BorrowersGoOn ==
  ASSUME PoolInv, NEW q \in lent \cup open, Stuck(q)
  PROVE  WantsSecond(q) \/ q \in Waiters
<1>1. q \in Requests /\ step \in [Requests -> Nat]
  BY DEF PoolInv, Borrowed, Steps
<1>2. CASE OnPool(q) /\ q \notin lent
  <2>1. q \in open /\ InTransaction(q)
    BY <1>1, <1>2 DEF PoolInv, Borrowed
  <2>2. /\ ~Claims(OpOf[q], step[q]) /\ ~Begins(OpOf[q], step[q])
        /\ ~Releases(OpOf[q], step[q])
    BY <2>1 DEF InTransaction, OpenSteps, Claims, Begins, Releases
  <2>3. Doing(q, "query")
    BY <1>1, <1>2, <2>2, NextStatement DEF OnPool
  <2> QED BY <1>2, <2>1, <2>3 DEF WantsSecond
<1> QED BY <1>2 DEF Stuck

\* Whoever has a connection is in flight.
LEMMA BorrowersAreActive ==
  ASSUME PoolInv, NEW q \in lent \cup open
  PROVE  q \in Requests /\ Active(q)
<1>1. CASE q \in lent
  BY <1>1 DEF PoolInv, Borrowed, OnPool, Doing
<1>2. CASE q \in open
  <2>1. InTransaction(q) /\ q \in Requests /\ step \in [Requests -> Nat]
    BY <1>2 DEF PoolInv, Borrowed, Steps
  <2>2. step[q] \in 1 .. LastStep(OpOf[q])
    BY <2>1 DEF InTransaction, OpenSteps, LastStep
  <2> QED BY <2>1, <2>2, NextStatement
<1> QED BY <1>1, <1>2

LEMMA StallsExplained == PoolInv => StallsAreExplained
<1> SUFFICES ASSUME PoolInv, ~SomeoneMoves, \A r \in Requests : ~WantsSecond(r)
             PROVE  AdminsInCircle
  BY DEF StallsAreExplained
<1>1. PICK r \in Requests : Active(r)
  BY DEF SomeoneMoves
<1>2. Standstill
  BY DEF SomeoneMoves, Standstill
<1>3. CASE \E x \in Rows : holder[x] # Null
  BY <1>2, <1>3, HoldersAreInCircle
<1>4. CASE ~\E x \in Rows : holder[x] # Null
  <2>1. Null \notin Requests /\ \A x \in Rows : readers[x] = {} /\ holder[x] = Null
    BY <1>2, <1>4, HoldersAudit
  <2>2. Waiters = {}
    BY <2>1, WaitersNeedARow DEF Waiters
  <2>3. Used = PoolMax
    BY <1>1, <1>2, <2>2 DEF Standstill, Stuck
  <2>4. PICK q \in lent \cup open : TRUE
    <3>1. Cardinality(lent) + Cardinality(open) # 0
      BY <2>3, Sizes
    <3> QED BY <3>1, FS_EmptySet
  <2>5. q \in Requests /\ Stuck(q)
    BY <1>2, BorrowersAreActive DEF Standstill
  <2> QED BY <2>2, <2>5, BorrowersGoOn
<1> QED BY <1>3, <1>4

\* For any pool and any requests, every standstill contains a transaction that asks
\* the pool for a second connection (transfers.service.ts, line 31;
\* admin.service.ts, line 114) or administrators who change each other's accounts,
\* each waiting to name itself in the audit log (admin.repository.ts, line 21).
THEOREM StallsHaveTwoCauses == Spec => []StallsAreExplained
<1> QED BY InitPoolInv, StepPoolInv, StallsExplained, PTL DEF Spec

\* With a connection more than requests in flight, one that is all out has lent a
\* second one to somebody, who can use it.
LEMMA AmpleStallsAreCircles ==
  PoolInv /\ Cardinality(Requests) < PoolMax => SomeoneMoves \/ AdminsInCircle
<1> SUFFICES ASSUME PoolInv, Cardinality(Requests) < PoolMax, ~SomeoneMoves
             PROVE  AdminsInCircle
  OBVIOUS
<1>1. \A q \in Requests : Active(q) => Stuck(q)
  BY DEF SomeoneMoves
<1>2. open \subseteq Requests /\ lent \subseteq Requests /\ step \in [Requests -> Nat]
  BY DEF PoolInv, Borrowed, Steps
<1>3. lent \cap open = {}
  <2> SUFFICES ASSUME NEW q \in lent, q \in open PROVE FALSE
    OBVIOUS
  <2>1. InTransaction(q) /\ OnPool(q) /\ q \in Requests
    BY <1>2 DEF PoolInv, Borrowed
  <2>2. ~Claims(OpOf[q], step[q])
    BY <2>1 DEF InTransaction, OpenSteps, Claims
  <2>3. ~Locks(OpOf[q], step[q]) /\ ~Audits(OpOf[q], step[q])
    BY <1>2, <2>1, NextStatement
    DEF OnPool, Locks, Audits, Queries, Claims, Begins, Releases
  <2>4. ~Stuck(q)
    BY <1>2, <2>1, <2>2, <2>3, NextStatement DEF Stuck, Waiters, WaitsFor
  <2> QED BY <1>1, <2>4, BorrowersAreActive
<1>4. Cardinality(lent \cup open) = Cardinality(lent) + Cardinality(open)
  <2>1. /\ IsFiniteSet(lent) /\ IsFiniteSet(open)
    BY Sizes
  <2>2. Cardinality(lent \cup open)
          = Cardinality(lent) + Cardinality(open) - Cardinality(lent \cap open)
    BY <2>1, FS_Union
  <2>3. Cardinality(lent \cap open) = 0
    BY <1>3, FS_EmptySet
  <2> QED BY <2>2, <2>3, Sizes
<1>5. Cardinality(lent \cup open) <= Cardinality(Requests)
  BY <1>2, FS_Subset
<1>6. Cardinality(Requests) \in Nat
  BY FS_CardinalityType
<1>7. Used # PoolMax
  BY <1>4, <1>5, <1>6, Sizes
<1>8. ASSUME NEW r \in Requests, WantsSecond(r) PROVE FALSE
  <2>1. Doing(r, "query") /\ Active(r)
    BY <1>8 DEF WantsSecond, Doing
  <2>2. r \notin Waiters
    BY <2>1 DEF Waiters, WaitsFor, Doing
  <2> QED BY <1>1, <1>7, <2>1, <2>2 DEF Stuck
<1> QED BY <1>8, StallsExplained DEF StallsAreExplained

\* With a connection more than requests in flight only administrators who change
\* each other's accounts ever all wait for one another.
THEOREM AmplePoolsStallOnAdmins ==
  Cardinality(Requests) < PoolMax /\ Spec => [](SomeoneMoves \/ AdminsInCircle)
<1>1. SUFFICES ASSUME Cardinality(Requests) < PoolMax
               PROVE  Spec => [](SomeoneMoves \/ AdminsInCircle)
  OBVIOUS
<1>2. PoolInv => SomeoneMoves \/ AdminsInCircle
  BY <1>1, AmpleStallsAreCircles
<1> QED BY <1>2, InitPoolInv, StepPoolInv, PTL DEF Spec

\* Nobody in flight changes the status of an administrator who changes one, too.
AdminsApart ==
  \A r, q \in Requests :
    OpOf[r] = "updateUserStatus" /\ OpOf[q] = "updateUserStatus"
      => CallerRow[r] \notin RowsOf[q]

\* Then they do not wait for one another: a circle takes one that waits to name
\* its administrator, whose row another has locked.
LEMMA ApartNoCircle == PoolInv /\ AdminsApart => ~AdminsInCircle
<1> SUFFICES ASSUME PoolInv, AdminsApart, AdminsInCircle PROVE FALSE
  OBVIOUS
<1>1. PICK S \in SUBSET {r \in Waiters : OpOf[r] = "updateUserStatus"} : Circle(S)
  BY DEF AdminsInCircle
<1>2. step \in [Requests -> Nat]
  BY DEF PoolInv, Steps
<1>3. ASSUME NEW r \in S
      PROVE  Locks(OpOf[r], step[r])
  <2>1. r \in Requests /\ OpOf[r] = "updateUserStatus"
    BY <1>1 DEF Waiters
  <2>2. PICK q \in S : WaitsFor(r, q)
    BY <1>1 DEF Circle
  <2>3. q \in Requests /\ OpOf[q] = "updateUserStatus" /\ q # Null
    BY <1>1 DEF Waiters
  <2>4. ~Doing(r, "claim")
    BY <1>2, <2>1, NextStatement DEF Claims
  <2>5. holder[CallerRow[r]] # q
    <3>1. CallerRow[r] \in Rows /\ CallerRow[r] \notin RowsOf[q]
      BY <2>1, <2>3, RowsNamed DEF AdminsApart
    <3> QED BY <2>3, <3>1 DEF PoolInv, RowsHeld
  <2>6. Doing(r, "lock")
    BY <2>2, <2>4, <2>5 DEF WaitsFor
  <2> QED BY <1>2, <2>1, <2>6, NextStatement
<1>4. PICK r \in S, q \in S : WaitsFor(r, q)
  BY <1>1 DEF Circle
<1>5. r \in Requests /\ q \in Requests /\ q # Null
  BY <1>1 DEF Waiters
<1>6. PastLock(q) \/ PastAudit(q)
  BY <1>4, <1>5, WaitersNeedARow DEF PoolInv, RowsHeld
<1>7. ~Locks(OpOf[q], step[q])
  BY <1>6 DEF PastLock, LockedSteps, PastAudit, AuditedSteps, Locks
<1> QED BY <1>3, <1>7

\* The requests never all wait for one another if the pool has a connection more
\* than requests in flight and no two administrators change each other's accounts;
\* with fewer, crossing transfers may (README.md, line 133).
THEOREM AmplePoolsNeverStall ==
  Cardinality(Requests) < PoolMax /\ AdminsApart /\ Spec => []SomeoneMoves
<1>1. SUFFICES ASSUME Cardinality(Requests) < PoolMax, AdminsApart
               PROVE  Spec => []SomeoneMoves
  OBVIOUS
<1>2. PoolInv => SomeoneMoves
  BY <1>1, AmpleStallsAreCircles, ApartNoCircle
<1> QED BY <1>2, InitPoolInv, StepPoolInv, PTL DEF Spec
=============================================================================
