------------------------------- MODULE Accounts -------------------------------
(***************************************************************************)
(* Accounts, their suspension and the requests made with their tokens.     *)
(* authenticate reads the account once, before the handler; the handler    *)
(* takes effect later.  A login reads the account once too, before it      *)
(* compares the password, and takes effect when it signs a token.  An      *)
(* administrator changes a status under the row's exclusive lock and       *)
(* writes the audit row in the same transaction, whose foreign key takes a *)
(* shared lock on the administrator's own row.                             *)
(***************************************************************************)
EXTENDS Naturals, Sequences, Relation, AuditTrail

CONSTANTS
  Users,    \* rows of `users`
  Admins,   \* those with the admin role
  Requests, \* logins and authenticated requests; each runs once
  Calls,    \* what a request may carry
  Null      \* no lock holder, no call, nothing seen

Status == {"active", "suspended"}

\* "use" is any endpoint of a customer that takes effect, such as a payment.
\* `target` is the account updateUserStatus is to change, which may not exist, and
\* for a login the account that its email and password open, or none; `status` is
\* for updateUserStatus.
CallType == [op: {"login", "use", "updateUserStatus"}, user: Users,
             target: Users \cup {Null}, status: Status]

ASSUME AccountsAssumption ==
  /\ Admins \subseteq Users
  /\ Calls \subseteq CallType
  /\ Null \notin Users /\ Null \notin Requests /\ Null \notin Calls

VARIABLES
  status,     \* committed users.status
  audit,      \* committed user.status.updated rows of each account, in order
  writer,     \* request that holds the exclusive lock of each row
  readers,    \* requests that hold its shared lock
  phase,      \* where each request is
  call,       \* the call it carries
  view,       \* the status it read: under the lock, or to log in
  noted,      \* audit rows it inserted and has not committed
  sawActive,  \* requests whose account was active at some moment since they arrived
  effectUnder \* status of its account when it took effect; Null before

vars == <<status, audit, writer, readers, phase, call, view, noted, sawActive,
          effectUnder>>
rowLocks == <<writer, readers>>

Caller(r) == call[r].user
Target(r) == call[r].target

\* Locks that another transaction would have to give up first.
CanRead(r, u) == writer[u] \in {r, Null}
CanWrite(r, u) == CanRead(r, u) /\ readers[u] \subseteq {r}

Init ==
  /\ status = [u \in Users |-> "active"]
  /\ audit = [u \in Users |-> <<>>]
  /\ writer = [u \in Users |-> Null]
  /\ readers = [u \in Users |-> {}]
  /\ phase = [r \in Requests |-> "idle"]
  /\ call = [r \in Requests |-> Null]
  /\ view = [r \in Requests |-> Null]
  /\ noted = [r \in Requests |-> <<>>]
  /\ sawActive = {}
  /\ effectUnder = [r \in Requests |-> Null]

Goto(r, x) == phase' = [phase EXCEPT ![r] = x]

Arrive(r, c) ==
  /\ phase[r] = "idle"
  /\ Goto(r, "arrived")
  /\ call' = [call EXCEPT ![r] = c]
  /\ sawActive' = sawActive \cup {q \in {r} : status[c.user] = "active"}
  /\ UNCHANGED <<status, audit, rowLocks, view, noted, effectUnder>>

\* Slip of Admitted: the status the token was issued under is trusted.
AdmittedByToken(r) == call[r].op = "updateUserStatus" => Caller(r) \in Admins

\* authenticate, and for the admin routes requireAdmin.
Admitted(r) ==
  /\ status[Caller(r)] = "active"
  /\ call[r].op = "updateUserStatus" => Caller(r) \in Admins

Authenticate(r) ==
  /\ phase[r] = "arrived" /\ call[r].op # "login"
  /\ Goto(r, IF Admitted(r) THEN call[r].op ELSE "ended")
  /\ UNCHANGED <<status, audit, rowLocks, call, view, noted, sawActive, effectUnder>>

\* tokenService.verify throws: the token is invalid or has expired.
RejectToken(r) ==
  /\ phase[r] = "arrived" /\ call[r].op # "login"
  /\ Goto(r, "ended")
  /\ UNCHANGED <<status, audit, rowLocks, call, view, noted, sawActive, effectUnder>>

\* login: findByEmail.  Comparing the password takes a while.
FindByEmail(r) ==
  /\ phase[r] = "arrived" /\ call[r].op = "login"
  /\ view' = [view EXCEPT ![r] = status[Caller(r)]]
  /\ Goto(r, "comparing")
  /\ UNCHANGED <<status, audit, rowLocks, call, noted, sawActive, effectUnder>>

\* INVALID_CREDENTIALS, the same for an unknown email, or ACCOUNT_SUSPENDED.
RefuseLogin(r) ==
  /\ phase[r] = "comparing"
  /\ Target(r) # Caller(r) \/ view[r] = "suspended"
  /\ view' = [view EXCEPT ![r] = Null]
  /\ Goto(r, "ended")
  /\ UNCHANGED <<status, audit, rowLocks, call, noted, sawActive, effectUnder>>

\* tokenService.sign, under the status read before the password was compared.
IssueToken(r) ==
  /\ phase[r] = "comparing"
  /\ Target(r) = Caller(r) /\ view[r] # "suspended"
  /\ view' = [view EXCEPT ![r] = Null]
  /\ effectUnder' = [effectUnder EXCEPT ![r] = status[Caller(r)]]
  /\ Goto(r, "ended")
  /\ UNCHANGED <<status, audit, rowLocks, call, noted, sawActive>>

\* The INSERT of the idempotency key: its foreign key reads the caller's row.
Claim(r) ==
  /\ phase[r] = "use" /\ CanRead(r, Caller(r))
  /\ Goto(r, "claimed")
  /\ UNCHANGED <<status, audit, rowLocks, call, view, noted, sawActive, effectUnder>>

\* The operation of the customer commits.
Serve(r) ==
  /\ phase[r] = "claimed"
  /\ Goto(r, "ended")
  /\ effectUnder' = [effectUnder EXCEPT ![r] = status[Caller(r)]]
  /\ UNCHANGED <<status, audit, rowLocks, call, view, noted, sawActive>>

\* Slip of LockTarget: findById, a read without FOR UPDATE.
ReadTarget(r) ==
  /\ phase[r] = "updateUserStatus" /\ Target(r) # Null
  /\ view' = [view EXCEPT ![r] = status[Target(r)]]
  /\ Goto(r, "locked")
  /\ UNCHANGED <<status, audit, rowLocks, call, noted, sawActive, effectUnder>>

\* findByIdForUpdate.
LockTarget(r) ==
  /\ phase[r] = "updateUserStatus" /\ Target(r) # Null
  /\ CanWrite(r, Target(r))
  /\ writer' = [writer EXCEPT ![Target(r)] = r]
  /\ view' = [view EXCEPT ![r] = status[Target(r)]]
  /\ Goto(r, "locked")
  /\ UNCHANGED <<status, audit, readers, call, noted, sawActive, effectUnder>>

\* The end of a transaction: its locks and its private state go.
Release(r) ==
  /\ Goto(r, "ended")
  /\ writer' = [u \in Users |-> IF writer[u] = r THEN Null ELSE writer[u]]
  /\ readers' = [u \in Users |-> readers[u] \ {r}]
  /\ view' = [view EXCEPT ![r] = Null]
  /\ noted' = [noted EXCEPT ![r] = <<>>]

\* Slip of Refuse: the error is answered without ending the transaction.
RefuseUnfinished(r) ==
  /\ \/ phase[r] = "updateUserStatus" /\ Target(r) = Null
     \/ phase[r] = "locked" /\ Target(r) = Caller(r)
  /\ Goto(r, "ended")
  /\ UNCHANGED <<status, audit, rowLocks, view, noted, call, sawActive, effectUnder>>

\* USER_NOT_FOUND or CANNOT_MODIFY_SELF; the transaction rolls back.
Refuse(r) ==
  /\ \/ phase[r] = "updateUserStatus" /\ Target(r) = Null
     \/ phase[r] = "locked" /\ Target(r) = Caller(r)
  /\ Release(r)
  /\ UNCHANGED <<status, audit, call, sawActive, effectUnder>>

\* Slip of UpdateStatus: the present status is set and audited again.
UpdateStatusAlways(r) ==
  /\ phase[r] = "locked" /\ Target(r) # Caller(r)
  /\ Goto(r, "updated")
  /\ UNCHANGED <<status, audit, rowLocks, call, view, noted, sawActive, effectUnder>>

\* A change is written, then audited; setting the present status does neither.
UpdateStatus(r) ==
  /\ phase[r] = "locked" /\ Target(r) # Caller(r)
  /\ Goto(r, IF view[r] = call[r].status THEN "written" ELSE "updated")
  /\ UNCHANGED <<status, audit, rowLocks, call, view, noted, sawActive, effectUnder>>

\* The audit row; its foreign key admin_id share-locks the administrator's row.
RecordAction(r) ==
  /\ phase[r] = "updated" /\ CanRead(r, Caller(r))
  /\ readers' = [readers EXCEPT ![Caller(r)] = @ \cup {r}]
  /\ noted' = [noted EXCEPT ![r] = <<[by |-> Caller(r), from |-> view[r],
                                      to |-> call[r].status]>>]
  /\ Goto(r, "written")
  /\ UNCHANGED <<status, audit, writer, call, view, sawActive, effectUnder>>

Commit(r) ==
  /\ phase[r] = "written"
  /\ status' = [status EXCEPT ![Target(r)] = call[r].status]
  /\ audit' = [audit EXCEPT ![Target(r)] = @ \o noted[r]]
  /\ sawActive' = sawActive \cup
       {q \in Requests : /\ call[r].status = "active"
                         /\ call[q] # Null /\ Caller(q) = Target(r)}
  /\ effectUnder' = [effectUnder EXCEPT ![r] =
       IF noted[r] = <<>> THEN Null ELSE status[Caller(r)]]
  /\ Release(r)
  /\ UNCHANGED call

\* A failed statement, a lost connection, a lock wait timeout.
Abort(r) ==
  /\ phase[r] \notin {"idle", "ended"}
  /\ Release(r)
  /\ UNCHANGED <<status, audit, call, sawActive, effectUnder>>

\* The row locks r waits for, and who holds them.
WaitsFor(r, q) ==
  /\ q # r
  /\ \/ /\ phase[r] = "updateUserStatus" /\ Target(r) # Null
        /\ writer[Target(r)] = q \/ q \in readers[Target(r)]
     \/ /\ phase[r] \in {"use", "updated"}
        /\ writer[Caller(r)] = q

Waits == [p, q \in Requests |-> WaitsFor(p, q)]

OnCycle(r) ==
  /\ \E q \in Requests : WaitsFor(r, q)
  /\ TransitiveClosure(Waits, Requests)[r, r]

\* InnoDB finds a cycle of waits and rolls one of its transactions back.
DeadlockVictim(r) ==
  /\ OnCycle(r)
  /\ Release(r)
  /\ UNCHANGED <<status, audit, call, sawActive, effectUnder>>

Step(r) ==
  \/ FindByEmail(r) \/ RefuseLogin(r) \/ IssueToken(r)
  \/ Authenticate(r) \/ RejectToken(r) \/ Claim(r) \/ Serve(r)
  \/ LockTarget(r) \/ Refuse(r) \/ UpdateStatus(r) \/ RecordAction(r) \/ Commit(r)
  \/ DeadlockVictim(r)

Next == \E r \in Requests : (\E c \in Calls : Arrive(r, c)) \/ Step(r) \/ Abort(r)

Spec == Init /\ [][Next]_vars

\* A request goes on when it can, and deadlocks are detected.
FairSpec == Spec /\ \A r \in Requests : WF_vars(Step(r))

-----------------------------------------------------------------------------
Change == {c \in [by: Admins, from: Status, to: Status] : c.from # c.to}

\* Every variable has its type; an audit row names an administrator and a change.
TypeOK ==
  /\ status \in [Users -> Status]
  /\ audit \in [Users -> Seq(Change)]
  /\ writer \in [Users -> Requests \cup {Null}]
  /\ readers \in [Users -> SUBSET Requests]
  /\ phase \in [Requests -> {"idle", "arrived", "comparing", "use", "claimed",
                             "updateUserStatus", "locked", "updated", "written",
                             "ended"}]
  /\ call \in [Requests -> Calls \cup {Null}]
  /\ view \in [Requests -> Status \cup {Null}]
  /\ noted \in [Requests -> Seq(Change)]
  /\ sawActive \in SUBSET Requests
  /\ effectUnder \in [Requests -> Status \cup {Null}]

\* The audit rows of an account chain from its first status to its present one,
\* none missing and none computed from a status another change replaced.
AuditReplaysStatus == \A u \in Users : Replay(audit[u], status[u])

\* A request that arrives after its account was suspended has no effect unless
\* the account is reactivated meanwhile: its token, though still valid, does
\* nothing, and a login gets none.
SuspendedIsTurnedAway ==
  \A r \in Requests : effectUnder[r] # Null => r \in sawActive

\* No request made with a token takes effect after its account was suspended
\* (REPORT.md: "a token becomes useless the moment its account is suspended").
SuspendedTokensAreUseless ==
  \A r \in Requests :
    call[r] # Null /\ call[r].op # "login" => effectUnder[r] # "suspended"

\* Every request ends, though administrators who suspend each other wait for the
\* row the other has locked: no lock outlives the transaction that took it.
RequestsEnd == \A r \in Requests : phase[r] = "arrived" ~> phase[r] = "ended"
=============================================================================
