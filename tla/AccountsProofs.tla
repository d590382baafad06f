--------------------------- MODULE AccountsProofs ---------------------------
(***************************************************************************)
(* Theorems about accounts, their suspension and the requests made with    *)
(* their tokens, for any users, administrators, calls and requests.        *)
(***************************************************************************)
EXTENDS Accounts, TLAPS

USE AccountsAssumption DEF AccountsAssumption

-----------------------------------------------------------------------------
(* The inductive invariant.                                                *)

\* Past the checks of a handler that is to change a status.
Changing(r) == phase[r] \in {"locked", "updated", "written"}

\* Past authenticate.
Authenticated(r) ==
  phase[r] \in {"use", "claimed", "updateUserStatus", "locked", "updated", "written"}

\* A request that has arrived carries a call, and one past requireAdmin is an
\* administrator's.
Carries ==
  \A r \in Requests :
    /\ phase[r] # "idle" => call[r] \in Calls
    /\ phase[r] = "updateUserStatus" \/ Changing(r) =>
         call[r].op = "updateUserStatus" /\ Caller(r) \in Admins

\* A change in progress has locked its row, so what it read there is still so.
Locked ==
  \A r \in Requests : Changing(r) =>
    /\ Target(r) \in Users
    /\ writer[Target(r)] = r
    /\ view[r] = status[Target(r)]

\* A change has inserted its audit row when it comes to its commit, unless there
\* is nothing to change.
Noted ==
  \A r \in Requests :
    /\ phase[r] # "written" => noted[r] = <<>>
    /\ phase[r] = "updated" => view[r] # call[r].status
    /\ phase[r] = "written" =>
         \/ noted[r] = <<>> /\ view[r] = call[r].status
         \/ /\ view[r] # call[r].status
            /\ noted[r] = <<[by |-> Caller(r), from |-> view[r], to |-> call[r].status]>>

\* The account of a request that was let through, of a login that read it active,
\* and of any request while it is active, was seen to be so.
Seen ==
  \A r \in Requests :
    /\ Authenticated(r) => r \in sawActive
    /\ phase[r] = "comparing" /\ view[r] # "suspended" => r \in sawActive
    /\ phase[r] # "idle" /\ status[Caller(r)] = "active" => r \in sawActive

Inv ==
  /\ TypeOK
  /\ Carries
  /\ Locked
  /\ Noted
  /\ Seen
  /\ AuditReplaysStatus
  /\ SuspendedIsTurnedAway

LEMMA CallFields ==
  ASSUME NEW c \in Calls
  PROVE  /\ c.op \in {"login", "use", "updateUserStatus"}
         /\ c.user \in Users /\ c.target \in Users \cup {Null}
         /\ c.status \in Status
BY DEF CallType

LEMMA InitInv == Init => Inv
BY DEF Init, Inv, TypeOK, Carries, Locked, Noted, Seen, AuditReplaysStatus,
       SuspendedIsTurnedAway, Changing, Authenticated, Status, Caller, Replay

\* One more row, from the present status to another, replays to the other.
LEMMA ReplayExtended ==
  ASSUME NEW Rows, NEW a \in Seq(Rows), NEW c \in Rows, Replay(a, c.from)
  PROVE  Replay(a \o <<c>>, c.to)
<1> DEFINE b == a \o <<c>>
<1>1. /\ Len(b) = Len(a) + 1 /\ Len(a) \in Nat
      /\ b[Len(a) + 1] = c
      /\ \A i \in 1 .. Len(a) : b[i] = a[i]
  OBVIOUS
<1>2. b # <<>> /\ (a = <<>> <=> Len(a) = 0)
  BY <1>1
<1> HIDE DEF b
<1>3. ASSUME NEW i \in 1 .. Len(b) - 1 PROVE b[i].to = b[i + 1].from
  <2>1. CASE i = Len(a)
    BY <2>1, <1>1, <1>2 DEF Replay
  <2>2. CASE i < Len(a)
    <3>1. i \in 1 .. Len(a) - 1 /\ i + 1 \in 1 .. Len(a)
      BY <2>2, <1>1
    <3> QED
      BY <3>1, <1>1 DEF Replay
  <2> QED
    BY <2>1, <2>2, <1>1
<1>4. b[1].from = "active"
  <2>1. CASE a = <<>>
    BY <2>1, <1>1, <1>2 DEF Replay
  <2>2. CASE a # <<>>
    <3>1. 1 \in 1 .. Len(a)
      BY <2>2, <1>1, <1>2
    <3> QED
      BY <3>1, <2>2, <1>1 DEF Replay
  <2> QED
    BY <2>1, <2>2
<1>5. c.to = IF b = <<>> THEN "active" ELSE b[Len(b)].to
  BY <1>1, <1>2
<1>6. Replay(b, c.to)
  BY <1>3, <1>4, <1>5 DEF Replay
<1> QED
  BY <1>6 DEF b

-----------------------------------------------------------------------------
(* Steps that leave statuses, audit rows and locks alone.                  *)

\* Such a step of r preserves what the others rely on: it remains to show that r
\* keeps its part of the invariant.
LEMMA PrivateStep ==
  ASSUME Inv, NEW r \in Requests, TypeOK',
         UNCHANGED <<status, audit, call>>,
         \A q \in Requests \ {r} :
           /\ phase'[q] = phase[q] /\ view'[q] = view[q] /\ noted'[q] = noted[q]
           /\ (q \in sawActive' <=> q \in sawActive) /\ effectUnder'[q] = effectUnder[q]
           /\ \A u \in Users : writer[u] = q => writer'[u] = q,
         (r \in sawActive' <=> r \in sawActive),
         phase[r] # "idle",
         phase'[r] = "updateUserStatus" \/ Changing(r)' =>
           call[r].op = "updateUserStatus" /\ Caller(r) \in Admins,
         Changing(r)' => /\ Target(r) \in Users /\ writer'[Target(r)] = r
                         /\ view'[r] = status[Target(r)],
         phase'[r] # "written" => noted'[r] = <<>>,
         phase'[r] = "updated" => view'[r] # call[r].status,
         phase'[r] = "written" =>
           \/ noted'[r] = <<>> /\ view'[r] = call[r].status
           \/ /\ view'[r] # call[r].status
              /\ noted'[r] = <<[by |-> Caller(r), from |-> view'[r], to |-> call[r].status]>>,
         Authenticated(r)' => r \in sawActive,
         phase'[r] = "comparing" /\ view'[r] # "suspended" => r \in sawActive,
         effectUnder'[r] # Null => r \in sawActive
  PROVE  Inv'
<1>1. Carries'
  BY DEF Inv, Carries, Changing, Caller
<1>2. Locked'
  BY DEF Inv, Locked, Changing, Target
<1>3. Noted'
  BY DEF Inv, Noted, Caller
<1>4. Seen'
  BY DEF Inv, Seen, Authenticated, Caller
<1>5. AuditReplaysStatus'
  BY DEF Inv, AuditReplaysStatus
<1>6. SuspendedIsTurnedAway'
  BY DEF Inv, SuspendedIsTurnedAway
<1> QED
  BY <1>1, <1>2, <1>3, <1>4, <1>5, <1>6 DEF Inv

\* The end of a transaction that commits nothing.
LEMMA ReleaseInv ==
  ASSUME Inv, NEW r \in Requests, Release(r), phase[r] # "idle",
         UNCHANGED <<status, audit, call, sawActive, effectUnder>>
  PROVE  Inv'
<1>1. TypeOK'
  BY DEF Inv, TypeOK, Release, Goto
<1>2. \A q \in Requests \ {r} :
        /\ phase'[q] = phase[q] /\ view'[q] = view[q] /\ noted'[q] = noted[q]
        /\ \A u \in Users : writer[u] = q => writer'[u] = q
  BY DEF Inv, TypeOK, Release, Goto
<1>3. phase'[r] = "ended" /\ noted'[r] = <<>>
  BY DEF Inv, TypeOK, Release, Goto
<1>4. effectUnder[r] # Null => r \in sawActive
  BY DEF Inv, SuspendedIsTurnedAway
<1> QED
  BY <1>1, <1>2, <1>3, <1>4, PrivateStep DEF Changing, Authenticated

-----------------------------------------------------------------------------
(* The commit of a change.                                                 *)

LEMMA CommitInv ==
  ASSUME Inv, NEW r \in Requests, Commit(r)
  PROVE  Inv'
<1> DEFINE t == Target(r)
           new == call[r].status
<1>1. /\ phase[r] = "written" /\ t \in Users /\ writer[t] = r /\ view[r] = status[t]
      /\ call[r] \in Calls /\ Caller(r) \in Admins /\ Caller(r) \in Users
      /\ new \in Status /\ status[t] \in Status
      /\ r \in sawActive
  <2>1. call[r] \in Calls /\ phase[r] = "written"
    BY DEF Commit, Inv, Carries
  <2> QED
    BY <2>1, CallFields DEF Inv, TypeOK, Locked, Carries, Changing, Seen, Authenticated
<1>2. \/ noted[r] = <<>> /\ status[t] = new
      \/ /\ status[t] # new
         /\ noted[r] = <<[by |-> Caller(r), from |-> status[t], to |-> new]>>
  BY <1>1 DEF Inv, Noted
<1>3. /\ status' = [status EXCEPT ![t] = new]
      /\ audit' = [audit EXCEPT ![t] = @ \o noted[r]]
      /\ sawActive' = sawActive \cup
           {q \in Requests : new = "active" /\ call[q] # Null /\ Caller(q) = t}
      /\ effectUnder' = [effectUnder EXCEPT ![r] =
           IF noted[r] = <<>> THEN Null ELSE status[Caller(r)]]
      /\ writer' = [u \in Users |-> IF writer[u] = r THEN Null ELSE writer[u]]
      /\ readers' = [u \in Users |-> readers[u] \ {r}]
      /\ phase' = [phase EXCEPT ![r] = "ended"]
      /\ view' = [view EXCEPT ![r] = Null]
      /\ noted' = [noted EXCEPT ![r] = <<>>]
      /\ UNCHANGED call
  BY DEF Commit, Release, Goto
<1>4. noted[r] \in Seq(Change) /\ audit[t] \in Seq(Change)
  BY <1>1 DEF Inv, TypeOK
<1> HIDE DEF t, new
<1>5. TypeOK'
  <2>1. status' \in [Users -> Status] /\ audit' \in [Users -> Seq(Change)]
    BY <1>1, <1>3, <1>4 DEF Inv, TypeOK
  <2>2. sawActive' \in SUBSET Requests
    BY <1>3 DEF Inv, TypeOK
  <2>3. effectUnder' \in [Requests -> Status \cup {Null}]
    <3>1. PICK e \in Status \cup {Null} : effectUnder' = [effectUnder EXCEPT ![r] = e]
      <4>1. status[Caller(r)] \in Status
        BY <1>1 DEF Inv, TypeOK
      <4>2. CASE noted[r] = <<>>
        BY <1>3, <4>2
      <4>3. CASE noted[r] # <<>>
        BY <1>3, <4>1, <4>3
      <4> QED
        BY <4>2, <4>3
    <3> QED
      BY <3>1 DEF Inv, TypeOK
  <2>4. /\ writer' \in [Users -> Requests \cup {Null}] /\ readers' \in [Users -> SUBSET Requests]
        /\ view' \in [Requests -> Status \cup {Null}] /\ noted' \in [Requests -> Seq(Change)]
    BY <1>3 DEF Inv, TypeOK
  <2>5. call' \in [Requests -> Calls \cup {Null}] /\
        phase' \in [Requests -> {"idle", "arrived", "comparing", "use", "claimed",
                                 "updateUserStatus", "locked", "updated", "written", "ended"}]
    BY <1>3 DEF Inv, TypeOK
  <2> QED
    BY <2>1, <2>2, <2>3, <2>4, <2>5 DEF TypeOK
<1>6. Carries'
  <2>1. \A q \in Requests :
          /\ phase'[q] # "idle" => phase[q] # "idle"
          /\ phase'[q] = "updateUserStatus" \/ Changing(q)' =>
               phase[q] = "updateUserStatus" \/ Changing(q)
    BY <1>1, <1>3 DEF Inv, TypeOK, Changing
  <2> QED
    BY <1>3, <2>1 DEF Inv, Carries, Changing, Caller
<1>7. Locked'
  <2> SUFFICES ASSUME NEW q \in Requests, Changing(q)'
               PROVE  Target(q) \in Users /\ writer'[Target(q)] = q /\ view'[q] = status'[Target(q)]
    BY <1>3 DEF Locked, Target
  <2>1. q # r /\ Changing(q)
    BY <1>3 DEF Changing, Inv, TypeOK
  <2>2. Target(q) \in Users /\ writer[Target(q)] = q /\ view[q] = status[Target(q)]
    BY <2>1 DEF Inv, Locked
  <2>3. Target(q) # t
    BY <1>1, <2>1, <2>2
  <2> QED
    BY <1>3, <2>1, <2>2, <2>3 DEF Inv, TypeOK
<1>8. Noted'
  BY <1>3 DEF Inv, TypeOK, Noted, Caller
<1>9. Seen'
  <2> SUFFICES ASSUME NEW q \in Requests
               PROVE  /\ Authenticated(q)' => q \in sawActive'
                      /\ phase'[q] = "comparing" /\ view'[q] # "suspended" => q \in sawActive'
                      /\ phase'[q] # "idle" /\ status'[Caller(q)] = "active" => q \in sawActive'
    BY <1>3 DEF Seen, Caller
  <2>1. q \in sawActive => q \in sawActive'
    BY <1>3
  <2>2. q = r => q \in sawActive
    BY <1>1
  <2>3. q # r => phase'[q] = phase[q] /\ view'[q] = view[q]
    BY <1>3 DEF Inv, TypeOK
  <2>4. ASSUME q # r, phase[q] # "idle", status'[Caller(q)] = "active" PROVE q \in sawActive'
    <3>1. call[q] \in Calls /\ Caller(q) \in Users
      BY <2>4, CallFields DEF Inv, Carries, Caller
    <3>2. CASE Caller(q) = t
      BY <1>1, <1>3, <2>4, <3>1, <3>2 DEF Inv, TypeOK
    <3>3. CASE Caller(q) # t
      BY <1>3, <2>1, <2>4, <3>1, <3>3 DEF Inv, TypeOK, Seen
    <3> QED
      BY <3>2, <3>3
  <2> QED
    BY <2>1, <2>2, <2>3, <2>4 DEF Inv, Seen, Authenticated
<1>10. AuditReplaysStatus'
  <2> SUFFICES ASSUME NEW u \in Users
               PROVE  Replay(audit'[u], status'[u])
    BY DEF AuditReplaysStatus
  <2>1. Replay(audit[u], status[u])
    BY DEF Inv, AuditReplaysStatus
  <2>2. CASE u # t \/ status[t] = new
    <3>1. audit'[u] = audit[u]
      BY <1>1, <1>2, <1>3, <1>4, <2>2 DEF Inv, TypeOK
    <3>2. status'[u] = status[u]
      BY <1>1, <1>3, <2>2 DEF Inv, TypeOK
    <3> QED
      BY <2>1, <3>1, <3>2
  <2>3. CASE u = t /\ status[t] # new
    <3> DEFINE c == [by |-> Caller(r), from |-> status[t], to |-> new]
    <3>1. c \in Change /\ c.from = status[u] /\ c.to = new
      BY <1>1, <2>3 DEF Change
    <3>2. audit'[u] = audit[u] \o <<c>> /\ status'[u] = new /\ audit[u] \in Seq(Change)
      BY <1>1, <1>2, <1>3, <2>3 DEF Inv, TypeOK
    <3> HIDE DEF c
    <3> QED
      BY <2>1, <3>1, <3>2, ReplayExtended
  <2> QED
    BY <2>2, <2>3
<1>11. SuspendedIsTurnedAway'
  BY <1>1, <1>3 DEF Inv, TypeOK, SuspendedIsTurnedAway
<1> QED
  BY <1>5, <1>6, <1>7, <1>8, <1>9, <1>10, <1>11 DEF Inv

-----------------------------------------------------------------------------
(* The other steps.                                                        *)

LEMMA StepInv == Inv /\ [Next]_vars => Inv'
<1> SUFFICES ASSUME Inv, [Next]_vars PROVE Inv'
  OBVIOUS
<1> USE DEF Goto, rowLocks
<1>0. ASSUME NEW r \in Requests, phase[r] # "idle"
      PROVE  /\ call[r] \in Calls /\ Caller(r) \in Users /\ Target(r) \in Users \cup {Null}
             /\ call[r].op \in {"login", "use", "updateUserStatus"} /\ call[r].status \in Status
             /\ status[Caller(r)] \in Status
             /\ effectUnder[r] # Null => r \in sawActive
  BY <1>0, CallFields DEF Inv, TypeOK, Carries, Caller, Target, SuspendedIsTurnedAway
<1>1. ASSUME NEW r \in Requests, NEW c \in Calls, Arrive(r, c) PROVE Inv'
  <2>1. /\ phase[r] = "idle" /\ phase' = [phase EXCEPT ![r] = "arrived"]
        /\ call' = [call EXCEPT ![r] = c]
        /\ sawActive' = sawActive \cup {q \in {r} : status[c.user] = "active"}
        /\ UNCHANGED <<status, audit, writer, readers, view, noted, effectUnder>>
    BY <1>1 DEF Arrive
  <2>2. sawActive' \subseteq Requests
    BY <2>1 DEF Inv, TypeOK
  <2>3. TypeOK'
    BY <2>1, <2>2 DEF Inv, TypeOK
  <2>4. Carries' /\ Locked' /\ Noted'
    BY <2>1 DEF Inv, TypeOK, Carries, Locked, Noted, Changing, Caller, Target
  <2>5. Seen'
    BY <2>1 DEF Inv, TypeOK, Seen, Authenticated, Caller
  <2>6. AuditReplaysStatus'
    BY <2>1 DEF Inv, AuditReplaysStatus
  <2>7. SuspendedIsTurnedAway'
    BY <2>1 DEF Inv, TypeOK, SuspendedIsTurnedAway
  <2> QED
    BY <2>3, <2>4, <2>5, <2>6, <2>7 DEF Inv
<1>2. ASSUME NEW r \in Requests, Authenticate(r) PROVE Inv'
  <2>1. PICK x \in {"use", "updateUserStatus", "ended"} :
          /\ phase[r] = "arrived" /\ phase' = [phase EXCEPT ![r] = x]
          /\ x # "ended" => x = call[r].op /\ Admitted(r)
          /\ UNCHANGED <<status, audit, writer, readers, call, view, noted, sawActive, effectUnder>>
    BY <1>2, <1>0 DEF Authenticate
  <2>2. x # "ended" => r \in sawActive
    BY <2>1 DEF Admitted, Inv, Seen
  <2>3. noted[r] = <<>>
    BY <2>1 DEF Inv, Noted
  <2>4. TypeOK' /\ phase'[r] = x
    BY <2>1 DEF Inv, TypeOK
  <2>5. x = "updateUserStatus" => call[r].op = "updateUserStatus" /\ Caller(r) \in Admins
    BY <2>1 DEF Admitted
  <2> QED
    BY <2>1, <2>2, <2>3, <2>4, <2>5, <1>0, PrivateStep DEF Inv, TypeOK, Changing, Authenticated
<1>3. ASSUME NEW r \in Requests, RejectToken(r) PROVE Inv'
  <2>1. TypeOK' /\ phase'[r] = "ended" /\ noted[r] = <<>>
    BY <1>3 DEF RejectToken, Inv, TypeOK, Noted
  <2> QED
    BY <1>3, <2>1, <1>0, PrivateStep DEF RejectToken, Inv, TypeOK, Changing, Authenticated
<1>4. ASSUME NEW r \in Requests, FindByEmail(r) PROVE Inv'
  <2>1. /\ phase[r] = "arrived"
        /\ phase' = [phase EXCEPT ![r] = "comparing"]
        /\ view' = [view EXCEPT ![r] = status[Caller(r)]]
        /\ UNCHANGED <<status, audit, writer, readers, call, noted, sawActive, effectUnder>>
    BY <1>4 DEF FindByEmail
  <2>2. TypeOK' /\ phase'[r] = "comparing" /\ noted[r] = <<>> /\ view'[r] = status[Caller(r)]
    BY <2>1, <1>0 DEF Inv, TypeOK, Noted
  <2>3. status[Caller(r)] # "suspended" => r \in sawActive
    BY <2>1, <1>0 DEF Inv, Seen, Status
  <2> QED
    BY <2>1, <2>2, <2>3, <1>0, PrivateStep DEF Inv, TypeOK, Changing, Authenticated
<1>5. ASSUME NEW r \in Requests, RefuseLogin(r) PROVE Inv'
  <2>1. TypeOK' /\ phase'[r] = "ended" /\ noted[r] = <<>>
    BY <1>5 DEF RefuseLogin, Inv, TypeOK, Noted
  <2> QED
    BY <1>5, <2>1, <1>0, PrivateStep DEF RefuseLogin, Inv, TypeOK, Changing, Authenticated
<1>6. ASSUME NEW r \in Requests, IssueToken(r) PROVE Inv'
  <2>1. /\ phase[r] = "comparing" /\ phase' = [phase EXCEPT ![r] = "ended"]
        /\ view[r] # "suspended" /\ view' = [view EXCEPT ![r] = Null]
        /\ effectUnder' = [effectUnder EXCEPT ![r] = status[Caller(r)]]
        /\ UNCHANGED <<status, audit, writer, readers, call, noted, sawActive>>
    BY <1>6 DEF IssueToken
  <2>2. TypeOK' /\ phase'[r] = "ended" /\ noted[r] = <<>>
    BY <2>1, <1>0 DEF Inv, TypeOK, Noted
  <2>3. r \in sawActive
    BY <2>1 DEF Inv, Seen
  <2> QED
    BY <2>1, <2>2, <2>3, PrivateStep DEF Inv, TypeOK, Changing, Authenticated
<1>7. ASSUME NEW r \in Requests, Claim(r) PROVE Inv'
  <2>1. TypeOK' /\ phase'[r] = "claimed" /\ noted[r] = <<>> /\ r \in sawActive
    BY <1>7 DEF Claim, Inv, TypeOK, Noted, Seen, Authenticated
  <2> QED
    BY <1>7, <2>1, <1>0, PrivateStep DEF Claim, Inv, TypeOK, Changing, Authenticated
<1>8. ASSUME NEW r \in Requests, Serve(r) PROVE Inv'
  <2>1. /\ phase[r] = "claimed" /\ phase' = [phase EXCEPT ![r] = "ended"]
        /\ effectUnder' = [effectUnder EXCEPT ![r] = status[Caller(r)]]
        /\ UNCHANGED <<status, audit, writer, readers, call, view, noted, sawActive>>
    BY <1>8 DEF Serve
  <2>2. TypeOK' /\ phase'[r] = "ended" /\ noted[r] = <<>> /\ r \in sawActive
    BY <2>1, <1>0 DEF Inv, TypeOK, Noted, Seen, Authenticated
  <2> QED
    BY <2>1, <2>2, PrivateStep DEF Inv, TypeOK, Changing, Authenticated
<1>9. ASSUME NEW r \in Requests, LockTarget(r) PROVE Inv'
  <2> DEFINE t == Target(r)
  <2>1. /\ phase[r] = "updateUserStatus" /\ t \in Users /\ CanWrite(r, t)
        /\ phase' = [phase EXCEPT ![r] = "locked"]
        /\ writer' = [writer EXCEPT ![t] = r]
        /\ view' = [view EXCEPT ![r] = status[t]]
        /\ UNCHANGED <<status, audit, readers, call, noted, sawActive, effectUnder>>
    BY <1>9, <1>0 DEF LockTarget
  <2> HIDE DEF t
  <2>2. TypeOK' /\ phase'[r] = "locked" /\ noted[r] = <<>> /\ r \in sawActive
    BY <2>1 DEF Inv, TypeOK, Noted, Seen, Authenticated
  <2>3. view'[r] = status[t] /\ writer'[t] = r
    BY <2>1 DEF Inv, TypeOK
  <2>4. call[r].op = "updateUserStatus" /\ Caller(r) \in Admins
    BY <2>1 DEF Inv, Carries
  <2>5. \A q \in Requests \ {r} : \A u \in Users : writer[u] = q => writer'[u] = q
    BY <2>1 DEF Inv, TypeOK, CanWrite, CanRead
  <2>6. \A q \in Requests \ {r} : phase'[q] = phase[q] /\ view'[q] = view[q]
    BY <2>1 DEF Inv, TypeOK
  <2> QED
    BY <2>1, <2>2, <2>3, <2>4, <2>5, <2>6, <1>0, PrivateStep DEF t, Changing, Authenticated
<1>10. ASSUME NEW r \in Requests, Refuse(r) PROVE Inv'
  BY <1>10, ReleaseInv DEF Refuse
<1>11. ASSUME NEW r \in Requests, UpdateStatus(r) PROVE Inv'
  <2>1. PICK x \in {"written", "updated"} :
          /\ phase[r] = "locked" /\ phase' = [phase EXCEPT ![r] = x]
          /\ x = "written" <=> view[r] = call[r].status
          /\ UNCHANGED <<status, audit, writer, readers, call, view, noted, sawActive, effectUnder>>
    BY <1>11 DEF UpdateStatus
  <2>2. TypeOK' /\ phase'[r] = x /\ noted[r] = <<>> /\ r \in sawActive
    BY <2>1 DEF Inv, TypeOK, Noted, Seen, Authenticated
  <2>3. /\ Target(r) \in Users /\ writer[Target(r)] = r /\ view[r] = status[Target(r)]
        /\ call[r].op = "updateUserStatus" /\ Caller(r) \in Admins
    BY <2>1 DEF Inv, Locked, Carries, Changing
  <2> QED
    BY <2>1, <2>2, <2>3, <1>0, PrivateStep DEF Inv, TypeOK, Changing, Authenticated
<1>12. ASSUME NEW r \in Requests, RecordAction(r) PROVE Inv'
  <2> DEFINE row == [by |-> Caller(r), from |-> view[r], to |-> call[r].status]
  <2>1. /\ phase[r] = "updated" /\ phase' = [phase EXCEPT ![r] = "written"]
        /\ readers' = [readers EXCEPT ![Caller(r)] = @ \cup {r}]
        /\ noted' = [noted EXCEPT ![r] = <<row>>]
        /\ UNCHANGED <<status, audit, writer, call, view, sawActive, effectUnder>>
    BY <1>12 DEF RecordAction
  <2>2. /\ view[r] # call[r].status /\ r \in sawActive
        /\ Target(r) \in Users /\ writer[Target(r)] = r /\ view[r] = status[Target(r)]
        /\ call[r].op = "updateUserStatus" /\ Caller(r) \in Admins
    BY <2>1 DEF Inv, Noted, Seen, Locked, Carries, Changing, Authenticated
  <2>3. row \in Change
    BY <2>1, <2>2, <1>0 DEF Change, Inv, TypeOK
  <2> HIDE DEF row
  <2>4. TypeOK' /\ phase'[r] = "written" /\ noted'[r] = <<row>>
    <3>1. <<row>> \in Seq(Change)
      BY <2>3
    <3>2. readers' \in [Users -> SUBSET Requests]
      BY <2>1, <1>0 DEF Inv, TypeOK
    <3> QED
      BY <2>1, <3>1, <3>2 DEF Inv, TypeOK
  <2>5. \A q \in Requests \ {r} : phase'[q] = phase[q] /\ noted'[q] = noted[q]
    BY <2>1 DEF Inv, TypeOK
  <2> QED
    BY <2>1, <2>2, <2>4, <2>5, <1>0, PrivateStep DEF row, Changing, Authenticated
<1>13. ASSUME NEW r \in Requests, Commit(r) PROVE Inv'
  BY <1>13, CommitInv
<1>14. ASSUME NEW r \in Requests, Abort(r) PROVE Inv'
  BY <1>14, ReleaseInv DEF Abort
<1>15. ASSUME NEW r \in Requests, DeadlockVictim(r) PROVE Inv'
  <2>1. phase[r] # "idle"
    <3>1. \E q \in Requests : WaitsFor(r, q)
      BY <1>15 DEF DeadlockVictim, OnCycle
    <3> QED
      BY <3>1 DEF WaitsFor
  <2> QED
    BY <1>15, <2>1, ReleaseInv DEF DeadlockVictim
<1>16. CASE UNCHANGED vars
  BY <1>16 DEF vars, Inv, TypeOK, Carries, Locked, Noted, Seen, AuditReplaysStatus,
               SuspendedIsTurnedAway, Changing, Authenticated, Caller, Target
<1> QED
  BY <1>1, <1>2, <1>3, <1>4, <1>5, <1>6, <1>7, <1>8, <1>9, <1>10, <1>11, <1>12, <1>13,
     <1>14, <1>15, <1>16
  DEF Next, Step

LEMMA Invariance == Spec => []Inv
BY InitInv, StepInv, PTL DEF Spec

-----------------------------------------------------------------------------
(* Theorems.                                                               *)

\* Every variable keeps its type; an audit row names an administrator and a real
\* change of status.
THEOREM TypeCorrect == Spec => []TypeOK
BY Invariance, PTL DEF Inv

\* The audit rows of an account replay its status, however administrators race
\* and whichever transactions roll back.
THEOREM AuditIsComplete == Spec => []AuditReplaysStatus
BY Invariance, PTL DEF Inv

\* A suspended account's tokens and logins come to nothing unless the account was
\* active at some moment after the request arrived.
THEOREM SuspendedAccountsAreTurnedAway == Spec => []SuspendedIsTurnedAway
BY Invariance, PTL DEF Inv
=============================================================================
