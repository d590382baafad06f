-------------------------- MODULE IdempotencyProofs --------------------------
(***************************************************************************)
(* Theorems about the idempotency middleware, for any number of requests,  *)
(* scopes, bodies and deaths.                                              *)
(***************************************************************************)
EXTENDS Idempotency, SequenceTheorems, TLAPS

USE IdempotencyAssumption DEF IdempotencyAssumption

-----------------------------------------------------------------------------
(* Types.  They need one fact more: past its INSERT a request always has a row, *)
(* and when it decides it has read one.                                        *)

Found ==
  \A r \in Requests :
    /\ stage[r] \notin {"idle", "create"} => row[ScopeOf[r]] # Null
    /\ stage[r] = "decide" => existing[r] # Null

TypeInv == TypeOK /\ Found

LEMMA InitTypeInv == Init => TypeInv
BY DEF Init, TypeInv, TypeOK, Found, Stage

\* The row a claim writes is a row.
LEMMA ProcessingIsRow == \A h \in Hashes : Processing(h) \in Row
BY DEF Processing, Row, Unsettled

\* What writing one row with a row does to the types.
LEMMA WriteTypeInv ==
  ASSUME TypeInv, NEW r \in Requests, NEW x \in Row, NEW s \in Scopes,
         row' = [row EXCEPT ![s] = x],
         \/ row[s] # Null /\ UNCHANGED stage
         \/ s = ScopeOf[r] /\ stage' = [stage EXCEPT ![r] = "handler"]
         \/ s = ScopeOf[r] /\ stage' = [stage EXCEPT ![r] = "finishing"]
         \/ row[s] # Null /\ stage' = [stage EXCEPT ![r] = "idle"],
         existing' = existing \/ existing' = [existing EXCEPT ![r] = Null],
         existing' = existing \/ stage'[r] = "handler",
         rowLock' \in [Scopes -> Requests \cup {Null}],
         reply' \in [Requests -> Hashes \cup {Null}],
         moved' \in [Scopes -> Seq(Hashes)],
         deaths' = deaths
  PROVE  TypeInv'
<1>1. row' \in [Scopes -> Row \cup {Null}] /\ row'[s] # Null
  BY DEF TypeInv, TypeOK
<1>2. \A t \in Scopes : row[t] # Null => row'[t] # Null
  BY <1>1 DEF TypeInv, TypeOK
<1>3. stage' \in [Requests -> Stage]
  BY DEF TypeInv, TypeOK, Stage
<1>4. existing' \in [Requests -> Row \cup {Null}]
  BY DEF TypeInv, TypeOK
<1>5. Found'
  <2> SUFFICES ASSUME NEW q \in Requests
               PROVE  /\ stage'[q] \notin {"idle", "create"} => row'[ScopeOf[q]] # Null
                      /\ stage'[q] = "decide" => existing'[q] # Null
    BY DEF Found
  <2>1. CASE q = r
    BY <2>1, <1>1, <1>2 DEF TypeInv, TypeOK, Found
  <2>2. CASE q # r
    BY <2>2, <1>2 DEF TypeInv, TypeOK, Found
  <2> QED
    BY <2>1, <2>2
<1> QED
  BY <1>1, <1>3, <1>4, <1>5 DEF TypeInv, TypeOK

LEMMA StepTypeInv == TypeInv /\ [Next]_vars => TypeInv'
<1> SUFFICES ASSUME TypeInv, [Next]_vars PROVE TypeInv'
  OBVIOUS
<1> USE DEF TypeInv, TypeOK, Found, Goto, Unlock, Stage
<1>1. ASSUME NEW r \in Requests, Send(r) PROVE TypeInv'
  BY <1>1 DEF Send
<1>2. ASSUME NEW r \in Requests, TryCreate(r) PROVE TypeInv'
  <2>1. CASE row[ScopeOf[r]] # Null
    BY <1>2, <2>1 DEF TryCreate
  <2>2. CASE row[ScopeOf[r]] = Null
    BY <1>2, <2>2, ProcessingIsRow, WriteTypeInv DEF TryCreate
  <2> QED
    BY <1>2, <2>1, <2>2 DEF TryCreate
<1>3. ASSUME NEW r \in Requests, FindByScope(r) PROVE TypeInv'
  BY <1>3 DEF FindByScope
<1>4. ASSUME NEW r \in Requests, Replay(r) PROVE TypeInv'
  <2>1. existing[r] \in Settled
    BY <1>4 DEF Replay, Decided, Row, Unsettled
  <2>2. existing[r].snapshot \in Hashes
    BY <2>1 DEF Settled
  <2> QED
    BY <1>4, <2>2 DEF Replay, Decided
<1>5. ASSUME NEW r \in Requests, RejectReused(r) PROVE TypeInv'
  BY <1>5 DEF RejectReused, Decided
<1>6. ASSUME NEW r \in Requests, NEW p, TakeOver(r, p) PROVE TypeInv'
  <2>1. CASE row' = row
    BY <1>6, <2>1 DEF TakeOver, Decided
  <2>2. CASE row' = [row EXCEPT ![ScopeOf[r]] = Processing(HashOf[r])]
             /\ stage' = [stage EXCEPT ![r] = "handler"]
    BY <1>6, <2>2, ProcessingIsRow, WriteTypeInv DEF TakeOver, Decided
  <2> QED
    BY <1>6, <2>1, <2>2 DEF TakeOver, Decided
<1>8. ASSUME NEW r \in Requests, HandlerFails(r) PROVE TypeInv'
  BY <1>8 DEF HandlerFails
<1>9. ASSUME NEW r \in Requests, Complete(r) PROVE TypeInv'
  BY <1>9 DEF Complete
<1>10. ASSUME NEW r \in Requests, Settle(r), reply' \in [Requests -> Hashes \cup {Null}]
       PROVE TypeInv'
  <2> DEFINE s == ScopeOf[r]
             new == [status |-> "completed", hash |-> row[s].hash,
                     snapshot |-> HashOf[r], age |-> "fresh"]
  <2>1. row[s] \in Row
    BY <1>10 DEF Settle
  <2>2. new \in Row
    BY <2>1 DEF Row, Unsettled, Settled
  <2>3. row' = [row EXCEPT ![s] = new] /\ stage' = [stage EXCEPT ![r] = "finishing"]
    BY <1>10 DEF Settle
  <2>4. moved' \in [Scopes -> Seq(Hashes)]
    BY <1>10 DEF Settle
  <2>5. rowLock' \in [Scopes -> Requests \cup {Null}]
    BY <1>10 DEF Settle
  <2> QED
    BY <1>10, <2>2, <2>3, <2>4, <2>5, WriteTypeInv DEF Settle
<1>11. ASSUME NEW r \in Requests, MarkFailed(r) PROVE TypeInv'
  <2> DEFINE s == ScopeOf[r]
             new == [row[s] EXCEPT !.status = "failed", !.age = "fresh"]
  <2>1. CASE ~IsStatus(s, "processing")
    BY <1>11, <2>1 DEF MarkFailed
  <2>2. CASE IsStatus(s, "processing")
    <3>1. row[s] \in Unsettled
      BY <2>2 DEF IsStatus, Row, Settled
    <3>2. new \in Row
      BY <3>1 DEF Unsettled, Row
    <3>3. row' = [row EXCEPT ![s] = new] /\ stage' = [stage EXCEPT ![r] = "idle"]
      BY <1>11, <2>2 DEF MarkFailed
    <3> QED
      BY <1>11, <2>2, <3>2, <3>3, WriteTypeInv DEF MarkFailed, IsStatus
  <2> QED
    BY <2>1, <2>2
<1>12. ASSUME NEW r \in Requests, ReleaseLost(r) PROVE TypeInv'
  BY <1>12 DEF ReleaseLost
<1>13. ASSUME NEW r \in Requests, Die(r) PROVE TypeInv'
  BY <1>13 DEF Die
<1>14. ASSUME NEW s \in Scopes, Age(s) PROVE TypeInv'
  <2> DEFINE new == [row[s] EXCEPT !.age = "stale"]
  <2>1. row[s] \in Unsettled
    BY <1>14 DEF Age, IsStatus, Row, Settled
  <2>2. new \in Row
    BY <2>1 DEF Unsettled, Row
  <2>3. row' = [row EXCEPT ![s] = new]
    BY <1>14 DEF Age
  <2>4. row' \in [Scopes -> Row \cup {Null}] /\ row'[s] # Null
    BY <2>2, <2>3
  <2> QED
    BY <1>14, <2>3, <2>4 DEF Age
<1>15. CASE UNCHANGED vars
  BY <1>15 DEF vars
<1> QED
  <2>1. ASSUME NEW r \in Requests, Commit(r) \/ CommitUnacknowledged(r) PROVE TypeInv'
    <3>1. reply' \in [Requests -> Hashes \cup {Null}]
      BY <2>1 DEF Commit, CommitUnacknowledged
    <3> QED
      BY <2>1, <3>1, <1>10 DEF Commit, CommitUnacknowledged
  <2>2. ASSUME NEW r \in Requests, TakeOverFailed(r) \/ TakeOverStale(r) PROVE TypeInv'
    BY <2>2, <1>6 DEF TakeOverFailed, TakeOverStale
  <2> QED
    BY <1>1, <1>2, <1>3, <1>4, <1>5, <1>8, <1>9, <1>11, <1>12, <1>13, <1>14, <1>15,
       <2>1, <2>2 DEF Next, Advance

\* Every variable keeps its type; in particular no completed row is without a
\* response to replay, whatever fails and however slow a request is.
THEOREM TypeCorrect == Spec => []TypeOK
<1>1. TypeInv => TypeOK
  BY DEF TypeInv
<1> QED
  BY InitTypeInv, StepTypeInv, <1>1, PTL DEF Spec

-----------------------------------------------------------------------------
(* Replays, with no assumption on latency.                                 *)

LEMMA LastOfAppend ==
  \A q \in Seq(Hashes), e \in Hashes :
    Append(q, e) # <<>> /\ Append(q, e)[Len(Append(q, e))] = e
OBVIOUS

\* Only Settle writes a completed row or moves money; every other write puts an
\* unsettled row over a row that is not completed.
LEMMA Effects ==
  ASSUME TypeInv, [Next]_vars
  PROVE  \/ UNCHANGED <<row, moved>>
         \/ \E s \in Scopes, x \in Unsettled :
              ~IsStatus(s, "completed") /\ row' = [row EXCEPT ![s] = x] /\ moved' = moved
         \/ \E r \in Requests : Settle(r)
<1> DEFINE Writes == \E s \in Scopes, x \in Unsettled :
              ~IsStatus(s, "completed") /\ row' = [row EXCEPT ![s] = x] /\ moved' = moved
<1> USE DEF TypeInv, TypeOK
<1>1. \A h \in Hashes : Processing(h) \in Unsettled
  BY DEF Processing, Unsettled
<1>2. ASSUME NEW r \in Requests, TryCreate(r) PROVE (row' = row /\ moved' = moved) \/ Writes
  BY <1>1, <1>2 DEF TryCreate, IsStatus
<1>3. ASSUME NEW r \in Requests, TakeOverFailed(r)
      PROVE  (row' = row /\ moved' = moved) \/ Writes
  BY <1>1, <1>3 DEF TakeOverFailed, TakeOver, Decided, IsStatus
<1>4. ASSUME NEW r \in Requests, TakeOverStale(r)
      PROVE  (row' = row /\ moved' = moved) \/ Writes
  BY <1>1, <1>4 DEF TakeOverStale, TakeOver, Decided, IsStatus
<1>5. ASSUME NEW r \in Requests, MarkFailed(r) PROVE (row' = row /\ moved' = moved) \/ Writes
  <2> DEFINE s == ScopeOf[r]
             new == [row[s] EXCEPT !.status = "failed", !.age = "fresh"]
  <2>1. CASE ~IsStatus(s, "processing")
    BY <1>5, <2>1 DEF MarkFailed
  <2>2. CASE IsStatus(s, "processing")
    <3>1. row[s] \in Unsettled
      BY <2>2 DEF IsStatus, Row, Settled
    <3>2. new \in Unsettled
      BY <3>1 DEF Unsettled
    <3> QED
      BY <1>5, <2>2, <3>2 DEF MarkFailed, IsStatus
  <2> QED
    BY <2>1, <2>2
<1>6. ASSUME NEW s \in Scopes, Age(s) PROVE Writes
  <2>1. row[s] \in Unsettled
    BY <1>6 DEF Age, IsStatus, Row, Settled
  <2>2. [row[s] EXCEPT !.age = "stale"] \in Unsettled
    BY <2>1 DEF Unsettled
  <2> QED
    BY <1>6, <2>2 DEF Age, IsStatus
<1> QED
  BY <1>2, <1>3, <1>4, <1>5, <1>6
  DEF Next, Advance, Send, FindByScope, Replay, RejectReused, Decided, HandlerFails,
      Complete, Commit, CommitUnacknowledged, ReleaseLost, Die, vars

LEMMA StepReplays ==
  TypeInv /\ ReplaysLastMovement /\ [Next]_vars => ReplaysLastMovement'
<1> SUFFICES ASSUME TypeInv, ReplaysLastMovement, [Next]_vars PROVE ReplaysLastMovement'
  OBVIOUS
<1> USE DEF ReplaysLastMovement, IsStatus, TypeInv, TypeOK
<1>1. CASE UNCHANGED <<row, moved>>
  BY <1>1
<1>2. ASSUME NEW s \in Scopes, NEW x \in Unsettled, ~IsStatus(s, "completed"),
             row' = [row EXCEPT ![s] = x], moved' = moved
      PROVE  ReplaysLastMovement'
  <2>1. x.status # "completed"
    BY DEF Unsettled
  <2> QED
    BY <1>2, <2>1
<1>3. ASSUME NEW r \in Requests, Settle(r) PROVE ReplaysLastMovement'
  <2> DEFINE s == ScopeOf[r]
             new == [status |-> "completed", hash |-> row[s].hash,
                     snapshot |-> HashOf[r], age |-> "fresh"]
  <2>0. row[s] \in Row
    BY <1>3 DEF Settle, Found
  <2>1. row' = [row EXCEPT ![s] = new] /\ new # Null
    <3>1. new \in Row
      BY <2>0 DEF Row, Unsettled, Settled
    <3> QED
      BY <1>3, <3>1 DEF Settle
  <2>2. /\ moved' = [moved EXCEPT ![s] = Append(moved[s], HashOf[r])]
        /\ s \in Scopes /\ HashOf[r] \in Hashes /\ moved[s] \in Seq(Hashes)
    BY <1>3 DEF Settle
  <2>3. moved'[s] # <<>> /\ moved'[s][Len(moved'[s])] = HashOf[r]
    BY <2>2, LastOfAppend
  <2>4. row'[s] = new
    BY <2>1, <2>2
  <2>5. \A t \in Scopes \ {s} : row'[t] = row[t] /\ moved'[t] = moved[t]
    BY <2>1, <2>2
  <2>6. IsStatus(s, "completed")' /\ row'[s].snapshot = HashOf[r]
    BY <2>1, <2>4
  <2> QED
    BY <2>3, <2>5, <2>6
<1> QED
  BY <1>1, <1>2, <1>3, Effects

\* With no assumption on latency: a key replays the last movement committed under
\* it and nothing but a movement makes it replayable.
THEOREM ReplaysAreReal == Spec => []ReplaysLastMovement
<1>1. Init => ReplaysLastMovement
  BY DEF Init, ReplaysLastMovement, IsStatus
<1> QED
  BY <1>1, InitTypeInv, StepTypeInv, StepReplays, PTL DEF Spec

-----------------------------------------------------------------------------
(* Exactly-once, when no request outlives the staleness window.  A claim is *)
(* then exclusive: a row without an owner is Null, failed, stale or settled, *)
(* and only such a row can be claimed or has been left behind.               *)

OneOwner ==
  \A r, q \in Requests :
    Claimed(r) /\ Claimed(q) /\ ScopeOf[r] = ScopeOf[q] => r = q

\* The row of an owner is fresh and, until its transaction ends, is its own.
Owned ==
  \A r \in Requests : Claimed(r) =>
    LET x == row[ScopeOf[r]] IN
    /\ x.status # "failed" /\ x.age = "fresh"
    /\ stage[r] # "finishing" => x.status = "processing" /\ x.hash = HashOf[r]

SettledOnce ==
  \A s \in Scopes :
    IF IsStatus(s, "completed")
      THEN row[s].hash = row[s].snapshot /\ moved[s] = <<row[s].snapshot>>
      ELSE moved[s] = <<>>

\* A completed row that was read is still the row.
ReadIsFinal ==
  \A r \in Requests :
    stage[r] = "decide" /\ existing[r].status = "completed" => existing[r] = row[ScopeOf[r]]

Exclusive ==
  TypeInv /\ OneOwner /\ Owned /\ SettledOnce /\ ReadIsFinal /\ SuccessMeansMoved

LEMMA InitExclusive == Init => Exclusive
BY InitTypeInv
DEF Exclusive, Init, OneOwner, Owned, SettledOnce, ReadIsFinal, SuccessMeansMoved, Claimed,
    IsStatus

\* A row that TryCreate or a takeover may claim has no owner.
LEMMA Claimable ==
  ASSUME Exclusive, NEW s \in Scopes,
         row[s] = Null \/ row[s].status = "failed" \/ row[s].age = "stale"
  PROVE  \A q \in Requests : ScopeOf[q] = s => ~Claimed(q)
BY DEF Exclusive, TypeInv, Found, Owned, Claimed

\* A claim keeps all of it.
LEMMA ClaimExclusive ==
  ASSUME Exclusive, TypeInv', NEW r \in Requests,
         row[ScopeOf[r]] = Null \/ row[ScopeOf[r]].status = "failed"
           \/ row[ScopeOf[r]].age = "stale",
         ~IsStatus(ScopeOf[r], "completed"),
         row' = [row EXCEPT ![ScopeOf[r]] = Processing(HashOf[r])],
         stage' = [stage EXCEPT ![r] = "handler"],
         existing' = existing \/ existing' = [existing EXCEPT ![r] = Null],
         UNCHANGED <<reply, moved>>
  PROVE  Exclusive'
<1> DEFINE s == ScopeOf[r]
<1> USE DEF Exclusive, TypeInv, TypeOK
<1>1. s \in Scopes /\ \A q \in Requests : ScopeOf[q] = s => ~Claimed(q)
  BY Claimable
<1>2. /\ \A q \in Requests : Claimed(q)' <=> Claimed(q) \/ q = r
      /\ \A q \in Requests : q # r => stage'[q] = stage[q] /\ existing'[q] = existing[q]
  BY DEF Claimed
<1>3. /\ row'[s] = Processing(HashOf[r])
      /\ \A t \in Scopes : t # s => row'[t] = row[t]
  BY <1>1
<1>4. /\ row'[s].status = "processing" /\ row'[s].age = "fresh"
      /\ row'[s].hash = HashOf[r]
  BY <1>3 DEF Processing
<1>5. OneOwner'
  BY <1>1, <1>2 DEF OneOwner
<1>6. Owned'
  BY <1>1, <1>2, <1>3, <1>4 DEF Owned
<1>7. \A t \in Scopes : IsStatus(t, "completed")' <=> IsStatus(t, "completed")
  BY <1>3, <1>4 DEF IsStatus
<1>8. SettledOnce'
  BY <1>3, <1>7 DEF SettledOnce, IsStatus
<1>9. ReadIsFinal'
  <2> SUFFICES ASSUME NEW q \in Requests, stage'[q] = "decide",
                      existing'[q].status = "completed"
               PROVE  existing'[q] = row'[ScopeOf[q]]
    BY DEF ReadIsFinal
  <2>1. q # r /\ existing[q] = row[ScopeOf[q]] /\ existing[q] # Null
    BY <1>2 DEF ReadIsFinal, Found
  <2>2. IsStatus(ScopeOf[q], "completed")
    BY <2>1, <1>2 DEF IsStatus
  <2> QED
    BY <2>1, <2>2, <1>2, <1>3
<1>10. SuccessMeansMoved'
  BY DEF SuccessMeansMoved
<1> QED
  BY <1>5, <1>6, <1>8, <1>9, <1>10

LEMMA StepExclusive ==
  ASSUME BoundedLatency = TRUE, Exclusive, [Next]_vars
  PROVE  Exclusive'
<1>0. TypeInv'
  BY StepTypeInv DEF Exclusive
<1> USE <1>0 DEF TypeInv, TypeOK, Exclusive, Goto
<1>1. ASSUME NEW r \in Requests, TryCreate(r) PROVE Exclusive'
  <2>1. CASE row[ScopeOf[r]] = Null
    BY <1>1, <2>1, ClaimExclusive DEF TryCreate, IsStatus
  <2>2. CASE row[ScopeOf[r]] # Null
    BY <1>1, <2>2 DEF TryCreate, OneOwner, Owned, SettledOnce, ReadIsFinal,
                      SuccessMeansMoved, Claimed, IsStatus
  <2> QED
    BY <2>1, <2>2
<1>2. ASSUME NEW r \in Requests, TakeOverFailed(r) \/ TakeOverStale(r) PROVE Exclusive'
  <2>1. CASE stage'[r] = "handler"
    BY <1>2, <2>1, ClaimExclusive
    DEF TakeOverFailed, TakeOverStale, TakeOver, Decided, IsStatus
  <2>2. CASE stage'[r] # "handler"
    <3>1. row' = row /\ stage' = [stage EXCEPT ![r] = "idle"]
          /\ existing' = [existing EXCEPT ![r] = Null] /\ UNCHANGED <<reply, moved>>
      BY <1>2, <2>2 DEF TakeOverFailed, TakeOverStale, TakeOver, Decided
    <3> QED
      BY <3>1 DEF OneOwner, Owned, SettledOnce, ReadIsFinal, SuccessMeansMoved, Claimed,
                  IsStatus
  <2> QED
    BY <2>1, <2>2
\* Steps that write no row and end in a stage that claims nothing new.
<1>3. ASSUME NEW r \in Requests,
             Send(r) \/ RejectReused(r) \/ HandlerFails(r) \/ Complete(r)
               \/ ReleaseLost(r) \/ Die(r)
      PROVE  Exclusive'
  <2>1. /\ UNCHANGED <<row, moved>>
        /\ existing' = existing \/ existing' = [existing EXCEPT ![r] = Null]
        /\ reply' = reply \/ reply' = [reply EXCEPT ![r] = Null]
    BY <1>3 DEF Send, RejectReused, Decided, HandlerFails, Complete, ReleaseLost, Die
  <2>2. \E x \in {"idle", "create", "completing", "finishing"} :
          /\ stage' = [stage EXCEPT ![r] = x]
          /\ x \in {"completing", "finishing"} => Claimed(r)
          /\ x = "completing" => stage[r] = "handler"
    BY <1>3 DEF Send, RejectReused, Decided, HandlerFails, Complete, ReleaseLost, Die, Claimed
  <2>3. \A q \in Requests : Claimed(q)' => Claimed(q)
    BY <2>2 DEF Claimed
  <2>4. OneOwner'
    BY <2>3 DEF OneOwner
  <2>5. Owned'
    BY <2>1, <2>2, <2>3 DEF Owned, Claimed
  <2>6. SettledOnce'
    BY <2>1 DEF SettledOnce, IsStatus
  <2>7. ReadIsFinal'
    BY <2>1, <2>2 DEF ReadIsFinal
  <2>8. SuccessMeansMoved'
    BY <2>1 DEF SuccessMeansMoved
  <2> QED
    BY <2>4, <2>5, <2>6, <2>7, <2>8
<1>4. ASSUME NEW r \in Requests, FindByScope(r) PROVE Exclusive'
  BY <1>4 DEF FindByScope, OneOwner, Owned, SettledOnce, ReadIsFinal, SuccessMeansMoved,
              Claimed, IsStatus
<1>5. ASSUME NEW r \in Requests, Replay(r) PROVE Exclusive'
  <2>1. /\ UNCHANGED <<row, moved>> /\ stage' = [stage EXCEPT ![r] = "idle"]
        /\ existing' = [existing EXCEPT ![r] = Null]
        /\ reply' = [reply EXCEPT ![r] = existing[r].snapshot]
    BY <1>5 DEF Replay, Decided
  <2>2. existing[r] = row[ScopeOf[r]] /\ IsStatus(ScopeOf[r], "completed")
    BY <1>5 DEF Replay, Decided, ReadIsFinal, Found, IsStatus
  <2>3. existing[r].snapshot = HashOf[r] /\ moved[ScopeOf[r]] = <<HashOf[r]>>
    BY <1>5, <2>2 DEF Replay, SettledOnce
  <2> QED
    BY <2>1, <2>3 DEF OneOwner, Owned, SettledOnce, ReadIsFinal, SuccessMeansMoved, Claimed,
                      IsStatus
<1>6. ASSUME NEW r \in Requests, Commit(r) \/ CommitUnacknowledged(r) PROVE Exclusive'
  <2> DEFINE s == ScopeOf[r]
  <2> USE DEF Commit, CommitUnacknowledged, Settle
  <2>1. row[s].status = "processing" /\ row[s].hash = HashOf[r] /\ row[s] # Null
    BY <1>6 DEF Owned, Claimed, Found
  <2>2. moved[s] = <<>>
    BY <2>1 DEF SettledOnce, IsStatus
  <2>3. /\ IsStatus(s, "completed")' /\ row'[s].hash = HashOf[r] /\ row'[s].age = "fresh"
        /\ row'[s].snapshot = HashOf[r]
        /\ \A t \in Scopes \ {s} : row'[t] = row[t] /\ moved'[t] = moved[t]
    <3> DEFINE new == [status |-> "completed", hash |-> row[s].hash,
                       snapshot |-> HashOf[r], age |-> "fresh"]
    <3>1. new \in Row
      BY <2>1 DEF Row, Settled, Unsettled
    <3>2. row' = [row EXCEPT ![s] = new] /\ moved' = [moved EXCEPT ![s] = moved'[s]]
      BY <1>6
    <3> QED
      BY <2>1, <3>1, <3>2 DEF IsStatus
  <2>4. moved'[s] = <<HashOf[r]>>
    BY <1>6, <2>2
  <2>5. /\ stage' = [stage EXCEPT ![r] = "finishing"] /\ existing' = existing
        /\ reply' = reply \/ reply' = [reply EXCEPT ![r] = HashOf[r]]
        /\ Claimed(r)
    BY <1>6 DEF Claimed
  <2>6. OneOwner' /\ Owned'
    <3>1. \A q \in Requests : Claimed(q)' <=> Claimed(q)
      BY <2>5 DEF Claimed
    <3>2. OneOwner'
      BY <3>1 DEF OneOwner
    <3>3. ASSUME NEW q \in Requests, Claimed(q)
          PROVE  LET x == row'[ScopeOf[q]] IN
                 /\ x.status # "failed" /\ x.age = "fresh"
                 /\ stage'[q] # "finishing" =>
                      x.status = "processing" /\ x.hash = HashOf[q]
      <4>1. CASE q = r
        BY <2>3, <2>5, <4>1 DEF IsStatus
      <4>2. CASE q # r
        <5>1. ScopeOf[q] # s
          BY <2>5, <3>3, <4>2 DEF OneOwner
        <5>2. row'[ScopeOf[q]] = row[ScopeOf[q]] /\ stage'[q] = stage[q]
          BY <2>3, <2>5, <4>2, <5>1
        <5> QED
          BY <3>3, <5>2 DEF Owned
      <4> QED
        BY <4>1, <4>2
    <3> QED
      BY <3>1, <3>2, <3>3 DEF Owned
  <2>7. SettledOnce'
    BY <2>3, <2>4 DEF SettledOnce, IsStatus
  <2>8. ReadIsFinal'
    <3> SUFFICES ASSUME NEW q \in Requests, stage'[q] = "decide",
                        existing'[q].status = "completed"
                 PROVE  existing'[q] = row'[ScopeOf[q]]
      BY DEF ReadIsFinal
    <3>1. q # r /\ existing[q] = row[ScopeOf[q]] /\ existing[q].status = "completed"
      BY <2>5 DEF ReadIsFinal
    <3>2. ScopeOf[q] # s
      BY <2>1, <3>1
    <3> QED
      BY <2>3, <2>5, <3>1, <3>2
  <2>9. SuccessMeansMoved'
    <3> SUFFICES ASSUME NEW q \in Requests, reply'[q] # Null
                 PROVE  reply'[q] = HashOf[q] /\ moved'[ScopeOf[q]] = <<HashOf[q]>>
      BY DEF SuccessMeansMoved
    <3>1. CASE q = r
      BY <3>1, <2>2, <2>4, <2>5 DEF SuccessMeansMoved
    <3>2. CASE q # r
      <4>1. reply[q] # Null
        BY <3>2, <2>5
      <4>2. reply[q] = HashOf[q] /\ moved[ScopeOf[q]] = <<HashOf[q]>>
        BY <4>1 DEF SuccessMeansMoved
      <4>3. <<HashOf[q]>> # <<>>
        OBVIOUS
      <4>4. ScopeOf[q] # s
        BY <4>2, <4>3, <2>2
      <4> QED
        BY <3>2, <4>2, <4>4, <2>3, <2>5
    <3> QED
      BY <3>1, <3>2
  <2> QED
    BY <2>6, <2>7, <2>8, <2>9
<1>7. ASSUME NEW r \in Requests, MarkFailed(r) PROVE Exclusive'
  <2> DEFINE s == ScopeOf[r]
  <2>1. \A q \in Requests : Claimed(q) /\ ScopeOf[q] = s => q = r
    BY <1>7 DEF MarkFailed, OneOwner, Claimed
  <2>2. /\ UNCHANGED <<existing, reply, moved>> /\ stage' = [stage EXCEPT ![r] = "idle"]
        /\ \A t \in Scopes \ {s} : row'[t] = row[t]
        /\ ~IsStatus(s, "processing") => row'[s] = row[s]
    BY <1>7 DEF MarkFailed
  <2>3. \A t \in Scopes :
          /\ IsStatus(t, "completed")' <=> IsStatus(t, "completed")
          /\ IsStatus(t, "completed") => row'[t] = row[t]
    <3>1. IsStatus(s, "processing") => ~IsStatus(s, "completed")'
      BY <1>7 DEF MarkFailed, IsStatus, Row, Unsettled
    <3> QED
      BY <3>1, <2>2 DEF IsStatus
  <2>4. OneOwner' /\ Owned'
    BY <2>1, <2>2 DEF OneOwner, Owned, Claimed
  <2>5. SettledOnce'
    BY <2>2, <2>3 DEF SettledOnce
  <2>6. ReadIsFinal'
    BY <2>2, <2>3 DEF ReadIsFinal, IsStatus, Found
  <2>7. SuccessMeansMoved'
    BY <2>2 DEF SuccessMeansMoved
  <2> QED
    BY <2>4, <2>5, <2>6, <2>7
<1>8. ASSUME NEW s \in Scopes, Age(s) PROVE Exclusive'
  <2>1. \A q \in Requests : ~(Claimed(q) /\ ScopeOf[q] = s)
    BY <1>8 DEF Age
  <2>2. /\ UNCHANGED <<stage, existing, reply, moved>>
        /\ \A t \in Scopes \ {s} : row'[t] = row[t]
        /\ IsStatus(s, "processing")
    BY <1>8 DEF Age
  <2>3. ~IsStatus(s, "completed") /\ ~IsStatus(s, "completed")'
    BY <1>8 DEF Age, IsStatus, Row, Unsettled
  <2>4. OneOwner' /\ Owned'
    BY <2>1, <2>2 DEF OneOwner, Owned, Claimed
  <2>5. SettledOnce'
    BY <2>2, <2>3 DEF SettledOnce, IsStatus
  <2>6. ReadIsFinal'
    BY <2>2, <2>3 DEF ReadIsFinal, IsStatus, Found
  <2>7. SuccessMeansMoved'
    BY <2>2 DEF SuccessMeansMoved
  <2> QED
    BY <2>4, <2>5, <2>6, <2>7
<1>9. CASE UNCHANGED vars
  BY <1>9 DEF vars, OneOwner, Owned, SettledOnce, ReadIsFinal, SuccessMeansMoved, Claimed,
              IsStatus
<1> QED
  BY <1>1, <1>2, <1>3, <1>4, <1>5, <1>6, <1>7, <1>8, <1>9 DEF Next, Advance

\* With bounded latency a scope moves money at most once, however its requests
\* interleave, fail, vanish and are retried.
THEOREM ExactlyOnce == BoundedLatency = TRUE /\ Spec => []AtMostOnce
<1>1. Exclusive => AtMostOnce
  <2> SUFFICES ASSUME Exclusive, NEW s \in Scopes PROVE Len(moved[s]) <= 1
    BY DEF AtMostOnce
  <2>1. CASE IsStatus(s, "completed")
    <3>1. moved[s] = <<row[s].snapshot>>
      BY <2>1 DEF Exclusive, SettledOnce
    <3> QED
      BY <3>1
  <2>2. CASE ~IsStatus(s, "completed")
    BY <2>2 DEF Exclusive, SettledOnce
  <2> QED
    BY <2>1, <2>2
<1>2. SUFFICES ASSUME BoundedLatency = TRUE PROVE Spec => []AtMostOnce
  OBVIOUS
<1>3. Exclusive /\ [Next]_vars => Exclusive'
  BY <1>2, StepExclusive
<1> QED
  BY InitExclusive, <1>1, <1>3, PTL DEF Spec

\* With bounded latency a 2xx is only ever given for the one movement its sender
\* asked for, be it the first answer or a replay.
THEOREM SuccessesAreReal == BoundedLatency = TRUE /\ Spec => []SuccessMeansMoved
<1>1. SUFFICES ASSUME BoundedLatency = TRUE PROVE Spec => []SuccessMeansMoved
  OBVIOUS
<1>2. Exclusive /\ [Next]_vars => Exclusive'
  BY <1>1, StepExclusive
<1>3. Exclusive => SuccessMeansMoved
  BY DEF Exclusive
<1> QED
  BY InitExclusive, <1>2, <1>3, PTL DEF Spec

\* With bounded latency a completed row is final: every write to the table puts
\* an unsettled row over an unsettled one, and Settle needs a row it still owns.
THEOREM CompletedRowsAreFinal == BoundedLatency = TRUE /\ Spec => CompletedIsFinal
<1>1. SUFFICES ASSUME BoundedLatency = TRUE PROVE Spec => CompletedIsFinal
  OBVIOUS
<1>2. Exclusive /\ [Next]_vars => Exclusive'
  BY <1>1, StepExclusive
<1>3. Exclusive /\ [Next]_vars =>
        [\A s \in Scopes : IsStatus(s, "completed") => row'[s] = row[s]]_vars
  <2> SUFFICES ASSUME Exclusive, [Next]_vars, NEW s \in Scopes, IsStatus(s, "completed")
               PROVE  row'[s] = row[s]
    OBVIOUS
  <2> USE DEF Exclusive, TypeInv, TypeOK
  <2>1. ASSUME NEW t \in Scopes, NEW x \in Unsettled, ~IsStatus(t, "completed"),
               row' = [row EXCEPT ![t] = x]
        PROVE  row'[s] = row[s]
    BY <2>1
  <2>2. ASSUME NEW r \in Requests, Settle(r) PROVE row'[s] = row[s]
    <3>1. row[ScopeOf[r]].status = "processing"
      BY <2>2 DEF Settle, Owned, Claimed
    <3> QED
      BY <2>2, <3>1 DEF Settle, IsStatus
  <2> QED
    BY <2>1, <2>2, Effects
<1> QED
  BY InitExclusive, <1>2, <1>3, PTL DEF Spec, CompletedIsFinal
=============================================================================
