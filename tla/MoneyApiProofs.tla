---------------------------- MODULE MoneyApiProofs ----------------------------
(***************************************************************************)
(* The money endpoints implement the bank, for any clients, administrators, *)
(* keys, calls and wallets.  The proof composes what is proved of the two   *)
(* halves: a transaction commits its call on the rows of that moment        *)
(* (WalletsProofs), and no key moves money twice (IdempotencyProofs).       *)
(***************************************************************************)
EXTENDS MoneyApi, TLAPS

WP == INSTANCE WalletsProofs WITH Requests <- Clients \cup Admins
IP == INSTANCE IdempotencyProofs WITH Requests <- Clients, Hashes <- Calls

-----------------------------------------------------------------------------
(* The instances that carry the theorems are the instances of the model.   *)

LEMMA WalletsAssumed == WP!WalletsAssumption
BY MoneyApiAssumption
DEF MoneyApiAssumption, W!WalletsAssumption, WP!WalletsAssumption, W!CallType, WP!CallType,
    W!MoneyOps, WP!MoneyOps, W!WalletStatus, WP!WalletStatus

LEMMA KeysAssumed == IP!IdempotencyAssumption
BY MoneyApiAssumption
DEF MoneyApiAssumption, I!IdempotencyAssumption, IP!IdempotencyAssumption, I!Row, IP!Row,
    I!Settled, IP!Settled, I!Unsettled, IP!Unsettled

LEMMA SameTransactions ==
  ASSUME NEW r, NEW c, NEW w
  PROVE  /\ W!Begin(r, c) <=> WP!Begin(r, c)
         /\ W!AcquireLock(r, w) <=> WP!AcquireLock(r, w)
         /\ W!Refuse(r) <=> WP!Refuse(r)
         /\ W!Post(r) <=> WP!Post(r)
         /\ W!UpdateStatus(r) <=> WP!UpdateStatus(r)
         /\ W!Commit(r) <=> WP!Commit(r)
         /\ W!Abort(r) <=> WP!Abort(r)
         /\ W!IsMoney(c) <=> WP!IsMoney(c)
         /\ W!Own(c) = WP!Own(c)
         /\ W!Debited(c) = WP!Debited(c)
         /\ W!Credited(c) = WP!Credited(c)
BY DEF W!Begin, WP!Begin, W!AcquireLock, WP!AcquireLock, W!Refuse, WP!Refuse,
   W!Post, WP!Post, W!UpdateStatus, WP!UpdateStatus, W!Commit, WP!Commit, W!Abort,
   WP!Abort, W!Own, WP!Own, W!IsMoney, WP!IsMoney, W!MoneyOps, WP!MoneyOps,
   W!ValidAmount, WP!ValidAmount, W!Debited, WP!Debited, W!Credited, WP!Credited,
   W!Needs, WP!Needs, W!Held, WP!Held, W!RefusedUnlocked, WP!RefusedUnlocked,
   W!NextLock, WP!NextLock, W!RefusedLocked, WP!RefusedLocked, W!Cleared,
   WP!Cleared, W!committed, WP!committed, W!Release, WP!Release, W!NewBalance,
   WP!NewBalance, W!Line, WP!Line

LEMMA SameKeySteps ==
  ASSUME NEW r, NEW s
  PROVE  /\ I!Send(r) \/ I!TryCreate(r) \/ I!FindByScope(r) \/ I!Replay(r)
              \/ I!RejectReused(r) \/ I!TakeOverFailed(r) \/ I!TakeOverStale(r)
              \/ I!MarkFailed(r) \/ I!ReleaseLost(r) \/ I!HandlerFails(r) \/ I!Complete(r)
              \/ I!Commit(r) \/ I!CommitUnacknowledged(r) \/ I!Die(r)
            <=> IP!Send(r) \/ IP!Advance(r) \/ IP!Die(r)
         /\ I!Age(s) <=> IP!Age(s)
BY DEF IP!Advance, I!Send, IP!Send, I!TryCreate, IP!TryCreate, I!FindByScope, IP!FindByScope,
   I!Decided, IP!Decided, I!Replay, IP!Replay, I!RejectReused, IP!RejectReused,
   I!TakeOver, IP!TakeOver, I!TakeOverFailed, IP!TakeOverFailed, I!TakeOverStale,
   IP!TakeOverStale, I!HandlerFails, IP!HandlerFails, I!Complete, IP!Complete,
   I!Settle, IP!Settle, I!Commit, IP!Commit, I!CommitUnacknowledged,
   IP!CommitUnacknowledged, I!MarkFailed, IP!MarkFailed, I!ReleaseLost,
   IP!ReleaseLost, I!Die, IP!Die, I!Age, IP!Age, I!Goto, IP!Goto, I!Unlock,
   IP!Unlock, I!IsStatus, IP!IsStatus, I!Processing, IP!Processing, I!Claimed,
   IP!Claimed

LEMMA WalletsRun == SpecApi => WP!Spec
<1>1. InitApi => WP!Init
  BY DEF InitApi, W!Init, WP!Init, W!Line, WP!Line
<1>2. [NextApi]_apiVars => [WP!Next]_WP!vars
  <2> SUFFICES ASSUME [NextApi]_apiVars, ~UNCHANGED walletVars PROVE WP!Next
    BY DEF walletVars, WP!vars
  <2>1. \A r \in Clients \cup Admins : CallOf[r] \in Calls
    BY DEF Calls
  <2>2. ASSUME NEW r \in Clients, Handle(r) PROVE WP!Next
    BY <2>1, <2>2, SameTransactions DEF Handle, WP!Next, WP!Step
  <2>3. ASSUME NEW r \in Clients, Commit(r) PROVE WP!Next
    BY <2>3, SameTransactions DEF Commit, WP!Next, WP!Step
  <2>4. ASSUME NEW r \in Clients, Fail(r) \/ Die(r) PROVE WP!Next
    BY <2>4, SameTransactions DEF Fail, Die, WP!Next, WP!Step
  <2>5. ASSUME NEW r \in Admins, Administer(r) PROVE WP!Next
    BY <2>1, <2>5, SameTransactions DEF Administer, W!Step, WP!Next, WP!Step
  <2> QED
    BY <2>2, <2>3, <2>4, <2>5 DEF NextApi, apiVars, Middleware, Complete, Age
<1> QED
  BY <1>1, <1>2, PTL DEF SpecApi, WP!Spec

LEMMA KeysRun == SpecApi => IP!Spec
<1>1. InitApi => IP!Init
  BY DEF InitApi, I!Init, IP!Init
<1>2. [NextApi]_apiVars => [IP!Next]_IP!vars
  <2> SUFFICES ASSUME [NextApi]_apiVars, ~UNCHANGED keyVars PROVE IP!Next
    BY DEF keyVars, IP!vars
  <2>1. ASSUME NEW r \in Clients,
               Middleware(r) \/ Complete(r) \/ Commit(r) \/ Fail(r) \/ Die(r)
        PROVE  IP!Next
    BY <2>1, SameKeySteps DEF Middleware, Complete, Commit, Fail, Die, IP!Next
  <2>2. ASSUME Age PROVE IP!Next
    BY <2>2, SameKeySteps DEF Age, IP!Next
  <2> QED
    BY <2>1, <2>2 DEF NextApi, apiVars, Handle, Administer
<1> QED
  BY <1>1, <1>2, PTL DEF SpecApi, IP!Spec

\* What the two halves guarantee in every state of the whole.
Halves == WP!SerialInv /\ IP!TypeInv

LEMMA HalvesHold == SpecApi => []Halves
<1>1. WP!Spec => []WP!SerialInv
  BY WalletsAssumed, WP!SerialInvariance DEF WP!SerialInvariance
<1>2. IP!Init => IP!TypeInv
  BY KeysAssumed, IP!InitTypeInv DEF IP!InitTypeInv
<1>3. IP!TypeInv /\ [IP!Next]_IP!vars => IP!TypeInv'
  BY KeysAssumed, IP!StepTypeInv DEF IP!StepTypeInv
<1> QED
  BY <1>1, <1>2, <1>3, WalletsRun, KeysRun, PTL DEF Halves, IP!Spec

-----------------------------------------------------------------------------
(* How the halves fit together.                                            *)

People == Clients \cup Admins

\* A transaction carries the call of its request; a request that has completed
\* its key has written its lines; only it holds the lock of the key's row.
Together ==
  /\ \A r \in People : phase[r] \in {"locking", "written"} => call[r] = CallOf[r]
  /\ \A r \in Clients : stage[r] = "completing" => phase[r] = "written"
  /\ \A s \in Scopes, r \in Clients :
       rowLock[s] = r => stage[r] = "completing" /\ ScopeOf[r] = s

LEMMA HalvesTypes ==
  ASSUME Halves
  PROVE  /\ phase \in [People -> {"idle", "locking", "written", "committed", "rolledback"}]
         /\ call \in [People -> Calls \cup {Null}]
         /\ balance \in [Wallets -> Nat]
         /\ lock \in [Wallets -> People \cup {Null}]
         /\ status \in [Wallets -> WP!WalletStatus]
         /\ stage \in [Clients -> I!Stage]
         /\ rowLock \in [Scopes -> Clients \cup {Null}]
         /\ moved \in [Scopes -> Seq(Calls)]
BY DEF Halves, WP!SerialInv, WP!LedgerInv, WP!TypeInv, WP!TypeOK, IP!TypeInv, IP!TypeOK, IP!Stage,
       I!Stage, People

\* A step of one request that fits leaves the others as they fit.
LEMMA OneStep ==
  ASSUME Together, NEW r \in People,
         \A q \in People : q # r => phase'[q] = phase[q] /\ call'[q] = call[q],
         phase'[r] \in {"locking", "written"} => call'[r] = CallOf[r],
         \A q \in Clients : q # r => stage'[q] = stage[q],
         r \in Clients /\ stage'[r] = "completing" => phase'[r] = "written",
         \A s \in Scopes, q \in Clients : q # r /\ rowLock'[s] = q => rowLock[s] = q,
         \A s \in Scopes : r \in Clients /\ rowLock'[s] = r =>
                             stage'[r] = "completing" /\ ScopeOf[r] = s
  PROVE  Together'
<1>1. \A q \in Clients : q \in People
  BY DEF People
<1>2. \A q \in People : phase'[q] \in {"locking", "written"} => call'[q] = CallOf[q]
  BY DEF Together
<1>3. \A q \in Clients : stage'[q] = "completing" => phase'[q] = "written"
  BY <1>1 DEF Together
<1>4. \A s \in Scopes, q \in Clients :
        rowLock'[s] = q => stage'[q] = "completing" /\ ScopeOf[q] = s
  BY DEF Together
<1> QED
  BY <1>2, <1>3, <1>4 DEF Together

\* The end of a transaction, in either half.
LEMMA Ends ==
  ASSUME Halves, NEW r \in Clients, NEW x \in {"finishing", "idle"}, I!Unlock(r), I!Goto(r, x)
  PROVE  /\ \A q \in Clients : q # r => stage'[q] = stage[q]
         /\ stage'[r] = x
         /\ \A s \in Scopes, q \in Clients : rowLock'[s] = q => q # r /\ rowLock[s] = q
<1>1. \A s \in Scopes : rowLock'[s] = IF rowLock[s] = r THEN Null ELSE rowLock[s]
  BY DEF I!Unlock
<1>2. Null \notin Clients
  BY KeysAssumed DEF IP!IdempotencyAssumption
<1> QED
  BY <1>1, <1>2, HalvesTypes DEF I!Goto

LEMMA Released ==
  ASSUME Halves, NEW r \in People, NEW x \in {"committed", "rolledback"}, W!Release(r, x)
  PROVE  /\ \A q \in People : q # r => phase'[q] = phase[q] /\ call'[q] = call[q]
         /\ phase'[r] = x
BY HalvesTypes DEF W!Release

LEMMA MiddlewareTogether ==
  ASSUME Halves, Together, NEW r \in Clients, Middleware(r)
  PROVE  Together'
<1>1. r \in People
  BY DEF People
<1>2. PICK x \in I!Stage \ {"completing"} :
        stage' = [stage EXCEPT ![r] = x] /\ stage[r] # "completing"
  BY DEF Middleware, I!Send, I!TryCreate, I!FindByScope, I!Replay, I!RejectReused, I!Decided,
         I!TakeOverFailed, I!TakeOverStale, I!TakeOver, I!MarkFailed, I!ReleaseLost, I!Goto, I!Stage
<1>3. UNCHANGED <<rowLock, phase, call>>
  BY DEF Middleware, I!Send, I!TryCreate, I!FindByScope, I!Replay, I!RejectReused, I!Decided,
         I!TakeOverFailed, I!TakeOverStale, I!TakeOver, I!MarkFailed, I!ReleaseLost, walletVars
<1>4. stage'[r] = x /\ \A q \in Clients : q # r => stage'[q] = stage[q]
  BY <1>2, HalvesTypes
<1> QED
  BY <1>1, <1>2, <1>3, <1>4, OneStep DEF Together

LEMMA HandleTogether ==
  ASSUME Halves, Together, NEW r \in Clients, Handle(r)
  PROVE  Together'
<1>1. r \in People /\ stage[r] = "handler" /\ UNCHANGED <<stage, rowLock>>
  BY DEF People, Handle, keyVars
<1>2. CASE W!Begin(r, CallOf[r])
  <2>1. /\ call'[r] = CallOf[r]
        /\ \A q \in People : q # r => phase'[q] = phase[q] /\ call'[q] = call[q]
    BY <1>1, <1>2, HalvesTypes DEF W!Begin
  <2> QED
    BY <1>1, <2>1, OneStep DEF Together
<1>3. CASE \E w \in Wallets : W!AcquireLock(r, w)
  <2>1. UNCHANGED <<phase, call>>
    BY <1>3 DEF W!AcquireLock
  <2> QED
    BY <1>1, <2>1, OneStep DEF Together
<1>4. CASE W!Post(r)
  <2>1. /\ phase[r] = "locking" /\ call' = call
        /\ \A q \in People : q # r => phase'[q] = phase[q]
    BY <1>1, <1>4, HalvesTypes DEF W!Post, W!Cleared
  <2> QED
    BY <1>1, <2>1, OneStep DEF Together
<1> QED
  BY <1>2, <1>3, <1>4 DEF Handle

LEMMA CompleteTogether ==
  ASSUME Halves, Together, NEW r \in Clients, Complete(r)
  PROVE  Together'
<1>1. r \in People /\ phase[r] = "written" /\ UNCHANGED <<phase, call>>
  BY DEF People, Complete, walletVars
<1>2. /\ stage' = [stage EXCEPT ![r] = "completing"]
      /\ rowLock' = [rowLock EXCEPT ![ScopeOf[r]] = r]
      /\ stage[r] = "handler"
  BY DEF Complete, I!Complete, I!Goto
<1>3. /\ stage'[r] = "completing"
      /\ \A q \in Clients : q # r => stage'[q] = stage[q]
  BY <1>2, HalvesTypes
<1>4. \A s \in Scopes : rowLock'[s] = IF s = ScopeOf[r] THEN r ELSE rowLock[s]
  BY <1>2, HalvesTypes
<1> QED
  BY <1>1, <1>2, <1>3, <1>4, OneStep DEF Together

LEMMA CommitTogether ==
  ASSUME Halves, Together, NEW r \in Clients, Commit(r)
  PROVE  Together'
<1>1. r \in People /\ W!Release(r, "committed")
  BY DEF People, Commit, W!Commit
<1>2. I!Unlock(r) /\ I!Goto(r, "finishing")
  BY DEF Commit, I!Commit, I!CommitUnacknowledged, I!Settle
<1> QED
  BY <1>1, <1>2, Ends, Released, OneStep

LEMMA FailTogether ==
  ASSUME Halves, Together, NEW r \in Clients, Fail(r) \/ Die(r)
  PROVE  Together'
<1>1. r \in People
  BY DEF People
<1>2. \/ W!Release(r, "rolledback")
      \/ phase[r] \notin {"locking", "written"} /\ UNCHANGED <<phase, call>>
  BY DEF Fail, Die, W!Refuse, W!Abort, walletVars
<1>3. PICK x \in {"finishing", "idle"} : I!Unlock(r) /\ I!Goto(r, x)
  BY DEF Fail, Die, I!HandlerFails, I!Die
<1>4. /\ \A q \in Clients : q # r => stage'[q] = stage[q]
      /\ stage'[r] = x
      /\ \A s \in Scopes, q \in Clients : rowLock'[s] = q => q # r /\ rowLock[s] = q
  BY <1>3, Ends
<1>5. /\ \A q \in People : q # r => phase'[q] = phase[q] /\ call'[q] = call[q]
      /\ phase'[r] \notin {"locking", "written"}
  BY <1>1, <1>2, Released
<1> QED
  BY <1>1, <1>4, <1>5, OneStep

LEMMA AdministerTogether ==
  ASSUME Halves, Together, NEW r \in Admins, Administer(r)
  PROVE  Together'
<1>1. r \in People /\ r \notin Clients /\ UNCHANGED <<stage, rowLock>>
  BY MoneyApiAssumption DEF MoneyApiAssumption, People, Administer, keyVars
<1>2. /\ phase'[r] \in {"locking", "written"} => call'[r] = CallOf[r]
      /\ \A q \in People : q # r => phase'[q] = phase[q] /\ call'[q] = call[q]
  <2>1. CASE W!Begin(r, CallOf[r])
    BY <1>1, <2>1, HalvesTypes DEF W!Begin
  <2>2. CASE \E w \in Wallets : W!AcquireLock(r, w)
    BY <1>1, <2>2 DEF W!AcquireLock, Together
  <2>3. CASE W!Post(r) \/ W!UpdateStatus(r)
    <3>1. /\ phase[r] = "locking" /\ call' = call
          /\ phase' = [phase EXCEPT ![r] = "written"]
      BY <2>3 DEF W!Post, W!UpdateStatus, W!Cleared
    <3> QED
      BY <1>1, <3>1, HalvesTypes DEF Together
  <2>4. CASE W!Refuse(r) \/ W!Commit(r) \/ W!Abort(r)
    <3>1. W!Release(r, "rolledback") \/ W!Release(r, "committed")
      BY <2>4 DEF W!Refuse, W!Commit, W!Abort
    <3> QED
      BY <1>1, <3>1, Released
  <2> QED
    BY <2>1, <2>2, <2>3, <2>4 DEF Administer, W!Step
<1> QED
  BY <1>1, <1>2, OneStep

LEMMA StepTogether == Halves /\ Together /\ [NextApi]_apiVars => Together'
<1> SUFFICES ASSUME Halves, Together, [NextApi]_apiVars PROVE Together'
  OBVIOUS
<1>1. CASE UNCHANGED apiVars \/ Age
  <2>1. UNCHANGED <<phase, call, stage, rowLock>>
    BY <1>1 DEF apiVars, walletVars, keyVars, Age, I!Age
  <2> QED
    BY <2>1 DEF Together
<1> QED
  BY <1>1, MiddlewareTogether, HandleTogether, CompleteTogether, CommitTogether,
     FailTogether, AdministerTogether DEF NextApi

LEMMA Composed == SpecApi => [](Halves /\ Together)
<1>1. InitApi => Together
  BY WalletsAssumed, KeysAssumed
  DEF InitApi, W!Init, I!Init, Together, People, WP!WalletsAssumption, IP!IdempotencyAssumption
<1> QED
  BY <1>1, StepTogether, HalvesHold, PTL DEF SpecApi

-----------------------------------------------------------------------------
(* The two tables.                                                         *)

\* A payment that is ready to commit holds the wallet of its user.
LEMMA HoldsOwnWallet ==
  ASSUME Halves, Together, NEW r \in Clients, phase[r] = "written"
  PROVE  /\ call[r] = CallOf[r] /\ WP!IsMoney(call[r]) /\ WP!CurrentOf(r)
         /\ W!Own(CallOf[r]) \in Wallets /\ lock[W!Own(CallOf[r])] = r
<1>1. r \in People /\ call[r] = CallOf[r]
  BY DEF People, Together
<1>2. WP!IsMoney(call[r])
  BY <1>1, MoneyApiAssumption, SameTransactions DEF MoneyApiAssumption
<1>3. WP!CurrentOf(r)
  BY <1>1 DEF Halves, WP!SerialInv, WP!Current, People
<1>4. WP!Own(call[r]) \in WP!Held(r)
  BY <1>2, <1>3 DEF WP!CurrentOf
<1> QED
  BY <1>1, <1>2, <1>3, <1>4, SameTransactions DEF WP!Held

\* No request waits for the row of its key while it holds wallets, however slow
\* requests are: the holder of the row would hold the same user's wallet.
THEOREM CompletionsDoNotWait == SpecApi => []CompletionNeverWaits
<1>1. Halves /\ Together => CompletionNeverWaits
  <2> SUFFICES ASSUME Halves, Together, NEW r \in Clients, phase[r] = "written",
                      rowLock[ScopeOf[r]] \notin {Null, r}
               PROVE  FALSE
    BY DEF CompletionNeverWaits
  <2> DEFINE q == rowLock[ScopeOf[r]]
  <2>1. q \in Clients /\ ScopeOf[r] \in Scopes
    BY HalvesTypes DEF Scopes
  <2>2. phase[q] = "written" /\ ScopeOf[q] = ScopeOf[r]
    BY <2>1 DEF Together
  <2>3. CallOf[q].user = CallOf[r].user
    BY <2>1, <2>2 DEF ScopeOf
  <2>4. lock[W!Own(CallOf[r])] = r /\ lock[W!Own(CallOf[q])] = q
    BY <2>1, <2>2, HoldsOwnWallet
  <2> QED
    BY <2>3, <2>4 DEF W!Own
<1> QED
  BY <1>1, Composed, PTL

-----------------------------------------------------------------------------
(* The refinement.                                                         *)

\* The payment made under each key, as the bank sees it.
PaidUnder == [s \in Scopes |-> IF moved[s] = <<>> THEN Null
                               ELSE PaymentOf(moved[s][Len(moved[s])])]

LEMMA Commits ==
  ASSUME Halves, Together, IP!AtMostOnce', NEW r \in Clients, Commit(r)
  PROVE  B!Pay(ScopeOf[r], PaymentOf(CallOf[r]))
<1> DEFINE s == ScopeOf[r]
           c == CallOf[r]
           p == PaymentOf(c)
<1>1. phase[r] = "written" /\ WP!Commit(r) /\ r \in People
  BY SameTransactions DEF Commit, W!Commit, People
<1>2. call[r] = c /\ WP!IsMoney(c)
  BY <1>1, HoldsOwnWallet
<1>3. /\ W!Debited(c) # W!Credited(c)
      /\ \A w \in {W!Debited(c), W!Credited(c)} \cap Wallets : status[w] = "active"
      /\ W!Debited(c) \in Wallets => balance[W!Debited(c)] >= c.amount
      /\ balance' = [w \in Wallets |-> CASE w = W!Debited(c)  -> balance[w] - c.amount
                                         [] w = W!Credited(c) -> balance[w] + c.amount
                                         [] OTHER             -> balance[w]]
      /\ status' = status
  <2>1. /\ WP!Debited(c) # WP!Credited(c)
        /\ \A w \in {WP!Debited(c), WP!Credited(c)} \cap Wallets : status[w] = "active"
        /\ WP!Debited(c) \in Wallets => balance[WP!Debited(c)] >= c.amount
        /\ balance' = [w \in Wallets |-> CASE w = WP!Debited(c)  -> balance[w] - c.amount
                                           [] w = WP!Credited(c) -> balance[w] + c.amount
                                           [] OTHER              -> balance[w]]
        /\ status' = status
    <3>1. r \in Clients \cup Admins /\ WP!SerialInv
      BY DEF Halves
    <3> QED
      BY <1>1, <1>2, <3>1, WalletsAssumed, WP!CommitPays DEF WP!CommitPays
  <2>2. W!Debited(c) = WP!Debited(c) /\ W!Credited(c) = WP!Credited(c)
    BY SameTransactions
  <2> QED
    BY <2>1, <2>2
<1>4. s \in Scopes /\ HashOf[r] = c /\ c \in Calls
  BY DEF Scopes, HashOf, Calls
<1>5. moved' = [moved EXCEPT ![s] = Append(@, c)]
  BY <1>4 DEF Commit, I!Commit, I!CommitUnacknowledged, I!Settle
<1>6. moved[s] \in Seq(Calls) /\ moved'[s] = Append(moved[s], c)
  BY <1>4, <1>5, HalvesTypes
<1>7. moved[s] = <<>> /\ moved'[s] = <<c>>
  <2>1. Len(moved'[s]) <= 1
    BY <1>4 DEF IP!AtMostOnce
  <2>2. \A m \in Seq(Calls), x \in Calls : Len(Append(m, x)) = Len(m) + 1 /\ Len(m) \in Nat
    OBVIOUS
  <2>3. Len(moved[s]) = 0
    BY <1>4, <1>6, <2>1, <2>2
  <2>4. moved[s] = <<>>
    BY <1>6, <2>3
  <2> QED
    BY <1>6, <2>4
<1>8. PaidUnder[s] = Null /\ PaidUnder' = [PaidUnder EXCEPT ![s] = p]
  <2>1. \A t \in Scopes : t # s => moved'[t] = moved[t]
    BY <1>5, HalvesTypes
  <2>2. moved'[s] # <<>> /\ moved'[s][Len(moved'[s])] = c
    BY <1>7
  <2> QED
    BY <1>4, <1>7, <2>1, <2>2 DEF PaidUnder, PaymentOf, W!Debited, W!Credited, W!Own
<1>9. p.from = W!Debited(c) /\ p.to = W!Credited(c) /\ p.amount = c.amount
  BY DEF PaymentOf
<1> QED
  BY <1>3, <1>8, <1>9 DEF B!Pay, PaidUnder

LEMMA Administers ==
  ASSUME Halves, Together, NEW r \in Admins, Administer(r)
  PROVE  \/ UNCHANGED <<balance, status, moved>>
         \/ \E a \in Wallets, x \in W!WalletStatus : B!SetStanding(a, x)
<1>1. CASE W!Commit(r)
  <2>1. r \in People /\ phase[r] = "written" /\ WP!Commit(r) /\ moved' = moved
    BY <1>1, SameTransactions DEF People, W!Commit, Administer, keyVars
  <2>2. call[r] = CallOf[r] /\ ~WP!IsMoney(call[r])
    BY <2>1, MoneyApiAssumption, SameTransactions DEF Together, MoneyApiAssumption
  <2>3. LET c == call[r] IN
        /\ c.wallet \in Wallets /\ c.status \in WP!WalletStatus
        /\ status' = [status EXCEPT ![c.wallet] = c.status]
        /\ balance' = balance
    BY <2>1, <2>2, WalletsAssumed, WP!CommitSets DEF WP!CommitSets, Halves, People
  <2> QED
    BY <2>1, <2>3 DEF B!SetStanding, W!WalletStatus, WP!WalletStatus
<1>2. CASE ~W!Commit(r)
  BY <1>2 DEF Administer, keyVars, W!Step, W!Begin, W!AcquireLock, W!Refuse, W!Post,
              W!UpdateStatus, W!Abort, W!committed
<1> QED
  BY <1>1, <1>2

\* The money endpoints implement the bank when no request that claimed a key
\* outlives the staleness window: whatever is retried, refused, frozen, lost or
\* killed, the committed balances move by one payment for a key, and by none
\* that a frozen wallet or a poor one would have to make.
THEOREM EndpointsImplementBank ==
  BoundedLatency = TRUE /\ SpecApi => ImplementsBank
<1>1. SUFFICES ASSUME BoundedLatency = TRUE PROVE SpecApi => ImplementsBank
  OBVIOUS
<1>2. IP!Spec => []IP!AtMostOnce
  BY <1>1, KeysAssumed, IP!ExactlyOnce, PTL DEF IP!ExactlyOnce
<1>3. InitApi => B!BankInit
  BY WalletsAssumed
  DEF InitApi, W!Init, I!Init, B!BankInit, WP!WalletsAssumption
<1>4. Halves /\ Together /\ IP!AtMostOnce' /\ [NextApi]_apiVars => [B!BankNext]_B!bankVars
  <2> SUFFICES ASSUME Halves, Together, IP!AtMostOnce', [NextApi]_apiVars
               PROVE  [B!BankNext]_B!bankVars
    OBVIOUS
  <2>1. ASSUME UNCHANGED <<balance, status, moved>> PROVE UNCHANGED B!bankVars
    BY <2>1 DEF B!bankVars, PaymentOf, W!Debited, W!Credited, W!Own
  <2>2. ASSUME NEW r \in Clients, Commit(r) PROVE B!BankNext
    BY <2>2, Commits DEF B!BankNext, Scopes
  <2>3. ASSUME NEW r \in Clients,
               Middleware(r) \/ Handle(r) \/ Complete(r) \/ Fail(r) \/ Die(r)
        PROVE  UNCHANGED <<balance, status, moved>>
    BY <2>3 DEF Middleware, Handle, Complete, Fail, Die, walletVars, keyVars, I!Send,
         I!TryCreate, I!FindByScope, I!Replay, I!RejectReused, I!Decided, I!TakeOverFailed,
         I!TakeOverStale, I!TakeOver, I!MarkFailed, I!ReleaseLost, I!Complete,
         I!HandlerFails, I!Die, W!Begin, W!AcquireLock, W!Post, W!Refuse, W!Abort, W!committed
  <2>4. ASSUME Age \/ UNCHANGED apiVars PROVE UNCHANGED <<balance, status, moved>>
    BY <2>4 DEF Age, I!Age, apiVars, walletVars, keyVars
  <2>5. ASSUME NEW r \in Admins, Administer(r) PROVE [B!BankNext]_B!bankVars
    BY <2>1, <2>5, Administers DEF B!BankNext
  <2> QED
    BY <2>1, <2>2, <2>3, <2>4, <2>5 DEF NextApi
<1> QED
  BY <1>2, <1>3, <1>4, KeysRun, Composed, PTL DEF SpecApi, ImplementsBank, B!BankSpec

-----------------------------------------------------------------------------
(* What is proved of each half holds of the endpoints.                     *)

\* Behind the middleware, with its retries and its lost and stale keys, the ledger
\* stays a ledger, numbers stay safe, the audit rows replay the freezes, nobody
\* waits in a circle, statements only append and a frozen wallet moves nothing.
THEOREM TransactionsStaySound ==
  SpecApi => /\ []WP!LedgerChain /\ []WP!BalancesStaySafe
             /\ []WP!AuditReplaysStatus /\ []WP!NoWaitCycle
             /\ WP!StatementAppends /\ WP!FrozenMovesNothing
<1>1. WP!Spec => []WP!LedgerChain
  BY WalletsAssumed, WP!LedgerIsSound DEF WP!LedgerIsSound
<1>2. WP!Spec => []WP!BalancesStaySafe
  BY WalletsAssumed, WP!NumbersAreSafe DEF WP!NumbersAreSafe
<1>3. WP!Spec => []WP!AuditReplaysStatus
  BY WalletsAssumed, WP!AuditIsComplete DEF WP!AuditIsComplete
<1>4. WP!Spec => []WP!NoWaitCycle
  BY WalletsAssumed, WP!NobodyWaitsInACircle DEF WP!NobodyWaitsInACircle
<1>5. WP!Spec => WP!StatementAppends
  BY WalletsAssumed, WP!StatementsAppend DEF WP!StatementsAppend
<1>6. WP!Spec => WP!FrozenMovesNothing
  BY WalletsAssumed, WP!FrozenIsFrozen DEF WP!FrozenIsFrozen
<1> QED
  BY <1>1, <1>2, <1>3, <1>4, <1>5, <1>6, WalletsRun, PTL

\* With transactions that wait for rows, are refused or roll back in the place of
\* the abstract handler, and however slow requests are, a key still replays the last
\* payment made under it; and if no request that claimed a key outlives the
\* staleness window, a 2xx reports the one movement it asked for and a completed key
\* never changes.
THEOREM KeysStaySound ==
  SpecApi => /\ []KeysReplayTheirPayment
             /\ BoundedLatency = TRUE =>
                  []IP!AtMostOnce /\ []IP!SuccessMeansMoved /\ IP!CompletedIsFinal
<1>1. SpecApi => []KeysReplayTheirPayment
  <2>1. IP!Spec => []IP!ReplaysLastMovement
    BY KeysAssumed, IP!ReplaysAreReal DEF IP!ReplaysAreReal
  <2>2. IP!ReplaysLastMovement => KeysReplayTheirPayment
    BY DEF KeysReplayTheirPayment, I!ReplaysLastMovement, IP!ReplaysLastMovement,
           I!IsStatus, IP!IsStatus
  <2> QED BY <2>1, <2>2, KeysRun, PTL
<1>2. BoundedLatency = TRUE /\ IP!Spec => []IP!AtMostOnce
  BY KeysAssumed, IP!ExactlyOnce DEF IP!ExactlyOnce
<1>3. BoundedLatency = TRUE /\ IP!Spec => []IP!SuccessMeansMoved
  BY KeysAssumed, IP!SuccessesAreReal DEF IP!SuccessesAreReal
<1>4. BoundedLatency = TRUE /\ IP!Spec => IP!CompletedIsFinal
  BY KeysAssumed, IP!CompletedRowsAreFinal DEF IP!CompletedRowsAreFinal
<1> QED
  BY <1>1, <1>2, <1>3, <1>4, KeysRun, PTL
=============================================================================
