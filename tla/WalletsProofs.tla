---------------------------- MODULE WalletsProofs ----------------------------
(***************************************************************************)
(* Theorems about the money transactions, for any wallets, users, calls,   *)
(* opening balances and number of requests.                                *)
(***************************************************************************)
EXTENDS Wallets, WellFoundedInduction, TLAPS

USE WalletsAssumption DEF WalletsAssumption

-----------------------------------------------------------------------------
(* Types.                                                                  *)

Open(r) == phase[r] \in {"locking", "written"}

\* The amount of a money call has passed validation.
Valid(c) == IsMoney(c) => ValidAmount(c.amount)

\* An open transaction carries a validated call; only it holds locks, on rows it has read
\* and needs; only a transaction that has written has uncommitted rows.
Shape ==
  /\ \A r \in Requests : Open(r) => call[r] \in Calls /\ Valid(call[r])
  /\ \A r \in Requests : phase[r] # "written" => posted[r] = {} /\ noted[r] = <<>>
  /\ \A r \in Requests, w \in Wallets : lock[w] = r =>
       Open(r) /\ view[r][w] \in Row /\ w \in Needs(call[r])

TypeInv == TypeOK /\ Shape

LEMMA CallFields ==
  ASSUME NEW c \in Calls
  PROVE  /\ c.op \in {"fund", "withdraw", "transfer", "updateWalletStatus"}
         /\ c.user \in Users /\ c.wallet \in Nat
         /\ IsMoney(c) /\ Valid(c) => c.amount \in Nat \ {0} /\ c.amount <= MaxAmount
         /\ c.status \in WalletStatus /\ Own(c) \in Wallets \cup {Null}
BY DEF CallType, MoneyOps, Own, Valid, ValidAmount

LEMMA InitTypeInv == Init => TypeInv
<1> SUFFICES ASSUME Init PROVE TypeInv
  OBVIOUS
<1>1. entries \subseteq WalletLine \cup SystemLine
  <2> SUFFICES ASSUME NEW e \in entries PROVE e \in WalletLine \cup SystemLine
    OBVIOUS
  <2>1. PICK w \in Wallets : /\ Opening[w] > 0
                            /\ e \in {Line(2*w, w, "CREDIT", Opening[w], Opening[w]),
                                     Line(2*w + 1, Null, "DEBIT", Opening[w], Null)}
    BY DEF Init
  <2>2. w \in Nat /\ Opening[w] \in Nat \ {0}
    BY <2>1
  <2> QED
    BY <2>1, <2>2 DEF Line, WalletLine, SystemLine, Direction
<1>2. TypeOK
  BY <1>1 DEF Init, TypeOK, WalletStatus
<1>3. Shape
  BY DEF Init, Shape, Open
<1> QED
  BY <1>2, <1>3 DEF TypeInv

\* A cleared money call has locked one wallet, or two different ones, and leaves
\* none of them below zero.
LEMMA ClearedMoney ==
  ASSUME TypeInv, NEW r \in Requests, Cleared(r), IsMoney(call[r])
  PROVE  LET c == call[r] IN
         /\ c \in Calls /\ Valid(c)
         /\ Own(c) \in Wallets
         /\ c.op = "transfer" => c.wallet \in Wallets /\ c.wallet # Own(c)
         /\ Needs(c) = IF c.op = "transfer" THEN {Own(c), c.wallet} ELSE {Own(c)}
         /\ \A w \in Needs(c) :
              /\ w \in Wallets /\ lock[w] = r /\ view[r][w] \in Row
              /\ view[r][w].status = "active"
              /\ NewBalance(r, w) \in Nat
              /\ w = Debited(c) => NewBalance(r, w) = view[r][w].balance - c.amount
              /\ w = Credited(c) => NewBalance(r, w) = view[r][w].balance + c.amount
              /\ w = Debited(c) <=> w # Credited(c)
<1> DEFINE c == call[r]
<1>1. c \in Calls /\ Valid(c) /\ IsMoney(c) /\ c.op \in MoneyOps
  BY DEF TypeInv, Shape, Open, Cleared, IsMoney
<1>2. /\ c.amount \in Nat /\ Own(c) \in Wallets \cup {Null}
      /\ c.op = "fund" \/ c.op = "withdraw" \/ c.op = "transfer"
  BY <1>1, CallFields DEF MoneyOps
<1>3. /\ Own(c) \in Wallets
      /\ c.op = "transfer" => c.wallet \in Wallets /\ c.wallet # Own(c)
  BY <1>1, <1>2 DEF Cleared, RefusedUnlocked, RefusedLocked, IsMoney
<1>4. Needs(c) = IF c.op = "transfer" THEN {Own(c), c.wallet} ELSE {Own(c)}
  BY <1>2, <1>3 DEF Needs
<1>5. ASSUME NEW w \in Needs(c)
      PROVE  /\ w \in Wallets /\ lock[w] = r /\ view[r][w] \in Row
             /\ view[r][w].status = "active"
  <2>1. w \in Wallets /\ lock[w] = r
    BY DEF Cleared, Held
  <2> QED
    BY <2>1, <1>1, <1>5 DEF TypeInv, Shape, Cleared, RefusedLocked, IsMoney
<1>6. ASSUME NEW w \in Needs(c)
      PROVE  /\ w = Debited(c) <=> w # Credited(c)
             /\ w = Debited(c) => NewBalance(r, w) = view[r][w].balance - c.amount
             /\ w = Credited(c) => NewBalance(r, w) = view[r][w].balance + c.amount
  <2>1. w = Debited(c) <=> w # Credited(c)
    BY <1>2, <1>3, <1>4 DEF Debited, Credited
  <2> QED
    BY <2>1 DEF NewBalance
<1>7. ASSUME NEW w \in Needs(c) PROVE NewBalance(r, w) \in Nat
  <2>1. view[r][w].balance \in Nat
    BY <1>5 DEF Row
  <2>2. w = Debited(c) => view[r][w].balance >= c.amount
    BY <1>1, <1>2, <1>5, <2>1 DEF Cleared, RefusedLocked, IsMoney
  <2> QED
    BY <1>2, <1>6, <2>1, <2>2
<1> QED
  BY <1>1, <1>3, <1>4, <1>5, <1>6, <1>7

\* The two lines a money call posts: one for each wallet it has locked, and the
\* settlement side if there is one wallet only.
LEMMA PostedLines ==
  ASSUME TypeInv, NEW r \in Requests, Post(r)
  PROVE  \E m \in WalletLine, t \in WalletLine \cup SystemLine :
           /\ posted' = [posted EXCEPT ![r] = {m, t}]
           /\ m.id = nextEntryId /\ t.id = nextEntryId + 1
           /\ m.wallet # t.wallet /\ m.amount = t.amount /\ m.direction # t.direction
           /\ {m.wallet, t.wallet} \cap Wallets = Needs(call[r])
           /\ \A l \in {m, t} : l.wallet \in Wallets =>
                /\ l.balanceAfter = NewBalance(r, l.wallet)
                /\ NewBalance(r, l.wallet) = view[r][l.wallet].balance + Signed(l)
<1> DEFINE c == call[r]
           own == Own(c)
           other == IF c.op = "transfer" THEN c.wallet ELSE Null
           side(w) == IF w = Credited(c) THEN "CREDIT" ELSE "DEBIT"
           after == IF other = Null THEN Null ELSE NewBalance(r, other)
           m == Line(nextEntryId, own, side(own), c.amount, NewBalance(r, own))
           t == Line(nextEntryId + 1, other, side(other), c.amount, after)
<1>1. c \in Calls /\ c.amount \in Nat \ {0} /\ nextEntryId \in Nat /\ nextEntryId + 1 \in Nat
  BY CallFields, ClearedMoney DEF Post, TypeInv, TypeOK
<1>2. own \in Wallets /\ own \in Needs(c) /\ NewBalance(r, own) \in Nat
  BY ClearedMoney DEF Post
<1>3. other = Null \/ (other \in Wallets /\ other \in Needs(c) /\ NewBalance(r, other) \in Nat)
  BY ClearedMoney DEF Post
<1>4. own # other /\ {own, other} \cap Wallets = Needs(c)
  <2>1. CASE c.op = "transfer"
    <3>1. /\ c.wallet \in Wallets /\ c.wallet # own
          /\ Needs(c) = IF c.op = "transfer" THEN {own, c.wallet} ELSE {own}
      BY <2>1, ClearedMoney DEF Post
    <3>2. Needs(c) = {own, c.wallet} /\ other = c.wallet
      BY <2>1, <3>1
    <3> QED
      BY <1>2, <3>1, <3>2
  <2>2. CASE c.op # "transfer"
    <3>1. Needs(c) = IF c.op = "transfer" THEN {own, c.wallet} ELSE {own}
      BY ClearedMoney DEF Post
    <3>2. Needs(c) = {own} /\ other = Null
      BY <2>2, <3>1
    <3> QED
      BY <1>2, <3>2
  <2> QED
    BY <2>1, <2>2
<1>5. posted' = [posted EXCEPT ![r] = {m, t}]
  BY DEF Post
<1>6. \A w \in Needs(c) : /\ view[r][w].balance \in Nat
                          /\ NewBalance(r, w) = view[r][w].balance
                               + (IF side(w) = "CREDIT" THEN c.amount ELSE -c.amount)
  <2> SUFFICES ASSUME NEW w \in Needs(c)
               PROVE  /\ view[r][w].balance \in Nat
                      /\ NewBalance(r, w) = view[r][w].balance
                           + (IF side(w) = "CREDIT" THEN c.amount ELSE -c.amount)
    OBVIOUS
  <2>1. /\ view[r][w] \in Row
        /\ w = Debited(c) <=> w # Credited(c)
        /\ w = Debited(c) => NewBalance(r, w) = view[r][w].balance - c.amount
        /\ w = Credited(c) => NewBalance(r, w) = view[r][w].balance + c.amount
    BY ClearedMoney DEF Post
  <2>2. view[r][w].balance \in Nat
    BY <2>1 DEF Row
  <2> QED
    BY <1>1, <2>1, <2>2
<1>7. /\ m.id = nextEntryId /\ m.wallet = own /\ m.balanceAfter = NewBalance(r, own)
      /\ Signed(m) = IF side(own) = "CREDIT" THEN c.amount ELSE -c.amount
      /\ t.id = nextEntryId + 1 /\ t.wallet = other /\ t.balanceAfter = after
      /\ Signed(t) = IF side(other) = "CREDIT" THEN c.amount ELSE -c.amount
  BY DEF Line, Signed
<1>8. \A w : side(w) \in Direction
  BY DEF Direction
<1> HIDE DEF side
<1>9. m \in WalletLine
  BY <1>1, <1>2, <1>8 DEF Line, WalletLine
<1>10. t \in WalletLine \cup SystemLine
  BY <1>1, <1>3, <1>8 DEF Line, WalletLine, SystemLine
<1>11. other \in Wallets => after = NewBalance(r, other)
  OBVIOUS
<1>12. side(own) # side(other)
  <2>1. c.op = "fund" \/ c.op = "withdraw" \/ c.op = "transfer"
    BY DEF Post, IsMoney, MoneyOps
  <2>2. own = Credited(c) <=> other # Credited(c)
    BY <1>2, <1>4, <2>1 DEF Credited
  <2> QED
    BY <2>2 DEF side
<1>13. m.amount = t.amount /\ m.direction = side(own) /\ t.direction = side(other)
  BY DEF Line
<1> HIDE DEF m, t, own, other, after
<1>14. m.wallet # t.wallet /\ {m.wallet, t.wallet} \cap Wallets = Needs(c)
  BY <1>4, <1>7
<1>15. /\ m.balanceAfter = NewBalance(r, m.wallet)
       /\ NewBalance(r, m.wallet) = view[r][m.wallet].balance + Signed(m)
  BY <1>2, <1>6, <1>7
<1>16. t.wallet \in Wallets =>
         /\ t.balanceAfter = NewBalance(r, t.wallet)
         /\ NewBalance(r, t.wallet) = view[r][t.wallet].balance + Signed(t)
  BY <1>3, <1>6, <1>7, <1>11
<1> QED
  BY <1>5, <1>7, <1>9, <1>10, <1>12, <1>13, <1>14, <1>15, <1>16

\* The end of a transaction, whatever its outcome.
LEMMA ReleaseTypeInv ==
  ASSUME TypeInv, NEW r \in Requests, NEW x \in {"committed", "rolledback"}, Release(r, x),
         balance' \in [Wallets -> Nat], status' \in [Wallets -> WalletStatus],
         entries' \subseteq WalletLine \cup SystemLine,
         audit' \in [Wallets -> Seq(Change)], nextEntryId' \in Nat
  PROVE  TypeInv'
<1> USE DEF TypeInv, TypeOK, Release
<1>1. TypeOK'
  OBVIOUS
<1>2. \A q \in Requests : q # r => /\ phase'[q] = phase[q] /\ call'[q] = call[q]
                                   /\ view'[q] = view[q] /\ posted'[q] = posted[q]
                                   /\ noted'[q] = noted[q]
  OBVIOUS
<1>3. \A w \in Wallets, q \in Requests : lock'[w] = q => q # r /\ lock[w] = q
  OBVIOUS
<1>4. phase'[r] = x /\ posted'[r] = {} /\ noted'[r] = <<>>
  OBVIOUS
<1>5. Shape'
  BY <1>2, <1>3, <1>4 DEF Shape, Open
<1> QED
  BY <1>1, <1>5

LEMMA StepTypeInv == TypeInv /\ [Next]_vars => TypeInv'
<1> SUFFICES ASSUME TypeInv, [Next]_vars PROVE TypeInv'
  OBVIOUS
<1>0. ASSUME NEW r \in Requests, Post(r)
      PROVE  \E m \in WalletLine, t \in WalletLine \cup SystemLine :
               posted' = [posted EXCEPT ![r] = {m, t}]
  BY <1>0, PostedLines
<1> USE DEF TypeInv, TypeOK, committed
<1>1. ASSUME NEW r \in Requests, NEW c \in Calls, Begin(r, c) PROVE TypeInv'
  BY <1>1 DEF Begin, Shape, Open, Valid
<1>2. ASSUME NEW r \in Requests, NEW w \in Wallets, AcquireLock(r, w) PROVE TypeInv'
  <2> DEFINE new == [balance |-> balance[w], status |-> status[w]]
  <2>1. new \in Row
    BY DEF Row
  <2>2. /\ lock' = [lock EXCEPT ![w] = r] /\ view' = [view EXCEPT ![r][w] = new]
        /\ phase[r] = "locking" /\ w \in Needs(call[r]) /\ lock[w] = Null
        /\ UNCHANGED <<committed, nextEntryId, phase, call, posted, noted>>
    BY <1>2 DEF AcquireLock, NextLock
  <2>3. TypeOK'
    BY <2>1, <2>2
  <2>4. /\ view'[r][w] = new
        /\ \A q \in Requests, v \in Wallets : <<q, v>> # <<r, w>> => view'[q][v] = view[q][v]
    BY <2>2
  <2>5. Shape'
    BY <2>1, <2>2, <2>4 DEF Shape, Open
  <2> QED
    BY <2>3, <2>5
<1>3. ASSUME NEW r \in Requests, Refuse(r) \/ Abort(r) PROVE TypeInv'
  BY <1>3, ReleaseTypeInv DEF Refuse, Abort
<1>4. ASSUME NEW r \in Requests, Post(r) PROVE TypeInv'
  <2> DEFINE new(w) == [balance |-> NewBalance(r, w), status |-> view[r][w].status]
             mine == [w \in Wallets |-> IF w \in Needs(call[r]) THEN new(w) ELSE view[r][w]]
  <2>1. \A w \in Needs(call[r]) : w \in Wallets /\ new(w) \in Row
    BY <1>4, ClearedMoney DEF Post, Row
  <2>2. /\ nextEntryId' = nextEntryId + 2 /\ phase' = [phase EXCEPT ![r] = "written"]
        /\ view' = [view EXCEPT ![r] = mine]
        /\ phase[r] = "locking"
        /\ UNCHANGED <<committed, lock, call, noted>>
    BY <1>4 DEF Post, Cleared
  <2>3. posted' \in [Requests -> SUBSET (WalletLine \cup SystemLine)]
        /\ \A q \in Requests : q # r => posted'[q] = posted[q]
    <3>1. PICK A \in SUBSET (WalletLine \cup SystemLine) : posted' = [posted EXCEPT ![r] = A]
      <4>1. PICK m \in WalletLine, t \in WalletLine \cup SystemLine :
              posted' = [posted EXCEPT ![r] = {m, t}]
        BY <1>4, <1>0
      <4>2. {m, t} \in SUBSET (WalletLine \cup SystemLine)
        OBVIOUS
      <4> QED
        BY <4>1, <4>2
    <3> QED
      BY <3>1
  <2> HIDE DEF new
  <2>4. /\ mine \in [Wallets -> Row \cup {Null}]
        /\ \A w \in Wallets : lock[w] = r => mine[w] \in Row
    BY <2>1 DEF Shape
  <2> HIDE DEF mine
  <2>5. view' \in [Requests -> [Wallets -> Row \cup {Null}]]
        /\ \A q \in Requests, w \in Wallets : lock[w] = q => view'[q][w] \in Row
    BY <2>2, <2>4 DEF Shape
  <2>6. TypeOK'
    BY <2>2, <2>3, <2>5
  <2>7. Shape'
    BY <2>2, <2>3, <2>5 DEF Shape, Open
  <2> QED
    BY <2>6, <2>7
<1>5. ASSUME NEW r \in Requests, UpdateStatus(r) PROVE TypeInv'
  <2> DEFINE c == call[r]
             w == c.wallet
             old == view[r][w].status
             new == [view[r][w] EXCEPT !.status = c.status]
  <2>1. c \in Calls /\ phase[r] = "locking" /\ phase' = [phase EXCEPT ![r] = "written"]
        /\ UNCHANGED <<committed, nextEntryId, lock, call, posted>>
    BY <1>5 DEF UpdateStatus, Cleared, Shape, Open
  <2>2. c.op = "updateWalletStatus" /\ w \in Wallets /\ c.status \in WalletStatus
    BY <1>5, <2>1, CallFields
    DEF UpdateStatus, Cleared, RefusedLocked, IsMoney, MoneyOps
  <2>3. lock[w] = r /\ view[r][w] \in Row
    BY <1>5, <2>2 DEF UpdateStatus, Cleared, Held, Needs, Shape
  <2>4. CASE old = c.status
    <3>1. UNCHANGED <<view, noted>>
      BY <1>5, <2>4 DEF UpdateStatus
    <3> QED
      BY <2>1, <3>1 DEF Shape, Open
  <2>5. CASE old # c.status
    <3>1. /\ view' = [view EXCEPT ![r][w] = new]
          /\ noted' = [noted EXCEPT ![r] = <<[from |-> old, to |-> c.status]>>]
      BY <1>5, <2>5 DEF UpdateStatus
    <3>2. new \in Row /\ [from |-> old, to |-> c.status] \in Change
      BY <2>2, <2>3, <2>5 DEF Row, Change
    <3>3. TypeOK'
      BY <2>1, <2>2, <3>1, <3>2
    <3>4. \A q \in Requests, v \in Wallets : lock[v] = q => view'[q][v] \in Row
      BY <2>2, <3>1, <3>2 DEF Shape
    <3>5. Shape'
      BY <2>1, <3>1, <3>4 DEF Shape, Open
    <3> QED
      BY <3>3, <3>5
  <2> QED
    BY <2>4, <2>5
<1>6. ASSUME NEW r \in Requests, Commit(r) PROVE TypeInv'
  <2>1. \A w \in Wallets : lock[w] = r => view[r][w].balance \in Nat
                                          /\ view[r][w].status \in WalletStatus
    BY DEF Shape, Row
  <2>2. balance' \in [Wallets -> Nat] /\ status' \in [Wallets -> WalletStatus]
    <3>1. /\ balance' = [w \in Wallets |-> IF lock[w] = r THEN view[r][w].balance ELSE balance[w]]
          /\ status' = [w \in Wallets |-> IF lock[w] = r THEN view[r][w].status ELSE status[w]]
      BY <1>6 DEF Commit
    <3> QED
      BY <2>1, <3>1
  <2>3. entries' \subseteq WalletLine \cup SystemLine
    BY <1>6 DEF Commit
  <2>4. audit' \in [Wallets -> Seq(Change)]
    <3>1. audit' = [w \in Wallets |->
            IF w = call[r].wallet THEN audit[w] \o noted[r] ELSE audit[w]]
      BY <1>6 DEF Commit
    <3>2. \A w \in Wallets : audit[w] \in Seq(Change) /\ audit[w] \o noted[r] \in Seq(Change)
      OBVIOUS
    <3> QED
      BY <3>1, <3>2
  <2> QED
    BY <1>6, <2>2, <2>3, <2>4, ReleaseTypeInv DEF Commit
<1>7. CASE UNCHANGED vars
  BY <1>7 DEF vars, Shape, Open
<1> QED
  BY <1>1, <1>2, <1>3, <1>4, <1>5, <1>6, <1>7 DEF Next, Step

\* Every variable keeps its type: no committed or pending balance is negative, by
\* the check under the lock alone.
THEOREM TypeCorrect == Spec => []TypeOK
<1>1. TypeInv => TypeOK
  BY DEF TypeInv
<1> QED
  BY InitTypeInv, StepTypeInv, <1>1, PTL DEF Spec

-----------------------------------------------------------------------------
(* The ledger.  A transaction that has locked a row sees its committed version *)
(* until it writes, and until it commits nobody else writes that row or adds a *)
(* line to it: so what it computed still fits the chain when it commits.       *)

\* The rows a transaction has locked are as committed while it is still locking.
LockedRows ==
  \A r \in Requests, w \in Wallets : lock[w] = r /\ phase[r] = "locking" =>
    view[r][w].balance = balance[w] /\ view[r][w].status = status[w]

\* An uncommitted line continues the chain of its wallet, which is locked and
\* active, and is the only one of its transaction there.
PendingLine(r, e) ==
  /\ lock[e.wallet] = r /\ status[e.wallet] = "active"
  /\ view[r][e.wallet].balance = e.balanceAfter
  /\ e.balanceAfter = balance[e.wallet] + Signed(e)
  /\ \A f \in LinesOf(e.wallet) : f.id < e.id
  /\ \A f \in posted[r] : f.wallet = e.wallet => f = e

Pending ==
  \A r \in Requests : \A e \in posted[r] : e.wallet \in Wallets => PendingLine(r, e)

\* A locked row without a line of its transaction keeps its balance.
Quiet ==
  \A r \in Requests, w \in Wallets :
    lock[w] = r /\ (\A e \in posted[r] : e.wallet # w) => view[r][w].balance = balance[w]

IdsBelow ==
  /\ \A e \in entries : e.id < nextEntryId
  /\ \A r \in Requests : \A e \in posted[r] : e.id < nextEntryId

LedgerInv ==
  TypeInv /\ LockedRows /\ Pending /\ Quiet /\ IdsBelow /\ LedgerChain

\* Adding the newest line moves the end of the chain to it.
LEMMA ChainGrows ==
  ASSUME NEW lines \in SUBSET WalletLine, NEW n \in WalletLine, NEW b \in Nat,
         Chain(lines, b), \A e \in lines : e.id < n.id, n.balanceAfter = b + Signed(n)
  PROVE  Chain(lines \cup {n}, n.balanceAfter)
<1> DEFINE more == lines \cup {n}
           Before(L, x) == {g \in L : g.id < x.id}
           After(L, x) == {g \in L : x.id < g.id}
<1>1. \A e \in more : e.id \in Nat /\ e.balanceAfter \in Nat /\ Signed(e) \in Int
  BY DEF WalletLine, Signed
<1>2. \A e \in lines : Before(more, e) = Before(lines, e)
  BY <1>1
<1>3. Before(more, n) = lines /\ After(more, n) = {}
  BY <1>1
<1>4. \A e \in lines : n \in After(more, e)
  OBVIOUS
<1>5. \A e \in more : Before(more, e) = {} => e.balanceAfter = Signed(e)
  <2>1. Before(more, n) = {} => b = 0
    BY <1>3 DEF Chain
  <2> QED
    BY <1>1, <1>2, <2>1 DEF Chain
<1>6. ASSUME NEW e \in more, NEW f \in more, e.id < f.id,
             Before(more, f) \cap After(more, e) = {}
      PROVE  f.balanceAfter = e.balanceAfter + Signed(f)
  <2>1. e \in lines
    BY <1>1, <1>6
  <2>2. CASE f \in lines
    <3>1. Before(lines, f) \cap After(lines, e) = {}
      BY <1>6, <2>2
    <3> QED
      BY <1>6, <2>1, <2>2, <3>1 DEF Chain
  <2>3. CASE f = n
    <3>1. After(lines, e) = {}
      BY <1>3, <1>6, <2>3
    <3>2. b = e.balanceAfter
      BY <2>1, <3>1 DEF Chain
    <3> QED
      BY <2>3, <3>2
  <2> QED
    BY <2>2, <2>3
<1>7. \A e \in more : After(more, e) = {} => n.balanceAfter = e.balanceAfter
  BY <1>4
<1> QED
  BY <1>5, <1>6, <1>7 DEF Chain

LEMMA InitLedgerInv == Init => LedgerInv
<1> SUFFICES ASSUME Init PROVE LedgerInv
  OBVIOUS
<1> DEFINE first(w) == Line(2*w, w, "CREDIT", Opening[w], Opening[w])
           system(w) == Line(2*w + 1, Null, "DEBIT", Opening[w], Null)
<1>1. TypeInv
  BY InitTypeInv
<1>2. LockedRows /\ Pending /\ Quiet
  BY DEF Init, LockedRows, Pending, Quiet
<1>3. \A e \in entries : \E w \in Wallets : Opening[w] > 0 /\ e \in {first(w), system(w)}
  BY DEF Init
<1>4. \A w \in Wallets : Opening[w] > 0 => first(w) \in entries
  BY DEF Init
<1>5. IdsBelow
  <2>1. ASSUME NEW e \in entries PROVE e.id < nextEntryId
    <3>1. PICK w \in Wallets : e \in {first(w), system(w)}
      BY <1>3
    <3>2. w \in Nat /\ 2*w + 1 < FirstEntryId
      OBVIOUS
    <3>3. e.id = 2*w \/ e.id = 2*w + 1
      BY <3>1 DEF Line
    <3> QED
      BY <3>2, <3>3 DEF Init
  <2> QED
    BY <2>1 DEF Init, IdsBelow
<1>6. ASSUME NEW w \in Wallets PROVE Chain(LinesOf(w), balance[w])
  <2>1. \A e \in LinesOf(w) : Opening[w] > 0 /\ e = first(w)
    <3> SUFFICES ASSUME NEW e \in LinesOf(w) PROVE Opening[w] > 0 /\ e = first(w)
      OBVIOUS
    <3>1. PICK v \in Wallets : Opening[v] > 0 /\ e \in {first(v), system(v)}
      BY <1>3 DEF LinesOf
    <3>2. e.wallet = w /\ w # Null
      BY DEF LinesOf
    <3>3. first(v).wallet = v /\ system(v).wallet = Null
      BY DEF Line
    <3> QED
      BY <3>1, <3>2, <3>3
  <2>2. Opening[w] > 0 => first(w) \in LinesOf(w)
    BY <1>4 DEF LinesOf, Line
  <2>3. balance[w] = Opening[w] /\ Opening[w] \in Nat
    BY DEF Init
  <2>4. first(w).id = 2*w /\ first(w).balanceAfter = Opening[w] /\ Signed(first(w)) = Opening[w]
    BY DEF Line, Signed
  <2> HIDE DEF first
  <2>5. CASE Opening[w] > 0
    <3>1. LinesOf(w) = {first(w)}
      BY <2>1, <2>2, <2>5
    <3>2. ~(2*w < 2*w)
      OBVIOUS
    <3> QED
      BY <2>3, <2>4, <3>1, <3>2 DEF Chain
  <2>6. CASE Opening[w] = 0
    <3>1. LinesOf(w) = {}
      BY <2>1, <2>6
    <3> QED
      BY <2>3, <2>6, <3>1 DEF Chain
  <2> QED
    BY <2>3, <2>5, <2>6
<1> QED
  BY <1>1, <1>2, <1>5, <1>6 DEF LedgerInv, LedgerChain

\* Ending without a commit disturbs nobody.
LEMMA RollbackLedgerInv ==
  ASSUME LedgerInv, TypeInv', NEW r \in Requests, Release(r, "rolledback"),
         UNCHANGED <<committed, nextEntryId>>
  PROVE  LedgerInv'
<1> USE DEF LedgerInv, Release, committed, TypeInv, TypeOK
<1>1. \A q \in Requests : q # r => phase'[q] = phase[q] /\ view'[q] = view[q]
                                   /\ posted'[q] = posted[q]
  OBVIOUS
<1>2. posted'[r] = {} /\ \A w \in Wallets : lock'[w] # r
  OBVIOUS
<1>3. \A w \in Wallets, q \in Requests : q # r => (lock'[w] = q <=> lock[w] = q)
  OBVIOUS
<1>4. \A w : LinesOf(w)' = LinesOf(w)
  BY DEF LinesOf
<1> HIDE DEF Release
<1>5. LedgerChain' /\ IdsBelow'
  BY <1>1, <1>2, <1>4 DEF LedgerChain, IdsBelow
<1>6. LockedRows' /\ Quiet'
  BY <1>1, <1>2, <1>3 DEF LockedRows, Quiet
<1>7. Pending'
  <2> SUFFICES ASSUME NEW q \in Requests, NEW e \in posted'[q], e.wallet \in Wallets
               PROVE  PendingLine(q, e)'
    BY DEF Pending
  <2>1. q # r /\ e \in posted[q]
    BY <1>1, <1>2
  <2>2. PendingLine(q, e)
    BY <2>1 DEF Pending
  <2> QED
    BY <1>1, <1>3, <1>4, <2>1, <2>2 DEF PendingLine
<1> QED
  BY <1>5, <1>6, <1>7

LEMMA AcquireLedgerInv ==
  ASSUME LedgerInv, TypeInv', NEW r \in Requests, NEW w \in Wallets, AcquireLock(r, w)
  PROVE  LedgerInv'
<1> DEFINE new == [balance |-> balance[w], status |-> status[w]]
<1> USE DEF LedgerInv, TypeInv, TypeOK
<1>1. /\ lock' = [lock EXCEPT ![w] = r] /\ view' = [view EXCEPT ![r][w] = new]
      /\ phase[r] = "locking" /\ lock[w] = Null
      /\ UNCHANGED <<balance, status, entries, nextEntryId, phase, posted>>
  BY DEF AcquireLock, NextLock, committed
<1>2. /\ view'[r][w] = new
      /\ \A q \in Requests, v \in Wallets : q # r \/ v # w => view'[q][v] = view[q][v]
  BY <1>1
<1>3. \A q \in Requests, v \in Wallets :
        lock'[v] = q => (lock[v] = q /\ v # w) \/ (q = r /\ v = w)
  <2>1. lock'[w] = r /\ \A v \in Wallets : v # w => lock'[v] = lock[v]
    BY <1>1
  <2> QED
    BY <2>1
<1>4. \A v : LinesOf(v)' = LinesOf(v)
  BY <1>1 DEF LinesOf
<1>5. LedgerChain' /\ IdsBelow'
  BY <1>1, <1>4 DEF LedgerChain, IdsBelow
<1>6. LockedRows'
  BY <1>1, <1>2, <1>3 DEF LockedRows
<1>7. Quiet'
  BY <1>1, <1>2, <1>3 DEF Quiet
<1>8. Pending'
  <2> SUFFICES ASSUME NEW q \in Requests, NEW e \in posted[q], e.wallet \in Wallets
               PROVE  PendingLine(q, e)'
    BY <1>1 DEF Pending
  <2>1. PendingLine(q, e)
    BY DEF Pending
  <2>2. e.wallet # w
    BY <1>1, <2>1 DEF PendingLine
  <2>3. view'[q][e.wallet] = view[q][e.wallet] /\ lock'[e.wallet] = lock[e.wallet]
    BY <1>1, <1>2, <2>2
  <2> QED
    BY <1>1, <1>4, <2>1, <2>3 DEF PendingLine
<1> QED
  BY <1>5, <1>6, <1>7, <1>8

LEMMA UpdateStatusLedgerInv ==
  ASSUME LedgerInv, TypeInv', NEW r \in Requests, UpdateStatus(r)
  PROVE  LedgerInv'
<1> USE DEF LedgerInv, TypeInv, TypeOK
<1>1. /\ phase[r] = "locking" /\ phase' = [phase EXCEPT ![r] = "written"]
      /\ UNCHANGED <<balance, status, entries, nextEntryId, lock, posted>>
      /\ posted[r] = {}
  BY DEF UpdateStatus, Cleared, committed, Shape
<1>2. /\ \A q \in Requests, v \in Wallets : view'[q][v].balance = view[q][v].balance
      /\ \A q \in Requests : q # r => view'[q] = view[q]
  <2>1. \/ view' = view
        \/ view' = [view EXCEPT ![r][call[r].wallet].status = call[r].status]
    BY DEF UpdateStatus
  <2>2. ASSUME view' = [view EXCEPT ![r][call[r].wallet].status = call[r].status],
               NEW v \in Wallets
        PROVE  view'[r][v].balance = view[r][v].balance
    <3>1. CASE v = call[r].wallet
      <4>1. view[r][v] \in Row
        BY <3>1, CallFields
        DEF UpdateStatus, Cleared, Held, Needs, Shape, Open, IsMoney, MoneyOps
      <4> QED
        BY <2>2, <3>1, <4>1 DEF Row
    <3>2. CASE v # call[r].wallet
      BY <2>2, <3>2
    <3> QED
      BY <3>1, <3>2
  <2> QED
    BY <2>1, <2>2
<1>3. \A v : LinesOf(v)' = LinesOf(v)
  BY <1>1 DEF LinesOf
<1>4. LedgerChain' /\ IdsBelow'
  BY <1>1, <1>3 DEF LedgerChain, IdsBelow
<1>5. LockedRows'
  BY <1>1, <1>2 DEF LockedRows
<1>6. Quiet'
  <2> SUFFICES ASSUME NEW q \in Requests, NEW w \in Wallets, lock[w] = q,
                      \A e \in posted[q] : e.wallet # w
               PROVE  view'[q][w].balance = balance[w]
    BY <1>1 DEF Quiet
  <2>1. view[q][w].balance = balance[w]
    BY DEF Quiet
  <2> QED
    BY <1>2, <2>1
<1>7. Pending'
  <2> SUFFICES ASSUME NEW q \in Requests, NEW e \in posted[q], e.wallet \in Wallets
               PROVE  PendingLine(q, e)'
    BY <1>1 DEF Pending
  <2>1. PendingLine(q, e)
    BY DEF Pending
  <2>2. view'[q][e.wallet].balance = view[q][e.wallet].balance
    BY <1>2
  <2> QED
    BY <1>1, <1>3, <2>1, <2>2 DEF PendingLine
<1> QED
  BY <1>4, <1>5, <1>6, <1>7

LEMMA PostLedgerInv ==
  ASSUME LedgerInv, TypeInv', NEW r \in Requests, Post(r)
  PROVE  LedgerInv'
<1>1. PICK m \in WalletLine, t \in WalletLine \cup SystemLine :
        /\ posted' = [posted EXCEPT ![r] = {m, t}]
        /\ m.id = nextEntryId /\ t.id = nextEntryId + 1
        /\ m.wallet # t.wallet
        /\ {m.wallet, t.wallet} \cap Wallets = Needs(call[r])
        /\ \A l \in {m, t} : l.wallet \in Wallets =>
             /\ l.balanceAfter = NewBalance(r, l.wallet)
             /\ NewBalance(r, l.wallet) = view[r][l.wallet].balance + Signed(l)
  BY PostedLines DEF LedgerInv
<1>2. \A w \in Needs(call[r]) : lock[w] = r /\ view[r][w].status = "active" /\ w \in Wallets
  BY ClearedMoney DEF Post, LedgerInv
<1> USE DEF LedgerInv, TypeInv, TypeOK
<1>3. /\ phase[r] = "locking" /\ phase' = [phase EXCEPT ![r] = "written"]
      /\ nextEntryId' = nextEntryId + 2 /\ nextEntryId \in Nat
      /\ UNCHANGED <<balance, status, entries, lock>>
      /\ \A q \in Requests : q # r => view'[q] = view[q] /\ posted'[q] = posted[q]
      /\ \A w \in Wallets : view'[r][w].balance =
           IF w \in Needs(call[r]) THEN NewBalance(r, w) ELSE view[r][w].balance
      /\ Held(r) = Needs(call[r])
  BY <1>1 DEF Post, Cleared, committed
<1>4. \A v : LinesOf(v)' = LinesOf(v)
  BY <1>3 DEF LinesOf
<1>5. posted'[r] = {m, t} /\ \A q \in Requests : \A e \in posted[q] : e.id \in Nat
  BY <1>1 DEF WalletLine, SystemLine
<1>6. LedgerChain'
  BY <1>3, <1>4 DEF LedgerChain
<1>7. IdsBelow'
  <2>1. \A e \in entries : e.id \in Nat
    BY DEF WalletLine, SystemLine
  <2> QED
    BY <1>1, <1>3, <1>5, <2>1 DEF IdsBelow
<1>8. LockedRows'
  BY <1>3 DEF LockedRows
<1>9. Quiet'
  <2> SUFFICES ASSUME NEW q \in Requests, NEW w \in Wallets, lock[w] = q,
                      \A e \in posted'[q] : e.wallet # w
               PROVE  view'[q][w].balance = balance[w]
    BY <1>3 DEF Quiet
  <2>1. CASE q = r
    <3>1. w \in Needs(call[r])
      BY <1>3, <2>1 DEF Held
    <3> QED
      BY <1>1, <1>5, <2>1, <3>1
  <2>2. CASE q # r
    BY <1>3, <2>2 DEF Quiet
  <2> QED
    BY <2>1, <2>2
<1>10. Pending'
  <2>1. ASSUME NEW e \in {m, t}, e.wallet \in Wallets
        PROVE  /\ lock[e.wallet] = r /\ status[e.wallet] = "active"
               /\ view'[r][e.wallet].balance = e.balanceAfter
               /\ e.balanceAfter = balance[e.wallet] + Signed(e)
               /\ \A f \in LinesOf(e.wallet) : f.id < e.id
               /\ \A f \in {m, t} : f.wallet = e.wallet => f = e
    <3>1. e.wallet \in Needs(call[r])
      BY <1>1, <2>1
    <3>2. view[r][e.wallet].balance = balance[e.wallet]
          /\ view[r][e.wallet].status = status[e.wallet]
      <4>1. LockedRows /\ phase[r] = "locking"
        BY <1>3
      <4>2. lock[e.wallet] = r /\ e.wallet \in Wallets
        BY <1>2, <3>1
      <4> HIDE DEF LedgerInv, TypeInv, TypeOK
      <4> QED
        BY <4>1, <4>2 DEF LockedRows
    <3>3. \A f \in LinesOf(e.wallet) : f.id < e.id
      <4>1. \A f \in LinesOf(e.wallet) : f.id \in Nat /\ f.id < nextEntryId
        BY DEF LinesOf, IdsBelow, WalletLine, SystemLine
      <4> QED
        BY <1>1, <1>3, <4>1
    <3>4. lock[e.wallet] = r /\ status[e.wallet] = "active"
      BY <1>2, <3>1, <3>2
    <3>5. view'[r][e.wallet].balance = e.balanceAfter
      BY <1>1, <1>3, <2>1, <3>1
    <3>6. e.balanceAfter = balance[e.wallet] + Signed(e)
      BY <1>1, <2>1, <3>2
    <3>7. \A f \in {m, t} : f.wallet = e.wallet => f = e
      BY <1>1
    <3> QED
      BY <3>3, <3>4, <3>5, <3>6, <3>7
  <2>2. \A q \in Requests : q # r => posted'[q] = posted[q] /\ view'[q] = view[q]
    BY <1>3
  <2> SUFFICES ASSUME NEW q \in Requests, NEW e \in posted'[q], e.wallet \in Wallets
               PROVE  PendingLine(q, e)'
    BY DEF Pending
  <2>3. CASE q = r
    BY <1>3, <1>4, <1>5, <2>1, <2>3 DEF PendingLine
  <2>4. CASE q # r
    <3>1. PendingLine(q, e)
      BY <2>2, <2>4 DEF Pending
    <3> QED
      BY <1>3, <1>4, <2>2, <2>4, <3>1 DEF PendingLine
  <2> QED
    BY <2>3, <2>4
<1> QED
  BY <1>6, <1>7, <1>8, <1>9, <1>10

\* A committed line ends the chain of its wallet; a wallet without one keeps its
\* lines and its balance.
LEMMA CommitChains ==
  ASSUME LedgerInv, NEW r \in Requests, Commit(r), NEW w \in Wallets
  PROVE  \/ /\ LinesOf(w)' = LinesOf(w) /\ balance'[w] = balance[w]
            /\ \A e \in posted[r] : e.wallet # w
         \/ \E n \in posted[r] :
              /\ n.wallet = w /\ lock[w] = r /\ n \in WalletLine
              /\ LinesOf(w)' = LinesOf(w) \cup {n}
              /\ balance'[w] = n.balanceAfter
              /\ n.balanceAfter = balance[w] + Signed(n)
              /\ status[w] = "active"
              /\ \A e \in LinesOf(w) : e.id < n.id
<1>1. /\ balance'[w] = IF lock[w] = r THEN view[r][w].balance ELSE balance[w]
      /\ entries' = entries \cup posted[r]
  BY DEF Commit
<1>2. CASE \A e \in posted[r] : e.wallet # w
  <2>1. LinesOf(w)' = LinesOf(w)
    BY <1>1, <1>2 DEF LinesOf
  <2>2. balance'[w] = balance[w]
    BY <1>1, <1>2 DEF LedgerInv, Quiet
  <2> QED
    BY <1>2, <2>1, <2>2
<1>3. ASSUME NEW n \in posted[r], n.wallet = w
      PROVE  /\ lock[w] = r /\ n \in WalletLine
             /\ LinesOf(w)' = LinesOf(w) \cup {n}
             /\ balance'[w] = n.balanceAfter
             /\ n.balanceAfter = balance[w] + Signed(n)
             /\ status[w] = "active"
             /\ \A e \in LinesOf(w) : e.id < n.id
  <2>1. PendingLine(r, n)
    BY <1>3 DEF LedgerInv, Pending
  <2>2. n \in WalletLine
    BY <1>3 DEF LedgerInv, TypeInv, TypeOK, SystemLine
  <2>3. \A e \in posted[r] : e.wallet = w => e = n
    BY <1>3, <2>1 DEF PendingLine
  <2>4. LinesOf(w)' = LinesOf(w) \cup {n}
    BY <1>1, <1>3, <2>3 DEF LinesOf
  <2> QED
    BY <1>1, <1>3, <2>1, <2>2, <2>4 DEF PendingLine
<1> QED
  BY <1>2, <1>3

LEMMA CommitLedgerInv ==
  ASSUME LedgerInv, TypeInv', NEW r \in Requests, Commit(r)
  PROVE  LedgerInv'
<1>1. /\ balance' = [w \in Wallets |-> IF lock[w] = r THEN view[r][w].balance ELSE balance[w]]
      /\ status' = [w \in Wallets |-> IF lock[w] = r THEN view[r][w].status ELSE status[w]]
      /\ entries' = entries \cup posted[r] /\ nextEntryId' = nextEntryId
      /\ lock' = [w \in Wallets |-> IF lock[w] = r THEN Null ELSE lock[w]]
      /\ posted'[r] = {} /\ phase'[r] = "committed"
      /\ \A q \in Requests : q # r =>
           phase'[q] = phase[q] /\ view'[q] = view[q] /\ posted'[q] = posted[q]
  BY DEF Commit, Release, LedgerInv, TypeInv, TypeOK
<1>2. \A w \in Wallets, q \in Requests : lock'[w] = q =>
        /\ q # r /\ lock[w] = q
        /\ balance'[w] = balance[w] /\ status'[w] = status[w]
  BY <1>1
<1>3. \A w \in Wallets : lock[w] # r => LinesOf(w)' = LinesOf(w)
  BY CommitChains
<1>4. LedgerChain'
  <2> SUFFICES ASSUME NEW w \in Wallets PROVE Chain(LinesOf(w)', balance'[w])
    BY DEF LedgerChain
  <2>1. Chain(LinesOf(w), balance[w])
    BY DEF LedgerInv, LedgerChain
  <2>2. ASSUME NEW n \in WalletLine,
               LinesOf(w)' = LinesOf(w) \cup {n}, balance'[w] = n.balanceAfter,
               n.balanceAfter = balance[w] + Signed(n), \A e \in LinesOf(w) : e.id < n.id
        PROVE  Chain(LinesOf(w)', balance'[w])
    <3>1. LinesOf(w) \in SUBSET WalletLine /\ balance[w] \in Nat
      BY DEF LedgerInv, TypeInv, TypeOK, LinesOf, SystemLine
    <3> QED
      BY <2>1, <2>2, <3>1, ChainGrows
  <2> QED
    BY <2>1, <2>2, CommitChains
<1>5. LockedRows'
  BY <1>1, <1>2 DEF LedgerInv, LockedRows
<1>6. Quiet'
  BY <1>1, <1>2 DEF LedgerInv, Quiet
<1>7. IdsBelow'
  BY <1>1 DEF LedgerInv, IdsBelow
<1>8. Pending'
  <2> SUFFICES ASSUME NEW q \in Requests, NEW e \in posted'[q], e.wallet \in Wallets
               PROVE  PendingLine(q, e)'
    BY DEF Pending
  <2>1. q # r /\ e \in posted[q]
    BY <1>1
  <2>2. PendingLine(q, e)
    BY <2>1 DEF LedgerInv, Pending
  <2>3. lock[e.wallet] = q
    BY <2>2 DEF PendingLine
  <2>4. lock'[e.wallet] = q
    BY <1>1, <2>1, <2>3
  <2>5. LinesOf(e.wallet)' = LinesOf(e.wallet)
    BY <1>3, <2>1, <2>3
  <2>6. balance'[e.wallet] = balance[e.wallet] /\ status'[e.wallet] = status[e.wallet]
    BY <1>2, <2>4
  <2>7. view'[q] = view[q] /\ posted'[q] = posted[q]
    BY <1>1, <2>1
  <2> QED
    BY <2>2, <2>4, <2>5, <2>6, <2>7 DEF PendingLine
<1> QED
  BY <1>4, <1>5, <1>6, <1>7, <1>8 DEF LedgerInv

LEMMA StepLedgerInv == LedgerInv /\ [Next]_vars => LedgerInv'
<1> SUFFICES ASSUME LedgerInv, [Next]_vars PROVE LedgerInv'
  OBVIOUS
<1>0. TypeInv'
  BY StepTypeInv DEF LedgerInv
<1>1. ASSUME NEW r \in Requests, NEW c \in Calls, Begin(r, c) PROVE LedgerInv'
  <2>1. /\ UNCHANGED <<balance, status, entries, nextEntryId, lock, view, posted>>
        /\ \A w \in Wallets : lock[w] # r
        /\ \A q \in Requests : q # r => phase'[q] = phase[q]
    BY <1>1 DEF Begin, committed, LedgerInv, TypeInv, TypeOK, Shape, Open
  <2>2. \A w : LinesOf(w)' = LinesOf(w)
    BY <2>1 DEF LinesOf
  <2>3. LockedRows'
    <3> SUFFICES ASSUME NEW q \in Requests, NEW w \in Wallets,
                        lock'[w] = q, phase'[q] = "locking"
                 PROVE  view'[q][w].balance = balance'[w] /\ view'[q][w].status = status'[w]
      BY DEF LockedRows
    <3>1. q # r /\ lock[w] = q /\ phase[q] = "locking"
      BY <2>1
    <3> QED
      BY <2>1, <3>1 DEF LedgerInv, LockedRows
  <2>4. IdsBelow' /\ LedgerChain'
    BY <2>1, <2>2 DEF LedgerInv, IdsBelow, LedgerChain
  <2>5. Pending'
    BY <2>1, <2>2 DEF LedgerInv, Pending, PendingLine
  <2>6. Quiet'
    BY <2>1 DEF LedgerInv, Quiet
  <2> QED
    BY <1>0, <2>3, <2>4, <2>5, <2>6 DEF LedgerInv
<1>2. ASSUME NEW r \in Requests, Refuse(r) \/ Abort(r) PROVE LedgerInv'
  BY <1>0, <1>2, RollbackLedgerInv DEF Refuse, Abort
<1>3. CASE UNCHANGED vars
  <2>1. \A w : LinesOf(w)' = LinesOf(w)
    BY <1>3 DEF LinesOf, vars
  <2> QED
    BY <1>0, <1>3, <2>1
    DEF vars, LedgerInv, LockedRows, Pending, PendingLine, Quiet, IdsBelow, LedgerChain
<1> QED
  BY <1>0, <1>1, <1>2, <1>3, AcquireLedgerInv, UpdateStatusLedgerInv, PostLedgerInv,
     CommitLedgerInv DEF Next, Step

\* The lines of every wallet chain to its balance in every reachable state.
THEOREM LedgerIsSound == Spec => []LedgerChain
<1>1. LedgerInv => LedgerChain
  BY DEF LedgerInv
<1> QED
  BY InitLedgerInv, StepLedgerInv, <1>1, PTL DEF Spec

LEMMA LedgerInvariance == Spec => []LedgerInv
BY InitLedgerInv, StepLedgerInv, PTL DEF Spec

\* Only a commit changes committed rows and lines.
LEMMA OnlyCommitWrites ==
  ASSUME [Next]_vars
  PROVE  UNCHANGED <<balance, entries>> \/ \E r \in Requests : Commit(r)
BY DEF Next, Step, Begin, AcquireLock, Refuse, Post, UpdateStatus, Abort, committed, vars

LEMMA NewerLines ==
  LedgerInv /\ [Next]_vars =>
    \A w \in Wallets : \A f \in LinesOf(w), e \in entries' \ entries :
      e.wallet = w => f.id < e.id
<1> SUFFICES ASSUME LedgerInv, [Next]_vars, NEW w \in Wallets, NEW f \in LinesOf(w),
                    NEW e \in entries' \ entries, e.wallet = w
             PROVE  f.id < e.id
  OBVIOUS
<1>1. PICK r \in Requests : Commit(r)
  BY OnlyCommitWrites
<1>2. e \in posted[r]
  BY <1>1 DEF Commit
<1> QED
  BY <1>2 DEF LedgerInv, Pending, PendingLine

\* A line becomes visible after every line of its wallet with a smaller id: its id
\* was drawn under the wallet's lock, and nobody else posts there until it commits.
THEOREM StatementsAppend == Spec => StatementAppends
<1>1. LedgerInv /\ [Next]_vars =>
        [\A w \in Wallets : \A f \in LinesOf(w), e \in entries' \ entries :
           e.wallet = w => f.id < e.id]_vars
  BY NewerLines
<1> QED
  BY InitLedgerInv, StepLedgerInv, <1>1, PTL DEF Spec, StatementAppends

\* A frozen wallet's balance never moves, whatever was under way when it froze.
THEOREM FrozenIsFrozen == Spec => FrozenMovesNothing
<1>1. LedgerInv /\ [Next]_vars =>
        [\A w \in Wallets : status[w] = "frozen" => balance'[w] = balance[w]]_vars
  <2> SUFFICES ASSUME LedgerInv, [Next]_vars, NEW w \in Wallets, status[w] = "frozen"
               PROVE  balance'[w] = balance[w]
    OBVIOUS
  <2>1. ASSUME NEW r \in Requests, Commit(r) PROVE balance'[w] = balance[w]
    BY <2>1, CommitChains
  <2> QED
    BY <2>1, OnlyCommitWrites
<1> QED
  BY InitLedgerInv, StepLedgerInv, <1>1, PTL DEF Spec, FrozenMovesNothing

-----------------------------------------------------------------------------
(* Numbers.                                                                *)

Bound(w) == Opening[w] + MaxAmount * Postings

\* A posting raises the bound by the cap of one request.
LEMMA OneMorePosting ==
  ASSUME NEW n \in Nat, nextEntryId \in Nat, nextEntryId' = nextEntryId + 2,
         NEW w \in Wallets
  PROVE  Bound(w)' = Bound(w) + MaxAmount /\ Bound(w) \in Int
<1>1. Postings \in Int /\ Postings' = Postings + 1
  BY DEF Postings
<1>2. ASSUME NEW p \in Int PROVE MaxAmount * (p + 1) = MaxAmount * p + MaxAmount
  OBVIOUS
<1>3. MaxAmount * Postings \in Int
  BY <1>1
<1>4. MaxAmount * Postings' = MaxAmount * Postings + MaxAmount
  BY <1>1, <1>2
<1> QED
  BY <1>1, <1>3, <1>4 DEF Bound

SafeInv ==
  /\ TypeInv
  /\ \A w \in Wallets : balance[w] <= Bound(w)
  /\ \A w \in Wallets, r \in Requests : lock[w] = r => view[r][w].balance <= Bound(w)

\* A transaction that ends keeps no lock, and nobody else's lock or view changes.
LEMMA ReleasedViews ==
  ASSUME TypeInv, NEW r \in Requests, NEW x, Release(r, x),
         NEW w \in Wallets, NEW q \in Requests, lock'[w] = q
  PROVE  lock[w] = q /\ view'[q][w] = view[q][w]
<1>1. q # r /\ lock[w] = q
  BY DEF Release
<1> QED
  BY <1>1 DEF Release, TypeInv, TypeOK

LEMMA PostSafeInv ==
  ASSUME SafeInv, TypeInv', NEW r \in Requests, Post(r)
  PROVE  SafeInv'
<1> DEFINE c == call[r]
<1>1. nextEntryId \in Nat /\ nextEntryId' = nextEntryId + 2
      /\ UNCHANGED <<balance, lock>>
  BY DEF Post, SafeInv, TypeInv, TypeOK, committed
<1>2. \A w \in Wallets : Bound(w)' = Bound(w) + MaxAmount /\ Bound(w) \in Int
  BY <1>1, OneMorePosting
<1>3. \A w \in Wallets : balance'[w] <= Bound(w)'
  BY <1>1, <1>2 DEF SafeInv, TypeInv, TypeOK
<1>4. ASSUME NEW w \in Wallets, NEW q \in Requests, lock'[w] = q
      PROVE  view'[q][w].balance <= Bound(w)'
  <2>1. lock[w] = q /\ view[q][w] \in Row /\ view[q][w].balance <= Bound(w)
    BY <1>1, <1>4 DEF SafeInv, TypeInv, Shape
  <2>2. CASE q = r /\ w \in Needs(c)
    <3>1. /\ c.amount \in Nat /\ c.amount <= MaxAmount
          /\ NewBalance(r, w) \in {view[r][w].balance - c.amount, view[r][w].balance + c.amount}
      BY <2>2, ClearedMoney, CallFields DEF Post, SafeInv
    <3>2. view'[r][w].balance = NewBalance(r, w)
      BY <2>2, <2>1 DEF Post, SafeInv, TypeInv, TypeOK
    <3> QED
      BY <2>1, <2>2, <3>1, <3>2, <1>2 DEF Row
  <2>3. CASE q # r \/ w \notin Needs(c)
    <3>1. view'[q][w] = view[q][w]
      BY <2>3 DEF Post, SafeInv, TypeInv, TypeOK
    <3>2. Bound(w)' = Bound(w) + MaxAmount /\ Bound(w) \in Int /\ MaxAmount \in Nat
      BY <1>2
    <3>3. view[q][w].balance \in Nat
      BY <2>1 DEF Row
    <3> QED
      BY <2>1, <3>1, <3>2, <3>3
  <2> QED
    BY <2>2, <2>3
<1> QED
  BY <1>3, <1>4 DEF SafeInv

LEMMA StepSafeInv == SafeInv /\ [Next]_vars => SafeInv'
<1> SUFFICES ASSUME SafeInv, [Next]_vars PROVE SafeInv'
  OBVIOUS
<1>0. TypeInv /\ TypeInv'
  BY StepTypeInv DEF SafeInv
<1>a. ASSUME UNCHANGED nextEntryId PROVE \A w \in Wallets : Bound(w)' = Bound(w)
  BY <1>a DEF Bound, Postings
<1>1. ASSUME NEW r \in Requests, NEW c \in Calls, Begin(r, c) PROVE SafeInv'
  BY <1>0, <1>1, <1>a DEF Begin, committed, SafeInv
<1>2. ASSUME NEW r \in Requests, NEW w \in Wallets, AcquireLock(r, w) PROVE SafeInv'
  <2>1. /\ UNCHANGED <<balance, nextEntryId>>
        /\ lock' = [lock EXCEPT ![w] = r]
        /\ view' = [view EXCEPT ![r][w] = [balance |-> balance[w], status |-> status[w]]]
    BY <1>2 DEF AcquireLock, committed
  <2>2. ASSUME NEW v \in Wallets, NEW q \in Requests, lock'[v] = q
        PROVE  view'[q][v].balance <= Bound(v)
    <3>1. CASE v = w
      BY <2>1, <2>2, <3>1, <1>0 DEF SafeInv, TypeInv, TypeOK
    <3>2. CASE v # w
      BY <2>1, <2>2, <3>2, <1>0 DEF SafeInv, TypeInv, TypeOK
    <3> QED
      BY <3>1, <3>2
  <2> QED
    BY <1>0, <1>a, <2>1, <2>2 DEF SafeInv
<1>3. ASSUME NEW r \in Requests, Refuse(r) \/ Abort(r) PROVE SafeInv'
  <2>1. Release(r, "rolledback") /\ UNCHANGED <<balance, nextEntryId>>
    BY <1>3 DEF Refuse, Abort, committed
  <2>2. ASSUME NEW w \in Wallets, NEW q \in Requests, lock'[w] = q
        PROVE  view'[q][w].balance <= Bound(w)
    <3>1. lock[w] = q /\ view'[q][w] = view[q][w]
      BY <1>0, <2>1, <2>2, ReleasedViews
    <3> QED
      BY <3>1 DEF SafeInv
  <2> QED
    BY <1>0, <1>a, <2>1, <2>2 DEF SafeInv
<1>4. ASSUME NEW r \in Requests, Post(r) PROVE SafeInv'
  BY <1>0, <1>4, PostSafeInv
<1>5. ASSUME NEW r \in Requests, UpdateStatus(r) PROVE SafeInv'
  <2>1. UNCHANGED <<balance, nextEntryId, lock>>
    BY <1>5 DEF UpdateStatus, committed
  <2>2. ASSUME NEW w \in Wallets, NEW q \in Requests, lock[w] = q
        PROVE  view'[q][w].balance = view[q][w].balance
    <3>1. view[q][w] \in Row
      BY <1>0, <2>2 DEF TypeInv, Shape
    <3>2. CASE view' = view
      BY <3>2
    <3>3. CASE view' = [view EXCEPT ![r][call[r].wallet].status = call[r].status]
      BY <1>0, <3>1, <3>3 DEF TypeInv, TypeOK, Row
    <3> QED
      BY <1>5, <3>2, <3>3 DEF UpdateStatus
  <2> QED
    BY <1>0, <1>a, <2>1, <2>2 DEF SafeInv
<1>6. ASSUME NEW r \in Requests, Commit(r) PROVE SafeInv'
  <2>1. Release(r, "committed") /\ UNCHANGED nextEntryId
        /\ \A w \in Wallets : balance'[w] = IF lock[w] = r THEN view[r][w].balance ELSE balance[w]
    BY <1>6 DEF Commit
  <2>2. \A w \in Wallets : balance'[w] <= Bound(w)
    BY <2>1 DEF SafeInv
  <2>3. ASSUME NEW w \in Wallets, NEW q \in Requests, lock'[w] = q
        PROVE  view'[q][w].balance <= Bound(w)
    <3>1. lock[w] = q /\ view'[q][w] = view[q][w]
      BY <1>0, <2>1, <2>3, ReleasedViews
    <3> QED
      BY <3>1 DEF SafeInv
  <2> QED
    BY <1>0, <1>a, <2>1, <2>2, <2>3 DEF SafeInv
<1>7. CASE UNCHANGED vars
  BY <1>0, <1>7, <1>a DEF vars, SafeInv
<1> QED
  BY <1>1, <1>2, <1>3, <1>4, <1>5, <1>6, <1>7 DEF Next, Step

\* The numbers the services compute stay within the cap of one request times
\* the postings made, so they are exact until that product reaches 2^53.
THEOREM NumbersAreSafe == Spec => []BalancesStaySafe
<1>1. Init => SafeInv
  <2> SUFFICES ASSUME Init PROVE SafeInv
    OBVIOUS
  <2>1. Postings = 0
    BY DEF Init, Postings
  <2>2. \A w \in Wallets : Bound(w) = Opening[w]
    <3>1. MaxAmount * Postings = 0
      <4>1. MaxAmount * 0 = 0
        BY WalletsAssumption
      <4> QED
        BY <2>1, <4>1
    <3>2. ASSUME NEW w \in Wallets PROVE Opening[w] + 0 = Opening[w]
      <4>1. Opening[w] \in Nat
        BY WalletsAssumption
      <4>2. \A n \in Nat : n + 0 = n
        OBVIOUS
      <4> QED
        BY <4>1, <4>2
    <3> QED
      BY <3>1, <3>2 DEF Bound
  <2>3. \A w \in Wallets, r \in Requests : lock[w] # r
    BY DEF Init
  <2> QED
    BY <2>2, <2>3, InitTypeInv DEF SafeInv, Init
<1>2. SafeInv => BalancesStaySafe
  BY DEF SafeInv, BalancesStaySafe, Bound
<1> QED
  BY <1>1, <1>2, StepSafeInv, PTL DEF Spec

-----------------------------------------------------------------------------
(* The audit rows.                                                         *)

\* What a transaction that has written will append to the audit rows of a wallet
\* it has locked is the difference it makes to the status, if any.
Difference(r, w) ==
  \/ noted[r] = <<>> /\ view[r][w].status = status[w]
  \/ /\ w = call[r].wallet
     /\ noted[r] = <<[from |-> status[w], to |-> view[r][w].status]>>

Noting ==
  \A r \in Requests :
    /\ \A w \in Wallets : lock[w] = r /\ phase[r] = "written" => Difference(r, w)
    /\ noted[r] # <<>> => \E w \in Wallets : lock[w] = r /\ w = call[r].wallet

AuditInv == LedgerInv /\ Noting /\ AuditReplaysStatus

\* One more row, from the present status to another, replays to the other.
LEMMA ReplayExtended ==
  ASSUME NEW Rows, NEW a \in Seq(Rows), NEW c \in Rows, Replay(a, c.from)
  PROVE  Replay(a \o <<c>>, c.to)
<1> DEFINE b == a \o <<c>>
<1>1. /\ Len(b) = Len(a) + 1 /\ Len(a) \in Nat
      /\ b[Len(a) + 1] = c
      /\ \A i \in 1 .. Len(a) : b[i] = a[i]
  OBVIOUS
<1>2. b # <<>> /\ (a = <<>> <=> Len(a) = 0)
  BY <1>1
<1> HIDE DEF b
<1>3. ASSUME NEW i \in 1 .. Len(b) - 1 PROVE b[i].to = b[i + 1].from
  <2>1. CASE i = Len(a)
    BY <2>1, <1>1, <1>2 DEF Replay
  <2>2. CASE i < Len(a)
    <3>1. i \in 1 .. Len(a) - 1 /\ i + 1 \in 1 .. Len(a)
      BY <2>2, <1>1
    <3> QED
      BY <3>1, <1>1 DEF Replay
  <2> QED
    BY <2>1, <2>2, <1>1
<1>4. b[1].from = "active"
  <2>1. CASE a = <<>>
    BY <2>1, <1>1, <1>2 DEF Replay
  <2>2. CASE a # <<>>
    <3>1. 1 \in 1 .. Len(a)
      BY <2>2, <1>1, <1>2
    <3> QED
      BY <3>1, <2>2, <1>1 DEF Replay
  <2> QED
    BY <2>1, <2>2
<1>5. c.to = IF b = <<>> THEN "active" ELSE b[Len(b)].to
  BY <1>1, <1>2
<1>6. Replay(b, c.to)
  BY <1>3, <1>4, <1>5 DEF Replay
<1> QED
  BY <1>6 DEF b

\* The end of a transaction keeps what the others will append.
LEMMA ReleaseNoting ==
  ASSUME AuditInv, NEW r \in Requests, NEW x \in {"committed", "rolledback"}, Release(r, x),
         \A w \in Wallets : lock[w] # r => status'[w] = status[w]
  PROVE  Noting'
<1>1. \A q \in Requests : q # r => /\ phase'[q] = phase[q] /\ call'[q] = call[q]
                                   /\ view'[q] = view[q] /\ noted'[q] = noted[q]
  BY DEF Release, AuditInv, LedgerInv, TypeInv, TypeOK
<1>2. phase'[r] = x /\ noted'[r] = <<>>
  BY DEF Release, AuditInv, LedgerInv, TypeInv, TypeOK
<1>3. \A w \in Wallets, q \in Requests : q # r => (lock'[w] = q <=> lock[w] = q)
  BY DEF Release
<1>4. \A w \in Wallets : lock'[w] # r
  BY DEF Release
<1> QED
  BY <1>1, <1>2, <1>3, <1>4 DEF AuditInv, Noting, Difference

LEMMA CommitAuditInv ==
  ASSUME AuditInv, LedgerInv', NEW r \in Requests, Commit(r)
  PROVE  AuditInv'
<1> DEFINE c == call[r]
<1>1. /\ phase[r] = "written"
      /\ status' = [w \in Wallets |-> IF lock[w] = r THEN view[r][w].status ELSE status[w]]
      /\ audit' = [w \in Wallets |-> IF w = c.wallet THEN audit[w] \o noted[r] ELSE audit[w]]
      /\ Release(r, "committed")
  BY DEF Commit
<1>2. Noting'
  BY <1>1, ReleaseNoting
<1>3. ASSUME NEW w \in Wallets PROVE Replay(audit'[w], status'[w])
  <2>1. Replay(audit[w], status[w]) /\ audit[w] \in Seq(Change) /\ noted[r] \in Seq(Change)
    BY DEF AuditInv, AuditReplaysStatus, LedgerInv, TypeInv, TypeOK
  <2>2. CASE noted[r] = <<>> \/ w # c.wallet
    <3>1. audit'[w] = audit[w]
      <4>1. audit'[w] = audit[w] \/ (noted[r] = <<>> /\ audit'[w] = audit[w] \o noted[r])
        BY <1>1, <2>2
      <4>2. \A s \in Seq(Change) : s \o <<>> = s
        OBVIOUS
      <4> QED
        BY <2>1, <4>1, <4>2
    <3>2. lock[w] = r => view[r][w].status = status[w]
      <4>1. lock[w] = r => Difference(r, w)
        BY <1>1 DEF AuditInv, Noting
      <4>2. \A a, b : <<[from |-> a, to |-> b]>> # <<>>
        OBVIOUS
      <4> QED
        BY <2>2, <4>1, <4>2 DEF Difference
    <3>3. status'[w] = status[w]
      BY <1>1, <3>2
    <3> QED
      BY <2>1, <3>1, <3>3
  <2>3. CASE noted[r] # <<>> /\ w = c.wallet
    <3> DEFINE row == [from |-> status[w], to |-> view[r][w].status]
    <3>1. lock[w] = r /\ noted[r] = <<row>>
      BY <1>1, <2>3 DEF AuditInv, Noting, Difference
    <3>2. row \in Change
      <4>1. noted[r][1] \in Change
        BY <2>1, <3>1
      <4> QED
        BY <3>1, <4>1
    <3>3. row.from = status[w] /\ row.to = status'[w]
      BY <1>1, <3>1
    <3>4. audit'[w] = audit[w] \o <<row>>
      BY <1>1, <2>3, <3>1
    <3> HIDE DEF row
    <3> QED
      BY <2>1, <3>2, <3>3, <3>4, ReplayExtended
  <2> QED
    BY <2>2, <2>3
<1> QED
  BY <1>2, <1>3 DEF AuditInv, AuditReplaysStatus

LEMMA StepAuditInv == AuditInv /\ [Next]_vars => AuditInv'
<1> SUFFICES ASSUME AuditInv, [Next]_vars PROVE AuditInv'
  OBVIOUS
<1>0. TypeInv /\ LedgerInv'
  BY StepLedgerInv DEF AuditInv, LedgerInv
<1>a. ASSUME UNCHANGED <<status, audit>> PROVE AuditReplaysStatus'
  BY <1>a DEF AuditInv, AuditReplaysStatus
<1>1. ASSUME NEW r \in Requests, NEW c \in Calls, Begin(r, c) PROVE AuditInv'
  <2>1. /\ UNCHANGED <<status, audit, lock, view, noted>>
        /\ noted[r] = <<>>
        /\ \A w \in Wallets : lock[w] # r
        /\ \A q \in Requests : q # r => phase'[q] = phase[q] /\ call'[q] = call[q]
    BY <1>0, <1>1 DEF Begin, committed, TypeInv, TypeOK, Shape, Open
  <2>2. Noting'
    BY <2>1 DEF AuditInv, Noting, Difference
  <2> QED
    BY <1>0, <1>a, <2>1, <2>2 DEF AuditInv
<1>2. ASSUME NEW r \in Requests, NEW w \in Wallets, AcquireLock(r, w) PROVE AuditInv'
  <2>1. /\ phase[r] = "locking" /\ lock[w] = Null
        /\ lock' = [lock EXCEPT ![w] = r]
        /\ \A q \in Requests : q # r => view'[q] = view[q]
        /\ UNCHANGED <<status, audit, phase, call, noted>>
    BY <1>0, <1>2 DEF AcquireLock, NextLock, committed, TypeInv, TypeOK
  <2>2. ASSUME NEW q \in Requests, NEW v \in Wallets
        PROVE  /\ q # r => (lock'[v] = q <=> lock[v] = q)
               /\ lock[v] = q => lock'[v] = q
    BY <1>0, <2>1 DEF TypeInv, TypeOK
  <2>3. Noting'
    BY <2>1, <2>2 DEF AuditInv, Noting, Difference
  <2> QED
    BY <1>0, <1>a, <2>1, <2>3 DEF AuditInv
<1>3. ASSUME NEW r \in Requests, Refuse(r) \/ Abort(r) PROVE AuditInv'
  <2>1. Release(r, "rolledback") /\ UNCHANGED <<status, audit>>
    BY <1>3 DEF Refuse, Abort, committed
  <2> QED
    BY <1>0, <1>a, <2>1, ReleaseNoting DEF AuditInv
<1>4. ASSUME NEW r \in Requests, Post(r) PROVE AuditInv'
  <2>1. /\ phase[r] = "locking" /\ phase' = [phase EXCEPT ![r] = "written"]
        /\ UNCHANGED <<status, audit, lock, call, noted>>
        /\ noted[r] = <<>>
    BY <1>0, <1>4 DEF Post, Cleared, committed, TypeInv, Shape
  <2>2. /\ \A q \in Requests : q # r => view'[q] = view[q] /\ phase'[q] = phase[q]
        /\ \A w \in Wallets : view'[r][w].status = view[r][w].status
    BY <1>0, <1>4 DEF Post, TypeInv, TypeOK
  <2>3. \A w \in Wallets : lock[w] = r => view'[r][w].status = status[w]
    BY <2>1, <2>2 DEF AuditInv, LedgerInv, LockedRows
  <2>4. Noting'
    BY <2>1, <2>2, <2>3 DEF AuditInv, Noting, Difference
  <2> QED
    BY <1>0, <1>a, <2>1, <2>4 DEF AuditInv
<1>5. ASSUME NEW r \in Requests, UpdateStatus(r) PROVE AuditInv'
  <2> DEFINE c == call[r]
             w == c.wallet
             old == view[r][w].status
  <2>1. /\ phase[r] = "locking" /\ phase' = [phase EXCEPT ![r] = "written"]
        /\ UNCHANGED <<status, audit, lock, call>>
        /\ noted[r] = <<>>
    BY <1>0, <1>5 DEF UpdateStatus, Cleared, committed, TypeInv, Shape
  <2>2. /\ w \in Wallets /\ lock[w] = r /\ view[r][w] \in Row
        /\ \A v \in Wallets : lock[v] = r => v = w
    <3>1. c \in Calls /\ c.op = "updateWalletStatus"
      BY <1>0, <1>5, CallFields
      DEF UpdateStatus, Cleared, Shape, Open, IsMoney, MoneyOps, TypeInv
    <3>2. Needs(c) = {w} /\ Held(r) = Needs(c) /\ w \in Wallets
      BY <1>5, <3>1 DEF UpdateStatus, Cleared, Held, Needs, RefusedLocked, IsMoney, MoneyOps
    <3> QED
      BY <1>0, <3>2 DEF Held, TypeInv, Shape
  <2>3. \A q \in Requests : q # r => /\ view'[q] = view[q] /\ phase'[q] = phase[q]
                                     /\ noted'[q] = noted[q]
    BY <1>0, <1>5 DEF UpdateStatus, TypeInv, TypeOK
  <2>4. old = status[w]
    BY <2>1, <2>2 DEF AuditInv, LedgerInv, LockedRows
  <2>5. \/ noted'[r] = <<>> /\ view'[r][w].status = status[w]
        \/ noted'[r] = <<[from |-> status[w], to |-> view'[r][w].status]>>
    <3>1. CASE old = c.status
      BY <1>5, <2>1, <2>4, <3>1 DEF UpdateStatus
    <3>2. CASE old # c.status
      <4>1. /\ view' = [view EXCEPT ![r][w].status = c.status]
            /\ noted' = [noted EXCEPT ![r] = <<[from |-> old, to |-> c.status]>>]
        BY <1>5, <3>2 DEF UpdateStatus
      <4>2. view'[r][w].status = c.status
        BY <1>0, <2>2, <4>1 DEF TypeInv, TypeOK, Row
      <4> QED
        BY <1>0, <2>4, <4>1, <4>2 DEF TypeInv, TypeOK
    <3> QED
      BY <3>1, <3>2
  <2> HIDE DEF w, old
  <2>6. w = call[r].wallet
    BY DEF w
  <2>7. Noting'
    BY <2>1, <2>2, <2>3, <2>5, <2>6 DEF AuditInv, Noting, Difference
  <2> QED
    BY <1>0, <1>a, <2>1, <2>7 DEF AuditInv
<1>6. ASSUME NEW r \in Requests, Commit(r) PROVE AuditInv'
  BY <1>0, <1>6, CommitAuditInv
<1>7. CASE UNCHANGED vars
  <2>1. Noting'
    BY <1>7 DEF vars, AuditInv, Noting, Difference
  <2> QED
    BY <1>0, <1>7, <1>a, <2>1 DEF vars, AuditInv
<1> QED
  BY <1>1, <1>2, <1>3, <1>4, <1>5, <1>6, <1>7 DEF Next, Step

\* The audit rows of a wallet replay its status, whatever transactions race for
\* its row and whichever of them roll back.
THEOREM AuditIsComplete == Spec => []AuditReplaysStatus
<1>1. Init => AuditInv
  BY InitLedgerInv DEF Init, AuditInv, Noting, AuditReplaysStatus, Replay
<1>2. AuditInv => AuditReplaysStatus
  BY DEF AuditInv
<1> QED
  BY <1>1, <1>2, StepAuditInv, PTL DEF Spec

-----------------------------------------------------------------------------
(* Waiting.                                                                *)

\* A transaction has locked only rows before every row it has still to lock.
Ascending ==
  \A r \in Requests : phase[r] = "locking" =>
    \A v \in Held(r), w \in Needs(call[r]) \ Held(r) : v < w

WaitInv == TypeInv /\ Ascending

LEMMA LargestExists ==
  ASSUME NEW T \in SUBSET Wallets, T # {}
  PROVE  \E m \in T : \A w \in T : w <= m
<1> DEFINE D == {FirstEntryId - w : w \in T}
           Less == OpToRel(<, Nat)
<1>a. IsWellFoundedOn(Less, Nat)
  BY NatLessThanWellFounded
<1>b. \A d, e \in Nat : <<e, d>> \in Less <=> e < d
  BY DEF OpToRel
<1> HIDE DEF Less
<1>e. \A w \in T : FirstEntryId - w \in Nat
  <2> SUFFICES ASSUME NEW w \in T PROVE FirstEntryId - w \in Nat
    OBVIOUS
  <2>1. w \in Nat /\ FirstEntryId \in Nat /\ 2*w + 1 < FirstEntryId
    OBVIOUS
  <2> HIDE WalletsAssumption DEF WalletsAssumption
  <2> QED
    BY <2>1
<1> HIDE WalletsAssumption DEF WalletsAssumption
<1>1. D \in SUBSET Nat /\ D # {}
  BY <1>e, Zenon
<1> USE WalletsAssumption DEF WalletsAssumption
<1>c. \A d \in D : \E w \in T : d = FirstEntryId - w
  OBVIOUS
<1>d. \A w \in T : FirstEntryId - w \in D
  OBVIOUS
<1> HIDE DEF D
<1>2. PICK d \in D : \A e \in D : ~ (<<e, d>> \in Less)
  BY <1>1, <1>a, WFMin
<1>3. ASSUME NEW e \in D PROVE d <= e
  <2>1. ~(e < d) /\ d \in Nat /\ e \in Nat
    BY <1>1, <1>2, <1>b
  <2> QED
    BY <2>1
<1>4. PICK m \in T : d = FirstEntryId - m
  BY <1>c
<1>5. ASSUME NEW w \in T PROVE w <= m
  <2>1. FirstEntryId - m <= FirstEntryId - w
    BY <1>3, <1>4, <1>d
  <2> QED
    BY <2>1
<1> QED
  BY <1>5

LEMMA StepWaitInv == WaitInv /\ [Next]_vars => WaitInv'
<1> SUFFICES ASSUME WaitInv, [Next]_vars PROVE WaitInv'
  OBVIOUS
<1>0. TypeInv /\ TypeInv'
  BY StepTypeInv DEF WaitInv
<1>1. ASSUME NEW r \in Requests, NEW c \in Calls, Begin(r, c) PROVE Ascending'
  <2>1. /\ phase[r] = "idle" /\ UNCHANGED lock
        /\ \A q \in Requests : q # r => phase'[q] = phase[q] /\ call'[q] = call[q]
    BY <1>0, <1>1 DEF Begin, TypeInv, TypeOK
  <2>2. Held(r) = {} /\ \A q \in Requests : Held(q)' = Held(q)
    BY <1>0, <2>1 DEF Held, TypeInv, Shape, Open
  <2> SUFFICES ASSUME NEW q \in Requests, phase'[q] = "locking",
                      NEW v \in Held(q)', NEW w \in Needs(call'[q]) \ Held(q)'
               PROVE  v < w
    BY DEF Ascending
  <2>3. q # r
    BY <2>2
  <2> QED
    BY <2>1, <2>2, <2>3 DEF WaitInv, Ascending
<1>2. ASSUME NEW r \in Requests, NEW w \in Wallets, AcquireLock(r, w) PROVE Ascending'
  <2>1. /\ lock[w] = Null /\ lock' = [lock EXCEPT ![w] = r]
        /\ w \in Needs(call[r]) /\ \A v \in Needs(call[r]) \ Held(r) : w <= v
        /\ UNCHANGED <<phase, call>>
    BY <1>2 DEF AcquireLock, NextLock
  <2>2. Held(r)' = Held(r) \cup {w} /\ \A q \in Requests : q # r => Held(q)' = Held(q)
    BY <1>0, <2>1 DEF Held, TypeInv, TypeOK
  <2>3. \A q \in Requests : Needs(call[q]) \subseteq Nat
    BY DEF Needs
  <2> SUFFICES ASSUME NEW q \in Requests, phase[q] = "locking",
                      NEW v \in Held(q)', NEW u \in Needs(call[q]) \ Held(q)'
               PROVE  v < u
    BY <2>1 DEF Ascending
  <2>4. CASE v \in Held(q)
    BY <2>2, <2>4 DEF WaitInv, Ascending
  <2>5. CASE q = r /\ v = w
    BY <2>1, <2>2, <2>3, <2>5
  <2> QED
    BY <2>2, <2>4, <2>5
<1>3. ASSUME NEW r \in Requests, NEW x \in {"committed", "rolledback"}, Release(r, x)
      PROVE  Ascending'
  <2>1. /\ phase'[r] # "locking"
        /\ \A q \in Requests : q # r => phase'[q] = phase[q] /\ call'[q] = call[q]
    BY <1>0, <1>3 DEF Release, TypeInv, TypeOK
  <2>2. \A q \in Requests : q # r => Held(q)' = Held(q)
    BY <1>3 DEF Release, Held
  <2> QED
    BY <2>1, <2>2 DEF WaitInv, Ascending
<1>4. ASSUME NEW r \in Requests, Post(r) \/ UpdateStatus(r) PROVE Ascending'
  <2>1. phase' = [phase EXCEPT ![r] = "written"] /\ UNCHANGED <<lock, call>>
    BY <1>4 DEF Post, UpdateStatus
  <2>2. \A q \in Requests : phase'[q] = "locking" => phase[q] = "locking"
    BY <1>0, <2>1 DEF TypeInv, TypeOK
  <2>3. \A q \in Requests : Held(q)' = Held(q)
    BY <2>1 DEF Held
  <2> SUFFICES ASSUME NEW q \in Requests, phase'[q] = "locking",
                      NEW v \in Held(q)', NEW w \in Needs(call'[q]) \ Held(q)'
               PROVE  v < w
    BY DEF Ascending
  <2> QED
    BY <2>1, <2>2, <2>3 DEF WaitInv, Ascending
<1>5. CASE UNCHANGED vars
  BY <1>0, <1>5 DEF vars, WaitInv, Ascending, Held
<1> QED
  BY <1>0, <1>1, <1>2, <1>3, <1>4, <1>5 DEF WaitInv, Next, Step, Refuse, Commit, Abort

\* Among any transactions one waits for none of the others: the one whose next row
\* comes last, for whoever holds that row would have to wait for a later one.
THEOREM NobodyWaitsInACircle == Spec => []NoWaitCycle
<1>1. Init => WaitInv
  BY InitTypeInv DEF Init, WaitInv, Ascending
<1>2. WaitInv => NoWaitCycle
  <2> SUFFICES ASSUME WaitInv, NEW S \in SUBSET Requests, S # {},
                      \A r \in S : \E q \in S : Waits(r, q)
               PROVE  FALSE
    BY DEF NoWaitCycle
  <2> DEFINE T == {w \in Wallets : \E r \in S : NextLock(r, w)}
  <2>1. T # {}
    BY DEF Waits
  <2>2. PICK m \in T : \A w \in T : w <= m
    BY <2>1, LargestExists
  <2>3. PICK r \in S : NextLock(r, m)
    OBVIOUS
  <2>4. PICK q \in S, w \in Wallets : NextLock(r, w) /\ lock[w] = q
    BY DEF Waits
  <2>5. w = m
    <3>1. w <= m /\ m <= w
      BY <2>3, <2>4 DEF NextLock
    <3> QED
      BY <3>1
  <2>6. PICK v \in Wallets : NextLock(q, v)
    BY DEF Waits
  <2>7. m < v
    BY <2>4, <2>5, <2>6 DEF WaitInv, Ascending, NextLock, Held
  <2>8. v <= m
    BY <2>2, <2>6
  <2> QED
    BY <2>7, <2>8
<1> QED
  BY <1>1, <1>2, StepWaitInv, PTL DEF Spec

-----------------------------------------------------------------------------
(* What a commit does: the call of the transaction, all at once, to the rows as *)
(* they are committed at that moment.                                          *)

\* What a transaction has written fits the committed rows until it commits.
CurrentOf(r) ==
  LET c == call[r] IN
  /\ Held(r) = Needs(c)
  /\ IsMoney(c) =>
       /\ Own(c) \in Needs(c)
       /\ Debited(c) # Credited(c)
       /\ {Debited(c), Credited(c)} \cap Wallets = Needs(c)
       /\ \A w \in Needs(c) :
            /\ status[w] = "active" /\ view[r][w].status = "active"
            /\ w = Debited(c) => /\ balance[w] >= c.amount
                                 /\ view[r][w].balance = balance[w] - c.amount
            /\ w = Credited(c) => view[r][w].balance = balance[w] + c.amount
  /\ ~IsMoney(c) =>
       /\ Needs(c) = {c.wallet}
       /\ view[r][c.wallet].balance = balance[c.wallet]
       /\ view[r][c.wallet].status = c.status

Current == \A r \in Requests : phase[r] = "written" => CurrentOf(r)

SerialInv == LedgerInv /\ Current

LEMMA StaysCurrent ==
  ASSUME NEW q \in Requests, CurrentOf(q), call'[q] = call[q], view'[q] = view[q],
         \A w \in Wallets : lock'[w] = q <=> lock[w] = q,
         \A w \in Wallets : lock[w] = q => balance'[w] = balance[w] /\ status'[w] = status[w]
  PROVE  CurrentOf(q)'
<1>1. Held(q)' = Held(q)
  BY DEF Held
<1>2. \A w \in Held(q) : balance'[w] = balance[w] /\ status'[w] = status[w]
  BY DEF Held
<1> QED
  BY <1>1, <1>2 DEF CurrentOf

LEMMA PostIsCurrent ==
  ASSUME LedgerInv, NEW r \in Requests, Post(r)
  PROVE  CurrentOf(r)'
<1> DEFINE c == call[r]
<1>1. TypeInv /\ Cleared(r) /\ IsMoney(c) /\ phase[r] = "locking"
  BY DEF LedgerInv, Post, Cleared
<1>2. /\ Own(c) \in Wallets
      /\ c.op = "transfer" => c.wallet \in Wallets /\ c.wallet # Own(c)
      /\ Needs(c) = IF c.op = "transfer" THEN {Own(c), c.wallet} ELSE {Own(c)}
      /\ \A w \in Needs(c) :
           /\ w \in Wallets /\ lock[w] = r /\ view[r][w] \in Row
           /\ view[r][w].status = "active" /\ NewBalance(r, w) \in Nat
           /\ w = Debited(c) => NewBalance(r, w) = view[r][w].balance - c.amount
           /\ w = Credited(c) => NewBalance(r, w) = view[r][w].balance + c.amount
  BY <1>1, ClearedMoney
<1>3. c.op \in MoneyOps /\ c.amount \in Nat
  BY <1>1, CallFields DEF TypeInv, Shape, Open, Cleared, IsMoney
<1>4. /\ Own(c) \in Needs(c)
      /\ Debited(c) # Credited(c)
      /\ {Debited(c), Credited(c)} \cap Wallets = Needs(c)
  BY <1>2, <1>3 DEF Debited, Credited, MoneyOps
<1>5. \A w \in Needs(c) : view[r][w].balance = balance[w] /\ status[w] = "active"
  BY <1>1, <1>2 DEF LedgerInv, LockedRows
<1>6. /\ call' = call /\ lock' = lock /\ balance' = balance /\ status' = status
      /\ \A w \in Needs(c) : view'[r][w] = [balance |-> NewBalance(r, w),
                                            status |-> view[r][w].status]
  BY <1>1, <1>2 DEF Post, committed, TypeInv, TypeOK
<1>7. Held(r)' = Needs(c)
  BY <1>1, <1>6 DEF Cleared, Held
<1>8. ASSUME NEW w \in Needs(c), w = Debited(c) PROVE balance[w] >= c.amount
  <2>1. view[r][w].balance \in Nat /\ view[r][w].balance = balance[w]
    BY <1>2, <1>5 DEF Row
  <2>2. NewBalance(r, w) \in Nat /\ NewBalance(r, w) = view[r][w].balance - c.amount
    BY <1>2, <1>8
  <2> QED
    BY <1>3, <2>1, <2>2
<1>9. \A w \in Needs(c) :
        /\ status'[w] = "active" /\ view'[r][w].status = "active"
        /\ w = Debited(c) => /\ balance'[w] >= c.amount
                             /\ view'[r][w].balance = balance'[w] - c.amount
        /\ w = Credited(c) => view'[r][w].balance = balance'[w] + c.amount
  <2> SUFFICES ASSUME NEW w \in Needs(c)
               PROVE  /\ status'[w] = "active" /\ view'[r][w].status = "active"
                      /\ w = Debited(c) => /\ balance'[w] >= c.amount
                                           /\ view'[r][w].balance = balance'[w] - c.amount
                      /\ w = Credited(c) => view'[r][w].balance = balance'[w] + c.amount
    OBVIOUS
  <2>1. /\ view'[r][w].balance = NewBalance(r, w)
        /\ view'[r][w].status = "active" /\ status'[w] = "active"
        /\ balance'[w] = balance[w]
    <3>1. view'[r][w] = [balance |-> NewBalance(r, w), status |-> view[r][w].status]
      BY <1>6
    <3>2. view[r][w].status = "active"
      BY <1>2
    <3>3. status[w] = "active" /\ status' = status /\ balance' = balance
      BY <1>5, <1>6
    <3> QED
      BY <3>1, <3>2, <3>3
  <2>2. /\ w = Debited(c) => NewBalance(r, w) = balance[w] - c.amount
        /\ w = Credited(c) => NewBalance(r, w) = balance[w] + c.amount
    <3>1. view[r][w].balance = balance[w]
      BY <1>5
    <3>2. /\ w = Debited(c) => NewBalance(r, w) = view[r][w].balance - c.amount
          /\ w = Credited(c) => NewBalance(r, w) = view[r][w].balance + c.amount
      BY <1>2
    <3> QED
      BY <3>1, <3>2
  <2> QED
    BY <1>8, <2>1, <2>2
<1> QED
  BY <1>1, <1>4, <1>6, <1>7, <1>9 DEF CurrentOf

LEMMA UpdateStatusIsCurrent ==
  ASSUME LedgerInv, NEW r \in Requests, UpdateStatus(r)
  PROVE  CurrentOf(r)'
<1> DEFINE c == call[r]
           w == c.wallet
           old == view[r][w].status
<1>1. /\ TypeInv /\ Cleared(r) /\ ~IsMoney(c) /\ phase[r] = "locking"
      /\ UNCHANGED <<balance, status, lock, call>>
  BY DEF LedgerInv, UpdateStatus, Cleared, committed
<1>2. c \in Calls /\ c.op = "updateWalletStatus"
  BY <1>1, CallFields DEF TypeInv, Shape, Open, IsMoney, MoneyOps
<1>3. Needs(c) = {w} /\ Held(r) = Needs(c) /\ w \in Wallets
  BY <1>1, <1>2 DEF Cleared, Needs, RefusedLocked
<1>4. lock[w] = r /\ view[r][w] \in Row /\ view[r][w].balance = balance[w]
  <2>1. lock[w] = r
    BY <1>3 DEF Held
  <2> QED
    BY <1>1, <1>3, <2>1 DEF LedgerInv, LockedRows, TypeInv, Shape
<1>5. view'[r][w].balance = balance[w] /\ view'[r][w].status = c.status
  <2>1. CASE old = c.status
    BY <1>4, <2>1 DEF UpdateStatus
  <2>2. CASE old # c.status
    <3>1. view' = [view EXCEPT ![r][w].status = c.status]
      BY <2>2 DEF UpdateStatus
    <3> QED
      BY <1>1, <1>3, <1>4, <3>1 DEF TypeInv, TypeOK, Row
  <2> QED
    BY <2>1, <2>2
<1>6. Held(r)' = Held(r)
  BY <1>1 DEF Held
<1> QED
  BY <1>1, <1>3, <1>5, <1>6 DEF CurrentOf

LEMMA StepSerialInv == SerialInv /\ [Next]_vars => SerialInv'
<1> SUFFICES ASSUME SerialInv, [Next]_vars PROVE SerialInv'
  OBVIOUS
<1>0. TypeInv /\ LedgerInv /\ LedgerInv'
  BY StepLedgerInv DEF SerialInv, LedgerInv
<1>a. ASSUME NEW r \in Requests, CurrentOf(r)' \/ phase'[r] # "written",
             \A q \in Requests : q # r =>
               /\ phase'[q] = phase[q] /\ call'[q] = call[q] /\ view'[q] = view[q]
               /\ \A w \in Wallets :
                    /\ lock'[w] = q <=> lock[w] = q
                    /\ lock[w] = q => balance'[w] = balance[w] /\ status'[w] = status[w]
      PROVE  SerialInv'
  <2>1. ASSUME NEW q \in Requests, q # r, phase'[q] = "written" PROVE CurrentOf(q)'
    BY <1>a, <2>1, StaysCurrent DEF SerialInv, Current
  <2> QED
    BY <1>0, <1>a, <2>1 DEF SerialInv, Current
<1>1. ASSUME NEW r \in Requests, NEW c \in Calls, Begin(r, c) PROVE SerialInv'
  <2>1. /\ phase'[r] = "locking" /\ UNCHANGED <<balance, status, lock, view>>
        /\ \A q \in Requests : q # r => phase'[q] = phase[q] /\ call'[q] = call[q]
    BY <1>0, <1>1 DEF Begin, committed, TypeInv, TypeOK
  <2> QED
    BY <1>a, <2>1
<1>2. ASSUME NEW r \in Requests, NEW w \in Wallets, AcquireLock(r, w) PROVE SerialInv'
  <2>1. /\ phase[r] = "locking" /\ lock[w] = Null /\ lock' = [lock EXCEPT ![w] = r]
        /\ \A q \in Requests : q # r => view'[q] = view[q]
        /\ UNCHANGED <<balance, status, phase, call>>
    BY <1>0, <1>2 DEF AcquireLock, NextLock, committed, TypeInv, TypeOK
  <2>2. \A q \in Requests, v \in Wallets : q # r => (lock'[v] = q <=> lock[v] = q)
    BY <1>0, <2>1 DEF TypeInv, TypeOK
  <2> QED
    BY <1>a, <2>1, <2>2
<1>3. ASSUME NEW r \in Requests, NEW x \in {"committed", "rolledback"}, Release(r, x),
             \A w \in Wallets : lock[w] # r =>
               balance'[w] = balance[w] /\ status'[w] = status[w]
      PROVE  SerialInv'
  <2>1. /\ phase'[r] = x
        /\ \A q \in Requests : q # r =>
             phase'[q] = phase[q] /\ call'[q] = call[q] /\ view'[q] = view[q]
    BY <1>0, <1>3 DEF Release, TypeInv, TypeOK
  <2>2. \A q \in Requests, v \in Wallets : q # r => (lock'[v] = q <=> lock[v] = q)
    BY <1>0, <1>3 DEF Release
  <2> QED
    BY <1>3, <1>a, <2>1, <2>2
<1>4. ASSUME NEW r \in Requests, Post(r) \/ UpdateStatus(r) PROVE SerialInv'
  <2>1. UNCHANGED <<balance, status, lock, call>>
    BY <1>4 DEF Post, UpdateStatus, committed
  <2>2. \A q \in Requests : q # r => phase'[q] = phase[q] /\ view'[q] = view[q]
    BY <1>0, <1>4 DEF Post, UpdateStatus, TypeInv, TypeOK
  <2>3. CurrentOf(r)'
    BY <1>0, <1>4, PostIsCurrent, UpdateStatusIsCurrent
  <2> QED
    BY <1>a, <2>1, <2>2, <2>3
<1>5. ASSUME NEW r \in Requests, Refuse(r) \/ Abort(r) PROVE SerialInv'
  <2>1. Release(r, "rolledback") /\ UNCHANGED <<balance, status>>
    BY <1>5 DEF Refuse, Abort, committed
  <2> QED
    BY <1>3, <2>1
<1>6. ASSUME NEW r \in Requests, Commit(r) PROVE SerialInv'
  <2>1. /\ Release(r, "committed")
        /\ \A w \in Wallets : lock[w] # r => balance'[w] = balance[w] /\ status'[w] = status[w]
    BY <1>6 DEF Commit
  <2> QED
    BY <1>3, <2>1
<1>7. CASE UNCHANGED vars
  <2>1. \A q \in Requests : CurrentOf(q) => CurrentOf(q)'
    BY <1>7, StaysCurrent DEF vars
  <2> QED
    BY <1>0, <1>7, <2>1 DEF vars, SerialInv, Current
<1> QED
  BY <1>1, <1>2, <1>4, <1>5, <1>6, <1>7 DEF Next, Step

LEMMA SerialInvariance == Spec => []SerialInv
<1>1. Init => SerialInv
  BY InitLedgerInv DEF Init, SerialInv, Current
<1> QED
  BY <1>1, StepSerialInv, PTL DEF Spec

\* A commit of a money transaction is one payment between active wallets that can
\* afford it, on the balances of that moment.
LEMMA CommitPays ==
  ASSUME SerialInv, NEW r \in Requests, Commit(r), IsMoney(call[r])
  PROVE  LET c == call[r] IN
         /\ Debited(c) # Credited(c)
         /\ \A w \in {Debited(c), Credited(c)} \cap Wallets : status[w] = "active"
         /\ Debited(c) \in Wallets => balance[Debited(c)] >= c.amount
         /\ balance' = [w \in Wallets |-> CASE w = Debited(c)  -> balance[w] - c.amount
                                            [] w = Credited(c) -> balance[w] + c.amount
                                            [] OTHER           -> balance[w]]
         /\ status' = status
<1> DEFINE c == call[r]
           new(w) == CASE w = Debited(c)  -> balance[w] - c.amount
                       [] w = Credited(c) -> balance[w] + c.amount
                       [] OTHER           -> balance[w]
<1>1. CurrentOf(r) /\ TypeOK
  BY DEF SerialInv, Current, LedgerInv, TypeInv, Commit
<1>2. /\ Held(r) = {Debited(c), Credited(c)} \cap Wallets
      /\ Debited(c) # Credited(c)
      /\ \A w \in Held(r) :
            /\ status[w] = "active" /\ view[r][w].status = "active"
            /\ w = Debited(c) => /\ balance[w] >= c.amount
                                 /\ view[r][w].balance = balance[w] - c.amount
            /\ w = Credited(c) => view[r][w].balance = balance[w] + c.amount
  BY <1>1 DEF CurrentOf
<1>3. \A w \in Wallets : lock[w] = r <=> w = Debited(c) \/ w = Credited(c)
  BY <1>2 DEF Held
<1>4. \A w \in Wallets : (IF lock[w] = r THEN view[r][w].balance ELSE balance[w]) = new(w)
  BY <1>2, <1>3 DEF Held
<1>5. \A w \in Wallets : (IF lock[w] = r THEN view[r][w].status ELSE status[w]) = status[w]
  BY <1>2 DEF Held
<1>6. balance' = [w \in Wallets |-> new(w)]
  BY <1>4 DEF Commit
<1>7. status' = status
  BY <1>1, <1>5 DEF Commit, TypeOK
<1> QED
  BY <1>2, <1>6, <1>7

\* A commit of an administrator's transaction sets the status of one wallet.
LEMMA CommitSets ==
  ASSUME SerialInv, NEW r \in Requests, Commit(r), ~IsMoney(call[r])
  PROVE  LET c == call[r] IN
         /\ c.wallet \in Wallets /\ c.status \in WalletStatus
         /\ status' = [status EXCEPT ![c.wallet] = c.status]
         /\ balance' = balance
<1> DEFINE c == call[r]
<1>1. /\ CurrentOf(r) /\ TypeOK /\ c \in Calls
  BY DEF SerialInv, Current, LedgerInv, TypeInv, Shape, Open, Commit
<1>2. /\ Held(r) = {c.wallet}
      /\ view[r][c.wallet].balance = balance[c.wallet]
      /\ view[r][c.wallet].status = c.status
  BY <1>1 DEF CurrentOf
<1>3. \A w \in Wallets : lock[w] = r <=> w = c.wallet
  BY <1>2 DEF Held
<1>4. c.wallet \in Wallets /\ c.status \in WalletStatus
  BY <1>1, <1>2, CallFields DEF Held
<1>5. \A w \in Wallets : (IF lock[w] = r THEN view[r][w].balance ELSE balance[w]) = balance[w]
  BY <1>2, <1>3
<1>6. balance' = balance
  BY <1>1, <1>5 DEF Commit, TypeOK
<1>7. \A w \in Wallets : (IF lock[w] = r THEN view[r][w].status ELSE status[w])
                         = [status EXCEPT ![c.wallet] = c.status][w]
  BY <1>1, <1>2, <1>3 DEF TypeOK
<1>8. status' = [status EXCEPT ![c.wallet] = c.status]
  BY <1>1, <1>7 DEF Commit, TypeOK
<1> QED
  BY <1>4, <1>6, <1>8
=============================================================================
