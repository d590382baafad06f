--------------------------------- MODULE Bank ---------------------------------
(***************************************************************************)
(* What the money endpoints promise their clients: one ledger that takes   *)
(* payments and status changes one at a time, and a payment made under an  *)
(* idempotency key is made once.  No request, lock, retry or failure is    *)
(* visible here.                                                           *)
(***************************************************************************)
EXTENDS Integers

CONSTANTS Accounts, Keys, Null,
          Payments,  \* records: from, to (Null is the outside world), amount
          Statuses

VARIABLES funds,    \* money in each account
          standing, \* "active" or "frozen"
          paid      \* the payment made under each key; Null before it

bankVars == <<funds, standing, paid>>

BankInit ==
  /\ funds \in [Accounts -> Nat]
  /\ standing = [a \in Accounts |-> "active"]
  /\ paid = [k \in Keys |-> Null]

\* A payment moves its amount between active accounts that can afford it.
Pay(k, p) ==
  LET sides == {p.from, p.to} \cap Accounts IN
  /\ paid[k] = Null
  /\ p.from # p.to
  /\ \A a \in sides : standing[a] = "active"
  /\ p.from \in Accounts => funds[p.from] >= p.amount
  /\ funds' = [a \in Accounts |-> CASE a = p.from -> funds[a] - p.amount
                                    [] a = p.to   -> funds[a] + p.amount
                                    [] OTHER      -> funds[a]]
  /\ paid' = [paid EXCEPT ![k] = p]
  /\ UNCHANGED standing

SetStanding(a, x) ==
  /\ standing' = [standing EXCEPT ![a] = x]
  /\ UNCHANGED <<funds, paid>>

BankNext ==
  \/ \E k \in Keys, p \in Payments : Pay(k, p)
  \/ \E a \in Accounts, x \in Statuses : SetStanding(a, x)

BankSpec == BankInit /\ [][BankNext]_bankVars
=============================================================================
