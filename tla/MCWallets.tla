------------------------------ MODULE MCWallets ------------------------------
(* A small bank for TLC: two funded wallets, one account without a wallet, and *)
(* calls that cross, overdraw, target themselves or an unknown id, and freeze. *)
EXTENDS Wallets, TLC

CONSTANTS ada, bola, root, r1, r2, r3, r4

MCWallets == {1, 2}
MCUsers == {ada, bola, root}
MCWalletOf == [u \in MCUsers |-> CASE u = ada -> 1 [] u = bola -> 2 [] u = root -> Null]
MCOpening == [w \in MCWallets |-> IF w = 1 THEN 3 ELSE 1]
MCRequests == {r1, r2, r3, r4}

Call(o, u, w, n, s) == [op |-> o, user |-> u, wallet |-> w, amount |-> n, status |-> s]

\* Crossing transfers, spends that fit alone but not together, and freezes.
BusyCalls ==
  {Call("transfer", ada, 2, 2, "active"), Call("transfer", bola, 1, 1, "active"),
   Call("withdraw", ada, 1, 2, "active"), Call("fund", bola, 1, 1, "active"),
   Call("updateWalletStatus", root, 1, 1, "frozen"),
   Call("updateWalletStatus", root, 1, 1, "active")}

\* Calls refused by validation, or by the services before or after locking.
RefusedCalls ==
  {Call("fund", bola, 1, 4, "active"), Call("withdraw", ada, 1, 0, "active"),
   Call("transfer", ada, 1, 1, "active"), Call("transfer", ada, 9, 1, "active"),
   Call("transfer", root, 1, 1, "active"), Call("withdraw", root, 1, 1, "active"),
   Call("withdraw", bola, 1, 2, "active"),
   Call("updateWalletStatus", root, 9, 1, "frozen")}

MCCalls == BusyCalls \cup RefusedCalls

MCSymmetry == Permutations(MCRequests)
=============================================================================
