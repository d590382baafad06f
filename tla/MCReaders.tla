------------------------------ MODULE MCReaders ------------------------------
(* The owner of wallet 1 reads pages of one line, and a reconciliation runs,   *)
(* while three transactions fund it, spend from it, pay into it or freeze it.  *)
EXTENDS Readers

CONSTANTS ada, bola, r1, r2, r3

MCWallets == {1, 2}
MCUsers == {ada, bola}
MCWalletOf == [u \in MCUsers |-> IF u = ada THEN 1 ELSE 2]
MCOpening == [w \in MCWallets |-> 2]
MCRequests == {r1, r2, r3}
MCSymmetry == Permutations(MCRequests)

Call(o, u, w) == [op |-> o, user |-> u, wallet |-> w, amount |-> 1, status |-> "frozen"]

MCCalls == {Call("fund", ada, 1), Call("withdraw", ada, 1), Call("transfer", bola, 1),
            Call("transfer", ada, 1),
            Call("updateWalletStatus", bola, 1)}
=============================================================================
