----------------------------- MODULE MCCrossing -----------------------------
(* A ring of three transfers over three wallets, each sending to the next, with *)
(* a freeze of the middle wallet: the longest wait cycle these rows allow.      *)
EXTENDS Wallets

CONSTANTS ada, bola, chidi, r1, r2, r3

MCWallets == {1, 2, 3}
MCUsers == {ada, bola, chidi}
MCWalletOf == [u \in MCUsers |-> CASE u = ada -> 1 [] u = bola -> 2 [] u = chidi -> 3]
MCOpening == [w \in MCWallets |-> 1]
MCRequests == {r1, r2, r3}

Call(o, u, w) == [op |-> o, user |-> u, wallet |-> w, amount |-> 1, status |-> "frozen"]

MCCalls == {Call("transfer", ada, 2), Call("transfer", bola, 3),
            Call("transfer", chidi, 1), Call("updateWalletStatus", ada, 2)}
=============================================================================
