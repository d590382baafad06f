----------------------------- MODULE MCMoneyApi -----------------------------
(* A transfer sent twice under one key, an administrator freezing the sender's  *)
(* wallet, and a third request: the recipient's withdrawal under the same key   *)
(* value (a scope of its own), or the sender reusing the key for another sum.   *)
EXTENDS MoneyApi, TLC

CONSTANTS ada, bola, root, key, first, retry, reuse, spend, freeze

MCWallets == {1, 2}
MCUsers == {ada, bola, root}
MCWalletOf == [u \in MCUsers |-> CASE u = ada -> 1 [] u = bola -> 2 [] u = root -> Null]
MCOpening == [w \in MCWallets |-> IF w = 1 THEN 4 ELSE 0]
MCClients == {first, retry, spend}
MCReusers == {first, retry, reuse}
MCAdmins == {freeze}
MCKeys == {key}
MCKeyOf == [r \in MCClients \cup MCReusers |-> key]

MCCall(o, u, w, n) ==
  [op |-> o, user |-> u, wallet |-> w, amount |-> n, status |-> "frozen"]

MCCallOf == [r \in MCClients \cup MCReusers \cup MCAdmins |->
  CASE r \in {first, retry} -> MCCall("transfer", ada, 2, 2)
    [] r = reuse            -> MCCall("transfer", ada, 2, 1)
    [] r = spend            -> MCCall("withdraw", bola, 2, 1)
    [] r = freeze           -> MCCall("updateWalletStatus", root, 1, 1)]

MCSymmetry == Permutations({first, retry})
=============================================================================
