----------------------------- MODULE MCAccounts -----------------------------
(* A customer, two administrators who may suspend each other, and three      *)
(* requests among logins, payments, suspensions, reactivations and refused   *)
(* changes.                                                                  *)
EXTENDS Accounts, TLC

CONSTANTS ada, root, boss, r1, r2, r3

MCUsers == {ada, root, boss}
MCAdmins == {root, boss}
MCRequests == {r1, r2, r3}

SetStatus(by, target, s) ==
  [op |-> "updateUserStatus", user |-> by, target |-> target, status |-> s]

Login(user, opened) ==
  [op |-> "login", user |-> user, target |-> opened, status |-> "active"]

MCCalls ==
  {[op |-> "use", user |-> ada, target |-> Null, status |-> "active"],
   Login(ada, ada), Login(ada, Null),
   SetStatus(root, ada, "suspended"),
   SetStatus(boss, ada, "active"), SetStatus(root, boss, "suspended"),
   SetStatus(boss, root, "suspended"), SetStatus(root, root, "suspended"),
   SetStatus(root, Null, "active"), SetStatus(ada, root, "suspended")}

MCSymmetry == Permutations(MCRequests)
=============================================================================
