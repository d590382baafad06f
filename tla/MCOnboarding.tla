---------------------------- MODULE MCOnboarding ----------------------------
(* Two sign-ups that collide by BVN and a run of create-admin that collides   *)
(* with the second by email; the phone of the second may have a karma record. *)
(* All insert within one second.  An administrator reads pages of one row, of *)
(* all accounts or of administrators, or looks one account up.                *)
EXTENDS Directory

CONSTANTS first, second, root

MCAccounts == {first, second, root}

Person(b, e, p) == [k \in Kind |-> CASE k = "bvn" -> b [] k = "email" -> e [] k = "phone" -> p]

MCIdentity == [r \in MCAccounts |-> CASE r = first  -> Person(1, 10, 100)
                                     [] r = second -> Person(1, 20, 200)
                                     [] r = root   -> Person(3, 20, 300)]

MCId == [r \in MCAccounts |-> CASE r = first -> 2 [] r = second -> 1 [] r = root -> 3]
MCCreatedAt == [r \in MCAccounts |-> 1]

MCFilters == {MCAccounts, {root}}
=============================================================================
