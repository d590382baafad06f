----------------------------- MODULE Onboarding -----------------------------
(***************************************************************************)
(* Sign-up: a lookup for duplicates, the blacklist checks against Adjutor  *)
(* with their retries, and the transaction that creates a user and its     *)
(* wallet.  Concurrent sign-ups pass the first lookup together; the unique *)
(* indexes of `users` decide between them, and between them and the runs   *)
(* of the script that makes an administrator, who has no wallet.           *)
(***************************************************************************)
EXTENDS Naturals, Sequences

CONSTANTS
  SignUps,     \* sign-up requests; each may become a user
  Bootstraps,  \* runs of create-admin; each may become an administrator
  Identity,    \* the identities of each of them, by kind
  Suspects,    \* identities that may have a karma record
  MaxAttempts, \* MAX_ATTEMPTS of a lookup
  Null         \* no answer yet

\* The order of Object.entries(identities).
Kinds == <<"bvn", "email", "phone">>
Kind == {"bvn", "email", "phone"}

Accounts == SignUps \cup Bootstraps

ASSUME OnboardingAssumption ==
  /\ SignUps \cap Bootstraps = {}
  /\ \A r \in Accounts : DOMAIN Identity[r] = Kind
  /\ MaxAttempts \in Nat \ {0}
  /\ Null \notin Nat

VARIABLES
  blacklist, \* the identities with a karma record
  users,     \* accounts whose row of `users` is committed
  wallets,   \* sign-ups whose row of `wallets` is committed
  inserted,  \* sign-ups whose user row is inserted and not committed
  stage,     \* where each sign-up and each run of the script is
  asked,     \* lookups it has concluded, in the order of Kinds
  attempt,   \* the attempt of the lookup under way
  failed,    \* kinds whose lookup could not be completed
  answer     \* the HTTP status of a sign-up, the exit code of the script

vars == <<blacklist, users, wallets, inserted, stage, asked, attempt, failed,
          answer>>
lookups == <<blacklist, asked, attempt, failed>>

Answers == {201, 403, 409, 500, 503} \cup {0, 1}

\* The two accounts collide in a unique index.
Collide(r, q) == q # r /\ \E k \in Kind : Identity[r][k] = Identity[q][k]

Listed(r, k) == Identity[r][k] \in blacklist

Init ==
  /\ blacklist \in SUBSET Suspects
  /\ users = {} /\ wallets = {} /\ inserted = {}
  /\ stage = [r \in Accounts |-> "start"]
  /\ asked = [r \in SignUps |-> 0]
  /\ attempt = [r \in SignUps |-> 1]
  /\ failed = [r \in SignUps |-> {}]
  /\ answer = [r \in Accounts |-> Null]

Goto(r, x) == stage' = [stage EXCEPT ![r] = x]

Respond(r, a) == Goto(r, "answered") /\ answer' = [answer EXCEPT ![r] = a]

\* findByAnyIdentity: committed accounts only.
PreCheck(r) ==
  /\ stage[r] = "start"
  /\ IF \E q \in users : Collide(r, q)
       THEN Respond(r, 409)
       ELSE Goto(r, "karma") /\ UNCHANGED answer
  /\ UNCHANGED <<users, wallets, inserted, lookups>>

\* The lookup under way is of the next kind.
LookingUp(r, k) ==
  stage[r] = "karma" /\ asked[r] < Len(Kinds) /\ k = Kinds[asked[r] + 1]

NextLookup(r) ==
  /\ asked' = [asked EXCEPT ![r] = @ + 1]
  /\ attempt' = [attempt EXCEPT ![r] = 1]

\* Adjutor answers: a record rejects the sign-up at once.
LookupAnswered(r, k) ==
  /\ LookingUp(r, k)
  /\ IF Listed(r, k)
       THEN Respond(r, 403) /\ UNCHANGED <<asked, attempt>>
       ELSE NextLookup(r) /\ UNCHANGED <<stage, answer>>
  /\ UNCHANGED <<blacklist, users, wallets, inserted, failed>>

\* Slip of LookupRetried: the attempts start over instead of running out.
LookupRetriedForever(r, k) ==
  /\ LookingUp(r, k)
  /\ attempt' = [attempt EXCEPT ![r] = 1 + (@ % MaxAttempts)]
  /\ UNCHANGED <<blacklist, users, wallets, inserted, stage, asked, failed, answer>>

\* A network failure or a 5xx, with attempts left.
LookupRetried(r, k) ==
  /\ LookingUp(r, k) /\ attempt[r] < MaxAttempts
  /\ attempt' = [attempt EXCEPT ![r] = @ + 1]
  /\ UNCHANGED <<blacklist, users, wallets, inserted, stage, asked, failed, answer>>

\* Slip of LookupFailed: the failure ends the check.
LookupFailureEnds(r, k) ==
  /\ LookingUp(r, k)
  /\ failed' = [failed EXCEPT ![r] = @ \cup {k}]
  /\ Respond(r, 503)
  /\ UNCHANGED <<blacklist, users, wallets, inserted, asked, attempt>>

\* The last attempt failed, or Adjutor rejected the call (no retry): the kind
\* stays unchecked and the next one is looked up all the same.
LookupFailed(r, k) ==
  /\ LookingUp(r, k)
  /\ failed' = [failed EXCEPT ![r] = @ \cup {k}]
  /\ NextLookup(r)
  /\ UNCHANGED <<blacklist, users, wallets, inserted, stage, answer>>

\* Slip of KarmaDone: what could not be checked is let through.
KarmaDoneOpen(r) ==
  /\ stage[r] = "karma" /\ asked[r] = Len(Kinds)
  /\ Goto(r, "insert")
  /\ UNCHANGED <<users, wallets, inserted, answer, lookups>>

KarmaDone(r) ==
  /\ stage[r] = "karma" /\ asked[r] = Len(Kinds)
  /\ IF failed[r] # {}
       THEN Respond(r, 503)
       ELSE Goto(r, "insert") /\ UNCHANGED answer
  /\ UNCHANGED <<users, wallets, inserted, lookups>>

\* Slip of InsertUser: usersRepository.create without the transaction.
InsertUserOutside(r) ==
  /\ stage[r] = "insert"
  /\ ~\E q \in inserted \cup users : Collide(r, q)
  /\ users' = users \cup {r}
  /\ Goto(r, "wallet")
  /\ UNCHANGED <<wallets, inserted, answer, lookups>>

\* The unique indexes: a row not yet committed is waited for.
InsertUser(r) ==
  /\ stage[r] = "insert"
  /\ ~\E q \in inserted \cup users : Collide(r, q)
  /\ inserted' = inserted \cup {r}
  /\ Goto(r, "wallet")
  /\ UNCHANGED <<users, wallets, answer, lookups>>

\* ER_DUP_ENTRY, answered like the first lookup.
Duplicate(r) ==
  /\ stage[r] = "insert"
  /\ \E q \in users : Collide(r, q)
  /\ Respond(r, 409)
  /\ UNCHANGED <<users, wallets, inserted, lookups>>

InsertWallet(r) ==
  /\ stage[r] = "wallet"
  /\ Goto(r, "commit")
  /\ UNCHANGED <<users, wallets, inserted, answer, lookups>>

\* The client learns of the commit, or the connection is lost after it.
Commit(r) ==
  /\ stage[r] = "commit"
  /\ users' = users \cup {r}
  /\ wallets' = wallets \cup {r}
  /\ inserted' = inserted \ {r}
  /\ Respond(r, 201) \/ Respond(r, 500)
  /\ UNCHANGED lookups

\* A statement fails or a deadlock between duplicate inserts is broken.
Abort(r) ==
  /\ stage[r] \in {"start", "insert", "wallet", "commit"}
  /\ inserted' = inserted \ {r}
  /\ Respond(r, 500)
  /\ UNCHANGED <<users, wallets, lookups>>

\* create-admin: one INSERT that commits by itself, without the first lookup, the
\* karma check or a wallet; it too waits for a row not yet committed.  If the
\* acknowledgement is lost it exits with 1.
CreateAdmin(a) ==
  /\ stage[a] = "start"
  /\ ~\E q \in inserted \cup users : Collide(a, q)
  /\ users' = users \cup {a}
  /\ Respond(a, 0) \/ Respond(a, 1)
  /\ UNCHANGED <<wallets, inserted, lookups>>

\* ER_DUP_ENTRY, arguments that are missing or a password that is too short, or
\* a statement that fails: nothing is inserted.
AdminRefused(a) ==
  /\ stage[a] = "start"
  /\ Respond(a, 1)
  /\ UNCHANGED <<users, wallets, inserted, lookups>>

Step(r) ==
  \/ PreCheck(r) \/ KarmaDone(r)
  \/ \E k \in Kind : LookupAnswered(r, k) \/ LookupRetried(r, k) \/ LookupFailed(r, k)
  \/ InsertUser(r) \/ Duplicate(r) \/ InsertWallet(r) \/ Commit(r)

Bootstrap(a) == CreateAdmin(a) \/ AdminRefused(a)

Next ==
  \/ \E r \in SignUps : Step(r) \/ Abort(r)
  \/ \E a \in Bootstraps : Bootstrap(a)

Spec == Init /\ [][Next]_vars

\* Statements and HTTP calls return (the calls have a timeout).
FairSpec ==
  /\ Spec
  /\ \A r \in SignUps : WF_vars(Step(r))
  /\ \A a \in Bootstraps : WF_vars(Bootstrap(a))

-----------------------------------------------------------------------------
\* Every variable has its type, and a customer exists exactly with its wallet
\* ("a user without a wallet (or vice versa) must not exist").
TypeOK ==
  /\ blacklist \in SUBSET Suspects
  /\ users \in SUBSET Accounts
  /\ wallets = users \cap SignUps
  /\ inserted \in SUBSET SignUps
  /\ stage \in [Accounts -> {"start", "karma", "insert", "wallet", "commit", "answered"}]
  /\ asked \in [SignUps -> 0 .. 3]
  /\ attempt \in [SignUps -> 1 .. MaxAttempts]
  /\ failed \in [SignUps -> SUBSET Kind]
  /\ answer \in [Accounts -> Answers \cup {Null}]

\* Nobody with a karma record signs up, whatever lookups fail: fail-closed.
BlacklistedStayOut == \A r \in users \cap SignUps, k \in Kind : ~Listed(r, k)

\* The answer is the truth when given and stays so: 201 has an account, 409 a
\* rival account, 403 a karma record; and 503 is for a sign-up none of whose
\* completed lookups found a record ("a hit on a later identity must still
\* reject", karma.service.ts).
AnswersAreTrue ==
  /\ \A r \in SignUps :
       /\ answer[r] = 201 => r \in users
       /\ answer[r] = 409 => \E q \in users : Collide(r, q)
       /\ answer[r] = 403 => \E k \in Kind : Listed(r, k)
       /\ answer[r] = 503 => \A k \in Kind : Listed(r, k) => k \in failed[r]
  /\ \A a \in Bootstraps : answer[a] = 0 => a \in users

\* Every sign-up is answered and every run of the script exits: lookups give up
\* and inserts do not wait in a circle.
SignUpsEnd == \A r \in Accounts : <>(answer[r] # Null)
=============================================================================
