-------------------------- MODULE OnboardingProofs --------------------------
(***************************************************************************)
(* Theorems about the creation of accounts, for any sign-ups, any runs of  *)
(* create-admin, any identities and any karma records; and about what an   *)
(* administrator reads meanwhile, for any queries and page sizes.          *)
(***************************************************************************)
EXTENDS Directory, FiniteSetTheorems, TLAPS

USE OnboardingAssumption DEF OnboardingAssumption

-----------------------------------------------------------------------------
(* The inductive invariant.                                                *)

\* A user row is pending exactly between its INSERT and the end of its
\* transaction.
Pending == \A r \in SignUps : r \in inserted <=> stage[r] \in {"wallet", "commit"}

\* A lookup that concluded found no record or is among those that failed.
Checked ==
  \A r \in SignUps : \A i \in 1 .. asked[r] :
    Listed(r, Kinds[i]) => Kinds[i] \in failed[r]

\* Who passed the karma check has no record.
Passed ==
  \A r \in SignUps :
    stage[r] \in {"insert", "wallet", "commit"} \/ r \in users =>
      \A k \in Kind : ~Listed(r, k)

Inv ==
  /\ TypeOK
  /\ Pending
  /\ Checked
  /\ Passed
  /\ AnswersAreTrue

LEMMA KindsInOrder ==
  /\ Len(Kinds) = 3
  /\ Kinds \in [1 .. 3 -> Kind]
  /\ \A k \in Kind : \E i \in 1 .. 3 : k = Kinds[i]
BY DEF Kinds, Kind

LEMMA InitInv == Init => Inv
BY DEF Accounts, Init, Inv, TypeOK, Pending, Checked, Passed, AnswersAreTrue, Answers

LEMMA StepInv == Inv /\ [Next]_vars => Inv'
<1> SUFFICES ASSUME Inv, [Next]_vars PROVE Inv'
  OBVIOUS
<1> USE DEF Goto, Respond, lookups, Accounts
<1>1. ASSUME NEW r \in SignUps, PreCheck(r) PROVE Inv'
  <2>1. TypeOK'
    BY <1>1 DEF Inv, TypeOK, PreCheck, Answers, NextLookup, LookingUp
  <2>2. Pending'
    BY <1>1 DEF Inv, TypeOK, PreCheck, Pending, NextLookup
  <2>3. Checked'
    BY <1>1 DEF Inv, TypeOK, PreCheck, Checked, Listed, NextLookup, LookingUp
  <2>4. Passed'
    BY <1>1 DEF Inv, TypeOK, PreCheck, Passed, Listed, NextLookup
  <2>5. AnswersAreTrue'
    BY <1>1 DEF Inv, TypeOK, PreCheck, AnswersAreTrue, Listed, NextLookup, Answers
  <2> QED
    BY <2>1, <2>2, <2>3, <2>4, <2>5 DEF Inv
<1>2. ASSUME NEW r \in SignUps, KarmaDone(r) PROVE Inv'
  <2>a. /\ stage[r] = "karma" /\ asked[r] = 3
        /\ UNCHANGED <<users, wallets, inserted, blacklist, asked, attempt, failed>>
    BY <1>2, KindsInOrder DEF KarmaDone
  <2>b. \/ stage' = [stage EXCEPT ![r] = "answered"] /\ answer' = [answer EXCEPT ![r] = 503]
        \/ failed[r] = {} /\ stage' = [stage EXCEPT ![r] = "insert"] /\ answer' = answer
    BY <1>2 DEF KarmaDone
  <2>c. \A k \in Kind : Listed(r, k) => k \in failed[r]
    BY <2>a, KindsInOrder DEF Inv, Checked
  <2>1. TypeOK'
    BY <2>a, <2>b DEF Inv, TypeOK, Answers
  <2>2. Pending'
    BY <2>a, <2>b DEF Inv, TypeOK, Pending
  <2>3. Checked'
    BY <2>a DEF Inv, Checked, Listed
  <2>4. Passed'
    BY <2>a, <2>b, <2>c DEF Inv, TypeOK, Passed, Listed
  <2>5. AnswersAreTrue'
    BY <2>a, <2>b, <2>c DEF Inv, TypeOK, AnswersAreTrue, Listed
  <2> QED
    BY <2>1, <2>2, <2>3, <2>4, <2>5 DEF Inv
<1>3. ASSUME NEW r \in SignUps, NEW k \in Kind, LookupAnswered(r, k) PROVE Inv'
  <2>a. /\ stage[r] = "karma" /\ asked[r] \in 0 .. 2 /\ k = Kinds[asked[r] + 1]
        /\ UNCHANGED <<users, wallets, inserted, blacklist, failed>>
    BY <1>3, KindsInOrder DEF LookupAnswered, LookingUp, Inv, TypeOK
  <2>b. \/ /\ Listed(r, k)
           /\ stage' = [stage EXCEPT ![r] = "answered"] /\ answer' = [answer EXCEPT ![r] = 403]
           /\ UNCHANGED <<asked, attempt>>
        \/ /\ ~Listed(r, k)
           /\ asked' = [asked EXCEPT ![r] = @ + 1] /\ attempt' = [attempt EXCEPT ![r] = 1]
           /\ UNCHANGED <<stage, answer>>
    BY <1>3 DEF LookupAnswered, NextLookup
  <2>1. TypeOK'
    BY <2>a, <2>b DEF Inv, TypeOK, Answers
  <2>2. Pending'
    BY <2>a, <2>b DEF Inv, TypeOK, Pending
  <2>3. Checked'
    <3>1. CASE asked' = asked
      BY <2>a, <3>1 DEF Inv, Checked, Listed
    <3>2. CASE asked' = [asked EXCEPT ![r] = @ + 1] /\ ~Listed(r, k)
      BY <2>a, <3>2 DEF Inv, TypeOK, Checked, Listed
    <3> QED
      BY <2>b, <3>1, <3>2
  <2>4. Passed'
    BY <2>a, <2>b DEF Inv, TypeOK, Passed, Listed
  <2>5. AnswersAreTrue'
    BY <2>a, <2>b DEF Inv, TypeOK, AnswersAreTrue, Listed
  <2> QED
    BY <2>1, <2>2, <2>3, <2>4, <2>5 DEF Inv
<1>4. ASSUME NEW r \in SignUps, NEW k \in Kind, LookupRetried(r, k) PROVE Inv'
  <2>1. TypeOK'
    BY <1>4 DEF Inv, TypeOK, LookupRetried, Answers, NextLookup, LookingUp
  <2>2. Pending'
    BY <1>4 DEF Inv, TypeOK, LookupRetried, Pending, NextLookup
  <2>3. Checked'
    BY <1>4 DEF Inv, TypeOK, LookupRetried, Checked, Listed, NextLookup, LookingUp
  <2>4. Passed'
    BY <1>4 DEF Inv, TypeOK, LookupRetried, Passed, Listed, NextLookup
  <2>5. AnswersAreTrue'
    BY <1>4 DEF Inv, TypeOK, LookupRetried, AnswersAreTrue, Listed, NextLookup, Answers
  <2> QED
    BY <2>1, <2>2, <2>3, <2>4, <2>5 DEF Inv
<1>5. ASSUME NEW r \in SignUps, NEW k \in Kind, LookupFailed(r, k) PROVE Inv'
  <2>a. /\ stage[r] = "karma" /\ asked[r] \in 0 .. 2 /\ k = Kinds[asked[r] + 1]
        /\ asked' = [asked EXCEPT ![r] = @ + 1] /\ attempt' = [attempt EXCEPT ![r] = 1]
        /\ failed' = [failed EXCEPT ![r] = @ \cup {k}]
        /\ UNCHANGED <<users, wallets, inserted, blacklist, stage, answer>>
    BY <1>5, KindsInOrder DEF LookupFailed, LookingUp, NextLookup, Inv, TypeOK
  <2>1. TypeOK'
    BY <2>a DEF Inv, TypeOK, Answers
  <2>2. Pending'
    BY <1>5 DEF Inv, TypeOK, LookupFailed, Pending, NextLookup
  <2>3. Checked'
    <3>1. ASSUME NEW q \in SignUps, NEW i \in 1 .. asked'[q], Listed(q, Kinds[i])
          PROVE  Kinds[i] \in failed'[q]
      BY <2>a, <3>1 DEF Inv, TypeOK, Checked
    <3> QED
      BY <2>a, <3>1 DEF Checked, Listed
  <2>4. Passed'
    BY <1>5 DEF Inv, TypeOK, LookupFailed, Passed, Listed, NextLookup
  <2>5. AnswersAreTrue'
    BY <1>5 DEF Inv, TypeOK, LookupFailed, AnswersAreTrue, Listed, NextLookup, Answers
  <2> QED
    BY <2>1, <2>2, <2>3, <2>4, <2>5 DEF Inv
<1>6. ASSUME NEW r \in SignUps, InsertUser(r) PROVE Inv'
  <2>1. TypeOK'
    BY <1>6 DEF Inv, TypeOK, InsertUser, Answers, NextLookup, LookingUp
  <2>2. Pending'
    BY <1>6 DEF Inv, TypeOK, InsertUser, Pending, NextLookup
  <2>3. Checked'
    BY <1>6 DEF Inv, TypeOK, InsertUser, Checked, Listed, NextLookup, LookingUp
  <2>4. Passed'
    BY <1>6 DEF Inv, TypeOK, InsertUser, Passed, Listed, NextLookup
  <2>5. AnswersAreTrue'
    BY <1>6 DEF Inv, TypeOK, InsertUser, AnswersAreTrue, Listed, NextLookup, Answers
  <2> QED
    BY <2>1, <2>2, <2>3, <2>4, <2>5 DEF Inv
<1>7. ASSUME NEW r \in SignUps, Duplicate(r) PROVE Inv'
  <2>1. TypeOK'
    BY <1>7 DEF Inv, TypeOK, Duplicate, Answers, NextLookup, LookingUp
  <2>2. Pending'
    BY <1>7 DEF Inv, TypeOK, Duplicate, Pending, NextLookup
  <2>3. Checked'
    BY <1>7 DEF Inv, TypeOK, Duplicate, Checked, Listed, NextLookup, LookingUp
  <2>4. Passed'
    BY <1>7 DEF Inv, TypeOK, Duplicate, Passed, Listed, NextLookup
  <2>5. AnswersAreTrue'
    BY <1>7 DEF Inv, TypeOK, Duplicate, AnswersAreTrue, Listed, NextLookup, Answers
  <2> QED
    BY <2>1, <2>2, <2>3, <2>4, <2>5 DEF Inv
<1>8. ASSUME NEW r \in SignUps, InsertWallet(r) PROVE Inv'
  <2>1. TypeOK'
    BY <1>8 DEF Inv, TypeOK, InsertWallet, Answers, NextLookup, LookingUp
  <2>2. Pending'
    BY <1>8 DEF Inv, TypeOK, InsertWallet, Pending, NextLookup
  <2>3. Checked'
    BY <1>8 DEF Inv, TypeOK, InsertWallet, Checked, Listed, NextLookup, LookingUp
  <2>4. Passed'
    BY <1>8 DEF Inv, TypeOK, InsertWallet, Passed, Listed, NextLookup
  <2>5. AnswersAreTrue'
    BY <1>8 DEF Inv, TypeOK, InsertWallet, AnswersAreTrue, Listed, NextLookup, Answers
  <2> QED
    BY <2>1, <2>2, <2>3, <2>4, <2>5 DEF Inv
<1>9. ASSUME NEW r \in SignUps, Commit(r) PROVE Inv'
  <2>1. TypeOK'
    BY <1>9 DEF Inv, TypeOK, Commit, Answers, NextLookup, LookingUp
  <2>2. Pending'
    BY <1>9 DEF Inv, TypeOK, Commit, Pending, NextLookup
  <2>3. Checked'
    BY <1>9 DEF Inv, TypeOK, Commit, Checked, Listed, NextLookup, LookingUp
  <2>4. Passed'
    BY <1>9 DEF Inv, TypeOK, Commit, Passed, Listed, NextLookup
  <2>5. AnswersAreTrue'
    BY <1>9 DEF Inv, TypeOK, Commit, AnswersAreTrue, Listed, NextLookup, Answers
  <2> QED
    BY <2>1, <2>2, <2>3, <2>4, <2>5 DEF Inv
<1>10. ASSUME NEW r \in SignUps, Abort(r) PROVE Inv'
  <2>1. TypeOK'
    BY <1>10 DEF Inv, TypeOK, Abort, Answers, NextLookup, LookingUp
  <2>2. Pending'
    BY <1>10 DEF Inv, TypeOK, Abort, Pending, NextLookup
  <2>3. Checked'
    BY <1>10 DEF Inv, TypeOK, Abort, Checked, Listed, NextLookup, LookingUp
  <2>4. Passed'
    BY <1>10 DEF Inv, TypeOK, Abort, Passed, Listed, NextLookup
  <2>5. AnswersAreTrue'
    BY <1>10 DEF Inv, TypeOK, Abort, AnswersAreTrue, Listed, NextLookup, Answers
  <2> QED
    BY <2>1, <2>2, <2>3, <2>4, <2>5 DEF Inv
<1>11. ASSUME NEW a \in Bootstraps, CreateAdmin(a) PROVE Inv'
  <2>1. TypeOK'
    BY <1>11 DEF Inv, TypeOK, CreateAdmin, Answers, NextLookup, LookingUp
  <2>2. Pending'
    BY <1>11 DEF Inv, TypeOK, CreateAdmin, Pending, NextLookup
  <2>3. Checked'
    BY <1>11 DEF Inv, TypeOK, CreateAdmin, Checked, Listed, NextLookup, LookingUp
  <2>4. Passed'
    BY <1>11 DEF Inv, TypeOK, CreateAdmin, Passed, Listed, NextLookup
  <2>5. AnswersAreTrue'
    BY <1>11 DEF Inv, TypeOK, CreateAdmin, AnswersAreTrue, Listed, NextLookup, Answers
  <2> QED
    BY <2>1, <2>2, <2>3, <2>4, <2>5 DEF Inv
<1>12. ASSUME NEW a \in Bootstraps, AdminRefused(a) PROVE Inv'
  <2>1. TypeOK'
    BY <1>12 DEF Inv, TypeOK, AdminRefused, Answers, NextLookup, LookingUp
  <2>2. Pending'
    BY <1>12 DEF Inv, TypeOK, AdminRefused, Pending, NextLookup
  <2>3. Checked'
    BY <1>12 DEF Inv, TypeOK, AdminRefused, Checked, Listed, NextLookup, LookingUp
  <2>4. Passed'
    BY <1>12 DEF Inv, TypeOK, AdminRefused, Passed, Listed, NextLookup
  <2>5. AnswersAreTrue'
    BY <1>12 DEF Inv, TypeOK, AdminRefused, AnswersAreTrue, Listed, NextLookup, Answers
  <2> QED
    BY <2>1, <2>2, <2>3, <2>4, <2>5 DEF Inv
<1>13. CASE UNCHANGED vars
  BY <1>13 DEF vars, Inv, TypeOK, Pending, Checked, Passed, AnswersAreTrue, Listed
<1> QED
  BY <1>1, <1>2, <1>3, <1>4, <1>5, <1>6, <1>7, <1>8, <1>9, <1>10, <1>11, <1>12, <1>13 DEF Next, Step, Bootstrap

LEMMA Invariance == Spec => []Inv
BY InitInv, StepInv, PTL DEF Spec

-----------------------------------------------------------------------------
(* Theorems.                                                               *)

\* A customer exists exactly with its wallet, whatever statement of its sign-up
\* fails and however sign-ups interleave.
THEOREM TypeCorrect == Spec => []TypeOK
BY Invariance, PTL DEF Inv

\* Nobody with a karma record signs up, however many lookups fail: a lookup that
\* could not be completed never lets a sign-up through.
THEOREM KarmaFailsClosed == Spec => []BlacklistedStayOut
<1>1. Inv => BlacklistedStayOut
  BY DEF Inv, TypeOK, Passed, BlacklistedStayOut
<1> QED
  BY <1>1, Invariance, PTL

\* What a client was told, or what the script exited with, is true and stays true.
THEOREM AnswersStayTrue == Spec => []AnswersAreTrue
BY Invariance, PTL DEF Inv

-----------------------------------------------------------------------------
(* The administrator's reads.                                              *)

USE DirectoryAssumption DEF DirectoryAssumption

\* Onboarding goes on under them.
LEMMA OnboardingContinues == DirectoryNext => [Next]_vars
BY DEF DirectoryNext

LEMMA OnboardingInv == DirectorySpec => []Inv
<1>1. Inv /\ [DirectoryNext]_<<vars, readerVars>> => Inv'
  BY OnboardingContinues, StepInv DEF vars
<1> QED
  BY <1>1, InitInv, PTL DEF DirectorySpec, DirectoryInit

\* Accounts are only ever added, one at a time.
LEMMA OneMoreUser ==
  ASSUME [Next]_vars
  PROVE  users' = users \/ \E r \in Accounts : users' = users \cup {r}
BY DEF Next, Step, Bootstrap, PreCheck, KarmaDone, LookupAnswered, LookupRetried,
       LookupFailed, InsertUser, Duplicate, InsertWallet, Commit, Abort, CreateAdmin,
       AdminRefused, vars, Accounts

-----------------------------------------------------------------------------
(* Pages.                                                                  *)

Matching == users \cap filter

\* The accounts of S listed before u.
Before(S, u) == {v \in S : Precedes(v, u)}

Ahead(u) == Before(Matching, u)

LEMMA OrderIsTotal ==
  ASSUME NEW r \in Accounts, NEW q \in Accounts
  PROVE  /\ ~Precedes(r, r)
         /\ r # q => Precedes(r, q) \/ Precedes(q, r)
         /\ ~(Precedes(r, q) /\ Precedes(q, r))
<1>1. /\ Id[r] \in Nat /\ Id[q] \in Nat /\ CreatedAt[r] \in Nat /\ CreatedAt[q] \in Nat
      /\ Id[r] = Id[q] => r = q
  OBVIOUS
<1> QED
  BY <1>1 DEF Precedes

\* A listing shows every row of S once, each behind those that precede it.
LEMMA ListingPlaces ==
  ASSUME NEW S \in SUBSET Accounts, IsFiniteSet(S), NEW s \in Listings(S)
  PROVE  /\ DOMAIN s = 1 .. Cardinality(S) /\ Cardinality(S) \in Nat
         /\ \A i \in DOMAIN s : s[i] \in S
         /\ \A u \in S : \E i \in DOMAIN s :
              /\ s[i] = u
              /\ Cardinality(Before(S, u)) = i - 1
<1> DEFINE n == Cardinality(S)
<1>1. n \in Nat
  BY FS_CardinalityType
<1>2. /\ s \in [1 .. n -> S]
      /\ \A i, j \in 1 .. n : i # j => s[i] # s[j]
      /\ \A i, j \in 1 .. n : Precedes(s[i], s[j]) => i < j
  BY DEF Listings, SetToSeqs
<1>3. s \in Surjection(1 .. n, S)
  <2>1. s \in Injection(1 .. n, S)
    BY <1>2 DEF Injection, IsInjective
  <2>2. Cardinality(1 .. n) = n
    BY <1>1, FS_Interval
  <2> QED
    BY <2>1, <2>2, FS_Injection
<1>4. ASSUME NEW u \in S
      PROVE  \E i \in 1 .. n : s[i] = u /\ Cardinality(Before(S, u)) = i - 1
  <2>1. PICK i \in 1 .. n : s[i] = u
    BY <1>3 DEF Surjection
  <2> DEFINE Q == Before(S, u)
             f == [j \in 1 .. i - 1 |-> s[j]]
  <2>2. ASSUME NEW j \in 1 .. i - 1 PROVE s[j] \in Q
    <3>1. j \in 1 .. n /\ j # i /\ ~(i < j)
      BY <1>1, <2>1
    <3>2. s[j] \in S /\ s[j] # u /\ ~Precedes(u, s[j])
      BY <1>2, <2>1, <3>1
    <3> QED
      BY <3>2, OrderIsTotal DEF Before
  <2>3. ASSUME NEW v \in Q PROVE \E j \in 1 .. i - 1 : s[j] = v
    <3>1. PICK j \in 1 .. n : s[j] = v
      BY <1>3 DEF Surjection, Before
    <3>2. j < i
      BY <1>2, <2>1, <3>1 DEF Before
    <3> QED
      BY <1>1, <3>1, <3>2
  <2>4. f \in Injection(1 .. i - 1, Q) /\ f \in Surjection(1 .. i - 1, Q)
    <3>1. f \in [1 .. i - 1 -> Q]
      BY <2>2
    <3>2. \A j, k \in 1 .. i - 1 : f[j] = f[k] => j = k
      BY <1>1, <1>2, <2>1
    <3>3. \A v \in Q : \E j \in 1 .. i - 1 : f[j] = v
      BY <2>3
    <3> HIDE DEF f, Q
    <3>4. IsInjective(f)
      BY <3>1, <3>2 DEF IsInjective
    <3> QED
      BY <3>1, <3>3, <3>4 DEF Injection, Surjection
  <2>5. IsFiniteSet(1 .. i - 1) /\ Cardinality(1 .. i - 1) = i - 1
    <3>1. i \in Nat /\ 1 <= i
      BY <1>1, <2>1
    <3>2. 1 \in Int /\ i - 1 \in Int /\ (i - 1) - 1 + 1 = i - 1 /\ (1 > i - 1 => i - 1 = 0)
      BY <3>1
    <3> QED
      BY <3>2, FS_Interval
  <2>6. Cardinality(Q) = i - 1
    BY <2>4, <2>5, FS_Surjection
  <2> QED
    BY <2>1, <2>6
<1> QED
  BY <1>1, <1>2, <1>4

-----------------------------------------------------------------------------
(* The inductive invariant of the administrator's reads.                   *)

ReaderTypes ==
  /\ reading \in {"nothing", "list", "page", "user", "done"}
  /\ filter \in SUBSET Accounts /\ page \in Nat \ {0}
  /\ rows \in SUBSET users
  /\ since \in SUBSET Matching
  /\ IsFiniteSet(users)

Shown(u) == \E v \in shown : v.account = u

\* An account the walk has not come to is behind the offset of the next page.
Walk ==
  /\ reading = "nothing" => page = 1
  /\ reading = "list" =>
       \A u \in since : Shown(u) \/ Cardinality(Ahead(u)) >= Offset
  /\ reading = "page" =>
       \A u \in since : \/ Shown(u) \/ u \in rows
                        \/ rows # {} /\ Cardinality(Ahead(u)) >= Offset + Limit

ReadInv == ReaderTypes /\ CustomersHaveWallets /\ Walk

LEMMA InitReadInv == DirectoryInit => ReadInv
BY FS_EmptySet
DEF DirectoryInit, Init, InitReader, ReadInv, ReaderTypes, CustomersHaveWallets, Walk, Matching

\* A new account moves no account ahead.
LEMMA OnboardingKeepsReadInv ==
  ASSUME Inv, ReadInv, [Next]_vars, UNCHANGED readerVars
  PROVE  ReadInv'
<1>1. users \subseteq users' /\ IsFiniteSet(users')
  BY OneMoreUser, FS_AddElement DEF ReadInv, ReaderTypes
<1>2. \A u : /\ Ahead(u) \in SUBSET Ahead(u)'
             /\ IsFiniteSet(Ahead(u)')
             /\ Cardinality(Ahead(u)) \in Nat /\ Cardinality(Ahead(u)') \in Nat
             /\ Cardinality(Ahead(u)) <= Cardinality(Ahead(u)')
  <2> TAKE u
  <2>1. Ahead(u) \in SUBSET Ahead(u)' /\ Ahead(u)' \in SUBSET users'
    BY <1>1 DEF Ahead, Before, Matching, readerVars, Precedes
  <2>2. IsFiniteSet(Ahead(u)')
    BY <1>1, <2>1, FS_Subset
  <2> QED
    BY <2>1, <2>2, FS_Subset, FS_CardinalityType
<1>3. ReaderTypes'
  BY <1>1 DEF ReadInv, ReaderTypes, Matching, readerVars
<1>4. CustomersHaveWallets'
  BY DEF ReadInv, CustomersHaveWallets, readerVars
<1>5. UNCHANGED <<reading, page, rows, since, shown>> /\ Offset \in Nat /\ Offset' = Offset
  BY DEF readerVars, ReadInv, ReaderTypes, Offset
<1>6. Walk'
  BY <1>2, <1>5 DEF ReadInv, Walk, Shown
<1> QED
  BY <1>3, <1>4, <1>6 DEF ReadInv

\* What the walk counts is finite.
LEMMA Counts ==
  ASSUME ReadInv
  PROVE  /\ IsFiniteSet(Matching) /\ Offset \in Nat
         /\ \A u : IsFiniteSet(Ahead(u)) /\ Cardinality(Ahead(u)) \in Nat
<1>1. IsFiniteSet(users) /\ page \in Nat \ {0}
  BY DEF ReadInv, ReaderTypes
<1>2. Matching \in SUBSET users /\ \A u : Ahead(u) \in SUBSET users
  BY DEF Matching, Ahead, Before
<1>3. Offset \in Nat
  BY <1>1 DEF Offset
<1> QED
  BY <1>1, <1>2, <1>3, FS_Subset, FS_CardinalityType

LEMMA ListInv ==
  ASSUME Inv, ReadInv, List, UNCHANGED vars
  PROVE  ReadInv'
<1>1. PICK s \in Listings(Matching) :
        rows' = {s[i] : i \in (Offset + 1 .. Offset + Limit) \cap DOMAIN s}
  BY DEF List, Matching
<1>2. /\ reading = "list" /\ reading' = "page"
      /\ UNCHANGED <<users, filter, page, since, shown>>
  BY DEF List, vars
<1>3. Matching \in SUBSET Accounts /\ IsFiniteSet(Matching) /\ Offset \in Nat /\ Limit \in Nat \ {0}
  BY Counts DEF Inv, TypeOK, Matching
<1>4. /\ DOMAIN s = 1 .. Cardinality(Matching) /\ Cardinality(Matching) \in Nat
      /\ \A i \in DOMAIN s : s[i] \in Matching
      /\ \A u \in Matching : \E i \in DOMAIN s : s[i] = u /\ Cardinality(Ahead(u)) = i - 1
  BY <1>1, <1>3, ListingPlaces DEF Ahead
<1>5. rows' \in SUBSET users
  <2>1. \A i \in (Offset + 1 .. Offset + Limit) \cap DOMAIN s : s[i] \in users
    BY <1>4 DEF Matching
  <2> QED
    BY <1>1, <2>1
<1>6. \A u : Ahead(u)' = Ahead(u) /\ (Shown(u)' <=> Shown(u))
  BY <1>2 DEF Ahead, Before, Matching, Shown
<1>7. Offset' = Offset
  BY <1>2 DEF Offset
<1>8. ASSUME NEW u \in since, ~Shown(u)
      PROVE  u \in rows' \/ (rows' # {} /\ Cardinality(Ahead(u)) >= Offset + Limit)
  <2>1. Cardinality(Ahead(u)) >= Offset /\ u \in Matching
    BY <1>2, <1>8 DEF ReadInv, Walk, ReaderTypes
  <2>2. PICK i \in DOMAIN s : s[i] = u /\ Cardinality(Ahead(u)) = i - 1
    BY <1>4, <2>1
  <2>3. CASE i <= Offset + Limit
    BY <1>1, <1>3, <1>4, <2>1, <2>2, <2>3
  <2>4. CASE i > Offset + Limit
    <3>1. Offset + 1 \in (Offset + 1 .. Offset + Limit) \cap DOMAIN s
      BY <1>3, <1>4, <2>2, <2>4
    <3>2. rows' # {}
      BY <1>1, <3>1
    <3>3. Cardinality(Ahead(u)) >= Offset + Limit
      BY <1>3, <1>4, <2>2, <2>4
    <3> QED
      BY <3>2, <3>3
  <2> QED
    BY <1>3, <1>4, <2>3, <2>4
<1>9. ReaderTypes'
  BY <1>2, <1>5 DEF ReadInv, ReaderTypes, Matching
<1>10. Walk'
  BY <1>2, <1>6, <1>7, <1>8 DEF Walk
<1>11. CustomersHaveWallets'
  BY <1>2 DEF ReadInv, CustomersHaveWallets
<1> QED
  BY <1>9, <1>10, <1>11 DEF ReadInv

LEMMA ShowInv ==
  ASSUME Inv, ReadInv, ShowWithWallets, UNCHANGED vars
  PROVE  ReadInv'
<1>1. /\ shown' = shown \cup {ToAdminUserView(u, FindByUserIds(rows)) : u \in rows}
      /\ reading \in {"page", "user"} /\ rows # {} /\ rows' = {}
      /\ UNCHANGED <<users, filter, since>>
  BY DEF ShowWithWallets, vars
<1>2. \/ reading = "page" /\ reading' = "list" /\ page' = page + 1
      \/ reading = "user" /\ reading' = "done" /\ page' = page
  BY <1>1 DEF ShowWithWallets
<1>3. \A u : /\ Shown(u) => Shown(u)'
             /\ u \in rows => Shown(u)'
  <2> TAKE u
  <2>1. Shown(u) => Shown(u)'
    BY <1>1 DEF Shown
  <2>2. ASSUME u \in rows PROVE Shown(u)'
    <3> DEFINE v == ToAdminUserView(u, FindByUserIds(rows))
    <3>1. v \in shown'
      BY <1>1, <2>2
    <3>2. v.account = u
      BY DEF ToAdminUserView
    <3> QED
      BY <3>1, <3>2 DEF Shown
  <2> QED
    BY <2>1, <2>2
<1>4. \A u : Ahead(u)' = Ahead(u)
  BY <1>1 DEF Ahead, Before, Matching
<1>5. ReaderTypes'
  BY <1>1, <1>2 DEF ReadInv, ReaderTypes, Matching
<1>6. CustomersHaveWallets'
  <2>1. ASSUME NEW u \in rows
        PROVE  LET v == ToAdminUserView(u, FindByUserIds(rows)) IN
               v.wallet <=> v.account \in SignUps
    <3>1. u \in FindByUserIds(rows) <=> u \in SignUps
      BY DEF FindByUserIds, Inv, TypeOK, ReadInv, ReaderTypes
    <3> QED
      BY <3>1 DEF ToAdminUserView
  <2> QED
    BY <1>1, <2>1 DEF ReadInv, CustomersHaveWallets
<1>7. Walk'
  <2>1. CASE reading = "page"
    <3>1. reading' = "list" /\ page' = page + 1
      BY <1>2, <2>1
    <3>2. Offset' = Offset + Limit
      <4>1. page \in Nat \ {0} /\ Limit \in Nat
        BY DEF ReadInv, ReaderTypes
      <4>2. \A p, l \in Nat : ((p + 1) - 1) * l = (p - 1) * l + l
        OBVIOUS
      <4> QED
        BY <3>1, <4>1, <4>2 DEF Offset
    <3>3. ASSUME NEW u \in since, ~Shown(u)' PROVE Cardinality(Ahead(u)) >= Offset + Limit
      BY <1>3, <2>1, <3>3 DEF ReadInv, Walk
    <3> QED
      BY <1>1, <1>4, <3>1, <3>2, <3>3 DEF Walk
  <2>2. CASE reading = "user"
    BY <1>2, <2>2 DEF Walk
  <2> QED
    BY <1>2, <2>1, <2>2
<1> QED
  BY <1>5, <1>6, <1>7 DEF ReadInv

LEMMA StepReadInv ==
  Inv /\ ReadInv /\ [DirectoryNext]_<<vars, readerVars>> => ReadInv'
<1> SUFFICES ASSUME Inv, ReadInv, [DirectoryNext]_<<vars, readerVars>> PROVE ReadInv'
  OBVIOUS
<1>1. CASE [Next]_vars /\ UNCHANGED readerVars
  BY <1>1, OnboardingKeepsReadInv
<1>2. ASSUME NEW f \in Filters, StartWalk(f), UNCHANGED vars PROVE ReadInv'
  <2>1. /\ reading = "nothing" /\ reading' = "list" /\ filter' = f /\ since' = users \cap f
        /\ UNCHANGED <<users, page, rows, shown>>
    BY <1>2 DEF StartWalk, vars
  <2>2. ReaderTypes'
    BY <2>1 DEF ReadInv, ReaderTypes, Matching
  <2>3. CustomersHaveWallets'
    BY <2>1 DEF ReadInv, CustomersHaveWallets
  <2>4. Offset' = 0
    <3>1. page' = 1 /\ Limit \in Nat
      BY <2>1 DEF ReadInv, Walk
    <3>2. \A l \in Nat : (1 - 1) * l = 0
      OBVIOUS
    <3> QED
      BY <3>1, <3>2 DEF Offset
  <2>5. \A u : Cardinality(Ahead(u)') \in Nat
    <3>1. \A u : Ahead(u)' \in SUBSET users' /\ IsFiniteSet(users')
      BY <2>2 DEF Ahead, Before, Matching, ReaderTypes
    <3> QED
      BY <3>1, FS_Subset, FS_CardinalityType
  <2>6. Walk'
    BY <2>1, <2>4, <2>5 DEF Walk
  <2> QED
    BY <2>2, <2>3, <2>6 DEF ReadInv
<1>3. CASE List /\ UNCHANGED vars
  BY <1>3, ListInv
<1>4. ASSUME NEW u \in Accounts, FindById(u), UNCHANGED vars PROVE ReadInv'
  BY <1>4 DEF FindById, vars, ReadInv, ReaderTypes, CustomersHaveWallets, Walk, Matching
<1>5. CASE ShowWithWallets /\ UNCHANGED vars
  BY <1>5, ShowInv
<1>6. CASE EndWalk /\ UNCHANGED vars
  BY <1>6 DEF EndWalk, vars, ReadInv, ReaderTypes, CustomersHaveWallets, Walk, Matching
<1> QED
  BY <1>1, <1>2, <1>3, <1>4, <1>5, <1>6 DEF DirectoryNext, Read

LEMMA ReadInvariance == DirectorySpec => []ReadInv
BY OnboardingInv, InitReadInv, StepReadInv, PTL DEF DirectorySpec

-----------------------------------------------------------------------------
(* Theorems.                                                               *)

\* No view shows a customer without its wallet or an administrator with one.
THEOREM ViewsAreWhole == DirectorySpec => []CustomersHaveWallets
BY ReadInvariance, PTL DEF ReadInv

\* A walk through the pages comes to every account that was there when it began:
\* accounts created meanwhile only push accounts back, never ahead of the offset.
THEOREM WalksAreComplete == DirectorySpec => []WalkSkipsNobody
<1>1. ReadInv => WalkSkipsNobody
  BY DEF ReadInv, Walk, WalkSkipsNobody, Shown
<1> QED
  BY <1>1, ReadInvariance, PTL
=============================================================================
