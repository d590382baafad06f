------------------------------ MODULE Directory ------------------------------
(***************************************************************************)
(* The administrator's view of the accounts while they are being created.  *)
(* listUsers reads a page of `users` and then the wallets of that page, in *)
(* two statements outside a transaction, and the next page is found by its *)
(* offset; getUser reads one account and then its wallet.                  *)
(***************************************************************************)
EXTENDS Onboarding, SequencesExt

CONSTANTS
  Id,        \* users.id of each account
  CreatedAt, \* the second users.created_at holds
  Filters,   \* what a query may match: everyone, a role, the hits of a search
  Limit      \* rows of a page

ASSUME DirectoryAssumption ==
  /\ Id \in [Accounts -> Nat] /\ CreatedAt \in [Accounts -> Nat]
  /\ \A r, q \in Accounts : Id[r] = Id[q] => r = q
  /\ Filters \subseteq SUBSET Accounts
  /\ Limit \in Nat \ {0}

VARIABLES
  reading, \* what the administrator is doing
  filter,  \* the query of the walk through the pages
  page,    \* the page to ask for
  rows,    \* accounts read whose wallets are not read yet
  since,   \* matching accounts that existed when the walk began
  shown    \* views of accounts shown so far

readerVars == <<reading, filter, page, rows, since, shown>>

\* Slip of Precedes: ORDER BY created_at DESC alone.
PrecedesBySecond(r, q) == CreatedAt[r] > CreatedAt[q]

\* ORDER BY created_at DESC, id DESC.
Precedes(r, q) ==
  \/ CreatedAt[r] > CreatedAt[q]
  \/ CreatedAt[r] = CreatedAt[q] /\ Id[r] > Id[q]

\* The orders in which the ORDER BY lets MySQL return a set of rows.
Listings(S) ==
  {s \in SetToSeqs(S) :
     \A i, j \in DOMAIN s : Precedes(s[i], s[j]) => i < j}

Offset == (page - 1) * Limit

InitReader ==
  /\ reading = "nothing"
  /\ filter = {} /\ page = 1 /\ rows = {}
  /\ since = {} /\ shown = {}

\* The first page of a query is asked for.
StartWalk(f) ==
  /\ reading = "nothing"
  /\ reading' = "list"
  /\ filter' = f
  /\ since' = users \cap f
  /\ UNCHANGED <<page, rows, shown>>

\* usersRepository.list.  The count beside it is only reported, as total.
List ==
  /\ reading = "list"
  /\ \E s \in Listings(users \cap filter) :
       rows' = {s[i] : i \in (Offset + 1 .. Offset + Limit) \cap DOMAIN s}
  /\ reading' = "page"
  /\ UNCHANGED <<filter, page, since, shown>>

\* findById for getUser; an account that does not exist is a 404.
FindById(u) ==
  /\ reading = "nothing" /\ u \in users
  /\ rows' = {u}
  /\ reading' = "user"
  /\ UNCHANGED <<filter, page, since, shown>>

\* The wallets of the accounts read, by findByUserIds or findByUserId.
FindByUserIds(S) == S \cap wallets

\* An account with its wallet, or with `wallet: null`.
ToAdminUserView(u, found) == [account |-> u, wallet |-> u \in found]

\* The wallets are read, and the accounts shown with them.  After a page that is
\* not empty the administrator asks for the next one.
ShowWithWallets ==
  /\ reading \in {"page", "user"} /\ rows # {}
  /\ shown' = shown \cup {ToAdminUserView(u, FindByUserIds(rows)) : u \in rows}
  /\ rows' = {}
  /\ IF reading = "page"
       THEN reading' = "list" /\ page' = page + 1
       ELSE reading' = "done" /\ UNCHANGED page
  /\ UNCHANGED <<filter, since>>

\* An empty page ends the walk; what it showed is over with.
EndWalk ==
  /\ reading = "page" /\ rows = {}
  /\ reading' = "done"
  /\ filter' = {} /\ page' = 1 /\ since' = {} /\ shown' = {}
  /\ UNCHANGED rows

Read ==
  \/ \E f \in Filters : StartWalk(f)
  \/ \E u \in Accounts : FindById(u)
  \/ List \/ ShowWithWallets \/ EndWalk

DirectoryInit == Init /\ InitReader

DirectoryNext ==
  \/ Next /\ UNCHANGED readerVars
  \/ Read /\ UNCHANGED vars

DirectorySpec ==
  /\ DirectoryInit /\ [][DirectoryNext]_<<vars, readerVars>>
  /\ \A r \in SignUps : WF_vars(Step(r))
  /\ \A a \in Bootstraps : WF_vars(Bootstrap(a))

-----------------------------------------------------------------------------
\* An administrator never sees a customer without its wallet, nor an
\* administrator with one, though the two are read by two statements while
\* accounts are created.
CustomersHaveWallets == \A v \in shown : v.wallet <=> v.account \in SignUps

\* A walk from the first page to an empty one shows every matching account that
\* existed when it began: accounts created meanwhile may shift the pages, so that
\* some are shown twice, but none is skipped.
WalkSkipsNobody ==
  reading = "page" /\ rows = {} =>
    \A u \in since : \E v \in shown : v.account = u
=============================================================================
