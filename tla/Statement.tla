------------------------------ MODULE Statement ------------------------------
(***************************************************************************)
(* A client reads the statement of one wallet page by page while money     *)
(* transactions go on.  A page is one SELECT on the committed lines; the   *)
(* cursor in its answer is the client's to send back, any time later.      *)
(***************************************************************************)
EXTENDS Wallets, FiniteSetsExt, SequencesExt

CONSTANTS
  Reader, \* the wallet whose owner reads
  Limit   \* items per page

ASSUME StatementAssumption ==
  /\ Reader \in Wallets
  /\ Limit \in Nat \ {0}
  /\ FirstEntryId % 2 = 0

VARIABLES
  cursor,   \* next_cursor of the last page; Null once there is none
  items,    \* the items of the pages received, in order; Null before the first
  atOpening \* the lines that were visible when the first page was read

readerVars == <<cursor, items, atOpening>>

\* ORDER BY e.id DESC.
NewestFirst(lines) ==
  {s \in SetToSeqs(lines) : \A i, j \in DOMAIN s : i < j => s[i].id > s[j].id}

Take(s, n) == SubSeq(s, 1, IF n < Len(s) THEN n ELSE Len(s))

\* Slip of ListStatement: the cursor's own line is read again.
ListStatementFrom(lines, before, n) ==
  {Take(s, n) : s \in NewestFirst({e \in lines : before # Null => e.id <= before})}

\* What WHERE e.id < cursor ORDER BY e.id DESC LIMIT n may return.
ListStatement(lines, before, n) ==
  {Take(s, n) : s \in NewestFirst({e \in lines : before # Null => e.id < before})}

\* listForUser: one row more than the page decides whether another page follows.
Page(rows) ==
  LET shown == Take(rows, Limit) IN
  [items |-> shown,
   next_cursor |-> IF Len(rows) > Limit THEN shown[Len(shown)].id ELSE Null]

Pages(before) == {Page(rows) : rows \in ListStatement(LinesOf(Reader), before, Limit + 1)}

InitStatement == cursor = Null /\ items = Null /\ atOpening = Null

\* GET /transactions without a cursor.
FirstPage ==
  /\ items = Null
  /\ \E page \in Pages(Null) : items' = page.items /\ cursor' = page.next_cursor
  /\ atOpening' = LinesOf(Reader)
  /\ UNCHANGED vars

\* GET /transactions?cursor=... with the cursor of the page before.
FollowingPage ==
  /\ cursor # Null
  /\ \E page \in Pages(cursor) : items' = items \o page.items /\ cursor' = page.next_cursor
  /\ UNCHANGED <<vars, atOpening>>

\* The lines of one posting are inserted together and get consecutive ids, the
\* first of them even: half the id stands for their header and its reference.
Reference(e) == e.id \div 2

\* What the caller's wallet has under a reference; .first() takes one of them,
\* and none is a 404.
FindStatementItemByReference(ref, w) == {e \in LinesOf(w) : Reference(e) = ref}

\* assertBalanced: two lines at least, and each direction adds up to the amount.
AssertBalanced(lines, amount) ==
  LET total(d) == MapThenSumSet(LAMBDA e : e.amount, {e \in lines : e.direction = d}) IN
  /\ Cardinality(lines) >= 2
  /\ amount > 0 /\ \A e \in lines : e.amount > 0
  /\ total("DEBIT") = amount /\ total("CREDIT") = amount

NextStatement == FirstPage \/ FollowingPage

-----------------------------------------------------------------------------
\* The pages, joined, are the statement as it stood when the first was read:
\* newest line first, none twice, and down to the cursor none missing, whatever
\* commits between the pages ("stable under concurrent inserts").
PagesAreTheStatement ==
  items # Null =>
    /\ \A i \in 1 .. Len(items) - 1 : items[i].id > items[i + 1].id
    /\ ToSet(items) = {e \in atOpening : cursor # Null => e.id >= cursor}

\* A reference names one posting, whole and balanced from the moment it can be
\* seen, with one line at most for a wallet: getByReference needs no order to
\* answer with the caller's own line (SELF_TRANSFER keeps out the second one).
ReferencesAreExact ==
  \A e \in entries :
    /\ AssertBalanced({f \in entries : Reference(f) = Reference(e)}, e.amount)
    /\ e.wallet # Null => FindStatementItemByReference(Reference(e), e.wallet) = {e}
=============================================================================
