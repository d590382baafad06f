---------------------------- MODULE ReadersProofs ----------------------------
(***************************************************************************)
(* What the readers are told, for any wallets, requests, calls and page    *)
(* size, however many transactions commit between two reads: the pages of  *)
(* a statement, the posting behind a reference, and the reconciliation.    *)
(***************************************************************************)
EXTENDS Readers, WalletsProofs, FiniteSetTheorems

USE WalletsAssumption, StatementAssumption DEF WalletsAssumption, StatementAssumption

-----------------------------------------------------------------------------
(* Money goes on under the readers.                                        *)

LEMMA MoneyContinues == NextReaders => [Next]_vars
BY DEF NextReaders, NextStatement, FirstPage, FollowingPage,
       NextReconcile, SelectWalletSums, SelectGlobalSum

LEMMA ReadersLedgerInv == SpecReaders => []LedgerInv
<1>1. LedgerInv /\ [NextReaders]_<<vars, readerVars, reconcileVars>> => LedgerInv'
  BY MoneyContinues, StepLedgerInv
<1> QED
  BY <1>1, InitLedgerInv, PTL DEF SpecReaders, InitReaders

LEMMA LineIds ==
  ASSUME LedgerInv
  PROVE  \A e \in LinesOf(Reader) : e.id \in Nat
BY DEF LedgerInv, TypeInv, TypeOK, LinesOf, WalletLine, SystemLine

\* A commit adds one line to the reader's wallet at most.
LEMMA OneMoreLine ==
  ASSUME LedgerInv, [Next]_vars
  PROVE  \/ LinesOf(Reader)' = LinesOf(Reader)
         \/ \E e : LinesOf(Reader)' = LinesOf(Reader) \cup {e}
<1>1. CASE entries' = entries
  BY <1>1 DEF LinesOf
<1>2. ASSUME NEW r \in Requests, Commit(r)
      PROVE  \/ LinesOf(Reader)' = LinesOf(Reader)
             \/ \E e : LinesOf(Reader)' = LinesOf(Reader) \cup {e}
  <2>1. entries' = entries \cup posted[r]
    BY <1>2 DEF Commit
  <2>2. ASSUME NEW e \in posted[r], e.wallet = Reader,
               NEW f \in posted[r], f.wallet = Reader
        PROVE  f = e
    BY <2>2 DEF LedgerInv, Pending, PendingLine
  <2>3. CASE \E e \in posted[r] : e.wallet = Reader
    <3>1. PICK e \in posted[r] : e.wallet = Reader
      BY <2>3
    <3>2. LinesOf(Reader)' = LinesOf(Reader) \cup {e}
      BY <2>1, <2>2, <3>1 DEF LinesOf
    <3> QED
      BY <3>2
  <2>4. CASE \A e \in posted[r] : e.wallet # Reader
    BY <2>1, <2>4 DEF LinesOf
  <2> QED
    BY <2>3, <2>4
<1> QED
  BY <1>1, <1>2, OnlyCommitWrites

-----------------------------------------------------------------------------
(* One page.                                                               *)

Descending(s) == \A i, j \in 1 .. Len(s) : i < j => s[i].id > s[j].id

\* The lines of S down to the cursor.
DownTo(S, next) == {e \in S : next # Null => e.id >= next}

LEMMA NewestFirstShowsAll ==
  ASSUME NEW S, IsFiniteSet(S), NEW s \in NewestFirst(S)
  PROVE  s \in Seq(S) /\ Descending(s) /\ ToSet(s) = S
<1> DEFINE n == Cardinality(S)
<1>1. n \in Nat
  BY FS_CardinalityType
<1>2. /\ s \in [1 .. n -> S]
      /\ \A i, j \in 1 .. n : i # j => s[i] # s[j]
      /\ \A i, j \in DOMAIN s : i < j => s[i].id > s[j].id
  BY DEF NewestFirst, SetToSeqs
<1>3. s \in Seq(S) /\ Len(s) = n
  BY <1>1, <1>2
<1>4. s \in Surjection(1 .. n, S)
  <2>1. s \in Injection(1 .. n, S)
    BY <1>2 DEF Injection, IsInjective
  <2>2. Cardinality(1 .. n) = n
    BY <1>1, FS_Interval
  <2> QED
    BY <2>1, <2>2, FS_Injection
<1>5. ToSet(s) = S
  <2>1. \A e \in S : \E i \in DOMAIN s : s[i] = e
    BY <1>2, <1>4 DEF Surjection
  <2> QED
    BY <1>2, <2>1 DEF ToSet
<1> QED
  BY <1>2, <1>3, <1>5 DEF Descending

LEMMA MembersOf ==
  ASSUME NEW S, NEW s \in Seq(S), NEW e
  PROVE  e \in ToSet(s) <=> \E i \in 1 .. Len(s) : s[i] = e
BY DEF ToSet

LEMMA TakeIsPrefix ==
  ASSUME NEW S, NEW s \in Seq(S), NEW n \in Nat
  PROVE  /\ Take(s, n) \in Seq(S)
         /\ Len(Take(s, n)) = IF n < Len(s) THEN n ELSE Len(s)
         /\ \A i \in 1 .. Len(Take(s, n)) : i \in 1 .. Len(s) /\ Take(s, n)[i] = s[i]
BY DEF Take

\* A page below a cursor continues the pages down to it.
LEMMA Joined ==
  ASSUME NEW S, \A e \in S : e.id \in Nat, NEW c \in Nat,
         NEW s \in Seq(S), Descending(s), \A e \in ToSet(s) : e.id >= c,
         NEW t \in Seq(S), Descending(t), \A e \in ToSet(t) : e.id < c
  PROVE  /\ s \o t \in Seq(S) /\ Descending(s \o t)
         /\ ToSet(s \o t) = ToSet(s) \cup ToSet(t)
<1> DEFINE n == Len(s)
           st == s \o t
<1>1. n \in Nat /\ Len(t) \in Nat /\ st \in Seq(S) /\ Len(st) = n + Len(t)
  OBVIOUS
<1>2. \A i \in 1 .. n : i \in 1 .. Len(st) /\ st[i] = s[i]
  BY <1>1
<1>3. \A i \in 1 .. Len(t) : n + i \in 1 .. Len(st) /\ st[n + i] = t[i]
  BY <1>1
<1>4. \A i \in 1 .. Len(st) : i > n => i - n \in 1 .. Len(t) /\ st[i] = t[i - n]
  BY <1>1
<1>5. \A e : /\ e \in ToSet(s) <=> \E i \in 1 .. n : s[i] = e
             /\ e \in ToSet(t) <=> \E i \in 1 .. Len(t) : t[i] = e
             /\ e \in ToSet(st) <=> \E i \in 1 .. Len(st) : st[i] = e
  BY <1>1, MembersOf
<1>6. /\ \A i \in 1 .. n : s[i].id \in Nat /\ s[i].id >= c
      /\ \A i \in 1 .. Len(t) : t[i].id \in Nat /\ t[i].id < c
  <2>1. /\ \A i \in 1 .. n : s[i] \in S /\ s[i] \in ToSet(s)
        /\ \A i \in 1 .. Len(t) : t[i] \in S /\ t[i] \in ToSet(t)
    BY <1>1, <1>5
  <2> QED
    BY <2>1
<1> HIDE DEF n, st
<1>7. ASSUME NEW i \in 1 .. Len(st), NEW j \in 1 .. Len(st), i < j
      PROVE  st[i].id > st[j].id
  <2>1. CASE j <= n
    <3>1. i \in 1 .. n /\ j \in 1 .. n
      BY <1>1, <1>7, <2>1
    <3>2. s[i].id > s[j].id
      BY <1>7, <3>1 DEF Descending, n
    <3> QED
      BY <1>2, <3>1, <3>2
  <2>2. CASE i <= n /\ j > n
    <3>1. i \in 1 .. n /\ j - n \in 1 .. Len(t) /\ st[j] = t[j - n] /\ st[i] = s[i]
      BY <1>1, <1>2, <1>4, <2>2
    <3>2. s[i].id \in Nat /\ s[i].id >= c /\ t[j - n].id \in Nat /\ t[j - n].id < c
      BY <1>6, <3>1
    <3> QED
      BY <3>1, <3>2
  <2>3. CASE i > n
    <3>1. j > n /\ i - n < j - n
      BY <1>1, <1>7, <2>3
    <3>2. /\ i - n \in 1 .. Len(t) /\ st[i] = t[i - n]
          /\ j - n \in 1 .. Len(t) /\ st[j] = t[j - n]
      BY <1>4, <2>3, <3>1
    <3> QED
      BY <3>1, <3>2 DEF Descending
  <2> QED
    BY <1>1, <2>1, <2>2, <2>3
<1>8. ToSet(st) = ToSet(s) \cup ToSet(t)
  <2>1. ASSUME NEW e \in ToSet(st) PROVE e \in ToSet(s) \cup ToSet(t)
    <3>1. PICK i \in 1 .. Len(st) : st[i] = e
      BY <1>5
    <3>2. CASE i <= n
      <4>1. i \in 1 .. n
        BY <1>1, <3>2
      <4> QED
        BY <1>2, <1>5, <3>1, <4>1
    <3>3. CASE i > n
      BY <1>4, <1>5, <3>1, <3>3
    <3> QED
      BY <1>1, <3>2, <3>3
  <2>2. ASSUME NEW e \in ToSet(s) PROVE e \in ToSet(st)
    BY <1>2, <1>5
  <2>3. ASSUME NEW e \in ToSet(t) PROVE e \in ToSet(st)
    BY <1>3, <1>5
  <2> QED
    BY <2>1, <2>2, <2>3
<1> QED
  BY <1>1, <1>7, <1>8 DEF Descending, st

\* A page shows the newest of the lines it selects, down to its cursor, and all
\* of them when it has none.
LEMMA PageIsExact ==
  ASSUME NEW S, IsFiniteSet(S), \A e \in S : e.id \in Nat,
         NEW s \in NewestFirst(S), NEW page, page = Page(Take(s, Limit + 1))
  PROVE  /\ page.items \in Seq(S) /\ Descending(page.items)
         /\ ToSet(page.items) = DownTo(S, page.next_cursor)
         /\ page.next_cursor # Null => \E e \in S : e.id = page.next_cursor
<1> DEFINE rows == Take(s, Limit + 1)
           shown == Take(rows, Limit)
<1>1. s \in Seq(S) /\ Descending(s) /\ ToSet(s) = S /\ Len(s) \in Nat
  BY NewestFirstShowsAll
<1>2. Limit \in Nat \ {0} /\ Limit + 1 \in Nat
  OBVIOUS
<1>3. /\ rows \in Seq(S)
      /\ Len(rows) = IF Limit + 1 < Len(s) THEN Limit + 1 ELSE Len(s)
      /\ \A i \in 1 .. Len(rows) : i \in 1 .. Len(s) /\ rows[i] = s[i]
  BY <1>1, <1>2, TakeIsPrefix
<1>4. /\ shown \in Seq(S)
      /\ Len(shown) = IF Limit < Len(rows) THEN Limit ELSE Len(rows)
      /\ \A i \in 1 .. Len(shown) : i \in 1 .. Len(rows) /\ shown[i] = rows[i]
  BY <1>2, <1>3, TakeIsPrefix
<1>5. /\ page.items = shown
      /\ Len(rows) > Limit => page.next_cursor = shown[Len(shown)].id
      /\ ~(Len(rows) > Limit) => page.next_cursor = Null
  BY DEF Page
<1> HIDE DEF rows, shown
<1>6. /\ Len(shown) \in Nat /\ Len(shown) <= Len(s)
      /\ \A i \in 1 .. Len(shown) : i \in 1 .. Len(s) /\ shown[i] = s[i]
  BY <1>1, <1>2, <1>3, <1>4
<1>7. Descending(shown)
  BY <1>1, <1>6 DEF Descending
<1>8. \A e \in S : \E i \in 1 .. Len(s) : s[i] = e
  BY <1>1 DEF ToSet
<1>9. \A e : e \in ToSet(shown) <=> \E i \in 1 .. Len(shown) : s[i] = e
  <2>1. \A e : e \in ToSet(shown) <=> \E i \in 1 .. Len(shown) : shown[i] = e
    BY <1>4, MembersOf
  <2> QED
    BY <1>6, <2>1
<1>10. CASE Len(rows) > Limit
  <2> DEFINE last == s[Limit]
  <2>1. Len(shown) = Limit /\ Limit \in 1 .. Len(s) /\ last \in S /\ last.id \in Nat
    BY <1>1, <1>2, <1>3, <1>4, <1>10
  <2>2. page.next_cursor = last.id /\ page.next_cursor # Null
    <3>1. Len(shown) \in 1 .. Len(shown) /\ shown[Len(shown)] = s[Len(shown)]
      BY <1>2, <1>6, <2>1
    <3>2. page.next_cursor = s[Limit].id
      BY <1>5, <1>10, <2>1, <3>1
    <3> QED
      BY <2>1, <3>2
  <2>3. \A i \in 1 .. Len(s) : s[i] \in S /\ s[i].id \in Nat
    BY <1>1
  <2>4. \A i \in 1 .. Len(s) : i <= Limit <=> s[i].id >= last.id
    BY <1>1, <1>2, <2>1, <2>3 DEF Descending
  <2>5. \A e \in S : e \in ToSet(shown) <=> e.id >= last.id
    <3>1. ASSUME NEW e \in S, e \in ToSet(shown) PROVE e.id >= last.id
      BY <1>1, <1>9, <2>1, <2>4, <3>1
    <3>2. ASSUME NEW e \in S, e.id >= last.id PROVE e \in ToSet(shown)
      <4>1. PICK i \in 1 .. Len(s) : s[i] = e
        BY <1>8, <3>2
      <4>2. i \in 1 .. Len(shown)
        BY <1>1, <2>1, <2>4, <3>2, <4>1
      <4> QED
        BY <1>9, <4>1, <4>2
    <3> QED
      BY <3>1, <3>2
  <2>6. ToSet(shown) \subseteq S
    BY <1>9, <2>1, <2>3
  <2> QED
    BY <1>4, <1>5, <1>7, <2>1, <2>2, <2>5, <2>6 DEF DownTo
<1>11. CASE ~(Len(rows) > Limit)
  <2>1. Len(shown) = Len(s)
    BY <1>1, <1>2, <1>3, <1>4, <1>11
  <2>2. \A e : e \in ToSet(shown) <=> e \in S
    BY <1>1, <1>8, <1>9, <2>1
  <2> QED
    BY <1>4, <1>5, <1>7, <1>11, <2>2 DEF DownTo
<1> QED
  BY <1>10, <1>11

-----------------------------------------------------------------------------
(* The inductive invariant of the pages.                                   *)

\* What was received is the statement as it stood at the first page, down to the
\* cursor, which is one of its lines; what came since is newer than all of it.
Received ==
  /\ atOpening \subseteq LinesOf(Reader)
  /\ \A e \in atOpening, f \in LinesOf(Reader) \ atOpening : e.id < f.id
  /\ items \in Seq(atOpening) /\ Descending(items)
  /\ ToSet(items) = DownTo(atOpening, cursor)
  /\ cursor # Null => \E e \in atOpening : e.id = cursor

PagesInv ==
  /\ IsFiniteSet(LinesOf(Reader))
  /\ (items = Null /\ cursor = Null) \/ Received

LEMMA InitPagesInv == InitReaders => PagesInv
<1> SUFFICES ASSUME InitReaders PROVE PagesInv
  OBVIOUS
<1> DEFINE first == Line(2*Reader, Reader, "CREDIT", Opening[Reader], Opening[Reader])
<1>1. LinesOf(Reader) \in SUBSET {first}
  <2>1. ASSUME NEW e \in LinesOf(Reader) PROVE e = first
    <3>1. PICK w \in Wallets : e \in {Line(2*w, w, "CREDIT", Opening[w], Opening[w]),
                                      Line(2*w + 1, Null, "DEBIT", Opening[w], Null)}
      BY DEF InitReaders, Init, LinesOf
    <3>2. e.wallet = Reader /\ Reader # Null
      BY DEF LinesOf
    <3> QED
      BY <3>1, <3>2 DEF Line
  <2> QED
    BY <2>1
<1>2. IsFiniteSet(LinesOf(Reader))
  <2>1. IsFiniteSet({first})
    BY FS_Singleton
  <2> QED
    BY <1>1, <2>1, FS_Subset
<1> QED
  BY <1>2 DEF InitReaders, InitStatement, PagesInv

\* A commit adds lines above those the reader saw.
LEMMA MoneyKeepsPagesInv ==
  ASSUME LedgerInv, PagesInv, [Next]_vars, UNCHANGED readerVars
  PROVE  PagesInv'
<1>1. IsFiniteSet(LinesOf(Reader)')
  BY OneMoreLine, FS_AddElement DEF PagesInv
<1>2. LinesOf(Reader) \subseteq LinesOf(Reader)'
  BY OneMoreLine
<1>3. \A e \in LinesOf(Reader), f \in LinesOf(Reader)' \ LinesOf(Reader) : e.id < f.id
  <2>1. \A f \in LinesOf(Reader)' \ LinesOf(Reader) : f \in entries' \ entries /\ f.wallet = Reader
    BY DEF LinesOf
  <2> QED
    BY <2>1, NewerLines
<1>4. UNCHANGED <<cursor, items, atOpening>>
  BY DEF readerVars
<1>5. Received => Received'
  BY <1>2, <1>3, <1>4 DEF Received
<1> QED
  BY <1>1, <1>4, <1>5 DEF PagesInv

LEMMA FirstPageInv ==
  ASSUME LedgerInv, PagesInv, FirstPage
  PROVE  PagesInv'
<1> DEFINE S == LinesOf(Reader)
<1>1. PICK s \in NewestFirst({e \in S : Null # Null => e.id < Null}) :
        LET page == Page(Take(s, Limit + 1)) IN
        items' = page.items /\ cursor' = page.next_cursor
  BY DEF FirstPage, Pages, ListStatement
<1>2. {e \in S : Null # Null => e.id < Null} = S
  OBVIOUS
<1>3. atOpening' = S /\ LinesOf(Reader)' = S
  BY DEF FirstPage, vars, LinesOf
<1>4. /\ items' \in Seq(S) /\ Descending(items')
      /\ ToSet(items') = DownTo(S, cursor')
      /\ cursor' # Null => \E e \in S : e.id = cursor'
  BY <1>1, <1>2, PageIsExact, LineIds DEF PagesInv
<1> QED
  BY <1>3, <1>4 DEF PagesInv, Received

LEMMA FollowingPageInv ==
  ASSUME LedgerInv, PagesInv, FollowingPage
  PROVE  PagesInv'
<1> DEFINE S == {e \in LinesOf(Reader) : cursor # Null => e.id < cursor}
<1>1. PICK s \in NewestFirst(S) :
        LET page == Page(Take(s, Limit + 1)) IN
        items' = items \o page.items /\ cursor' = page.next_cursor
  BY DEF FollowingPage, Pages, ListStatement
<1> DEFINE more == Page(Take(s, Limit + 1)).items
<1>2. /\ cursor # Null /\ UNCHANGED <<atOpening, LinesOf(Reader)>>
      /\ Received
  BY DEF FollowingPage, vars, LinesOf, PagesInv
<1>3. /\ \A e \in LinesOf(Reader) : e.id \in Nat
      /\ atOpening \subseteq LinesOf(Reader)
      /\ cursor \in Nat
  BY <1>2, LineIds DEF Received
<1>4. S = {e \in atOpening : e.id < cursor}
  <2>1. \A e \in S : e \in atOpening
    BY <1>2, <1>3 DEF Received
  <2> QED
    BY <1>2, <1>3, <2>1
<1>5. /\ more \in Seq(S) /\ Descending(more)
      /\ ToSet(more) = DownTo(S, cursor')
      /\ cursor' # Null => \E e \in S : e.id = cursor'
  <2>1. IsFiniteSet(S)
    BY FS_Subset DEF PagesInv
  <2>2. \A e \in S : e.id \in Nat
    BY <1>3
  <2> HIDE DEF S
  <2> QED
    BY <1>1, <2>1, <2>2, PageIsExact
<1>6. items' = items \o more
  BY <1>1
<1> HIDE DEF S, more
<1>7. items \in Seq(atOpening) /\ more \in Seq(atOpening)
  BY <1>2, <1>4, <1>5 DEF Received
<1>8. \A e \in ToSet(items) : e \in atOpening /\ e.id >= cursor
  BY <1>2 DEF Received, DownTo
<1>9. \A e \in ToSet(more) : e \in atOpening /\ e.id < cursor
  BY <1>4, <1>5 DEF DownTo
<1>10. /\ items \o more \in Seq(atOpening) /\ Descending(items \o more)
       /\ ToSet(items \o more) = ToSet(items) \cup ToSet(more)
  <2>1. Descending(items) /\ \A e \in atOpening : e.id \in Nat
    BY <1>2, <1>3 DEF Received
  <2> QED
    BY <1>3, <1>5, <1>7, <1>8, <1>9, <2>1, Joined
<1>11. /\ items' \in Seq(atOpening) /\ Descending(items')
       /\ ToSet(items') = ToSet(items) \cup ToSet(more)
  BY <1>6, <1>10
<1>12. cursor' # Null => cursor' \in Nat /\ cursor' < cursor
  BY <1>3, <1>4, <1>5
<1>13. ToSet(items') = DownTo(atOpening, cursor')
  <2>1. \A e \in atOpening : e.id \in Nat
    BY <1>3
  <2>2. \A e \in atOpening :
          e \in ToSet(items) \cup ToSet(more) <=> (cursor' # Null => e.id >= cursor')
    <3>1. \A e \in atOpening : e \in ToSet(items) <=> e.id >= cursor
      BY <1>2 DEF Received, DownTo
    <3>2. \A e \in atOpening :
            e \in ToSet(more) <=> e.id < cursor /\ (cursor' # Null => e.id >= cursor')
      BY <1>4, <1>5 DEF DownTo
    <3> QED
      BY <1>3, <1>12, <2>1, <3>1, <3>2
  <2> QED
    BY <1>8, <1>9, <1>11, <2>2 DEF DownTo
<1>14. cursor' # Null => \E e \in atOpening : e.id = cursor'
  BY <1>4, <1>5
<1> QED
  BY <1>2, <1>11, <1>13, <1>14 DEF PagesInv, Received

LEMMA StepPagesInv ==
  LedgerInv /\ PagesInv /\ [NextReaders]_<<vars, readerVars, reconcileVars>> => PagesInv'
<1> SUFFICES ASSUME LedgerInv, PagesInv, [NextReaders]_<<vars, readerVars, reconcileVars>>
             PROVE  PagesInv'
  OBVIOUS
<1>1. CASE [Next]_vars /\ UNCHANGED readerVars
  BY <1>1, MoneyKeepsPagesInv
<1>2. CASE NextReconcile /\ UNCHANGED readerVars
  BY <1>2, MoneyKeepsPagesInv DEF NextReconcile, SelectWalletSums, SelectGlobalSum
<1>3. CASE FirstPage
  BY <1>3, FirstPageInv
<1>4. CASE FollowingPage
  BY <1>4, FollowingPageInv
<1> QED
  BY <1>1, <1>2, <1>3, <1>4 DEF NextReaders, NextStatement

-----------------------------------------------------------------------------
(* Theorem.                                                                *)

\* The pages a client joins are the statement as it stood when it read the first:
\* no line twice and, down to the cursor, none missing, whatever commits between.
THEOREM PagesAreStable == SpecReaders => []PagesAreTheStatement
<1>1. PagesInv => PagesAreTheStatement
  <2> SUFFICES ASSUME Received PROVE PagesAreTheStatement
    BY DEF PagesInv, PagesAreTheStatement
  <2>1. Len(items) \in Nat
    BY DEF Received
  <2> QED
    BY <2>1 DEF Received, Descending, DownTo, PagesAreTheStatement
<1> QED
  BY <1>1, InitPagesInv, StepPagesInv, ReadersLedgerInv, PTL DEF SpecReaders

-----------------------------------------------------------------------------
(* Postings.                                                               *)

\* The two lines of one ledger.record.
IsPosting(P) ==
  \E m, t \in P :
    /\ P = {m, t} /\ m.id % 2 = 0 /\ t.id = m.id + 1
    /\ m.amount = t.amount /\ m.direction # t.direction /\ m.wallet # t.wallet

\* Postings are whole, uncommitted and committed.
Whole ==
  /\ nextEntryId % 2 = 0
  /\ \A r \in Requests : posted[r] = {} \/ IsPosting(posted[r])
  /\ \A e \in entries : \E f \in entries : IsPosting({e, f})

\* No two lines have an id in common.
Distinct ==
  /\ \A e, f \in entries : e.id = f.id => e = f
  /\ \A r \in Requests : \A e \in posted[r], f \in entries : e.id # f.id
  /\ \A r, q \in Requests : r # q => \A e \in posted[r], f \in posted[q] : e.id # f.id

PostingsInv == Whole /\ Distinct

\* What a step of the money transactions does to the lines.
LEMMA MoneySteps ==
  ASSUME LedgerInv, [Next]_vars
  PROVE  \/ UNCHANGED <<balance, entries, posted, nextEntryId>>
         \/ \E r \in Requests : /\ posted' = [posted EXCEPT ![r] = {}]
                                /\ UNCHANGED <<balance, entries, nextEntryId>>
         \/ \E r \in Requests : Post(r)
         \/ \E r \in Requests : Commit(r)
BY DEF Next, Step, Begin, AcquireLock, Refuse, UpdateStatus, Abort, Release, committed, vars

LEMMA PostedPair ==
  ASSUME LedgerInv, NEW r \in Requests, Post(r)
  PROVE  \E m, t \in WalletLine \cup SystemLine :
           /\ posted' = [posted EXCEPT ![r] = {m, t}]
           /\ m.id = nextEntryId /\ t.id = nextEntryId + 1
           /\ m.wallet # t.wallet /\ m.amount = t.amount /\ m.direction # t.direction
           /\ nextEntryId' = nextEntryId + 2 /\ entries' = entries
<1>1. nextEntryId' = nextEntryId + 2 /\ entries' = entries
  BY DEF Post, committed
<1> QED
  BY <1>1, PostedLines DEF LedgerInv

LEMMA CommittedPair ==
  ASSUME LedgerInv, NEW r \in Requests, Commit(r)
  PROVE  entries' = entries \cup posted[r] /\ posted' = [posted EXCEPT ![r] = {}]
                                           /\ nextEntryId' = nextEntryId
BY DEF Commit, Release

LEMMA InitPostingsInv == Init => PostingsInv
<1> SUFFICES ASSUME Init PROVE PostingsInv
  OBVIOUS
<1> DEFINE first(w) == Line(2*w, w, "CREDIT", Opening[w], Opening[w])
           system(w) == Line(2*w + 1, Null, "DEBIT", Opening[w], Null)
<1>1. \A e \in entries : \E w \in Wallets : Opening[w] > 0 /\ e \in {first(w), system(w)}
  BY DEF Init
<1>2. \A w \in Wallets : Opening[w] > 0 => first(w) \in entries /\ system(w) \in entries
  BY DEF Init
<1>3. \A w \in Wallets :
        /\ w \in Nat /\ first(w).id = 2*w /\ system(w).id = 2*w + 1
        /\ first(w).amount = system(w).amount /\ first(w).direction # system(w).direction
        /\ first(w).wallet # system(w).wallet
  BY DEF Line
<1> HIDE DEF first, system
<1>4. \A w \in Wallets : IsPosting({first(w), system(w)})
  <2> SUFFICES ASSUME NEW w \in Wallets PROVE IsPosting({first(w), system(w)})
    OBVIOUS
  <2>1. first(w).id % 2 = 0 /\ system(w).id = first(w).id + 1
    BY <1>3
  <2> QED
    BY <1>3, <2>1 DEF IsPosting
<1>5. ASSUME NEW e \in entries PROVE \E f \in entries : IsPosting({e, f})
  <2>1. PICK w \in Wallets : Opening[w] > 0 /\ e \in {first(w), system(w)}
    BY <1>1
  <2>2. first(w) \in entries /\ system(w) \in entries
    BY <1>2, <2>1
  <2>3. {system(w), first(w)} = {first(w), system(w)}
    OBVIOUS
  <2> QED
    BY <1>4, <2>1, <2>2, <2>3
<1>6. ASSUME NEW e \in entries, NEW f \in entries, e.id = f.id PROVE e = f
  <2>1. PICK w \in Wallets : e \in {first(w), system(w)}
    BY <1>1
  <2>2. PICK v \in Wallets : f \in {first(v), system(v)}
    BY <1>1
  <2>3. \A a, b \in Nat : 2*a # 2*b + 1 /\ (2*a = 2*b => a = b) /\ (2*a + 1 = 2*b + 1 => a = b)
    OBVIOUS
  <2> QED
    BY <1>3, <1>6, <2>1, <2>2, <2>3
<1>7. nextEntryId % 2 = 0 /\ \A r \in Requests : posted[r] = {}
  BY DEF Init
<1> QED
  BY <1>5, <1>6, <1>7 DEF PostingsInv, Whole, Distinct

LEMMA StepPostingsInv ==
  ASSUME LedgerInv, PostingsInv, [Next]_vars
  PROVE  PostingsInv'
<1>0. /\ posted \in [Requests -> SUBSET (WalletLine \cup SystemLine)]
      /\ entries \subseteq WalletLine \cup SystemLine /\ nextEntryId \in Nat
  BY DEF LedgerInv, TypeInv, TypeOK
<1>1. CASE UNCHANGED <<balance, entries, posted, nextEntryId>>
  BY <1>1 DEF PostingsInv, Whole, Distinct
<1>2. ASSUME NEW r \in Requests, posted' = [posted EXCEPT ![r] = {}],
             UNCHANGED <<balance, entries, nextEntryId>>
      PROVE  PostingsInv'
  <2>1. posted'[r] = {} /\ \A q \in Requests : q # r => posted'[q] = posted[q]
    BY <1>0, <1>2
  <2>2. Whole'
    BY <1>2, <2>1 DEF PostingsInv, Whole
  <2>3. Distinct'
    BY <1>2, <2>1 DEF PostingsInv, Distinct
  <2> QED
    BY <2>2, <2>3 DEF PostingsInv
<1>3. ASSUME NEW r \in Requests, Post(r) PROVE PostingsInv'
  <2>1. PICK m, t \in WalletLine \cup SystemLine :
           /\ posted' = [posted EXCEPT ![r] = {m, t}]
           /\ m.id = nextEntryId /\ t.id = nextEntryId + 1
           /\ m.wallet # t.wallet /\ m.amount = t.amount /\ m.direction # t.direction
           /\ nextEntryId' = nextEntryId + 2 /\ entries' = entries
    BY <1>3, PostedPair
  <2>2. posted'[r] = {m, t} /\ \A q \in Requests : q # r => posted'[q] = posted[q]
    BY <1>0, <2>1
  <2>3. IsPosting({m, t}) /\ nextEntryId' % 2 = 0
    <3>1. nextEntryId % 2 = 0
      BY DEF PostingsInv, Whole
    <3>2. (nextEntryId + 2) % 2 = 0
      BY <1>0, <3>1
    <3> QED
      BY <2>1, <3>1, <3>2 DEF IsPosting
  <2>4. Whole'
    BY <2>1, <2>2, <2>3 DEF PostingsInv, Whole
  <2>5. /\ \A e \in entries, l \in {m, t} : e.id # l.id
        /\ \A q \in Requests : \A e \in posted[q], l \in {m, t} : e.id # l.id
    <3>1. /\ \A e \in entries : e.id \in Nat /\ e.id < nextEntryId
          /\ \A q \in Requests : \A e \in posted[q] : e.id \in Nat /\ e.id < nextEntryId
      BY <1>0 DEF LedgerInv, IdsBelow, WalletLine, SystemLine
    <3> QED
      BY <1>0, <2>1, <3>1
  <2>6. Distinct'
    BY <2>1, <2>2, <2>5 DEF PostingsInv, Distinct
  <2> QED
    BY <2>4, <2>6 DEF PostingsInv
<1>4. ASSUME NEW r \in Requests, Commit(r) PROVE PostingsInv'
  <2>1. /\ entries' = entries \cup posted[r] /\ nextEntryId' = nextEntryId
        /\ posted'[r] = {} /\ \A q \in Requests : q # r => posted'[q] = posted[q]
    BY <1>0, <1>4, CommittedPair
  <2>2. ASSUME NEW e \in posted[r] PROVE \E f \in posted[r] : IsPosting({e, f})
    <3>1. PICK m, t \in posted[r] : posted[r] = {m, t}
      BY <2>2 DEF PostingsInv, Whole, IsPosting
    <3>2. IsPosting(posted[r])
      BY <2>2 DEF PostingsInv, Whole
    <3>3. {e, m} = posted[r] \/ {e, t} = posted[r]
      BY <3>1
    <3> QED
      BY <3>2, <3>3
  <2>3. \A e, f \in posted[r] : e.id = f.id => e = f
    <3>1. posted[r] = {} \/ IsPosting(posted[r])
      BY DEF PostingsInv, Whole
    <3>2. \A e \in posted[r] : e.id \in Nat
      BY <1>0 DEF WalletLine, SystemLine
    <3> QED
      BY <3>1, <3>2 DEF IsPosting
  <2>4. Whole'
    BY <2>1, <2>2 DEF PostingsInv, Whole
  <2>5. Distinct'
    BY <2>1, <2>3 DEF PostingsInv, Distinct
  <2> QED
    BY <2>4, <2>5 DEF PostingsInv
<1> QED
  BY <1>1, <1>2, <1>3, <1>4, MoneySteps

LEMMA PostingsInvariance == SpecReaders => []PostingsInv
<1>1. LedgerInv /\ PostingsInv /\ [NextReaders]_<<vars, readerVars, reconcileVars>> => PostingsInv'
  BY MoneyContinues, StepPostingsInv
<1> QED
  BY <1>1, ReadersLedgerInv, InitPostingsInv, PTL DEF SpecReaders, InitReaders

-----------------------------------------------------------------------------
(* Sums.  LedgerSum folds its lines in an order of its own; the facts below, by *)
(* the smallest set that would break them, make the order immaterial.          *)

First(S) == CHOOSE x \in S : TRUE

\* g is the fold that LedgerSum makes of the subsets of S.
SumsUp(g, S) ==
  g = [s \in SUBSET S |-> IF s = {} THEN 0 ELSE Signed(First(s)) + g[s \ {First(s)}]]

LEMMA SmallestSubset ==
  ASSUME NEW S, IsFiniteSet(S), NEW C \in SUBSET SUBSET S, C # {}
  PROVE  \E T \in C : \A U \in C : ~(U \subseteq T /\ U # T)
<1>1. IsWellFoundedOn(StrictSubsetOrdering(S), SUBSET S)
  <2>1. FiniteSubsetsOf(S) = SUBSET S
    BY FS_FiniteSubsetsOfFinite
  <2> QED
    BY <2>1, FS_StrictSubsetOrderingWellFounded
<1>2. PICK T \in C : \A U \in C : ~(<<U, T>> \in StrictSubsetOrdering(S))
  BY <1>1, WFMin
<1>3. ASSUME NEW U \in C, U \subseteq T, U # T PROVE FALSE
  <2>1. <<U, T>> \in (SUBSET S) \X (SUBSET S)
    OBVIOUS
  <2>2. <<U, T>> \in StrictSubsetOrdering(S)
    BY <1>3, <2>1 DEF StrictSubsetOrdering
  <2> QED
    BY <1>2, <2>2
<1> QED
  BY <1>3

LEMMA FirstIsMember ==
  ASSUME NEW S, S # {}
  PROVE  First(S) \in S /\ S \ {First(S)} \in SUBSET S /\ S \ {First(S)} # S
BY DEF First

LEMMA LedgerSumIsFold ==
  ASSUME NEW S
  PROVE  LedgerSum(S) = (CHOOSE g : SumsUp(g, S))[S]
BY DEF LedgerSum, MapThenSumSet, MapThenFoldSet, SumsUp, First

LEMMA FoldsAgree ==
  ASSUME NEW S, IsFiniteSet(S), NEW T, NEW g, SumsUp(g, S), NEW h, SumsUp(h, T),
         NEW U \in SUBSET S, U \in SUBSET T
  PROVE  g[U] = h[U]
<1> DEFINE C == {V \in SUBSET U : g[V] # h[V]}
<1>1. SUFFICES ASSUME C # {} PROVE FALSE
  OBVIOUS
<1>2. IsFiniteSet(U)
  BY FS_Subset
<1>3. PICK V \in C : \A W \in C : ~(W \subseteq V /\ W # V)
  <2>1. C \in SUBSET SUBSET U
    OBVIOUS
  <2> HIDE DEF C
  <2> QED
    BY <1>1, <1>2, <2>1, SmallestSubset
<1>4. V \in SUBSET S /\ V \in SUBSET T /\ V \in SUBSET U /\ g[V] # h[V]
  OBVIOUS
<1>5. /\ g[V] = IF V = {} THEN 0 ELSE Signed(First(V)) + g[V \ {First(V)}]
      /\ h[V] = IF V = {} THEN 0 ELSE Signed(First(V)) + h[V \ {First(V)}]
  BY <1>4 DEF SumsUp
<1>6. V # {}
  BY <1>4, <1>5
<1>7. g[V \ {First(V)}] = h[V \ {First(V)}]
  BY <1>3, <1>4, <1>6, FirstIsMember
<1> QED
  BY <1>4, <1>5, <1>6, <1>7

LEMMA FoldExists ==
  ASSUME NEW S, IsFiniteSet(S)
  PROVE  \E g : SumsUp(g, S)
<1> DEFINE C == {T \in SUBSET S : ~ \E g : SumsUp(g, T)}
<1>1. SUFFICES ASSUME C # {} PROVE FALSE
  OBVIOUS
<1>2. PICK T \in C : \A U \in C : ~(U \subseteq T /\ U # T)
  <2>1. C \in SUBSET SUBSET S
    OBVIOUS
  <2> HIDE DEF C
  <2> QED
    BY <1>1, <2>1, SmallestSubset
<1> DEFINE g == [s \in SUBSET T |->
                   IF s = {} THEN 0 ELSE Signed(First(s)) + LedgerSum(s \ {First(s)})]
<1>3. \A U \in SUBSET T : U # T => IsFiniteSet(U) /\ SumsUp(CHOOSE h : SumsUp(h, U), U)
  BY <1>2, FS_Subset
<1>4. ASSUME NEW U \in SUBSET T, U # T PROVE g[U] = LedgerSum(U)
  <2> DEFINE h == CHOOSE f : SumsUp(f, U)
             R == U \ {First(U)}
  <2>1. SumsUp(h, U) /\ LedgerSum(U) = h[U]
    BY <1>3, <1>4, LedgerSumIsFold
  <2>2. h[U] = IF U = {} THEN 0 ELSE Signed(First(U)) + h[R]
    BY <2>1 DEF SumsUp
  <2>3. CASE U = {}
    BY <2>1, <2>2, <2>3
  <2>4. CASE U # {}
    <3>1. R \in SUBSET U /\ R \in SUBSET T /\ R # T
      BY <2>4, FirstIsMember
    <3>2. SumsUp(CHOOSE f : SumsUp(f, R), R)
      BY <1>3, <3>1
    <3>3. LedgerSum(R) = (CHOOSE f : SumsUp(f, R))[R]
      BY LedgerSumIsFold
    <3> HIDE DEF h, R
    <3>4. h[R] = LedgerSum(R)
      BY <1>3, <1>4, <2>1, <3>1, <3>2, <3>3, FoldsAgree
    <3> QED
      BY <2>1, <2>2, <2>4, <3>4 DEF R
  <2> QED
    BY <2>3, <2>4
<1>5. \A s \in SUBSET T : s # {} => s \ {First(s)} \in SUBSET T /\ s \ {First(s)} # T
  BY FirstIsMember
<1>6. g = [s \in SUBSET T |-> IF s = {} THEN 0 ELSE Signed(First(s)) + g[s \ {First(s)}]]
  <2>1. \A s \in SUBSET T : s # {} => g[s \ {First(s)}] = LedgerSum(s \ {First(s)})
    BY <1>4, <1>5
  <2> DEFINE f == [s \in SUBSET T |->
                     IF s = {} THEN 0 ELSE Signed(First(s)) + g[s \ {First(s)}]]
  <2>2. ASSUME NEW s \in SUBSET T PROVE g[s] = f[s]
    <3>1. CASE s = {}
      BY <3>1
    <3>2. CASE s # {}
      <4>1. g[s \ {First(s)}] = LedgerSum(s \ {First(s)})
        BY <2>1, <3>2
      <4>2. f[s] = Signed(First(s)) + g[s \ {First(s)}]
        BY <3>2
      <4>3. g[s] = Signed(First(s)) + LedgerSum(s \ {First(s)})
        BY <3>2
      <4> HIDE DEF f, g
      <4> QED
        BY <4>1, <4>2, <4>3
    <3> QED
      BY <3>1, <3>2
  <2> QED
    BY <2>2
<1> QED
  BY <1>2, <1>6 DEF SumsUp

\* The equation of a sum.
LEMMA LedgerSumStep ==
  ASSUME NEW S, IsFiniteSet(S)
  PROVE  /\ S = {} => LedgerSum(S) = 0
         /\ S # {} => LedgerSum(S) = Signed(First(S)) + LedgerSum(S \ {First(S)})
<1> DEFINE fold(T) == CHOOSE g : SumsUp(g, T)
           R == S \ {First(S)}
<1>1. SumsUp(fold(S), S) /\ LedgerSum(S) = fold(S)[S]
  BY FoldExists, LedgerSumIsFold
<1>2. fold(S)[S] = IF S = {} THEN 0 ELSE Signed(First(S)) + fold(S)[R]
  BY <1>1 DEF SumsUp
<1>3. SumsUp(fold(R), R) /\ LedgerSum(R) = fold(R)[R]
  BY FoldExists, FS_Subset, LedgerSumIsFold
<1> HIDE DEF fold
<1>4. fold(S)[R] = fold(R)[R]
  BY <1>1, <1>3, FoldsAgree
<1> QED
  BY <1>1, <1>2, <1>3, <1>4

LEMMA LedgerSumType ==
  ASSUME NEW S, IsFiniteSet(S), \A e \in S : Signed(e) \in Int
  PROVE  LedgerSum(S) \in Int
<1> DEFINE C == {T \in SUBSET S : LedgerSum(T) \notin Int}
<1>1. SUFFICES ASSUME C # {} PROVE FALSE
  OBVIOUS
<1>2. PICK T \in C : \A U \in C : ~(U \subseteq T /\ U # T)
  <2>1. C \in SUBSET SUBSET S
    OBVIOUS
  <2> HIDE DEF C
  <2> QED
    BY <1>1, <2>1, SmallestSubset
<1>3. IsFiniteSet(T) /\ T \in SUBSET S
  <2>1. T \in SUBSET S
    OBVIOUS
  <2> QED
    BY <2>1, FS_Subset
<1>4. T # {}
  <2>1. LedgerSum(T) \notin Int
    OBVIOUS
  <2>2. T = {} => LedgerSum(T) = 0
    BY <1>3, LedgerSumStep
  <2> QED
    BY <2>1, <2>2
<1>5. First(T) \in T /\ T \ {First(T)} \in SUBSET T /\ T \ {First(T)} # T
  BY <1>4, FirstIsMember
<1>6. LedgerSum(T \ {First(T)}) \in Int /\ Signed(First(T)) \in Int
  BY <1>2, <1>5
<1>7. LedgerSum(T) = Signed(First(T)) + LedgerSum(T \ {First(T)})
  BY <1>3, <1>4, LedgerSumStep
<1> QED
  BY <1>6, <1>7

\* Any line may be taken out first.
LEMMA LedgerSumRemove ==
  ASSUME NEW S, IsFiniteSet(S), \A e \in S : Signed(e) \in Int, NEW x \in S
  PROVE  LedgerSum(S) = LedgerSum(S \ {x}) + Signed(x)
<1> DEFINE C == {T \in SUBSET S : \E y \in T : LedgerSum(T) # LedgerSum(T \ {y}) + Signed(y)}
<1>1. SUFFICES ASSUME C # {} PROVE FALSE
  OBVIOUS
<1>2. PICK T \in C : \A U \in C : ~(U \subseteq T /\ U # T)
  <2>1. C \in SUBSET SUBSET S
    OBVIOUS
  <2> HIDE DEF C
  <2> QED
    BY <1>1, <2>1, SmallestSubset
<1>3. T \in SUBSET S
  OBVIOUS
<1>4. IsFiniteSet(T)
  BY <1>3, FS_Subset
<1>5. PICK y \in T : LedgerSum(T) # LedgerSum(T \ {y}) + Signed(y)
  OBVIOUS
<1> DEFINE f == First(T)
           R == T \ {f, y}
<1>6. f \in T /\ LedgerSum(T) = Signed(f) + LedgerSum(T \ {f})
  BY <1>4, <1>5, LedgerSumStep, FirstIsMember
<1> HIDE DEF f
<1>7. /\ Signed(f) \in Int /\ Signed(y) \in Int
      /\ LedgerSum(T \ {f}) \in Int /\ LedgerSum(R) \in Int
  <2>1. ASSUME NEW U \in SUBSET T PROVE LedgerSum(U) \in Int
    BY <1>3, <1>4, FS_Subset, LedgerSumType
  <2> QED
    BY <1>3, <1>6, <2>1
<1>8. f # y
  <2>1. LedgerSum(T) = LedgerSum(T \ {f}) + Signed(f)
    BY <1>6, <1>7
  <2> QED
    BY <1>5, <2>1
<1>9. \A U \in SUBSET T : \A z \in U : U # T => LedgerSum(U) = LedgerSum(U \ {z}) + Signed(z)
  BY <1>2, <1>3
<1>10. LedgerSum(T \ {f}) = LedgerSum(R) + Signed(y)
  <2>1. T \ {f} \in SUBSET T /\ T \ {f} # T /\ y \in T \ {f} /\ (T \ {f}) \ {y} = R
    BY <1>6, <1>8
  <2> QED
    BY <1>9, <2>1
<1>11. LedgerSum(T \ {y}) = LedgerSum(R) + Signed(f)
  <2>1. T \ {y} \in SUBSET T /\ T \ {y} # T /\ f \in T \ {y} /\ (T \ {y}) \ {f} = R
    BY <1>6, <1>8
  <2> QED
    BY <1>9, <2>1
<1> HIDE DEF R
<1> QED
  BY <1>5, <1>6, <1>7, <1>10, <1>11

LEMMA LedgerSumAdd ==
  ASSUME NEW S, IsFiniteSet(S), \A e \in S : Signed(e) \in Int,
         NEW x, x \notin S, Signed(x) \in Int
  PROVE  LedgerSum(S \cup {x}) = LedgerSum(S) + Signed(x)
<1>1. IsFiniteSet(S \cup {x}) /\ (S \cup {x}) \ {x} = S
  BY FS_AddElement
<1> QED
  BY <1>1, LedgerSumRemove

-----------------------------------------------------------------------------
(* A reference names one posting.                                          *)

LEMMA AmountOfOne ==
  ASSUME NEW x, x.amount \in Int
  PROVE  MapThenSumSet(LAMBDA e : e.amount, {x}) = x.amount
<1> DEFINE Sums(g) == g = [s \in SUBSET {x} |->
                             IF s = {} THEN 0 ELSE First(s).amount + g[s \ {First(s)}]]
           f == [s \in SUBSET {x} |-> IF s = {} THEN 0 ELSE x.amount]
<1>1. \A s \in SUBSET {x} : s # {} => First(s) = x /\ s \ {First(s)} = {}
  BY FirstIsMember
<1>2. Sums(f)
  <2>1. f[{}] = 0
    OBVIOUS
  <2>2. \A s \in SUBSET {x} : f[s] = IF s = {} THEN 0 ELSE First(s).amount + f[s \ {First(s)}]
    BY <1>1, <2>1
  <2> QED
    BY <2>2
<1> DEFINE h == CHOOSE g : Sums(g)
<1>3. Sums(h)
  BY <1>2
<1>4. MapThenSumSet(LAMBDA e : e.amount, {x}) = h[{x}]
  BY DEF MapThenSumSet, MapThenFoldSet, First
<1> HIDE DEF h
<1>5. h[{x}] = First({x}).amount + h[{x} \ {First({x})}] /\ h[{}] = 0
  BY <1>3
<1>6. First({x}) = x /\ {x} \ {First({x})} = {}
  BY <1>1
<1>7. h[{x}] = x.amount + 0
  BY <1>5, <1>6
<1> QED
  BY <1>4, <1>7

LEMMA PostingsBalance ==
  ASSUME LedgerInv, PostingsInv, NEW e \in entries
  PROVE  \E f \in entries :
           /\ e.wallet # f.wallet
           /\ {g \in entries : Reference(g) = Reference(e)} = {e, f}
           /\ AssertBalanced({e, f}, e.amount)
<1>1. \A g \in entries : g.id \in Nat /\ g.amount \in Nat \ {0} /\ g.direction \in Direction
  BY DEF LedgerInv, TypeInv, TypeOK, WalletLine, SystemLine
<1>2. PICK f \in entries : IsPosting({e, f})
  BY DEF PostingsInv, Whole
<1>3. PICK m, t \in {e, f} :
        /\ {e, f} = {m, t} /\ m.id % 2 = 0 /\ t.id = m.id + 1
        /\ m.amount = t.amount /\ m.direction # t.direction /\ m.wallet # t.wallet
  BY <1>2 DEF IsPosting
<1>4. m \in entries /\ t \in entries /\ m # t
  BY <1>1, <1>3
<1>5. ASSUME NEW g \in entries PROVE Reference(g) = Reference(m) <=> g \in {m, t}
  <2>1. \A i, j \in Nat : i % 2 = 0 => (j \div 2 = i \div 2 <=> j = i \/ j = i + 1)
    OBVIOUS
  <2>2. Reference(g) = Reference(m) <=> g.id = m.id \/ g.id = t.id
    BY <1>1, <1>3, <1>4, <2>1 DEF Reference
  <2> QED
    BY <1>4, <2>2 DEF PostingsInv, Distinct
<1>6. {g \in entries : Reference(g) = Reference(e)} = {e, f}
  <2>1. Reference(t) = Reference(m) /\ (e = m \/ e = t)
    BY <1>3, <1>4, <1>5
  <2> QED
    BY <1>3, <1>4, <1>5, <2>1
<1>7. AssertBalanced({m, t}, m.amount)
  <2>1. Cardinality({m, t}) = 2
    <3>1. IsFiniteSet({m}) /\ Cardinality({m}) = 1 /\ t \notin {m} /\ {m} \cup {t} = {m, t}
      BY <1>4, FS_Singleton
    <3>2. Cardinality({m} \cup {t}) = 1 + 1
      BY <3>1, FS_AddElement
    <3> QED
      BY <3>1, <3>2
  <2>2. ASSUME NEW d \in Direction
        PROVE  \E x \in {m, t} : {l \in {m, t} : l.direction = d} = {x} /\ x.amount = m.amount
    BY <1>1, <1>3, <1>4, <2>2 DEF Direction
  <2>3. ASSUME NEW d \in Direction
        PROVE  MapThenSumSet(LAMBDA l : l.amount, {l \in {m, t} : l.direction = d}) = m.amount
    <3>1. PICK x \in {m, t} : {l \in {m, t} : l.direction = d} = {x} /\ x.amount = m.amount
      BY <2>2
    <3>2. MapThenSumSet(LAMBDA l : l.amount, {x}) = x.amount
      BY <1>1, <1>4, AmountOfOne
    <3> QED
      BY <3>1, <3>2
  <2>4. m.amount > 0 /\ \A l \in {m, t} : l.amount > 0
    BY <1>1, <1>4
  <2> QED
    BY <2>1, <2>3, <2>4 DEF AssertBalanced, Direction
<1>8. e.amount = m.amount /\ e.wallet # f.wallet
  BY <1>3
<1> QED
  BY <1>3, <1>6, <1>7, <1>8

\* A reference names one posting, whole and balanced as assertBalanced asks, and
\* at most one line of it is a given wallet's: getByReference needs no order.
THEOREM ReferencesStayExact == SpecReaders => []ReferencesAreExact
<1>1. LedgerInv /\ PostingsInv => ReferencesAreExact
  <2> SUFFICES ASSUME LedgerInv, PostingsInv, NEW e \in entries
               PROVE  /\ AssertBalanced({f \in entries : Reference(f) = Reference(e)}, e.amount)
                      /\ e.wallet # Null =>
                           FindStatementItemByReference(Reference(e), e.wallet) = {e}
    BY DEF ReferencesAreExact
  <2>1. PICK f \in entries :
           /\ e.wallet # f.wallet
           /\ {g \in entries : Reference(g) = Reference(e)} = {e, f}
           /\ AssertBalanced({e, f}, e.amount)
    BY PostingsBalance
  <2>2. FindStatementItemByReference(Reference(e), e.wallet) = {e}
    BY <2>1 DEF FindStatementItemByReference, LinesOf
  <2> QED
    BY <2>1, <2>2
<1> QED
  BY <1>1, ReadersLedgerInv, PostingsInvariance, PTL

-----------------------------------------------------------------------------
(* Reconciliation.  Each committed state adds up, wallet by wallet and as a    *)
(* whole, so no choice of states for the two SELECTs shows a drift.            *)

SumsInv ==
  /\ IsFiniteSet(entries) /\ LedgerSum(entries) = 0
  /\ \A w \in Wallets : LedgerSum(LinesOf(w)) = balance[w]

NoDriftInv ==
  /\ drifted = Null \/ drifted = {}
  /\ ReportsNoDrift

LEMMA SignedLines ==
  ASSUME NEW e \in WalletLine \cup SystemLine
  PROVE  Signed(e) \in Int
BY DEF WalletLine, SystemLine, Signed

\* A posting adds nothing to the sum of all lines.
LEMMA PairAddsNothing ==
  ASSUME NEW S \in SUBSET (WalletLine \cup SystemLine), IsFiniteSet(S),
         NEW m \in WalletLine \cup SystemLine, NEW t \in WalletLine \cup SystemLine,
         m \notin S, t \notin S, m # t, m.amount = t.amount, m.direction # t.direction
  PROVE  IsFiniteSet(S \cup {m, t}) /\ LedgerSum(S \cup {m, t}) = LedgerSum(S)
<1>1. \A e \in S : Signed(e) \in Int
  BY SignedLines
<1>2. Signed(m) \in Int /\ Signed(t) \in Int
  BY SignedLines
<1>3. LedgerSum(S) \in Int
  BY <1>1, LedgerSumType
<1>4. Signed(m) + Signed(t) = 0
  BY DEF WalletLine, SystemLine, Direction, Signed
<1>5. IsFiniteSet(S \cup {m}) /\ LedgerSum(S \cup {m}) = LedgerSum(S) + Signed(m)
  BY <1>1, <1>2, FS_AddElement, LedgerSumAdd
<1>6. IsFiniteSet((S \cup {m}) \cup {t})
  BY <1>5, FS_AddElement
<1>7. LedgerSum((S \cup {m}) \cup {t}) = LedgerSum(S \cup {m}) + Signed(t)
  <2>1. t \notin S \cup {m} /\ \A e \in S \cup {m} : Signed(e) \in Int
    BY <1>1, <1>2
  <2> QED
    BY <1>2, <1>5, <2>1, LedgerSumAdd
<1>8. (S \cup {m}) \cup {t} = S \cup {m, t}
  OBVIOUS
<1>9. LedgerSum(S) + Signed(m) + Signed(t) = LedgerSum(S)
  BY <1>2, <1>3, <1>4
<1> QED
  BY <1>5, <1>6, <1>7, <1>8, <1>9

\* The openings add up: the smallest set of wallets whose first postings do not
\* would have one wallet less than itself to blame.
LEMMA InitSumsInv == Init => SumsInv
<1> SUFFICES ASSUME Init PROVE SumsInv
  OBVIOUS
<1> USE ReconciliationAssumption DEF ReconciliationAssumption
<1> DEFINE first(w) == Line(2*w, w, "CREDIT", Opening[w], Opening[w])
           system(w) == Line(2*w + 1, Null, "DEBIT", Opening[w], Null)
           Funded == {w \in Wallets : Opening[w] > 0}
           lines(X) == UNION {{first(w), system(w)} : w \in X}
           Adds(X) == IsFiniteSet(lines(X)) /\ LedgerSum(lines(X)) = 0
<1>1. \A w \in Funded :
        /\ w \in Nat /\ first(w) \in WalletLine /\ system(w) \in SystemLine
        /\ first(w).id = 2*w /\ system(w).id = 2*w + 1
        /\ first(w).wallet = w /\ system(w).wallet = Null
        /\ first(w).amount = system(w).amount /\ first(w).direction # system(w).direction
        /\ Signed(first(w)) = Opening[w]
  BY DEF Line, WalletLine, SystemLine, Direction, Signed
<1>2. entries = lines(Funded) /\ balance = Opening
  BY DEF Init
<1> HIDE DEF first, system
<1>3. IsFiniteSet(Funded)
  <2>1. Funded \in SUBSET Wallets
    OBVIOUS
  <2> HIDE DEF Funded
  <2> QED
    BY <2>1, FS_Subset
<1>4. \A X \in SUBSET Funded : Adds(X)
  <2> DEFINE C == {X \in SUBSET Funded : ~Adds(X)}
  <2>1. SUFFICES ASSUME C # {} PROVE FALSE
    OBVIOUS
  <2>2. PICK X \in C : \A U \in C : ~(U \subseteq X /\ U # X)
    <3>1. C \in SUBSET SUBSET Funded
      OBVIOUS
    <3> HIDE DEF C, Funded
    <3> QED
      BY <1>3, <2>1, <3>1, SmallestSubset
  <2>3. X \in SUBSET Funded /\ ~Adds(X)
    OBVIOUS
  <2>4. X # {}
    <3>1. Adds({})
      <4>1. lines({}) = {}
        OBVIOUS
      <4> HIDE DEF lines
      <4> QED
        BY <4>1, FS_EmptySet, LedgerSumStep
    <3> QED
      BY <2>3, <3>1
  <2>5. PICK w \in X : TRUE
    BY <2>4
  <2> DEFINE S == lines(X \ {w})
  <2>6. Adds(X \ {w})
    <3>1. X \ {w} \in SUBSET Funded /\ X \ {w} \subseteq X /\ X \ {w} # X
      BY <2>3, <2>5
    <3> HIDE DEF Adds
    <3> QED
      BY <2>2, <3>1
  <2>7. lines(X) = S \cup {first(w), system(w)}
    BY <2>5
  <2>8. S \in SUBSET (WalletLine \cup SystemLine)
    BY <1>1, <2>3
  <2>9. first(w) \notin S /\ system(w) \notin S
    <3>1. \A a, b \in Nat : 2*a # 2*b + 1 /\ (2*a = 2*b => a = b) /\ (2*a + 1 = 2*b + 1 => a = b)
      OBVIOUS
    <3>2. ASSUME NEW v \in X, v # w
          PROVE  first(w) \notin {first(v), system(v)} /\ system(w) \notin {first(v), system(v)}
      BY <1>1, <2>3, <2>5, <3>1, <3>2
    <3> QED
      BY <3>2
  <2>10. /\ first(w) \in WalletLine /\ system(w) \in SystemLine /\ first(w) # system(w)
         /\ first(w).amount = system(w).amount /\ first(w).direction # system(w).direction
    BY <1>1, <2>3, <2>5
  <2>11. IsFiniteSet(S) /\ LedgerSum(S) = 0
    BY <2>6
  <2> HIDE DEF S, lines
  <2>12. IsFiniteSet(S \cup {first(w), system(w)})
         /\ LedgerSum(S \cup {first(w), system(w)}) = LedgerSum(S)
    BY <2>8, <2>9, <2>10, <2>11, PairAddsNothing
  <2> QED
    BY <2>3, <2>7, <2>11, <2>12
<1>5. ASSUME NEW w \in Wallets PROVE LedgerSum(LinesOf(w)) = balance[w]
  <2>0. ASSUME NEW e \in LinesOf(w) PROVE w \in Funded /\ e = first(w)
    <3>1. e \in entries /\ e.wallet = w /\ w # Null
      BY DEF LinesOf
    <3>2. PICK v \in Funded : e \in {first(v), system(v)}
      BY <1>2, <3>1
    <3> QED
      BY <1>1, <3>1, <3>2
  <2>1. CASE w \in Funded
    <3>0. first(w) \in LinesOf(w)
      <4>1. first(w) \in entries
        BY <1>2, <2>1
      <4> QED
        BY <1>1, <2>1, <4>1 DEF LinesOf
    <3>1. LinesOf(w) = {} \cup {first(w)}
      BY <2>0, <3>0
    <3>2. LedgerSum({}) = 0
      BY FS_EmptySet, LedgerSumStep
    <3>3. Signed(first(w)) = Opening[w] /\ Opening[w] \in Nat
      BY <1>1, <2>1
    <3>4. LedgerSum({} \cup {first(w)}) = 0 + Opening[w]
      BY <3>2, <3>3, FS_EmptySet, LedgerSumAdd
    <3> QED
      BY <1>2, <3>1, <3>3, <3>4
  <2>2. CASE w \notin Funded
    <3>1. LinesOf(w) = {}
      BY <2>0, <2>2
    <3>2. Opening[w] = 0
      BY <2>2
    <3> QED
      BY <1>2, <3>1, <3>2, FS_EmptySet, LedgerSumStep
  <2> QED
    BY <2>1, <2>2
<1> QED
  <2>1. Adds(Funded)
    BY <1>4
  <2> QED
    BY <1>2, <1>5, <2>1 DEF SumsInv

LEMMA CommitSumsInv ==
  ASSUME LedgerInv, PostingsInv, SumsInv, NEW r \in Requests, Commit(r)
  PROVE  SumsInv'
<1>1. /\ entries \in SUBSET (WalletLine \cup SystemLine)
      /\ posted[r] \in SUBSET (WalletLine \cup SystemLine)
  BY DEF LedgerInv, TypeInv, TypeOK
<1>2. entries' = entries \cup posted[r]
  BY CommittedPair
<1>3. IsFiniteSet(entries') /\ LedgerSum(entries') = 0
  <2>1. IsFiniteSet(entries) /\ LedgerSum(entries) = 0
    BY DEF SumsInv
  <2>2. CASE posted[r] = {}
    BY <1>2, <2>1, <2>2
  <2>3. CASE IsPosting(posted[r])
    <3>1. PICK m, t \in posted[r] :
            /\ posted[r] = {m, t} /\ m.id % 2 = 0 /\ t.id = m.id + 1
            /\ m.amount = t.amount /\ m.direction # t.direction
      BY <2>3 DEF IsPosting
    <3>2. m \in WalletLine \cup SystemLine /\ t \in WalletLine \cup SystemLine /\ m # t
      BY <1>1, <3>1
    <3>3. m \notin entries /\ t \notin entries
      BY DEF PostingsInv, Distinct
    <3> QED
      BY <1>1, <1>2, <2>1, <3>1, <3>2, <3>3, PairAddsNothing
  <2> QED
    BY <2>2, <2>3 DEF PostingsInv, Whole
<1>4. ASSUME NEW w \in Wallets PROVE LedgerSum(LinesOf(w)') = balance'[w]
  <2>1. LedgerSum(LinesOf(w)) = balance[w] /\ IsFiniteSet(LinesOf(w))
    <3>1. LinesOf(w) \in SUBSET entries
      BY DEF LinesOf
    <3> QED
      BY <3>1, FS_Subset DEF SumsInv
  <2>2. CASE LinesOf(w)' = LinesOf(w) /\ balance'[w] = balance[w]
    BY <2>1, <2>2
  <2>3. ASSUME NEW n \in posted[r], n.wallet = w,
               LinesOf(w)' = LinesOf(w) \cup {n},
               balance'[w] = balance[w] + Signed(n)
        PROVE  LedgerSum(LinesOf(w)') = balance'[w]
    <3>1. n \notin LinesOf(w)
      BY DEF PostingsInv, Distinct, LinesOf
    <3>2. Signed(n) \in Int /\ \A e \in LinesOf(w) : Signed(e) \in Int
      BY <1>1, SignedLines DEF LinesOf
    <3>3. LedgerSum(LinesOf(w) \cup {n}) = LedgerSum(LinesOf(w)) + Signed(n)
      BY <2>1, <3>1, <3>2, LedgerSumAdd
    <3> QED
      BY <2>1, <2>3, <3>3
  <2> QED
    BY <2>2, <2>3, CommitChains
<1> QED
  BY <1>3, <1>4 DEF SumsInv

LEMMA StepSumsInv ==
  ASSUME LedgerInv, PostingsInv, SumsInv, [Next]_vars
  PROVE  SumsInv'
<1>1. CASE UNCHANGED <<balance, entries>>
  BY <1>1 DEF SumsInv, LinesOf
<1> QED
  BY <1>1, CommitSumsInv, OnlyCommitWrites

LEMMA SumsInvariance == SpecReaders => []SumsInv
<1>1. ASSUME LedgerInv, PostingsInv, SumsInv,
             [NextReaders]_<<vars, readerVars, reconcileVars>>
      PROVE  SumsInv'
  <2>1. [Next]_vars
    BY <1>1, MoneyContinues
  <2> QED
    BY <1>1, <2>1, StepSumsInv
<1> QED
  BY <1>1, ReadersLedgerInv, PostingsInvariance, InitSumsInv, PTL DEF SpecReaders, InitReaders

\* reconcile() reports no drift and a zero global sum, whatever transactions run
\* and fail around and between its two SELECTs.
THEOREM ReconcilesAlways == SpecReaders => []ReportsNoDrift
<1>1. InitReaders => NoDriftInv
  BY DEF InitReaders, InitReconcile, NoDriftInv, ReportsNoDrift
<1>2. ASSUME SumsInv, NoDriftInv, [NextReaders]_<<vars, readerVars, reconcileVars>>
      PROVE  NoDriftInv'
  <2>1. CASE UNCHANGED reconcileVars
    BY <1>2, <2>1 DEF reconcileVars, NoDriftInv, ReportsNoDrift
  <2>2. CASE SelectWalletSums
    <3>1. drifted' = {} /\ report' = report
      BY <1>2, <2>2 DEF SelectWalletSums, DriftedWallets, SumsInv
    <3> QED
      BY <1>2, <3>1 DEF NoDriftInv, ReportsNoDrift
  <2>3. CASE SelectGlobalSum
    <3>1. drifted = {} /\ drifted' = drifted
      BY <1>2, <2>3 DEF SelectGlobalSum, NoDriftInv
    <3>2. report'.ok
      BY <1>2, <2>3, <3>1 DEF SelectGlobalSum, SumsInv
    <3> QED
      BY <3>1, <3>2 DEF NoDriftInv, ReportsNoDrift
  <2> QED
    BY <1>2, <2>1, <2>2, <2>3 DEF NextReaders, NextReconcile
<1>3. NoDriftInv => ReportsNoDrift
  BY DEF NoDriftInv
<1> QED
  BY <1>1, <1>2, <1>3, SumsInvariance, PTL DEF SpecReaders
=============================================================================
