--------------------------- MODULE Reconciliation ---------------------------
(***************************************************************************)
(* reconcile(): the CLI, the admin endpoint and the integration tests run  *)
(* it against the live database, so its two SELECTs interleave with the    *)
(* money transactions.  Each SELECT reads one committed state; nothing     *)
(* holds the two to the same one.                                          *)
(***************************************************************************)
EXTENDS Wallets, FiniteSetsExt

\* The wallets are the rows of a table.
ASSUME ReconciliationAssumption == IsFiniteSet(Wallets)

VARIABLES
  drifted,  \* result of the first SELECT; Null before it
  report    \* the report returned; Null before it

reconcileVars == <<drifted, report>>

LedgerSum(lines) == MapThenSumSet(Signed, lines)

\* The wallets whose balance is not the sum of their lines.
DriftedWallets == {w \in Wallets : balance[w] # LedgerSum(LinesOf(w))}

InitReconcile == drifted = Null /\ report = Null

SelectWalletSums ==
  /\ drifted = Null
  /\ drifted' = DriftedWallets
  /\ UNCHANGED <<vars, report>>

SelectGlobalSum ==
  /\ drifted # Null /\ report = Null
  /\ report' = [ok |-> drifted = {} /\ LedgerSum(entries) = 0,
                drifted_wallets |-> drifted,
                global_entry_sum |-> LedgerSum(entries)]
  /\ UNCHANGED <<vars, drifted>>

NextReconcile == SelectWalletSums \/ SelectGlobalSum

\* Whenever it runs, amid whatever transactions and failures, reconcile reports
\* no drift and a zero global sum: money moves only in balanced pairs that
\* become visible together with the balances they account for.
ReportsNoDrift == report # Null => report.ok
=============================================================================
