------------------------------- MODULE Readers -------------------------------
(***************************************************************************)
(* The two readers that take no lock, beside the money transactions: a     *)
(* client paging through a statement and an administrator reconciling.     *)
(***************************************************************************)
EXTENDS Statement, Reconciliation

InitReaders == Init /\ InitStatement /\ InitReconcile

NextReaders ==
  \/ Next /\ UNCHANGED <<readerVars, reconcileVars>>
  \/ NextStatement /\ UNCHANGED reconcileVars
  \/ NextReconcile /\ UNCHANGED readerVars

SpecReaders == InitReaders /\ [][NextReaders]_<<vars, readerVars, reconcileVars>>
=============================================================================
