----------------------------- MODULE AuditTrail -----------------------------
(***************************************************************************)
(* What the rows of admin_audit_log say about one account or one wallet.   *)
(***************************************************************************)
EXTENDS Naturals, Sequences

\* The rows, oldest first, tell the whole history of a status: they chain from
\* "active", the default of the column, to the status now.
Replay(rows, now) ==
  /\ \A i \in 1 .. Len(rows) - 1 : rows[i].to = rows[i + 1].from
  /\ rows # <<>> => rows[1].from = "active"
  /\ now = IF rows = <<>> THEN "active" ELSE rows[Len(rows)].to
=============================================================================
