------------------------------- MODULE Retries -------------------------------
(***************************************************************************)
(* The idempotency middleware with the bodies behind its hashes.           *)
(***************************************************************************)
EXTENDS Idempotency, RequestHash

CONSTANT BodyOf   \* the body a client slot sends

ASSUME RetriesAssumption ==
  /\ BodyOf \in [Requests -> Bodies]
  /\ HashOf = [r \in Requests |-> HashRequestBody(BodyOf[r])]

Recognised == [h \in Hashes |-> HashedAs(h)]
Resent == [r \in Requests |-> SameAs(BodyOf[r])]

\* A key remembers a body that was sent under it, and recognises, among all
\* bodies, exactly those that are the same JSON: the order of fields never makes
\* a retry look like another request ("key order must not change the hash",
\* request-hash.ts), at any depth, and nothing else makes another request look
\* like a retry.
RetriesAreRecognised ==
  \A s \in Scopes : row[s] # Null =>
    \E r \in Requests : ScopeOf[r] = s /\ Recognised[row[s].hash] = Resent[r]
=============================================================================
