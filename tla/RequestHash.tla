----------------------------- MODULE RequestHash -----------------------------
(***************************************************************************)
(* The hash under which an idempotency key remembers a request body.  A    *)
(* body is JSON: a scalar, an array of values, or an object, whose fields  *)
(* arrive in the order the client serialised them.  JSON.stringify and     *)
(* SHA-256 are taken to tell any two canonical values apart, so the hash   *)
(* is the canonical value.  Keys are numbered in the order in which the    *)
(* sorted copy lists them; "__proto__", which names no field of a copy, is *)
(* none of them: validate strips it before the middleware hashes.          *)
(***************************************************************************)
EXTENDS Naturals, SequencesExt

CONSTANTS
  Json,      \* the JSON values that are a body or a part of one
  DepthOf,   \* how deep each is nested
  MaxDepth   \* bound on that: express.json takes 100 kB

Scalar(x) == [kind |-> "scalar", value |-> x]
Array(items) == [kind |-> "array", items |-> items]
Object(fields) == [kind |-> "object", fields |-> fields]
Field(k, v) == [key |-> k, value |-> v] 

IsScalar(v) == v.kind = "scalar"
IsArray(v) == v.kind = "array"
IsObject(v) == v.kind = "object"

JsonNull == Scalar(0)
NoBody == [kind |-> "undefined"]

\* What express.json leaves in req.body: it is strict, so no scalars.
Bodies == {v \in Json : ~IsScalar(v)} \cup {NoBody}

\* A value is one of the three, its parts are values nested less deep, and
\* JSON.parse leaves an object no two fields with one key.
ASSUME JsonAssumption ==
  /\ MaxDepth \in Nat /\ DepthOf \in [Json -> 0 .. MaxDepth]
  /\ \A v \in Json :
       \/ IsScalar(v)
       \/ /\ IsArray(v)
          /\ v.items \in Seq(Json) /\ v = Array(v.items)
          /\ \A i \in DOMAIN v.items : DepthOf[v.items[i]] < DepthOf[v]
       \/ /\ IsObject(v)
          /\ v.fields \in Seq([key: Nat, value: Json]) /\ v = Object(v.fields)
          /\ \A i, j \in DOMAIN v.fields : v.fields[i].key = v.fields[j].key => i = j
          /\ \A i \in DOMAIN v.fields : DepthOf[v.fields[i].value] < DepthOf[v]

\* Slip of InKeyOrder: the fields stay as the client sent them.
AsSent(fields) == fields

\* Object.keys(value).sort().
InKeyOrder(fields) ==
  CHOOSE s \in [DOMAIN fields -> ToSet(fields)] :
    /\ ToSet(s) = ToSet(fields)
    /\ \A i, j \in DOMAIN fields : i < j => s[i].key < s[j].key

Canonicalize[value \in Json] ==
  CASE IsArray(value) ->
         Array([i \in DOMAIN value.items |-> Canonicalize[value.items[i]]])
    [] IsObject(value) ->
         LET fields == InKeyOrder(value.fields)
         IN  Object([i \in DOMAIN fields |->
                       Field(fields[i].key, Canonicalize[fields[i].value])])
    [] OTHER -> value

\* A request without a body hashes as null.
HashRequestBody(body) == IF body = NoBody THEN JsonNull ELSE Canonicalize[body]

-----------------------------------------------------------------------------
\* The keys of an object, and what it has under one.
Keys(v) == {v.fields[i].key : i \in DOMAIN v.fields}
At(v, k) == v.fields[CHOOSE i \in DOMAIN v.fields : v.fields[i].key = k].value

\* What JSON means: an array is a sequence, an object a function of its keys.
Meaning[v \in Json] ==
  CASE IsArray(v)  -> Array([i \in DOMAIN v.items |-> Meaning[v.items[i]]])
    [] IsObject(v) -> Object([k \in Keys(v) |-> Meaning[At(v, k)]])
    [] OTHER       -> v

SameJson(a, b) ==
  IF NoBody \in {a, b} THEN a = b ELSE Meaning[a] = Meaning[b]

\* The bodies whose hash is h, and those that are the same JSON as one.
HashedAs(h) == {b \in Bodies : HashRequestBody(b) = h}
SameAs(body) == {b \in Bodies : SameJson(b, body)}
=============================================================================
