---------------------------- MODULE MCIdempotency ----------------------------
(* One key: two slots that retry the same request, whose clients serialise    *)
(* its fields in different orders, and a third that reuses the key with       *)
(* another body.                                                              *)
EXTENDS Retries

CONSTANTS key, r1, r2, r3

MCRequests == {r1, r2, r3}
MCScopes == {key}
MCScopeOf == [r \in MCRequests |-> key]

Five == Scalar(5)
Six == Scalar(6)
MCBodyOf == [r \in MCRequests |->
  CASE r = r1 -> Object(<<Field(1, Five), Field(2, Object(<<Field(1, Five), Field(2, Six)>>))>>)
    [] r = r2 -> Object(<<Field(2, Object(<<Field(2, Six), Field(1, Five)>>)), Field(1, Five)>>)
    [] r = r3 -> Object(<<Field(2, Array(<<Six, Five>>)), Field(1, Five)>>)]

MCHashOf == [r \in MCRequests |-> HashRequestBody(MCBodyOf[r])]
MCHashes == {MCHashOf[r] : r \in MCRequests}

\* The two slots with the same body alone.
MCTwins == {r1, r2}
MCTwinsScopeOf == [r \in MCTwins |-> key]
MCTwinsBodyOf == [r \in MCTwins |-> MCBodyOf[r]]
MCTwinsHashOf == [r \in MCTwins |-> MCHashOf[r]]

\* Bodies up to two levels deep, with up to two fields or elements at each: all
\* that can be built of two scalars, and all that can be built of the scalars and
\* of the pairs among those, which differ by an order, a key or a value.
Arrays(V) == {Array(s) : s \in {<<>>} \cup {<<v>> : v \in V} \cup (V \X V)}
Objects(V) ==
  {Object(fields) : fields \in
     {<<>>} \cup {<<Field(k, v)>> : k \in 1 .. 2, v \in V}
            \cup {<<Field(k, v), Field(3 - k, w)>> : k \in 1 .. 2, v \in V, w \in V}}
Scalars == {Five, Six}
Flat == Arrays(Scalars) \cup Objects(Scalars)
Pairs == {Array(s) : s \in Scalars \X Scalars}
         \cup {v \in Objects(Scalars) : Len(v.fields) = 2}
Inner == Scalars \cup Pairs
MCJson == Scalars \cup Flat \cup Arrays(Inner) \cup Objects(Inner)
MCDepthOf == [v \in MCJson |-> IF v \in Scalars THEN 0 ELSE IF v \in Flat THEN 1 ELSE 2]
=============================================================================
