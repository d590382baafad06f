---------------------------- MODULE RetriesProofs ----------------------------
(***************************************************************************)
(* The hash of a body tells any two JSON values apart and no two writings  *)
(* of one, however wide and deep.  Induction is by the smallest number     *)
(* that would break a statement: of fields, or of levels.                  *)
(***************************************************************************)
EXTENDS Retries, IdempotencyProofs, FiniteSetTheorems, WellFoundedInduction

LEMMA SmallestNumber ==
  ASSUME NEW S \in SUBSET Nat, S # {}
  PROVE  \E n \in S : \A m \in S : n <= m
<1>1. PICK n \in S : \A m \in S : ~(<<m, n>> \in OpToRel(<, Nat))
  BY NatLessThanWellFounded, WFMin
<1>2. ASSUME NEW m \in S PROVE n <= m
  <2>1. <<m, n>> \in Nat \X Nat /\ ~(m < n)
    BY <1>1 DEF OpToRel
  <2> QED
    BY <2>1
<1> QED
  BY <1>2

-----------------------------------------------------------------------------
(* Fields in the order of their keys.                                      *)

\* s has the elements of T, each once, in the order of their keys.
Orders(s, T, n) ==
  /\ s \in [1 .. n -> T] /\ ToSet(s) = T
  /\ \A i, j \in 1 .. n : i < j => s[i].key < s[j].key

\* Every finite set of fields with different keys can be put in their order.
LEMMA OrderExists ==
  ASSUME NEW n \in Nat, NEW T, IsFiniteSet(T), Cardinality(T) = n,
         \A f \in T : f.key \in Nat,
         \A f, g \in T : f.key = g.key => f = g
  PROVE  \E s : Orders(s, T, n)
<1> DEFINE Sortable(U) == \E s : Orders(s, U, Cardinality(U))
           C == {m \in Nat : \E U \in SUBSET T : Cardinality(U) = m /\ ~Sortable(U)}
<1>1. SUFFICES ASSUME C # {} PROVE FALSE
  <2>1. T \in SUBSET T
    OBVIOUS
  <2> HIDE DEF Orders
  <2> QED
    BY <2>1
<1>2. PICK m \in C : \A k \in C : m <= k
  <2>1. C \in SUBSET Nat
    OBVIOUS
  <2> HIDE DEF C
  <2> QED
    BY <1>1, <2>1, SmallestNumber
<1>3. PICK U \in SUBSET T : Cardinality(U) = m /\ ~Sortable(U)
  OBVIOUS
<1> HIDE DEF Sortable
<1>4. IsFiniteSet(U) /\ m \in Nat
  BY FS_Subset
<1>5. U # {}
  <2> SUFFICES ASSUME U = {} PROVE FALSE
    OBVIOUS
  <2>1. m = 0
    BY <1>3, FS_EmptySet
  <2>2. Orders(<<>>, U, 0)
    BY DEF Orders, ToSet
  <2> QED
    BY <1>3, <2>1, <2>2 DEF Sortable
<1>6. PICK f \in U : \A g \in U : f.key <= g.key
  <2> DEFINE K == {g.key : g \in U}
  <2>1. K \in SUBSET Nat /\ K # {}
    BY <1>5
  <2>2. PICK k \in K : \A l \in K : k <= l
    <3> HIDE DEF K
    <3> QED
      BY <2>1, SmallestNumber
  <2> QED
    BY <2>2
<1> DEFINE R == U \ {f}
<1>7. IsFiniteSet(R) /\ Cardinality(R) = m - 1 /\ m - 1 \in Nat /\ R \in SUBSET T
  <2>1. IsFiniteSet(R) /\ Cardinality(R) = Cardinality(U) - 1
    BY <1>4, FS_RemoveElement
  <2>2. Cardinality(R) \in Nat
    BY <2>1, FS_CardinalityType
  <2> QED
    BY <1>3, <2>1, <2>2
<1>8. Sortable(R)
  BY <1>2, <1>7
<1>9. PICK s : Orders(s, R, m - 1)
  BY <1>7, <1>8 DEF Sortable
<1> DEFINE t == [i \in 1 .. m |-> IF i = 1 THEN f ELSE s[i - 1]]
<1>10. \A i \in 1 .. m : i # 1 => i - 1 \in 1 .. m - 1
  BY <1>4
<1>11. \A i \in 1 .. m : i # 1 => t[i] = s[i - 1] /\ t[i] \in R
  BY <1>9, <1>10 DEF Orders
<1>12. t[1] = f /\ 1 \in 1 .. m
  BY <1>7
<1>13. \A g \in R : f.key < g.key
  BY <1>6
<1>14. t \in [1 .. m -> U]
  BY <1>11
<1>15. ToSet(t) = U
  <2>1. ASSUME NEW g \in R PROVE \E i \in 1 .. m : t[i] = g
    <3>1. PICK j \in 1 .. m - 1 : s[j] = g
      BY <1>9 DEF Orders, ToSet
    <3>2. j + 1 \in 1 .. m /\ j + 1 # 1 /\ (j + 1) - 1 = j
      BY <1>4
    <3> QED
      BY <1>11, <3>1, <3>2
  <2>2. \A g \in U : \E i \in 1 .. m : t[i] = g
    BY <1>12, <2>1
  <2> HIDE DEF t
  <2> QED
    BY <1>14, <2>2 DEF ToSet
<1>16. ASSUME NEW i \in 1 .. m, NEW j \in 1 .. m, i < j PROVE t[i].key < t[j].key
  <2>1. j # 1
    BY <1>16
  <2>2. CASE i = 1
    BY <1>11, <1>12, <1>13, <2>1, <2>2
  <2>3. CASE i # 1
    <3>1. i - 1 < j - 1
      BY <1>16
    <3> HIDE DEF t
    <3> QED
      BY <1>9, <1>10, <1>11, <2>1, <2>3, <3>1 DEF Orders
  <2> QED
    BY <2>2, <2>3
<1> HIDE DEF t
<1>17. Orders(t, U, m)
  BY <1>14, <1>15, <1>16 DEF Orders
<1> QED
  BY <1>3, <1>17 DEF Sortable

LEMMA Elements ==
  ASSUME NEW S, NEW s \in Seq(S)
  PROVE  Len(s) \in Nat /\ DOMAIN s = 1 .. Len(s) /\ \A i \in 1 .. Len(s) : s[i] \in S
OBVIOUS

\* What a JSON object's fields are.
FieldsOf(fields) ==
  /\ fields \in Seq([key: Nat, value: Json])
  /\ \A i, j \in DOMAIN fields : fields[i].key = fields[j].key => i = j

LEMMA InKeyOrderSorts ==
  ASSUME NEW fields, FieldsOf(fields)
  PROVE  Orders(InKeyOrder(fields), ToSet(fields), Len(fields))
<1> DEFINE T == ToSet(fields)
           n == Len(fields)
<1>1. n \in Nat /\ DOMAIN fields = 1 .. n /\ \A i \in 1 .. n : fields[i].key \in Nat
  <2>0. fields \in Seq([key: Nat, value: Json])
    BY DEF FieldsOf
  <2>1. n \in Nat /\ DOMAIN fields = 1 .. n
    BY <2>0, Elements
  <2>2. \A i \in 1 .. n : fields[i] \in [key: Nat, value: Json]
    BY <2>0, Elements
  <2> QED
    BY <2>1, <2>2
<1>2. \A f \in T : \E i \in 1 .. n : fields[i] = f
  BY <1>1 DEF ToSet
<1>3. \A i \in 1 .. n : fields[i] \in T
  BY <1>1 DEF ToSet
<1>4. \A i, j \in 1 .. n : fields[i] = fields[j] => i = j
  BY <1>1 DEF FieldsOf
<1> HIDE DEF T
<1>5. IsFiniteSet(T) /\ Cardinality(T) = n
  <2> DEFINE b == [i \in 1 .. n |-> fields[i]]
  <2>1. b \in Bijection(1 .. n, T)
    BY <1>2, <1>3, <1>4 DEF Bijection, Injection, Surjection, IsInjective
  <2>2. ExistsBijection(1 .. n, T)
    BY <2>1 DEF ExistsBijection
  <2>3. Cardinality(1 .. n) = n /\ IsFiniteSet(1 .. n)
    <3> HIDE DEF n, b
    <3>0. 1 \in Int /\ n \in Int
      BY <1>1
    <3>1. IsFiniteSet(1 .. n) /\ Cardinality(1 .. n) = IF 1 > n THEN 0 ELSE n - 1 + 1
      BY <3>0, FS_Interval, Zenon
    <3> QED
      BY <1>1, <3>1
  <2> HIDE DEF n, b
  <2> QED
    BY <2>2, <2>3, FS_Bijection
<1>6. \A f \in T : f.key \in Nat
  <2> HIDE DEF n
  <2> QED
    BY <1>1, <1>2
<1>7. \A f, g \in T : f.key = g.key => f = g
  <2> HIDE DEF n
  <2> QED
    BY <1>1, <1>2 DEF FieldsOf
<1>8. \E s : Orders(s, T, n)
  <2> HIDE DEF n
  <2> QED
    BY <1>1, <1>5, <1>6, <1>7, OrderExists
<1>9. \E s \in [DOMAIN fields -> ToSet(fields)] :
        /\ ToSet(s) = ToSet(fields)
        /\ \A i, j \in DOMAIN fields : i < j => s[i].key < s[j].key
  BY <1>1, <1>8 DEF Orders, T
<1> QED
  BY <1>1, <1>9 DEF Orders, InKeyOrder, T

\* Two sequences in the order of the same keys have the same keys everywhere.
LEMMA OneOrder ==
  ASSUME NEW m \in Nat, NEW S, NEW s, Orders(s, S, m), \A f \in S : f.key \in Nat,
         NEW n \in Nat, NEW T, NEW t, Orders(t, T, n), \A f \in T : f.key \in Nat,
         \A f \in S : \E g \in T : f.key = g.key,
         \A g \in T : \E f \in S : f.key = g.key
  PROVE  m = n /\ \A i \in 1 .. m : s[i].key = t[i].key
<1>0. /\ \A i \in 1 .. m : s[i] \in S
      /\ \A j \in 1 .. n : t[j] \in T
      /\ \A f \in S : \E i \in 1 .. m : s[i] = f
      /\ \A f \in T : \E j \in 1 .. n : t[j] = f
  BY DEF Orders, ToSet
<1>1. /\ \A i \in 1 .. m : s[i].key \in Nat
      /\ \A i \in 1 .. n : t[i].key \in Nat
  BY DEF Orders
<1>2. /\ \A i, j \in 1 .. m : i < j => s[i].key < s[j].key
      /\ \A i, j \in 1 .. n : i < j => t[i].key < t[j].key
  BY DEF Orders
<1>3. \A i \in 1 .. m : \E j \in 1 .. n : s[i].key = t[j].key
  <2> SUFFICES ASSUME NEW i \in 1 .. m PROVE \E j \in 1 .. n : s[i].key = t[j].key
    OBVIOUS
  <2>1. PICK f \in T : s[i].key = f.key
    BY <1>0
  <2> QED
    BY <1>0, <2>1
<1>4. \A j \in 1 .. n : \E i \in 1 .. m : s[i].key = t[j].key
  <2> SUFFICES ASSUME NEW j \in 1 .. n PROVE \E i \in 1 .. m : s[i].key = t[j].key
    OBVIOUS
  <2>1. PICK f \in S : f.key = t[j].key
    BY <1>0
  <2> QED
    BY <1>0, <2>1
<1>5. \A i \in 1 .. m : i \in 1 .. n => s[i].key = t[i].key
  <2> DEFINE C == {i \in 1 .. m : i \in 1 .. n /\ s[i].key # t[i].key}
  <2>1. SUFFICES ASSUME C # {} PROVE FALSE
    OBVIOUS
  <2>2. PICK i \in C : \A j \in C : i <= j
    <3>1. C \in SUBSET Nat
      OBVIOUS
    <3> HIDE DEF C
    <3> QED
      BY <2>1, <3>1, SmallestNumber
  <2>3. i \in 1 .. m /\ i \in 1 .. n /\ s[i].key # t[i].key
    OBVIOUS
  <2>4. \A j \in 1 .. i - 1 : j \in 1 .. m /\ j \in 1 .. n /\ s[j].key = t[j].key
    BY <2>2, <2>3
  <2>5. PICK j \in 1 .. n : s[i].key = t[j].key
    BY <1>3, <2>3
  <2>6. PICK k \in 1 .. m : s[k].key = t[i].key
    BY <1>4, <2>3
  <2> HIDE DEF C
  <2>7. i < j
    <3>1. j # i
      BY <2>3, <2>5
    <3>2. ~(j < i)
      <4>1. j < i => s[j].key = t[j].key /\ s[j].key < s[i].key
        BY <1>2, <2>3, <2>4
      <4> QED
        BY <1>1, <2>3, <2>5, <4>1
    <3> QED
      BY <2>3, <3>1, <3>2
  <2>8. i < k
    <3>1. k # i
      BY <2>3, <2>6
    <3>2. ~(k < i)
      <4>1. k < i => s[k].key = t[k].key /\ t[k].key < t[i].key
        BY <1>2, <2>3, <2>4
      <4> QED
        BY <1>1, <2>3, <2>6, <4>1
    <3> QED
      BY <2>3, <3>1, <3>2
  <2>9. t[i].key < s[i].key /\ s[i].key < t[i].key
    BY <1>2, <2>3, <2>5, <2>6, <2>7, <2>8
  <2> QED
    BY <1>1, <2>3, <2>9
<1>6. m <= n
  <2> SUFFICES ASSUME n < m PROVE FALSE
    OBVIOUS
  <2>1. n + 1 \in 1 .. m
    OBVIOUS
  <2>2. PICK j \in 1 .. n : s[n + 1].key = t[j].key
    BY <1>3, <2>1
  <2>3. j \in 1 .. m /\ j < n + 1 /\ s[j].key = t[j].key
    BY <1>5, <2>2
  <2>4. s[j].key < s[n + 1].key
    BY <1>2, <2>1, <2>3
  <2> QED
    BY <1>1, <2>2, <2>3, <2>4
<1>7. n <= m
  <2> SUFFICES ASSUME m < n PROVE FALSE
    OBVIOUS
  <2>1. m + 1 \in 1 .. n
    OBVIOUS
  <2>2. PICK i \in 1 .. m : s[i].key = t[m + 1].key
    BY <1>4, <2>1
  <2>3. i \in 1 .. n /\ i < m + 1 /\ s[i].key = t[i].key
    BY <1>5, <2>2
  <2>4. t[i].key < t[m + 1].key
    BY <1>2, <2>1, <2>3
  <2> QED
    BY <1>1, <2>2, <2>3, <2>4
<1> QED
  BY <1>5, <1>6, <1>7

-----------------------------------------------------------------------------
(* JSON values and their parts.                                            *)

LEMMA ArrayParts ==
  ASSUME NEW v \in Json, IsArray(v)
  PROVE  /\ v = Array(v.items)
         /\ \A i \in DOMAIN v.items : v.items[i] \in Json /\ DepthOf[v.items[i]] < DepthOf[v]
<1>1. /\ v.items \in Seq(Json) /\ v = Array(v.items)
      /\ \A i \in DOMAIN v.items : DepthOf[v.items[i]] < DepthOf[v]
  BY JsonAssumption DEF IsArray, IsScalar, IsObject
<1> QED
  BY <1>1, Elements

LEMMA ObjectParts ==
  ASSUME NEW v \in Json, IsObject(v)
  PROVE  /\ v = Object(v.fields) /\ FieldsOf(v.fields)
         /\ DOMAIN v.fields = 1 .. Len(v.fields) /\ Len(v.fields) \in Nat
         /\ \A i \in DOMAIN v.fields :
              /\ v.fields[i] \in [key: Nat, value: Json]
              /\ DepthOf[v.fields[i].value] < DepthOf[v]
<1>1. /\ v.fields \in Seq([key: Nat, value: Json]) /\ v = Object(v.fields)
      /\ \A i, j \in DOMAIN v.fields : v.fields[i].key = v.fields[j].key => i = j
      /\ \A i \in DOMAIN v.fields : DepthOf[v.fields[i].value] < DepthOf[v]
  BY JsonAssumption DEF IsArray, IsScalar, IsObject
<1>2. /\ DOMAIN v.fields = 1 .. Len(v.fields) /\ Len(v.fields) \in Nat
      /\ \A i \in DOMAIN v.fields : v.fields[i] \in [key: Nat, value: Json]
  BY <1>1, Elements
<1> QED
  BY <1>1, <1>2 DEF FieldsOf

\* What the keys of an object lead to, in order or not.
LEMMA KeyParts ==
  ASSUME NEW v \in Json, IsObject(v)
  PROVE  /\ \A i \in DOMAIN v.fields : At(v, v.fields[i].key) = v.fields[i].value
         /\ \A k \in Keys(v) : At(v, k) \in Json /\ DepthOf[At(v, k)] < DepthOf[v]
         /\ Keys(v) = {f.key : f \in ToSet(v.fields)}
<1>1. ASSUME NEW i \in DOMAIN v.fields PROVE At(v, v.fields[i].key) = v.fields[i].value
  <2> DEFINE j == CHOOSE h \in DOMAIN v.fields : v.fields[h].key = v.fields[i].key
  <2>1. j \in DOMAIN v.fields /\ v.fields[j].key = v.fields[i].key
    OBVIOUS
  <2> HIDE DEF j
  <2>2. j = i
    BY <2>1, ObjectParts DEF FieldsOf
  <2> QED
    BY <2>2 DEF At, j
<1>2. ASSUME NEW k \in Keys(v) PROVE At(v, k) \in Json /\ DepthOf[At(v, k)] < DepthOf[v]
  <2>1. PICK i \in DOMAIN v.fields : v.fields[i].key = k
    BY DEF Keys
  <2>2. At(v, k) = v.fields[i].value
    BY <1>1, <2>1
  <2> QED
    BY <2>2, ObjectParts
<1>3. Keys(v) = {f.key : f \in ToSet(v.fields)}
  BY DEF Keys, ToSet
<1> QED
  BY <1>1, <1>2, <1>3

Sorted(v) == InKeyOrder(v.fields)

LEMMA SortedParts ==
  ASSUME NEW v \in Json, IsObject(v)
  PROVE  /\ Orders(Sorted(v), ToSet(v.fields), Len(v.fields))
         /\ DOMAIN Sorted(v) = 1 .. Len(v.fields) /\ Len(v.fields) \in Nat
         /\ \A f \in ToSet(v.fields) : f.key \in Nat
         /\ \A i \in DOMAIN Sorted(v) :
              /\ Sorted(v)[i].key \in Keys(v)
              /\ Sorted(v)[i].value = At(v, Sorted(v)[i].key)
              /\ Sorted(v)[i].value \in Json
              /\ DepthOf[Sorted(v)[i].value] < DepthOf[v]
         /\ \A k \in Keys(v) : \E i \in DOMAIN Sorted(v) : Sorted(v)[i].key = k
<1>1. Orders(Sorted(v), ToSet(v.fields), Len(v.fields)) /\ Len(v.fields) \in Nat
  BY ObjectParts, InKeyOrderSorts DEF Sorted
<1>2. /\ DOMAIN Sorted(v) = 1 .. Len(v.fields)
      /\ \A i \in DOMAIN Sorted(v) : Sorted(v)[i] \in ToSet(v.fields)
      /\ ToSet(Sorted(v)) = ToSet(v.fields)
  BY <1>1 DEF Orders
<1>3. \A f \in ToSet(v.fields) : \E i \in DOMAIN v.fields : v.fields[i] = f
  BY DEF ToSet
<1>4. \A f \in ToSet(v.fields) :
        /\ f.key \in Nat /\ f.key \in Keys(v) /\ f.value = At(v, f.key)
        /\ f.value \in Json /\ DepthOf[f.value] < DepthOf[v]
  <2> SUFFICES ASSUME NEW f \in ToSet(v.fields)
               PROVE  /\ f.key \in Nat /\ f.key \in Keys(v) /\ f.value = At(v, f.key)
                      /\ f.value \in Json /\ DepthOf[f.value] < DepthOf[v]
    OBVIOUS
  <2>1. PICK i \in DOMAIN v.fields : v.fields[i] = f
    BY <1>3
  <2>2. f \in [key: Nat, value: Json] /\ DepthOf[f.value] < DepthOf[v]
    BY <2>1, ObjectParts
  <2>3. f.key \in Keys(v) /\ f.value = At(v, f.key)
    BY <2>1, KeyParts DEF Keys
  <2> QED
    BY <2>2, <2>3
<1>5. \A k \in Keys(v) : \E i \in DOMAIN Sorted(v) : Sorted(v)[i].key = k
  <2> SUFFICES ASSUME NEW k \in Keys(v) PROVE \E i \in DOMAIN Sorted(v) : Sorted(v)[i].key = k
    OBVIOUS
  <2>1. PICK f \in ToSet(Sorted(v)) : f.key = k
    BY <1>2, KeyParts
  <2> QED
    BY <2>1 DEF ToSet
<1> QED
  BY <1>1, <1>2, <1>4, <1>5

-----------------------------------------------------------------------------
(* The two recursive functions exist: a function that is right up to one level *)
(* makes one that is right up to the next.                                     *)

Level(n) == {v \in Json : DepthOf[v] < n}

CanonicalOf(f, v) ==
  CASE IsArray(v) -> Array([i \in DOMAIN v.items |-> f[v.items[i]]])
    [] IsObject(v) ->
         Object([i \in DOMAIN Sorted(v) |-> Field(Sorted(v)[i].key, f[Sorted(v)[i].value])])
    [] OTHER -> v

MeaningOf(f, v) ==
  CASE IsArray(v)  -> Array([i \in DOMAIN v.items |-> f[v.items[i]]])
    [] IsObject(v) -> Object([k \in Keys(v) |-> f[At(v, k)]])
    [] OTHER       -> v

LEMMA Kinds ==
  ASSUME NEW v \in Json
  PROVE  /\ IsScalar(v) \/ IsArray(v) \/ IsObject(v)
         /\ ~(IsScalar(v) /\ IsArray(v)) /\ ~(IsScalar(v) /\ IsObject(v))
         /\ ~(IsArray(v) /\ IsObject(v))
BY JsonAssumption DEF IsScalar, IsArray, IsObject

LEMMA CanonicalDepends ==
  ASSUME NEW v \in Json, NEW f, NEW g,
         \A w \in Json : DepthOf[w] < DepthOf[v] => f[w] = g[w]
  PROVE  CanonicalOf(f, v) = CanonicalOf(g, v)
<1>1. CASE IsArray(v)
  <2> DEFINE items(h) == [i \in DOMAIN v.items |-> h[v.items[i]]]
  <2>1. \A i \in DOMAIN v.items : f[v.items[i]] = g[v.items[i]]
    BY <1>1, ArrayParts
  <2>2. items(f) = items(g)
    BY <2>1
  <2>3. \A h : CanonicalOf(h, v) = Array(items(h))
    BY <1>1, Kinds DEF CanonicalOf
  <2> HIDE DEF items
  <2> QED
    BY <2>2, <2>3
<1>2. CASE IsObject(v)
  <2> DEFINE fields(h) == [i \in DOMAIN Sorted(v) |->
                             Field(Sorted(v)[i].key, h[Sorted(v)[i].value])]
  <2>1. \A i \in DOMAIN Sorted(v) : f[Sorted(v)[i].value] = g[Sorted(v)[i].value]
    BY <1>2, SortedParts
  <2>2. fields(f) = fields(g)
    BY <2>1
  <2>3. ~IsArray(v)
    BY <1>2, Kinds
  <2> QED
    BY <1>2, <2>2, <2>3 DEF CanonicalOf
<1>3. CASE IsScalar(v)
  BY <1>3, Kinds DEF CanonicalOf
<1> QED
  BY <1>1, <1>2, <1>3, Kinds

LEMMA MeaningDepends ==
  ASSUME NEW v \in Json, NEW f, NEW g,
         \A w \in Json : DepthOf[w] < DepthOf[v] => f[w] = g[w]
  PROVE  MeaningOf(f, v) = MeaningOf(g, v)
<1>1. CASE IsArray(v)
  <2> DEFINE items(h) == [i \in DOMAIN v.items |-> h[v.items[i]]]
  <2>1. \A i \in DOMAIN v.items : f[v.items[i]] = g[v.items[i]]
    BY <1>1, ArrayParts
  <2>2. items(f) = items(g)
    BY <2>1
  <2>3. \A h : MeaningOf(h, v) = Array(items(h))
    BY <1>1, Kinds DEF MeaningOf
  <2> HIDE DEF items
  <2> QED
    BY <2>2, <2>3
<1>2. CASE IsObject(v)
  <2>1. \A k \in Keys(v) : f[At(v, k)] = g[At(v, k)]
    BY <1>2, KeyParts
  <2>2. [k \in Keys(v) |-> f[At(v, k)]] = [k \in Keys(v) |-> g[At(v, k)]]
    BY <2>1
  <2>3. ~IsArray(v)
    BY <1>2, Kinds
  <2> QED
    BY <1>2, <2>2, <2>3 DEF MeaningOf
<1>3. CASE IsScalar(v)
  BY <1>3, Kinds DEF MeaningOf
<1> QED
  BY <1>1, <1>2, <1>3, Kinds

LEMMA CanonicalizeExists == Canonicalize = [v \in Json |-> CanonicalOf(Canonicalize, v)]
<1> DEFINE Right(f, n) == f = [v \in Level(n) |-> CanonicalOf(f, v)]
           C == {n \in Nat : ~ \E f : Right(f, n)}
<1>1. MaxDepth \in Nat /\ \A v \in Json : DepthOf[v] \in 0 .. MaxDepth
  BY JsonAssumption
<1>2. \A n \in Nat : \E f : Right(f, n)
  <2>1. SUFFICES ASSUME C # {} PROVE FALSE
    OBVIOUS
  <2>2. PICK n \in C : \A m \in C : n <= m
    <3>1. C \in SUBSET Nat
      OBVIOUS
    <3> HIDE DEF C
    <3> QED
      BY <2>1, <3>1, SmallestNumber
  <2>3. n \in Nat /\ ~ \E f : Right(f, n)
    OBVIOUS
  <2>4. CASE n = 0
    <3>1. Level(0) = {}
      BY <1>1 DEF Level
    <3>2. Right([v \in {} |-> 0], 0)
      BY <3>1
    <3> QED
      BY <2>3, <2>4, <3>2
  <2>5. CASE n # 0
    <3>1. n - 1 \in Nat /\ n - 1 \notin C
      BY <2>2, <2>3, <2>5
    <3>2. PICK g : Right(g, n - 1)
      BY <3>1
    <3> DEFINE f == [v \in Level(n) |-> CanonicalOf(g, v)]
    <3>3. \A v \in Level(n - 1) : g[v] = CanonicalOf(g, v)
      BY <3>2
    <3>4. \A v \in Level(n - 1) : v \in Level(n)
      BY <1>1, <2>3 DEF Level
    <3>5. \A v \in Level(n - 1) : f[v] = g[v]
      BY <3>3, <3>4
    <3>6. ASSUME NEW v \in Level(n) PROVE CanonicalOf(g, v) = CanonicalOf(f, v)
      <4>1. v \in Json /\ DepthOf[v] < n
        BY DEF Level
      <4>2. \A w \in Json : DepthOf[w] < DepthOf[v] => w \in Level(n - 1)
        BY <1>1, <2>3, <4>1 DEF Level
      <4> HIDE DEF f
      <4>3. \A w \in Json : DepthOf[w] < DepthOf[v] => g[w] = f[w]
        BY <3>5, <4>2
      <4> QED
        BY <4>1, <4>3, CanonicalDepends
    <3>7. Right(f, n)
      BY <3>6
    <3> QED
      BY <2>3, <3>7
  <2> QED
    BY <2>4, <2>5
<1>3. Level(MaxDepth + 1) = Json
  BY <1>1 DEF Level
<1>4. \E f : f = [v \in Json |-> CanonicalOf(f, v)]
  <2>1. \E f : Right(f, MaxDepth + 1)
    BY <1>1, <1>2
  <2> QED
    BY <1>3, <2>1
<1>5. Canonicalize = CHOOSE f : f = [v \in Json |-> CanonicalOf(f, v)]
  BY DEF Canonicalize, CanonicalOf, Sorted
<1> QED
  BY <1>4, <1>5

LEMMA MeaningExists == Meaning = [v \in Json |-> MeaningOf(Meaning, v)]
<1> DEFINE Right(f, n) == f = [v \in Level(n) |-> MeaningOf(f, v)]
           C == {n \in Nat : ~ \E f : Right(f, n)}
<1>1. MaxDepth \in Nat /\ \A v \in Json : DepthOf[v] \in 0 .. MaxDepth
  BY JsonAssumption
<1>2. \A n \in Nat : \E f : Right(f, n)
  <2>1. SUFFICES ASSUME C # {} PROVE FALSE
    OBVIOUS
  <2>2. PICK n \in C : \A m \in C : n <= m
    <3>1. C \in SUBSET Nat
      OBVIOUS
    <3> HIDE DEF C
    <3> QED
      BY <2>1, <3>1, SmallestNumber
  <2>3. n \in Nat /\ ~ \E f : Right(f, n)
    OBVIOUS
  <2>4. CASE n = 0
    <3>1. Level(0) = {}
      BY <1>1 DEF Level
    <3>2. Right([v \in {} |-> 0], 0)
      BY <3>1
    <3> QED
      BY <2>3, <2>4, <3>2
  <2>5. CASE n # 0
    <3>1. n - 1 \in Nat /\ n - 1 \notin C
      BY <2>2, <2>3, <2>5
    <3>2. PICK g : Right(g, n - 1)
      BY <3>1
    <3> DEFINE f == [v \in Level(n) |-> MeaningOf(g, v)]
    <3>3. \A v \in Level(n - 1) : g[v] = MeaningOf(g, v)
      BY <3>2
    <3>4. \A v \in Level(n - 1) : v \in Level(n)
      BY <1>1, <2>3 DEF Level
    <3>5. \A v \in Level(n - 1) : f[v] = g[v]
      BY <3>3, <3>4
    <3>6. ASSUME NEW v \in Level(n) PROVE MeaningOf(g, v) = MeaningOf(f, v)
      <4>1. v \in Json /\ DepthOf[v] < n
        BY DEF Level
      <4>2. \A w \in Json : DepthOf[w] < DepthOf[v] => w \in Level(n - 1)
        BY <1>1, <2>3, <4>1 DEF Level
      <4> HIDE DEF f
      <4>3. \A w \in Json : DepthOf[w] < DepthOf[v] => g[w] = f[w]
        BY <3>5, <4>2
      <4> QED
        BY <4>1, <4>3, MeaningDepends
    <3>7. Right(f, n)
      BY <3>6
    <3> QED
      BY <2>3, <3>7
  <2> QED
    BY <2>4, <2>5
<1>3. Level(MaxDepth + 1) = Json
  BY <1>1 DEF Level
<1>4. \E f : f = [v \in Json |-> MeaningOf(f, v)]
  <2>1. \E f : Right(f, MaxDepth + 1)
    BY <1>1, <1>2
  <2> QED
    BY <1>3, <2>1
<1>5. Meaning = CHOOSE f : f = [v \in Json |-> MeaningOf(f, v)]
  BY DEF Meaning, MeaningOf
<1> QED
  BY <1>4, <1>5

LEMMA Canonicalized ==
  ASSUME NEW v \in Json
  PROVE  /\ IsScalar(v) => Canonicalize[v] = v
         /\ IsArray(v) =>
              Canonicalize[v] = Array([i \in DOMAIN v.items |-> Canonicalize[v.items[i]]])
         /\ IsObject(v) =>
              Canonicalize[v] = Object([i \in DOMAIN Sorted(v) |->
                Field(Sorted(v)[i].key, Canonicalize[Sorted(v)[i].value])])
<1>1. Canonicalize[v] = CanonicalOf(Canonicalize, v)
  <2> DEFINE c == Canonicalize
  <2>1. c = [w \in Json |-> CanonicalOf(c, w)]
    BY CanonicalizeExists
  <2> HIDE DEF c
  <2>2. c[v] = CanonicalOf(c, v)
    BY <2>1
  <2> QED
    BY <2>2 DEF c
<1> QED
  BY <1>1, Kinds DEF CanonicalOf

LEMMA Meant ==
  ASSUME NEW v \in Json
  PROVE  /\ IsScalar(v) => Meaning[v] = v
         /\ IsArray(v) => Meaning[v] = Array([i \in DOMAIN v.items |-> Meaning[v.items[i]]])
         /\ IsObject(v) => Meaning[v] = Object([k \in Keys(v) |-> Meaning[At(v, k)]])
<1>1. Meaning[v] = MeaningOf(Meaning, v)
  <2> DEFINE c == Meaning
  <2>1. c = [w \in Json |-> MeaningOf(c, w)]
    BY MeaningExists
  <2> HIDE DEF c
  <2>2. c[v] = MeaningOf(c, v)
    BY <2>1
  <2> QED
    BY <2>2 DEF c
<1> QED
  BY <1>1, Kinds DEF MeaningOf

-----------------------------------------------------------------------------
(* The hash and the meaning tell the same values apart.                    *)

Agree(a, b) == Canonicalize[a] = Canonicalize[b] <=> Meaning[a] = Meaning[b]

LEMMA ArraysAgree ==
  ASSUME NEW a \in Json, IsArray(a), NEW b \in Json, IsArray(b),
         \A v, w \in Json : DepthOf[v] < DepthOf[a] => Agree(v, w)
  PROVE  Agree(a, b)
<1> DEFINE items(f, v) == [i \in DOMAIN v.items |-> f[v.items[i]]]
<1>1. /\ Canonicalize[a] = Array(items(Canonicalize, a))
      /\ Canonicalize[b] = Array(items(Canonicalize, b))
      /\ Meaning[a] = Array(items(Meaning, a))
      /\ Meaning[b] = Array(items(Meaning, b))
  BY Canonicalized, Meant
<1>2. \A s, t : Array(s) = Array(t) <=> s = t
  BY DEF Array
<1>3. \A f : items(f, a) = items(f, b) <=>
               /\ DOMAIN a.items = DOMAIN b.items
               /\ \A i \in DOMAIN a.items : f[a.items[i]] = f[b.items[i]]
  <2> SUFFICES ASSUME NEW f
               PROVE  items(f, a) = items(f, b) <=>
                        /\ DOMAIN a.items = DOMAIN b.items
                        /\ \A i \in DOMAIN a.items : f[a.items[i]] = f[b.items[i]]
    OBVIOUS
  <2>1. DOMAIN items(f, a) = DOMAIN a.items /\ DOMAIN items(f, b) = DOMAIN b.items
    OBVIOUS
  <2>2. ASSUME items(f, a) = items(f, b), NEW i \in DOMAIN a.items, i \in DOMAIN b.items
        PROVE  f[a.items[i]] = f[b.items[i]]
    <3>1. items(f, a)[i] = f[a.items[i]] /\ items(f, b)[i] = f[b.items[i]]
      BY <2>2
    <3> QED
      BY <2>2, <3>1
  <2> QED
    BY <2>1, <2>2
<1>4. ASSUME DOMAIN a.items = DOMAIN b.items, NEW i \in DOMAIN a.items
      PROVE  Agree(a.items[i], b.items[i])
  BY <1>4, ArrayParts
<1> HIDE DEF items
<1> QED
  BY <1>1, <1>2, <1>3, <1>4 DEF Agree

LEMMA ObjectsAgree ==
  ASSUME NEW a \in Json, IsObject(a), NEW b \in Json, IsObject(b),
         \A v, w \in Json : DepthOf[v] < DepthOf[a] => Agree(v, w)
  PROVE  Agree(a, b)
<1> DEFINE fields(v) == [i \in DOMAIN Sorted(v) |->
                           Field(Sorted(v)[i].key, Canonicalize[Sorted(v)[i].value])]
           values(v) == [k \in Keys(v) |-> Meaning[At(v, k)]]
           SameFields ==
             /\ DOMAIN Sorted(a) = DOMAIN Sorted(b)
             /\ \A i \in DOMAIN Sorted(a) :
                  /\ Sorted(a)[i].key = Sorted(b)[i].key
                  /\ Canonicalize[Sorted(a)[i].value] = Canonicalize[Sorted(b)[i].value]
           SameValues ==
             /\ Keys(a) = Keys(b)
             /\ \A k \in Keys(a) : Meaning[At(a, k)] = Meaning[At(b, k)]
<1>1. /\ Canonicalize[a] = Object(fields(a)) /\ Canonicalize[b] = Object(fields(b))
      /\ Meaning[a] = Object(values(a)) /\ Meaning[b] = Object(values(b))
  BY Canonicalized, Meant
<1>2. \A s, t : Object(s) = Object(t) <=> s = t
  BY DEF Object
<1>3. fields(a) = fields(b) <=> SameFields
  <2>1. DOMAIN fields(a) = DOMAIN Sorted(a) /\ DOMAIN fields(b) = DOMAIN Sorted(b)
    OBVIOUS
  <2>2. ASSUME fields(a) = fields(b), NEW i \in DOMAIN Sorted(a), i \in DOMAIN Sorted(b)
        PROVE  /\ Sorted(a)[i].key = Sorted(b)[i].key
               /\ Canonicalize[Sorted(a)[i].value] = Canonicalize[Sorted(b)[i].value]
    <3>1. /\ fields(a)[i] = Field(Sorted(a)[i].key, Canonicalize[Sorted(a)[i].value])
          /\ fields(b)[i] = Field(Sorted(b)[i].key, Canonicalize[Sorted(b)[i].value])
      BY <2>2
    <3>2. \A k, l, v, w : Field(k, v) = Field(l, w) => k = l /\ v = w
      BY DEF Field
    <3> HIDE DEF fields
    <3> QED
      BY <2>2, <3>1, <3>2
  <2> QED
    BY <2>1, <2>2
<1>4. values(a) = values(b) <=> SameValues
  <2>1. DOMAIN values(a) = Keys(a) /\ DOMAIN values(b) = Keys(b)
    OBVIOUS
  <2>2. ASSUME values(a) = values(b), NEW k \in Keys(a), k \in Keys(b)
        PROVE  Meaning[At(a, k)] = Meaning[At(b, k)]
    <3>1. values(a)[k] = Meaning[At(a, k)] /\ values(b)[k] = Meaning[At(b, k)]
      BY <2>2
    <3> HIDE DEF values
    <3> QED
      BY <2>2, <3>1
  <2> QED
    BY <2>1, <2>2
<1> HIDE DEF fields, values
<1>5. ASSUME SameFields PROVE SameValues
  <2>1. Keys(a) = Keys(b)
    <3>1. ASSUME NEW k \in Keys(a) PROVE k \in Keys(b)
      <4>1. PICK i \in DOMAIN Sorted(a) : Sorted(a)[i].key = k
        BY SortedParts
      <4>2. i \in DOMAIN Sorted(b) /\ Sorted(b)[i].key = k
        BY <1>5, <4>1
      <4> QED
        BY <4>2, SortedParts
    <3>2. ASSUME NEW k \in Keys(b) PROVE k \in Keys(a)
      <4>1. PICK i \in DOMAIN Sorted(b) : Sorted(b)[i].key = k
        BY SortedParts
      <4>2. i \in DOMAIN Sorted(a) /\ Sorted(a)[i].key = k
        BY <1>5, <4>1
      <4> QED
        BY <4>2, SortedParts
    <3> QED
      BY <3>1, <3>2
  <2>2. ASSUME NEW k \in Keys(a) PROVE Meaning[At(a, k)] = Meaning[At(b, k)]
    <3>1. PICK i \in DOMAIN Sorted(a) : Sorted(a)[i].key = k
      BY SortedParts
    <3>2. /\ At(a, k) = Sorted(a)[i].value /\ At(a, k) \in Json
          /\ DepthOf[At(a, k)] < DepthOf[a]
      BY <3>1, SortedParts
    <3>3. At(b, k) = Sorted(b)[i].value /\ At(b, k) \in Json
      BY <1>5, <3>1, SortedParts
    <3>4. Canonicalize[At(a, k)] = Canonicalize[At(b, k)]
      BY <1>5, <3>2, <3>3
    <3> QED
      BY <3>2, <3>3, <3>4 DEF Agree
  <2> QED
    BY <2>1, <2>2
<1>6. ASSUME SameValues PROVE SameFields
  <2>1. /\ Len(a.fields) = Len(b.fields)
        /\ \A i \in 1 .. Len(a.fields) : Sorted(a)[i].key = Sorted(b)[i].key
    <3>1. /\ \A f \in ToSet(a.fields) : \E g \in ToSet(b.fields) : f.key = g.key
          /\ \A g \in ToSet(b.fields) : \E f \in ToSet(a.fields) : f.key = g.key
      <4>1. {f.key : f \in ToSet(a.fields)} = {f.key : f \in ToSet(b.fields)}
        BY <1>6, KeyParts
      <4> QED
        BY <4>1
    <3>2. /\ Orders(Sorted(a), ToSet(a.fields), Len(a.fields)) /\ Len(a.fields) \in Nat
          /\ \A f \in ToSet(a.fields) : f.key \in Nat
      BY SortedParts
    <3>3. /\ Orders(Sorted(b), ToSet(b.fields), Len(b.fields)) /\ Len(b.fields) \in Nat
          /\ \A f \in ToSet(b.fields) : f.key \in Nat
      BY SortedParts
    <3> HIDE DEF SameValues, SameFields
    <3> DEFINE S == ToSet(a.fields)
               T == ToSet(b.fields)
               m == Len(a.fields)
               n == Len(b.fields)
    <3> HIDE DEF S, T, m, n
    <3>4. m = n /\ \A i \in 1 .. m : Sorted(a)[i].key = Sorted(b)[i].key
      <4>1. /\ Orders(Sorted(a), S, m) /\ m \in Nat /\ \A f \in S : f.key \in Nat
            /\ Orders(Sorted(b), T, n) /\ n \in Nat /\ \A f \in T : f.key \in Nat
            /\ \A f \in S : \E g \in T : f.key = g.key
            /\ \A g \in T : \E f \in S : f.key = g.key
        BY <3>1, <3>2, <3>3 DEF S, T, m, n
      <4> QED
        BY <4>1, OneOrder
    <3> QED
      BY <3>4 DEF m, n
  <2>2. DOMAIN Sorted(a) = DOMAIN Sorted(b)
    BY <2>1, SortedParts
  <2>3. ASSUME NEW i \in DOMAIN Sorted(a)
        PROVE  /\ Sorted(a)[i].key = Sorted(b)[i].key
               /\ Canonicalize[Sorted(a)[i].value] = Canonicalize[Sorted(b)[i].value]
    <3>1. Sorted(a)[i].key = Sorted(b)[i].key
      BY <2>1, SortedParts
    <3> DEFINE k == Sorted(a)[i].key
    <3>2. /\ k \in Keys(a) /\ Sorted(a)[i].value = At(a, k)
          /\ At(a, k) \in Json /\ DepthOf[At(a, k)] < DepthOf[a]
      BY SortedParts
    <3>3. Sorted(b)[i].value = At(b, k) /\ At(b, k) \in Json
      BY <2>2, <3>1, SortedParts
    <3> HIDE DEF k
    <3>4. Canonicalize[At(a, k)] = Canonicalize[At(b, k)]
      BY <1>6, <3>2, <3>3 DEF Agree
    <3> QED
      BY <3>1, <3>2, <3>3, <3>4
  <2> QED
    BY <2>2, <2>3
<1> HIDE DEF SameFields, SameValues
<1> QED
  BY <1>1, <1>2, <1>3, <1>4, <1>5, <1>6 DEF Agree

LEMMA AllAgree == \A a, b \in Json : Agree(a, b)
<1> DEFINE C == {n \in Nat : \E a, b \in Json : DepthOf[a] = n /\ ~Agree(a, b)}
<1>1. \A v \in Json : DepthOf[v] \in Nat
  BY JsonAssumption
<1>2. SUFFICES ASSUME C # {} PROVE FALSE
  BY <1>1
<1>3. PICK n \in C : \A m \in C : n <= m
  <2>1. C \in SUBSET Nat
    OBVIOUS
  <2> HIDE DEF C
  <2> QED
    BY <1>2, <2>1, SmallestNumber
<1>4. PICK a, b \in Json : DepthOf[a] = n /\ ~Agree(a, b)
  OBVIOUS
<1>5. \A v, w \in Json : DepthOf[v] < DepthOf[a] => Agree(v, w)
  BY <1>1, <1>3, <1>4
<1> HIDE DEF C
<1>6. ASSUME a.kind # b.kind PROVE Agree(a, b)
  <2>1. \A v \in Json : Canonicalize[v].kind = v.kind /\ Meaning[v].kind = v.kind
    <3> SUFFICES ASSUME NEW v \in Json
                 PROVE  Canonicalize[v].kind = v.kind /\ Meaning[v].kind = v.kind
      OBVIOUS
    <3>1. (\A s : Array(s).kind = "array") /\ (\A s : Object(s).kind = "object")
      BY DEF Array, Object
    <3>2. CASE IsScalar(v)
      BY <3>2, Canonicalized, Meant
    <3>3. CASE IsArray(v)
      <4>1. v.kind = "array"
        BY <3>3 DEF IsArray
      <4>2. (\E s : Canonicalize[v] = Array(s)) /\ (\E s : Meaning[v] = Array(s))
        BY <3>3, Canonicalized, Meant
      <4> QED
        BY <3>1, <4>1, <4>2
    <3>4. CASE IsObject(v)
      <4>1. v.kind = "object"
        BY <3>4 DEF IsObject
      <4>2. (\E s : Canonicalize[v] = Object(s)) /\ (\E s : Meaning[v] = Object(s))
        BY <3>4, Canonicalized, Meant
      <4> QED
        BY <3>1, <4>1, <4>2
    <3> QED
      BY <3>2, <3>3, <3>4, Kinds
  <2>2. Canonicalize[a] # Canonicalize[b] /\ Meaning[a] # Meaning[b]
    BY <1>6, <2>1
  <2> QED
    BY <2>2 DEF Agree
<1>7. ASSUME IsScalar(a), IsScalar(b) PROVE Agree(a, b)
  <2>1. Canonicalize[a] = a /\ Canonicalize[b] = b /\ Meaning[a] = a /\ Meaning[b] = b
    BY <1>7, Canonicalized, Meant
  <2> QED
    BY <2>1 DEF Agree
<1>8. (IsArray(a) /\ IsArray(b)) \/ (IsObject(a) /\ IsObject(b))
  <2>1. a.kind = b.kind /\ ~(IsScalar(a) /\ IsScalar(b))
    BY <1>4, <1>6, <1>7
  <2>2. IsScalar(a) \/ IsArray(a) \/ IsObject(a)
    BY Kinds
  <2>3. /\ IsScalar(a) <=> IsScalar(b)
        /\ IsArray(a) <=> IsArray(b)
        /\ IsObject(a) <=> IsObject(b)
    BY <2>1 DEF IsScalar, IsArray, IsObject
  <2> QED
    BY <2>1, <2>2, <2>3
<1> QED
  BY <1>4, <1>5, <1>8, ArraysAgree, ObjectsAgree

\* Two bodies have one hash exactly when they are the same JSON, or both absent:
\* request-hash.ts forgets the order of fields, at any depth, and nothing else.
THEOREM HashIsMeaning ==
  \A a, b \in Bodies : HashRequestBody(a) = HashRequestBody(b) <=> SameJson(a, b)
<1> SUFFICES ASSUME NEW a \in Bodies, NEW b \in Bodies
             PROVE  HashRequestBody(a) = HashRequestBody(b) <=> SameJson(a, b)
  OBVIOUS
<1>1. ASSUME NEW v \in Bodies, v # NoBody PROVE v \in Json /\ Canonicalize[v] # JsonNull
  <2>1. v \in Json /\ (IsArray(v) \/ IsObject(v))
    BY <1>1, Kinds DEF Bodies
  <2>2. (\E s : Canonicalize[v] = Array(s)) \/ (\E s : Canonicalize[v] = Object(s))
    BY <2>1, Canonicalized
  <2>3. \A s : Array(s) # JsonNull /\ Object(s) # JsonNull
    <3>1. /\ JsonNull.kind = "scalar"
          /\ \A s : Array(s).kind = "array" /\ Object(s).kind = "object"
      BY DEF JsonNull, Scalar, Array, Object
    <3> QED
      BY <3>1
  <2> QED
    BY <2>1, <2>2, <2>3
<1>2. CASE a = NoBody \/ b = NoBody
  BY <1>1, <1>2 DEF HashRequestBody, SameJson
<1>3. CASE a # NoBody /\ b # NoBody
  <2>1. HashRequestBody(a) = Canonicalize[a] /\ HashRequestBody(b) = Canonicalize[b]
    BY <1>3 DEF HashRequestBody
  <2>2. SameJson(a, b) <=> Meaning[a] = Meaning[b]
    BY <1>3 DEF SameJson
  <2> QED
    BY <1>1, <1>3, <2>1, <2>2, AllAgree DEF Agree
<1> QED
  BY <1>2, <1>3

-----------------------------------------------------------------------------
(* What a key remembers.                                                   *)

USE IdempotencyAssumption DEF IdempotencyAssumption

\* The hash of a row is that of a body sent under its key, claim after claim.
HashesAreSent ==
  \A s \in Scopes : row[s] # Null =>
    \E r \in Requests : ScopeOf[r] = s /\ row[s].hash = HashOf[r]

\* A step writes the hash of the body it was sent with, or leaves the hash.
LEMMA HashSteps ==
  ASSUME TypeInv, [Next]_vars, NEW s \in Scopes, row'[s] # Null
  PROVE  \/ \E r \in Requests : ScopeOf[r] = s /\ row'[s].hash = HashOf[r]
         \/ row[s] # Null /\ row'[s].hash = row[s].hash
<1>1. row \in [Scopes -> Row \cup {Null}]
  BY DEF TypeInv, TypeOK
<1>2. CASE row' = row
  BY <1>2
<1>3. ASSUME NEW r \in Requests, row' = [row EXCEPT ![ScopeOf[r]] = Processing(HashOf[r])]
      PROVE  \/ \E q \in Requests : ScopeOf[q] = s /\ row'[s].hash = HashOf[q]
             \/ row[s] # Null /\ row'[s].hash = row[s].hash
  <2>1. CASE ScopeOf[r] = s
    BY <1>1, <1>3, <2>1 DEF Processing
  <2>2. CASE ScopeOf[r] # s
    BY <1>1, <1>3, <2>2
  <2> QED
    BY <2>1, <2>2
<1>4. ASSUME NEW t \in Scopes, row[t] # Null,
             \E x : row' = [row EXCEPT ![t] = x] /\ x.hash = row[t].hash
      PROVE  row[s] # Null /\ row'[s].hash = row[s].hash
  <2>1. PICK x : row' = [row EXCEPT ![t] = x] /\ x.hash = row[t].hash
    BY <1>4
  <2>2. CASE t = s
    BY <1>1, <1>4, <2>1, <2>2
  <2>3. CASE t # s
    BY <1>1, <2>1, <2>3
  <2> QED
    BY <2>2, <2>3
<1>5. ASSUME NEW r \in Requests, Settle(r)
      PROVE  row[s] # Null /\ row'[s].hash = row[s].hash
  <2> DEFINE t == ScopeOf[r]
             x == [status |-> "completed", hash |-> row[t].hash,
                   snapshot |-> HashOf[r], age |-> "fresh"]
  <2>1. row[t] # Null /\ t \in Scopes
    BY <1>5 DEF Settle, TypeInv, Found, TypeOK, Stage
  <2>2. row' = [row EXCEPT ![t] = x] /\ x.hash = row[t].hash
    BY <1>1, <1>5, <2>1 DEF Settle
  <2> HIDE DEF x
  <2> QED
    BY <1>4, <2>1, <2>2
<1>6. ASSUME NEW r \in Requests, MarkFailed(r)
      PROVE  row' = row \/ (row[s] # Null /\ row'[s].hash = row[s].hash)
  <2> DEFINE t == ScopeOf[r]
             x == [row[t] EXCEPT !.status = "failed", !.age = "fresh"]
  <2>1. CASE IsStatus(t, "processing")
    <3>1. row[t] # Null /\ row[t] \in Row /\ t \in Scopes
      BY <1>1, <2>1 DEF IsStatus
    <3>2. row' = [row EXCEPT ![t] = x]
      BY <1>1, <1>6, <2>1 DEF MarkFailed
    <3>3. x.hash = row[t].hash
      BY <3>1 DEF Row, Settled, Unsettled
    <3> HIDE DEF x
    <3> QED
      BY <1>4, <3>1, <3>2, <3>3
  <2>2. CASE ~IsStatus(t, "processing")
    BY <1>1, <1>6, <2>2 DEF MarkFailed
  <2> QED
    BY <2>1, <2>2
<1>7. ASSUME NEW t \in Scopes, Age(t)
      PROVE  row[s] # Null /\ row'[s].hash = row[s].hash
  <2> DEFINE x == [row[t] EXCEPT !.age = "stale"]
  <2>1. row[t] # Null /\ row[t] \in Row
    BY <1>1, <1>7 DEF Age, IsStatus
  <2>2. row' = [row EXCEPT ![t] = x]
    BY <1>1, <1>7 DEF Age
  <2>3. x.hash = row[t].hash
    BY <2>1 DEF Row, Settled, Unsettled
  <2> HIDE DEF x
  <2> QED
    BY <1>4, <2>1, <2>2, <2>3
<1>8. \/ row' = row
      \/ \E r \in Requests : row' = [row EXCEPT ![ScopeOf[r]] = Processing(HashOf[r])]
      \/ \E r \in Requests : Settle(r) \/ MarkFailed(r)
      \/ \E t \in Scopes : Age(t)
  BY DEF Next, vars, Advance, Send, TryCreate, FindByScope, Replay, RejectReused,
         TakeOverFailed, TakeOverStale, TakeOver, HandlerFails, Complete, Commit,
         CommitUnacknowledged, ReleaseLost, Die
<1> QED
  BY <1>2, <1>3, <1>5, <1>6, <1>7, <1>8

\* However its rows are claimed, completed, released and taken over, a key
\* recognises exactly the retries of what was sent under it, for any bodies.
THEOREM RetriesAreKnown == Spec => []RetriesAreRecognised
<1>1. Init => HashesAreSent
  BY DEF Init, HashesAreSent
<1>2. TypeInv /\ HashesAreSent /\ [Next]_vars => HashesAreSent'
  BY HashSteps DEF HashesAreSent
<1>3. TypeInv /\ HashesAreSent => RetriesAreRecognised
  <2> SUFFICES ASSUME TypeInv, HashesAreSent, NEW s \in Scopes, row[s] # Null
               PROVE  \E r \in Requests : ScopeOf[r] = s /\ Recognised[row[s].hash] = Resent[r]
    BY DEF RetriesAreRecognised
  <2>1. PICK r \in Requests : ScopeOf[r] = s /\ row[s].hash = HashOf[r]
    BY DEF HashesAreSent
  <2>2. /\ HashOf[r] = HashRequestBody(BodyOf[r]) /\ HashOf[r] \in Hashes
        /\ BodyOf[r] \in Bodies
    BY RetriesAssumption DEF RetriesAssumption
  <2>3. Recognised[HashOf[r]] = HashedAs(HashOf[r]) /\ Resent[r] = SameAs(BodyOf[r])
    BY <2>2 DEF Recognised, Resent
  <2>4. HashedAs(HashOf[r]) = SameAs(BodyOf[r])
    <3>1. \A b \in Bodies : HashRequestBody(b) = HashOf[r] <=> SameJson(b, BodyOf[r])
      BY <2>2, HashIsMeaning
    <3> QED
      BY <3>1 DEF HashedAs, SameAs
  <2> QED
    BY <2>1, <2>3, <2>4
<1> QED
  BY <1>1, <1>2, <1>3, InitTypeInv, StepTypeInv, PTL DEF Spec
=============================================================================
