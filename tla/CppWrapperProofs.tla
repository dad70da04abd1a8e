--------------------------- MODULE CppWrapperProofs ---------------------------
(***************************************************************************)
(* Theorems about CppWrapper, for any number of objects, handles, devices  *)
(* and calls: the references and handles an application in C++ has are     *)
(* those of its objects, and it makes only calls the registry is proved    *)
(* for.                                                                    *)
(***************************************************************************)
EXTENDS CppWrapper, DeviceRegistryProofs

-----------------------------------------------------------------------------
(* Counting calls, and the objects that hold a device.                     *)

LEMMA CountConcat ==
  ASSUME NEW S, NEW a \in Seq(S), NEW b \in Seq(S), NEW d
  PROVE  Count(a \o b, d) = Count(a, d) + Count(b, d)
  <1> DEFINE P == {i \in DOMAIN a : a[i] = d}
             Q == {i \in DOMAIN b : b[i] = d}
             R == {i \in DOMAIN (a \o b) : (a \o b)[i] = d}
             f == [i \in Q |-> Len(a) + i]
  <1>1. PICK m \in Nat, n \in Nat : m = Len(a) /\ n = Len(b)
    OBVIOUS
  <1>2. /\ DOMAIN a = 1 .. m /\ DOMAIN b = 1 .. n /\ DOMAIN (a \o b) = 1 .. m + n
        /\ \A i \in 1 .. m : (a \o b)[i] = a[i]
        /\ \A i \in 1 .. n : (a \o b)[m + i] = b[i]
        /\ f = [i \in Q |-> m + i]
    BY <1>1
  <1>3. IsFiniteSet(P) /\ IsFiniteSet(Q) /\ IsFiniteSet(R)
    <2>1. a \o b \in Seq(S)
      OBVIOUS
    <2>2. IsFiniteSet({i \in DOMAIN (a \o b) : (a \o b)[i] = d})
      BY <2>1, CountType
    <2>3. IsFiniteSet({i \in DOMAIN a : a[i] = d}) /\ IsFiniteSet({i \in DOMAIN b : b[i] = d})
      BY CountType
    <2> QED
      BY <2>2, <2>3
  <1>4. Q \subseteq 1 .. n /\ P = R \cap (1 .. m)
    BY <1>2
  <1>5. R \ P = {m + i : i \in Q}
    <2>1. ASSUME NEW j \in R \ P PROVE \E i \in Q : j = m + i
      <3>1. j \in 1 .. m + n /\ j \notin 1 .. m
        BY <1>2, <1>4
      <3>2. j - m \in 1 .. n /\ j = m + (j - m)
        BY <3>1
      <3> QED
        BY <1>2, <3>2
    <2>2. ASSUME NEW i \in Q PROVE m + i \in R \ P
      BY <1>2, <1>4
    <2> QED
      BY <2>1, <2>2
  <1>6. f \in Bijection(Q, R \ P)
    <2>1. f \in [Q -> R \ P]
      BY <1>2, <1>5
    <2>2. \A i, j \in Q : f[i] = f[j] => i = j
      BY <1>2, <1>4
    <2>3. \A j \in R \ P : \E i \in Q : f[i] = j
      BY <1>2, <1>5
    <2> HIDE DEF f, P, Q, R
    <2> QED
      BY <2>1, <2>2, <2>3 DEF Bijection, Injection, Surjection, IsInjective
  <1>7. Count(a, d) = Cardinality(P) /\ Count(b, d) = Cardinality(Q)
        /\ Count(a \o b, d) = Cardinality(R)
    BY DEF Count
  <1>8. P \subseteq R
    BY <1>2, <1>4
  <1> HIDE DEF f, P, Q, R
  <1>9. ExistsBijection(Q, R \ P)
    BY <1>6 DEF ExistsBijection
  <1>10. Cardinality(R \ P) = Cardinality(Q)
    BY <1>9, <1>3, FS_Bijection
  <1>11. Cardinality(R \ P) = Cardinality(R) - Cardinality(R \cap P)
    BY <1>3, FS_Difference
  <1>12. Cardinality(R \cap P) = Cardinality(P)
    <2>1. R \cap P = P
      BY <1>8
    <2> QED
      BY <2>1, Zenon
  <1>13. Cardinality(P) \in Nat /\ Cardinality(Q) \in Nat /\ Cardinality(R) \in Nat
    BY <1>3, FS_CardinalityType
  <1>14. Cardinality(R) = Cardinality(P) + Cardinality(Q)
    BY <1>10, <1>11, <1>12, <1>13
  <1> QED
    BY <1>7, <1>14

LEMMA CountNone ==
  ASSUME NEW s, NEW d, \A i \in DOMAIN s : s[i] # d
  PROVE  Count(s, d) = 0
  <1>1. {i \in DOMAIN s : s[i] = d} = {}
    OBVIOUS
  <1> QED
    BY <1>1, FS_EmptySet DEF Count

\* How many x in V have f[x] = d.
Holders(V, f, d) == Cardinality({x \in V : f[x] = d})

LEMMA HoldersType ==
  ASSUME NEW V, IsFiniteSet(V), NEW f, NEW d
  PROVE  Holders(V, f, d) \in Nat
  <1>1. {x \in V : f[x] = d} \in SUBSET V
    OBVIOUS
  <1>2. IsFiniteSet({x \in V : f[x] = d})
    BY <1>1, FS_Subset
  <1> QED
    BY <1>2, FS_CardinalityType DEF Holders

LEMMA HoldersPositive ==
  ASSUME NEW V, IsFiniteSet(V), NEW f, NEW d
  PROVE  Holders(V, f, d) > 0 <=> \E x \in V : f[x] = d
  <1> DEFINE P == {x \in V : f[x] = d}
  <1>1. P \in SUBSET V
    OBVIOUS
  <1>2. IsFiniteSet(P)
    BY <1>1, FS_Subset
  <1>3. P # {} <=> \E x \in V : f[x] = d
    OBVIOUS
  <1>4. Holders(V, f, d) = Cardinality(P)
    BY DEF Holders
  <1> HIDE DEF P
  <1>5. Cardinality(P) \in Nat /\ (Cardinality(P) = 0 <=> P = {})
    BY <1>2, FS_CardinalityType, FS_EmptySet
  <1>6. Cardinality(P) > 0 <=> P # {}
    BY <1>5
  <1> QED
    BY <1>3, <1>4, <1>6

LEMMA HoldersChange ==
  ASSUME NEW V, IsFiniteSet(V), NEW f, NEW v \in V, NEW g, NEW d,
         \A x \in V \ {v} : g[x] = f[x]
  PROVE  Holders(V, g, d) + (IF f[v] = d THEN 1 ELSE 0)
           = Holders(V, f, d) + (IF g[v] = d THEN 1 ELSE 0)
  <1> DEFINE P == {x \in V : f[x] = d}
             Q == {x \in V : g[x] = d}
  <1>1. IsFiniteSet(P) /\ IsFiniteSet(Q)
    <2>1. P \in SUBSET V /\ Q \in SUBSET V
      OBVIOUS
    <2> QED
      BY <2>1, FS_Subset
  <1>2. /\ P \ {v} = Q \ {v}
        /\ v \in P <=> f[v] = d
        /\ v \in Q <=> g[v] = d
    OBVIOUS
  <1>3. Holders(V, f, d) = Cardinality(P) /\ Holders(V, g, d) = Cardinality(Q)
    BY DEF Holders
  <1> HIDE DEF P, Q
  <1>4. /\ Cardinality(P \ {v}) = IF v \in P THEN Cardinality(P) - 1 ELSE Cardinality(P)
        /\ Cardinality(Q \ {v}) = IF v \in Q THEN Cardinality(Q) - 1 ELSE Cardinality(Q)
    BY <1>1, FS_RemoveElement
  <1>5. Cardinality(P) \in Nat /\ Cardinality(Q) \in Nat
    BY <1>1, FS_CardinalityType
  <1>6. Cardinality(P) = Cardinality(Q \ {v}) + (IF v \in P THEN 1 ELSE 0)
    BY <1>2, <1>4, <1>5
  <1>7. Cardinality(Q) = Cardinality(Q \ {v}) + (IF v \in Q THEN 1 ELSE 0)
    BY <1>2, <1>4, <1>5
  <1>8. Cardinality(Q \ {v}) \in Nat
    BY <1>1, FS_RemoveElement, FS_CardinalityType
  <1> QED
    BY <1>2, <1>3, <1>6, <1>7, <1>8

-----------------------------------------------------------------------------
(* The calls of a statement.                                               *)

CallTo(op, d) == [op |-> op, dev |-> d]

\* How many calls of op with d are still to be made.
Requests(op, d) == Count(script, CallTo(op, d))

LEMMA ConcatRange ==
  ASSUME NEW S, NEW a \in Seq(S), NEW b \in Seq(S), NEW i \in DOMAIN (a \o b)
  PROVE  \/ i \in DOMAIN a /\ (a \o b)[i] = a[i]
         \/ i - Len(a) \in DOMAIN b /\ i > Len(a) /\ (a \o b)[i] = b[i - Len(a)]
  <1>1. PICK m \in Nat, n \in Nat : m = Len(a) /\ n = Len(b)
    OBVIOUS
  <1>2. i \in 1 .. m + n
    BY <1>1
  <1>3. CASE i \in 1 .. m
    BY <1>1, <1>3
  <1>4. CASE i \notin 1 .. m
    <2>1. i - m \in 1 .. n /\ i = m + (i - m) /\ i > m
      BY <1>2, <1>4
    <2>2. (a \o b)[i] = b[i - m]
      BY <1>1, <1>2, <2>1
    <2> QED
      BY <1>1, <2>1, <2>2
  <1> QED
    BY <1>3, <1>4

LEMMA CallOfIs ==
  ASSUME NEW op \in {"ref", "unref", "open", "close"}, NEW d \in Objects \cup {NoObject}
  PROVE  /\ CallOf(op, d) \in Seq(CallType)
         /\ Len(CallOf(op, d)) = IF d = NoObject THEN 0 ELSE 1
         /\ \A i \in 1 .. Len(CallOf(op, d)) : CallOf(op, d)[i] = CallTo(op, d) /\ d \in Objects
         /\ \A l : \A e \in Objects :
              Count(CallOf(op, d), CallTo(l, e)) = IF l = op /\ e = d THEN 1 ELSE 0
  <1>1. CASE d = NoObject
    <2>1. CallOf(op, d) = <<>>
      BY <1>1 DEF CallOf
    <2> QED
      BY <1>1, <2>1, CountEmpty, ConstantsAssumption DEF ConstantsAssumption
  <1>2. CASE d # NoObject
    <2>1. CallOf(op, d) = << CallTo(op, d) >> /\ d \in Objects
      BY <1>2 DEF CallOf, CallTo
    <2>2. CallTo(op, d) \in CallType
      BY DEF CallTo, CallType
    <2>3. \A l, e : Count(<< CallTo(op, d) >>, CallTo(l, e))
                      = IF CallTo(l, e) = CallTo(op, d) THEN 1 ELSE 0
      BY <2>2, CountOne
    <2>4. \A l, e : CallTo(l, e) = CallTo(op, d) <=> l = op /\ e = d
      BY DEF CallTo
    <2> QED
      BY <1>2, <2>1, <2>2, <2>3, <2>4
  <1> QED
    BY <1>1, <1>2

LEMMA UnrefAllIs ==
  ASSUME NEW s \in Seq(Objects)
  PROVE  /\ UnrefAll(s) \in Seq(CallType)
         /\ \A i \in DOMAIN UnrefAll(s) : UnrefAll(s)[i].op = "unref" /\ UnrefAll(s)[i].dev \in Objects
         /\ \A l, d : Count(UnrefAll(s), CallTo(l, d)) = IF l = "unref" THEN Count(s, d) ELSE 0
  <1>1. /\ UnrefAll(s) = [i \in 1 .. Len(s) |-> CallTo("unref", s[i])]
        /\ DOMAIN UnrefAll(s) = DOMAIN s
        /\ Len(s) \in Nat
        /\ \A i \in 1 .. Len(s) : CallTo("unref", s[i]) \in CallType
    BY DEF UnrefAll, CallTo, CallType
  <1>2. UnrefAll(s) \in Seq(CallType)
    BY <1>1
  <1>3. \A i \in DOMAIN s : UnrefAll(s)[i] = CallTo("unref", s[i])
    BY DEF UnrefAll, CallTo
  <1>4. ASSUME NEW l, NEW d PROVE Count(UnrefAll(s), CallTo(l, d)) = IF l = "unref" THEN Count(s, d) ELSE 0
    <2>1. \A i \in DOMAIN s : UnrefAll(s)[i] = CallTo(l, d) <=> l = "unref" /\ s[i] = d
      <3>1. \A e : CallTo("unref", e) = CallTo(l, d) <=> l = "unref" /\ e = d
        BY DEF CallTo
      <3> QED
        BY <1>3, <3>1
    <2>2. CASE l = "unref"
      <3>1. {i \in DOMAIN UnrefAll(s) : UnrefAll(s)[i] = CallTo(l, d)} = {i \in DOMAIN s : s[i] = d}
        BY <1>1, <2>1, <2>2
      <3> QED
        BY <2>2, <3>1 DEF Count
    <2>3. CASE l # "unref"
      BY <1>1, <2>1, <2>3, CountNone
    <2> QED
      BY <2>2, <2>3
  <1>5. \A i \in DOMAIN UnrefAll(s) : UnrefAll(s)[i].op = "unref" /\ UnrefAll(s)[i].dev \in Objects
    BY <1>1, <1>3 DEF CallTo
  <1> QED
    BY <1>2, <1>4, <1>5

\* What the elements of s take, up to the n-th.
Taken(q, s, n) ==
  /\ q \in Seq(CallType)
  /\ \A i \in DOMAIN q : q[i].op \in {"ref", "unref"} /\ \E j \in DOMAIN s : q[i].dev = s[j]
  /\ \A d \in Objects :
       /\ Count(q, CallTo("unref", d)) = Count([j \in 1 .. n |-> s[j]], d)
       /\ Count(q, CallTo("ref", d)) = 2 * Count([j \in 1 .. n |-> s[j]], d)

LEMMA PushBackIs ==
  ASSUME NEW e \in Objects
  PROVE  /\ PushBack(e) \in Seq(CallType)
         /\ \A i \in DOMAIN PushBack(e) : PushBack(e)[i].op \in {"ref", "unref"} /\ PushBack(e)[i].dev = e
         /\ \A d \in Objects :
              /\ Count(PushBack(e), CallTo("unref", d)) = IF d = e THEN 1 ELSE 0
              /\ Count(PushBack(e), CallTo("ref", d)) = IF d = e THEN 2 ELSE 0
  <1> DEFINE R == CallOf("ref", e)
             U == CallOf("unref", e)
  <1>1. e # NoObject
    BY ConstantsAssumption DEF ConstantsAssumption
  <1>2. R = << CallTo("ref", e) >> /\ U = << CallTo("unref", e) >>
    BY <1>1 DEF CallOf, CallTo
  <1>3. R \in Seq(CallType) /\ U \in Seq(CallType) /\ R \o R \in Seq(CallType)
    BY CallOfIs
  <1>4. PushBack(e) = R \o R \o U
    BY DEF PushBack
  <1>5. ASSUME NEW l \in {"ref", "unref"}, NEW d \in Objects
        PROVE  Count(PushBack(e), CallTo(l, d))
                 = IF d = e THEN (IF l = "ref" THEN 2 ELSE 1) ELSE 0
    <2>1. /\ Count(R, CallTo(l, d)) = IF l = "ref" /\ d = e THEN 1 ELSE 0
          /\ Count(U, CallTo(l, d)) = IF l = "unref" /\ d = e THEN 1 ELSE 0
      BY CallOfIs
    <2>2. Count(R \o R, CallTo(l, d)) = Count(R, CallTo(l, d)) + Count(R, CallTo(l, d))
      BY <1>3, CountConcat
    <2>3. Count(R \o R \o U, CallTo(l, d)) = Count(R \o R, CallTo(l, d)) + Count(U, CallTo(l, d))
      BY <1>3, CountConcat
    <2> HIDE DEF R, U
    <2> QED
      BY <1>4, <2>1, <2>2, <2>3
  <1>7. PushBack(e) \in Seq(CallType)
    <2> HIDE DEF R, U
    <2> QED
      BY <1>3, <1>4
  <1>8. \A i \in DOMAIN PushBack(e) : PushBack(e)[i].op \in {"ref", "unref"} /\ PushBack(e)[i].dev = e
    <2>1. /\ \A i \in DOMAIN R : R[i] = CallTo("ref", e)
          /\ \A i \in DOMAIN U : U[i] = CallTo("unref", e)
      BY <1>2
    <2> HIDE DEF R, U
    <2>2. \A i \in DOMAIN (R \o R) : (R \o R)[i] = CallTo("ref", e)
      BY <1>3, <2>1, ConcatRange
    <2>3. \A i \in DOMAIN PushBack(e) : PushBack(e)[i] \in {CallTo("ref", e), CallTo("unref", e)}
      BY <1>3, <1>4, <2>1, <2>2, ConcatRange
    <2> QED
      BY <2>3 DEF CallTo
  <1> QED
    BY <1>5, <1>7, <1>8

IsFlat(f, q, n) == f = [i \in 1 .. n |-> IF i = 1 THEN q[i] ELSE f[i - 1] \o q[i]]

LEMMA FlatExists ==
  ASSUME NEW q, NEW n \in Nat
  PROVE  \E f : IsFlat(f, q, n)
  <1> DEFINE T == {k \in Nat : \A f : ~IsFlat(f, q, k)}
  <1>1. SUFFICES ASSUME T # {} PROVE FALSE
    OBVIOUS
  <1>2. PICK m \in T : \A k \in T : m <= k
    <2> HIDE DEF T
    <2>1. T \subseteq Nat
      BY DEF T
    <2> QED
      BY <1>1, <2>1, LeastNat
  <1>3. m \in Nat
    OBVIOUS
  <1>4. CASE m = 0
    <2> DEFINE f == [i \in 1 .. 0 |-> q[i]]
    <2>1. f = [i \in 1 .. 0 |-> IF i = 1 THEN q[i] ELSE f[i - 1] \o q[i]]
      OBVIOUS
    <2>2. IsFlat(f, q, 0)
      BY <2>1 DEF IsFlat
    <2> QED
      BY <1>4, <2>2
  <1>5. CASE m # 0
    <2>1. m - 1 \in Nat /\ ~(m <= m - 1)
      BY <1>3, <1>5
    <2>2. PICK h : IsFlat(h, q, m - 1)
      BY <1>2, <2>1
    <2> DEFINE f == [i \in 1 .. m |-> IF i < m THEN h[i] ELSE IF m = 1 THEN q[i] ELSE h[m - 1] \o q[i]]
    <2>3. ASSUME NEW i \in 1 .. m
          PROVE  f[i] = IF i = 1 THEN q[i] ELSE f[i - 1] \o q[i]
      <3>1. CASE i = m
        <4>1. m - 1 \in 1 .. m => f[m - 1] = h[m - 1]
          BY <1>3
        <4>2. i # 1 => m - 1 \in 1 .. m
          BY <1>3, <1>5, <3>1
        <4>3. f[i] = IF m = 1 THEN q[i] ELSE h[m - 1] \o q[i]
          BY <1>3, <3>1
        <4> QED
          BY <3>1, <4>1, <4>2, <4>3
      <3>2. CASE i # m
        <4>1. i \in 1 .. m - 1 /\ i < m
          BY <1>3, <3>2
        <4>2. f[i] = h[i]
          BY <4>1
        <4>3. h[i] = IF i = 1 THEN q[i] ELSE h[i - 1] \o q[i]
          BY <2>2, <4>1 DEF IsFlat
        <4>4. i # 1 => f[i - 1] = h[i - 1]
          BY <1>3, <4>1
        <4> QED
          BY <4>2, <4>3, <4>4
      <3> QED
        BY <3>1, <3>2
    <2>4. f = [i \in 1 .. m |-> f[i]]
      OBVIOUS
    <2> HIDE DEF f
    <2>5. IsFlat(f, q, m)
      BY <2>3, <2>4 DEF IsFlat
    <2> QED
      BY <1>2, <2>5
  <1> QED
    BY <1>3, <1>4, <1>5

LEMMA TakenOne ==
  ASSUME NEW s \in Seq(Objects), NEW n \in 1 .. Len(s), NEW q,
         n = 1 \/ Taken(q, s, n - 1)
  PROVE  Taken(IF n = 1 THEN PushBack(s[n]) ELSE q \o PushBack(s[n]), s, n)
  <1>1. PICK e \in Objects : e = s[n]
    OBVIOUS
  <1>2. n \in DOMAIN s /\ n \in Nat /\ n - 1 \in Nat
    OBVIOUS
  <1> DEFINE p == PushBack(e)
             x == [j \in 1 .. n - 1 |-> s[j]]
             y == [j \in 1 .. n |-> s[j]]
  <1>3. ASSUME NEW d \in Objects PROVE Count(y, d) = Count(x, d) + (IF d = e THEN 1 ELSE 0)
    <2>1. x \in Seq(Objects) /\ Len(x) = n - 1
      BY <1>2
    <2>2. y = Append(x, e)
      BY <1>1, <1>2
    <2> HIDE DEF x, y
    <2> QED
      BY <2>1, <2>2, CountAppend
  <1>4. ASSUME NEW d \in Objects PROVE Count(x, d) \in Nat
    <2>1. x \in Seq(Objects)
      BY <1>2
    <2> HIDE DEF x
    <2> QED
      BY <2>1, CountType
  <1>5. /\ p \in Seq(CallType)
        /\ \A i \in DOMAIN p : p[i].op \in {"ref", "unref"} /\ p[i].dev = s[n]
        /\ \A d \in Objects :
             /\ Count(p, CallTo("unref", d)) = IF d = e THEN 1 ELSE 0
             /\ Count(p, CallTo("ref", d)) = IF d = e THEN 2 ELSE 0
    BY <1>1, PushBackIs
  <1>6. CASE n = 1
    <2>1. \A d \in Objects : Count(x, d) = 0
      <3>1. x = <<>>
        BY <1>6
      <3> QED
        BY <3>1, CountEmpty
    <2> HIDE DEF p, x
    <2>2. \A d \in Objects : /\ Count(p, CallTo("unref", d)) = Count(y, d)
                             /\ Count(p, CallTo("ref", d)) = 2 * Count(y, d)
      BY <1>3, <1>5, <2>1
    <2>3. Taken(p, s, n)
      BY <1>2, <1>5, <2>2 DEF Taken
    <2> QED
      BY <1>1, <1>6, <2>3 DEF p
  <1>7. CASE n # 1
    <2>1. /\ q \in Seq(CallType)
          /\ \A i \in DOMAIN q : q[i].op \in {"ref", "unref"} /\ \E j \in DOMAIN s : q[i].dev = s[j]
          /\ \A d \in Objects : /\ Count(q, CallTo("unref", d)) = Count(x, d)
                                /\ Count(q, CallTo("ref", d)) = 2 * Count(x, d)
      BY <1>7 DEF Taken
    <2> HIDE DEF p, x
    <2>2. q \o p \in Seq(CallType)
      BY <1>5, <2>1
    <2>3. \A d \in Objects : /\ Count(q \o p, CallTo("unref", d)) = Count(y, d)
                             /\ Count(q \o p, CallTo("ref", d)) = 2 * Count(y, d)
      <3>1. \A c : Count(q \o p, c) = Count(q, c) + Count(p, c)
        BY <1>5, <2>1, CountConcat
      <3> HIDE DEF y
      <3> SUFFICES ASSUME NEW d \in Objects
                   PROVE  /\ Count(q \o p, CallTo("unref", d)) = Count(y, d)
                          /\ Count(q \o p, CallTo("ref", d)) = 2 * Count(y, d)
        OBVIOUS
      <3>2. PICK k \in Nat, z \in {0, 1} : k = Count(x, d) /\ z = IF d = e THEN 1 ELSE 0
        BY <1>4
      <3>3. Count(y, d) = k + z
        BY <1>3, <3>2
      <3>4. Count(p, CallTo("unref", d)) = z /\ Count(p, CallTo("ref", d)) = 2 * z
        BY <1>5, <3>2
      <3>5. Count(q, CallTo("unref", d)) = k /\ Count(q, CallTo("ref", d)) = 2 * k
        BY <2>1, <3>2
      <3>6. Count(q \o p, CallTo("unref", d)) = k + z /\ Count(q \o p, CallTo("ref", d)) = 2 * k + 2 * z
        BY <3>1, <3>4, <3>5
      <3> QED
        BY <3>2, <3>3, <3>6
    <2>4. \A i \in DOMAIN (q \o p) :
            (q \o p)[i].op \in {"ref", "unref"} /\ \E j \in DOMAIN s : (q \o p)[i].dev = s[j]
      <3>1. \A i \in DOMAIN (q \o p) : \/ i \in DOMAIN q /\ (q \o p)[i] = q[i]
                                     \/ \E k \in DOMAIN p : (q \o p)[i] = p[k]
        BY <1>5, <2>1, ConcatRange
      <3> SUFFICES ASSUME NEW i \in DOMAIN (q \o p)
                   PROVE  /\ (q \o p)[i].op \in {"ref", "unref"}
                          /\ \E j \in DOMAIN s : (q \o p)[i].dev = s[j]
        OBVIOUS
      <3>2. PICK c : c = (q \o p)[i]
        OBVIOUS
      <3>3. CASE i \in DOMAIN q /\ (q \o p)[i] = q[i]
        <4>1. c.op \in {"ref", "unref"} /\ \E j \in DOMAIN s : c.dev = s[j]
          BY <2>1, <3>2, <3>3, Zenon
        <4> QED
          BY <3>2, <4>1, Zenon
      <3>4. CASE \E k \in DOMAIN p : (q \o p)[i] = p[k]
        <4>1. c.op \in {"ref", "unref"} /\ \E j \in DOMAIN s : c.dev = s[j]
          BY <1>2, <1>5, <3>2, <3>4, Zenon
        <4> QED
          BY <3>2, <4>1, Zenon
      <3> QED
        BY <3>1, <3>3, <3>4, Zenon
    <2>5. Taken(q \o p, s, n)
      BY <2>2, <2>3, <2>4 DEF Taken
    <2> QED
      BY <1>1, <1>7, <2>5 DEF p
  <1> QED
    BY <1>6, <1>7

LEMMA FlattenIs ==
  ASSUME NEW s \in Seq(Objects), s # <<>>
  PROVE  Taken(FlattenSeq([i \in DOMAIN s |-> PushBack(s[i])]), s, Len(s))
  <1> DEFINE q == [i \in DOMAIN s |-> PushBack(s[i])]
  <1>1. PICK m \in Nat : m = Len(s) /\ m > 0
    OBVIOUS
  <1>2. Len(q) = m /\ DOMAIN s = 1 .. m /\ \A i \in 1 .. m : q[i] = PushBack(s[i])
    <2>1. q = [i \in 1 .. m |-> PushBack(s[i])]
      BY <1>1
    <2> QED
      BY <1>1, <2>1
  <1> HIDE DEF q
  <1>3. PICK f : IsFlat(f, q, m) /\ FlattenSeq(q) = f[m]
    <2>1. FlattenSeq(q) = (CHOOSE f : IsFlat(f, q, m))[m]
      BY <1>1, <1>2 DEF FlattenSeq, IsFlat
    <2>2. IsFlat(CHOOSE f : IsFlat(f, q, m), q, m)
      BY FlatExists
    <2> QED
      BY <2>1, <2>2
  <1>4. \A i \in 1 .. m : f[i] = IF i = 1 THEN PushBack(s[i]) ELSE f[i - 1] \o PushBack(s[i])
    BY <1>2, <1>3 DEF IsFlat
  <1> DEFINE T == {k \in 1 .. m : ~Taken(f[k], s, k)}
  <1>5. ASSUME T # {} PROVE FALSE
    <2>1. PICK k \in T : \A j \in T : k <= j
      <3>1. T \subseteq Nat
        OBVIOUS
      <3> HIDE DEF T
      <3> QED
        BY <1>5, <3>1, LeastNat
    <2>2. k \in 1 .. Len(s) /\ k \in 1 .. m
      BY <1>1
    <2>3. k = 1 \/ Taken(f[k - 1], s, k - 1)
      <3>1. k # 1 => k - 1 \in 1 .. m /\ ~(k <= k - 1)
        BY <2>2
      <3> QED
        BY <2>1, <3>1
    <2>4. Taken(IF k = 1 THEN PushBack(s[k]) ELSE f[k - 1] \o PushBack(s[k]), s, k)
      BY <2>2, <2>3, TakenOne
    <2>5. Taken(f[k], s, k)
      BY <1>4, <2>2, <2>4
    <2> QED
      BY <2>5
  <1>6. m \in 1 .. m
    BY <1>1
  <1> QED
    BY <1>1, <1>3, <1>5, <1>6 DEF q

-----------------------------------------------------------------------------
(* What an application in C++ owns.                                        *)

Opened(d) == Holders(HandleVars, m_handle, d)

\* libusby_ref_device(d) or libusby_open(d) has loaded the count.
Pending(t, op, d) == IF pc[t] = op /\ cur[t] = d THEN 1 ELSE 0

\* Together with the calls that the statement has still to make, the
\* application has the references and handles of its objects.
Conserved(t, d) ==
  /\ extra[d] + Pending(t, "ref", d) + Requests("ref", d) = Uses(d) + Requests("unref", d)
  /\ handles[d] + Pending(t, "open", d) + Requests("open", d)
       = Opened(d) + Requests("close", d)

Listed(t, d) == \E i \in DOMAIN list[t] : list[t][i] = d

\* A device is referenced or opened while something else keeps it.
CoveredAt(t) ==
  \A i \in DOMAIN script : script[i].op \in {"ref", "open"} =>
    \/ i = 1 /\ pc[t] = "idle" /\ extra[script[i].dev] > 0
    \/ Listed(t, script[i].dev) /\ \A j \in 1 .. i - 1 : script[j].op # "free"

\* A statement does not enumerate when it has calls to make.
ScriptAt(t) ==
  /\ filling => script = <<>>
  /\ script # <<>> => pc[t] \notin {"enum", "walk", "enumref"} /\ mutex # t
  /\ \A i \in DOMAIN script : script[i].op # "free" => script[i].dev \in Objects

WrapperAt(t) == CoveredAt(t) /\ ScriptAt(t) /\ \A d \in Objects : Conserved(t, d)

Unused == devices = <<>> /\ \A v \in Variables : m_dev[v] = NoObject

Wrapped ==
  /\ cpp => Serial
  /\ ~cpp \/ setup.threads = {} => Unused
  /\ cpp => \A t \in setup.threads : WrapperAt(t)

CppInv == CountInv /\ CppTypeOK /\ Wrapped

LEMMA UsesIs ==
  ASSUME NEW d
  PROVE  Uses(d) = Holders(Variables, m_dev, d) + Count(devices, d)
  BY DEF Uses, Holders

LEMMA UsesType ==
  ASSUME CppTypeOK, NEW d \in Objects
  PROVE  /\ Holders(Variables, m_dev, d) \in Nat /\ Count(devices, d) \in Nat
         /\ Uses(d) \in Nat /\ Opened(d) \in Nat
         /\ \A op : Requests(op, d) \in Nat
         /\ Uses(d) > 0 <=> \/ \E v \in Variables : m_dev[v] = d
                            \/ \E i \in DOMAIN devices : devices[i] = d
  <1>1. /\ Holders(Variables, m_dev, d) \in Nat
        /\ Holders(Variables, m_dev, d) > 0 <=> \E v \in Variables : m_dev[v] = d
        /\ Holders(HandleVars, m_handle, d) \in Nat
    <2>1. IsFiniteSet(Variables) /\ IsFiniteSet(HandleVars)
      BY WrapperAssumption
    <2>2. Holders(Variables, m_dev, d) \in Nat
      BY <2>1, HoldersType
    <2>4. Holders(Variables, m_dev, d) > 0 <=> \E v \in Variables : m_dev[v] = d
      BY <2>1, HoldersPositive
    <2>3. Holders(HandleVars, m_handle, d) \in Nat
      BY <2>1, HoldersType
    <2> QED
      BY <2>2, <2>3, <2>4
  <1>2. devices \in Seq(Objects) /\ script \in Seq(CallType)
    BY DEF CppTypeOK
  <1>3. /\ Count(devices, d) \in Nat
        /\ Count(devices, d) > 0 <=> \E i \in DOMAIN devices : devices[i] = d
    BY <1>2, CountType, CountPositive
  <1>4. \A op : Requests(op, d) \in Nat
    BY <1>2, CountType DEF Requests
  <1>5. Uses(d) = Holders(Variables, m_dev, d) + Count(devices, d)
    BY UsesIs
  <1> QED
    BY <1>1, <1>3, <1>4, <1>5 DEF Opened

\* Between the calls the application owns what it uses.
LEMMA Owning ==
  ASSUME CppInv, NEW t \in Threads, WrapperAt(t), Outside(t), script = <<>>, NEW d \in Objects
  PROVE  extra[d] = Uses(d) /\ handles[d] = Opened(d)
  <1>1. \A op : Requests(op, d) = 0 /\ Pending(t, "ref", d) = 0 /\ Pending(t, "open", d) = 0
    BY CountEmpty DEF Requests, Pending, Outside
  <1>2. extra[d] \in Nat /\ handles[d] \in Nat /\ Uses(d) \in Nat /\ Opened(d) \in Nat
    BY UsesType DEF CppInv, CppTypeOK, TypeOK
  <1> QED
    BY <1>1, <1>2 DEF WrapperAt, Conserved

\* A statement that changes objects of the application, and then makes calls.
LEMMA StatementKeeps ==
  ASSUME CppInv, CppTypeOK', NEW t \in Threads, WrapperAt(t), Outside(t), script = <<>>,
         UNCHANGED vars, ~filling',
         \A d \in Objects :
           /\ Uses(d)' + Requests("unref", d)' = Uses(d) + Requests("ref", d)'
           /\ Opened(d)' + Requests("close", d)' = Opened(d) + Requests("open", d)',
         \A i \in DOMAIN script' : script'[i].op \in {"ref", "open"} =>
           \/ i = 1 /\ extra[script'[i].dev] > 0
           \/ Listed(t, script'[i].dev) /\ \A j \in 1 .. i - 1 : script'[j].op # "free",
         \A i \in DOMAIN script' : script'[i].op # "free" => script'[i].dev \in Objects
  PROVE  WrapperAt(t)'
  <1> USE DEF vars, sharedVars, linkVars, appVars, threadVars, enumVars
  <1>1. pc'[t] = "idle" /\ pc[t] = "idle"
    BY DEF Outside
  <1>2. mutex # t
    BY <1>1 DEF CppInv, CountInv, ListInv, Base, Located, LocatedAt
  <1>3. CoveredAt(t)'
    BY <1>1 DEF CoveredAt, Listed
  <1>4. ScriptAt(t)'
    BY <1>1, <1>2 DEF ScriptAt
  <1>5. ASSUME NEW d \in Objects PROVE Conserved(t, d)'
    <2>1. extra[d] = Uses(d) /\ handles[d] = Opened(d)
      BY Owning
    <2>2. Pending(t, "ref", d)' = 0 /\ Pending(t, "open", d)' = 0
      BY <1>1 DEF Pending
    <2>3. Uses(d) \in Nat /\ Opened(d) \in Nat /\ \A op : Requests(op, d)' \in Nat
      <3>1. Uses(d) \in Nat /\ Opened(d) \in Nat
        BY UsesType DEF CppInv
      <3>2. \A op : Requests(op, d)' \in Nat
        <4>1. script' \in Seq(CallType)
          BY DEF CppTypeOK
        <4> QED
          BY <4>1, CountType DEF Requests
      <3> QED
        BY <3>1, <3>2
    <2> QED
      BY <2>1, <2>2, <2>3 DEF Conserved
  <1> QED
    BY <1>3, <1>4, <1>5 DEF WrapperAt

\* Two calls: l keeps device d, and u gives e up if there is one.
KeepThenRelease(s, l, d, u, e) ==
  /\ s \in Seq(CallType)
  /\ \A i \in DOMAIN s : \/ i = 1 /\ s[i] = CallTo(l, d)
                         \/ s[i] = CallTo(u, e) /\ e \in Objects
  /\ \A op : \A x \in Objects :
       Count(s, CallTo(op, x)) = (IF op = l /\ x = d THEN 1 ELSE 0)
                                   + (IF op = u /\ x = e THEN 1 ELSE 0)

LEMMA PairIs ==
  ASSUME NEW l \in {"ref", "open"}, NEW u \in {"unref", "close"},
         NEW d \in Objects, NEW e \in Objects \cup {NoObject}
  PROVE  KeepThenRelease(CallOf(l, d) \o CallOf(u, e), l, d, u, e)
  <1> DEFINE a == CallOf(l, d)
             b == CallOf(u, e)
  <1>1. /\ a \in Seq(CallType) /\ b \in Seq(CallType)
        /\ Len(a) = 1 /\ a[1] = CallTo(l, d)
        /\ \A i \in 1 .. Len(b) : b[i] = CallTo(u, e) /\ e \in Objects
        /\ \A op : \A x \in Objects :
             /\ Count(a, CallTo(op, x)) = IF op = l /\ x = d THEN 1 ELSE 0
             /\ Count(b, CallTo(op, x)) = IF op = u /\ x = e THEN 1 ELSE 0
    <2>1. d # NoObject
      BY ConstantsAssumption DEF ConstantsAssumption
    <2> QED
      BY <2>1, CallOfIs
  <1> HIDE DEF a, b
  <1>2. DOMAIN a = 1 .. 1 /\ DOMAIN b = 1 .. Len(b)
    BY <1>1
  <1>3. a \o b \in Seq(CallType)
    BY <1>1
  <1>4. ASSUME NEW i \in DOMAIN (a \o b)
        PROVE  \/ i = 1 /\ (a \o b)[i] = CallTo(l, d)
               \/ (a \o b)[i] = CallTo(u, e) /\ e \in Objects
    <2>1. \/ i \in DOMAIN a /\ (a \o b)[i] = a[i]
          \/ i - Len(a) \in DOMAIN b /\ (a \o b)[i] = b[i - Len(a)]
      BY <1>1, ConcatRange
    <2>2. \A j \in DOMAIN b : b[j] = CallTo(u, e) /\ e \in Objects
      BY <1>1, <1>2
    <2>3. \A j \in DOMAIN a : j = 1 /\ a[j] = CallTo(l, d)
      BY <1>1, <1>2
    <2> QED
      BY <2>1, <2>2, <2>3, Zenon
  <1>5. \A c : Count(a \o b, c) = Count(a, c) + Count(b, c)
    BY <1>1, CountConcat
  <1>6. \A op : \A x \in Objects :
          Count(a \o b, CallTo(op, x)) = (IF op = l /\ x = d THEN 1 ELSE 0)
                                            + (IF op = u /\ x = e THEN 1 ELSE 0)
    BY <1>1, <1>5
  <1>7. KeepThenRelease(a \o b, l, d, u, e)
    BY <1>3, <1>4, <1>6 DEF KeepThenRelease
  <1> QED
    BY <1>7 DEF a, b

\* An object of a class gets another device.
LEMMA UsesChange ==
  ASSUME CppInv, NEW v \in Variables, NEW e, m_dev' = [m_dev EXCEPT ![v] = e],
         UNCHANGED devices, NEW x \in Objects
  PROVE  Uses(x)' + (IF m_dev[v] = x THEN 1 ELSE 0) = Uses(x) + (IF e = x THEN 1 ELSE 0)
  <1>1. Uses(x) = Holders(Variables, m_dev, x) + Count(devices, x)
    BY UsesIs
  <1>2. Uses(x)' = Holders(Variables, m_dev', x) + Count(devices, x)
    <2>1. Uses(x)' = Holders(Variables, m_dev', x) + Count(devices', x)
      BY DEF Uses, Holders
    <2> QED
      BY <2>1
  <1>3. Holders(Variables, m_dev', x) + (IF m_dev[v] = x THEN 1 ELSE 0)
          = Holders(Variables, m_dev, x) + (IF e = x THEN 1 ELSE 0)
    <2>1. m_dev'[v] = e /\ \A w \in Variables \ {v} : m_dev'[w] = m_dev[w]
      BY DEF CppInv, CppTypeOK
    <2>2. Holders(Variables, m_dev', x) + (IF m_dev[v] = x THEN 1 ELSE 0)
            = Holders(Variables, m_dev, x) + (IF m_dev'[v] = x THEN 1 ELSE 0)
      <3>1. PICK f, g : f = m_dev /\ g = m_dev'
        OBVIOUS
      <3>2. \A w \in Variables \ {v} : g[w] = f[w]
        BY <2>1, <3>1
      <3>3. IsFiniteSet(Variables)
        BY WrapperAssumption
      <3>4. Holders(Variables, g, x) + (IF f[v] = x THEN 1 ELSE 0)
              = Holders(Variables, f, x) + (IF g[v] = x THEN 1 ELSE 0)
        BY <3>2, <3>3, HoldersChange
      <3> QED
        BY <3>1, <3>4
    <2> QED
      BY <2>1, <2>2
  <1>4. /\ Holders(Variables, m_dev, x) \in Nat /\ Count(devices, x) \in Nat
        /\ Holders(Variables, m_dev', x) \in Nat
    BY UsesType, HoldersType, WrapperAssumption DEF CppInv
  <1> QED
    BY <1>1, <1>2, <1>3, <1>4

LEMMA OpenedChange ==
  ASSUME CppInv, NEW h \in HandleVars, NEW e, m_handle' = [m_handle EXCEPT ![h] = e],
         NEW x \in Objects
  PROVE  Opened(x)' + (IF m_handle[h] = x THEN 1 ELSE 0) = Opened(x) + (IF e = x THEN 1 ELSE 0)
  <1>1. m_handle'[h] = e /\ \A w \in HandleVars \ {h} : m_handle'[w] = m_handle[w]
    BY DEF CppInv, CppTypeOK
  <1>2. Holders(HandleVars, m_handle', x) + (IF m_handle[h] = x THEN 1 ELSE 0)
          = Holders(HandleVars, m_handle, x) + (IF m_handle'[h] = x THEN 1 ELSE 0)
    <2>1. PICK f, g : f = m_handle /\ g = m_handle'
      OBVIOUS
    <2>2. \A w \in HandleVars \ {h} : g[w] = f[w]
      BY <1>1, <2>1
    <2>3. IsFiniteSet(HandleVars)
      BY WrapperAssumption
    <2>4. Holders(HandleVars, g, x) + (IF f[h] = x THEN 1 ELSE 0)
            = Holders(HandleVars, f, x) + (IF g[h] = x THEN 1 ELSE 0)
      BY <2>2, <2>3, HoldersChange
    <2> QED
      BY <2>1, <2>4
  <1> QED
    BY <1>1, <1>2 DEF Opened

\* What the statement leaves alone.
LEMMA UsesSame ==
  ASSUME NEW x
  PROVE  /\ UNCHANGED <<m_dev, devices>> => Uses(x)' = Uses(x)
         /\ UNCHANGED m_handle => Opened(x)' = Opened(x)
  BY DEF Uses, Opened

LEMMA TypedNext ==
  ASSUME CppTypeOK', NEW x \in Objects
  PROVE  Uses(x)' \in Nat /\ Opened(x)' \in Nat /\ \A op : Requests(op, x)' \in Nat
  <1>1. devices' \in Seq(Objects) /\ script' \in Seq(CallType)
    BY DEF CppTypeOK
  <1>2. Count(devices', x) \in Nat /\ \A op : Requests(op, x)' \in Nat
    BY <1>1, CountType DEF Requests
  <1>3. Holders(Variables, m_dev', x) \in Nat /\ Holders(HandleVars, m_handle', x) \in Nat
    BY HoldersType, WrapperAssumption
  <1>4. /\ Uses(x)' = Holders(Variables, m_dev', x) + Count(devices', x)
        /\ Opened(x)' = Holders(HandleVars, m_handle', x)
    BY DEF Uses, Opened, Holders
  <1> QED
    BY <1>2, <1>3, <1>4

LEMMA AssignKeeps ==
  ASSUME CppInv, CppTypeOK', NEW t \in Threads, WrapperAt(t),
         NEW v \in Variables, NEW d \in Objects, Assign(t, v, d)
  PROVE  WrapperAt(t)'
  <1>1. PICK e \in Objects \cup {NoObject} : e = m_dev[v]
    BY DEF CppInv, CppTypeOK
  <1>2. /\ script' = CallOf("ref", d) \o CallOf("unref", e)
        /\ m_dev' = [m_dev EXCEPT ![v] = d] /\ UNCHANGED <<vars, devices, m_handle, filling>>
        /\ Outside(t) /\ script = <<>> /\ ~filling
    BY <1>1 DEF Assign, Assignment, Between
  <1>3. PICK s : s = script'
    OBVIOUS
  <1>4. KeepThenRelease(s, "ref", d, "unref", e)
    <2>1. KeepThenRelease(CallOf("ref", d) \o CallOf("unref", e), "ref", d, "unref", e)
      BY PairIs
    <2>2. s = CallOf("ref", d) \o CallOf("unref", e)
      BY <1>2, <1>3
    <2> QED
      BY <2>1, <2>2, Zenon
  <1>5. extra[d] > 0
    <2>1. (\E w \in Variables : m_dev[w] = d) \/ \E i \in DOMAIN devices : devices[i] = d
      BY DEF Assign
    <2>2. Uses(d) > 0 /\ extra[d] = Uses(d)
      BY <1>2, <2>1, UsesType, Owning DEF CppInv
    <2> QED
      BY <2>2
  <1>6. ASSUME NEW x \in Objects
        PROVE  /\ Uses(x)' + Requests("unref", x)' = Uses(x) + Requests("ref", x)'
               /\ Opened(x)' + Requests("close", x)' = Opened(x) + Requests("open", x)'
    <2>1. /\ Requests("ref", x)' = IF x = d THEN 1 ELSE 0
          /\ Requests("unref", x)' = IF x = e THEN 1 ELSE 0
          /\ Requests("open", x)' = 0 /\ Requests("close", x)' = 0
      BY <1>3, <1>4 DEF Requests, KeepThenRelease
    <2>2. Uses(x)' + (IF e = x THEN 1 ELSE 0) = Uses(x) + (IF d = x THEN 1 ELSE 0)
      BY <1>1, <1>2, UsesChange
    <2>3. Opened(x)' = Opened(x)
      BY <1>2, UsesSame
    <2> QED
      BY <2>1, <2>2, <2>3, TypedNext
  <1>7. \A i \in DOMAIN script' :
          /\ script'[i].op \in {"ref", "open"} => i = 1 /\ extra[script'[i].dev] > 0
          /\ script'[i].op # "free" => script'[i].dev \in Objects
    BY <1>3, <1>4, <1>5 DEF CallTo, KeepThenRelease
  <1> QED
    BY <1>2, <1>6, <1>7, StatementKeeps

LEMMA OpenKeeps ==
  ASSUME CppInv, CppTypeOK', NEW t \in Threads, WrapperAt(t),
         NEW h \in HandleVars, NEW v \in Variables, Open(t, h, v)
  PROVE  WrapperAt(t)'
  <1>1. PICK d \in Objects, e \in Objects \cup {NoObject} : d = m_dev[v] /\ e = m_handle[h]
    BY DEF CppInv, CppTypeOK, Open
  <1>2. /\ script' = CallOf("open", d) \o CallOf("close", e)
        /\ m_handle' = [m_handle EXCEPT ![h] = d] /\ UNCHANGED <<vars, devices, m_dev, filling>>
        /\ Outside(t) /\ script = <<>> /\ ~filling
    BY <1>1 DEF Open, Reopening, Between
  <1>3. PICK s : s = script'
    OBVIOUS
  <1>4. KeepThenRelease(s, "open", d, "close", e)
    <2>1. KeepThenRelease(CallOf("open", d) \o CallOf("close", e), "open", d, "close", e)
      BY PairIs
    <2>2. s = CallOf("open", d) \o CallOf("close", e)
      BY <1>2, <1>3
    <2> QED
      BY <2>1, <2>2, Zenon
  <1>5. extra[d] > 0
    <2>1. Uses(d) > 0 /\ extra[d] = Uses(d)
      BY <1>1, <1>2, UsesType, Owning DEF CppInv
    <2> QED
      BY <2>1
  <1>6. ASSUME NEW x \in Objects
        PROVE  /\ Uses(x)' + Requests("unref", x)' = Uses(x) + Requests("ref", x)'
               /\ Opened(x)' + Requests("close", x)' = Opened(x) + Requests("open", x)'
    <2>1. /\ Requests("open", x)' = IF x = d THEN 1 ELSE 0
          /\ Requests("close", x)' = IF x = e THEN 1 ELSE 0
          /\ Requests("ref", x)' = 0 /\ Requests("unref", x)' = 0
      BY <1>3, <1>4 DEF Requests, KeepThenRelease
    <2>2. Opened(x)' + (IF e = x THEN 1 ELSE 0) = Opened(x) + (IF d = x THEN 1 ELSE 0)
      BY <1>1, <1>2, OpenedChange
    <2>3. Uses(x)' = Uses(x)
      BY <1>2, UsesSame
    <2> QED
      BY <2>1, <2>2, <2>3, TypedNext
  <1>7. \A i \in DOMAIN script' :
          /\ script'[i].op \in {"ref", "open"} => i = 1 /\ extra[script'[i].dev] > 0
          /\ script'[i].op # "free" => script'[i].dev \in Objects
    BY <1>3, <1>4, <1>5 DEF CallTo, KeepThenRelease
  <1> QED
    BY <1>2, <1>6, <1>7, StatementKeeps

\* Statements that only give devices up.
LEMMA ReleaseKeeps ==
  ASSUME CppInv, CppTypeOK', NEW t \in Threads, WrapperAt(t), Outside(t), script = <<>>,
         UNCHANGED vars, ~filling',
         \A i \in DOMAIN script' :
           script'[i].op \notin {"ref", "open"} /\ (script'[i].op # "free" => script'[i].dev \in Objects),
         \A d \in Objects :
           /\ Uses(d)' + Requests("unref", d)' = Uses(d)
           /\ Opened(d)' + Requests("close", d)' = Opened(d)
  PROVE  WrapperAt(t)'
  <1>1. \A d \in Objects : Requests("ref", d)' = 0 /\ Requests("open", d)' = 0
    <2>1. \A l \in {"ref", "open"}, d \in Objects : \A i \in DOMAIN script' : script'[i] # CallTo(l, d)
      BY DEF CallTo
    <2> QED
      BY <2>1, CountNone DEF Requests
  <1>2. \A d \in Objects : Uses(d) \in Nat /\ Opened(d) \in Nat
    BY UsesType DEF CppInv
  <1> QED
    BY <1>1, <1>2, StatementKeeps

LEMMA ClearKeeps ==
  ASSUME CppInv, CppTypeOK', NEW t \in Threads, WrapperAt(t), NEW v \in Variables, Clear(t, v)
  PROVE  WrapperAt(t)'
  <1>1. PICK e \in Objects : e = m_dev[v]
    BY DEF CppInv, CppTypeOK, Clear
  <1>2. /\ script' = CallOf("unref", e)
        /\ m_dev' = [m_dev EXCEPT ![v] = NoObject] /\ UNCHANGED <<vars, devices, m_handle, filling>>
        /\ Outside(t) /\ script = <<>> /\ ~filling
    BY <1>1 DEF Clear, Between
  <1>3. /\ \A i \in DOMAIN script' : script'[i] = CallTo("unref", e)
        /\ \A l : \A x \in Objects : Count(script', CallTo(l, x)) = IF l = "unref" /\ x = e THEN 1 ELSE 0
    <2>1. e # NoObject
      BY ConstantsAssumption DEF ConstantsAssumption
    <2>2. script' = << CallTo("unref", e) >>
      BY <1>2, <2>1 DEF CallOf, CallTo
    <2>3. \A i \in DOMAIN script' : script'[i] = CallTo("unref", e)
      BY <2>2
    <2>4. \A l : \A x \in Objects : Count(script', CallTo(l, x)) = IF l = "unref" /\ x = e THEN 1 ELSE 0
      BY <1>2, CallOfIs
    <2> QED
      BY <2>3, <2>4
  <1>4. ASSUME NEW x \in Objects
        PROVE  /\ Uses(x)' + Requests("unref", x)' = Uses(x)
               /\ Opened(x)' + Requests("close", x)' = Opened(x)
    <2>1. Requests("unref", x)' = (IF x = e THEN 1 ELSE 0) /\ Requests("close", x)' = 0
      BY <1>3 DEF Requests
    <2>2. Uses(x)' + (IF e = x THEN 1 ELSE 0) = Uses(x) + (IF NoObject = x THEN 1 ELSE 0)
      BY <1>1, <1>2, UsesChange
    <2>3. NoObject # x
      BY ConstantsAssumption DEF ConstantsAssumption
    <2>4. Opened(x)' = Opened(x)
      BY <1>2, UsesSame
    <2>5. Uses(x) \in Nat
      BY UsesType DEF CppInv
    <2> QED
      BY <2>1, <2>2, <2>3, <2>4, <2>5, TypedNext
  <1>5. \A i \in DOMAIN script' : script'[i].op = "unref" /\ script'[i].dev \in Objects
    BY <1>3 DEF CallTo
  <1> QED
    BY <1>2, <1>4, <1>5, ReleaseKeeps

LEMMA ClearHandleKeeps ==
  ASSUME CppInv, CppTypeOK', NEW t \in Threads, WrapperAt(t), NEW h \in HandleVars,
         ClearHandle(t, h)
  PROVE  WrapperAt(t)'
  <1>1. PICK e \in Objects : e = m_handle[h]
    BY DEF CppInv, CppTypeOK, ClearHandle
  <1>2. /\ script' = CallOf("close", e)
        /\ m_handle' = [m_handle EXCEPT ![h] = NoObject] /\ UNCHANGED <<vars, devices, m_dev, filling>>
        /\ Outside(t) /\ script = <<>> /\ ~filling
    BY <1>1 DEF ClearHandle, Between
  <1>3. /\ \A i \in DOMAIN script' : script'[i] = CallTo("close", e)
        /\ \A l : \A x \in Objects : Count(script', CallTo(l, x)) = IF l = "close" /\ x = e THEN 1 ELSE 0
    <2>1. e # NoObject
      BY ConstantsAssumption DEF ConstantsAssumption
    <2>2. script' = << CallTo("close", e) >>
      BY <1>2, <2>1 DEF CallOf, CallTo
    <2>3. \A i \in DOMAIN script' : script'[i] = CallTo("close", e)
      BY <2>2
    <2>4. \A l : \A x \in Objects : Count(script', CallTo(l, x)) = IF l = "close" /\ x = e THEN 1 ELSE 0
      BY <1>2, CallOfIs
    <2> QED
      BY <2>3, <2>4
  <1>4. ASSUME NEW x \in Objects
        PROVE  /\ Uses(x)' + Requests("unref", x)' = Uses(x)
               /\ Opened(x)' + Requests("close", x)' = Opened(x)
    <2>1. Requests("close", x)' = (IF x = e THEN 1 ELSE 0) /\ Requests("unref", x)' = 0
      BY <1>3 DEF Requests
    <2>2. Opened(x)' + (IF e = x THEN 1 ELSE 0) = Opened(x) + (IF NoObject = x THEN 1 ELSE 0)
      BY <1>1, <1>2, OpenedChange
    <2>3. NoObject # x
      BY ConstantsAssumption DEF ConstantsAssumption
    <2>4. Uses(x)' = Uses(x)
      BY <1>2, UsesSame
    <2>5. Opened(x) \in Nat
      BY UsesType DEF CppInv
    <2> QED
      BY <2>1, <2>2, <2>3, <2>4, <2>5, TypedNext
  <1>5. \A i \in DOMAIN script' : script'[i].op = "close" /\ script'[i].dev \in Objects
    BY <1>3 DEF CallTo
  <1> QED
    BY <1>2, <1>4, <1>5, ReleaseKeeps

LEMMA DestroyListKeeps ==
  ASSUME CppInv, CppTypeOK', NEW t \in Threads, WrapperAt(t), DestroyList(t)
  PROVE  WrapperAt(t)'
  <1>1. /\ script' = UnrefAll(devices) /\ devices' = <<>>
        /\ UNCHANGED <<vars, m_dev, m_handle, filling>>
        /\ Outside(t) /\ script = <<>> /\ ~filling
    BY DEF DestroyList, Between
  <1>2. devices \in Seq(Objects)
    BY DEF CppInv, CppTypeOK
  <1>3. /\ \A i \in DOMAIN script' : script'[i].op = "unref" /\ script'[i].dev \in Objects
        /\ \A l, d : Count(script', CallTo(l, d)) = IF l = "unref" THEN Count(devices, d) ELSE 0
    BY <1>1, <1>2, UnrefAllIs
  <1>4. ASSUME NEW x \in Objects
        PROVE  /\ Uses(x)' + Requests("unref", x)' = Uses(x)
               /\ Opened(x)' + Requests("close", x)' = Opened(x)
    <2>1. Requests("close", x)' = 0 /\ Requests("unref", x)' = Count(devices, x)
      BY <1>3 DEF Requests
    <2>2. Uses(x) = Holders(Variables, m_dev, x) + Count(devices, x)
      BY UsesIs
    <2>3. Uses(x)' = Holders(Variables, m_dev, x) + 0
      <3>1. Uses(x)' = Holders(Variables, m_dev', x) + Count(devices', x)
        BY DEF Uses, Holders
      <3>2. Count(devices', x) = 0
        BY <1>1, CountEmpty
      <3> QED
        BY <1>1, <3>1, <3>2
    <2>4. Opened(x)' = Opened(x)
      BY <1>1, UsesSame
    <2> QED
      BY <2>1, <2>2, <2>3, <2>4, TypedNext, UsesType DEF CppInv
  <1> QED
    BY <1>1, <1>3, <1>4, ReleaseKeeps

LEMMA FillThrowsKeeps ==
  ASSUME CppInv, CppTypeOK', NEW t \in Threads, WrapperAt(t), FillThrows(t)
  PROVE  WrapperAt(t)'
  <1>1. /\ script' = <<>> \/ script' = FreeList
        /\ UNCHANGED <<vars, m_dev, m_handle, devices>> /\ ~filling'
        /\ Outside(t) /\ script = <<>>
    BY DEF FillThrows, Filling
  <1>2. \A i \in DOMAIN script' : script'[i].op = "free"
    BY <1>1 DEF FreeList
  <1>3. ASSUME NEW x \in Objects
        PROVE  /\ Uses(x)' + Requests("unref", x)' = Uses(x)
               /\ Opened(x)' + Requests("close", x)' = Opened(x)
    <2>1. \A l \in {"unref", "close"} : \A i \in DOMAIN script' : script'[i] # CallTo(l, x)
      BY <1>2 DEF CallTo
    <2>2. Requests("close", x)' = 0 /\ Requests("unref", x)' = 0
      BY <2>1, CountNone DEF Requests
    <2> QED
      BY <1>1, <2>2, UsesSame, UsesType DEF CppInv
  <1> QED
    BY <1>1, <1>2, <1>3, ReleaseKeeps

\* Devices of s are referenced and released, and then the list is freed.
RefsThenFree(q, s) ==
  /\ q \in Seq(CallType)
  /\ \A i \in DOMAIN q : \/ q[i].op \in {"ref", "unref"} /\ \E j \in DOMAIN s : q[i].dev = s[j]
                         \/ q[i].op = "free" /\ i = Len(q)
  /\ \A d \in Objects :
       /\ Count(q, CallTo("unref", d)) = Count(s, d)
       /\ Count(q, CallTo("ref", d)) = 2 * Count(s, d)

LEMMA FillingIs ==
  ASSUME NEW s \in Seq(Objects), s # <<>>
  PROVE  RefsThenFree(FillingCalls(s), s)
  <1> DEFINE a == FlattenSeq([i \in DOMAIN s |-> PushBack(s[i])])
             b == FreeList
  <1>1. /\ a \in Seq(CallType)
        /\ \A i \in DOMAIN a : a[i].op \in {"ref", "unref"} /\ \E j \in DOMAIN s : a[i].dev = s[j]
        /\ \A d \in Objects :
             /\ Count(a, CallTo("unref", d)) = Count(s, d)
             /\ Count(a, CallTo("ref", d)) = 2 * Count(s, d)
    <2>1. Taken(a, s, Len(s))
      BY FlattenIs
    <2>2. [j \in 1 .. Len(s) |-> s[j]] = s
      OBVIOUS
    <2> HIDE DEF a
    <2>3. \A d : Count([j \in 1 .. Len(s) |-> s[j]], d) = Count(s, d)
      BY <2>2, Zenon
    <2> QED
      BY <2>1, <2>3 DEF Taken
  <1>2. /\ b \in Seq(CallType) /\ Len(b) = 1 /\ DOMAIN b = 1 .. 1 /\ b[1].op = "free"
    BY DEF FreeList, CallType
  <1>3. FillingCalls(s) = a \o b
    BY DEF FillingCalls
  <1> HIDE DEF a, b
  <1>4. a \o b \in Seq(CallType) /\ Len(a \o b) = Len(a) + 1 /\ Len(a) \in Nat
    <2>1. a \o b \in Seq(CallType) /\ Len(a) \in Nat
      BY <1>1, <1>2
    <2>2. Len(a \o b) = Len(a) + Len(b)
      <3>1. ASSUME NEW x \in Seq(CallType), NEW y \in Seq(CallType) PROVE Len(x \o y) = Len(x) + Len(y)
        OBVIOUS
      <3>2. a \in Seq(CallType) /\ b \in Seq(CallType)
        BY <1>1, <1>2
      <3> QED
        BY <3>1, <3>2, Zenon
    <2> QED
      BY <1>2, <2>1, <2>2
  <1>5. ASSUME NEW i \in DOMAIN (a \o b)
        PROVE  \/ (a \o b)[i].op \in {"ref", "unref"} /\ \E j \in DOMAIN s : (a \o b)[i].dev = s[j]
               \/ (a \o b)[i].op = "free" /\ i = Len(a \o b)
    <2>1. \/ i \in DOMAIN a /\ (a \o b)[i] = a[i]
          \/ i - Len(a) \in DOMAIN b /\ (a \o b)[i] = b[i - Len(a)]
      BY <1>1, <1>2, ConcatRange
    <2>2. CASE i \in DOMAIN a /\ (a \o b)[i] = a[i]
      BY <1>1, <2>2, Zenon
    <2>3. CASE i - Len(a) \in DOMAIN b /\ (a \o b)[i] = b[i - Len(a)]
      <3>1. i - Len(a) = 1 /\ i \in Int
        <4>1. i \in 1 .. Len(a) + 1
          BY <1>4
        <4> QED
          BY <1>2, <2>3, <4>1
      <3>2. i = Len(a) + 1
        BY <1>4, <3>1
      <3> QED
        BY <1>2, <1>4, <2>3, <3>1, <3>2
    <2> QED
      BY <2>1, <2>2, <2>3
  <1>6. ASSUME NEW d \in Objects, NEW l \in {"ref", "unref"}
        PROVE  Count(a \o b, CallTo(l, d)) = Count(a, CallTo(l, d))
    <2>1. Count(a \o b, CallTo(l, d)) = Count(a, CallTo(l, d)) + Count(b, CallTo(l, d))
      BY <1>1, <1>2, CountConcat
    <2>2. Count(b, CallTo(l, d)) = 0
      <3>1. \A i \in DOMAIN b : b[i] # CallTo(l, d)
        BY <1>2 DEF CallTo
      <3> QED
        BY <3>1, CountNone
    <2>3. Count(a, CallTo(l, d)) \in Nat
      BY <1>1, CountType
    <2> QED
      BY <2>1, <2>2, <2>3
  <1>7. RefsThenFree(a \o b, s)
    BY <1>1, <1>4, <1>5, <1>6 DEF RefsThenFree
  <1> QED
    BY <1>3, <1>7, Zenon

LEMMA FillListKeeps ==
  ASSUME CppInv, CppTypeOK', NEW t \in Threads, WrapperAt(t), FillList(t)
  PROVE  WrapperAt(t)'
  <1> DEFINE u == UnrefAll(devices)
  <1>1. PICK s \in Seq(Objects) : s = list[t]
    BY DEF CppInv, CppTypeOK, TypeOK
  <1>2. PICK q : q = IF s = <<>> THEN <<>> ELSE FillingCalls(s)
    OBVIOUS
  <1>3. /\ script' = q \o u /\ devices' = s
        /\ UNCHANGED <<vars, m_dev, m_handle>> /\ ~filling'
        /\ Outside(t) /\ script = <<>>
    BY <1>1, <1>2 DEF FillList, Filling
  <1>4. RefsThenFree(q, s)
    <2>1. CASE s = <<>>
      <3>1. q = <<>> /\ \A d : Count(s, d) = 0
        BY <1>2, <2>1, CountEmpty
      <3> QED
        BY <3>1, CountEmpty DEF RefsThenFree
    <2>2. CASE s # <<>>
      <3>1. q = FillingCalls(s)
        BY <1>2, <2>2
      <3>2. RefsThenFree(FillingCalls(s), s)
        BY <2>2, FillingIs
      <3> QED
        BY <3>1, <3>2, Zenon
    <2> QED
      BY <2>1, <2>2
  <1>5. devices \in Seq(Objects)
    BY DEF CppInv, CppTypeOK
  <1>6. /\ u \in Seq(CallType)
        /\ \A i \in DOMAIN u : u[i].op = "unref" /\ u[i].dev \in Objects
        /\ \A l, d : Count(u, CallTo(l, d)) = IF l = "unref" THEN Count(devices, d) ELSE 0
    BY <1>5, UnrefAllIs
  <1> HIDE DEF u
  <1>7. ASSUME NEW i \in DOMAIN (q \o u)
        PROVE  /\ (q \o u)[i].op \in {"ref", "unref", "free"}
               /\ (q \o u)[i].op # "free" => (q \o u)[i].dev \in Objects
               /\ (q \o u)[i].op = "ref" =>
                    /\ \E j \in DOMAIN s : (q \o u)[i].dev = s[j]
                    /\ \A k \in 1 .. i - 1 : (q \o u)[k].op # "free"
    <2>1. q \in Seq(CallType)
      BY <1>4 DEF RefsThenFree
    <2>2. CASE i \in DOMAIN q /\ (q \o u)[i] = q[i]
      <3>1. \/ q[i].op \in {"ref", "unref"} /\ \E j \in DOMAIN s : q[i].dev = s[j]
            \/ q[i].op = "free"
        BY <1>4, <2>2 DEF RefsThenFree
      <3>2. \A k \in 1 .. i - 1 : (q \o u)[k].op # "free"
        <4> SUFFICES ASSUME NEW k \in 1 .. i - 1 PROVE (q \o u)[k].op # "free"
          OBVIOUS
        <4>1. PICK m \in Nat : m = Len(q) /\ DOMAIN q = 1 .. m
          BY <2>1
        <4>2. k \in DOMAIN q /\ k # m
          BY <2>2, <4>1
        <4>3. (q \o u)[k] = q[k]
          BY <1>6, <2>1, <4>2
        <4>4. q[k].op \in {"ref", "unref"}
          BY <1>4, <4>1, <4>2 DEF RefsThenFree
        <4> QED
          BY <4>3, <4>4
      <3>3. \A j \in DOMAIN s : s[j] \in Objects
        OBVIOUS
      <3> QED
        BY <2>2, <3>1, <3>2, <3>3
    <2>3. CASE i - Len(q) \in DOMAIN u /\ (q \o u)[i] = u[i - Len(q)]
      <3>1. (q \o u)[i].op = "unref" /\ (q \o u)[i].dev \in Objects
        BY <1>6, <2>3, Zenon
      <3> QED
        BY <3>1
    <2> QED
      BY <1>6, <2>1, <2>2, <2>3, ConcatRange
  <1>8. ASSUME NEW x \in Objects
        PROVE  /\ Uses(x)' + Requests("unref", x)' = Uses(x) + Requests("ref", x)'
               /\ Opened(x)' + Requests("close", x)' = Opened(x) + Requests("open", x)'
    <2>1. \A l : Requests(l, x)' = Count(q, CallTo(l, x)) + Count(u, CallTo(l, x))
      <3>1. q \in Seq(CallType)
        BY <1>4 DEF RefsThenFree
      <3>2. \A c : Count(q \o u, c) = Count(q, c) + Count(u, c)
        BY <1>6, <3>1, CountConcat
      <3>3. \A l : Requests(l, x)' = Count(q \o u, CallTo(l, x))
        BY <1>3 DEF Requests
      <3> QED
        BY <3>2, <3>3
    <2>2. /\ Count(q, CallTo("unref", x)) = Count(s, x)
          /\ Count(q, CallTo("ref", x)) = 2 * Count(s, x)
      BY <1>4 DEF RefsThenFree
    <2>3. \A l \in {"open", "close"} : Count(q, CallTo(l, x)) = 0
      <3>1. \A l \in {"open", "close"} : \A i \in DOMAIN q : q[i] # CallTo(l, x)
        <4>1. \A i \in DOMAIN q : q[i].op \in {"ref", "unref", "free"}
          BY <1>4 DEF RefsThenFree
        <4> QED
          BY <4>1 DEF CallTo
      <3> QED
        BY <3>1, CountNone
    <2>4. /\ Uses(x) = Holders(Variables, m_dev, x) + Count(devices, x)
          /\ Uses(x)' = Holders(Variables, m_dev, x) + Count(s, x)
      <3>1. Uses(x)' = Holders(Variables, m_dev', x) + Count(devices', x)
        BY DEF Uses, Holders
      <3> QED
        BY <1>3, <3>1, UsesIs
    <2>5. Holders(Variables, m_dev, x) \in Nat /\ Count(devices, x) \in Nat /\ Count(s, x) \in Nat
      BY UsesType, CountType DEF CppInv
    <2>6. Opened(x)' = Opened(x) /\ Opened(x) \in Nat
      BY <1>3, UsesSame, UsesType DEF CppInv
    <2>7. /\ Requests("unref", x)' = Count(s, x) + Count(devices, x)
          /\ Requests("ref", x)' = 2 * Count(s, x)
          /\ Requests("open", x)' = 0 /\ Requests("close", x)' = 0
      BY <1>6, <2>1, <2>2, <2>3, <2>5
    <2> QED
      BY <2>4, <2>5, <2>6, <2>7
  <1>9. \A i \in DOMAIN script' :
          /\ script'[i].op \in {"ref", "open"} =>
               Listed(t, script'[i].dev) /\ \A j \in 1 .. i - 1 : script'[j].op # "free"
          /\ script'[i].op # "free" => script'[i].dev \in Objects
    <2>1. \A i \in DOMAIN (q \o u) :
            /\ (q \o u)[i].op \in {"ref", "open"} =>
                 Listed(t, (q \o u)[i].dev) /\ \A j \in 1 .. i - 1 : (q \o u)[j].op # "free"
            /\ (q \o u)[i].op # "free" => (q \o u)[i].dev \in Objects
      BY <1>1, <1>7 DEF Listed
    <2> QED
      BY <1>3, <2>1, Zenon
  <1> QED
    BY <1>3, <1>8, <1>9, StatementKeeps

-----------------------------------------------------------------------------
(* The calls themselves.                                                   *)

LEMMA EnumerateIntoKeeps ==
  ASSUME CppInv, CppTypeOK', NEW t \in Threads, WrapperAt(t), EnumerateInto(t)
  PROVE  WrapperAt(t)'
  <1>1. /\ script' = <<>> /\ script = <<>> /\ UNCHANGED <<m_dev, m_handle, devices, handles, extra>>
        /\ pc'[t] = "enum" /\ pc[t] = "idle"
    BY DEF EnumerateInto, Between, GetDeviceList, Outside, Goto, CppInv, CppTypeOK, TypeOK
  <1>2. ASSUME NEW d \in Objects PROVE Conserved(t, d)'
    <2>1. extra'[d] = Uses(d)' /\ handles'[d] = Opened(d)'
      BY <1>1, Owning, UsesSame DEF EnumerateInto, Between
    <2>2. Pending(t, "ref", d)' = 0 /\ Pending(t, "open", d)' = 0
      BY <1>1 DEF Pending
    <2>3. \A op : Requests(op, d)' = 0
      BY <1>1, CountEmpty DEF Requests
    <2> QED
      BY <2>1, <2>2, <2>3, TypedNext DEF Conserved
  <1>3. CoveredAt(t)' /\ ScriptAt(t)'
    BY <1>1 DEF CoveredAt, ScriptAt
  <1> QED
    BY <1>2, <1>3 DEF WrapperAt

LEMMA TakeOwnershipKeeps ==
  ASSUME CppInv, CppTypeOK', NEW t \in Threads, WrapperAt(t), TakeOwnership(t)
  PROVE  WrapperAt(t)'
  <1>1. /\ script' = UnrefAll(devices) /\ devices' = list[t] /\ script = <<>> /\ ~filling'
        /\ UNCHANGED <<m_dev, m_handle, handles, pc, cur, mutex>>
        /\ extra' = [d \in Objects |-> extra[d] + Count(list[t], d)]
        /\ Outside(t)
    BY DEF TakeOwnership, Filling, KeepDevices, sharedVars
  <1>2. devices \in Seq(Objects) /\ list[t] \in Seq(Objects)
    BY DEF CppInv, CppTypeOK, TypeOK
  <1>3. /\ \A i \in DOMAIN script' : script'[i].op = "unref" /\ script'[i].dev \in Objects
        /\ \A l, d : Count(script', CallTo(l, d)) = IF l = "unref" THEN Count(devices, d) ELSE 0
    BY <1>1, <1>2, UnrefAllIs
  <1>4. ASSUME NEW d \in Objects PROVE Conserved(t, d)'
    <2>1. extra[d] = Uses(d) /\ handles[d] = Opened(d)
      BY <1>1, Owning
    <2>2. Pending(t, "ref", d)' = 0 /\ Pending(t, "open", d)' = 0
      BY <1>1 DEF Pending, Outside
    <2>3. /\ Requests("ref", d)' = 0 /\ Requests("unref", d)' = Count(devices, d)
          /\ Requests("open", d)' = 0 /\ Requests("close", d)' = 0
      BY <1>3 DEF Requests
    <2>4. /\ Uses(d) = Holders(Variables, m_dev, d) + Count(devices, d)
          /\ Uses(d)' = Holders(Variables, m_dev, d) + Count(list[t], d)
      <3>1. Uses(d)' = Holders(Variables, m_dev', d) + Count(devices', d)
        BY DEF Uses, Holders
      <3> QED
        BY <1>1, <3>1, UsesIs
    <2>5. Holders(Variables, m_dev, d) \in Nat /\ Count(devices, d) \in Nat /\ Count(list[t], d) \in Nat
      BY <1>2, UsesType, CountType DEF CppInv
    <2>6. extra'[d] = extra[d] + Count(list[t], d) /\ handles'[d] = handles[d]
      BY <1>1
    <2>7. Opened(d)' = Opened(d) /\ Opened(d) \in Nat
      BY <1>1, UsesSame, UsesType DEF CppInv
    <2> QED
      BY <2>1, <2>2, <2>3, <2>4, <2>5, <2>6, <2>7 DEF Conserved
  <1>5. CoveredAt(t)'
    BY <1>3 DEF CoveredAt
  <1>6. ScriptAt(t)'
    <2>1. pc[t] = "idle" /\ mutex # t
      BY <1>1 DEF Outside, CppInv, CountInv, ListInv, Base, Located, LocatedAt
    <2> QED
      BY <1>1, <1>3, <2>1 DEF ScriptAt
  <1> QED
    BY <1>4, <1>5, <1>6 DEF WrapperAt

\* Steps within the library.
LEMMA LibraryKeeps ==
  ASSUME CppInv, CppTypeOK', NEW t \in Threads, WrapperAt(t), LibraryStep(t), UNCHANGED wrapperVars
  PROVE  WrapperAt(t)'
  <1> USE DEF wrapperVars
  <1>1. TypeOK /\ Base
    BY DEF CppInv, CountInv, ListInv, Base
  <1>2. pc[t] # "idle"
    BY DEF LibraryStep, Enumerate, Unref, Skip, Visit, Walk, VisitKnown, VisitNew, VisitBad, Register,
           AllocDeviceFails, StoreEnumRef, EnumDone, LoadUnref, StoreUnref, BeginUnlink, Finalize,
           NothingToDrop, StoreRef
  <1>3. ASSUME script # <<>>
        PROVE  /\ pc'[t] \notin {"enum", "walk", "enumref"} /\ mutex' # t
               /\ UNCHANGED list
    <2>1. pc[t] \notin {"enum", "walk", "enumref"} /\ mutex # t
      BY <1>3 DEF WrapperAt, ScriptAt
    <2>2. Unref(t) \/ StoreRef(t)
      BY <2>1 DEF LibraryStep, Enumerate, Skip, Visit, Walk, VisitKnown, VisitNew, VisitBad, Register,
                  AllocDeviceFails, StoreEnumRef, EnumDone
    <2>3. CASE LoadUnref(t) \/ BeginUnlink(t) \/ NothingToDrop(t) \/ StoreRef(t)
      BY <1>1, <2>1, <2>3 DEF LoadUnref, BeginUnlink, NothingToDrop, StoreRef, Goto, TypeOK, enumVars,
                              sharedVars
    <2>4. CASE StoreUnref(t) \/ Finalize(t)
      BY <1>1, <2>1, <2>4 DEF StoreUnref, Finalize, NextDrop, Goto, TypeOK, enumVars
    <2> QED
      BY <2>2, <2>3, <2>4 DEF Unref
  <1>4. CoveredAt(t)'
    BY <1>2, <1>3 DEF CoveredAt, Listed, WrapperAt
  <1>5. ScriptAt(t)'
    BY <1>3 DEF ScriptAt, WrapperAt
  <1>6. ASSUME NEW d \in Objects PROVE Conserved(t, d)'
    <2>1. /\ UNCHANGED <<Uses(d), Opened(d)>> /\ \A op : Requests(op, d)' = Requests(op, d)
      BY UsesSame DEF Requests
    <2>2. Conserved(t, d)
      BY DEF WrapperAt
    <2>3. extra[d] \in Nat /\ handles[d] \in Nat
      BY <1>1 DEF TypeOK
    <2>4. /\ extra'[d] + Pending(t, "ref", d)' = extra[d] + Pending(t, "ref", d)
          /\ handles'[d] + Pending(t, "open", d)' = handles[d] + Pending(t, "open", d)
      <3>1. CASE StoreRef(t)
        <4>1. /\ pc[t] \in {"ref", "open"} /\ cur[t] \in Objects /\ pc'[t] = "idle"
              /\ \/ pc[t] = "open" /\ handles' = [handles EXCEPT ![cur[t]] = @ + 1] /\ UNCHANGED extra
                 \/ pc[t] = "ref" /\ extra' = [extra EXCEPT ![cur[t]] = @ + 1] /\ UNCHANGED handles
          BY <1>1, <3>1 DEF StoreRef, Goto, TypeOK, Base, Located, LocatedAt
        <4>2. Pending(t, "ref", d)' = 0 /\ Pending(t, "open", d)' = 0
          BY <4>1 DEF Pending
        <4>3. CASE pc[t] = "open" /\ handles' = [handles EXCEPT ![cur[t]] = @ + 1] /\ UNCHANGED extra
          <5>1. handles'[d] = handles[d] + (IF cur[t] = d THEN 1 ELSE 0)
            BY <1>1, <4>1, <4>3 DEF TypeOK
          <5>2. /\ Pending(t, "ref", d) = 0
                /\ Pending(t, "open", d) = IF cur[t] = d THEN 1 ELSE 0
            BY <4>3 DEF Pending
          <5> QED
            BY <2>3, <4>2, <4>3, <5>1, <5>2
        <4>4. CASE pc[t] = "ref" /\ extra' = [extra EXCEPT ![cur[t]] = @ + 1] /\ UNCHANGED handles
          <5>1. extra'[d] = extra[d] + (IF cur[t] = d THEN 1 ELSE 0)
            BY <1>1, <4>1, <4>4 DEF TypeOK
          <5>2. /\ Pending(t, "open", d) = 0
                /\ Pending(t, "ref", d) = IF cur[t] = d THEN 1 ELSE 0
            BY <4>4 DEF Pending
          <5> QED
            BY <2>3, <4>2, <4>4, <5>1, <5>2
        <4> QED
          BY <4>1, <4>3, <4>4
      <3>2. CASE Enumerate(t) \/ Unref(t)
        <4>1. UNCHANGED <<extra, handles>> /\ pc[t] \notin {"ref", "open"} /\ pc'[t] \notin {"ref", "open"}
          <5>1. CASE Enumerate(t)
            BY <1>1, <5>1 DEF Enumerate, Skip, Visit, Walk, VisitKnown, VisitNew, VisitBad, Register, Fail,
               AllocDeviceFails, StoreEnumRef, EnumDone, Goto, TypeOK, appVars, threadVars
          <5>2. CASE Unref(t)
            BY <1>1, <5>2 DEF Unref, LoadUnref, StoreUnref, BeginUnlink, Finalize, NothingToDrop,
               NextDrop, Goto, TypeOK, appVars
          <5> QED
            BY <3>2, <5>1, <5>2
        <4>2. /\ Pending(t, "ref", d)' = 0 /\ Pending(t, "open", d)' = 0
              /\ Pending(t, "ref", d) = 0 /\ Pending(t, "open", d) = 0
          BY <4>1 DEF Pending
        <4> QED
          BY <4>1, <4>2
      <3> QED
        BY <3>1, <3>2 DEF LibraryStep
    <2>5. \A op : Requests(op, d) \in Nat
      BY UsesType DEF CppInv
    <2> QED
      <3>1. PICK a, b : a = extra[d] + Pending(t, "ref", d) /\ b = handles[d] + Pending(t, "open", d)
        OBVIOUS
      <3>2. a + Requests("ref", d) = Uses(d) + Requests("unref", d)
        BY <2>2, <3>1 DEF Conserved
      <3>3. b + Requests("open", d) = Opened(d) + Requests("close", d)
        BY <2>2, <3>1 DEF Conserved
      <3>4. a = extra'[d] + Pending(t, "ref", d)' /\ b = handles'[d] + Pending(t, "open", d)'
        BY <2>4, <3>1
      <3> QED
        BY <2>1, <3>2, <3>3, <3>4 DEF Conserved
  <1> QED
    BY <1>4, <1>5, <1>6 DEF WrapperAt

\* The call that is made is one the registry's invariant allows.
LEMMA CallAllowed ==
  ASSUME CppInv, NEW t \in Threads, WrapperAt(t), NextCall(t)
  PROVE  \/ \E d \in Objects, l \in {"ref", "open"} :
              /\ script[1] = CallTo(l, d) /\ Usable(t, d) /\ Acquire(t, d, l) /\ UNCHANGED calls
         \/ \E d \in Objects : script[1] = CallTo("unref", d) /\ UnrefDevice(t, d)
         \/ \E d \in Objects : script[1] = CallTo("close", d) /\ Close(t, d)
         \/ script[1].op = "free" /\ FreeDeviceList(t)
  <1> DEFINE c == script[1]
  <1>1. c \in CallType /\ 1 \in DOMAIN script
    <2>1. script \in Seq(CallType) /\ script # <<>>
      BY DEF CppInv, CppTypeOK, NextCall
    <2> QED
      BY <2>1
  <1>2. c = CallTo(c.op, c.dev)
    BY <1>1 DEF CallType, CallTo
  <1>3. c.op # "free" => c.dev \in Objects
    BY <1>1 DEF WrapperAt, ScriptAt
  <1>4. \/ c.op \in {"ref", "open"} /\ Acquire(t, c.dev, c.op) /\ UNCHANGED calls
        \/ c.op = "unref" /\ UnrefDevice(t, c.dev)
        \/ c.op = "close" /\ Close(t, c.dev)
        \/ c.op = "free" /\ FreeDeviceList(t)
    BY DEF NextCall
  <1>5. ASSUME c.op \in {"ref", "open"} PROVE Usable(t, c.dev)
    <2>1. extra[c.dev] > 0 \/ Listed(t, c.dev)
      BY <1>1, <1>5 DEF WrapperAt, CoveredAt
    <2>2. c.dev \in Objects
      BY <1>3, <1>5
    <2>3. handles[c.dev] \in Nat /\ extra[c.dev] \in Nat
      BY <2>2 DEF CppInv, CppTypeOK, TypeOK
    <2> QED
      BY <2>1, <2>3 DEF Usable, Listed
  <1> HIDE DEF c
  <1>6. CASE c.op \in {"ref", "open"} /\ Acquire(t, c.dev, c.op) /\ UNCHANGED calls
    BY <1>2, <1>3, <1>5, <1>6 DEF c
  <1>7. CASE c.op = "unref" /\ UnrefDevice(t, c.dev)
    <2>1. c.dev \in Objects /\ c = CallTo("unref", c.dev)
      BY <1>2, <1>3, <1>7
    <2> QED
      BY <1>7, <2>1 DEF c
  <1>8. CASE c.op = "close" /\ Close(t, c.dev)
    <2>1. c.dev \in Objects /\ c = CallTo("close", c.dev)
      BY <1>2, <1>3, <1>8
    <2> QED
      BY <1>8, <2>1 DEF c
  <1>9. CASE c.op = "free" /\ FreeDeviceList(t)
    BY <1>9 DEF c
  <1> QED
    BY <1>4, <1>6, <1>7, <1>8, <1>9

\* How the counts change with it.
LEMMA CallCounts ==
  ASSUME CppInv, NEW t \in Threads, WrapperAt(t), NextCall(t), NEW d \in Objects
  PROVE  /\ extra'[d] + Pending(t, "ref", d)'
              = extra[d] + (IF script[1] = CallTo("ref", d) THEN 1 ELSE 0)
                         - (IF script[1] = CallTo("unref", d) THEN 1 ELSE 0)
         /\ handles'[d] + Pending(t, "open", d)'
              = handles[d] + (IF script[1] = CallTo("open", d) THEN 1 ELSE 0)
                           - (IF script[1] = CallTo("close", d) THEN 1 ELSE 0)
  <1>1. TypeOK /\ extra[d] \in Nat /\ handles[d] \in Nat
    BY DEF CppInv, CppTypeOK, TypeOK
  <1>2. \A l, k, e : CallTo(l, e) = CallTo(k, d) <=> l = k /\ e = d
    BY DEF CallTo
  <1>3. ASSUME NEW e \in Objects, NEW l \in {"ref", "open"}, script[1] = CallTo(l, e), Acquire(t, e, l)
        PROVE  /\ extra'[d] + Pending(t, "ref", d)' = extra[d] + (IF l = "ref" /\ e = d THEN 1 ELSE 0)
               /\ handles'[d] + Pending(t, "open", d)' = handles[d] + (IF l = "open" /\ e = d THEN 1 ELSE 0)
    <2>1. pc'[t] = l /\ cur'[t] = e /\ UNCHANGED <<extra, handles>>
      BY <1>1, <1>3 DEF Acquire, Goto, TypeOK
    <2>2. /\ Pending(t, "ref", d)' = IF l = "ref" /\ e = d THEN 1 ELSE 0
          /\ Pending(t, "open", d)' = IF l = "open" /\ e = d THEN 1 ELSE 0
      BY <2>1 DEF Pending
    <2> QED
      BY <2>1, <2>2
  <1>4. ASSUME NEW e \in Objects, UnrefDevice(t, e)
        PROVE  /\ extra'[d] = extra[d] - (IF e = d THEN 1 ELSE 0) /\ UNCHANGED handles /\ pc'[t] = "drop"
    BY <1>1, <1>4 DEF UnrefDevice, Drop, Goto, TypeOK
  <1>5. ASSUME NEW e \in Objects, Close(t, e)
        PROVE  /\ handles'[d] = handles[d] - (IF e = d THEN 1 ELSE 0) /\ UNCHANGED extra /\ pc'[t] = "drop"
    BY <1>1, <1>5 DEF Close, Drop, Goto, TypeOK
  <1>6. pc'[t] = "drop" => Pending(t, "ref", d)' = 0 /\ Pending(t, "open", d)' = 0
    BY DEF Pending
  <1>7. CASE \E e \in Objects, l \in {"ref", "open"} : script[1] = CallTo(l, e) /\ Acquire(t, e, l)
    <2>1. PICK e \in Objects, l \in {"ref", "open"} : script[1] = CallTo(l, e) /\ Acquire(t, e, l)
      BY <1>7
    <2>2. \A k : script[1] = CallTo(k, d) <=> l = k /\ e = d
      BY <1>2, <2>1
    <2> QED
      BY <1>1, <1>3, <2>1, <2>2
  <1>8. CASE \E e \in Objects : script[1] = CallTo("unref", e) /\ UnrefDevice(t, e)
    <2>1. PICK e \in Objects : script[1] = CallTo("unref", e) /\ UnrefDevice(t, e)
      BY <1>8
    <2>2. \A k : script[1] = CallTo(k, d) <=> k = "unref" /\ e = d
      BY <1>2, <2>1
    <2>3. extra'[d] = extra[d] - (IF e = d THEN 1 ELSE 0) /\ UNCHANGED handles /\ pc'[t] = "drop"
      BY <1>4, <2>1
    <2> QED
      BY <1>1, <1>6, <2>2, <2>3
  <1>9. CASE \E e \in Objects : script[1] = CallTo("close", e) /\ Close(t, e)
    <2>1. PICK e \in Objects : script[1] = CallTo("close", e) /\ Close(t, e)
      BY <1>9
    <2>2. \A k : script[1] = CallTo(k, d) <=> k = "close" /\ e = d
      BY <1>2, <2>1
    <2>3. handles'[d] = handles[d] - (IF e = d THEN 1 ELSE 0) /\ UNCHANGED extra /\ pc'[t] = "drop"
      BY <1>5, <2>1
    <2> QED
      BY <1>1, <1>6, <2>2, <2>3
  <1>10. CASE script[1].op = "free" /\ FreeDeviceList(t)
    <2>1. UNCHANGED <<extra, handles>> /\ pc'[t] = "drop"
      BY <1>1, <1>10 DEF FreeDeviceList, Drop, Goto, TypeOK, appVars
    <2>2. \A l \in {"ref", "unref", "open", "close"} : script[1] # CallTo(l, d)
      BY <1>10 DEF CallTo
    <2> QED
      BY <1>1, <1>6, <2>1, <2>2
  <1> QED
    BY CallAllowed, <1>7, <1>8, <1>9, <1>10

LEMMA NextCallKeeps ==
  ASSUME CppInv, CppTypeOK', NEW t \in Threads, WrapperAt(t), NextCall(t)
  PROVE  WrapperAt(t)'
  <1>1. /\ script \in Seq(CallType) /\ script # <<>> /\ script' = Tail(script)
        /\ UNCHANGED <<m_dev, m_handle, devices, filling>> /\ pc[t] = "idle" /\ ~filling
    BY DEF NextCall, Outside, CppInv, CppTypeOK, WrapperAt, ScriptAt
  <1>2. \A i \in DOMAIN script' : i + 1 \in DOMAIN script /\ i \in Nat /\ i + 1 # 1 /\ script'[i] = script[i + 1]
    BY <1>1
  <1>3. /\ pc'[t] \in {"ref", "open", "drop"} /\ UNCHANGED mutex
        /\ script[1].op = "free" \/ UNCHANGED list
    <2> USE DEF Drop, Goto, sharedVars, enumVars
    <2>0. TypeOK
      BY DEF CppInv, CppTypeOK
    <2>1. CASE \E d \in Objects, l \in {"ref", "open"} : Acquire(t, d, l)
      BY <2>0, <2>1 DEF TypeOK, Acquire
    <2>2. CASE \E d \in Objects : UnrefDevice(t, d) \/ Close(t, d)
      BY <2>0, <2>2 DEF TypeOK, UnrefDevice, Close
    <2>3. CASE script[1].op = "free" /\ FreeDeviceList(t)
      BY <2>0, <2>3 DEF TypeOK, FreeDeviceList
    <2> QED
      BY CallAllowed, <2>1, <2>2, <2>3, Zenon
  <1>4. CoveredAt(t)'
    <2> SUFFICES ASSUME NEW i \in DOMAIN script', script'[i].op \in {"ref", "open"}
                 PROVE  /\ \E k \in DOMAIN list'[t] : list'[t][k] = script'[i].dev
                        /\ \A j \in 1 .. i - 1 : script'[j].op # "free"
      BY DEF CoveredAt, Listed
    <2>1. /\ Listed(t, script[i + 1].dev)
          /\ \A j \in 1 .. i : script[j].op # "free"
      BY <1>2 DEF WrapperAt, CoveredAt
    <2>2. script[1].op # "free"
      BY <1>1, <1>2, <2>1
    <2>3. \E k \in DOMAIN list'[t] : list'[t][k] = script'[i].dev
      BY <1>2, <1>3, <2>1, <2>2 DEF Listed
    <2>4. ASSUME NEW j \in 1 .. i - 1 PROVE script'[j].op # "free"
      <3>1. j \in DOMAIN script' /\ j + 1 \in 1 .. i
        BY <1>1, <1>2
      <3> QED
        BY <1>2, <2>1, <3>1
    <2> QED
      BY <2>3, <2>4
  <1>5. ScriptAt(t)'
    <2>1. mutex # t
      BY <1>1 DEF WrapperAt, ScriptAt
    <2>2. \A i \in DOMAIN script' : script'[i].op # "free" => script'[i].dev \in Objects
      BY <1>2 DEF WrapperAt, ScriptAt
    <2> QED
      BY <1>1, <1>3, <2>1, <2>2 DEF ScriptAt
  <1>6. ASSUME NEW d \in Objects PROVE Conserved(t, d)'
    <2>1. \A op : Requests(op, d) = Requests(op, d)' + (IF script[1] = CallTo(op, d) THEN 1 ELSE 0)
      <3>1. \A c : Count(script, c) = Count(Tail(script), c) + (IF c = script[1] THEN 1 ELSE 0)
        BY <1>1, CountTail
      <3>2. \A op : Requests(op, d)' = Count(Tail(script), CallTo(op, d))
        BY <1>1 DEF Requests
      <3> QED
        BY <3>1, <3>2 DEF Requests
    <2>2. Pending(t, "ref", d) = 0 /\ Pending(t, "open", d) = 0
      BY <1>1 DEF Pending
    <2>3. Conserved(t, d)
      BY DEF WrapperAt
    <2>4. Uses(d)' = Uses(d) /\ Opened(d)' = Opened(d)
      BY <1>1, UsesSame
    <2>5. /\ extra[d] \in Nat /\ handles[d] \in Nat /\ Uses(d) \in Nat /\ Opened(d) \in Nat
          /\ \A op : Requests(op, d)' \in Nat
      BY UsesType, TypedNext DEF CppInv, CppTypeOK, TypeOK
    <2>6. extra'[d] + Pending(t, "ref", d)' + Requests("ref", d)' = Uses(d)' + Requests("unref", d)'
      <3>1. extra[d] + Requests("ref", d) = Uses(d) + Requests("unref", d)
        BY <2>2, <2>3, <2>5 DEF Conserved
      <3>2. extra'[d] + Pending(t, "ref", d)'
              = extra[d] + (IF script[1] = CallTo("ref", d) THEN 1 ELSE 0)
                         - (IF script[1] = CallTo("unref", d) THEN 1 ELSE 0)
        BY CallCounts
      <3> QED
        BY <2>1, <2>4, <2>5, <3>1, <3>2
    <2>7. handles'[d] + Pending(t, "open", d)' + Requests("open", d)' = Opened(d)' + Requests("close", d)'
      <3>1. handles[d] + Requests("open", d) = Opened(d) + Requests("close", d)
        BY <2>2, <2>3, <2>5 DEF Conserved
      <3>2. handles'[d] + Pending(t, "open", d)'
              = handles[d] + (IF script[1] = CallTo("open", d) THEN 1 ELSE 0)
                           - (IF script[1] = CallTo("close", d) THEN 1 ELSE 0)
        BY CallCounts
      <3> QED
        BY <2>1, <2>4, <2>5, <3>1, <3>2
    <2> QED
      BY <2>6, <2>7 DEF Conserved
  <1> QED
    BY <1>4, <1>5, <1>6 DEF WrapperAt

-----------------------------------------------------------------------------
(* Applications in C++ as a whole.                                         *)

\* Their steps are steps that the registry's invariant is about.
LEMMA CppCases == CppInv /\ [CppNext]_<<vars, wrapperVars>> => AnyNext
  <1> SUFFICES ASSUME CppInv, [CppNext]_<<vars, wrapperVars>> PROVE AnyNext
    OBVIOUS
  <1>1. CASE UNCHANGED <<vars, wrapperVars>>
    BY <1>1 DEF AnyNext
  <1>2. ASSUME ~crash, NEW t \in Threads, LibraryStep(t) \/ ClientStep(t), UNCHANGED setup
        PROVE  AnyNext
    BY <1>2 DEF LibraryStep, Enumerate, Unref, ClientStep, Step, AnyNext
  <1>3. ASSUME ~crash, NEW t \in Threads, cpp, CppStep(t)
        PROVE  AnyNext
    <2>1. CASE UNCHANGED vars
      BY <2>1 DEF AnyNext
    <2>2. CASE EnumerateInto(t) \/ TakeOwnership(t)
      BY <1>3, <2>2 DEF EnumerateInto, TakeOwnership, Filling, Step, AnyNext
    <2>3. CASE NextCall(t)
      <3>1. Outside(t) /\ t \in setup.threads /\ UNCHANGED setup
        BY <2>3 DEF NextCall, Outside
      <3>2. WrapperAt(t)
        BY <1>3, <3>1 DEF CppInv, Wrapped
      <3>3. Step(t)
        <4>1. CASE \E d \in Objects, l \in {"ref", "open"} :
                     Usable(t, d) /\ Acquire(t, d, l) /\ UNCHANGED calls
          BY <3>1, <4>1 DEF Step
        <4>2. CASE \E d \in Objects : UnrefDevice(t, d) \/ Close(t, d)
          BY <3>1, <4>2 DEF Step
        <4>3. CASE FreeDeviceList(t)
          BY <3>1, <4>3 DEF Step
        <4> QED
          BY <2>3, <3>2, <4>1, <4>2, <4>3, CallAllowed
      <3> QED
        BY <1>3, <3>1, <3>3 DEF AnyNext
    <2>4. CASE \E v \in Variables, d \in Objects, h \in HandleVars :
                 Assign(t, v, d) \/ Clear(t, v) \/ Open(t, h, v) \/ ClearHandle(t, h)
      BY <2>1, <2>4 DEF Assign, Clear, Open, ClearHandle
    <2>5. \/ EnumerateInto(t) \/ TakeOwnership(t) \/ NextCall(t) \/ UNCHANGED vars
      BY <1>3 DEF CppStep, Assign, Clear, Open, ClearHandle, FillList, FillThrows, DestroyList
    <2> QED
      BY <2>1, <2>2, <2>3, <2>5
  <1> QED
    BY <1>1, <1>2, <1>3 DEF CppNext

LEMMA CppTypeNext ==
  ASSUME CppInv, TypeOK', [CppNext]_<<vars, wrapperVars>>
  PROVE  CppTypeOK'
  <1> USE DEF CppInv, CppTypeOK
  <1>1. CASE UNCHANGED wrapperVars
    BY <1>1 DEF wrapperVars
  <1>2. ASSUME NEW t \in Threads, cpp, CppStep(t) PROVE CppTypeOK'
    <2>1. ASSUME NEW v \in Variables, NEW d \in Objects, Assign(t, v, d) PROVE CppTypeOK'
      <3>1. PICK e \in Objects \cup {NoObject} : e = m_dev[v]
        OBVIOUS
      <3>2. script' = CallOf("ref", d) \o CallOf("unref", e)
        BY <2>1, <3>1 DEF Assign, Assignment
      <3>3. CallOf("ref", d) \o CallOf("unref", e) \in Seq(CallType)
        BY PairIs DEF KeepThenRelease
      <3>4. script' \in Seq(CallType)
        BY <3>2, <3>3, Zenon
      <3> QED
        BY <2>1, <3>4 DEF Assign
    <2>2. ASSUME NEW v \in Variables, Clear(t, v) PROVE CppTypeOK'
      <3>1. script' \in Seq(CallType)
        BY <2>2, CallOfIs DEF Clear
      <3> QED
        BY <2>2, <3>1 DEF Clear
    <2>3. ASSUME NEW v \in Variables, NEW h \in HandleVars, Open(t, h, v) PROVE CppTypeOK'
      <3>1. PICK d \in Objects, e \in Objects \cup {NoObject} : d = m_dev[v] /\ e = m_handle[h]
        BY <2>3 DEF Open
      <3>2. script' = CallOf("open", d) \o CallOf("close", e)
        BY <2>3, <3>1 DEF Open, Reopening
      <3>3. CallOf("open", d) \o CallOf("close", e) \in Seq(CallType)
        BY PairIs DEF KeepThenRelease
      <3>4. script' \in Seq(CallType)
        BY <3>2, <3>3, Zenon
      <3> QED
        BY <2>3, <3>1, <3>4 DEF Open
    <2>4. ASSUME NEW h \in HandleVars, ClearHandle(t, h) PROVE CppTypeOK'
      <3>1. script' \in Seq(CallType)
        BY <2>4, CallOfIs DEF ClearHandle
      <3> QED
        BY <2>4, <3>1 DEF ClearHandle
    <2>5. CASE EnumerateInto(t)
      BY <2>5 DEF EnumerateInto
    <2>6. CASE FillList(t)
      <3>1. PICK s, q, u : /\ s \in Seq(Objects) /\ s = list[t] /\ u = UnrefAll(devices)
                           /\ q = IF s = <<>> THEN <<>> ELSE FillingCalls(s)
        BY DEF TypeOK
      <3>2. script' = q \o u /\ devices' = s
        BY <2>6, <3>1 DEF FillList
      <3>3. q \in Seq(CallType)
        <4>1. CASE s = <<>>
          BY <3>1, <4>1
        <4>2. CASE s # <<>>
          <5>1. FillingCalls(s) \in Seq(CallType)
            BY <3>1, <4>2, FillingIs DEF RefsThenFree
          <5>2. q = FillingCalls(s)
            BY <3>1, <4>2
          <5> QED
            BY <5>1, <5>2, Zenon
        <4> QED
          BY <4>1, <4>2
      <3>4. u \in Seq(CallType)
        BY <3>1, UnrefAllIs
      <3>5. script' \in Seq(CallType)
        BY <3>2, <3>3, <3>4
      <3> QED
        BY <2>6, <3>1, <3>2, <3>5 DEF FillList
    <2>7. CASE FillThrows(t)
      <3>1. FreeList \in Seq(CallType)
        BY DEF FreeList, CallType
      <3>2. script' \in Seq(CallType)
        BY <2>7, <3>1 DEF FillThrows
      <3> QED
        BY <2>7, <3>2 DEF FillThrows
    <2>8. CASE TakeOwnership(t)
      <3>1. devices' \in Seq(Objects) /\ script' \in Seq(CallType)
        BY <2>8, UnrefAllIs DEF TakeOwnership, TypeOK
      <3> QED
        BY <2>8, <3>1 DEF TakeOwnership
    <2>9. CASE DestroyList(t)
      <3>1. devices' \in Seq(Objects) /\ script' \in Seq(CallType)
        BY <2>9, UnrefAllIs DEF DestroyList
      <3> QED
        BY <2>9, <3>1 DEF DestroyList
    <2>10. CASE NextCall(t)
      <3>1. script' \in Seq(CallType)
        BY <2>10 DEF NextCall
      <3> QED
        BY <2>10, <3>1 DEF NextCall
    <2> QED
      BY <1>2, <2>1, <2>2, <2>3, <2>4, <2>5, <2>6, <2>7, <2>8, <2>9, <2>10 DEF CppStep
  <1> QED
    BY <1>1, <1>2 DEF CppNext

LEMMA CppStepKeeps ==
  ASSUME CppInv, CppTypeOK', NEW t \in Threads, WrapperAt(t), CppStep(t)
  PROVE  WrapperAt(t)'
  BY AssignKeeps, ClearKeeps, OpenKeeps, ClearHandleKeeps, EnumerateIntoKeeps, FillListKeeps,
     FillThrowsKeeps, TakeOwnershipKeeps, DestroyListKeeps, NextCallKeeps DEF CppStep

LEMMA CppInvInit == CppInit => CppInv
  <1> SUFFICES ASSUME CppInit PROVE CppInv
    OBVIOUS
  <1>1. CountInv /\ TypeOK
    BY CountInvInit DEF CppInit, CountInv, ListInv, Base
  <1>2. CppTypeOK
    <2>1. /\ m_dev \in [Variables -> Objects \cup {NoObject}]
          /\ m_handle \in [HandleVars -> Objects \cup {NoObject}]
      BY DEF CppInit
    <2>2. devices \in Seq(Objects) /\ script \in Seq(CallType)
      BY DEF CppInit
    <2> QED
      BY <1>1, <2>1, <2>2 DEF CppInit, CppTypeOK
  <1>3. ASSUME NEW t \in Threads PROVE WrapperAt(t)
    <2>1. ASSUME NEW d \in Objects PROVE Conserved(t, d)
      <3>1. Holders(Variables, m_dev, d) = 0 /\ Holders(HandleVars, m_handle, d) = 0
        <4>1. \A v \in Variables : m_dev[v] # d
          BY ConstantsAssumption DEF ConstantsAssumption, CppInit
        <4>2. \A h \in HandleVars : m_handle[h] # d
          BY ConstantsAssumption DEF ConstantsAssumption, CppInit
        <4>3. {v \in Variables : m_dev[v] = d} = {} /\ {h \in HandleVars : m_handle[h] = d} = {}
          BY <4>1, <4>2
        <4> QED
          BY <4>3, FS_EmptySet DEF Holders
      <3>2. Uses(d) = 0 /\ Opened(d) = 0
        BY <3>1, UsesIs, CountEmpty DEF CppInit, Opened
      <3>3. \A l : Requests(l, d) = 0
        BY CountEmpty DEF CppInit, Requests
      <3>4. extra[d] = 0 /\ handles[d] = 0 /\ Pending(t, "ref", d) = 0 /\ Pending(t, "open", d) = 0
        BY DEF CppInit, Init, Pending
      <3> QED
        BY <3>2, <3>3, <3>4 DEF Conserved
    <2>2. CoveredAt(t) /\ ScriptAt(t)
      BY DEF CppInit, CoveredAt, ScriptAt
    <2> QED
      BY <2>1, <2>2 DEF WrapperAt
  <1>4. setup.threads \subseteq Threads
    BY <1>1, SetupTyped DEF SetupType
  <1>5. Unused
    BY DEF CppInit, Unused
  <1> QED
    BY <1>1, <1>2, <1>3, <1>4, <1>5 DEF CppInv, Wrapped, CppInit

LEMMA CppInvStep == CppInv /\ [CppNext]_<<vars, wrapperVars>> => CppInv'
  <1> SUFFICES ASSUME CppInv, [CppNext]_<<vars, wrapperVars>> PROVE CppInv'
    OBVIOUS
  <1>1. CountInv' /\ TypeOK' /\ Base
    BY CppCases, CountInvStep DEF CppInv, CountInv, ListInv, Base
  <1>2. CppTypeOK'
    BY <1>1, CppTypeNext
  <1>3. CASE UNCHANGED <<vars, wrapperVars>>
    <2> USE <1>3 DEF wrapperVars, vars, sharedVars, linkVars, appVars, threadVars, enumVars
    <2>1. ASSUME NEW t, WrapperAt(t) PROVE WrapperAt(t)'
      <3>1. CoveredAt(t)' /\ ScriptAt(t)'
        BY <2>1 DEF WrapperAt, CoveredAt, Listed, ScriptAt
      <3>2. ASSUME NEW d \in Objects PROVE Conserved(t, d)'
        <4>1. Conserved(t, d)
          BY <2>1 DEF WrapperAt
        <4>2. Uses(d)' = Uses(d) /\ Opened(d)' = Opened(d) /\ \A l : Requests(l, d)' = Requests(l, d)
          BY UsesSame DEF Requests
        <4>3. \A l : Pending(t, l, d)' = Pending(t, l, d)
          BY DEF Pending
        <4> QED
          BY <4>1, <4>2, <4>3 DEF Conserved
      <3> QED
        BY <3>1, <3>2 DEF WrapperAt
    <2>2. Wrapped'
      BY <2>1 DEF CppInv, Wrapped, Serial, Unused
    <2> QED
      BY <1>1, <1>2, <2>2 DEF CppInv
  <1>4. ASSUME NEW t \in Threads, LibraryStep(t) \/ (~cpp /\ ClientStep(t)), UNCHANGED <<setup, wrapperVars>>
        PROVE  Wrapped'
    <2>1. UNCHANGED <<cpp, setup, m_dev, devices>>
      BY <1>4 DEF wrapperVars
    <2>2. ASSUME cpp, NEW u \in setup.threads PROVE WrapperAt(u)'
      <3>1. LibraryStep(t) /\ Step(t)
        BY <1>4, <2>2 DEF LibraryStep, Enumerate, Unref, Step
      <3>2. t \in setup.threads
        BY <1>1, <3>1, StepThread
      <3>3. u = t /\ WrapperAt(t)
        BY <2>2, <3>2 DEF CppInv, Wrapped, Serial
      <3> QED
        BY <1>2, <1>4, <3>1, <3>3, LibraryKeeps
    <2> QED
      BY <2>1, <2>2 DEF CppInv, Wrapped, Unused, Serial
  <1>5. ASSUME NEW t \in Threads, cpp, CppStep(t)
        PROVE  Wrapped'
    <2>1. UNCHANGED <<cpp, setup>> /\ Outside(t)
      BY <1>5 DEF CppStep, Assign, Clear, Open, ClearHandle, EnumerateInto, FillList, FillThrows,
         TakeOwnership, DestroyList, NextCall, Between, Filling, vars
    <2>2. t \in setup.threads
      BY <2>1 DEF Outside
    <2>3. \A u \in setup.threads : u = t
      BY <1>5, <2>2 DEF CppInv, Wrapped, Serial
    <2>4. WrapperAt(t)'
      BY <1>2, <1>5, <2>2, CppStepKeeps DEF CppInv, Wrapped
    <2> QED
      BY <1>5, <2>1, <2>2, <2>3, <2>4 DEF CppInv, Wrapped, Serial
  <1>6. Wrapped'
    BY <1>3, <1>4, <1>5 DEF CppNext, CppInv
  <1> QED
    BY <1>1, <1>2, <1>6 DEF CppInv

LEMMA CppInvariant == CppSpec => []CppInv
  BY CppInvInit, CppInvStep, PTL DEF CppSpec

\* No object of class device points to a device that was freed.
LEMMA UsedIsLive ==
  ASSUME CppInv, NEW d \in Objects, Uses(d) > 0
  PROVE  Live(d)
  <1>1. \/ \E v \in Variables : m_dev[v] = d
        \/ \E i \in DOMAIN devices : devices[i] = d
    BY UsesType DEF CppInv
  <1>2. ~Unused
    BY <1>1, ConstantsAssumption DEF Unused, ConstantsAssumption
  <1>3. PICK t \in setup.threads : TRUE
    BY <1>2 DEF CppInv, Wrapped
  <1>4. /\ cpp /\ Serial /\ WrapperAt(t) /\ CountedAt(t) /\ t \in Threads /\ Base
    <2>1. cpp /\ Serial /\ WrapperAt(t) /\ Base
      BY <1>2, <1>3 DEF CppInv, Wrapped, CountInv, ListInv
    <2>2. t \in Threads
      BY <1>3, <2>1, SetupTyped DEF Base, SetupType
    <2> QED
      BY <1>3, <2>1, <2>2 DEF CppInv, CountInv, Counted
  <1>5. extra[d] \in Nat /\ handles[d] \in Nat
    BY DEF CppInv, CppTypeOK, TypeOK
  <1>6. HeldBy(t, d) \in Nat /\ Balanced(t, d)
    BY <1>4, Naturals DEF CountedAt
  <1>7. extra[d] > 0 => Live(d)
    BY <1>5, <1>6 DEF Balanced
  <1>8. pc[t] = "ref" /\ cur[t] = d => Live(d)
    BY <1>4 DEF CountedAt, Fresh
  <1>9. CASE Requests("ref", d) = 0
    <2>1. extra[d] + Pending(t, "ref", d) > 0
      BY <1>4, <1>5, <1>9, UsesType DEF WrapperAt, Conserved, CppInv, Pending
    <2>2. extra[d] > 0 \/ (pc[t] = "ref" /\ cur[t] = d)
      BY <1>5, <2>1 DEF Pending
    <2> QED
      BY <1>7, <1>8, <2>2
  <1>10. CASE Requests("ref", d) # 0
    <2>1. PICK i \in DOMAIN script : script[i] = CallTo("ref", d)
      <3>1. script \in Seq(CallType)
        BY DEF CppInv, CppTypeOK
      <3>2. Requests("ref", d) \in Nat
        BY UsesType DEF CppInv
      <3> QED
        BY <1>10, <3>1, <3>2, CountPositive DEF Requests
    <2>2. extra[d] > 0 \/ Listed(t, d)
      BY <1>4, <2>1 DEF WrapperAt, CoveredAt, CallTo
    <2>3. ASSUME Listed(t, d) PROVE Live(d)
      <3>1. script # <<>>
        BY <2>1
      <3>2. pc[t] # "enumref"
        BY <1>4, <3>1 DEF WrapperAt, ScriptAt
      <3>3. Count(list[t], d) > 0
        BY <1>4, <2>3, CountPositive DEF Listed, Base, TypeOK
      <3>4. HeldBy(t, d) = Count(list[t], d) + Count(drop[t], d) - (IF Unclaimed(t, d) THEN 1 ELSE 0)
        BY <1>4, <3>2, Naturals DEF HeldBy, Unclaimed
      <3>5. HeldBy(t, d) > 0
        BY <1>4, <3>3, <3>4, Naturals
      <3> QED
        BY <1>5, <1>6, <3>5 DEF Balanced
    <2> QED
      BY <1>7, <2>2, <2>3
  <1> QED
    BY <1>9, <1>10

\* The types of an application in C++.
THEOREM CppTypeCorrect == CppSpec => []CppTypeOK
  <1>1. CppInv => CppTypeOK
    BY DEF CppInv
  <1> QED
    BY <1>1, CppInvariant, PTL

\* Copying, assigning also to itself, clearing, opening again, enumerating and
\* exceptions: between two statements the references and the handles that were
\* taken are those of the objects of libusby.hpp, and at no time does one of
\* these point to a device that was freed.
THEOREM WrappersOwn == CppSpec => []WrappersOwnRefs
  <1>1. ASSUME CppInv PROVE WrappersOwnRefs
    <2>1. ASSUME NEW t \in setup.threads, cpp, Between(t), NEW d \in Objects
          PROVE  extra[d] = Uses(d) /\ handles[d] = Opened(d)
      <3>1. t \in Threads
        BY <1>1, SetupTyped DEF CppInv, CppTypeOK, SetupType
      <3>2. WrapperAt(t) /\ Outside(t) /\ script = <<>>
        BY <1>1, <2>1 DEF CppInv, Wrapped, Between
      <3> QED
        BY <1>1, <3>1, <3>2, Owning
    <2>2. \A d \in Objects : Uses(d) > 0 => Live(d)
      BY <1>1, UsedIsLive
    <2> QED
      BY <2>1, <2>2 DEF WrappersOwnRefs, Opened, Holders
  <1> QED
    BY <1>1, CppInvariant, PTL

\* What is proved of applications in C is true of those in C++ too: the list
\* a thread builds has room for its end, reference counts are the references
\* that somebody has to give up, nobody holds a device that was freed, the
\* context ends without devices, memory is not corrupted unless malloc fails,
\* no device is there twice, and the list of devices is intact.
THEOREM CppSafe ==
  CppSpec => [](/\ ListIsTerminated /\ RefsAreOwned /\ HeldIsLive /\ SerialExitIsClean
                /\ Serial /\ ~setup.allocFails => ~crash
                /\ Ordered => OneDevicePerAddress /\ ListIsIntact)
  <1>1. ASSUME CppInv
        PROVE  /\ RefsAreOwned /\ HeldIsLive /\ SerialExitIsClean
               /\ Serial /\ ~setup.allocFails => ~crash
               /\ Ordered => OneDevicePerAddress /\ ListIsIntact
    <2>1. CountInv /\ ListInv
      BY <1>1 DEF CppInv, CountInv
    <2>2. RefsAreOwned /\ HeldIsLive /\ SerialExitIsClean
      BY <2>1, CountInvMeans DEF RefsAreOwned, HeldIsLive, SerialExitIsClean
    <2>3. Ordered => OneDevicePerAddress /\ ListIsIntact
      BY <2>1, ChainIsIntact DEF ListInv
    <2>4. Serial /\ ~setup.allocFails => ~crash
      BY <2>1, Zenon DEF CountInv, Counted, AllocCorrupts
    <2> QED
      BY <2>2, <2>3, <2>4
  <1>2. CppInit => ListIsTerminated
    BY DEF CppInit, Init, ListIsTerminated
  <1>3. CppInv /\ ListIsTerminated /\ [CppNext]_<<vars, wrapperVars>> => ListIsTerminated'
    BY CppCases, TerminatedStep DEF CppInv, CountInv, ListInv
  <1>4. CppSpec => []ListIsTerminated
    BY CppInvariant, <1>2, <1>3, PTL DEF CppSpec
  <1> QED
    BY <1>1, <1>4, CppInvariant, PTL

=============================================================================
