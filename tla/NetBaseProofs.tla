---------------------------- MODULE NetBaseProofs ----------------------------
(***************************************************************************)
(* Proofs about NetBase for any number of sessions, descriptors and        *)
(* workers, and for queues of any length.                                  *)
(***************************************************************************)
EXTENDS NetBase, SequenceTheorems, FiniteSetTheorems, TLAPS

-----------------------------------------------------------------------------
(* Sequences as sets.                                                      *)

LEMMA AppendFact ==
  ASSUME NEW S, NEW s \in Seq(S), NEW e \in S
  PROVE  /\ Append(s, e) \in Seq(S)
         /\ ToSet(Append(s, e)) = ToSet(s) \cup {e}
         /\ IsInjective(s) /\ e \notin ToSet(s) => IsInjective(Append(s, e))
<1>1. /\ Append(s, e) \in Seq(S)
      /\ Len(Append(s, e)) = Len(s) + 1
      /\ \A i \in 1 .. Len(s) : Append(s, e)[i] = s[i]
      /\ Append(s, e)[Len(s) + 1] = e
  BY AppendProperties
<1>2. DOMAIN Append(s, e) = 1 .. Len(s) + 1 /\ DOMAIN s = 1 .. Len(s) /\ Len(s) \in Nat
  BY <1>1, LenProperties
<1> DEFINE t == Append(s, e)
<1> HIDE DEF t
<1> QED
  BY <1>1, <1>2 DEF t, ToSet, IsInjective

LEMMA TailFact ==
  ASSUME NEW S, NEW s \in Seq(S), s # <<>>
  PROVE  /\ Tail(s) \in Seq(S)
         /\ Head(s) \in ToSet(s) /\ Head(s) \in S
         /\ IsInjective(s) => IsInjective(Tail(s)) /\ ToSet(Tail(s)) = ToSet(s) \ {Head(s)}
<1> DEFINE t == Tail(s)
           n == Len(s)
<1>1. /\ t \in Seq(S)
      /\ Head(s) \in S
      /\ Len(t) = n - 1
      /\ \A i \in 1 .. Len(t) : t[i] = s[i + 1]
  BY HeadTailProperties
<1>2. DOMAIN s = 1 .. n /\ n \in Nat /\ n > 0 /\ Head(s) = s[1]
  BY LenProperties, EmptySeq
<1>3. DOMAIN t = 1 .. n - 1 /\ \A i \in 1 .. n - 1 : t[i] = s[i + 1]
  BY <1>1, LenProperties
<1> HIDE DEF t, n
<1>4. IsInjective(s) => IsInjective(t)
  BY <1>2, <1>3 DEF IsInjective
<1>5. ASSUME IsInjective(s)
      PROVE  ToSet(t) = ToSet(s) \ {s[1]}
  <2>1. ASSUME NEW i \in 1 .. n - 1
        PROVE  t[i] \in ToSet(s) \ {s[1]}
    <3>1. t[i] = s[i + 1] /\ i + 1 \in 1 .. n /\ i + 1 # 1 /\ 1 \in 1 .. n
      BY <1>2, <1>3
    <3>2. s[i + 1] # s[1]
      BY <1>2, <1>5, <3>1 DEF IsInjective
    <3> QED
      BY <1>2, <3>1, <3>2 DEF ToSet
  <2>2. ASSUME NEW j \in 1 .. n, s[j] # s[1]
        PROVE  s[j] \in ToSet(t)
    <3>1. j - 1 \in 1 .. n - 1 /\ j - 1 + 1 = j
      BY <1>2, <2>2
    <3>2. t[j - 1] = s[j]
      BY <1>3, <3>1
    <3> QED
      BY <1>3, <3>1, <3>2 DEF ToSet
  <2>3. ToSet(t) \subseteq ToSet(s) \ {s[1]}
    BY <1>3, <2>1 DEF ToSet
  <2>4. ToSet(s) \ {s[1]} \subseteq ToSet(t)
    BY <1>2, <2>2 DEF ToSet
  <2> QED
    BY <2>3, <2>4
<1>6. Head(s) \in ToSet(s)
  BY <1>2 DEF ToSet
<1> QED
  BY <1>1, <1>2, <1>4, <1>5, <1>6 DEF t

LEMMA TailSubset ==
  ASSUME NEW S, NEW s \in Seq(S), s # <<>>
  PROVE  ToSet(Tail(s)) \subseteq ToSet(s)
<1> DEFINE t == Tail(s)
           n == Len(s)
<1>1. t \in Seq(S) /\ Len(t) = n - 1 /\ \A i \in 1 .. Len(t) : t[i] = s[i + 1]
  BY HeadTailProperties
<1>2. DOMAIN s = 1 .. n /\ n \in Nat /\ DOMAIN t = 1 .. Len(t)
  BY <1>1, LenProperties
<1> HIDE DEF t, n
<1>3. \A i \in 1 .. n - 1 : i + 1 \in 1 .. n
  BY <1>2
<1>4. ToSet(t) \subseteq ToSet(s)
  BY <1>1, <1>2, <1>3 DEF ToSet
<1> QED
  BY <1>4 DEF t

LEMMA RemoveFact ==
  ASSUME NEW S, NEW s \in Seq(S), NEW k \in DOMAIN s
  PROVE  /\ RemoveAt(s, k) \in Seq(S) /\ Len(RemoveAt(s, k)) = Len(s) - 1
         /\ s[k] \in ToSet(s) /\ s[k] \in S
         /\ IsInjective(s) =>
              IsInjective(RemoveAt(s, k)) /\ ToSet(RemoveAt(s, k)) = ToSet(s) \ {s[k]}
<1> DEFINE n == Len(s)
           a == SubSeq(s, 1, k - 1)
           b == SubSeq(s, k + 1, n)
           t == RemoveAt(s, k)
<1>1. DOMAIN s = 1 .. n /\ n \in Nat /\ k \in 1 .. n /\ \A i \in 1 .. n : s[i] \in S
  BY LenProperties, ElementOfSeq
<1>2. t = a \o b
  BY DEF RemoveAt
<1> HIDE DEF n, t
<1>3. /\ a \in Seq(S)
      /\ Len(a) = k - 1
      /\ \A i \in 1 .. k - 1 : a[i] = s[i]
  <2>1. k - 1 \in Int /\ 1 \in Int /\ \A i \in 1 .. k - 1 : s[i] \in S
    BY <1>1
  <2>2. /\ SubSeq(s, 1, k - 1) \in Seq(S)
        /\ Len(SubSeq(s, 1, k - 1)) = IF 1 <= k - 1 THEN k - 1 - 1 + 1 ELSE 0
        /\ \A i \in 1 .. k - 1 - 1 + 1 : SubSeq(s, 1, k - 1)[i] = s[1 + i - 1]
    BY <2>1, SubSeqProperties
  <2> HIDE DEF a
  <2>3. /\ a \in Seq(S)
        /\ Len(a) = IF 1 <= k - 1 THEN k - 1 - 1 + 1 ELSE 0
        /\ \A i \in 1 .. k - 1 - 1 + 1 : a[i] = s[1 + i - 1]
    BY <2>2 DEF a
  <2>4. Len(a) = k - 1
    BY <1>1, <2>3
  <2>5. ASSUME NEW i \in 1 .. k - 1
        PROVE  a[i] = s[i]
    <3>1. i \in 1 .. k - 1 - 1 + 1 /\ 1 + i - 1 = i
      BY <1>1
    <3> QED
      BY <2>3, <3>1
  <2> QED
    BY <2>3, <2>4, <2>5
<1>4. /\ b \in Seq(S)
      /\ Len(b) = n - k
      /\ \A i \in 1 .. n - k : b[i] = s[i + k]
  <2>1. k + 1 \in Int /\ n \in Int /\ \A i \in k + 1 .. n : s[i] \in S
    BY <1>1
  <2>2. /\ SubSeq(s, k + 1, n) \in Seq(S)
        /\ Len(SubSeq(s, k + 1, n)) = IF k + 1 <= n THEN n - (k + 1) + 1 ELSE 0
        /\ \A i \in 1 .. n - (k + 1) + 1 : SubSeq(s, k + 1, n)[i] = s[k + 1 + i - 1]
    BY <2>1, SubSeqProperties
  <2> HIDE DEF b
  <2>3. /\ b \in Seq(S)
        /\ Len(b) = IF k + 1 <= n THEN n - (k + 1) + 1 ELSE 0
        /\ \A i \in 1 .. n - (k + 1) + 1 : b[i] = s[k + 1 + i - 1]
    BY <2>2 DEF b
  <2>4. Len(b) = n - k
    BY <1>1, <2>3
  <2>5. ASSUME NEW i \in 1 .. n - k
        PROVE  b[i] = s[i + k]
    <3>1. i \in 1 .. n - (k + 1) + 1 /\ k + 1 + i - 1 = i + k
      BY <1>1
    <3> QED
      BY <2>3, <3>1
  <2> QED
    BY <2>3, <2>4, <2>5
<1> HIDE DEF a, b
<1>5. /\ t \in Seq(S)
      /\ Len(t) = n - 1
      /\ \A i \in 1 .. n - 1 : t[i] = IF i < k THEN s[i] ELSE s[i + 1]
  <2>1. /\ t \in Seq(S)
        /\ Len(t) = Len(a) + Len(b)
        /\ \A i \in 1 .. Len(a) + Len(b) :
             t[i] = IF i <= Len(a) THEN a[i] ELSE b[i - Len(a)]
    BY <1>2, <1>3, <1>4, ConcatProperties
  <2>2. Len(t) = n - 1
    BY <1>1, <1>3, <1>4, <2>1
  <2>3. ASSUME NEW i \in 1 .. n - 1
        PROVE  t[i] = IF i < k THEN s[i] ELSE s[i + 1]
    <3>1. i \in 1 .. Len(a) + Len(b)
      BY <1>1, <1>3, <1>4
    <3>2. CASE i < k
      <4>1. i <= Len(a) /\ i \in 1 .. k - 1
        BY <1>1, <1>3, <3>2
      <4> QED
        BY <1>3, <2>1, <3>1, <3>2, <4>1
    <3>3. CASE ~(i < k)
      <4>1. ~(i <= Len(a)) /\ i - (k - 1) \in 1 .. n - k /\ i - (k - 1) + k = i + 1
        BY <1>1, <1>3, <3>3
      <4>2. t[i] = b[i - (k - 1)]
        BY <1>3, <2>1, <3>1, <4>1
      <4> QED
        BY <1>4, <3>3, <4>1, <4>2
    <3> QED
      BY <3>2, <3>3
  <2> QED
    BY <2>1, <2>2, <2>3
<1>6. DOMAIN t = 1 .. n - 1
  BY <1>5, LenProperties
\* where an element of t stood in s
<1> DEFINE Was(i) == IF i < k THEN i ELSE i + 1
<1>7. \A i \in 1 .. n - 1 : Was(i) \in 1 .. n /\ Was(i) # k /\ t[i] = s[Was(i)]
  BY <1>1, <1>5
<1>8. \A i, j \in 1 .. n - 1 : Was(i) = Was(j) => i = j
  BY <1>1
<1>9. \A j \in 1 .. n : j # k => \E i \in 1 .. n - 1 : Was(i) = j
  <2>1. ASSUME NEW j \in 1 .. n, j < k
        PROVE  j \in 1 .. n - 1 /\ Was(j) = j
    BY <1>1, <2>1
  <2>2. ASSUME NEW j \in 1 .. n, j > k
        PROVE  j - 1 \in 1 .. n - 1 /\ Was(j - 1) = j
    BY <1>1, <2>2
  <2>3. \A j \in 1 .. n : j # k => j < k \/ j > k
    BY <1>1
  <2> HIDE DEF Was
  <2> QED
    BY <2>1, <2>2, <2>3
<1> HIDE DEF Was
<1>10. ASSUME IsInjective(s)
       PROVE  IsInjective(t)
  BY <1>1, <1>6, <1>7, <1>8, <1>10 DEF IsInjective
<1>11. ASSUME IsInjective(s)
       PROVE  ToSet(t) = ToSet(s) \ {s[k]}
  <2>1. ToSet(t) \subseteq ToSet(s) \ {s[k]}
    BY <1>1, <1>6, <1>7, <1>11 DEF IsInjective, ToSet
  <2>2. ASSUME NEW j \in 1 .. n, s[j] # s[k]
        PROVE  s[j] \in ToSet(t)
    <3>1. PICK i \in 1 .. n - 1 : Was(i) = j
      BY <1>9, <2>2
    <3> QED
      BY <1>6, <1>7, <3>1 DEF ToSet
  <2>3. ToSet(s) \ {s[k]} \subseteq ToSet(t)
    BY <1>1, <2>2 DEF ToSet
  <2> QED
    BY <2>1, <2>3
<1> QED
  BY <1>1, <1>5, <1>10, <1>11 DEF n, t, ToSet

-----------------------------------------------------------------------------
(* How often a session is in a queue.                                      *)

Places(q, s) == {i \in DOMAIN q : q[i] = s}

LEMMA PlacesFinite ==
  ASSUME NEW S, NEW q \in Seq(S), NEW s
  PROVE  /\ IsFiniteSet(Places(q, s))
         /\ Cardinality(Places(q, s)) \in 0 .. Len(q)
         /\ s \in ToSet(q) => Cardinality(Places(q, s)) > 0
<1>1. DOMAIN q = 1 .. Len(q) /\ Len(q) \in Nat
  BY LenProperties
<1>2. IsFiniteSet(1 .. Len(q)) /\ Cardinality(1 .. Len(q)) = Len(q)
  BY <1>1, FS_Interval
<1>3. Places(q, s) \in SUBSET (1 .. Len(q))
  BY <1>1 DEF Places
<1>4. /\ IsFiniteSet(Places(q, s)) /\ Cardinality(Places(q, s)) <= Len(q)
      /\ Cardinality(Places(q, s)) \in Nat
  BY <1>2, <1>3, FS_Subset, FS_CardinalityType
<1>5. s \in ToSet(q) => Places(q, s) # {}
  BY DEF ToSet, Places
<1> QED
  BY <1>1, <1>4, <1>5, FS_EmptySet

LEMMA PlacesAppend ==
  ASSUME NEW S, NEW q \in Seq(S), NEW t \in S, NEW s
  PROVE  Cardinality(Places(Append(q, t), s)) =
           Cardinality(Places(q, s)) + (IF t = s THEN 1 ELSE 0)
<1> DEFINE n == Len(q) + 1
           u == Append(q, t)
<1>1. /\ DOMAIN q = 1 .. Len(q) /\ Len(q) \in Nat
      /\ u \in Seq(S) /\ Len(u) = n /\ u[n] = t
      /\ \A i \in 1 .. Len(q) : u[i] = q[i]
  BY LenProperties, AppendProperties
<1>2. DOMAIN u = 1 .. n
  BY <1>1, LenProperties
<1> HIDE DEF u
<1>3. n \notin Places(q, s)
  BY <1>1 DEF Places
<1>4. Places(u, s) = IF t = s THEN Places(q, s) \cup {n} ELSE Places(q, s)
  <2>1. 1 .. n = 1 .. Len(q) \cup {n}
    BY <1>1
  <2> QED
    BY <1>1, <1>2, <2>1 DEF Places
<1>5. IsFiniteSet(Places(q, s)) /\ Cardinality(Places(q, s)) \in Nat
  BY <1>1, PlacesFinite
<1> HIDE DEF n
<1>6. Cardinality(Places(q, s) \cup {n}) = Cardinality(Places(q, s)) + 1
  BY <1>3, <1>5, FS_AddElement
<1> QED
  BY <1>4, <1>5, <1>6 DEF u

LEMMA PlacesTail ==
  ASSUME NEW S, NEW q \in Seq(S), q # <<>>, NEW s
  PROVE  Cardinality(Places(q, s)) =
           Cardinality(Places(Tail(q), s)) + (IF Head(q) = s THEN 1 ELSE 0)
<1> DEFINE n == Len(q)
           u == Tail(q)
           A == Places(q, s) \ {1}
           B == Places(u, s)
<1>1. /\ DOMAIN q = 1 .. n /\ n \in Nat /\ n > 0 /\ Head(q) = q[1]
  BY LenProperties, EmptySeq
<1>2. /\ u \in Seq(S) /\ Len(u) = n - 1
      /\ \A i \in 1 .. n - 1 : u[i] = q[i + 1]
  BY HeadTailProperties
<1>3. DOMAIN u = 1 .. n - 1
  BY <1>2, LenProperties
<1>4. /\ IsFiniteSet(Places(q, s)) /\ Cardinality(Places(q, s)) \in Nat
      /\ IsFiniteSet(B) /\ Cardinality(B) \in Nat
  <2>1. IsFiniteSet(Places(q, s)) /\ Cardinality(Places(q, s)) \in Nat
    BY <1>1, PlacesFinite
  <2> HIDE DEF u, n
  <2>2. IsFiniteSet(B) /\ Cardinality(B) \in Nat
    BY <1>2, PlacesFinite
  <2> QED
    BY <2>1, <2>2
<1> HIDE DEF u, n
<1>5. Cardinality(A) = Cardinality(B)
  <2> DEFINE f == [i \in B |-> i + 1]
  <2>1. \A i \in B : i \in 1 .. n - 1 /\ q[i + 1] = s
    BY <1>2, <1>3 DEF Places
  <2>2. \A i \in B : f[i] \in A
    BY <1>1, <2>1 DEF Places
  <2>3. \A i, j \in B : f[i] = f[j] => i = j
    BY <2>1
  <2>4. ASSUME NEW j \in A
        PROVE  \E i \in B : f[i] = j
    <3>1. j \in 1 .. n /\ j # 1 /\ q[j] = s
      BY <1>1 DEF Places
    <3>2. j - 1 \in 1 .. n - 1 /\ j - 1 + 1 = j
      BY <1>1, <3>1
    <3>3. j - 1 \in B
      BY <1>2, <1>3, <3>1, <3>2 DEF Places
    <3> QED
      BY <3>2, <3>3
  <2>5. f \in [B -> A]
    BY <2>2
  <2>6. f \in Bijection(B, A)
    <3> HIDE DEF f
    <3>1. DOMAIN f = B
      BY <2>5
    <3> HIDE DEF A, B
    <3> QED
      BY <2>3, <2>4, <2>5, <3>1 DEF Bijection, Injection, Surjection, IsInjective
  <2>7. ExistsBijection(B, A)
    BY <2>6 DEF ExistsBijection
  <2> HIDE DEF A, B
  <2> QED
    BY <1>4, <2>7, FS_Bijection
<1>6. 1 \in Places(q, s) <=> Head(q) = s
  BY <1>1 DEF Places
<1>7. Cardinality(A) = IF 1 \in Places(q, s) THEN Cardinality(Places(q, s)) - 1
                       ELSE Cardinality(Places(q, s))
  BY <1>4, FS_RemoveElement
<1> QED
  BY <1>4, <1>5, <1>6, <1>7 DEF u

-----------------------------------------------------------------------------
(* How many workers hold a session.                                        *)

Holding(x, s) == {w \in Workers : x[w].s = s}

SameBut(x, y, w) == \A v \in Workers \ {w} : y[v].s = x[v].s

LEMMA HoldingFinite ==
  ASSUME NEW x, NEW s
  PROVE  /\ IsFiniteSet(Holding(x, s))
         /\ Cardinality(Holding(x, s)) \in 0 .. Cardinality(Workers)
         /\ Cardinality(Workers) \in Nat
         /\ \A w \in Workers : x[w].s = s => Cardinality(Holding(x, s)) > 0
<1>1. IsFiniteSet(Workers) /\ Cardinality(Workers) \in Nat
  BY NetAssumption, FS_CardinalityType
<1>2. Holding(x, s) \in SUBSET Workers
  BY DEF Holding
<1>3. /\ IsFiniteSet(Holding(x, s)) /\ Cardinality(Holding(x, s)) <= Cardinality(Workers)
      /\ Cardinality(Holding(x, s)) \in Nat
  BY <1>1, <1>2, FS_Subset, FS_CardinalityType
<1>4. \A w \in Workers : x[w].s = s => Holding(x, s) # {}
  BY DEF Holding
<1> QED
  BY <1>1, <1>3, <1>4, FS_EmptySet

\* one worker, which held nothing, takes a session
LEMMA HoldingTake ==
  ASSUME NEW x, NEW y, NEW w \in Workers, NEW s \in Session,
         x[w].s = None, SameBut(x, y, w)
  PROVE  Cardinality(Holding(y, s)) =
           Cardinality(Holding(x, s)) + (IF y[w].s = s THEN 1 ELSE 0)
<1>1. s # None
  BY NetAssumption
<1>2. w \notin Holding(x, s)
  BY <1>1 DEF Holding, SameBut
<1>3. Holding(y, s) = IF y[w].s = s THEN Holding(x, s) \cup {w} ELSE Holding(x, s)
  BY <1>1, <1>2 DEF Holding, SameBut
<1>4. IsFiniteSet(Holding(x, s)) /\ Cardinality(Holding(x, s)) \in Nat
  BY HoldingFinite
<1>5. Cardinality(Holding(x, s) \cup {w}) = Cardinality(Holding(x, s)) + 1
  BY <1>2, <1>4, FS_AddElement
<1> QED
  BY <1>3, <1>4, <1>5

LEMMA HoldingSame ==
  ASSUME NEW x, NEW y, NEW s, \A w \in Workers : y[w].s = x[w].s
  PROVE  Holding(y, s) = Holding(x, s)
BY DEF Holding

\* References, of any queue and workers
Refs(q, x, s) == Cardinality(Places(q, s)) + Cardinality(Holding(x, s))

LEMMA RefsBound ==
  ASSUME NEW q \in Seq(Session), Len(q) <= MaxQueue, NEW x, NEW s
  PROVE  /\ Refs(q, x, s) \in Nat /\ Refs(q, x, s) < MaxActive
         /\ s \in ToSet(q) => Refs(q, x, s) > 0
         /\ \A w \in Workers : x[w].s = s => Refs(q, x, s) > 0
<1>1. /\ Cardinality(Places(q, s)) \in Nat /\ Cardinality(Places(q, s)) <= MaxQueue
      /\ s \in ToSet(q) => Cardinality(Places(q, s)) > 0
  <2>1. Len(q) \in Nat
    BY LenProperties
  <2> QED
    BY <2>1, PlacesFinite, NetAssumption
<1>2. /\ Cardinality(Holding(x, s)) \in Nat /\ Cardinality(Workers) \in Nat
      /\ Cardinality(Holding(x, s)) <= Cardinality(Workers)
      /\ \A w \in Workers : x[w].s = s => Cardinality(Holding(x, s)) > 0
  BY HoldingFinite
<1> QED
  BY <1>1, <1>2, NetAssumption DEF Refs

LEMMA RefsAppend ==
  ASSUME NEW q \in Seq(Session), NEW t \in Session, NEW x, NEW s \in Session
  PROVE  Refs(Append(q, t), x, s) = Refs(q, x, s) + (IF t = s THEN 1 ELSE 0)
<1>1. Cardinality(Places(q, s)) \in Nat
  BY PlacesFinite, LenProperties
<1>2. Cardinality(Holding(x, s)) \in Nat
  BY HoldingFinite
<1>3. Cardinality(Places(Append(q, t), s)) = Cardinality(Places(q, s)) + (IF t = s THEN 1 ELSE 0)
  BY PlacesAppend
<1> QED
  BY <1>1, <1>2, <1>3 DEF Refs

LEMMA RefsTake ==
  ASSUME NEW q \in Seq(Session), q # <<>>, NEW x, NEW y, NEW w \in Workers, NEW s \in Session,
         x[w].s = None, y[w].s = Head(q), SameBut(x, y, w)
  PROVE  Refs(Tail(q), y, s) = Refs(q, x, s)
<1>1. Cardinality(Places(q, s)) = Cardinality(Places(Tail(q), s)) + (IF Head(q) = s THEN 1 ELSE 0)
  BY PlacesTail
<1>2. Cardinality(Holding(y, s)) = Cardinality(Holding(x, s)) + (IF y[w].s = s THEN 1 ELSE 0)
  BY HoldingTake
<1>3. Cardinality(Places(Tail(q), s)) \in Nat
  <2> DEFINE u == Tail(q)
  <2>1. u \in Seq(Session)
    BY HeadTailProperties
  <2> HIDE DEF u
  <2>2. Cardinality(Places(u, s)) \in Nat
    BY <2>1, PlacesFinite, LenProperties
  <2> QED
    BY <2>2 DEF u
<1>4. Cardinality(Holding(x, s)) \in Nat
  BY HoldingFinite
<1> QED
  BY <1>1, <1>2, <1>3, <1>4 DEF Refs

LEMMA RefsDone ==
  ASSUME NEW q \in Seq(Session), NEW x, NEW y, NEW w \in Workers, NEW s \in Session,
         y[w].s = None, SameBut(x, y, w)
  PROVE  Refs(q, x, s) = Refs(q, y, s) + (IF x[w].s = s THEN 1 ELSE 0)
<1>0. SameBut(y, x, w)
  BY DEF SameBut
<1>1. Cardinality(Holding(x, s)) = Cardinality(Holding(y, s)) + (IF x[w].s = s THEN 1 ELSE 0)
  BY <1>0, HoldingTake
<1>2. Cardinality(Places(q, s)) \in Nat
  BY PlacesFinite, LenProperties
<1>3. Cardinality(Holding(y, s)) \in Nat
  BY HoldingFinite
<1> QED
  BY <1>1, <1>2, <1>3 DEF Refs

-----------------------------------------------------------------------------
(* The operations of AdSession.                                            *)

SessionMap == [Session -> SessionState]

LEMMA SessionFields ==
  ASSUME NEW v \in SessionState
  PROVE  /\ v.sock \in Fd \cup {None} /\ v.tcp \in Fd \cup {None}
         /\ v.active \in 0 .. MaxActive /\ v.active \in Nat
         /\ v.pending \in BOOLEAN /\ v.timeout \in BOOLEAN /\ v.change \in BOOLEAN
BY DEF SessionState

LEMMA CloseFact ==
  ASSUME NEW x \in SessionMap, NEW s \in Session, NEW y, y = Close(x, s)
  PROVE  /\ y \in SessionMap
         /\ \A t \in Session \ {s} : y[t] = x[t]
         /\ y[s].sock = x[s].sock /\ y[s].active = x[s].active
         /\ y[s].tcp = None /\ ~y[s].pending
         /\ x[s].active = 0 => ~y[s].timeout /\ ~y[s].change
<1> DEFINE idle == x[s].active = 0
           a == x[s].timeout /\ ~idle
           b == x[s].change /\ ~idle
           u == x[s]
           v == [[[[u EXCEPT !.tcp = None] EXCEPT !.pending = FALSE]
                     EXCEPT !.timeout = a] EXCEPT !.change = b]
<1>1. u \in SessionState
  BY DEF SessionMap
<1>2. y = [x EXCEPT ![s] = v]
  BY DEF Close, SessionMap
<1>3. a \in BOOLEAN /\ b \in BOOLEAN /\ (x[s].active = 0 => ~a /\ ~b)
  OBVIOUS
<1>4. u.active = x[s].active /\ u.sock = x[s].sock
  OBVIOUS
<1> HIDE DEF a, b, u
<1>5. /\ v \in SessionState
      /\ v.sock = u.sock /\ v.active = u.active /\ v.tcp = None /\ v.pending = FALSE
      /\ v.timeout = a /\ v.change = b
  BY <1>1, <1>3 DEF SessionState
<1> HIDE DEF v
<1>6. /\ y \in SessionMap
      /\ y[s] = v
      /\ \A t \in Session \ {s} : y[t] = x[t]
  BY <1>2, <1>5 DEF SessionMap
<1> QED
  BY <1>3, <1>4, <1>5, <1>6

LEMMA ActiveFact ==
  ASSUME NEW x \in SessionMap, NEW s \in Session, NEW y, y = Active(x, s)
  PROVE  /\ y \in SessionMap
         /\ \A t \in Session \ {s} : y[t] = x[t]
         /\ y[s].sock = x[s].sock /\ y[s].tcp = x[s].tcp
         /\ y[s].active = IF x[s].active < MaxActive THEN x[s].active + 1 ELSE MaxActive
<1> DEFINE n == IF x[s].active < MaxActive THEN x[s].active + 1 ELSE x[s].active
           v == [x[s] EXCEPT !.active = n]
<1>1. x[s] \in SessionState /\ x[s].active \in 0 .. MaxActive
  BY SessionFields DEF SessionMap
<1>2. n \in 0 .. MaxActive /\ n = IF x[s].active < MaxActive THEN x[s].active + 1 ELSE MaxActive
  BY <1>1, NetAssumption
<1>3. y = [x EXCEPT ![s] = v]
  BY DEF Active, SessionMap
<1> HIDE DEF n
<1>4. v \in SessionState /\ v.active = n /\ v.sock = x[s].sock /\ v.tcp = x[s].tcp
  BY <1>1, <1>2 DEF SessionState
<1> HIDE DEF v
<1>5. /\ y \in SessionMap
      /\ y[s] = v
      /\ \A t \in Session \ {s} : y[t] = x[t]
  BY <1>3, <1>4 DEF SessionMap
<1> QED
  BY <1>2, <1>3, <1>4, <1>5

LEMMA IdleFact ==
  ASSUME NEW x \in SessionMap, NEW s \in Session, NEW y, y = Idle(x, s)
  PROVE  /\ y \in SessionMap
         /\ \A t \in Session \ {s} : y[t] = x[t]
         /\ y[s].sock = x[s].sock /\ y[s].tcp = x[s].tcp
         /\ x[s].active > 0 =>
              y[s].active = IF x[s].active < MaxActive THEN x[s].active - 1 ELSE MaxActive
<1> DEFINE n == IF x[s].active > 0 /\ x[s].active < MaxActive THEN x[s].active - 1 ELSE x[s].active
           v == [x[s] EXCEPT !.active = n]
<1>1. x[s] \in SessionState /\ x[s].active \in 0 .. MaxActive
  BY SessionFields DEF SessionMap
<1>2. /\ n \in 0 .. MaxActive
      /\ x[s].active > 0 => n = IF x[s].active < MaxActive THEN x[s].active - 1 ELSE MaxActive
  BY <1>1, NetAssumption
<1>3. y = [x EXCEPT ![s] = v]
  BY DEF Idle, SessionMap
<1> HIDE DEF n
<1>4. v \in SessionState /\ v.active = n /\ v.sock = x[s].sock /\ v.tcp = x[s].tcp
  BY <1>1, <1>2 DEF SessionState
<1> HIDE DEF v
<1>5. /\ y \in SessionMap
      /\ y[s] = v
      /\ \A t \in Session \ {s} : y[t] = x[t]
  BY <1>3, <1>4 DEF SessionMap
<1> QED
  BY <1>2, <1>3, <1>4, <1>5

LEMMA ConnectFact ==
  ASSUME NEW x \in SessionMap, NEW s \in Session, NEW f \in Fd, NEW y, y = Connect(x, s, f)
  PROVE  /\ y \in SessionMap
         /\ \A t \in Session \ {s} : y[t] = x[t]
         /\ y[s].sock = f /\ y[s].tcp = f /\ y[s].active = x[s].active
<1> DEFINE v == [[x[s] EXCEPT !.sock = f] EXCEPT !.tcp = f]
<1>1. x[s] \in SessionState
  BY DEF SessionMap
<1>2. v \in SessionState /\ v.sock = f /\ v.tcp = f /\ v.active = x[s].active
  BY <1>1 DEF SessionState
<1>3. y = [x EXCEPT ![s] = v]
  BY DEF Connect, SessionMap
<1> HIDE DEF v
<1>4. /\ y \in SessionMap
      /\ y[s] = v
      /\ \A t \in Session \ {s} : y[t] = x[t]
  BY <1>2, <1>3 DEF SessionMap
<1> QED
  BY <1>2, <1>3, <1>4

-----------------------------------------------------------------------------
(* The operations of AdNetBase on its maps.                                *)

LEMMA NetFields ==
  ASSUME NEW n \in NetState
  PROVE  /\ n.reads \in [Fd -> Sessions] /\ n.writes \in [Fd -> Sessions]
         /\ n.events \in [Fd -> {"none", "read", "readwrite"}] /\ n.timer \in [Fd -> BOOLEAN]
         /\ n.closing \in Seq(Session) /\ n.due \in Nat /\ n.next \in Nat
         /\ n.free \in Seq(Session) /\ n.fresh \in SUBSET Session
BY DEF NetState

LEMMA UnregisterFact ==
  ASSUME NEW n \in NetState, NEW f \in Fd, NEW m, m = Unregister(n, f)
  PROVE  /\ m \in NetState
         /\ m.closing = n.closing /\ m.due = n.due /\ m.next = n.next
         /\ m.free = n.free /\ m.fresh = n.fresh
         /\ \A g \in Fd :
              IF g = f
              THEN m.reads[g] = None /\ m.writes[g] = None /\ m.events[g] = "none"
              ELSE /\ m.reads[g] = n.reads[g] /\ m.writes[g] = n.writes[g]
                   /\ m.events[g] = n.events[g]
<1>1. m = [[[[n EXCEPT !.reads = [n.reads EXCEPT ![f] = None]]
              EXCEPT !.writes = [n.writes EXCEPT ![f] = None]]
              EXCEPT !.events = [n.events EXCEPT ![f] = "none"]]
              EXCEPT !.timer = [n.timer EXCEPT ![f] = FALSE]]
  BY DEF Unregister, NetState
<1> DEFINE a == [n.reads EXCEPT ![f] = None]
           b == [n.writes EXCEPT ![f] = None]
           c == [n.events EXCEPT ![f] = "none"]
           d == [n.timer EXCEPT ![f] = FALSE]
<1>2. /\ a \in [Fd -> Sessions] /\ b \in [Fd -> Sessions]
      /\ c \in [Fd -> {"none", "read", "readwrite"}] /\ d \in [Fd -> BOOLEAN]
  BY NetFields DEF Sessions
<1> HIDE DEF a, b, c, d
<1>3. m = [[[[n EXCEPT !.reads = a] EXCEPT !.writes = b] EXCEPT !.events = c] EXCEPT !.timer = d]
  BY <1>1 DEF a, b, c, d
<1>4. /\ m \in NetState
      /\ m.closing = n.closing /\ m.due = n.due /\ m.next = n.next
      /\ m.free = n.free /\ m.fresh = n.fresh
      /\ m.reads = a /\ m.writes = b /\ m.events = c /\ m.timer = d
  BY <1>2, <1>3 DEF NetState
<1> QED
  BY <1>4, NetFields DEF a, b, c, d

LEMMA CloseSessionFact ==
  ASSUME NEW n \in NetState, NEW x \in SessionMap, NEW s \in Session,
         ~InClosing(n, s), NEW m, m = CloseSession(n, x, s)
  PROVE  /\ m \in NetState
         /\ m.closing = Append(n.closing, s) /\ m.due = n.due /\ m.next = n.next
         /\ m.free = n.free /\ m.fresh = n.fresh
         /\ \A f \in Fd :
              IF x[s].sock = f /\ n.reads[f] = s
              THEN m.reads[f] = None /\ m.writes[f] = None /\ m.events[f] = "none"
              ELSE /\ m.reads[f] = n.reads[f] /\ m.writes[f] = n.writes[f]
                   /\ m.events[f] = n.events[f]
<1> DEFINE f == x[s].sock
           k == IF f # None /\ n.reads[f] = s THEN Unregister(n, f) ELSE n
<1>1. f \in Fd \cup {None} /\ None \notin Fd
  BY SessionFields, NetAssumption DEF SessionMap
<1>2. m = [k EXCEPT !.closing = Append(k.closing, s)]
  BY DEF CloseSession
<1>3. /\ k \in NetState
      /\ k.closing = n.closing /\ k.due = n.due /\ k.next = n.next
      /\ k.free = n.free /\ k.fresh = n.fresh
      /\ \A g \in Fd :
           IF f = g /\ n.reads[g] = s
           THEN k.reads[g] = None /\ k.writes[g] = None /\ k.events[g] = "none"
           ELSE /\ k.reads[g] = n.reads[g] /\ k.writes[g] = n.writes[g]
                /\ k.events[g] = n.events[g]
  <2>1. CASE f # None /\ n.reads[f] = s
    <3>1. f \in Fd /\ k = Unregister(n, f)
      BY <1>1, <2>1
    <3> HIDE DEF k, f
    <3>2. /\ k \in NetState
          /\ k.closing = n.closing /\ k.due = n.due /\ k.next = n.next
          /\ k.free = n.free /\ k.fresh = n.fresh
          /\ \A g \in Fd :
               IF g = f
               THEN k.reads[g] = None /\ k.writes[g] = None /\ k.events[g] = "none"
               ELSE /\ k.reads[g] = n.reads[g] /\ k.writes[g] = n.writes[g]
                    /\ k.events[g] = n.events[g]
      BY <3>1, UnregisterFact
    <3> QED
      BY <2>1, <3>1, <3>2
  <2>2. CASE ~(f # None /\ n.reads[f] = s)
    BY <1>1, <2>2
  <2> QED
    BY <2>1, <2>2
<1> HIDE DEF k
<1>4. Append(k.closing, s) \in Seq(Session)
  BY <1>3, NetFields, AppendFact
<1> DEFINE c == Append(k.closing, s)
<1> HIDE DEF c
<1>5. /\ m \in NetState
      /\ m.closing = c /\ m.due = k.due /\ m.next = k.next
      /\ m.free = k.free /\ m.fresh = k.fresh
      /\ m.reads = k.reads /\ m.writes = k.writes /\ m.events = k.events
  BY <1>2, <1>3, <1>4 DEF NetState, c
<1> QED
  BY <1>3, <1>5 DEF c

\* what is not in use
Rest(n) == ToSet(n.free) \cup n.fresh

Apart(n) == IsInjective(n.free) /\ ToSet(n.free) \cap n.fresh = {}

LEMMA AllocateFact ==
  ASSUME NEW n \in NetState, Apart(n), NEW s \in Allocatable(n), NEW m, m = Allocate(n, s)
  PROVE  /\ m \in NetState /\ Apart(m) /\ s \in Session
         /\ s \in Rest(n) /\ Rest(m) = Rest(n) \ {s}
         /\ m.closing = n.closing /\ m.due = n.due /\ m.next = n.next
         /\ m.reads = n.reads /\ m.writes = n.writes /\ m.events = n.events
<1>1. n.free \in Seq(Session) /\ n.fresh \in SUBSET Session
  BY NetFields
<1>2. CASE n.free # <<>>
  <2> DEFINE t == Tail(n.free)
  <2>1. s = Head(n.free) /\ m = [n EXCEPT !.free = t]
    BY <1>2 DEF Allocatable, Allocate
  <2>2. /\ t \in Seq(Session) /\ s \in ToSet(n.free) /\ s \in Session
        /\ IsInjective(t) /\ ToSet(t) = ToSet(n.free) \ {s}
    BY <1>1, <1>2, <2>1, TailFact DEF Apart
  <2> HIDE DEF t
  <2>3. /\ m \in NetState /\ m.free = t /\ m.fresh = n.fresh
        /\ m.closing = n.closing /\ m.due = n.due /\ m.next = n.next
        /\ m.reads = n.reads /\ m.writes = n.writes /\ m.events = n.events
    BY <2>1, <2>2 DEF NetState
  <2> QED
    BY <2>2, <2>3 DEF Apart, Rest
<1>3. CASE n.free = <<>>
  <2> DEFINE t == n.fresh \ {s}
  <2>1. s \in n.fresh /\ m = [n EXCEPT !.fresh = t]
    BY <1>3 DEF Allocatable, Allocate
  <2>2. t \in SUBSET Session
    BY <1>1
  <2> HIDE DEF t
  <2>3. /\ m \in NetState /\ m.free = n.free /\ m.fresh = t
        /\ m.closing = n.closing /\ m.due = n.due /\ m.next = n.next
        /\ m.reads = n.reads /\ m.writes = n.writes /\ m.events = n.events
    BY <2>1, <2>2 DEF NetState
  <2>4. ToSet(n.free) = {}
    BY <1>3 DEF ToSet
  <2> QED
    BY <1>1, <2>1, <2>3, <2>4 DEF Apart, Rest, t
<1> QED
  BY <1>2, <1>3

LEMMA DeleteFact ==
  ASSUME NEW n \in NetState, Apart(n), NEW s \in Session, s \notin Rest(n),
         NEW m, m = DeleteSession(n, s)
  PROVE  /\ m \in NetState /\ Apart(m)
         /\ Rest(m) = Rest(n) \cup {s}
         /\ m.closing = n.closing /\ m.due = n.due /\ m.next = n.next
         /\ m.reads = n.reads /\ m.writes = n.writes /\ m.events = n.events
<1> DEFINE t == Append(n.free, s)
<1>1. n.free \in Seq(Session) /\ n.fresh \in SUBSET Session
  BY NetFields
<1>2. m = [n EXCEPT !.free = t]
  BY DEF DeleteSession
<1>3. t \in Seq(Session) /\ IsInjective(t) /\ ToSet(t) = ToSet(n.free) \cup {s}
  BY <1>1, AppendFact DEF Apart, Rest
<1> HIDE DEF t
<1>4. /\ m \in NetState /\ m.free = t /\ m.fresh = n.fresh
      /\ m.closing = n.closing /\ m.due = n.due /\ m.next = n.next
      /\ m.reads = n.reads /\ m.writes = n.writes /\ m.events = n.events
  BY <1>2, <1>3 DEF NetState
<1> QED
  BY <1>3, <1>4 DEF Apart, Rest

-----------------------------------------------------------------------------
(* A step that uses one session and leaves the server's maps alone.        *)

WorkersOK(x) ==
  /\ x \in [Workers -> [pc : WorkerPC, s : Sessions]]
  /\ \A w \in Workers : x[w].pc = "idle" <=> x[w].s = None

TaskOK(x) ==
  /\ x \in [pc : TaskPC, s : Sessions]
  /\ x.pc = "idle" <=> x.s = None

LEMMA TypeParts ==
  /\ TypeOK <=> /\ net \in NetState /\ ses \in SessionMap
                /\ control \in Seq(Session) /\ readQ \in Seq(Session) /\ writeQ \in Seq(Session)
                /\ Len(readQ) <= MaxQueue
                /\ server \in Phase
                /\ WorkersOK(worker) /\ TaskOK(task)
  /\ TypeOK' <=> /\ net' \in NetState /\ ses' \in SessionMap
                 /\ control' \in Seq(Session) /\ readQ' \in Seq(Session) /\ writeQ' \in Seq(Session)
                 /\ Len(readQ') <= MaxQueue
                 /\ server' \in Phase
                 /\ WorkersOK(worker') /\ TaskOK(task')
<1>1. TypeOK <=> /\ net \in NetState /\ ses \in SessionMap
                 /\ control \in Seq(Session) /\ readQ \in Seq(Session) /\ writeQ \in Seq(Session)
                 /\ Len(readQ) <= MaxQueue
                 /\ server \in Phase
                 /\ WorkersOK(worker) /\ TaskOK(task)
  BY DEF TypeOK, SessionMap, WorkersOK, TaskOK
<1>2. TypeOK' <=> /\ net' \in NetState /\ ses' \in SessionMap
                  /\ control' \in Seq(Session) /\ readQ' \in Seq(Session) /\ writeQ' \in Seq(Session)
                  /\ Len(readQ') <= MaxQueue
                  /\ server' \in Phase
                  /\ WorkersOK(worker') /\ TaskOK(task')
  BY DEF TypeOK, SessionMap, WorkersOK, TaskOK
<1> QED
  BY <1>1, <1>2

SameMaps ==
  /\ net'.reads = net.reads /\ net'.writes = net.writes
  /\ \A f \in Fd : net'.events[f] = "none" <=> net.events[f] = "none"
  /\ net'.closing = net.closing /\ net'.due = net.due /\ net'.next = net.next
  /\ net'.free = net.free /\ net'.fresh = net.fresh

UseOf(s) ==
  /\ SameMaps
  /\ \A t \in Session \ {s} : ses'[t] = ses[t]
  /\ ses'[s].sock = ses[s].sock
  /\ ses'[s].tcp \in {ses[s].tcp, None}
  /\ ToSet(control') \subseteq ToSet(control) \cup {s}
  /\ ToSet(readQ') \subseteq ToSet(readQ) \cup {s}
  /\ ToSet(writeQ') \subseteq ToSet(writeQ) \cup {s}
  /\ \A w \in Workers : worker'[w].s \in {worker[w].s, s, None}
  /\ task'.s \in {task.s, s, None}
  /\ server' = server \/ server' = "begin"

LEMMA UseStep ==
  ASSUME NetInv, TypeOK', NEW s \in Session, ~Unused(s), UseOf(s),
         ReferencesAreCounted', InGap(s)' => ses'[s].active > 0
  PROVE  NetInv'
<1>0. /\ TypeOK /\ MapsAgree /\ OneHome /\ UnusedIsClean /\ GapIsInUse
      /\ None \notin Session /\ None \notin Fd
  BY NetAssumption DEF NetInv
<1>1. \A t \in Session : ses'[t].sock = ses[t].sock /\ ses'[t].tcp \in {ses[t].tcp, None}
  BY DEF UseOf
<1>2. MapsAgree'
  <2>1. ASSUME NEW f \in Fd
        PROVE  /\ net'.events[f] = "none" <=> net'.reads[f] = None
               /\ net'.reads[f] # None => ses'[net'.reads[f]].sock = f
               /\ net'.writes[f] # None => net'.writes[f] = net'.reads[f]
               /\ \A t \in Session : ses'[t].tcp = f => net'.reads[f] = t
    <3>1. /\ net'.reads = net.reads /\ net'.writes = net.writes
          /\ net'.events[f] = "none" <=> net.events[f] = "none"
      BY DEF UseOf, SameMaps
    <3>2. /\ net.events[f] = "none" <=> net.reads[f] = None
          /\ net.reads[f] # None => ses[net.reads[f]].sock = f
          /\ net.writes[f] # None => net.writes[f] = net.reads[f]
          /\ \A t \in Session : ses[t].tcp = f => net.reads[f] = t
      BY <1>0 DEF MapsAgree
    <3>3. net.reads[f] \in Session \cup {None} /\ f # None
      BY <1>0, NetFields DEF TypeOK, Sessions
    <3> QED
      BY <1>1, <3>1, <3>2, <3>3
  <2> QED
    BY <2>1 DEF MapsAgree
<1>3. OneHome'
  BY <1>0, <1>1 DEF OneHome, UseOf, SameMaps, Registered, Unused, InClosing
<1>4. UnusedIsClean'
  <2>1. ASSUME NEW t \in Session, Unused(t)'
        PROVE  /\ Unused(t) /\ t # s /\ ses'[t] = ses[t]
               /\ ~Referenced(t)' /\ ~Writing(t)'
    <3>1. Unused(t) /\ t # s /\ ses'[t] = ses[t] /\ t # None
      BY <1>0, <2>1 DEF Unused, UseOf, SameMaps
    <3>2. ~Referenced(t) /\ ~Writing(t)
      BY <1>0, <3>1 DEF UnusedIsClean
    <3> QED
      BY <3>1, <3>2 DEF UseOf, Referenced, Writing
  <2> QED
    BY <1>0, <2>1 DEF UnusedIsClean
<1>5. GapIsInUse'
  <2>1. ASSUME NEW t \in Session, t # s, InGap(t)'
        PROVE  ses'[t].active > 0
    <3>1. InGap(t) /\ ses'[t] = ses[t]
      BY <2>1 DEF InGap, UseOf, SameMaps, InClosing
    <3> QED
      BY <1>0, <3>1 DEF GapIsInUse
  <2> QED
    BY <2>1 DEF GapIsInUse
<1> QED
  BY <1>2, <1>3, <1>4, <1>5 DEF NetInv

\* what a busy worker and a busy write task hold
LEMMA WorkerHolds ==
  ASSUME NetInv, NEW w \in Workers, worker[w].pc # "idle"
  PROVE  /\ worker[w].s \in Session /\ ~Unused(worker[w].s)
         /\ ses[worker[w].s].active > 0
<1> DEFINE s == worker[w].s
<1>1. s \in Session
  BY DEF NetInv, TypeOK, Sessions
<1>2. ~Unused(s)
  BY <1>1 DEF NetInv, UnusedIsClean, Referenced
<1>3. ses[s].active > 0
  <2>1. Refs(readQ, worker, s) \in Nat /\ Refs(readQ, worker, s) > 0
    BY <1>1, RefsBound DEF NetInv, TypeOK
  <2>2. ses[s].active >= Refs(readQ, worker, s) + (IF Writing(s) THEN 1 ELSE 0)
    BY <1>1 DEF NetInv, ReferencesAreCounted, References, Refs, Places, Holding
  <2>3. ses[s].active \in Nat
    BY <1>1, SessionFields, TypeParts DEF NetInv, SessionMap
  <2> QED
    BY <2>1, <2>2, <2>3
<1> QED
  BY <1>1, <1>2, <1>3

LEMMA TaskHolds ==
  ASSUME NetInv, task.pc # "idle"
  PROVE  /\ task.s \in Session /\ ~Unused(task.s)
         /\ ses[task.s].active > 0
<1> DEFINE s == task.s
<1>1. s \in Session
  BY DEF NetInv, TypeOK, Sessions
<1>2. ~Unused(s)
  BY <1>1 DEF NetInv, UnusedIsClean, Writing
<1>3. ses[s].active > 0
  <2>1. Refs(readQ, worker, s) \in Nat
    BY <1>1, RefsBound DEF NetInv, TypeOK
  <2>2. ses[s].active >= Refs(readQ, worker, s) + (IF Writing(s) THEN 1 ELSE 0)
    BY <1>1 DEF NetInv, ReferencesAreCounted, References, Refs, Places, Holding
  <2>3. ses[s].active \in Nat /\ Writing(s)
    BY <1>1, SessionFields, TypeParts DEF NetInv, SessionMap, Writing
  <2> QED
    BY <2>1, <2>2, <2>3
<1> QED
  BY <1>1, <1>2, <1>3

-----------------------------------------------------------------------------
(* The steps of a worker.                                                  *)

\* what is counted when no reference comes or goes
LEMMA CountsKept ==
  ASSUME NetInv, readQ' = readQ, writeQ' = writeQ,
         \A w \in Workers : worker'[w].s = worker[w].s,
         task'.s \in {task.s, None},
         \A s \in Session : ses'[s].active = ses[s].active
  PROVE  ReferencesAreCounted'
<1> SUFFICES ASSUME NEW s \in Session
             PROVE  ses'[s].active >= References(s)' + (IF Writing(s)' THEN 1 ELSE 0)
  BY DEF ReferencesAreCounted
<1>1. ses[s].active >= References(s) + (IF Writing(s) THEN 1 ELSE 0)
  BY DEF NetInv, ReferencesAreCounted
<1>2. References(s) = Refs(readQ, worker, s) /\ References(s)' = Refs(readQ', worker', s)
  BY DEF References, Refs, Places, Holding
<1>3. Refs(readQ', worker', s) = Refs(readQ, worker, s) /\ Refs(readQ, worker, s) \in Nat
  BY HoldingSame, RefsBound DEF Refs, NetInv, TypeOK
<1>4. Writing(s)' => Writing(s)
  BY NetAssumption DEF Writing
<1>5. ses[s].active \in Nat
  BY SessionFields, TypeParts DEF NetInv, SessionMap
<1> QED
  BY <1>1, <1>2, <1>3, <1>4, <1>5

LEMMA WorkerMoves ==
  ASSUME WorkersOK(worker), NEW w \in Workers, worker[w].pc # "idle",
         NEW pc \in WorkerPC \ {"idle"}, Goto(w, pc)
  PROVE  /\ WorkersOK(worker')
         /\ \A v \in Workers : worker'[v].s = worker[v].s
BY DEF WorkersOK, Goto

\* the session changes, but neither its number nor its references
LEMMA WorkerUses ==
  ASSUME NetInv, NEW w \in Workers, worker[w].pc # "idle",
         NEW pc \in WorkerPC \ {"idle"}, Goto(w, pc),
         NEW s, s = worker[w].s,
         ses' \in SessionMap, \A t \in Session \ {s} : ses'[t] = ses[t],
         ses'[s].sock = ses[s].sock, ses'[s].tcp \in {ses[s].tcp, None},
         ses'[s].active = ses[s].active,
         control' \in Seq(Session), ToSet(control') \subseteq ToSet(control) \cup {s},
         UNCHANGED <<net, readQ, writeQ, server, task>>
  PROVE  NetInv'
<1>1. s \in Session /\ ~Unused(s) /\ ses[s].active > 0
  BY WorkerHolds
<1>2. WorkersOK(worker') /\ \A v \in Workers : worker'[v].s = worker[v].s
  BY WorkerMoves, TypeParts DEF NetInv
<1>3. TypeOK'
  <2>1. TypeOK
    BY DEF NetInv
  <2> QED
    BY <1>2, <2>1, TypeParts
<1>4. UseOf(s)
  BY <1>2 DEF UseOf, SameMaps
<1>5. \A t \in Session : ses'[t].active = ses[t].active
  OBVIOUS
<1>6. ReferencesAreCounted'
  BY <1>2, <1>5, CountsKept
<1> QED
  BY <1>1, <1>3, <1>4, <1>6, UseStep

LEMMA WorkerTakeStep ==
  ASSUME NetInv, NEW w \in Workers, WorkerTake(w)
  PROVE  NetInv'
<1>0. PICK s : s = Head(readQ)
  OBVIOUS
<1>1. /\ worker[w].pc = "idle" /\ readQ # <<>>
      /\ worker' = [worker EXCEPT ![w] = [pc |-> "read", s |-> s]]
      /\ readQ' = Tail(readQ)
      /\ UNCHANGED <<net, ses, control, writeQ, server, task>>
  BY <1>0 DEF WorkerTake
<1>2. TypeOK /\ readQ \in Seq(Session) /\ WorkersOK(worker)
  BY TypeParts DEF NetInv
<1>3. /\ readQ' \in Seq(Session) /\ Len(readQ') = Len(readQ) - 1
      /\ s \in ToSet(readQ) /\ s \in Session /\ ToSet(readQ') \subseteq ToSet(readQ)
  <2>1. readQ' \in Seq(Session) /\ Len(readQ') = Len(readQ) - 1
    BY <1>1, <1>2, HeadTailProperties
  <2>2. s \in ToSet(readQ) /\ s \in Session
    BY <1>0, <1>1, <1>2, TailFact
  <2>3. ToSet(readQ') \subseteq ToSet(readQ)
    BY <1>1, <1>2, TailSubset
  <2> QED
    BY <2>1, <2>2, <2>3
<1>4. ~Unused(s) /\ None # s
  BY <1>3, NetAssumption DEF NetInv, UnusedIsClean, Referenced
<1>5. /\ WorkersOK(worker') /\ worker'[w].s = s
      /\ SameBut(worker, worker', w)
  BY <1>1, <1>2, <1>3, <1>4 DEF SameBut, WorkersOK, WorkerPC, Sessions
<1>6. TypeOK'
  <2>1. Len(readQ') <= MaxQueue
    BY <1>2, <1>3, LenProperties, NetAssumption DEF TypeOK
  <2> QED
    BY <1>1, <1>2, <1>3, <1>5, <2>1, TypeParts
<1>7. worker[w].s = None
  BY <1>1, <1>2 DEF WorkersOK
<1>8. ReferencesAreCounted'
  <2> SUFFICES ASSUME NEW t \in Session
               PROVE  ses'[t].active >= References(t)' + (IF Writing(t)' THEN 1 ELSE 0)
    BY DEF ReferencesAreCounted
  <2>1. ses[t].active >= References(t) + (IF Writing(t) THEN 1 ELSE 0)
    BY DEF NetInv, ReferencesAreCounted
  <2>2. References(t) = Refs(readQ, worker, t) /\ References(t)' = Refs(readQ', worker', t)
    BY DEF References, Refs, Places, Holding
  <2>3. Refs(Tail(readQ), worker', t) = Refs(readQ, worker, t)
    BY <1>0, <1>1, <1>2, <1>5, <1>7, RefsTake
  <2>4. Writing(t)' = Writing(t)
    BY <1>1 DEF Writing
  <2> QED
    BY <1>1, <2>1, <2>2, <2>3, <2>4
<1>9. UseOf(s)
  BY <1>1, <1>3, <1>5 DEF UseOf, SameMaps, SameBut
<1>10. InGap(s)' => ses'[s].active > 0
  BY <1>1, <1>3 DEF InGap, InClosing, NetInv, GapIsInUse
<1> QED
  BY <1>3, <1>4, <1>6, <1>8, <1>9, <1>10, UseStep

LEMMA WorkerDoneStep ==
  ASSUME NetInv, NoGapRace, NEW w \in Workers, WorkerDone(w)
  PROVE  NetInv'
<1>0. PICK s : s = worker[w].s
  OBVIOUS
<1>1. /\ worker[w].pc = "done" /\ ~InGap(s)
      /\ ses' = Idle(ses, s)
      /\ worker' = [worker EXCEPT ![w] = [pc |-> "idle", s |-> None]]
      /\ UNCHANGED <<net, control, readQ, writeQ, server, task>>
  BY <1>0 DEF WorkerDone
<1>2. TypeOK /\ readQ \in Seq(Session) /\ WorkersOK(worker) /\ ses \in SessionMap
  BY TypeParts DEF NetInv
<1>3. s \in Session /\ ~Unused(s) /\ ses[s].active > 0
  BY <1>0, <1>1, WorkerHolds
<1>4. /\ WorkersOK(worker') /\ worker'[w].s = None
      /\ SameBut(worker, worker', w)
  BY <1>1, <1>2, <1>3 DEF SameBut, WorkersOK, WorkerPC, Sessions
<1>5. /\ ses' \in SessionMap
      /\ \A t \in Session \ {s} : ses'[t] = ses[t]
      /\ ses'[s].sock = ses[s].sock /\ ses'[s].tcp = ses[s].tcp
      /\ ses'[s].active = IF ses[s].active < MaxActive THEN ses[s].active - 1 ELSE MaxActive
  BY <1>1, <1>2, <1>3, IdleFact
<1>6. TypeOK'
  BY <1>1, <1>2, <1>4, <1>5, TypeParts
<1>7. ReferencesAreCounted'
  <2> SUFFICES ASSUME NEW t \in Session
               PROVE  ses'[t].active >= References(t)' + (IF Writing(t)' THEN 1 ELSE 0)
    BY DEF ReferencesAreCounted
  <2>1. ses[t].active >= References(t) + (IF Writing(t) THEN 1 ELSE 0)
    BY DEF NetInv, ReferencesAreCounted
  <2>2. References(t) = Refs(readQ, worker, t) /\ References(t)' = Refs(readQ', worker', t)
    BY DEF References, Refs, Places, Holding
  <2>3. Refs(readQ, worker, t) = Refs(readQ, worker', t) + (IF s = t THEN 1 ELSE 0)
    BY <1>0, <1>2, <1>4, RefsDone
  <2>4. Writing(t)' = Writing(t)
    BY <1>1 DEF Writing
  <2>5. Refs(readQ, worker', t) \in Nat /\ Refs(readQ, worker', t) < MaxActive
    BY <1>2, RefsBound DEF TypeOK
  <2>6. ses[t].active \in Nat /\ MaxActive \in Nat
    BY <1>2, SessionFields, NetAssumption DEF SessionMap
  <2>7. CASE t = s
    BY <1>1, <1>5, <2>1, <2>2, <2>3, <2>4, <2>5, <2>6, <2>7
  <2>8. CASE t # s
    BY <1>1, <1>5, <2>1, <2>2, <2>3, <2>4, <2>5, <2>6, <2>8
  <2> QED
    BY <2>7, <2>8
<1>8. UseOf(s)
  BY <1>1, <1>4, <1>5 DEF UseOf, SameMaps, SameBut
<1>9. ~InGap(s)'
  BY <1>1 DEF InGap, InClosing
<1> QED
  BY <1>3, <1>6, <1>7, <1>8, <1>9, UseStep

LEMMA WorkerStepKeeps ==
  ASSUME NetInv, NoGapRace, NEW w \in Workers, WorkerStep(w)
  PROVE  NetInv'
<1>0. PICK s : s = worker[w].s
  OBVIOUS
<1>1. /\ ses \in SessionMap /\ control \in Seq(Session)
      /\ worker[w].pc # "idle" => s \in Session
  BY <1>0, TypeParts, WorkerHolds DEF NetInv
<1> DEFINE KeepsSession ==
      /\ ses' \in SessionMap /\ \A t \in Session \ {s} : ses'[t] = ses[t]
      /\ ses'[s].sock = ses[s].sock /\ ses'[s].tcp \in {ses[s].tcp, None}
      /\ ses'[s].active = ses[s].active
    Moves == worker[w].pc # "idle" /\ \E pc \in WorkerPC \ {"idle"} : Goto(w, pc)
<1>2. ses' = ses => KeepsSession
  BY <1>1
<1>3. s \in Session /\ ses' = Close(ses, s) => KeepsSession
  BY <1>1, CloseFact
<1>4. ASSUME Moves, KeepsSession, control' = control,
             UNCHANGED <<net, readQ, writeQ, server, task>>
      PROVE  NetInv'
  <2>1. PICK pc \in WorkerPC \ {"idle"} : Goto(w, pc)
    BY <1>4
  <2> QED
    BY <1>0, <1>1, <1>4, <2>1, WorkerUses
<1> HIDE DEF KeepsSession
<1>5. CASE WorkerTake(w)
  BY <1>5, WorkerTakeStep
<1>6. CASE WorkerRead(w)
  <2>1. Moves /\ s \in Session
    BY <1>1, <1>6 DEF WorkerRead, WorkerPC
  <2>2. ses' = ses \/ ses' = Close(ses, s)
    BY <1>0, <1>6 DEF WorkerRead
  <2> HIDE DEF Moves
  <2> QED
    BY <1>2, <1>3, <1>4, <1>6, <2>1, <2>2 DEF WorkerRead
<1>7. CASE WorkerReport(w)
  <2>1. PICK pc \in WorkerPC \ {"idle"} : Goto(w, pc)
    BY <1>7 DEF WorkerReport, WorkerPC
  <2>2. worker[w].pc # "idle" /\ ses' = ses /\ control' = Append(control, s)
    BY <1>0, <1>7 DEF WorkerReport
  <2>3. control' \in Seq(Session) /\ ToSet(control') \subseteq ToSet(control) \cup {s}
    BY <1>1, <2>2, AppendFact
  <2>4. UNCHANGED <<net, readQ, writeQ, server, task>>
    BY <1>7 DEF WorkerReport
  <2> QED
    BY <1>0, <1>1, <2>1, <2>2, <2>3, <2>4, WorkerUses
<1>8. CASE RunNothing(w)
  <2>1. Moves
    BY <1>8 DEF RunNothing, WorkerPC
  <2> HIDE DEF Moves
  <2> QED
    BY <1>2, <1>4, <1>8, <2>1 DEF RunNothing
<1>9. CASE RunWrite(w)
  <2>1. Moves /\ s \in Session
    BY <1>1, <1>9 DEF RunWrite, WorkerPC
  <2>2. ses' = ses \/ ses' = Close(ses, s)
    BY <1>0, <1>9 DEF RunWrite
  <2> HIDE DEF Moves
  <2> QED
    BY <1>2, <1>3, <1>4, <1>9, <2>1, <2>2 DEF RunWrite
<1>10. CASE AppendPending(w)
  <2>1. Moves /\ s \in Session
    BY <1>1, <1>10 DEF AppendPending, WorkerPC
  <2>2. KeepsSession
    <3>1. ses' = [ses EXCEPT ![s] = [ses[s] EXCEPT !.pending = TRUE]]
      BY <1>0, <1>10 DEF AppendPending
    <3>2. ses[s] \in SessionState
      BY <1>1, <2>1 DEF SessionMap
    <3>3. PICK v : v = [ses[s] EXCEPT !.pending = TRUE]
      OBVIOUS
    <3>4. v \in SessionState /\ v.sock = ses[s].sock /\ v.tcp = ses[s].tcp /\ v.active = ses[s].active
      BY <3>2, <3>3 DEF SessionState
    <3> QED
      BY <1>1, <2>1, <3>1, <3>3, <3>4 DEF KeepsSession, SessionMap
  <2> HIDE DEF Moves
  <2> QED
    BY <1>4, <1>10, <2>1, <2>2 DEF AppendPending
<1>11. CASE RunSetTimeout(w)
  <2>1. Moves /\ s \in Session
    BY <1>1, <1>11 DEF RunSetTimeout, WorkerPC
  <2>2. KeepsSession
    <3>1. ses' = [ses EXCEPT ![s] = [[ses[s] EXCEPT !.timeout = ~ses[s].timeout] EXCEPT !.change = TRUE]]
      BY <1>0, <1>1, <1>11 DEF RunSetTimeout, SessionMap
    <3>2. ses[s] \in SessionState
      BY <1>1, <2>1 DEF SessionMap
    <3>3. PICK b \in BOOLEAN : b = ~ses[s].timeout
      OBVIOUS
    <3>4. PICK v : v = [[ses[s] EXCEPT !.timeout = b] EXCEPT !.change = TRUE]
      OBVIOUS
    <3>5. v \in SessionState /\ v.sock = ses[s].sock /\ v.tcp = ses[s].tcp /\ v.active = ses[s].active
      BY <3>2, <3>4 DEF SessionState
    <3> QED
      BY <1>1, <2>1, <3>1, <3>3, <3>4, <3>5 DEF KeepsSession, SessionMap
  <2> HIDE DEF Moves
  <2> QED
    BY <1>4, <1>11, <2>1, <2>2 DEF RunSetTimeout
<1>12. CASE WorkerDone(w)
  BY <1>12, WorkerDoneStep
<1> QED
  BY <1>5, <1>6, <1>7, <1>8, <1>9, <1>10, <1>11, <1>12 DEF WorkerStep

-----------------------------------------------------------------------------
(* The steps of the write task.                                            *)

\* the session changes or the task lets it go
LEMMA TaskUses ==
  ASSUME NetInv, task.pc # "idle", TaskOK(task'),
         NEW s, s = task.s, task'.s \in {s, None},
         ses' \in SessionMap, \A t \in Session \ {s} : ses'[t] = ses[t],
         ses'[s].sock = ses[s].sock, ses'[s].tcp \in {ses[s].tcp, None},
         ses'[s].active = ses[s].active,
         control' \in Seq(Session), ToSet(control') \subseteq ToSet(control) \cup {s},
         UNCHANGED <<net, readQ, writeQ, server, worker>>
  PROVE  NetInv'
<1>1. s \in Session /\ ~Unused(s) /\ ses[s].active > 0
  BY TaskHolds
<1>2. TypeOK'
  <2>1. TypeOK
    BY DEF NetInv
  <2> QED
    BY <2>1, TypeParts
<1>3. UseOf(s)
  BY DEF UseOf, SameMaps
<1>4. \A t \in Session : ses'[t].active = ses[t].active
  OBVIOUS
<1>5. ReferencesAreCounted'
  BY <1>4, CountsKept
<1> QED
  BY <1>1, <1>2, <1>3, <1>5, UseStep

LEMMA TaskTakeStep ==
  ASSUME NetInv, TaskTake
  PROVE  NetInv'
<1>0. PICK s : s = Head(writeQ)
  OBVIOUS
<1>1. /\ writeQ # <<>> /\ task.pc = "idle"
      /\ task' = [pc |-> "write", s |-> s]
      /\ writeQ' = Tail(writeQ)
      /\ UNCHANGED <<net, ses, control, readQ, server, worker>>
  BY <1>0 DEF TaskTake
<1>2. TypeOK /\ readQ \in Seq(Session) /\ writeQ \in Seq(Session) /\ ses \in SessionMap
  BY TypeParts DEF NetInv
<1>3. /\ writeQ' \in Seq(Session) /\ s \in ToSet(writeQ) /\ s \in Session
      /\ ToSet(writeQ') \subseteq ToSet(writeQ)
  BY <1>0, <1>1, <1>2, TailFact, TailSubset
<1>4. ~Unused(s) /\ None # s
  BY <1>3, NetAssumption DEF NetInv, UnusedIsClean, Writing
<1>5. TaskOK(task')
  BY <1>1, <1>3, <1>4 DEF TaskOK, TaskPC, Sessions
<1>6. TypeOK'
  BY <1>1, <1>2, <1>3, <1>5, TypeParts
<1>7. ReferencesAreCounted'
  <2> SUFFICES ASSUME NEW t \in Session
               PROVE  ses'[t].active >= References(t)' + (IF Writing(t)' THEN 1 ELSE 0)
    BY DEF ReferencesAreCounted
  <2>1. ses[t].active >= References(t) + (IF Writing(t) THEN 1 ELSE 0)
    BY DEF NetInv, ReferencesAreCounted
  <2>2. References(t) = Refs(readQ, worker, t) /\ References(t)' = Refs(readQ, worker, t)
    BY <1>1 DEF References, Refs, Places, Holding
  <2>3. Writing(t)' => Writing(t)
    BY <1>1, <1>3 DEF Writing
  <2>4. Refs(readQ, worker, t) \in Nat /\ ses[t].active \in Nat
    BY <1>2, RefsBound, SessionFields DEF SessionMap, TypeOK
  <2> QED
    BY <1>1, <2>1, <2>2, <2>3, <2>4
<1>8. UseOf(s)
  BY <1>1, <1>3 DEF UseOf, SameMaps
<1>9. InGap(s)' => ses'[s].active > 0
  BY <1>1, <1>3 DEF InGap, InClosing, NetInv, GapIsInUse
<1> QED
  BY <1>3, <1>4, <1>6, <1>7, <1>8, <1>9, UseStep

LEMMA TaskStepKeeps ==
  ASSUME NetInv, TaskStep
  PROVE  NetInv'
<1>0. PICK s : s = task.s
  OBVIOUS
<1>1. /\ ses \in SessionMap /\ control \in Seq(Session) /\ TaskOK(task)
      /\ task.pc # "idle" => s \in Session
  BY <1>0, TypeParts, TaskHolds DEF NetInv
<1> DEFINE KeepsSession ==
      /\ ses' \in SessionMap /\ \A t \in Session \ {s} : ses'[t] = ses[t]
      /\ ses'[s].sock = ses[s].sock /\ ses'[s].tcp \in {ses[s].tcp, None}
      /\ ses'[s].active = ses[s].active
    Moves == /\ task.pc # "idle"
             /\ \/ task' = [pc |-> "idle", s |-> None]
                \/ \E pc \in TaskPC \ {"idle"} : task' = [task EXCEPT !.pc = pc]
<1>2. ses' = ses => KeepsSession
  BY <1>1
<1>3. s \in Session /\ ses' = Close(ses, s) => KeepsSession
  BY <1>1, CloseFact
<1>4. s \in Session /\ (\E b \in BOOLEAN : ses' = [ses EXCEPT ![s].pending = b]) => KeepsSession
  <2> SUFFICES ASSUME s \in Session, NEW b \in BOOLEAN, ses' = [ses EXCEPT ![s].pending = b]
               PROVE  KeepsSession
    OBVIOUS
  <2>1. PICK v : v = [ses[s] EXCEPT !.pending = b]
    OBVIOUS
  <2>2. ses[s] \in SessionState /\ ses' = [ses EXCEPT ![s] = v]
    BY <1>1, <2>1 DEF SessionMap
  <2>3. v \in SessionState /\ v.sock = ses[s].sock /\ v.tcp = ses[s].tcp /\ v.active = ses[s].active
    BY <2>1, <2>2 DEF SessionState
  <2> QED
    BY <1>1, <2>2, <2>3 DEF SessionMap
<1>5. Moves => TaskOK(task') /\ task'.s \in {s, None} /\ s \in Session
  BY <1>0, <1>1 DEF TaskOK, TaskPC, Sessions
<1>6. ASSUME Moves, KeepsSession,
             control' = control \/ control' = Append(control, s),
             UNCHANGED <<net, readQ, writeQ, server, worker>>
      PROVE  NetInv'
  <2>1. control' \in Seq(Session) /\ ToSet(control') \subseteq ToSet(control) \cup {s}
    <3>1. s \in Session
      BY <1>5, <1>6
    <3>2. /\ Append(control, s) \in Seq(Session)
          /\ ToSet(Append(control, s)) = ToSet(control) \cup {s}
      BY <1>1, <3>1, AppendFact
    <3> QED
      BY <1>1, <1>6, <3>2
  <2> QED
    BY <1>0, <1>5, <1>6, <2>1, TaskUses
<1> HIDE DEF KeepsSession
<1>7. CASE TaskTake
  BY <1>7, TaskTakeStep
<1>8. CASE TaskPop
  <2>1. Moves /\ \E b \in BOOLEAN : ses' = [ses EXCEPT ![s].pending = b]
    BY <1>0, <1>8 DEF TaskPop, TaskPC
  <2> HIDE DEF Moves
  <2> QED
    BY <1>4, <1>5, <1>6, <1>8, <2>1 DEF TaskPop
<1>9. CASE TaskSend
  <2>1. Moves
    BY <1>9 DEF TaskSend
  <2> HIDE DEF Moves
  <2> QED
    BY <1>2, <1>6, <1>9, <2>1 DEF TaskSend
<1>10. CASE TaskPutBack
  <2>1. Moves /\ \E b \in BOOLEAN : ses' = [ses EXCEPT ![s].pending = b]
    BY <1>0, <1>10 DEF TaskPutBack
  <2> HIDE DEF Moves
  <2> QED
    BY <1>4, <1>5, <1>6, <1>10, <2>1 DEF TaskPutBack
<1>11. CASE TaskSendFails
  <2>1. Moves
    BY <1>11 DEF TaskSendFails, TaskPC
  <2> HIDE DEF Moves
  <2> QED
    BY <1>2, <1>6, <1>11, <2>1 DEF TaskSendFails
<1>12. CASE TaskNothing
  <2>1. Moves
    BY <1>12 DEF TaskNothing, TaskPC
  <2> HIDE DEF Moves
  <2> QED
    BY <1>2, <1>6, <1>12, <2>1 DEF TaskNothing
<1>13. CASE TaskClose
  <2>1. Moves /\ ses' = Close(ses, s)
    BY <1>0, <1>13 DEF TaskClose, TaskPC
  <2> HIDE DEF Moves
  <2> QED
    BY <1>3, <1>5, <1>6, <1>13, <2>1 DEF TaskClose
<1>14. CASE TaskReport
  <2>1. Moves /\ control' = Append(control, s)
    BY <1>0, <1>14 DEF TaskReport
  <2> HIDE DEF Moves
  <2> QED
    BY <1>2, <1>6, <1>14, <2>1 DEF TaskReport
<1> QED
  BY <1>7, <1>8, <1>9, <1>10, <1>11, <1>12, <1>13, <1>14 DEF TaskStep

-----------------------------------------------------------------------------
(* The steps of the server thread that use a session.                      *)

LEMMA ReadEventStep ==
  ASSUME NetInv, NEW f \in Fd, ReadEvent(f)
  PROVE  NetInv'
<1>0. PICK s : s = net.reads[f]
  OBVIOUS
<1>1. /\ net.events[f] # "none" /\ Len(readQ) < MaxQueue /\ server' = "begin"
      /\ readQ' = Append(readQ, s) /\ ses' = Active(ses, s)
      /\ UNCHANGED <<net, control, writeQ, worker, task>>
  BY <1>0 DEF ReadEvent
<1>2. TypeOK /\ readQ \in Seq(Session) /\ ses \in SessionMap /\ net \in NetState
  BY TypeParts DEF NetInv
<1>3. s \in Session /\ ~Unused(s)
  <2>1. s # None /\ s \in Sessions
    BY <1>0, <1>1, <1>2, NetFields DEF NetInv, MapsAgree
  <2>2. s \in Session /\ Registered(s)
    BY <1>0, <2>1 DEF NetInv, MapsAgree, Registered, Sessions
  <2> QED
    BY <2>2 DEF NetInv, OneHome
<1>4. /\ readQ' \in Seq(Session) /\ Len(readQ') = Len(readQ) + 1
      /\ ToSet(readQ') = ToSet(readQ) \cup {s}
  <2>1. Append(readQ, s) \in Seq(Session) /\ Len(Append(readQ, s)) = Len(readQ) + 1
    BY <1>2, <1>3, AppendProperties
  <2>2. ToSet(Append(readQ, s)) = ToSet(readQ) \cup {s}
    BY <1>2, <1>3, AppendFact
  <2> QED
    BY <1>1, <2>1, <2>2
<1>5. /\ ses' \in SessionMap
      /\ \A t \in Session \ {s} : ses'[t] = ses[t]
      /\ ses'[s].sock = ses[s].sock /\ ses'[s].tcp = ses[s].tcp
      /\ ses'[s].active = IF ses[s].active < MaxActive THEN ses[s].active + 1 ELSE MaxActive
  BY <1>1, <1>2, <1>3, ActiveFact
<1>6. Len(readQ') <= MaxQueue
  BY <1>1, <1>2, <1>4, LenProperties, NetAssumption
<1>7. TypeOK'
  BY <1>1, <1>2, <1>4, <1>5, <1>6, TypeParts DEF Phase
<1>8. ReferencesAreCounted'
  <2> SUFFICES ASSUME NEW t \in Session
               PROVE  ses'[t].active >= References(t)' + (IF Writing(t)' THEN 1 ELSE 0)
    BY DEF ReferencesAreCounted
  <2>1. ses[t].active >= References(t) + (IF Writing(t) THEN 1 ELSE 0)
    BY DEF NetInv, ReferencesAreCounted
  <2>2. References(t) = Refs(readQ, worker, t) /\ References(t)' = Refs(readQ', worker, t)
    BY <1>1 DEF References, Refs, Places, Holding
  <2>3. Refs(Append(readQ, s), worker, t) = Refs(readQ, worker, t) + (IF s = t THEN 1 ELSE 0)
    BY <1>2, <1>3, RefsAppend
  <2>4. Writing(t)' = Writing(t)
    BY <1>1 DEF Writing
  <2>5. /\ Refs(readQ', worker, t) \in Nat /\ Refs(readQ', worker, t) < MaxActive
        /\ Refs(readQ, worker, t) \in Nat
    BY <1>2, <1>4, <1>6, RefsBound DEF TypeOK
  <2>6. ses[t].active \in Nat /\ MaxActive \in Nat
    BY <1>2, SessionFields, NetAssumption DEF SessionMap
  <2>7. CASE t = s
    BY <1>1, <1>5, <2>1, <2>2, <2>3, <2>4, <2>5, <2>6, <2>7
  <2>8. CASE t # s
    BY <1>1, <1>5, <2>1, <2>2, <2>3, <2>4, <2>5, <2>6, <2>8
  <2> QED
    BY <2>7, <2>8
<1>9. UseOf(s)
  BY <1>1, <1>4, <1>5 DEF UseOf, SameMaps
<1>10. ~InGap(s)'
  BY <1>1 DEF InGap
<1> QED
  BY <1>3, <1>7, <1>8, <1>9, <1>10, UseStep

LEMMA WriteEventStep ==
  ASSUME NetInv, NEW f \in Fd, WriteEvent(f)
  PROVE  NetInv'
<1>0. PICK s : s = net.reads[f]
  OBVIOUS
<1>1. /\ net.events[f] = "readwrite" /\ server' = "begin"
      /\ writeQ' = Append(writeQ, s) /\ ses' = Active(ses, s)
      /\ net' = [net EXCEPT !.events[f] = "read", !.timer[f] = FALSE]
      /\ UNCHANGED <<control, readQ, worker, task>>
  BY <1>0 DEF WriteEvent
<1>2. TypeOK /\ readQ \in Seq(Session) /\ writeQ \in Seq(Session) /\ ses \in SessionMap /\ net \in NetState
  BY TypeParts DEF NetInv
<1>3. s \in Session /\ ~Unused(s)
  <2>1. s # None /\ s \in Sessions
    BY <1>0, <1>1, <1>2, NetFields DEF NetInv, MapsAgree
  <2>2. s \in Session /\ Registered(s)
    BY <1>0, <2>1 DEF NetInv, MapsAgree, Registered, Sessions
  <2> QED
    BY <2>2 DEF NetInv, OneHome
<1>4. writeQ' \in Seq(Session) /\ ToSet(writeQ') = ToSet(writeQ) \cup {s}
  BY <1>1, <1>2, <1>3, AppendFact
<1>5. /\ ses' \in SessionMap
      /\ \A t \in Session \ {s} : ses'[t] = ses[t]
      /\ ses'[s].sock = ses[s].sock /\ ses'[s].tcp = ses[s].tcp
      /\ ses'[s].active = IF ses[s].active < MaxActive THEN ses[s].active + 1 ELSE MaxActive
  BY <1>1, <1>2, <1>3, ActiveFact
<1>6. net' \in NetState /\ SameMaps
  <2>1. PICK e, m : /\ e = [net.events EXCEPT ![f] = "read"]
                    /\ m = [net.timer EXCEPT ![f] = FALSE]
    OBVIOUS
  <2>2. net' = [[net EXCEPT !.events = e] EXCEPT !.timer = m]
    BY <1>1, <1>2, <2>1 DEF NetState
  <2>3. /\ e \in [Fd -> {"none", "read", "readwrite"}] /\ m \in [Fd -> BOOLEAN]
        /\ \A g \in Fd : e[g] = "none" <=> net.events[g] = "none"
    BY <1>1, <1>2, <2>1, NetFields
  <2> QED
    BY <1>2, <2>2, <2>3 DEF NetState, SameMaps
<1>7. TypeOK'
  BY <1>1, <1>2, <1>4, <1>5, <1>6, TypeParts DEF Phase
<1>8. ReferencesAreCounted'
  <2> SUFFICES ASSUME NEW t \in Session
               PROVE  ses'[t].active >= References(t)' + (IF Writing(t)' THEN 1 ELSE 0)
    BY DEF ReferencesAreCounted
  <2>1. ses[t].active >= References(t) + (IF Writing(t) THEN 1 ELSE 0)
    BY DEF NetInv, ReferencesAreCounted
  <2>2. References(t) = Refs(readQ, worker, t) /\ References(t)' = Refs(readQ, worker, t)
    BY <1>1 DEF References, Refs, Places, Holding
  <2>3. t # s => (Writing(t)' <=> Writing(t))
    BY <1>1, <1>4 DEF Writing
  <2>4. Refs(readQ, worker, t) \in Nat /\ Refs(readQ, worker, t) < MaxActive
    BY <1>2, RefsBound DEF TypeOK
  <2>5. ses[t].active \in Nat /\ MaxActive \in Nat
    BY <1>2, SessionFields, NetAssumption DEF SessionMap
  <2>6. CASE t = s
    BY <1>5, <2>1, <2>2, <2>4, <2>5, <2>6
  <2>7. CASE t # s
    BY <1>5, <2>1, <2>2, <2>3, <2>7
  <2> QED
    BY <2>6, <2>7
<1>9. UseOf(s)
  BY <1>1, <1>4, <1>5, <1>6 DEF UseOf
<1>10. ~InGap(s)'
  BY <1>1 DEF InGap
<1> QED
  BY <1>3, <1>7, <1>8, <1>9, <1>10, UseStep

-----------------------------------------------------------------------------
(* MapsAgree and OneHome of any maps n and sessions x; the sessions of out *)
(* are on their way from one place to another.                             *)

Agree(n, x) ==
  \A f \in Fd :
    /\ n.events[f] = "none" <=> n.reads[f] = None
    /\ n.reads[f] # None => x[n.reads[f]].sock = f
    /\ n.writes[f] # None => n.writes[f] = n.reads[f]
    /\ \A s \in Session : x[s].tcp = f => n.reads[f] = s

IsRegistered(n, x, s) == x[s].sock \in Fd /\ n.reads[x[s].sock] = s

Homes(n, x, out) ==
  /\ IsInjective(n.closing) /\ Apart(n)
  /\ n.due <= Len(n.closing) /\ n.next > 0
  /\ \A s \in Session :
       /\ s \in out <=> ~(IsRegistered(n, x, s) \/ InClosing(n, s) \/ s \in Rest(n))
       /\ ~(IsRegistered(n, x, s) /\ InClosing(n, s))
       /\ ~(IsRegistered(n, x, s) /\ s \in Rest(n))
       /\ ~(InClosing(n, s) /\ s \in Rest(n))

LEMMA InTheseTerms ==
  /\ MapsAgree <=> Agree(net, ses)
  /\ MapsAgree' <=> Agree(net', ses')
  /\ OneHome <=> Homes(net, ses, {})
  /\ OneHome' <=> Homes(net', ses', {})
  /\ \A s : Unused(s) <=> s \in Rest(net)
  /\ \A s : Unused(s)' <=> s \in Rest(net')
<1>1. (MapsAgree <=> Agree(net, ses)) /\ (MapsAgree' <=> Agree(net', ses'))
  BY DEF MapsAgree, Agree
<1>2. /\ \A s : Unused(s) <=> s \in Rest(net)
      /\ \A s : Unused(s)' <=> s \in Rest(net')
      /\ \A s : Registered(s) <=> IsRegistered(net, ses, s)
      /\ \A s : Registered(s)' <=> IsRegistered(net', ses', s)
  BY DEF Unused, Rest, Registered, IsRegistered
<1>3. OneHome <=> Homes(net, ses, {})
  BY <1>2 DEF OneHome, Homes, Apart
<1>4. OneHome' <=> Homes(net', ses', {})
  BY <1>2 DEF OneHome, Homes, Apart, InClosing
<1> QED
  BY <1>1, <1>2, <1>3, <1>4

\* the sessions keep their numbers and their open sockets
LEMMA SameServer ==
  ASSUME NEW n, NEW m, NEW x, NEW y, NEW out,
         Agree(n, x), Homes(n, x, out), n.reads \in [Fd -> Sessions],
         m.reads = n.reads, m.writes = n.writes,
         \A f \in Fd : m.events[f] = "none" <=> n.events[f] = "none",
         m.closing = n.closing, m.free = n.free, m.fresh = n.fresh,
         m.due <= Len(n.closing), m.next > 0,
         \A s \in Session : y[s].sock = x[s].sock /\ y[s].tcp \in {x[s].tcp, None}
  PROVE  /\ Agree(m, y) /\ Homes(m, y, out)
         /\ Rest(m) = Rest(n)
<1>1. Agree(m, y)
  <2> SUFFICES ASSUME NEW f \in Fd
               PROVE  /\ m.events[f] = "none" <=> m.reads[f] = None
                      /\ m.reads[f] # None => y[m.reads[f]].sock = f
                      /\ m.writes[f] # None => m.writes[f] = m.reads[f]
                      /\ \A s \in Session : y[s].tcp = f => m.reads[f] = s
    BY DEF Agree
  <2>1. /\ n.events[f] = "none" <=> n.reads[f] = None
        /\ n.reads[f] # None => x[n.reads[f]].sock = f
        /\ n.writes[f] # None => n.writes[f] = n.reads[f]
        /\ \A s \in Session : x[s].tcp = f => n.reads[f] = s
    BY DEF Agree
  <2>2. n.reads[f] \in Session \cup {None} /\ f # None
    BY NetAssumption DEF Sessions
  <2> QED
    BY <2>1, <2>2
<1>2. Rest(m) = Rest(n) /\ (Apart(m) <=> Apart(n))
  BY DEF Rest, Apart
<1>3. \A s \in Session : /\ IsRegistered(m, y, s) <=> IsRegistered(n, x, s)
                         /\ InClosing(m, s) <=> InClosing(n, s)
  BY DEF IsRegistered, InClosing
<1>4. Homes(m, y, out)
  BY <1>2, <1>3 DEF Homes
<1> QED
  BY <1>1, <1>2, <1>4

\* AdNetBaseCloseSession: what it does to a session that is registered
LEMMA CloseMoves ==
  ASSUME NEW n \in NetState, NEW x \in SessionMap, NEW s \in Session,
         ~InClosing(n, s), IsRegistered(n, x, s), NEW m, m = CloseSession(n, x, s)
  PROVE  /\ m.reads = [n.reads EXCEPT ![x[s].sock] = None]
         /\ ToSet(m.closing) = ToSet(n.closing) \cup {s}
<1>1. /\ m \in NetState /\ m.closing = Append(n.closing, s)
      /\ \A f \in Fd : m.reads[f] = IF x[s].sock = f /\ n.reads[f] = s THEN None ELSE n.reads[f]
  BY CloseSessionFact
<1>2. x[s].sock \in Fd /\ n.reads[x[s].sock] = s
  BY DEF IsRegistered
<1>3. n.reads \in [Fd -> Sessions] /\ m.reads \in [Fd -> Sessions] /\ n.closing \in Seq(Session)
  BY <1>1, NetFields
<1>4. m.reads = [n.reads EXCEPT ![x[s].sock] = None]
  BY <1>1, <1>2, <1>3
<1> QED
  BY <1>1, <1>3, <1>4, AppendFact

\* AdNetBaseCloseSession: a registered session goes to the close list
LEMMA CloseKeeps ==
  ASSUME NEW n \in NetState, NEW x \in SessionMap, NEW out, NEW s \in Session,
         Agree(n, x), Homes(n, x, out), IsRegistered(n, x, s),
         NEW m, m = CloseSession(n, x, s), NEW y, y = CloseObject(n, x, s)
  PROVE  /\ m \in NetState /\ y = Close(x, s)
         /\ Agree(m, y) /\ Homes(m, y, out)
         /\ Rest(m) = Rest(n)
         /\ m.reads[x[s].sock] = None
<1>1. ~InClosing(n, s)
  BY DEF Homes
<1>2. y = Close(x, s)
  BY <1>1 DEF CloseObject
<1>3. /\ y \in SessionMap
      /\ \A t \in Session \ {s} : y[t] = x[t]
      /\ y[s].sock = x[s].sock /\ y[s].tcp = None
  BY <1>2, CloseFact
<1>4. /\ m \in NetState
      /\ m.closing = Append(n.closing, s) /\ m.due = n.due /\ m.next = n.next
      /\ m.free = n.free /\ m.fresh = n.fresh
  BY <1>1, CloseSessionFact
<1>5. \A f \in Fd :
        IF x[s].sock = f /\ n.reads[f] = s
        THEN m.reads[f] = None /\ m.writes[f] = None /\ m.events[f] = "none"
        ELSE m.reads[f] = n.reads[f] /\ m.writes[f] = n.writes[f] /\ m.events[f] = n.events[f]
  BY <1>1, CloseSessionFact
<1> DEFINE g == x[s].sock
<1>6. g \in Fd /\ n.reads[g] = s /\ s # None /\ g # None
  BY NetAssumption DEF IsRegistered
<1>7. m.reads[g] = None /\ m.writes[g] = None /\ m.events[g] = "none"
  BY <1>5, <1>6
<1>8. \A f \in Fd \ {g} : /\ m.reads[f] = n.reads[f] /\ m.writes[f] = n.writes[f]
                          /\ m.events[f] = n.events[f]
  BY <1>5
<1> HIDE DEF g
<1>9. Agree(m, y)
  <2> SUFFICES ASSUME NEW f \in Fd
               PROVE  /\ m.events[f] = "none" <=> m.reads[f] = None
                      /\ m.reads[f] # None => y[m.reads[f]].sock = f
                      /\ m.writes[f] # None => m.writes[f] = m.reads[f]
                      /\ \A t \in Session : y[t].tcp = f => m.reads[f] = t
    BY DEF Agree
  <2>1. /\ n.events[f] = "none" <=> n.reads[f] = None
        /\ n.reads[f] # None => x[n.reads[f]].sock = f
        /\ n.writes[f] # None => n.writes[f] = n.reads[f]
        /\ \A t \in Session : x[t].tcp = f => n.reads[f] = t
    BY DEF Agree
  <2>2. n.reads[f] \in Session \cup {None} /\ f # None
    BY NetFields, NetAssumption DEF Sessions
  <2>3. CASE f = g
    <3>1. \A t \in Session : y[t].tcp # f
      BY <1>3, <1>6, <2>1, <2>2, <2>3
    <3> QED
      BY <1>7, <2>3, <3>1
  <2>4. CASE f # g
    BY <1>3, <1>8, <2>1, <2>2, <2>4
  <2> QED
    BY <2>3, <2>4
<1>10. /\ ToSet(m.closing) = ToSet(n.closing) \cup {s} /\ IsInjective(m.closing)
       /\ Len(m.closing) = Len(n.closing) + 1 /\ Len(n.closing) \in Nat
  <2>1. n.closing \in Seq(Session) /\ IsInjective(n.closing) /\ s \notin ToSet(n.closing)
    BY <1>1, NetFields DEF Homes, InClosing
  <2>2. Len(Append(n.closing, s)) = Len(n.closing) + 1
    BY <2>1, AppendProperties
  <2>3. Len(n.closing) \in Nat
    BY <2>1, LenProperties
  <2> QED
    BY <1>4, <2>1, <2>2, <2>3, AppendFact
<1>11. Rest(m) = Rest(n) /\ (Apart(m) <=> Apart(n))
  BY <1>4 DEF Rest, Apart
<1>12. \A t \in Session : IsRegistered(m, y, t) <=> IsRegistered(n, x, t) /\ t # s
  <2>1. ~IsRegistered(m, y, s)
    BY <1>3, <1>6, <1>7 DEF IsRegistered, g
  <2>2. ASSUME NEW t \in Session \ {s}
        PROVE  IsRegistered(m, y, t) <=> IsRegistered(n, x, t)
    <3>1. y[t].sock = x[t].sock /\ t # None
      BY <1>3, NetAssumption
    <3>2. CASE x[t].sock = g
      BY <1>6, <1>7, <3>1, <3>2 DEF IsRegistered
    <3>3. CASE x[t].sock # g
      BY <1>8, <3>1, <3>3 DEF IsRegistered
    <3> QED
      BY <3>2, <3>3
  <2> QED
    BY <2>1, <2>2
<1>13. \A t \in Session : InClosing(m, t) <=> InClosing(n, t) \/ t = s
  BY <1>10 DEF InClosing
<1>14. Homes(m, y, out)
  <2>1. m.due <= Len(m.closing) /\ m.next > 0
    BY <1>4, <1>10, NetFields DEF Homes
  <2> QED
    BY <1>10, <1>11, <1>12, <1>13, <2>1 DEF Homes
<1> QED
  BY <1>2, <1>4, <1>7, <1>9, <1>11, <1>14 DEF g

\* AdNetBaseAddSession: s is registered for a descriptor that is free
LEMMA RegisterKeeps ==
  ASSUME NEW n \in NetState, NEW x \in SessionMap, NEW s \in Session, NEW f \in Fd,
         Agree(n, x), Homes(n, x, {s}), n.reads[f] = None,
         NEW m, m = AddSession(n, f, s),
         NEW y, \A t \in Session \ {s} : y[t].sock = x[t].sock /\ y[t].tcp = x[t].tcp,
         y[s].sock = f, y[s].tcp = f
  PROVE  /\ m \in NetState
         /\ Agree(m, y) /\ Homes(m, y, {})
         /\ Rest(m) = Rest(n)
<1>1. PICK r, e, u : /\ r = [n.reads EXCEPT ![f] = s]
                     /\ e = [n.events EXCEPT ![f] = "read"]
                     /\ u = [n.timer EXCEPT ![f] = FALSE]
  OBVIOUS
<1>2. m = [[[n EXCEPT !.reads = r] EXCEPT !.events = e] EXCEPT !.timer = u]
  BY <1>1 DEF NetState, AddSession
<1>3. r \in [Fd -> Sessions] /\ e \in [Fd -> {"none", "read", "readwrite"}] /\ u \in [Fd -> BOOLEAN]
  BY <1>1, NetFields DEF Sessions
<1>4. /\ m \in NetState /\ m.reads = r /\ m.events = e /\ m.writes = n.writes
      /\ m.closing = n.closing /\ m.due = n.due /\ m.next = n.next
      /\ m.free = n.free /\ m.fresh = n.fresh
  BY <1>2, <1>3 DEF NetState
<1>5. /\ m.reads[f] = s /\ m.events[f] = "read"
      /\ \A g \in Fd \ {f} : m.reads[g] = n.reads[g] /\ m.events[g] = n.events[g]
  BY <1>1, <1>4, NetFields
<1>6. s # None /\ None \notin Fd /\ None \notin Session
  BY NetAssumption
<1>7. Agree(m, y)
  <2> SUFFICES ASSUME NEW g \in Fd
               PROVE  /\ m.events[g] = "none" <=> m.reads[g] = None
                      /\ m.reads[g] # None => y[m.reads[g]].sock = g
                      /\ m.writes[g] # None => m.writes[g] = m.reads[g]
                      /\ \A t \in Session : y[t].tcp = g => m.reads[g] = t
    BY DEF Agree
  <2>1. /\ n.events[g] = "none" <=> n.reads[g] = None
        /\ n.reads[g] # None => x[n.reads[g]].sock = g
        /\ n.writes[g] # None => n.writes[g] = n.reads[g]
        /\ \A t \in Session : x[t].tcp = g => n.reads[g] = t
    BY DEF Agree
  <2>2. n.reads[g] \in Session \cup {None}
    BY NetFields DEF Sessions
  <2>3. n.reads[g] # s
    <3>1. ~IsRegistered(n, x, s)
      BY DEF Homes
    <3> QED
      BY <1>6, <2>1, <3>1 DEF IsRegistered
  <2>4. CASE g = f
    BY <1>4, <1>5, <1>6, <2>1, <2>4
  <2>5. CASE g # f
    BY <1>4, <1>5, <1>6, <2>1, <2>2, <2>3, <2>5
  <2> QED
    BY <2>4, <2>5
<1>8. Rest(m) = Rest(n) /\ (Apart(m) <=> Apart(n))
  BY <1>4 DEF Rest, Apart
<1>9. \A t \in Session : InClosing(m, t) <=> InClosing(n, t)
  BY <1>4 DEF InClosing
<1>10. \A t \in Session : IsRegistered(m, y, t) <=> IsRegistered(n, x, t) \/ t = s
  <2>1. IsRegistered(m, y, s)
    BY <1>5 DEF IsRegistered
  <2>2. ASSUME NEW t \in Session \ {s}
        PROVE  IsRegistered(m, y, t) <=> IsRegistered(n, x, t)
    <3>1. t # None
      BY NetAssumption
    <3> QED
      BY <1>5, <1>6, <2>2, <3>1 DEF IsRegistered
  <2> QED
    BY <2>1, <2>2
<1>11. Homes(m, y, {})
  BY <1>4, <1>8, <1>9, <1>10 DEF Homes
<1> QED
  BY <1>4, <1>7, <1>8, <1>11

-----------------------------------------------------------------------------
(* The steps of the server thread.                                         *)

\* nothing but the server's own place and registrations for events
LEMMA QuietStep ==
  ASSUME NetInv, net' \in NetState, server' \in Phase,
         net'.reads = net.reads, MapsAgree',
         net'.closing = net.closing, net'.free = net.free, net'.fresh = net.fresh,
         net'.due <= Len(net.closing), net'.next > 0,
         UNCHANGED <<ses, control, readQ, writeQ, worker, task>>,
         \A s \in Session : InGap(s)' => InGap(s)
  PROVE  NetInv'
<1>1. TypeOK /\ OneHome /\ UnusedIsClean /\ GapIsInUse /\ ReferencesAreCounted
  BY DEF NetInv
<1>2. TypeOK'
  BY <1>1, TypeParts
<1>3. OneHome'
  BY <1>1 DEF OneHome, Registered, Unused, InClosing
<1>4. UnusedIsClean'
  BY <1>1 DEF UnusedIsClean, Unused, Referenced, Writing
<1>5. GapIsInUse'
  BY <1>1 DEF GapIsInUse
<1>6. ReferencesAreCounted'
  BY <1>1 DEF ReferencesAreCounted, References, Writing
<1> QED
  BY <1>2, <1>3, <1>4, <1>5, <1>6 DEF NetInv

LEMMA LoopBeginStep ==
  ASSUME NetInv, NEW k, LoopBegin(k)
  PROVE  NetInv' /\ net'.reads = net.reads /\ net'.closing = net.closing
<1>1. /\ server' = "control" /\ k \in net.due .. Len(net.closing)
      /\ net' = [net EXCEPT !.due = k]
      /\ UNCHANGED <<ses, control, readQ, writeQ, worker, task>>
  BY DEF LoopBegin
<1>2. net \in NetState
  BY DEF NetInv, TypeOK
<1>3. k \in Nat /\ k <= Len(net.closing)
  BY <1>1, <1>2, NetFields, LenProperties
<1>4. /\ net' \in NetState /\ net'.due = k /\ net'.next = net.next
      /\ net'.reads = net.reads /\ net'.writes = net.writes /\ net'.events = net.events
      /\ net'.closing = net.closing /\ net'.free = net.free /\ net'.fresh = net.fresh
  BY <1>1, <1>2, <1>3 DEF NetState
<1>5. MapsAgree'
  BY <1>1, <1>4 DEF NetInv, MapsAgree
<1>6. net.next > 0
  BY DEF NetInv, OneHome
<1>7. server' \in Phase /\ \A s \in Session : ~InGap(s)'
  BY <1>1 DEF Phase, InGap
<1> QED
  BY <1>1, <1>3, <1>4, <1>5, <1>6, <1>7, QuietStep

LEMMA ServerMoves ==
  ASSUME NetInv, ControlEmpty \/ NoEvent \/ DeleteEnd
  PROVE  NetInv' /\ net'.reads = net.reads /\ net'.closing = net.closing
<1>1. /\ net \in NetState /\ MapsAgree
      /\ net.due <= Len(net.closing) /\ net.next > 0
  BY DEF NetInv, TypeOK, OneHome
<1>2. UNCHANGED <<ses, control, readQ, writeQ, worker, task>> /\ server' \in Phase
  BY DEF ControlEmpty, NoEvent, DeleteEnd, Phase
<1>3. \A s \in Session : ~InGap(s)'
  BY DEF ControlEmpty, NoEvent, DeleteEnd, InGap, ToSet
<1>4. net' = net \/ net' = [net EXCEPT !.next = 1]
  BY DEF ControlEmpty, NoEvent, DeleteEnd
<1>5. /\ net' \in NetState /\ net'.due = net.due /\ net'.next > 0
      /\ net'.reads = net.reads /\ net'.writes = net.writes /\ net'.events = net.events
      /\ net'.closing = net.closing /\ net'.free = net.free /\ net'.fresh = net.fresh
  <2>1. CASE net' = net
    BY <1>1, <2>1
  <2>2. CASE net' = [net EXCEPT !.next = 1]
    <3>1. PICK k \in Nat : k = 1
      OBVIOUS
    <3>2. net' = [net EXCEPT !.next = k]
      BY <2>2, <3>1
    <3>3. /\ net' \in NetState /\ net'.due = net.due /\ net'.next = k
          /\ net'.reads = net.reads /\ net'.writes = net.writes /\ net'.events = net.events
          /\ net'.closing = net.closing /\ net'.free = net.free /\ net'.fresh = net.fresh
      BY <1>1, <3>1, <3>2 DEF NetState
    <3> QED
      BY <3>1, <3>3
  <2> QED
    BY <1>4, <2>1, <2>2
<1>6. MapsAgree'
  BY <1>1, <1>2, <1>5 DEF MapsAgree
<1> QED
  BY <1>1, <1>2, <1>3, <1>5, <1>6, QuietStep

LEMMA ActivateStep ==
  ASSUME NetInv, ActivateWrites
  PROVE  NetInv' /\ net'.reads = net.reads /\ net'.closing = net.closing
<1> DEFINE waiting(f) == net.writes[f] # None /\ ses[net.writes[f]].pending
           arm(f) == waiting(f) /\ net.events[f] # "readwrite"
<1>1. /\ net' = [net EXCEPT
           !.writes = [f \in Fd |-> IF waiting(f) THEN net.writes[f] ELSE None],
           !.events = [f \in Fd |-> IF arm(f) THEN "readwrite" ELSE net.events[f]],
           !.timer  = [f \in Fd |-> net.timer[f] /\ ~arm(f)]]
      /\ server = "write" /\ server' = "delete"
      /\ UNCHANGED <<ses, control, readQ, writeQ, worker, task>>
  <2>1. net \in NetState
    BY DEF NetInv, TypeOK
  <2> QED
    BY <2>1 DEF ActivateWrites, NetState
<1>2. /\ net \in NetState /\ MapsAgree
      /\ net.due <= Len(net.closing) /\ net.next > 0
  BY DEF NetInv, TypeOK, OneHome
<1>3. PICK a, b, c : /\ a = [f \in Fd |-> IF waiting(f) THEN net.writes[f] ELSE None]
                     /\ b = [f \in Fd |-> IF arm(f) THEN "readwrite" ELSE net.events[f]]
                     /\ c = [f \in Fd |-> net.timer[f] /\ ~arm(f)]
  OBVIOUS
<1>4. net' = [[[net EXCEPT !.writes = a] EXCEPT !.events = b] EXCEPT !.timer = c]
  BY <1>1, <1>2, <1>3 DEF NetState
<1>5. /\ \A f \in Fd : waiting(f) => net.reads[f] # None
      /\ \A f \in Fd : b[f] = "none" <=> net.events[f] = "none"
      /\ \A f \in Fd : a[f] \in {net.writes[f], None}
  BY <1>2, <1>3 DEF MapsAgree
<1>6. a \in [Fd -> Sessions] /\ b \in [Fd -> {"none", "read", "readwrite"}] /\ c \in [Fd -> BOOLEAN]
  <2>1. \A f \in Fd : (net.timer[f] /\ ~arm(f)) \in BOOLEAN
    OBVIOUS
  <2>2. c \in [Fd -> BOOLEAN]
    BY <1>3, <2>1
  <2> HIDE DEF waiting, arm
  <2> QED
    BY <1>2, <1>3, <2>2, NetFields DEF Sessions
<1> HIDE DEF waiting, arm
<1>7. /\ net' \in NetState /\ net'.writes = a /\ net'.events = b
      /\ net'.reads = net.reads /\ net'.due = net.due /\ net'.next = net.next
      /\ net'.closing = net.closing /\ net'.free = net.free /\ net'.fresh = net.fresh
  BY <1>2, <1>4, <1>6 DEF NetState
<1>8. MapsAgree'
  BY <1>1, <1>2, <1>5, <1>7 DEF MapsAgree
<1>9. \A s \in Session : InGap(s)' => InGap(s)
  BY <1>1, <1>7 DEF InGap, InClosing
<1>10. server' \in Phase
  BY <1>1 DEF Phase
<1> QED
  BY <1>1, <1>2, <1>7, <1>8, <1>9, <1>10, QuietStep

\* the server handles one session outside the gap; queues only shrink
LEMMA ServerStepKeeps ==
  ASSUME NetInv, net' \in NetState, ses' \in SessionMap, server' \in Phase,
         control' \in Seq(Session), ToSet(control') \subseteq ToSet(control),
         Agree(net', ses'), Homes(net', ses', {}), Rest(net') \subseteq Rest(net),
         \A t \in Rest(net') : ses'[t] = ses[t],
         \A t \in Session : ses'[t].active = ses[t].active,
         UNCHANGED <<readQ, writeQ, worker, task>>,
         \A t \in Session : ~InGap(t)'
  PROVE  NetInv'
<1>1. TypeOK /\ UnusedIsClean
  BY DEF NetInv
<1>2. TypeOK'
  BY <1>1, TypeParts
<1>3. MapsAgree' /\ OneHome'
  BY InTheseTerms
<1>4. ReferencesAreCounted'
  BY CountsKept
<1>5. UnusedIsClean'
  <2>1. ASSUME NEW t \in Session, Unused(t)'
        PROVE  Unused(t) /\ ses'[t] = ses[t]
    BY <2>1, InTheseTerms
  <2> QED
    BY <1>1, <2>1 DEF UnusedIsClean, Referenced, Writing
<1>6. GapIsInUse'
  BY DEF GapIsInUse
<1> QED
  BY <1>2, <1>3, <1>4, <1>5, <1>6 DEF NetInv

\* the first message, if it is the report of a broken connection, closes it
Closes(f) ==
  /\ net.reads[f] # None
  /\ net'.reads = [net.reads EXCEPT ![f] = None]
  /\ ToSet(net'.closing) = ToSet(net.closing) \cup {net.reads[f]}

LEMMA ControlStep ==
  ASSUME NetInv, ControlMessage
  PROVE  /\ NetInv'
         /\ \/ net'.reads = net.reads /\ net'.closing = net.closing
            \/ \E f \in Fd : Closes(f) /\ net.reads[f] = Head(control)
<1>1. PICK s, f : s = Head(control) /\ f = ses[s].sock
  OBVIOUS
<1> DEFINE open == Ok(ses, s)
<1>2. PICK n, x : /\ n = IF ~open THEN CloseSession(net, ses, s)
                         ELSE IF net.reads[f] # None THEN [net EXCEPT !.writes[f] = s]
                         ELSE net
                  /\ x = IF ~open THEN CloseObject(net, ses, s) ELSE ses
  OBVIOUS
<1>3. /\ control # <<>> /\ control' = Tail(control)
      /\ net' = n \/ net' = [n EXCEPT !.timer[f] = x[s].timeout]
      /\ ses' = [x EXCEPT ![s].change = FALSE]
      /\ server' \in {"event", "control"}
      /\ UNCHANGED <<readQ, writeQ, worker, task>>
  BY <1>1, <1>2 DEF ControlMessage
<1>4. /\ net \in NetState /\ ses \in SessionMap /\ control \in Seq(Session)
      /\ Agree(net, ses) /\ Homes(net, ses, {}) /\ UnusedIsClean
      /\ net.due <= Len(net.closing) /\ net.next > 0
  BY TypeParts, InTheseTerms DEF NetInv, OneHome
<1>5. /\ control' \in Seq(Session) /\ ToSet(control') \subseteq ToSet(control)
      /\ s \in ToSet(control) /\ s \in Session
  <2>1. s \in ToSet(control) /\ s \in Session
    BY <1>1, <1>3, <1>4, TailFact
  <2>2. control' \in Seq(Session) /\ ToSet(control') \subseteq ToSet(control)
    BY <1>3, <1>4, TailFact, TailSubset
  <2> QED
    BY <2>1, <2>2
<1>6. s \notin Rest(net)
  BY <1>4, <1>5, InTheseTerms DEF UnusedIsClean, Referenced
<1> DEFINE Handled ==
      /\ n \in NetState /\ x \in SessionMap
      /\ Agree(n, x) /\ Homes(n, x, {}) /\ Rest(n) = Rest(net)
      /\ \A t \in Session \ {s} : x[t] = ses[t]
      /\ x[s].active = ses[s].active
      /\ \/ n.reads = net.reads /\ n.closing = net.closing
         \/ /\ f \in Fd /\ net.reads[f] = s
            /\ n.reads = [net.reads EXCEPT ![f] = None]
            /\ ToSet(n.closing) = ToSet(net.closing) \cup {s}
<1>7. ASSUME open
      PROVE  Handled
  <2>1. x = ses /\ f \in Fd /\ net.reads[f] = s /\ s # None
    <3>1. f # None /\ ses[s].tcp = f /\ x = ses
      BY <1>1, <1>2, <1>7 DEF Ok
    <3>2. f \in Fd
      BY <1>1, <1>4, <1>5, <3>1, SessionFields DEF SessionMap
    <3> QED
      BY <1>4, <1>5, <3>1, <3>2, NetAssumption DEF Agree
  <2>2. PICK a : a = [net.writes EXCEPT ![f] = s]
    OBVIOUS
  <2>3. n = [net EXCEPT !.writes = a]
    BY <1>2, <1>4, <1>7, <2>1, <2>2 DEF NetState
  <2>4. a \in [Fd -> Sessions] /\ a[f] = s /\ \A g \in Fd \ {f} : a[g] = net.writes[g]
    BY <1>4, <1>5, <2>1, <2>2, NetFields DEF Sessions
  <2>5. /\ n \in NetState /\ n.writes = a /\ n.reads = net.reads /\ n.events = net.events
        /\ n.closing = net.closing /\ n.due = net.due /\ n.next = net.next
        /\ n.free = net.free /\ n.fresh = net.fresh
    BY <1>4, <2>3, <2>4 DEF NetState
  <2>6. Agree(n, x)
    BY <1>4, <2>1, <2>4, <2>5 DEF Agree
  <2>7. Homes(n, x, {}) /\ Rest(n) = Rest(net)
    BY <1>4, <2>1, <2>5 DEF Homes, Rest, Apart, IsRegistered, InClosing
  <2> QED
    BY <1>4, <2>1, <2>5, <2>6, <2>7
<1>8. ASSUME ~open, InClosing(net, s)
      PROVE  Handled
  <2>1. n = net /\ x = ses
    BY <1>2, <1>8 DEF CloseSession, CloseObject
  <2> QED
    BY <1>4, <2>1
<1>9. ASSUME ~open, ~InClosing(net, s)
      PROVE  Handled
  <2>1. IsRegistered(net, ses, s)
    BY <1>4, <1>5, <1>6, <1>9 DEF Homes
  <2>2. n = CloseSession(net, ses, s) /\ x = CloseObject(net, ses, s)
    BY <1>2, <1>9
  <2> HIDE DEF open
  <2>3. /\ n \in NetState /\ x = Close(ses, s)
        /\ Agree(n, x) /\ Homes(n, x, {}) /\ Rest(n) = Rest(net)
        /\ n.reads = [net.reads EXCEPT ![ses[s].sock] = None]
        /\ ToSet(n.closing) = ToSet(net.closing) \cup {s}
    <3>1. PICK out : out = {}
      OBVIOUS
    <3>2. /\ n \in NetState /\ x = Close(ses, s)
          /\ Agree(n, x) /\ Homes(n, x, out) /\ Rest(n) = Rest(net)
      BY <1>4, <1>5, <2>1, <2>2, <3>1, CloseKeeps
    <3>4. net \in NetState /\ ses \in SessionMap /\ n = CloseSession(net, ses, s)
      BY <1>4, <2>2
    <3>3. /\ n.reads = [net.reads EXCEPT ![ses[s].sock] = None]
          /\ ToSet(n.closing) = ToSet(net.closing) \cup {s}
      BY <1>5, <1>9, <2>1, <3>4, CloseMoves
    <3> QED
      BY <3>1, <3>2, <3>3
  <2>4. /\ x \in SessionMap
        /\ \A t \in Session \ {s} : x[t] = ses[t]
        /\ x[s].active = ses[s].active
    BY <1>4, <1>5, <2>3, CloseFact
  <2>5. f \in Fd /\ net.reads[f] = s
    BY <1>1, <2>1 DEF IsRegistered
  <2> QED
    BY <1>1, <2>3, <2>4, <2>5
<1>10. Handled
  BY <1>7, <1>8, <1>9
<1> HIDE DEF open, Handled
<1>11. /\ ses' \in SessionMap
       /\ \A t \in Session \ {s} : ses'[t] = x[t]
       /\ ses'[s].sock = x[s].sock /\ ses'[s].tcp = x[s].tcp /\ ses'[s].active = x[s].active
  <2>1. x \in SessionMap /\ x[s] \in SessionState
    BY <1>5, <1>10 DEF Handled, SessionMap
  <2>2. PICK v : v = [x[s] EXCEPT !.change = FALSE]
    OBVIOUS
  <2>3. v \in SessionState /\ v.sock = x[s].sock /\ v.tcp = x[s].tcp /\ v.active = x[s].active
    BY <2>1, <2>2 DEF SessionState
  <2>4. ses' = [x EXCEPT ![s] = v]
    BY <1>3, <2>1, <2>2 DEF SessionMap
  <2> QED
    BY <1>5, <2>1, <2>3, <2>4 DEF SessionMap
<1>12. /\ net' \in NetState
       /\ net'.reads = n.reads /\ net'.writes = n.writes /\ net'.events = n.events
       /\ net'.closing = n.closing /\ net'.due = n.due /\ net'.next = n.next
       /\ net'.free = n.free /\ net'.fresh = n.fresh
  <2>1. n \in NetState
    BY <1>10 DEF Handled
  <2>2. CASE net' = n
    BY <2>1, <2>2
  <2>3. CASE net' = [n EXCEPT !.timer[f] = x[s].timeout]
    <3>1. x[s].timeout \in BOOLEAN
      BY <1>5, <1>10, SessionFields DEF Handled, SessionMap
    <3>2. PICK b \in BOOLEAN : b = x[s].timeout
      BY <3>1
    <3>3. PICK u : u = [n.timer EXCEPT ![f] = b]
      OBVIOUS
    <3>4. u \in [Fd -> BOOLEAN]
      BY <2>1, <3>2, <3>3, NetFields
    <3>5. net' = [n EXCEPT !.timer = u]
      BY <2>1, <2>3, <3>2, <3>3 DEF NetState
    <3> QED
      BY <2>1, <3>4, <3>5 DEF NetState
  <2> QED
    BY <1>3, <2>2, <2>3
<1>13. Agree(net', ses') /\ Homes(net', ses', {}) /\ Rest(net') = Rest(net)
  <2>1. n.reads \in [Fd -> Sessions] /\ n.due <= Len(n.closing) /\ n.next > 0
    BY <1>10, NetFields DEF Handled, Homes
  <2>2. \A t \in Session : ses'[t].sock = x[t].sock /\ ses'[t].tcp \in {x[t].tcp, None}
    BY <1>11
  <2>3. Agree(net', ses') /\ Homes(net', ses', {}) /\ Rest(net') = Rest(n)
    BY <1>10, <1>12, <2>1, <2>2, SameServer DEF Handled
  <2> QED
    BY <1>10, <2>3 DEF Handled
<1>14. /\ \A t \in Rest(net') : ses'[t] = ses[t]
       /\ \A t \in Session : ses'[t].active = ses[t].active
  <2>1. Rest(net) \subseteq Session
    BY <1>4, NetFields, LenProperties DEF Rest, ToSet
  <2> QED
    BY <1>6, <1>10, <1>11, <1>13, <2>1 DEF Handled
<1>15. server' \in Phase /\ \A t \in Session : ~InGap(t)'
  BY <1>3 DEF Phase, InGap
<1>16. NetInv'
  BY <1>3, <1>5, <1>11, <1>12, <1>13, <1>14, <1>15, ServerStepKeeps
<1>17. \/ net'.reads = net.reads /\ net'.closing = net.closing
       \/ f \in Fd /\ Closes(f) /\ net.reads[f] = s
  <2>1. s # None
    BY <1>5, NetAssumption
  <2> QED
    BY <1>10, <1>12, <2>1 DEF Handled, Closes
<1> QED
  BY <1>1, <1>16, <1>17

\* a connection under a number the kernel had for another one before
Opens(f, s) ==
  /\ Unused(s)
  /\ net'.reads = [net.reads EXCEPT ![f] = s]
  /\ ToSet(net'.closing) = ToSet(net.closing) \cup ({net.reads[f]} \ {None})

LEMMA AcceptStep ==
  ASSUME NetInv, AcceptEvent
  PROVE  /\ NetInv'
         /\ \A s \in Session : ses[s].tcp = None /\ ses'[s].tcp # None => Unused(s)
         /\ \E f \in Fd, s \in Session : Opens(f, s)
<1>0. PICK f \in Fd \ OpenFd(ses), s \in Allocatable(net) :
        LET n1 == Allocate(net, s)
            x1 == Connect(ses, s, f)
            old == n1.reads[f]
            clash == old # None /\ old # s
            n2 == IF clash THEN CloseSession(n1, x1, old) ELSE n1
            n3 == AddSession(n2, f, s)
        IN /\ ses' = IF clash THEN CloseObject(n1, x1, old) ELSE x1
           /\ \E t \in Allocatable(n3) : net' = DeleteSession(Allocate(n3, t), t)
  BY DEF AcceptEvent
<1>1. PICK n1, x1, old, n2, n3, t :
        /\ n1 = Allocate(net, s) /\ x1 = Connect(ses, s, f) /\ old = n1.reads[f]
        /\ n2 = IF old # None /\ old # s THEN CloseSession(n1, x1, old) ELSE n1
        /\ n3 = AddSession(n2, f, s)
        /\ ses' = IF old # None /\ old # s THEN CloseObject(n1, x1, old) ELSE x1
        /\ t \in Allocatable(n3) /\ net' = DeleteSession(Allocate(n3, t), t)
  <2> DEFINE m1 == Allocate(net, s)
             y1 == Connect(ses, s, f)
             o == m1.reads[f]
             m2 == IF o # None /\ o # s THEN CloseSession(m1, y1, o) ELSE m1
             m3 == AddSession(m2, f, s)
  <2>1. /\ ses' = IF o # None /\ o # s THEN CloseObject(m1, y1, o) ELSE y1
        /\ \E t \in Allocatable(m3) : net' = DeleteSession(Allocate(m3, t), t)
    BY <1>0
  <2>2. /\ m1 = Allocate(net, s) /\ y1 = Connect(ses, s, f) /\ o = m1.reads[f]
        /\ m2 = IF o # None /\ o # s THEN CloseSession(m1, y1, o) ELSE m1
        /\ m3 = AddSession(m2, f, s)
    OBVIOUS
  <2> HIDE DEF m1, y1, o, m2, m3
  <2> QED
    BY <2>1, <2>2
<1>2. server = "event" /\ UNCHANGED <<server, control, readQ, writeQ, worker, task>>
  BY DEF AcceptEvent
<1>3. /\ net \in NetState /\ ses \in SessionMap /\ control \in Seq(Session)
      /\ Agree(net, ses) /\ Homes(net, ses, {}) /\ UnusedIsClean
      /\ Apart(net)
  BY TypeParts, InTheseTerms DEF NetInv, Homes
<1>4. /\ n1 \in NetState /\ Apart(n1) /\ s \in Session
      /\ s \in Rest(net) /\ Rest(n1) = Rest(net) \ {s}
      /\ n1.closing = net.closing /\ n1.due = net.due /\ n1.next = net.next
      /\ n1.reads = net.reads /\ n1.writes = net.writes /\ n1.events = net.events
  BY <1>1, <1>3, AllocateFact
<1>5. /\ Agree(n1, ses) /\ Homes(n1, ses, {s})
  <2>1. Agree(n1, ses)
    BY <1>3, <1>4 DEF Agree
  <2>2. \A u \in Session : /\ IsRegistered(n1, ses, u) <=> IsRegistered(net, ses, u)
                           /\ InClosing(n1, u) <=> InClosing(net, u)
                           /\ u \in Rest(n1) <=> u \in Rest(net) /\ u # s
    BY <1>4 DEF IsRegistered, InClosing
  <2>3. Homes(n1, ses, {s})
    BY <1>3, <1>4, <2>2 DEF Homes
  <2> QED
    BY <2>1, <2>3
<1>6. /\ x1 \in SessionMap
      /\ \A u \in Session \ {s} : x1[u] = ses[u]
      /\ x1[s].sock = f /\ x1[s].tcp = f /\ x1[s].active = ses[s].active
  BY <1>1, <1>3, <1>4, ConnectFact
\* what is still registered under the number is closed
<1>19. PICK x2 : x2 = IF old # None THEN Close(ses, old) ELSE ses
  OBVIOUS
<1>7. /\ n2 \in NetState /\ x2 \in SessionMap
      /\ Agree(n2, x2) /\ Homes(n2, x2, {s}) /\ Rest(n2) = Rest(n1)
      /\ n2.reads[f] = None
      /\ n2.reads = [net.reads EXCEPT ![f] = None]
      /\ ToSet(n2.closing) = ToSet(net.closing) \cup ({net.reads[f]} \ {None})
      /\ ses' \in SessionMap
      /\ \A u \in Session \ {s} : ses'[u] = x2[u]
      /\ ses'[s].sock = f /\ ses'[s].tcp = f /\ ses'[s].active = ses[s].active
      /\ \A u \in Session : x2[u].active = ses[u].active
      /\ \A u \in Session : u # old => x2[u] = ses[u]
      /\ \A u \in Session : x2[u].tcp \in {ses[u].tcp, None}
      /\ old \notin Rest(net)
  <2>1. None \notin Session /\ None \notin Fd
    BY NetAssumption
  <2>2. CASE old = None
    <3>1. n2 = n1 /\ x2 = ses /\ ses' = x1 /\ n1.reads[f] = None
      BY <1>1, <1>19, <2>2
    <3>2. Rest(net) \subseteq Session
      BY <1>3, NetFields, LenProperties DEF Rest, ToSet
    <3>3. /\ n2.reads = [net.reads EXCEPT ![f] = None]
          /\ ToSet(n2.closing) = ToSet(net.closing) \cup ({net.reads[f]} \ {None})
      BY <1>3, <1>4, <3>1, NetFields
    <3> QED
      BY <1>3, <1>4, <1>5, <1>6, <2>1, <2>2, <3>1, <3>2, <3>3
  <2>3. CASE old # None
    <3>1. old \in Session /\ IsRegistered(n1, ses, old) /\ ses[old].sock = f
      <4>1. old \in Session
        BY <1>1, <1>4, <2>3, NetFields DEF Sessions
      <4>2. ses[old].sock = f
        BY <1>1, <1>5, <2>3 DEF Agree
      <4> QED
        BY <1>1, <4>1, <4>2 DEF IsRegistered
    <3>2. old # s /\ old \notin Rest(n1) /\ ~InClosing(n1, old)
      BY <1>5, <3>1 DEF Homes
    <3>3. x1[old] = ses[old]
      BY <1>6, <3>1, <3>2
    <3>4. n2 = CloseSession(n1, ses, old)
      <4>1. n2 = CloseSession(n1, x1, old)
        BY <1>1, <2>3, <3>2
      <4> QED
        BY <3>3, <4>1 DEF CloseSession
    <3>5. ses' = Close(x1, old)
      BY <1>1, <2>3, <3>2 DEF CloseObject
    <3>6. x2 = Close(ses, old) /\ x2 = CloseObject(n1, ses, old)
      BY <1>19, <2>3, <3>2 DEF CloseObject
    <3>7. /\ n2 \in NetState
          /\ Agree(n2, x2) /\ Homes(n2, x2, {s}) /\ Rest(n2) = Rest(n1)
          /\ n2.reads[f] = None
      BY <1>3, <1>4, <1>5, <3>1, <3>4, <3>6, CloseKeeps
    <3>16. /\ n2.reads = [n1.reads EXCEPT ![f] = None]
           /\ ToSet(n2.closing) = ToSet(n1.closing) \cup {old}
      BY <1>3, <1>4, <3>1, <3>2, <3>4, CloseMoves
    <3>14. x2 = Close(ses, old)
      BY <3>6
    <3>8. /\ x2 \in SessionMap
          /\ \A u \in Session \ {old} : x2[u] = ses[u]
          /\ x2[old].active = ses[old].active /\ x2[old].tcp = None
      BY <1>3, <3>1, <3>14, CloseFact
    <3>9. /\ ses' \in SessionMap
          /\ \A u \in Session \ {old} : ses'[u] = x1[u]
      BY <1>6, <3>1, <3>5, CloseFact
    <3>10. ses'[old] = x2[old]
      BY <1>3, <1>6, <3>1, <3>3, <3>5, <3>6 DEF Close, SessionMap
    <3>11. \A u \in Session \ {s} : ses'[u] = x2[u]
      BY <1>6, <3>8, <3>9, <3>10
    <3>12. ses'[s] = x1[s]
      BY <1>4, <3>2, <3>9
    <3>13. old \notin Rest(net)
      BY <1>4, <3>2
    <3>15. /\ n2.reads = [net.reads EXCEPT ![f] = None]
           /\ ToSet(n2.closing) = ToSet(net.closing) \cup ({net.reads[f]} \ {None})
      BY <1>1, <1>4, <2>3, <3>16
    <3> QED
      BY <1>6, <3>7, <3>8, <3>9, <3>11, <3>12, <3>13, <3>15
  <2> QED
    BY <2>2, <2>3
<1>8. /\ n3 \in NetState
      /\ Agree(n3, ses') /\ Homes(n3, ses', {})
      /\ Rest(n3) = Rest(net) \ {s}
      /\ n3.reads = [net.reads EXCEPT ![f] = s] /\ n3.closing = n2.closing
  <2>1. \A u \in Session \ {s} : ses'[u].sock = x2[u].sock /\ ses'[u].tcp = x2[u].tcp
    BY <1>7
  <2>2. n3 = AddSession(n2, f, s) /\ f \in Fd
    BY <1>1
  <2>6. /\ n2 \in NetState /\ x2 \in SessionMap
        /\ Agree(n2, x2) /\ Homes(n2, x2, {s}) /\ n2.reads[f] = None
        /\ ses'[s].sock = f /\ ses'[s].tcp = f
    BY <1>7
  <2>3. n3 \in NetState /\ Agree(n3, ses') /\ Homes(n3, ses', {}) /\ Rest(n3) = Rest(n2)
    BY <1>4, <2>1, <2>2, <2>6, RegisterKeeps
  <2>5. n3.reads = [n2.reads EXCEPT ![f] = s] /\ n3.closing = n2.closing
    BY <1>7, <2>2 DEF AddSession, NetState
  <2>4. n3.reads = [net.reads EXCEPT ![f] = s]
    BY <1>3, <1>7, <2>5, NetFields
  <2> QED
    BY <1>4, <1>7, <2>3, <2>4, <2>5
\* the second accept takes a session and gives it back
<1>9. PICK n4 : n4 = Allocate(n3, t)
  OBVIOUS
<1>10. /\ n4 \in NetState /\ Apart(n4) /\ t \in Session
       /\ t \in Rest(n3) /\ Rest(n4) = Rest(n3) \ {t}
       /\ n4.closing = n3.closing /\ n4.due = n3.due /\ n4.next = n3.next
       /\ n4.reads = n3.reads /\ n4.writes = n3.writes /\ n4.events = n3.events
  <2>1. Apart(n3)
    BY <1>8 DEF Homes
  <2> QED
    BY <1>1, <1>8, <1>9, <2>1, AllocateFact
<1>11. /\ net' \in NetState /\ Apart(net')
       /\ Rest(net') = Rest(n4) \cup {t}
       /\ net'.closing = n4.closing /\ net'.due = n4.due /\ net'.next = n4.next
       /\ net'.reads = n4.reads /\ net'.writes = n4.writes /\ net'.events = n4.events
  <2>1. net' = DeleteSession(n4, t) /\ t \notin Rest(n4)
    BY <1>1, <1>9, <1>10
  <2> QED
    BY <1>10, <2>1, DeleteFact
<1>12. Rest(net') = Rest(net) \ {s} /\ Rest(net') = Rest(n3)
  BY <1>8, <1>10, <1>11
<1>13. Agree(net', ses')
  BY <1>8, <1>10, <1>11 DEF Agree
<1>14. Homes(net', ses', {})
  <2>1. \A u \in Session : /\ IsRegistered(net', ses', u) <=> IsRegistered(n3, ses', u)
                           /\ InClosing(net', u) <=> InClosing(n3, u)
    BY <1>10, <1>11 DEF IsRegistered, InClosing
  <2> QED
    BY <1>8, <1>10, <1>11, <1>12, <2>1 DEF Homes
<1>15. /\ \A u \in Rest(net') : ses'[u] = ses[u]
       /\ \A u \in Session : ses'[u].active = ses[u].active
  <2>1. Rest(net) \subseteq Session
    BY <1>3, NetFields, LenProperties DEF Rest, ToSet
  <2> QED
    BY <1>7, <1>12, <2>1
<1>16. server' \in Phase /\ \A u \in Session : ~InGap(u)'
  BY <1>2 DEF Phase, InGap
<1>17. NetInv'
  BY <1>2, <1>3, <1>7, <1>11, <1>12, <1>13, <1>14, <1>15, <1>16, ServerStepKeeps
<1>18. ASSUME NEW u \in Session, ses[u].tcp = None, ses'[u].tcp # None
       PROVE  Unused(u)
  <2>1. u = s
    BY <1>7, <1>18
  <2> QED
    BY <1>4, <2>1, InTheseTerms
<1>20. f \in Fd /\ Opens(f, s)
  <2>1. Unused(s)
    BY <1>4, InTheseTerms
  <2>2. net'.reads = [net.reads EXCEPT ![f] = s]
    BY <1>8, <1>10, <1>11
  <2>3. ToSet(net'.closing) = ToSet(net.closing) \cup ({net.reads[f]} \ {None})
    BY <1>7, <1>8, <1>10, <1>11
  <2> QED
    BY <2>1, <2>2, <2>3 DEF Opens
<1> QED
  BY <1>4, <1>17, <1>18, <1>20

\* nobody uses the session any more, and it leaves the close list
Recycles(s) ==
  /\ InClosing(net, s) /\ ~Referenced(s) /\ ~Writing(s)
  /\ ToSet(net'.closing) = ToSet(net.closing) \ {s}

LEMMA DeleteStep ==
  ASSUME NetInv, DeleteNext
  PROVE  /\ NetInv'
         /\ net'.reads = net.reads
         /\ net'.closing = net.closing \/ \E s \in Session : Recycles(s)
<1>0. PICK k, s : k = net.next /\ s = net.closing[k]
  OBVIOUS
<1>1. /\ server = "delete" /\ k <= net.due
      /\ ses' = Close(ses, s)
      /\ net' = IF ses[s].active = 0
                THEN DeleteSession([net EXCEPT !.closing = RemoveAt(net.closing, k),
                                               !.due = net.due - 1], s)
                ELSE [net EXCEPT !.next = k + 1]
      /\ UNCHANGED <<server, control, readQ, writeQ, worker, task>>
  <2>1. net \in NetState
    BY DEF NetInv, TypeOK
  <2> QED
    BY <1>0, <2>1 DEF DeleteNext, NetState
<1>2. /\ net \in NetState /\ ses \in SessionMap /\ control \in Seq(Session)
      /\ readQ \in Seq(Session) /\ Len(readQ) <= MaxQueue
      /\ Agree(net, ses) /\ Homes(net, ses, {}) /\ UnusedIsClean
      /\ net.due <= Len(net.closing) /\ net.next > 0 /\ IsInjective(net.closing)
  BY TypeParts, InTheseTerms DEF NetInv, OneHome
<1>3. /\ net.closing \in Seq(Session) /\ net.due \in Nat /\ k \in Nat /\ Len(net.closing) \in Nat
      /\ k \in DOMAIN net.closing
  <2>1. /\ net.closing \in Seq(Session) /\ net.due \in Nat /\ k \in Nat
        /\ Len(net.closing) \in Nat /\ DOMAIN net.closing = 1 .. Len(net.closing)
    BY <1>0, <1>2, NetFields, LenProperties
  <2> QED
    BY <1>0, <1>1, <1>2, <2>1
<1>4. PICK c : c = RemoveAt(net.closing, k)
  OBVIOUS
<1>5. /\ c \in Seq(Session) /\ Len(c) = Len(net.closing) - 1
      /\ s \in ToSet(net.closing) /\ s \in Session
      /\ IsInjective(c) /\ ToSet(c) = ToSet(net.closing) \ {s}
  BY <1>0, <1>2, <1>3, <1>4, RemoveFact
<1>6. /\ ses' \in SessionMap
      /\ \A t \in Session \ {s} : ses'[t] = ses[t]
      /\ ses'[s].sock = ses[s].sock /\ ses'[s].active = ses[s].active
      /\ ses'[s].tcp = None /\ ~ses'[s].pending
      /\ ses[s].active = 0 => ~ses'[s].timeout /\ ~ses'[s].change
  BY <1>1, <1>2, <1>5, CloseFact
<1>7. /\ \A t \in Session : ses'[t].active = ses[t].active
      /\ \A t \in Session : ses'[t].sock = ses[t].sock /\ ses'[t].tcp \in {ses[t].tcp, None}
  BY <1>6
<1>8. InClosing(net, s) /\ s \notin Rest(net) /\ ~IsRegistered(net, ses, s)
  BY <1>2, <1>5 DEF InClosing, Homes
<1>9. ReferencesAreCounted'
  BY <1>1, <1>7, CountsKept
\* somebody still uses the session: it stays on the list
<1>10. CASE ses[s].active # 0
  <2>1. net' = [net EXCEPT !.next = k + 1] /\ k + 1 \in Nat /\ k + 1 > 0
    BY <1>1, <1>3, <1>10
  <2>2. /\ net' \in NetState /\ net'.next = k + 1 /\ net'.due = net.due
        /\ net'.reads = net.reads /\ net'.writes = net.writes /\ net'.events = net.events
        /\ net'.closing = net.closing /\ net'.free = net.free /\ net'.fresh = net.fresh
    BY <1>2, <2>1 DEF NetState
  <2>3. /\ Agree(net', ses') /\ Homes(net', ses', {}) /\ Rest(net') = Rest(net)
    <3>1. /\ net.reads \in [Fd -> Sessions] /\ net'.due <= Len(net.closing) /\ net'.next > 0
          /\ \A f \in Fd : net'.events[f] = "none" <=> net.events[f] = "none"
      BY <1>2, <2>1, <2>2, NetFields
    <3>2. PICK out : out = {}
      OBVIOUS
    <3>3. Agree(net', ses') /\ Homes(net', ses', out) /\ Rest(net') = Rest(net)
      BY <1>2, <1>7, <2>2, <3>1, <3>2, SameServer
    <3> QED
      BY <3>2, <3>3
  <2>4. TypeOK'
    BY <1>1, <1>6, <2>2, TypeParts DEF NetInv
  <2>5. UnusedIsClean'
    <3>1. ASSUME NEW t \in Session, Unused(t)'
          PROVE  Unused(t) /\ ses'[t] = ses[t]
      BY <1>6, <1>8, <2>3, <3>1, InTheseTerms
    <3> QED
      BY <1>1, <1>2, <3>1 DEF UnusedIsClean, Referenced, Writing
  <2>6. GapIsInUse'
    BY <1>1, <1>7, <2>2 DEF NetInv, GapIsInUse, InGap, InClosing
  <2>7. MapsAgree' /\ OneHome'
    BY <2>3, InTheseTerms
  <2>8. NetInv'
    BY <1>9, <2>4, <2>5, <2>6, <2>7 DEF NetInv
  <2> QED
    BY <2>2, <2>8
\* nobody does, not even a report the server has not seen
<1>11. CASE ses[s].active = 0
  <2>1. ~Referenced(s) /\ ~Writing(s)
    <3>1. s \notin ToSet(control)
      BY <1>1, <1>5, <1>8, <1>11 DEF NetInv, GapIsInUse, InGap
    <3>2. ses[s].active >= Refs(readQ, worker, s) + (IF Writing(s) THEN 1 ELSE 0)
      BY <1>5 DEF NetInv, ReferencesAreCounted, References, Refs, Places, Holding
    <3>3. /\ Refs(readQ, worker, s) \in Nat
          /\ s \in ToSet(readQ) => Refs(readQ, worker, s) > 0
          /\ \A w \in Workers : worker[w].s = s => Refs(readQ, worker, s) > 0
      BY <1>2, RefsBound
    <3> QED
      BY <1>11, <3>1, <3>2, <3>3 DEF Referenced
  <2>13. net.due - 1 \in Nat
    BY <1>0, <1>1, <1>2, <1>3
  <2>14. PICK d \in Nat : d = net.due - 1
    BY <2>13
  <2>2. PICK n : d = net.due - 1 /\ n = [[net EXCEPT !.closing = c] EXCEPT !.due = d]
    BY <2>14
  <2>3. /\ n \in NetState /\ n.closing = c /\ n.due = d /\ n.next = net.next
        /\ n.reads = net.reads /\ n.writes = net.writes /\ n.events = net.events
        /\ n.free = net.free /\ n.fresh = net.fresh
    BY <1>2, <1>5, <2>2 DEF NetState
  <2>4. Apart(n) /\ Rest(n) = Rest(net)
    BY <1>2, <2>3 DEF Homes, Apart, Rest
  <2>5. net' = DeleteSession(n, s)
    <3>1. n = [net EXCEPT !.closing = c, !.due = net.due - 1]
      BY <1>2, <2>2 DEF NetState
    <3> QED
      BY <1>1, <1>4, <1>11, <3>1
  <2>6. /\ net' \in NetState /\ Apart(net')
        /\ Rest(net') = Rest(net) \cup {s}
        /\ net'.closing = c /\ net'.due = d /\ net'.next = net.next
        /\ net'.reads = net.reads /\ net'.writes = net.writes /\ net'.events = net.events
    BY <1>5, <1>8, <2>3, <2>4, <2>5, DeleteFact
  <2>7. Agree(net', ses')
    <3> SUFFICES ASSUME NEW f \in Fd
                 PROVE  /\ net'.events[f] = "none" <=> net'.reads[f] = None
                        /\ net'.reads[f] # None => ses'[net'.reads[f]].sock = f
                        /\ net'.writes[f] # None => net'.writes[f] = net'.reads[f]
                        /\ \A t \in Session : ses'[t].tcp = f => net'.reads[f] = t
      BY DEF Agree
    <3>1. /\ net.events[f] = "none" <=> net.reads[f] = None
          /\ net.reads[f] # None => ses[net.reads[f]].sock = f
          /\ net.writes[f] # None => net.writes[f] = net.reads[f]
          /\ \A t \in Session : ses[t].tcp = f => net.reads[f] = t
      BY <1>2 DEF Agree
    <3>2. net.reads[f] \in Session \cup {None} /\ f # None
      BY <1>2, NetFields, NetAssumption DEF Sessions
    <3> QED
      BY <1>7, <2>6, <3>1, <3>2
  <2>8. Homes(net', ses', {})
    <3>1. \A t \in Session : /\ IsRegistered(net', ses', t) <=> IsRegistered(net, ses, t)
                             /\ InClosing(net', t) <=> InClosing(net, t) /\ t # s
                             /\ t \in Rest(net') <=> t \in Rest(net) \/ t = s
      BY <1>5, <1>7, <2>6 DEF IsRegistered, InClosing
    <3>2. net'.due <= Len(net'.closing) /\ net'.next > 0
      BY <1>2, <1>3, <1>5, <2>2, <2>6
    <3> QED
      BY <1>2, <1>5, <1>8, <2>6, <3>1, <3>2 DEF Homes
  <2>9. TypeOK'
    BY <1>1, <1>6, <2>6, TypeParts DEF NetInv
  <2>10. UnusedIsClean'
    <3>1. ASSUME NEW t \in Session, Unused(t)'
          PROVE  /\ ses'[t].tcp = None /\ ses'[t].active = 0
                 /\ ~ses'[t].pending /\ ~ses'[t].timeout /\ ~ses'[t].change
                 /\ ~Referenced(t) /\ ~Writing(t)
      <4>1. CASE t = s
        BY <1>6, <1>11, <2>1, <4>1
      <4>2. CASE t # s
        <5>1. Unused(t) /\ ses'[t] = ses[t]
          BY <1>6, <2>6, <3>1, <4>2, InTheseTerms
        <5> QED
          BY <1>2, <5>1 DEF UnusedIsClean
      <4> QED
        BY <4>1, <4>2
    <3> QED
      BY <1>1, <3>1 DEF UnusedIsClean, Referenced, Writing
  <2>11. GapIsInUse'
    <3>1. ASSUME NEW t \in Session, InGap(t)'
          PROVE  ses'[t].active > 0
      <4>1. InGap(t)
        BY <1>1, <1>5, <2>6, <3>1 DEF InGap, InClosing
      <4> QED
        BY <1>7, <4>1 DEF NetInv, GapIsInUse
    <3> QED
      BY <3>1 DEF GapIsInUse
  <2>12. MapsAgree' /\ OneHome'
    BY <2>7, <2>8, InTheseTerms
  <2>15. NetInv'
    BY <1>9, <2>9, <2>10, <2>11, <2>12 DEF NetInv
  <2>16. s \in Session /\ Recycles(s)
    BY <1>5, <1>8, <2>1, <2>6 DEF Recycles
  <2> QED
    BY <2>6, <2>15, <2>16
<1> QED
  BY <1>10, <1>11

-----------------------------------------------------------------------------
(* All together.                                                           *)

LEMMA NetInit == Init => NetInv
<1> SUFFICES ASSUME Init
             PROVE  NetInv
  OBVIOUS
<1>1. /\ net = [reads |-> [f \in Fd |-> None], writes |-> [f \in Fd |-> None],
                events |-> [f \in Fd |-> "none"], timer |-> [f \in Fd |-> FALSE],
                closing |-> <<>>, due |-> 0, next |-> 1, free |-> <<>>, fresh |-> Session]
      /\ ses = [s \in Session |-> NewSession]
      /\ control = <<>> /\ readQ = <<>> /\ writeQ = <<>>
      /\ server = "begin"
      /\ worker = [w \in Workers |-> [pc |-> "idle", s |-> None]]
      /\ task = [pc |-> "idle", s |-> None]
  BY DEF Init
<1>2. /\ <<>> \in Seq(Session) /\ Len(<<>>) = 0 /\ ToSet(<<>>) = {} /\ IsInjective(<<>>)
  BY EmptySeq DEF ToSet, IsInjective
<1>3. None \notin Session /\ None \notin Fd /\ MaxQueue \in Nat /\ MaxActive \in Nat
  BY NetAssumption
<1>4. NewSession \in SessionState
  BY <1>3 DEF NewSession, SessionState
<1>5. net \in NetState
  BY <1>1, <1>2 DEF NetState, Sessions
<1>6. TypeOK
  <2>1. WorkersOK(worker) /\ TaskOK(task)
    BY <1>1 DEF WorkersOK, TaskOK, WorkerPC, TaskPC, Sessions
  <2>2. ses \in SessionMap /\ server \in Phase
    BY <1>1, <1>4 DEF SessionMap, Phase
  <2> QED
    BY <1>1, <1>2, <1>3, <1>5, <2>1, <2>2, TypeParts
<1>7. MapsAgree
  BY <1>1, <1>3 DEF MapsAgree, NewSession
<1>8. ReferencesAreCounted
  <2> SUFFICES ASSUME NEW s \in Session
               PROVE  ses[s].active >= References(s) + (IF Writing(s) THEN 1 ELSE 0)
    BY DEF ReferencesAreCounted
  <2>1. {i \in DOMAIN readQ : readQ[i] = s} = {} /\ {w \in Workers : worker[w].s = s} = {}
    BY <1>1, <1>3
  <2>2. References(s) = 0
    BY <2>1, FS_EmptySet DEF References
  <2> QED
    BY <1>1, <1>2, <1>3, <2>2 DEF Writing, NewSession
<1>9. OneHome
  BY <1>1, <1>2, <1>3 DEF OneHome, Registered, Unused, InClosing, NewSession
<1>10. UnusedIsClean
  BY <1>1, <1>2, <1>3 DEF UnusedIsClean, Referenced, Writing, NewSession
<1>11. GapIsInUse
  BY <1>1 DEF GapIsInUse, InGap
<1> QED
  BY <1>6, <1>7, <1>8, <1>9, <1>10, <1>11 DEF NetInv

LEMMA NetStep ==
  ASSUME NetInv, NoGapRace, [Next]_vars
  PROVE  NetInv'
<1>1. CASE ServerStep
  BY <1>1, LoopBeginStep, ControlStep, ServerMoves, ActivateStep, DeleteStep DEF ServerStep
<1>2. CASE AcceptEvent
  BY <1>2, AcceptStep
<1>3. CASE \E f \in Fd : ReadEvent(f) \/ WriteEvent(f)
  BY <1>3, ReadEventStep, WriteEventStep
<1>4. CASE \E w \in Workers : WorkerStep(w)
  BY <1>4, WorkerStepKeeps
<1>5. CASE TaskStep
  BY <1>5, TaskStepKeeps
<1>6. CASE UNCHANGED vars
  BY <1>6 DEF vars, NetInv, TypeOK, MapsAgree, ReferencesAreCounted, References, Writing, OneHome,
              Registered, Unused, InClosing, UnusedIsClean, Referenced, GapIsInUse, InGap
<1> QED
  BY <1>1, <1>2, <1>3, <1>4, <1>5, <1>6 DEF Next

(***************************************************************************)
(* Sessions and descriptors are recycled without harm, for any number of   *)
(* them and of workers: the maps of AdNetBase agree, m_uiActive counts the *)
(* references, every session object is at one place, and one that waits    *)
(* for reuse is in no queue -- as long as no report falls in the gap       *)
(* between the last tryPop of m_ctMsgControl and the delayed delete.       *)
(***************************************************************************)
THEOREM SessionsAreSound ==
  ASSUME NoGapRace
  PROVE  Spec => []NetInv
<1>1. NetInv /\ [Next]_vars => NetInv'
  BY NetStep
<1> QED
  BY <1>1, NetInit, PTL DEF Spec

Connects(x, y) == \E s \in Session : x[s].tcp = None /\ y[s].tcp # None

LEMMA NoConnection ==
  ASSUME NEW x \in SessionMap, NEW s
  PROVE  ~Connects(x, Close(x, s)) /\ ~Connects(x, Active(x, s)) /\ ~Connects(x, Idle(x, s))
<1>1. CASE s \in Session
  <2>1. PICK a, b, c : a = Close(x, s) /\ b = Active(x, s) /\ c = Idle(x, s)
    OBVIOUS
  <2>2. (\A t \in Session \ {s} : a[t] = x[t]) /\ a[s].tcp = None
    BY <1>1, <2>1, CloseFact
  <2>3. (\A t \in Session \ {s} : b[t] = x[t]) /\ b[s].tcp = x[s].tcp
    BY <1>1, <2>1, ActiveFact
  <2>4. (\A t \in Session \ {s} : c[t] = x[t]) /\ c[s].tcp = x[s].tcp
    BY <1>1, <2>1, IdleFact
  <2>5. ~Connects(x, a) /\ ~Connects(x, b) /\ ~Connects(x, c)
    BY <1>1, <2>2, <2>3, <2>4 DEF Connects
  <2> QED
    BY <2>1, <2>5
<1>2. CASE s \notin Session
  BY <1>2 DEF Connects, Close, Active, Idle, SessionMap
<1> QED
  BY <1>1, <1>2

LEMMA OnlyAcceptConnects ==
  ASSUME NetInv, Next, ~AcceptEvent
  PROVE  ~Connects(ses, ses')
<1>1. ses \in SessionMap
  BY TypeParts DEF NetInv
<1>2. ses' = ses => ~Connects(ses, ses')
  BY DEF Connects
<1>3. CASE ControlMessage
  <2>1. PICK s, x : /\ x = ses \/ x = Close(ses, s)
                    /\ s \in Session
                    /\ ses' = [x EXCEPT ![s].change = FALSE]
    <3>1. PICK s : s = Head(control)
      OBVIOUS
    <3>2. s \in Session
      <4>1. control \in Seq(Session) /\ control # <<>>
        BY <1>3, TypeParts DEF NetInv, ControlMessage
      <4> QED
        BY <3>1, <4>1, HeadTailProperties
    <3> QED
      BY <1>3, <3>1, <3>2 DEF ControlMessage, CloseObject
  <2>2. x \in SessionMap /\ ~Connects(ses, x)
    <3>1. CASE x = ses
      BY <1>1, <3>1 DEF Connects
    <3>2. CASE x = Close(ses, s)
      BY <1>1, <2>1, <3>2, CloseFact, NoConnection
    <3> QED
      BY <2>1, <3>1, <3>2
  <2>3. \A t \in Session : ses'[t].tcp = x[t].tcp
    BY <2>1, <2>2 DEF SessionMap, SessionState
  <2> QED
    BY <2>2, <2>3 DEF Connects
<1>4. CASE \/ \E k \in 0 .. Cardinality(Session) : LoopBegin(k)
           \/ ControlEmpty \/ ActivateWrites \/ DeleteNext \/ DeleteEnd \/ NoEvent
  BY <1>1, <1>2, <1>4, NoConnection DEF LoopBegin, ControlEmpty, ActivateWrites, DeleteNext, DeleteEnd, NoEvent
<1>5. CASE \E f \in Fd : ReadEvent(f) \/ WriteEvent(f)
  BY <1>1, <1>5, NoConnection DEF ReadEvent, WriteEvent
<1>6. ASSUME NEW w \in Workers, WorkerStep(w)
      PROVE  ~Connects(ses, ses')
  <2>1. CASE WorkerTake(w) \/ WorkerRead(w) \/ WorkerReport(w) \/ RunNothing(w)
    BY <1>1, <1>2, <2>1, NoConnection DEF WorkerTake, WorkerRead, WorkerReport, RunNothing
  <2>2. CASE RunWrite(w) \/ WorkerDone(w)
    BY <1>1, <1>2, <2>2, NoConnection DEF RunWrite, WorkerDone
  <2>3. CASE AppendPending(w)
    <3>1. \A t \in Session : ses'[t].tcp = ses[t].tcp
      BY <1>1, <2>3 DEF AppendPending, SessionMap, SessionState
    <3> QED
      BY <3>1 DEF Connects
  <2>4. CASE RunSetTimeout(w)
    <3>1. \A t \in Session : ses'[t].tcp = ses[t].tcp
      BY <1>1, <2>4 DEF RunSetTimeout, SessionMap, SessionState
    <3> QED
      BY <3>1 DEF Connects
  <2> QED
    BY <1>6, <2>1, <2>2, <2>3, <2>4 DEF WorkerStep
<1>7. CASE TaskStep
  <2>1. CASE TaskTake \/ TaskSend \/ TaskSendFails \/ TaskNothing \/ TaskReport
    BY <1>2, <2>1 DEF TaskTake, TaskSend, TaskSendFails, TaskNothing, TaskReport
  <2>2. CASE TaskPop \/ TaskPutBack
    <3>1. \A t \in Session : ses'[t].tcp = ses[t].tcp
      BY <1>1, <2>2 DEF TaskPop, TaskPutBack, SessionMap, SessionState
    <3> QED
      BY <3>1 DEF Connects
  <2>3. CASE TaskClose
    BY <1>1, <2>3, NoConnection DEF TaskClose
  <2> QED
    BY <1>7, <2>1, <2>2, <2>3 DEF TaskStep
<1> QED
  BY <1>3, <1>4, <1>5, <1>6, <1>7 DEF Next, ServerStep

(***************************************************************************)
(* A connection starts with a session nobody else still works on.          *)
(***************************************************************************)
THEOREM ConnectionsStartClean ==
  ASSUME NoGapRace
  PROVE  Spec => StartsClean
<1> DEFINE Clean == \A s \in Session :
              ses[s].tcp = None /\ ses'[s].tcp # None =>
                ~Referenced(s) /\ ~ses[s].pending /\ ~ses[s].timeout /\ ~ses[s].change
<1>1. ASSUME NetInv, Next
      PROVE  Clean
  <2>1. CASE AcceptEvent
    <3>1. ASSUME NEW s \in Session, ses[s].tcp = None, ses'[s].tcp # None
          PROVE  ~Referenced(s) /\ ~ses[s].pending /\ ~ses[s].timeout /\ ~ses[s].change
      <4>1. Unused(s)
        BY <1>1, <2>1, <3>1, AcceptStep
      <4> QED
        BY <1>1, <4>1 DEF NetInv, UnusedIsClean
    <3> QED
      BY <3>1
  <2>2. CASE ~AcceptEvent
    BY <1>1, <2>2, OnlyAcceptConnects DEF Connects
  <2> QED
    BY <2>1, <2>2
<1>2. NetInv /\ [Next]_vars => [Clean]_vars
  BY <1>1
<1>3. Spec => []NetInv
  BY SessionsAreSound
<1> QED
  BY <1>2, <1>3, PTL DEF Spec, StartsClean

-----------------------------------------------------------------------------
(* Sessions are recycled as Recycling says.                                *)

\* a queue without its head holds what it held before, but perhaps the head
LEMMA TailBut ==
  ASSUME NEW S, NEW q \in Seq(S), q # <<>>
  PROVE  ToSet(Tail(q)) \ {Head(q)} = ToSet(q) \ {Head(q)}
<1> DEFINE u == Tail(q)
           n == Len(q)
<1>1. u \in Seq(S) /\ Len(u) = n - 1 /\ \A i \in 1 .. Len(u) : u[i] = q[i + 1]
  BY HeadTailProperties
<1>2. DOMAIN q = 1 .. n /\ n \in Nat /\ n > 0 /\ Head(q) = q[1]
  BY LenProperties, EmptySeq
<1>3. DOMAIN u = 1 .. n - 1
  BY <1>1, LenProperties
<1> HIDE DEF u, n
<1>4. ASSUME NEW j \in 1 .. n, q[j] # q[1]
      PROVE  q[j] \in ToSet(u)
  <2>1. j - 1 \in 1 .. n - 1 /\ j - 1 + 1 = j
    BY <1>2, <1>4
  <2>2. u[j - 1] = q[j]
    BY <1>1, <2>1
  <2> QED
    BY <1>3, <2>1, <2>2 DEF ToSet
<1>5. ToSet(q) \ {q[1]} \subseteq ToSet(u)
  BY <1>2, <1>4 DEF ToSet
<1>6. ToSet(u) \subseteq ToSet(q)
  BY TailSubset DEF u
<1> QED
  BY <1>2, <1>5, <1>6 DEF u

\* the step moves no session but s from a queue or a thread to another
HandlesOnly(s) ==
  /\ ToSet(control') \ {s} = ToSet(control) \ {s}
  /\ ToSet(readQ') \ {s} = ToSet(readQ) \ {s}
  /\ ToSet(writeQ') \ {s} = ToSet(writeQ) \ {s}
  /\ \A w \in Workers : worker'[w].s = worker[w].s \/ {worker[w].s, worker'[w].s} \subseteq {s, None}
  /\ task'.s = task.s \/ {task.s, task'.s} \subseteq {s, None}

LEMMA HeldBut ==
  ASSUME NEW s, HandlesOnly(s), NEW t \in Session, t # s
  PROVE  t \in Held' <=> t \in Held
<1>1. t # None
  BY NetAssumption
<1>2. (t \in ToSet(control') <=> t \in ToSet(control)) /\ (t \in ToSet(readQ') <=> t \in ToSet(readQ))
      /\ (t \in ToSet(writeQ') <=> t \in ToSet(writeQ))
  BY DEF HandlesOnly
<1>3. \A w \in Workers : worker'[w].s = t <=> worker[w].s = t
  BY <1>1 DEF HandlesOnly
<1>4. task'.s = t <=> task.s = t
  BY <1>1 DEF HandlesOnly
<1> QED
  BY <1>2, <1>3, <1>4 DEF Held, Referenced, Writing

\* so whoever had s may have let it go, and nothing else has happened
LEMMA LetsGo ==
  ASSUME NEW s \in Held, HandlesOnly(s)
  PROVE  Held' \in {Held, Held \ {s}}
<1>1. Held \subseteq Session /\ Held' \subseteq Session
  BY DEF Held
<1>2. \A t \in Session \ {s} : t \in Held' <=> t \in Held
  BY HeldBut
<1> QED
  BY <1>1, <1>2

LEMMA ReleaseStep ==
  ASSUME NEW s \in Held, HandlesOnly(s),
         net'.reads = net.reads, ToSet(net'.closing) = ToSet(net.closing)
  PROVE  [Recycled!Next]_(Recycled!rvars)
<1>1. s \in Session
  BY DEF Held
<1>2. Held' = Held \/ Held' = Held \ {s}
  BY LetsGo
<1>3. CASE Held' = Held
  BY <1>3 DEF Recycled!rvars
<1>4. CASE Held' = Held \ {s}
  <2>1. Recycled!Release(s)
    BY <1>4 DEF Recycled!Release
  <2> QED
    BY <1>1, <2>1 DEF Recycled!Next
<1> QED
  BY <1>2, <1>3, <1>4

\* nothing is taken or given back
LEMMA HeldSame ==
  ASSUME UNCHANGED <<control, readQ, writeQ, worker, task>>
  PROVE  Held' = Held
BY DEF Held, Referenced, Writing

LEMMA WorkerHandles ==
  ASSUME NetInv, NEW w \in Workers, WorkerStep(w)
  PROVE  net' = net /\ \E s \in Held : HandlesOnly(s)
<1>1. /\ control \in Seq(Session) /\ readQ \in Seq(Session) /\ WorkersOK(worker)
  BY TypeParts DEF NetInv
<1>2. CASE WorkerTake(w)
  <2>1. PICK s : s = Head(readQ)
    OBVIOUS
  <2>2. /\ worker[w].pc = "idle" /\ readQ # <<>>
        /\ worker' = [worker EXCEPT ![w] = [pc |-> "read", s |-> s]]
        /\ readQ' = Tail(readQ)
        /\ UNCHANGED <<net, ses, control, writeQ, server, task>>
    BY <1>2, <2>1 DEF WorkerTake
  <2>3. s \in ToSet(readQ) /\ s \in Session
    BY <1>1, <2>1, <2>2, TailFact
  <2>4. ToSet(readQ') \ {s} = ToSet(readQ) \ {s}
    BY <1>1, <2>1, <2>2, TailBut
  <2>5. \A v \in Workers : worker'[v].s = worker[v].s \/ {worker[v].s, worker'[v].s} \subseteq {s, None}
    BY <1>1, <2>2 DEF WorkersOK
  <2>6. s \in Held /\ HandlesOnly(s)
    BY <2>2, <2>3, <2>4, <2>5 DEF Held, Referenced, HandlesOnly
  <2> QED
    BY <2>2, <2>6
<1>3. CASE ~WorkerTake(w)
  <2>1. PICK s : s = worker[w].s
    OBVIOUS
  <2>2. worker[w].pc # "idle"
    BY <1>3 DEF WorkerStep, WorkerRead, WorkerReport, RunNothing, RunWrite, AppendPending,
                RunSetTimeout, WorkerDone
  <2>3. s \in Session /\ s \in Held
    <3>1. s \in Session
      BY <2>1, <2>2, WorkerHolds
    <3> QED
      BY <2>1, <3>1 DEF Held, Referenced
  <2>4. /\ UNCHANGED <<net, readQ, writeQ, task>>
        /\ control' = control \/ control' = Append(control, s)
        /\ \/ \E pc \in WorkerPC \ {"idle"} : Goto(w, pc)
           \/ worker' = [worker EXCEPT ![w] = [pc |-> "idle", s |-> None]]
    BY <1>3, <2>1 DEF WorkerStep, WorkerRead, WorkerReport, RunNothing, RunWrite, AppendPending,
                      RunSetTimeout, WorkerDone, WorkerPC
  <2>5. \A v \in Workers : worker'[v].s = worker[v].s \/ {worker[v].s, worker'[v].s} \subseteq {s, None}
    BY <1>1, <2>1, <2>4 DEF WorkersOK, Goto
  <2>8. ToSet(Append(control, s)) = ToSet(control) \cup {s}
    BY <1>1, <2>3, AppendFact
  <2>6. ToSet(control') \ {s} = ToSet(control) \ {s}
    BY <2>4, <2>8
  <2>7. HandlesOnly(s)
    BY <2>4, <2>5, <2>6 DEF HandlesOnly
  <2> QED
    BY <2>3, <2>4, <2>7
<1> QED
  BY <1>2, <1>3

LEMMA TaskHandles ==
  ASSUME NetInv, TaskStep
  PROVE  net' = net /\ \E s \in Held : HandlesOnly(s)
<1>1. control \in Seq(Session) /\ writeQ \in Seq(Session) /\ TaskOK(task)
  BY TypeParts DEF NetInv
<1>2. CASE TaskTake
  <2>1. PICK s : s = Head(writeQ)
    OBVIOUS
  <2>2. /\ task.pc = "idle" /\ writeQ # <<>>
        /\ task' = [pc |-> "write", s |-> s]
        /\ writeQ' = Tail(writeQ)
        /\ UNCHANGED <<net, ses, control, readQ, server, worker>>
    BY <1>2, <2>1 DEF TaskTake
  <2>3. s \in ToSet(writeQ) /\ s \in Session
    BY <1>1, <2>1, <2>2, TailFact
  <2>4. ToSet(writeQ') \ {s} = ToSet(writeQ) \ {s}
    BY <1>1, <2>1, <2>2, TailBut
  <2>5. {task.s, task'.s} \subseteq {s, None}
    BY <1>1, <2>2 DEF TaskOK
  <2>6. s \in Held /\ HandlesOnly(s)
    BY <2>2, <2>3, <2>4, <2>5 DEF Held, Writing, HandlesOnly
  <2> QED
    BY <2>2, <2>6
<1>3. CASE ~TaskTake
  <2>1. PICK s : s = task.s
    OBVIOUS
  <2>2. task.pc # "idle"
    BY <1>3 DEF TaskStep, TaskPop, TaskSend, TaskPutBack, TaskSendFails, TaskNothing,
                TaskClose, TaskReport
  <2>3. s \in Session /\ s \in Held
    <3>1. s \in Session
      BY <2>1, <2>2, TaskHolds
    <3> QED
      BY <2>1, <3>1 DEF Held, Writing
  <2>4. /\ UNCHANGED <<net, readQ, writeQ, worker>>
        /\ control' = control \/ control' = Append(control, s)
        /\ \/ \E pc \in TaskPC : task' = [task EXCEPT !.pc = pc]
           \/ task' = [pc |-> "idle", s |-> None]
    BY <1>3, <2>1 DEF TaskStep, TaskPop, TaskSend, TaskPutBack, TaskSendFails, TaskNothing,
                      TaskClose, TaskReport, TaskPC
  <2>5. task'.s = task.s \/ {task.s, task'.s} \subseteq {s, None}
    BY <1>1, <2>1, <2>4 DEF TaskOK
  <2>8. ToSet(Append(control, s)) = ToSet(control) \cup {s}
    BY <1>1, <2>3, AppendFact
  <2>6. ToSet(control') \ {s} = ToSet(control) \ {s}
    BY <2>4, <2>8
  <2>7. HandlesOnly(s)
    BY <2>4, <2>5, <2>6 DEF HandlesOnly
  <2> QED
    BY <2>3, <2>4, <2>7
<1> QED
  BY <1>2, <1>3

\* ControlMessage: the report may close the session it is about
LEMMA ReportStep ==
  ASSUME NetInv, ControlMessage
  PROVE  [Recycled!Next]_(Recycled!rvars)
<1>1. PICK s : s = Head(control)
  OBVIOUS
<1>2. /\ control # <<>> /\ control' = Tail(control) /\ control \in Seq(Session)
      /\ UNCHANGED <<readQ, writeQ, worker, task>>
  BY TypeParts DEF ControlMessage, NetInv
<1>3. s \in Session /\ s \in Held
  <2>1. s \in ToSet(control) /\ s \in Session
    BY <1>1, <1>2, TailFact
  <2> QED
    BY <2>1 DEF Held, Referenced
<1>4. HandlesOnly(s)
  <2>1. ToSet(control') \ {s} = ToSet(control) \ {s}
    BY <1>1, <1>2, TailBut
  <2> QED
    BY <1>2, <2>1 DEF HandlesOnly
<1>5. CASE net'.reads = net.reads /\ net'.closing = net.closing
  BY <1>3, <1>4, <1>5, ReleaseStep
<1>6. ASSUME NEW f \in Fd, Closes(f), net.reads[f] = s
      PROVE  Recycled!Next
  <2>1. Held' \in {Held, Held \ {s}}
    BY <1>3, <1>4, LetsGo
  <2>2. Recycled!Close(f)
    BY <1>6, <2>1 DEF Closes, Recycled!Close
  <2> QED
    BY <2>2 DEF Recycled!Next
<1> QED
  BY <1>1, <1>5, <1>6, ControlStep

LEMMA OpenStep ==
  ASSUME NetInv, AcceptEvent
  PROVE  Recycled!Next
<1>1. PICK f \in Fd, s \in Session : Opens(f, s)
  BY AcceptStep
<1>2. Held' = Held
  BY HeldSame DEF AcceptEvent
<1>3. s \notin Held
  BY <1>1 DEF Opens, Held, NetInv, UnusedIsClean
<1>4. Recycled!Unused(s)
  <2>1. ~Registered(s) /\ ~InClosing(net, s)
    BY <1>1 DEF Opens, NetInv, OneHome
  <2>2. ASSUME NEW g \in Fd
        PROVE  net.reads[g] # s
    <3>1. net.reads[g] = s => ses[s].sock = g
      BY NetAssumption DEF NetInv, MapsAgree
    <3> QED
      BY <2>1, <3>1 DEF Registered
  <2> QED
    BY <2>1, <2>2 DEF Recycled!Unused, InClosing
<1>5. Recycled!Open(f, s)
  BY <1>1, <1>2, <1>3, <1>4 DEF Opens, Recycled!Open
<1> QED
  BY <1>5 DEF Recycled!Next

\* ReadEvent, WriteEvent: the session of the descriptor goes to a queue
LEMMA UseEvent ==
  ASSUME NetInv, NEW f \in Fd, ReadEvent(f) \/ WriteEvent(f)
  PROVE  Recycled!Next
<1>1. PICK s : s = net.reads[f]
  OBVIOUS
<1>2. /\ net \in NetState /\ readQ \in Seq(Session) /\ writeQ \in Seq(Session)
      /\ net.events[f] = "none" <=> net.reads[f] = None
  BY TypeParts DEF NetInv, MapsAgree
<1>3. s \in Session /\ s # None
  <2>1. net.events[f] # "none"
    BY DEF ReadEvent, WriteEvent
  <2> QED
    BY <1>1, <1>2, <2>1, NetFields DEF Sessions
<1>4. net'.reads = net.reads /\ net'.closing = net.closing
  BY <1>2 DEF ReadEvent, WriteEvent, NetState
<1>5. /\ UNCHANGED <<control, worker, task>>
      /\ \/ readQ' = Append(readQ, s) /\ writeQ' = writeQ
         \/ readQ' = readQ /\ writeQ' = Append(writeQ, s)
  BY <1>1 DEF ReadEvent, WriteEvent
<1>6. ToSet(readQ') \cup ToSet(writeQ') = ToSet(readQ) \cup ToSet(writeQ) \cup {s}
  <2>1. /\ ToSet(Append(readQ, s)) = ToSet(readQ) \cup {s}
        /\ ToSet(Append(writeQ, s)) = ToSet(writeQ) \cup {s}
    BY <1>2, <1>3, AppendFact
  <2> QED
    BY <1>5, <2>1
<1>7. Held' = Held \cup {s}
  BY <1>3, <1>5, <1>6 DEF Held, Referenced, Writing
<1>8. Recycled!Use(f)
  BY <1>1, <1>3, <1>4, <1>7 DEF Recycled!Use
<1> QED
  BY <1>8 DEF Recycled!Next

LEMMA RecycleStep ==
  ASSUME NetInv, DeleteNext
  PROVE  [Recycled!Next]_(Recycled!rvars)
<1>1. Held' = Held
  BY HeldSame DEF DeleteNext
<1>2. net'.reads = net.reads
  BY DeleteStep
<1>3. CASE net'.closing = net.closing
  BY <1>1, <1>2, <1>3 DEF Recycled!rvars
<1>4. ASSUME NEW s \in Session, Recycles(s)
      PROVE  Recycled!Next
  <2>1. Recycled!Recycle(s)
    BY <1>1, <1>2, <1>4 DEF Recycles, InClosing, Held, Recycled!Recycle
  <2> QED
    BY <2>1 DEF Recycled!Next
<1> QED
  BY <1>3, <1>4, DeleteStep

LEMMA StutterStep ==
  ASSUME NetInv,
         \/ \E k \in 0 .. Cardinality(Session) : LoopBegin(k)
         \/ ControlEmpty \/ ActivateWrites \/ DeleteEnd \/ NoEvent
  PROVE  UNCHANGED Recycled!rvars
<1>1. UNCHANGED <<control, readQ, writeQ, worker, task>>
  BY DEF LoopBegin, ControlEmpty, ActivateWrites, DeleteEnd, NoEvent
<1>2. net'.reads = net.reads /\ net'.closing = net.closing
  BY LoopBeginStep, ServerMoves, ActivateStep
<1> QED
  BY <1>1, <1>2, HeldSame DEF Recycled!rvars

LEMMA RecyclingStep ==
  ASSUME NetInv, [Next]_vars
  PROVE  [Recycled!Next]_(Recycled!rvars)
<1>1. CASE ServerStep
  BY <1>1, ReportStep, RecycleStep, StutterStep DEF ServerStep
<1>2. CASE AcceptEvent
  BY <1>2, OpenStep
<1>3. CASE \E f \in Fd : ReadEvent(f) \/ WriteEvent(f)
  BY <1>3, UseEvent
<1>4. ASSUME NEW w \in Workers, WorkerStep(w)
      PROVE  [Recycled!Next]_(Recycled!rvars)
  BY <1>4, WorkerHandles, ReleaseStep
<1>5. CASE TaskStep
  BY <1>5, TaskHandles, ReleaseStep
<1>6. CASE UNCHANGED vars
  BY <1>6, HeldSame DEF vars, Recycled!rvars
<1> QED
  BY <1>1, <1>2, <1>3, <1>4, <1>5, <1>6 DEF Next

LEMMA RecyclingInit == Init => Recycled!Init
<1> SUFFICES ASSUME Init
             PROVE  Recycled!Init
  OBVIOUS
<1>1. net.reads = [f \in Fd |-> None] /\ net.closing = <<>>
  BY DEF Init
<1>2. ToSet(<<>>) = {}
  BY DEF ToSet
<1>3. Held = {}
  <2>1. /\ control = <<>> /\ readQ = <<>> /\ writeQ = <<>> /\ task.s = None
        /\ \A w \in Workers : worker[w].s = None
    BY DEF Init
  <2> QED
    BY <1>2, <2>1, NetAssumption DEF Held, Referenced, Writing
<1> QED
  BY <1>1, <1>2, <1>3 DEF Recycled!Init

(***************************************************************************)
(* However many threads work on them, session objects are recycled one     *)
(* connection at a time: an object that still is in a queue or with a      *)
(* thread is not given to another connection, and the number of a closed   *)
(* socket that the kernel hands out again ends the connection that had it  *)
(* -- under the same assumption about the delayed delete.                  *)
(***************************************************************************)
THEOREM SessionsAreRecycled ==
  ASSUME NoGapRace
  PROVE  Spec => RecyclingSpec
<1>1. NetInv /\ [Next]_vars => [Recycled!Next]_(Recycled!rvars)
  BY RecyclingStep
<1>2. Spec => []NetInv
  BY SessionsAreSound
<1> QED
  BY <1>1, <1>2, RecyclingInit, PTL DEF Spec, RecyclingSpec, Recycled!Spec

=============================================================================
