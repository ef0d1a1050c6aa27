---------------------------- MODULE RemoteProofs ----------------------------
(***************************************************************************)
(* Proofs about Remote: what the internal protocol writes is what it reads *)
(* again, so that what Bidding's proofs say of a request holds for the one *)
(* that the adapter has.                                                   *)
(***************************************************************************)
EXTENDS Remote, BiddingProofs, SequenceTheorems

(* A set that is written as a list has the same elements. *)
LEMMA ListFact ==
  ASSUME NEW S, IsFiniteSet(S)
  PROVE  /\ SetToSeq(S) \in Seq(S)
         /\ ToSet(SetToSeq(S)) = S
<1> DEFINE n == Cardinality(S)
           P(f) == f \in [1 .. n -> S] /\ IsInjective(f)
           list == SetToSeq(S)
<1>1. n \in Nat /\ IsFiniteSet(1 .. n) /\ Cardinality(1 .. n) = n
  <2>1. n \in Nat
    BY FS_CardinalityType
  <2> QED
    BY <2>1, FS_Interval
<1>2. \E f : P(f)
  <2>1. PICK m \in Nat : ExistsBijection(1 .. m, S)
    BY FS_NatBijection
  <2>2. m = n
    BY <2>1, FS_CountingElements
  <2> QED
    BY <2>1, <2>2 DEF ExistsBijection, Bijection, Injection
<1>3. list = CHOOSE f : P(f)
  BY DEF SetToSeq
<1> HIDE DEF P
<1>4. P(list)
  BY <1>2, <1>3
<1> USE DEF P
<1>5. list \in [1 .. n -> S] /\ list \in Injection(1 .. n, S)
  BY <1>4 DEF Injection
<1>6. list \in Surjection(1 .. n, S)
  BY <1>1, <1>5, FS_Injection
<1> HIDE DEF n, list
<1>7. list \in Seq(S)
  BY <1>1, <1>5
<1>8. ToSet(list) = S
  BY <1>5, <1>6 DEF ToSet, Surjection
<1> QED
  BY <1>7, <1>8 DEF list

(* What a concatenation holds. *)
LEMMA ConcatFact ==
  ASSUME NEW X, NEW s \in Seq(X), NEW t \in Seq(X)
  PROVE  s \o t \in Seq(X) /\ ToSet(s \o t) = ToSet(s) \cup ToSet(t)
<1>1. s \o t \in Seq(X)
  OBVIOUS
<1>2. Range(s \o t) = Range(s) \cup Range(t)
  BY RangeConcatenation
<1> QED
  BY <1>1, <1>2 DEF Range, ToSet

(* What a flattened sequence of sequences holds. *)
LEMMA FlattenFact ==
  ASSUME NEW X, NEW seqs \in Seq(Seq(X))
  PROVE  /\ FlattenSeq(seqs) \in Seq(X)
         /\ ToSet(FlattenSeq(seqs)) = UNION {ToSet(seqs[i]) : i \in DOMAIN seqs}
<1> DEFINE n == Len(seqs)
           E(f) == f = [i \in 1 .. n |-> IF i = 1 THEN seqs[i] ELSE f[i - 1] \o seqs[i]]
<1>1. n \in Nat /\ DOMAIN seqs = 1 .. n /\ \A i \in 1 .. n : seqs[i] \in Seq(X)
  OBVIOUS
<1>2. CASE n = 0
  <2>1. seqs = <<>>
    BY <1>2
  <2>2. FlattenSeq(seqs) = <<>>
    BY <1>2, <2>1 DEF FlattenSeq
  <2> QED
    BY <1>1, <1>2, <2>2 DEF ToSet
<1>3. CASE n # 0
  <2> DEFINE S == Seq(X)
             step == [p \in (1 .. n) \X S |-> p[2] \o seqs[p[1]]]
  <2>1. step \in [(1 .. n) \X S -> S] /\ <<>> \in S
    BY <1>1
  <2>2. \A i \in 1 .. n : \A x \in S : step[<<i, x>>] = x \o seqs[i]
    OBVIOUS
  <2> HIDE DEF step, n
  <2>3. PICK f \in [0 .. n -> S] : Steps(n, <<>>, step, f)
    BY <1>1, <2>1, Recursion
  <2>4. \E g : E(g)
    <3> DEFINE g == [i \in 1 .. n |-> f[i]]
    <3>1. ASSUME NEW i \in 1 .. n
          PROVE  g[i] = IF i = 1 THEN seqs[i] ELSE g[i - 1] \o seqs[i]
      <4>1. i \in 0 .. n /\ i # 0 /\ i - 1 \in 0 .. n /\ f[i - 1] \in S /\ f[0] = <<>>
        BY <1>1, <2>3 DEF Steps
      <4>2. f[i] = f[i - 1] \o seqs[i]
        BY <2>2, <2>3, <4>1 DEF Steps
      <4>3. CASE i = 1
        <5>1. seqs[i] \in Seq(X) /\ f[i - 1] = <<>>
          BY <1>1, <4>1, <4>3
        <5>2. f[i] = seqs[i]
          BY <4>2, <5>1, ConcatEmptySeq
        <5> QED
          BY <4>3, <5>2
      <4>4. CASE i # 1
        <5>1. i - 1 \in 1 .. n
          BY <1>1, <4>4
        <5> QED
          BY <4>2, <4>4, <5>1
      <4> QED
        BY <4>3, <4>4
    <3> HIDE DEF E
    <3>2. g = [i \in 1 .. n |-> IF i = 1 THEN seqs[i] ELSE g[i - 1] \o seqs[i]]
      BY <3>1
    <3> QED
      BY <3>2 DEF E
  <2> DEFINE F == CHOOSE g : E(g)
  <2>5. FlattenSeq(seqs) = F[n]
    BY <1>3 DEF FlattenSeq, n
  <2> HIDE DEF E
  <2>6. E(F)
    BY <2>4
  <2> HIDE DEF F
  <2>7. \A i \in 1 .. n : F[i] = IF i = 1 THEN seqs[i] ELSE F[i - 1] \o seqs[i]
    BY <2>6 DEF E
  <2> DEFINE T == {i \in 0 .. n : i # 0 =>
                     /\ F[i] \in Seq(X)
                     /\ ToSet(F[i]) = UNION {ToSet(seqs[j]) : j \in 1 .. i}}
  <2>8. 0 \in T
    BY <1>1
  <2>9. ASSUME NEW i \in 0 .. n - 1, i \in T
        PROVE  i + 1 \in T
    <3>1. i + 1 \in 1 .. n /\ i + 1 \in 0 .. n /\ i + 1 # 0 /\ i + 1 - 1 = i
      BY <1>1
    <3>2. CASE i = 0
      <4>1. F[i + 1] = seqs[i + 1]
        BY <2>7, <3>1, <3>2
      <4>2. 1 .. i + 1 = {i + 1}
        BY <3>2
      <4> QED
        BY <1>1, <3>1, <4>1, <4>2
    <3>3. CASE i # 0
      <4>1. F[i + 1] = F[i] \o seqs[i + 1]
        <5>1. F[i + 1] = IF i + 1 = 1 THEN seqs[i + 1] ELSE F[i + 1 - 1] \o seqs[i + 1]
          BY <2>7, <3>1
        <5>2. i + 1 # 1
          BY <3>3
        <5> QED
          BY <3>1, <5>1, <5>2
      <4>2. F[i] \in Seq(X) /\ ToSet(F[i]) = UNION {ToSet(seqs[j]) : j \in 1 .. i}
        BY <2>9, <3>3
      <4>3. F[i + 1] \in Seq(X) /\ ToSet(F[i + 1]) = ToSet(F[i]) \cup ToSet(seqs[i + 1])
        <5>1. seqs[i + 1] \in Seq(X)
          BY <1>1, <3>1
        <5> QED
          BY <4>1, <4>2, <5>1, ConcatFact
      <4>4. 1 .. i + 1 = (1 .. i) \cup {i + 1}
        BY <3>1
      <4> QED
        BY <3>1, <4>2, <4>3, <4>4
    <3> QED
      BY <3>2, <3>3
  <2> HIDE DEF T
  <2>10. \A i \in 0 .. n : i \in T
    BY <1>1, <2>8, <2>9, Upwards
  <2>11. n \in T
    BY <1>1, <2>10
  <2> QED
    BY <1>1, <1>3, <2>5, <2>11 DEF T
<1> QED
  BY <1>2, <1>3

(* A set of numbers up to N has a greatest one. *)
LEMMA Greatest ==
  ASSUME NEW N \in Nat, NEW T, T \subseteq 0 .. N, T # {}
  PROVE  \E n \in T : \A m \in T : m <= n
<1> DEFINE U == {N - m : m \in T}
<1>1. U \subseteq Nat /\ U # {}
  <2>1. \A m \in T : m \in 0 .. N /\ N - m \in Nat
    OBVIOUS
  <2> QED
    BY <2>1
<1>2. PICK k \in U : \A j \in U : k <= j
  BY <1>1, Least
<1>3. PICK n \in T : k = N - n
  BY <1>2
<1>4. ASSUME NEW m \in T
      PROVE  m <= n
  <2>1. N - n <= N - m /\ m \in Int /\ n \in Int
    BY <1>2, <1>3
  <2> QED
    BY <2>1
<1> QED
  BY <1>4
-----------------------------------------------------------------------------
(* What is written.                                                        *)

\* every field of r that `order' names has a kind, and a list of its values
Writable(r, order) ==
  /\ order \in Seq(Strings \cup Lists \cup {"crowd"})
  /\ \A key \in ToSet(order) :
       /\ key \in Lists => IsFiniteSet(r[key])
       /\ key = "crowd" => r[key] \in Seq(ToSet(r[key]))

\* the fields of a member
Members(r, key) ==
  {Field(key, v) : v \in
     IF key \in Strings THEN {r[key]} \ {Blank[key]}
     ELSE IF key = "crowd" THEN ToSet(r[key]) ELSE r[key]}

\* the fields in the packet
AllMembers(r, order) == UNION {Members(r, key) : key \in ToSet(order)}

(* A field is of one kind. *)
LEMMA KindsFact == Strings \cap Lists = {} /\ "crowd" \notin Strings \cup Lists /\ "adx" \notin Strings \cup Lists
BY DEF Strings, Lists

(* What is written of one field are its members. *)
LEMMA WrittenFact ==
  ASSUME NEW r, NEW key \in Strings \cup Lists \cup {"crowd"},
         key \in Lists => IsFiniteSet(r[key]),
         key = "crowd" => r[key] \in Seq(ToSet(r[key]))
  PROVE  /\ Written(r, key) \in Seq(Members(r, key))
         /\ ToSet(Written(r, key)) = Members(r, key)
<1>1. CASE key \in Strings
  <2>1. CASE r[key] = Blank[key]
    <3>1. Written(r, key) = <<>> /\ Members(r, key) = {}
      BY <1>1, <2>1 DEF Written, Members
    <3> QED
      BY <3>1 DEF ToSet
  <2>2. CASE r[key] # Blank[key]
    <3>1. Written(r, key) = <<Field(key, r[key])>>
      BY <1>1, <2>2 DEF Written
    <3>2. Members(r, key) = {Field(key, r[key])}
      BY <1>1, <2>2 DEF Members
    <3> QED
      BY <3>1, <3>2 DEF ToSet
  <2> QED
    BY <2>1, <2>2
<1>2. CASE key \notin Strings
  <2> DEFINE list == IF key = "crowd" THEN r[key] ELSE SetToSeq(r[key])
             S == IF key = "crowd" THEN ToSet(r[key]) ELSE r[key]
             w == [i \in DOMAIN list |-> Field(key, list[i])]
  <2>1. list \in Seq(S) /\ ToSet(list) = S
    <3>1. CASE key = "crowd"
      BY <3>1
    <3>2. CASE key # "crowd"
      BY <1>2, <3>2, ListFact
    <3> QED
      BY <3>1, <3>2
  <2>2. Written(r, key) = w
    BY <1>2 DEF Written
  <2>3. Members(r, key) = {Field(key, v) : v \in S}
    BY <1>2 DEF Members
  <2> HIDE DEF list, S
  <2>4. DOMAIN list = 1 .. Len(list) /\ Len(list) \in Nat
    BY <2>1
  <2>5. \A i \in 1 .. Len(list) : list[i] \in S
    BY <2>1, <2>4
  <2>6. \A v \in S : \E i \in 1 .. Len(list) : list[i] = v
    BY <2>1, <2>4 DEF ToSet
  <2>7. w = [i \in 1 .. Len(list) |-> Field(key, list[i])]
    BY <2>4
  <2>8. w \in Seq(Members(r, key))
    BY <2>3, <2>4, <2>5, <2>7
  <2>9. ToSet(w) = Members(r, key)
    BY <2>3, <2>4, <2>5, <2>6, <2>7 DEF ToSet
  <2> QED
    BY <2>2, <2>8, <2>9
<1> QED
  BY <1>1, <1>2

(* What is written of all fields are their members. *)
LEMMA BodyFact ==
  ASSUME NEW r, NEW order, Writable(r, order)
  PROVE  /\ Body(r, order) \in Seq(AllMembers(r, order))
         /\ ToSet(Body(r, order)) = AllMembers(r, order)
<1> DEFINE X == AllMembers(r, order)
           seqs == [i \in DOMAIN order |-> Written(r, order[i])]
<1>1. /\ order \in Seq(Strings \cup Lists \cup {"crowd"})
      /\ Len(order) \in Nat /\ DOMAIN order = 1 .. Len(order)
  BY DEF Writable
<1>2. ASSUME NEW i \in DOMAIN order
      PROVE  /\ Written(r, order[i]) \in Seq(Members(r, order[i]))
             /\ ToSet(Written(r, order[i])) = Members(r, order[i])
             /\ order[i] \in ToSet(order)
  <2>1. order[i] \in ToSet(order) /\ order[i] \in Strings \cup Lists \cup {"crowd"}
    BY <1>1 DEF ToSet
  <2> QED
    BY <2>1, WrittenFact DEF Writable
<1>3. ASSUME NEW i \in DOMAIN order
      PROVE  Written(r, order[i]) \in Seq(X)
  <2>1. Members(r, order[i]) \subseteq X
    BY <1>2 DEF AllMembers
  <2> QED
    BY <1>2, <2>1, SeqMonotonic
<1>4. seqs \in Seq(Seq(X))
  <2> HIDE DEF X
  <2> QED
    BY <1>1, <1>3
<1>5. FlattenSeq(seqs) \in Seq(X) /\ ToSet(FlattenSeq(seqs)) = UNION {ToSet(seqs[i]) : i \in DOMAIN seqs}
  <2> HIDE DEF X, seqs
  <2> QED
    BY <1>4, FlattenFact
<1>6. UNION {ToSet(seqs[i]) : i \in DOMAIN seqs} = UNION {Members(r, order[i]) : i \in DOMAIN order}
  BY <1>2
<1>7. UNION {Members(r, order[i]) : i \in DOMAIN order} = X
  BY DEF AllMembers, ToSet
<1> QED
  BY <1>5, <1>6, <1>7 DEF Body

(* The length of a body is a number.                                       *)
LEMMA SizeFact ==
  ASSUME NEW X, NEW body \in Seq(X), \A x \in X : Bytes(x) \in Nat
  PROVE  Size(body) \in Nat /\ (body = <<>> => Size(body) = 0)
<1> DEFINE n == Len(body)
           P(f) == f = [i \in 0 .. n |-> IF i = 0 THEN 0 ELSE f[i - 1] + Bytes(body[i])]
           step == [p \in (1 .. n) \X Nat |-> p[2] + Bytes(body[p[1]])]
           F == CHOOSE f : P(f)
<1>1. n \in Nat /\ \A i \in 1 .. n : Bytes(body[i]) \in Nat
  OBVIOUS
<1>2. step \in [(1 .. n) \X Nat -> Nat]
  BY <1>1
<1>3. \A i \in 1 .. n : \A x \in Nat : step[<<i, x>>] = x + Bytes(body[i])
  OBVIOUS
<1>4. Size(body) = F[n]
  BY DEF Size
<1> HIDE DEF step, n
<1>5. PICK f \in [0 .. n -> Nat] : Steps(n, 0, step, f)
  BY <1>1, <1>2, Recursion
<1>6. P(f)
  <2>1. ASSUME NEW i \in 0 .. n
        PROVE  f[i] = IF i = 0 THEN 0 ELSE f[i - 1] + Bytes(body[i])
    <3>1. f[i] = IF i = 0 THEN 0 ELSE step[<<i, f[i - 1]>>]
      BY <1>5 DEF Steps
    <3>2. i # 0 => i \in 1 .. n /\ f[i - 1] \in Nat
      BY <1>1
    <3> QED
      BY <1>3, <3>1, <3>2
  <2> QED
    BY <2>1
<1> HIDE DEF P
<1>7. P(F)
  BY <1>6
<1> HIDE DEF F
<1>8. \A i \in 0 .. n : F[i] = IF i = 0 THEN 0 ELSE F[i - 1] + Bytes(body[i])
  BY <1>7 DEF P
<1> DEFINE T == {i \in 0 .. n : F[i] \in Nat}
<1>9. 0 \in T /\ F[0] = 0
  BY <1>1, <1>8
<1>10. ASSUME NEW i \in 0 .. n - 1, i \in T
       PROVE  i + 1 \in T
  <2>1. i + 1 \in 0 .. n /\ i + 1 \in 1 .. n /\ i + 1 # 0 /\ i + 1 - 1 = i /\ F[i] \in Nat
    BY <1>1, <1>10
  <2>2. F[i + 1] = F[i + 1 - 1] + Bytes(body[i + 1])
    BY <1>8, <2>1
  <2> QED
    BY <1>1, <2>1, <2>2
<1> HIDE DEF T
<1>11. \A i \in 0 .. n : i \in T
  BY <1>1, <1>9, <1>10, Upwards
<1>12. F[n] \in Nat
  BY <1>1, <1>11 DEF T
<1>13. body = <<>> => n = 0
  BY DEF n
<1> QED
  BY <1>4, <1>9, <1>12, <1>13

-----------------------------------------------------------------------------
(* What is read.                                                           *)

(* The buffer takes the longest part of a body that fits, and all of one   *)
(* that fits.                                                              *)
LEMMA UnpackedFact ==
  ASSUME NEW X, NEW body \in Seq(X)
  PROVE  /\ Unpacked(body) \in Seq(X)
         /\ Size(body) <= UnpackMax => Unpacked(body) = body
<1> DEFINE n == Len(body)
           whole == {k \in 0 .. n : Size(SubSeq(body, 1, k)) <= UnpackMax}
           P(k) == k \in whole /\ \A m \in whole : m <= k
           rest == CHOOSE k : P(k)
<1>1. n \in Nat /\ \A i \in 1 .. n : body[i] \in X
  OBVIOUS
<1>2. Unpacked(body) = SubSeq(body, 1, rest)
  BY DEF Unpacked
<1>3. 0 \in whole
  <2>1. SubSeq(body, 1, 0) = <<>>
    BY SubSeqEmpty
  <2>2. <<>> \in Seq({}) /\ \A x \in {} : Bytes(x) \in Nat
    OBVIOUS
  <2>3. Size(<<>>) = 0
    <3> DEFINE none == {}
    <3>1. <<>> \in Seq(none) /\ \A x \in none : Bytes(x) \in Nat
      BY <2>2
    <3> HIDE DEF none
    <3> QED
      BY <3>1, SizeFact
  <2>4. UnpackMax \in Nat
    BY RemoteAssumption
  <2>5. Size(SubSeq(body, 1, 0)) <= UnpackMax
    <3>1. Size(SubSeq(body, 1, 0)) = 0
      BY <2>1, <2>3, Zenon
    <3> QED
      BY <2>4, <3>1
  <2> QED
    BY <1>1, <2>5
<1>4. \E k \in whole : \A m \in whole : m <= k
  <2>1. whole \subseteq 0 .. n /\ whole # {}
    BY <1>3
  <2> HIDE DEF whole, n
  <2> QED
    BY <1>1, <2>1, Greatest
<1>5. \E k : P(k)
  BY <1>4
<1>6. P(rest)
  <2> HIDE DEF P
  <2> QED
    BY <1>5
<1>7. rest \in 0 .. n
  BY <1>6
<1>8. SubSeq(body, 1, rest) \in Seq(X)
  <2> HIDE DEF rest, n
  <2>1. rest \in Int /\ 1 \in Int /\ \A i \in 1 .. rest : body[i] \in X
    BY <1>1, <1>7
  <2> QED
    BY <2>1, SubSeqProperties
<1>9. ASSUME Size(body) <= UnpackMax
      PROVE  SubSeq(body, 1, rest) = body
  <2>1. SubSeq(body, 1, n) = body
    BY SubSeqFull
  <2>2. n \in whole
    <3>1. n \in 0 .. n
      BY <1>1
    <3>2. Size(SubSeq(body, 1, n)) <= UnpackMax
      BY <1>9, <2>1
    <3> HIDE DEF n
    <3> QED
      BY <3>1, <3>2
  <2>3. n <= rest
    BY <1>6, <2>2
  <2>4. rest = n
    <3> HIDE DEF rest, n
    <3> QED
      BY <1>1, <1>7, <2>3
  <2> QED
    BY <2>1, <2>4
<1> QED
  BY <1>2, <1>8, <1>9

(* What the parser leaves in a member, without the order of the fields.    *)
LEMMA AssignFact ==
  ASSUME NEW X, NEW fields \in Seq(X), NEW old, NEW key
  PROVE  /\ key \in Lists =>
              Assign(old, key, fields) = old \cup {f.value : f \in {g \in ToSet(fields) : g.key = key}}
         /\ key \in Strings =>
              IF \E f \in ToSet(fields) : f.key = key
              THEN \E f \in ToSet(fields) : f.key = key /\ Assign(old, key, fields) = f.value
              ELSE Assign(old, key, fields) = old
         /\ key \notin Strings \cup Lists => Assign(old, key, fields) = old
<1> DEFINE at == {i \in DOMAIN fields : fields[i].key = key}
           n == Len(fields)
<1>1. n \in Nat /\ DOMAIN fields = 1 .. n
  OBVIOUS
<1>2. ASSUME key \in Lists
      PROVE  Assign(old, key, fields) = old \cup {f.value : f \in {g \in ToSet(fields) : g.key = key}}
  <2>1. key \notin Strings
    BY <1>2, KindsFact
  <2>2. Assign(old, key, fields) = old \cup {fields[i].value : i \in at}
    BY <1>2, <2>1 DEF Assign
  <2> QED
    BY <2>2 DEF ToSet
<1>3. ASSUME key \in Strings
      PROVE  IF at # {} THEN \E i \in at : Assign(old, key, fields) = fields[i].value
             ELSE Assign(old, key, fields) = old
  <2>1. key \notin Lists
    BY <1>3, KindsFact
  <2>2. CASE at = {}
    BY <1>3, <2>1, <2>2 DEF Assign
  <2>3. CASE at # {}
    <3> DEFINE P(k) == k \in at /\ \A m \in at : k >= m
    <3>1. at \subseteq 0 .. n
      BY <1>1
    <3>2. \E k \in at : \A m \in at : m <= k
      <4> HIDE DEF at, n
      <4> QED
        BY <1>1, <2>3, <3>1, Greatest
    <3>3. \E k : P(k)
      <4>1. \A k, m \in at : m <= k => k >= m
        OBVIOUS
      <4> QED
        BY <3>2, <4>1
    <3>4. Max(at) = CHOOSE k : P(k)
      BY DEF Max
    <3> HIDE DEF P
    <3>5. P(Max(at))
      BY <3>3, <3>4
    <3>6. Max(at) \in at
      BY <3>5 DEF P
    <3>7. Assign(old, key, fields) = fields[Max(at)].value
      BY <1>3, <2>1, <2>3 DEF Assign
    <3> QED
      BY <2>3, <3>6, <3>7
  <2> QED
    BY <2>2, <2>3
<1>4. ASSUME key \notin Strings \cup Lists
      PROVE  Assign(old, key, fields) = old
  BY <1>4 DEF Assign
<1>5. \A f : f \in ToSet(fields) /\ f.key = key <=> \E i \in at : f = fields[i]
  BY DEF ToSet
<1> HIDE DEF at
<1>6. ASSUME key \in Strings
      PROVE  IF \E f \in ToSet(fields) : f.key = key
             THEN \E f \in ToSet(fields) : f.key = key /\ Assign(old, key, fields) = f.value
             ELSE Assign(old, key, fields) = old
  BY <1>3, <1>5, <1>6
<1> QED
  BY <1>2, <1>4, <1>6

(* What comes out of a packet for a member of r: for a body that fits, all *)
(* that r has there; else no more than that.                               *)
LEMMA DecodeFact ==
  ASSUME NEW r, NEW order, Writable(r, order), NEW none
  PROVE  LET d == Decode(none, Packet(r, Body(r, order)))
             fits == Size(Body(r, order)) <= UnpackMax
         IN /\ d = [key \in DOMAIN none |-> d[key]]
            /\ "adx" \in DOMAIN none => d["adx"] = r.adx
            /\ \A key \in DOMAIN none \ {"adx"} :
                 /\ key \in Lists => d[key] \subseteq none[key] \cup r[key]
                 /\ key \notin ToSet(order) => d[key] = none[key]
                 /\ key \notin Strings \cup Lists => d[key] = none[key]
                 /\ key \in Strings /\ key \in ToSet(order) /\ fits =>
                      d[key] = IF r[key] = Blank[key] THEN none[key] ELSE r[key]
                 /\ key \in Lists /\ key \in ToSet(order) /\ fits => d[key] = none[key] \cup r[key]
<1> DEFINE X == AllMembers(r, order)
           body == Body(r, order)
           packet == Packet(r, body)
           d == Decode(none, packet)
           got == Unpacked(body)
           n == IF Len(got) < Len(body) THEN Len(got) ELSE Len(body)
           read == SubSeq(got, 1, n)
           fits == Size(body) <= UnpackMax
<1>1. body \in Seq(X) /\ ToSet(body) = X
  BY BodyFact
<1>2. packet.adx = r.adx /\ packet.total = Len(body) /\ packet.body = body
  BY DEF Packet
<1>3. d = [key \in DOMAIN none |-> IF key = "adx" THEN r.adx ELSE Assign(none[key], key, read)]
  BY <1>2 DEF Decode
<1> HIDE DEF X, body, d
<1>4. got \in Seq(X) /\ (fits => got = body)
  BY <1>1, UnpackedFact
<1>5. Len(got) \in Nat /\ Len(body) \in Nat /\ n \in 0 .. Len(got)
  BY <1>1, <1>4
<1> HIDE DEF got
<1>6. read \in Seq(X)
  <2>1. n \in Int /\ \A i \in 1 .. n : got[i] \in X
    BY <1>4, <1>5
  <2> HIDE DEF n
  <2> QED
    BY <2>1, SubSeqProperties
<1>7. ToSet(read) \subseteq X
  <2> HIDE DEF read
  <2> QED
    BY <1>6 DEF ToSet
<1>8. fits => ToSet(read) = X
  <2> SUFFICES ASSUME fits PROVE ToSet(read) = X
    OBVIOUS
  <2>1. n = Len(body)
    BY <1>4
  <2>2. SubSeq(body, 1, Len(body)) = body
    BY <1>1, SubSeqFull
  <2> QED
    BY <1>1, <1>4, <2>1, <2>2
<1> HIDE DEF read, fits
<1>9. ASSUME NEW f \in X
      PROVE  /\ f.key \in ToSet(order)
             /\ f.key \in Strings => f.value = r[f.key] /\ r[f.key] # Blank[f.key]
             /\ f.key \in Lists => f.value \in r[f.key]
  <2>1. PICK key \in ToSet(order) : f \in Members(r, key)
    BY DEF X, AllMembers
  <2>2. f.key = key /\ f.value \in (IF key \in Strings THEN {r[key]} \ {Blank[key]}
                                    ELSE IF key = "crowd" THEN ToSet(r[key]) ELSE r[key])
    BY <2>1 DEF Members, Field
  <2> QED
    BY <2>1, <2>2, KindsFact
<1>10. ASSUME NEW key \in ToSet(order), key \in Strings, r[key] # Blank[key]
       PROVE  Field(key, r[key]) \in X
  BY <1>10 DEF X, AllMembers, Members
<1>11. ASSUME NEW key \in ToSet(order), key \in Lists, NEW v \in r[key]
       PROVE  Field(key, v) \in X
  BY <1>11, KindsFact DEF X, AllMembers, Members
<1>12. \A key, v : Field(key, v).key = key /\ Field(key, v).value = v
  BY DEF Field
<1>13. ASSUME NEW key \in DOMAIN none \ {"adx"}
       PROVE  /\ key \in Lists => d[key] \subseteq none[key] \cup r[key]
              /\ key \notin ToSet(order) => d[key] = none[key]
              /\ key \notin Strings \cup Lists => d[key] = none[key]
              /\ key \in Strings /\ key \in ToSet(order) /\ fits =>
                   d[key] = IF r[key] = Blank[key] THEN none[key] ELSE r[key]
              /\ key \in Lists /\ key \in ToSet(order) /\ fits => d[key] = none[key] \cup r[key]
  <2>1. d[key] = Assign(none[key], key, read)
    BY <1>3
  <2> DEFINE values == {f.value : f \in {g \in ToSet(read) : g.key = key}}
  <2>2. key \in Lists => d[key] = none[key] \cup values
    BY <1>6, <2>1, AssignFact
  <2>3. key \in Strings =>
          IF \E f \in ToSet(read) : f.key = key
          THEN \E f \in ToSet(read) : f.key = key /\ d[key] = f.value
          ELSE d[key] = none[key]
    BY <1>6, <2>1, AssignFact
  <2>4. key \notin Strings \cup Lists => d[key] = none[key]
    BY <1>6, <2>1, AssignFact
  <2>5. key \in Lists => values \subseteq r[key]
    BY <1>7, <1>9
  <2>6. key \notin ToSet(order) => ~\E f \in ToSet(read) : f.key = key
    BY <1>7, <1>9
  <2>7. key \in Lists /\ key \in ToSet(order) /\ fits => r[key] \subseteq values
    BY <1>8, <1>11, <1>12
  <2>8. key \in Strings /\ key \in ToSet(order) /\ fits =>
          d[key] = IF r[key] = Blank[key] THEN none[key] ELSE r[key]
    BY <1>8, <1>9, <1>10, <1>12, <2>3
  <2>9. key \notin ToSet(order) => d[key] = none[key]
    BY <2>2, <2>3, <2>4, <2>6
  <2> HIDE DEF values
  <2> QED
    BY <2>2, <2>4, <2>5, <2>7, <2>8, <2>9
<1>14. d = [key \in DOMAIN none |-> d[key]] /\ ("adx" \in DOMAIN none => d["adx"] = r.adx)
  BY <1>3
<1> QED
  BY <1>13, <1>14 DEF d, fits, body

-----------------------------------------------------------------------------
(* Requests.                                                               *)

\* what RequestOrder writes, the exchange apart
RequestKeys ==
  {"flow", "pid", "sites", "size", "url", "view", "type", "creates", "crowd", "categories",
   "ua", "sensitive", "floor", "operator", "device", "connect", "ids"}

(* Each is written, and of a kind. *)
LEMMA RequestOrderFact ==
  /\ RequestOrder \in Seq(Strings \cup Lists \cup {"crowd"})
  /\ ToSet(RequestOrder) = RequestKeys
<1>1. RequestOrder \in Seq(Strings \cup Lists \cup {"crowd"})
  BY DEF RequestOrder, Strings, Lists
<1>2. DOMAIN RequestOrder = 1 .. 18
  BY DEF RequestOrder
<1>3. ToSet(RequestOrder) = {RequestOrder[i] : i \in 1 .. 18}
  BY <1>2 DEF ToSet
<1>4. \A i \in 1 .. 18 : RequestOrder[i] \in RequestKeys
  BY DEF RequestOrder, RequestKeys
<1>5. ASSUME NEW key \in RequestKeys
      PROVE  \E i \in 1 .. 18 : RequestOrder[i] = key
  <2>1. /\ RequestOrder[1] = "flow" /\ RequestOrder[3] = "pid" /\ RequestOrder[4] = "sites"
        /\ RequestOrder[5] = "size" /\ RequestOrder[6] = "url" /\ RequestOrder[7] = "view"
        /\ RequestOrder[8] = "type" /\ RequestOrder[9] = "creates" /\ RequestOrder[10] = "crowd"
        /\ RequestOrder[11] = "categories" /\ RequestOrder[12] = "ua"
        /\ RequestOrder[13] = "sensitive" /\ RequestOrder[14] = "floor"
        /\ RequestOrder[15] = "operator" /\ RequestOrder[16] = "device"
        /\ RequestOrder[17] = "connect" /\ RequestOrder[18] = "ids"
    BY DEF RequestOrder
  <2>2. {1, 3, 4, 5, 6, 7, 8, 9, 10, 11, 12, 13, 14, 15, 16, 17, 18} \subseteq 1 .. 18
    OBVIOUS
  <2> QED
    BY <2>1, <2>2 DEF RequestKeys
<1> QED
  BY <1>1, <1>3, <1>4, <1>5

(* The requests can be written in this order. *)
LEMMA RequestWritable ==
  ASSUME NEW q \in Requests
  PROVE  Writable(q, RequestOrder)
<1>1. "monitors" \notin RequestKeys
  BY DEF RequestKeys
<1>2. \A key \in Lists \ {"monitors"} : IsFiniteSet(q[key])
  BY RemoteAssumption
<1>3. q.crowd \in Seq(ToSet(q.crowd))
  BY BiddingAssumption DEF Legible
<1> QED
  BY <1>1, <1>2, <1>3, RequestOrderFact DEF Writable

\* the same request, as far as the filters look at it, for all areas
Alike(d, q) ==
  /\ d.area = ""
  /\ d.adx = q.adx /\ d.flow = q.flow /\ d.pid = q.pid /\ d.size = q.size
  /\ d.view = q.view /\ d.type = q.type /\ d.floor = q.floor
  /\ d.sites = q.sites /\ d.creates = q.creates /\ d.categories = q.categories
  /\ d.ua = q.ua /\ d.sensitive = q.sensitive /\ d.operator = q.operator
  /\ d.device = q.device /\ d.connect = q.connect

(* The request that a remote engine works on is one a filter can work on,  *)
(* and the one that was sent, if all of it arrived.                        *)
LEMMA RequestFact ==
  ASSUME NEW q \in Requests, NEW packet \in EncodeRequest(q)
  PROVE  /\ Legible(Decode(NoRequest, packet))
         /\ Arrives(q, RequestOrder) => Alike(Decode(NoRequest, packet), q)
<1> DEFINE d == Decode(NoRequest, packet)
           fits == Size(Body(q, RequestOrder)) <= UnpackMax
<1>1. packet = Packet(q, Body(q, RequestOrder))
  BY DEF EncodeRequest
<1>2. DOMAIN NoRequest = {"adx", "flow", "pid", "sites", "area", "size", "url", "view", "type",
        "creates", "crowd", "categories", "ua", "sensitive", "floor", "operator", "device",
        "connect", "ids"}
  BY DEF NoRequest
<1>3. /\ d["adx"] = q.adx
      /\ \A key \in DOMAIN NoRequest \ {"adx"} :
           /\ key \in Lists => d[key] \subseteq NoRequest[key] \cup q[key]
           /\ key \notin RequestKeys => d[key] = NoRequest[key]
           /\ key \notin Strings \cup Lists => d[key] = NoRequest[key]
           /\ key \in Strings /\ key \in RequestKeys /\ fits =>
                d[key] = IF q[key] = Blank[key] THEN NoRequest[key] ELSE q[key]
           /\ key \in Lists /\ key \in RequestKeys /\ fits => d[key] = NoRequest[key] \cup q[key]
  BY <1>1, <1>2, RequestWritable, RequestOrderFact, DecodeFact
<1> HIDE DEF d
<1> DEFINE strings == {"flow", "pid", "size", "view", "type", "floor"}
           lists == {"sites", "creates", "categories", "ua", "sensitive", "operator", "device", "connect"}
<1>4. /\ strings \subseteq Strings \cap RequestKeys \cap (DOMAIN NoRequest \ {"adx"})
      /\ lists \subseteq Lists \cap RequestKeys \cap (DOMAIN NoRequest \ {"adx"})
      /\ {"area", "crowd"} \subseteq DOMAIN NoRequest \ {"adx"}
      /\ "area" \notin RequestKeys /\ "crowd" \notin Strings \cup Lists
  BY <1>2 DEF Strings, Lists, RequestKeys
<1>5. /\ \A key \in strings : NoRequest[key] = Blank[key]
      /\ \A key \in lists : NoRequest[key] = {}
      /\ NoRequest["area"] = "" /\ NoRequest["crowd"] = <<>>
  BY DEF NoRequest, Blank
<1>6. d["area"] = "" /\ d["crowd"] = <<>> /\ \A key \in lists : d[key] \subseteq q[key]
  <2> HIDE DEF strings, lists, fits
  <2> QED
    BY <1>3, <1>4, <1>5
<1>7. Legible(d)
  <2>1. Legible(q)
    BY BiddingAssumption
  <2>2. d["sensitive"] \subseteq q["sensitive"] /\ d["categories"] \subseteq q["categories"]
    BY <1>6
  <2>3. <<>> \in Seq(ToSet(<<>>))
    OBVIOUS
  <2> QED
    BY <1>3, <1>6, <2>1, <2>2, <2>3 DEF Legible
<1>8. ASSUME fits
      PROVE  \A key \in strings \cup lists : d[key] = q[key]
  <2>1. \A key \in strings : d[key] = q[key]
    <3> HIDE DEF strings, lists
    <3> QED
      BY <1>3, <1>4, <1>5, <1>8
  <2>2. \A key \in lists : d[key] = q[key]
    <3> HIDE DEF strings, lists
    <3> QED
      BY <1>3, <1>4, <1>5, <1>8
  <2> QED
    BY <2>1, <2>2
<1>9. fits => Alike(d, q)
  BY <1>3, <1>6, <1>8 DEF Alike
<1> QED
  BY <1>7, <1>9 DEF Arrives, d

(* What the filters find depends on the fields that Alike lists.           *)
LEMMA AlikeFact ==
  ASSUME NEW d, NEW q, Alike(d, q), NEW o, "" \notin o.area, NEW now
  PROVE  /\ Suits(o, d, now) <=> All \in o.area /\ Suits(o, q, now)
         /\ Banned(o, d) <=> Banned(o, q)
<1>1. \A p : Asks(p, d) <=> Asks(p, q)
  BY DEF Alike, Asks
<1>2. Suits(o, d, now) <=> All \in o.area /\ Suits(o, q, now)
  BY <1>1 DEF Alike, Suits
<1>3. BanAsked(d) = BanAsked(q)
  BY DEF Alike, BanAsked
<1>4. LandingAsked(d) = LandingAsked(q) /\ TanxAsked(d) = TanxAsked(q)
  BY DEF Alike, LandingAsked, TanxAsked
<1> QED
  BY <1>2, <1>3, <1>4 DEF Banned

-----------------------------------------------------------------------------
(* The invariant: a thread bids for what came out of the packet of the     *)
(* request it was sent.                                                    *)

\* the thread bids for what it read of the request sent to it
Received(b) ==
  /\ sent[b] \in Requests
  /\ \E packet \in EncodeRequest(sent[b]) : bid[b].q = Decode(NoRequest, packet)

\* Bidding's invariant with it
RemoteInv ==
  /\ BidInv
  /\ sent = [b \in Bidders |-> sent[b]] /\ answer = [b \in Bidders |-> answer[b]]
  /\ \A b \in Bidders : bid[b].pc # "idle" => Received(b)

(* A step writes the bid of one thread. *)
LEMMA SetThread ==
  ASSUME BidInv, NEW b \in Bidders, NEW r, Set(b, r), NEW c \in Bidders
  PROVE  bid'[c] = IF c = b THEN r ELSE bid[c]
BY DEF BidInv, Set

(* A bid starts with what came out of the packet. *)
LEMMA RemoteStartStep ==
  ASSUME RemoteInv, NEW b \in Bidders, NEW q \in Requests, NEW book \in Plans, NEW now,
         RemoteStart(b, q, book, now)
  PROVE  RemoteInv'
<1>1. PICK packet \in EncodeRequest(q) : BidStart(b, Decode(NoRequest, packet), book, now)
  BY DEF RemoteStart
<1> DEFINE d == Decode(NoRequest, packet)
<1>2. Legible(d)
  BY RequestFact
<1> HIDE DEF d
<1>3. BidStart(b, d, book, now)
  BY <1>1 DEF d
<1>4. BidInv /\ BidInv'
  BY <1>2, <1>3, StartSane DEF RemoteInv
<1>5. /\ sent' = [sent EXCEPT ![b] = q]
      /\ answer' = [answer EXCEPT ![b] = NoResponse]
  BY DEF RemoteStart
<1>6. /\ sent' = [c \in Bidders |-> sent'[c]] /\ answer' = [c \in Bidders |-> answer'[c]]
      /\ sent'[b] = q /\ \A c \in Bidders \ {b} : sent'[c] = sent[c]
  BY <1>5 DEF RemoteInv
<1>7. ASSUME NEW c \in Bidders, bid'[c].pc # "idle"
      PROVE  Received(c)'
  <2>1. CASE c = b
    <3> DEFINE found == StaticMatch(book, d, now)
               r == [NoBid EXCEPT !.pc = "realtime", !.q = d, !.book = book, !.now = now,
                                  !.res = found]
    <3>1. Set(b, NoBid) \/ Set(b, r)
      BY <1>3 DEF BidStart
    <3>2. NoBid.pc = "idle"
      BY DEF NoBid
    <3>3. r.q = d
      <4> HIDE DEF found
      <4> QED
        BY DEF NoBid
    <3> HIDE DEF r
    <3>4. bid'[b] = NoBid \/ bid'[b] = r
      BY <1>4, <3>1, SetThread
    <3>5. bid'[b].q = d
      BY <1>7, <2>1, <3>2, <3>3, <3>4
    <3> QED
      BY <1>6, <2>1, <3>5 DEF Received, d
  <2>2. CASE c # b
    <3>1. \E r : Set(b, r)
      BY <1>3 DEF BidStart
    <3>2. bid'[c] = bid[c]
      BY <1>4, <2>2, <3>1, SetThread
    <3>3. Received(c)
      BY <1>7, <3>2 DEF RemoteInv
    <3> QED
      BY <1>6, <2>2, <3>2, <3>3 DEF Received
  <2> QED
    BY <2>1, <2>2
<1> QED
  BY <1>4, <1>6, <1>7 DEF RemoteInv

(* A step that leaves the requests alone, and the thread with its own. *)
LEMMA KeepsRequest ==
  ASSUME RemoteInv, BidInv', NEW b \in Bidders, NEW r, Set(b, r), bid[b].pc # "idle",
         r.pc # "idle" => r.q = bid[b].q,
         UNCHANGED sent, answer' = [c \in Bidders |-> answer'[c]]
  PROVE  RemoteInv'
<1>1. \A c \in Bidders : bid'[c] = IF c = b THEN r ELSE bid[c]
  BY SetThread DEF RemoteInv
<1>2. ASSUME NEW c \in Bidders, bid'[c].pc # "idle"
      PROVE  Received(c)'
  <2>1. bid[c].pc # "idle" /\ bid'[c].q = bid[c].q
    BY <1>1, <1>2
  <2>2. Received(c)
    BY <2>1 DEF RemoteInv
  <2> QED
    BY <2>1, <2>2 DEF Received
<1> QED
  BY <1>2 DEF RemoteInv

(* The steps of the bid keep its request. *)
LEMMA RemoteOnStep ==
  ASSUME RemoteInv, NEW b \in Bidders, RemoteOn(b)
  PROVE  RemoteInv'
<1> DEFINE s == bid[b]
<1>1. /\ UNCHANGED <<sent, answer>> /\ BidInv /\ answer' = [c \in Bidders |-> answer'[c]]
      /\ DOMAIN s = Fields
  BY DEF RemoteOn, RemoteInv, BidInv, Sane
<1>2. NoBid.pc = "idle"
  BY DEF NoBid
<1>3. ASSUME BidInv', s.pc # "idle", NEW r, Set(b, r), r = NoBid \/ r.q = s.q
      PROVE  RemoteInv'
  BY <1>1, <1>2, <1>3, KeepsRequest
<1>4. ASSUME NEW held, BidRealTime(b, held)
      PROVE  RemoteInv'
  <2> DEFINE res == s.res \ held
             r == [s EXCEPT !.pc = "mark", !.res = res]
  <2>1. BidInv' /\ s.pc # "idle" /\ (Set(b, NoBid) \/ Set(b, r))
    BY <1>1, <1>4, RealTimeSane DEF BidRealTime
  <2> HIDE DEF res, s
  <2>2. r.q = s.q
    BY <1>1 DEF Fields
  <2> QED
    BY <1>3, <2>1, <2>2
<1>5. ASSUME NEW user \in Users, BidMark(b, user)
      PROVE  RemoteInv'
  <2> DEFINE res == MarkMatch(s.book, s.res, s.q, user)
             vip == IF user.ok THEN res \cap {user.eid} ELSE {}
             r == [s EXCEPT !.pc = "rank", !.res = res, !.vip = vip, !.user = user]
  <2>1. BidInv' /\ s.pc # "idle" /\ (Set(b, NoBid) \/ Set(b, r))
    BY <1>1, <1>5, MarkSane DEF BidMark
  <2> HIDE DEF res, vip, s
  <2>2. r.q = s.q
    BY <1>1 DEF Fields
  <2> QED
    BY <1>3, <2>1, <2>2
<1>6. ASSUME s.pc = "mark", BidLate(b)
      PROVE  RemoteInv'
  <2>1. BidInv' /\ Set(b, NoBid)
    BY <1>1, <1>6, NoBidSane, SetFact DEF BidLate
  <2> QED
    BY <1>3, <1>6, <2>1
<1>7. ASSUME BidRank(b)
      PROVE  RemoteInv'
  <2> DEFINE r(c, m) == [s EXCEPT !.pc = "offer",
                           !.offer = [unit |-> c.unit, price |-> c.price, material |-> m]]
  <2>1. BidInv' /\ s.pc # "idle"
    BY <1>1, <1>7, RankSane DEF BidRank
  <2>2. Set(b, NoBid) \/ \E c, m : Set(b, r(c, m))
    BY <1>7 DEF BidRank
  <2>3. ASSUME NEW c, NEW m
        PROVE  r(c, m).q = s.q
    <3> DEFINE offer == [unit |-> c.unit, price |-> c.price, material |-> m]
    <3> HIDE DEF s, offer
    <3> QED
      BY <1>1 DEF Fields, offer
  <2> HIDE DEF r, s
  <2> QED
    BY <1>3, <2>1, <2>2, <2>3
<1> QED
  BY <1>4, <1>5, <1>6, <1>7 DEF RemoteOn

(* The answer ends the bid. *)
LEMMA RemoteAnswerStep ==
  ASSUME RemoteInv, NEW b \in Bidders, RemoteAnswer(b)
  PROVE  RemoteInv'
<1>1. BidEnd(b) /\ UNCHANGED sent /\ (UNCHANGED answer \/ \E a : answer' = [answer EXCEPT ![b] = a])
  BY DEF RemoteAnswer
<1>2. answer' = [c \in Bidders |-> answer'[c]]
  BY <1>1 DEF RemoteInv
<1>3. bid[b].pc # "idle" /\ Set(b, NoBid) /\ NoBid.pc = "idle"
  BY <1>1 DEF BidEnd, NoBid
<1>4. BidInv'
  BY <1>3, NoBidSane, SetFact DEF RemoteInv
<1> QED
  BY <1>1, <1>2, <1>3, <1>4, KeepsRequest

(* So the invariant is inductive. *)
LEMMA RemoteInitial == RemoteInit => RemoteInv
<1> SUFFICES ASSUME RemoteInit PROVE RemoteInv
  OBVIOUS
<1>1. BidInv
  BY InitSane DEF RemoteInit
<1>2. \A b \in Bidders : bid[b].pc = "idle"
  BY DEF RemoteInit, BidInit, NoBid
<1> QED
  BY <1>1, <1>2 DEF RemoteInit, RemoteInv

LEMMA RemoteStep == RemoteInv /\ [RemoteNext]_remoteVars => RemoteInv'
<1> SUFFICES ASSUME RemoteInv, [RemoteNext]_remoteVars PROVE RemoteInv'
  OBVIOUS
<1>1. CASE UNCHANGED remoteVars
  BY <1>1 DEF remoteVars, RemoteInv, BidInv, Received
<1> QED
  BY <1>1, RemoteStartStep, RemoteOnStep, RemoteAnswerStep DEF RemoteNext

\* A remote thread's request is what its packet says, at any step of the bid.
THEOREM RemoteInvariant == RemoteSpec => []RemoteInv
BY RemoteInitial, RemoteStep, PTL DEF RemoteSpec

(* What arrived whole is the request itself, and can be filtered for. *)
LEMMA ReceivedFact ==
  ASSUME RemoteInv, NEW b \in Bidders, bid[b].pc # "idle"
  PROVE  /\ sent[b] \in Requests /\ Legible(sent[b]) /\ Legible(bid[b].q)
         /\ Arrives(sent[b], RequestOrder) => Alike(bid[b].q, sent[b])
<1>1. Received(b)
  BY DEF RemoteInv
<1> QED
  BY <1>1, RequestFact, BiddingAssumption DEF Received

(* The filters of a remote engine find what those of the adapter would,    *)
(* save for the area, whatever the lists of the request and the orders.    *)
THEOREM RemoteFiltersSuit == RemoteSpec => []RemoteSuits
<1>1. RemoteInv => RemoteSuits
  <2> SUFFICES ASSUME RemoteInv, NEW b \in Bidders,
                      bid[b].pc = "realtime", Arrives(sent[b], RequestOrder)
               PROVE  bid[b].res = {u \in DOMAIN bid[b].book :
                        LET o == bid[b].book[u]
                        IN All \in o.area /\ Suits(o, sent[b], bid[b].now) /\ ~Banned(o, sent[b])}
    BY DEF RemoteSuits
  <2> DEFINE s == bid[b]
  <2>1. Alike(s.q, sent[b]) /\ Legible(s.q)
    BY ReceivedFact
  <2>2. s.book \in Plans /\ s.res = StaticMatch(s.book, s.q, s.now)
    BY DEF RemoteInv, BidInv, Sane
  <2> HIDE DEF s
  <2>3. \A u \in DOMAIN s.book : Planned(s.book[u]) /\ "" \notin s.book[u].area
    BY <2>2, BiddingAssumption, RemoteAssumption
  <2>4. \A u \in DOMAIN s.book : Parameter(s.book[u], s.q, s.now) <=> Suits(s.book[u], s.q, s.now)
    BY <2>1, <2>3, ParameterSuits DEF Legible
  <2>5. \A u \in DOMAIN s.book :
          /\ Suits(s.book[u], s.q, s.now) <=>
               All \in s.book[u].area /\ Suits(s.book[u], sent[b], s.now)
          /\ Banned(s.book[u], s.q) <=> Banned(s.book[u], sent[b])
    BY <2>1, <2>3, AlikeFact
  <2> QED
    BY <2>2, <2>4, <2>5 DEF StaticMatch, s
<1> QED
  BY <1>1, RemoteInvariant, PTL

(* An offer of a remote engine is one for the adapter's request.           *)
THEOREM RemoteOffersFit == RemoteSpec => []OfferFitsRequest
<1>1. RemoteInv => OfferFitsRequest
  <2> SUFFICES ASSUME RemoteInv, NEW b \in Bidders,
                      bid[b].pc = "offer", Arrives(sent[b], RequestOrder)
               PROVE  LET q == sent[b]
                          offer == bid[b].offer
                      IN /\ offer.material.adx = q.adx /\ offer.material.size = q.size
                         /\ offer.material.cat \notin q.sensitive \cup q.categories
                         /\ \/ offer.price > q.floor
                            \/ offer.unit \in bid[b].vip
                            \/ q.flow = "video" /\ q.adx \in FloorFree
    BY DEF OfferFitsRequest
  <2> DEFINE s == bid[b]
  <2>1. OfferFact(s) /\ s.book \in Plans /\ s.res \subseteq StaticMatch(s.book, s.q, s.now)
    BY OfferHolds DEF RemoteInv, BidInv, Sane
  <2>2. Alike(s.q, sent[b]) /\ Legible(s.q)
    BY ReceivedFact
  <2> HIDE DEF s
  <2>3. /\ s.offer.unit \in StaticMatch(s.book, s.q, s.now)
        /\ s.offer.material \in Materials(s.book[s.offer.unit], s.q)
    BY <2>1 DEF OfferFact
  <2>4. Allowed(s.book[s.offer.unit], s.q, s.offer.material)
    BY <2>1, <2>2, <2>3, FoundOnes, AllowedFact
  <2>5. s.offer.material.adx = s.q.adx /\ s.offer.material.size = s.q.size
    BY <2>3 DEF Materials
  <2>6. s.offer.material.cat \notin s.q.sensitive \cup s.q.categories
    BY <2>4 DEF Allowed
  <2>7. s.offer.unit \in s.vip \/ s.offer.price > s.q.floor \/ (s.q.flow = "video" /\ s.q.adx \in FloorFree)
    <3>1. CASE s.vip # {}
      BY <2>1, <3>1 DEF OfferFact
    <3>2. CASE s.vip = {}
      <4>1. Worth(s.book, s.q, s.res, [unit |-> s.offer.unit, price |-> s.offer.price])
        BY <2>1, <3>2 DEF OfferFact
      <4>2. /\ Kept(s.book[s.offer.unit], s.q)
            /\ s.offer.price = Price(s.book[s.offer.unit], s.q)
        BY <4>1 DEF Worth
      <4> QED
        BY <4>2 DEF Kept
    <3> QED
      BY <3>1, <3>2
  <2> QED
    BY <2>2, <2>5, <2>6, <2>7 DEF Alike, s
<1> QED
  BY <1>1, RemoteInvariant, PTL

-----------------------------------------------------------------------------
(* Answers.                                                                *)

\* what ResponseOrder writes, the exchange apart
ResponseKeys == {"unit", "price", "cat", "html", "click", "monitors"}

(* Each is written, and of a kind. *)
LEMMA ResponseOrderFact ==
  /\ ResponseOrder \in Seq(Strings \cup Lists \cup {"crowd"})
  /\ ToSet(ResponseOrder) = ResponseKeys
<1>1. ResponseOrder \in Seq(Strings \cup Lists \cup {"crowd"})
  BY DEF ResponseOrder, Strings, Lists
<1>2. ToSet(ResponseOrder) = {ResponseOrder[i] : i \in 1 .. 6}
  BY DEF ResponseOrder, ToSet
<1>3. \A i \in 1 .. 6 : ResponseOrder[i] \in ResponseKeys
  BY DEF ResponseOrder, ResponseKeys
<1>4. ASSUME NEW key \in ResponseKeys
      PROVE  \E i \in 1 .. 6 : ResponseOrder[i] = key
  <2>1. /\ ResponseOrder[1] = "unit" /\ ResponseOrder[2] = "price" /\ ResponseOrder[3] = "cat"
        /\ ResponseOrder[4] = "html" /\ ResponseOrder[5] = "click" /\ ResponseOrder[6] = "monitors"
    BY DEF ResponseOrder
  <2>2. {1, 2, 3, 4, 5, 6} \subseteq 1 .. 6
    OBVIOUS
  <2> QED
    BY <2>1, <2>2 DEF ResponseKeys
<1> QED
  BY <1>1, <1>2, <1>3, <1>4

(* A response comes out of its packet as it went in, if all of it arrives. *)
LEMMA ResponseFact ==
  ASSUME NEW s, s.offer.material.html \in Nat, IsFiniteSet(s.offer.material.monitors)
  PROVE  LET r == Response(s)
         IN /\ Size(Body(r, ResponseOrder)) \in Nat
            /\ Size(Body(r, ResponseOrder)) <= UnpackMax =>
                 Decode(NoResponse, Packet(r, Body(r, ResponseOrder))) = r
<1> DEFINE r == Response(s)
           m == s.offer.material
           X == AllMembers(r, ResponseOrder)
           d == Decode(NoResponse, Packet(r, Body(r, ResponseOrder)))
           keys == {"adx"} \cup ResponseKeys
<1>1. DOMAIN NoResponse = keys
  BY DEF NoResponse, ResponseKeys
<1>2. r = [key \in keys |-> r[key]] /\ r["html"] = m.html /\ r["monitors"] = m.monitors
  <2> HIDE DEF m
  <2> QED
    BY DEF Response, NoResponse, ResponseKeys, m
<1> HIDE DEF r
<1>3. Writable(r, ResponseOrder)
  <2>1. "crowd" \notin ResponseKeys /\ \A key \in ResponseKeys \cap Lists : key = "monitors"
    BY DEF ResponseKeys, Lists
  <2> QED
    BY <1>2, <2>1, ResponseOrderFact DEF Writable
<1>4. ASSUME NEW f \in X
      PROVE  Bytes(f) \in Nat
  <2>1. PICK key \in ResponseKeys : f \in Members(r, key)
    BY ResponseOrderFact DEF AllMembers
  <2>2. f.key = key /\ (key = "html" => f.value = r["html"])
    BY <2>1 DEF Members, Field, Strings
  <2>3. key \notin {"url", "ids"}
    BY DEF ResponseKeys
  <2>4. KeyBytes \in Nat
    BY RemoteAssumption
  <2>5. f.key \in {"url", "ids", "html"} => f.value \in Nat
    BY <1>2, <2>2, <2>3
  <2> QED
    BY <2>4, <2>5 DEF Bytes
<1>5. Size(Body(r, ResponseOrder)) \in Nat
  BY <1>3, <1>4, BodyFact, SizeFact
<1>6. ASSUME Size(Body(r, ResponseOrder)) <= UnpackMax
      PROVE  d = r
  <2>1. /\ d = [key \in DOMAIN NoResponse |-> d[key]]
        /\ "adx" \in DOMAIN NoResponse => d["adx"] = r["adx"]
        /\ \A key \in DOMAIN NoResponse \ {"adx"} :
             /\ key \in Strings /\ key \in ResponseKeys =>
                  d[key] = IF r[key] = Blank[key] THEN NoResponse[key] ELSE r[key]
             /\ key \in Lists /\ key \in ResponseKeys => d[key] = NoResponse[key] \cup r[key]
    BY <1>3, <1>6, ResponseOrderFact, DecodeFact
  <2> HIDE DEF d
  <2>2. d = [key \in keys |-> d[key]] /\ d["adx"] = r["adx"]
    BY <1>1, <2>1
  <2>3. \A key \in ResponseKeys :
          /\ key \in DOMAIN NoResponse \ {"adx"}
          /\ key # "monitors" => key \in Strings
          /\ key # "monitors" => NoResponse[key] = Blank[key]
    <3>1. \A key \in ResponseKeys : key \in DOMAIN NoResponse \ {"adx"}
      BY <1>1 DEF ResponseKeys
    <3>2. \A key \in ResponseKeys : key # "monitors" => key \in Strings
      BY DEF ResponseKeys, Strings
    <3>3. \A key \in ResponseKeys : key # "monitors" => NoResponse[key] = Blank[key]
      <4>1. /\ NoResponse["unit"] = Blank["unit"] /\ NoResponse["price"] = Blank["price"]
            /\ NoResponse["cat"] = Blank["cat"] /\ NoResponse["html"] = Blank["html"]
            /\ NoResponse["click"] = Blank["click"]
        BY DEF NoResponse, Blank
      <4> QED
        BY <4>1 DEF ResponseKeys
    <3> QED
      BY <3>1, <3>2, <3>3
  <2>4. "monitors" \in Lists /\ NoResponse["monitors"] = {}
    BY DEF Lists, NoResponse
  <2>5. ASSUME NEW key \in ResponseKeys
        PROVE  d[key] = r[key]
    <3>1. CASE key = "monitors"
      BY <2>1, <2>3, <2>4, <3>1
    <3>2. CASE key # "monitors"
      BY <2>1, <2>3, <3>2
    <3> QED
      BY <3>1, <3>2
  <2>6. \A key \in keys : d[key] = r[key]
    BY <2>2, <2>5
  <2> HIDE DEF keys
  <2> QED
    BY <1>2, <2>2, <2>6
<1> QED
  BY <1>5, <1>6 DEF r, d

\* AnswerIsOffer of one step
Answered ==
  \A b \in Bidders :
    LET offered == Response(bid[b])
    IN bid[b].pc = "offer" /\ bid'[b].pc = "idle" /\ Arrives(offered, ResponseOrder) =>
         answer'[b] = offered

(* The step that ends a bid hands over its offer. *)
LEMMA AnswerStep == RemoteInv /\ [RemoteNext]_remoteVars => Answered
<1> SUFFICES ASSUME RemoteInv, [RemoteNext]_remoteVars, NEW b \in Bidders,
                    bid[b].pc = "offer", bid'[b].pc = "idle",
                    Arrives(Response(bid[b]), ResponseOrder)
             PROVE  answer'[b] = Response(bid[b])
  BY DEF Answered
<1> DEFINE s == bid[b]
           r == Response(s)
           body == Body(r, ResponseOrder)
<1>1. RemoteAnswer(b)
  <2>1. ASSUME NEW c \in Bidders, NEW t, Set(c, t)
        PROVE  c = b
    BY <2>1, SetThread DEF RemoteInv
  <2>2. ASSUME NEW c \in Bidders, NEW q, NEW book, NEW now, RemoteStart(c, q, book, now)
        PROVE  FALSE
    <3>1. bid[c].pc = "idle" /\ \E t : Set(c, t)
      BY <2>2 DEF RemoteStart, BidStart
    <3> QED
      BY <2>1, <3>1
  <2>3. ASSUME NEW c \in Bidders, RemoteOn(c)
        PROVE  FALSE
    <3>1. bid[c].pc # "offer" /\ \E t : Set(c, t)
      BY <2>3 DEF RemoteOn, BidRealTime, BidMark, BidLate, BidRank
    <3> QED
      BY <2>1, <3>1
  <2>4. ASSUME NEW c \in Bidders, RemoteAnswer(c)
        PROVE  c = b
    BY <2>1, <2>4 DEF RemoteAnswer, BidEnd
  <2>5. ~UNCHANGED remoteVars
    BY DEF remoteVars
  <2> QED
    BY <2>2, <2>3, <2>4, <2>5 DEF RemoteNext
<1>2. s.offer.material.html \in Nat /\ IsFiniteSet(s.offer.material.monitors)
  <2>1. OfferFact(s) /\ s.book \in Plans
    BY OfferHolds DEF RemoteInv, BidInv, Sane
  <2> HIDE DEF s
  <2>2. /\ s.offer.unit \in DOMAIN s.book
        /\ s.offer.material \in s.book[s.offer.unit].materials
    BY <2>1 DEF OfferFact, Materials
  <2> QED
    BY <2>1, <2>2, RemoteAssumption
<1>3. Size(body) \in Nat /\ Size(body) <= UnpackMax
  BY <1>2, ResponseFact DEF Arrives
<1>4. Decode(NoResponse, Packet(r, body)) = r
  BY <1>2, <1>3, ResponseFact
<1>5. UnpackMax \in Nat /\ PackMax \in Nat /\ UnpackMax <= PackMax
  BY RemoteAssumption
<1>6. EncodeResponse(r) = {Packet(r, body)}
  <2>1. ~(Size(body) > PackMax)
    <3> HIDE DEF body
    <3> QED
      BY <1>3, <1>5
  <2> QED
    BY <2>1 DEF EncodeResponse
<1>7. ~Torn(Packet(r, body).body)
  <2>1. Packet(r, body).body = body
    BY DEF Packet
  <2>2. ~(Size(body) > UnpackMax)
    <3> HIDE DEF body
    <3> QED
      BY <1>3, <1>5
  <2> QED
    BY <2>1, <2>2 DEF Torn
<1> HIDE DEF r, body
<1>8. answer' = [answer EXCEPT ![b] = Decode(NoResponse, Packet(r, body))]
  <2>1. LET packets == EncodeResponse(r)
        IN IF packets = {} THEN UNCHANGED answer
           ELSE \E packet \in packets :
                  \/ answer' = [answer EXCEPT ![b] = Decode(NoResponse, packet)]
                  \/ Torn(packet.body) /\ UNCHANGED answer
    BY <1>1 DEF RemoteAnswer, r
  <2> QED
    BY <1>6, <1>7, <2>1
<1>9. answer'[b] = r
  BY <1>4, <1>8 DEF RemoteInv
<1> QED
  BY <1>9 DEF r

(* The adapter reads the offer that the engine made, every monitor url     *)
(* included, unless it is longer than what is unpacked.                    *)
THEOREM AnswersAreOffers == RemoteSpec => AnswerIsOffer
<1>1. RemoteInv /\ [RemoteNext]_remoteVars => [Answered]_remoteVars
  BY AnswerStep
<1> QED
  BY <1>1, RemoteInvariant, PTL DEF RemoteSpec, AnswerIsOffer, Answered
=============================================================================
