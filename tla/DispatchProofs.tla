--------------------------- MODULE DispatchProofs ---------------------------
(***************************************************************************)
(* Proofs about Dispatch for any number of requests, parameters, engines   *)
(* and workers.                                                            *)
(***************************************************************************)
EXTENDS Dispatch, SequenceTheorems, FiniteSetTheorems, TLAPS

-----------------------------------------------------------------------------
(* What the operations of AdParaList do to the list as a set.              *)

LEMMA AppendFact ==
  ASSUME NEW S, NEW s \in Seq(S), NEW e \in S
  PROVE  /\ Append(s, e) \in Seq(S)
         /\ ToSet(Append(s, e)) = ToSet(s) \cup {e}
         /\ IsInjective(s) /\ e \notin ToSet(s) => IsInjective(Append(s, e))
<1>1. /\ Append(s, e) \in Seq(S)
      /\ Len(Append(s, e)) = Len(s) + 1
      /\ \A i \in 1 .. Len(s) : Append(s, e)[i] = s[i]
      /\ Append(s, e)[Len(s) + 1] = e
  BY AppendProperties
<1>2. DOMAIN Append(s, e) = 1 .. Len(s) + 1 /\ DOMAIN s = 1 .. Len(s) /\ Len(s) \in Nat
  BY <1>1, LenProperties
<1> DEFINE t == Append(s, e)
<1> HIDE DEF t
<1> QED
  BY <1>1, <1>2 DEF t, ToSet, IsInjective

LEMMA TailFact ==
  ASSUME NEW S, NEW s \in Seq(S), s # <<>>
  PROVE  /\ Tail(s) \in Seq(S)
         /\ Head(s) \in ToSet(s) /\ Head(s) \in S
         /\ IsInjective(s) => IsInjective(Tail(s)) /\ ToSet(Tail(s)) = ToSet(s) \ {Head(s)}
<1> DEFINE t == Tail(s)
           n == Len(s)
<1>1. /\ t \in Seq(S)
      /\ Head(s) \in S
      /\ Len(t) = n - 1
      /\ \A i \in 1 .. Len(t) : t[i] = s[i + 1]
  BY HeadTailProperties
<1>2. DOMAIN s = 1 .. n /\ n \in Nat /\ n > 0 /\ Head(s) = s[1]
  BY LenProperties, EmptySeq
<1>3. DOMAIN t = 1 .. n - 1 /\ \A i \in 1 .. n - 1 : t[i] = s[i + 1]
  BY <1>1, LenProperties
<1> HIDE DEF t, n
<1>4. IsInjective(s) => IsInjective(t)
  BY <1>2, <1>3 DEF IsInjective
<1>5. ASSUME IsInjective(s)
      PROVE  ToSet(t) = ToSet(s) \ {s[1]}
  <2>1. ASSUME NEW i \in 1 .. n - 1
        PROVE  t[i] \in ToSet(s) \ {s[1]}
    <3>1. t[i] = s[i + 1] /\ i + 1 \in 1 .. n /\ i + 1 # 1 /\ 1 \in 1 .. n
      BY <1>2, <1>3
    <3>2. s[i + 1] # s[1]
      BY <1>2, <1>5, <3>1 DEF IsInjective
    <3> QED
      BY <1>2, <3>1, <3>2 DEF ToSet
  <2>2. ASSUME NEW j \in 1 .. n, s[j] # s[1]
        PROVE  s[j] \in ToSet(t)
    <3>1. j - 1 \in 1 .. n - 1 /\ j - 1 + 1 = j
      BY <1>2, <2>2
    <3>2. t[j - 1] = s[j]
      BY <1>3, <3>1
    <3> QED
      BY <1>3, <3>1, <3>2 DEF ToSet
  <2>3. ToSet(t) \subseteq ToSet(s) \ {s[1]}
    BY <1>3, <2>1 DEF ToSet
  <2>4. ToSet(s) \ {s[1]} \subseteq ToSet(t)
    BY <1>2, <2>2 DEF ToSet
  <2> QED
    BY <2>3, <2>4
<1>6. Head(s) \in ToSet(s)
  BY <1>2 DEF ToSet
<1> QED
  BY <1>1, <1>2, <1>4, <1>5, <1>6 DEF t

LEMMA RemoveFact ==
  ASSUME NEW S, NEW s \in Seq(S), NEW k \in DOMAIN s
  PROVE  /\ RemoveAt(s, k) \in Seq(S) /\ Len(RemoveAt(s, k)) = Len(s) - 1
         /\ s[k] \in ToSet(s) /\ s[k] \in S
         /\ IsInjective(s) =>
              IsInjective(RemoveAt(s, k)) /\ ToSet(RemoveAt(s, k)) = ToSet(s) \ {s[k]}
<1> DEFINE n == Len(s)
           a == SubSeq(s, 1, k - 1)
           b == SubSeq(s, k + 1, n)
           t == RemoveAt(s, k)
<1>1. DOMAIN s = 1 .. n /\ n \in Nat /\ k \in 1 .. n /\ \A i \in 1 .. n : s[i] \in S
  BY LenProperties, ElementOfSeq
<1>2. t = a \o b
  BY DEF RemoveAt
<1> HIDE DEF n, t
<1>3. /\ a \in Seq(S)
      /\ Len(a) = k - 1
      /\ \A i \in 1 .. k - 1 : a[i] = s[i]
  <2>1. k - 1 \in Int /\ 1 \in Int /\ \A i \in 1 .. k - 1 : s[i] \in S
    BY <1>1
  <2>2. /\ SubSeq(s, 1, k - 1) \in Seq(S)
        /\ Len(SubSeq(s, 1, k - 1)) = IF 1 <= k - 1 THEN k - 1 - 1 + 1 ELSE 0
        /\ \A i \in 1 .. k - 1 - 1 + 1 : SubSeq(s, 1, k - 1)[i] = s[1 + i - 1]
    BY <2>1, SubSeqProperties
  <2> HIDE DEF a
  <2>3. /\ a \in Seq(S)
        /\ Len(a) = IF 1 <= k - 1 THEN k - 1 - 1 + 1 ELSE 0
        /\ \A i \in 1 .. k - 1 - 1 + 1 : a[i] = s[1 + i - 1]
    BY <2>2 DEF a
  <2>4. Len(a) = k - 1
    BY <1>1, <2>3
  <2>5. ASSUME NEW i \in 1 .. k - 1
        PROVE  a[i] = s[i]
    <3>1. i \in 1 .. k - 1 - 1 + 1 /\ 1 + i - 1 = i
      BY <1>1
    <3> QED
      BY <2>3, <3>1
  <2> QED
    BY <2>3, <2>4, <2>5
<1>4. /\ b \in Seq(S)
      /\ Len(b) = n - k
      /\ \A i \in 1 .. n - k : b[i] = s[i + k]
  <2>1. k + 1 \in Int /\ n \in Int /\ \A i \in k + 1 .. n : s[i] \in S
    BY <1>1
  <2>2. /\ SubSeq(s, k + 1, n) \in Seq(S)
        /\ Len(SubSeq(s, k + 1, n)) = IF k + 1 <= n THEN n - (k + 1) + 1 ELSE 0
        /\ \A i \in 1 .. n - (k + 1) + 1 : SubSeq(s, k + 1, n)[i] = s[k + 1 + i - 1]
    BY <2>1, SubSeqProperties
  <2> HIDE DEF b
  <2>3. /\ b \in Seq(S)
        /\ Len(b) = IF k + 1 <= n THEN n - (k + 1) + 1 ELSE 0
        /\ \A i \in 1 .. n - (k + 1) + 1 : b[i] = s[k + 1 + i - 1]
    BY <2>2 DEF b
  <2>4. Len(b) = n - k
    BY <1>1, <2>3
  <2>5. ASSUME NEW i \in 1 .. n - k
        PROVE  b[i] = s[i + k]
    <3>1. i \in 1 .. n - (k + 1) + 1 /\ k + 1 + i - 1 = i + k
      BY <1>1
    <3> QED
      BY <2>3, <3>1
  <2> QED
    BY <2>3, <2>4, <2>5
<1> HIDE DEF a, b
<1>5. /\ t \in Seq(S)
      /\ Len(t) = n - 1
      /\ \A i \in 1 .. n - 1 : t[i] = IF i < k THEN s[i] ELSE s[i + 1]
  <2>1. /\ t \in Seq(S)
        /\ Len(t) = Len(a) + Len(b)
        /\ \A i \in 1 .. Len(a) + Len(b) :
             t[i] = IF i <= Len(a) THEN a[i] ELSE b[i - Len(a)]
    BY <1>2, <1>3, <1>4, ConcatProperties
  <2>2. Len(t) = n - 1
    BY <1>1, <1>3, <1>4, <2>1
  <2>3. ASSUME NEW i \in 1 .. n - 1
        PROVE  t[i] = IF i < k THEN s[i] ELSE s[i + 1]
    <3>1. i \in 1 .. Len(a) + Len(b)
      BY <1>1, <1>3, <1>4
    <3>2. CASE i < k
      <4>1. i <= Len(a) /\ i \in 1 .. k - 1
        BY <1>1, <1>3, <3>2
      <4> QED
        BY <1>3, <2>1, <3>1, <3>2, <4>1
    <3>3. CASE ~(i < k)
      <4>1. ~(i <= Len(a)) /\ i - (k - 1) \in 1 .. n - k /\ i - (k - 1) + k = i + 1
        BY <1>1, <1>3, <3>3
      <4>2. t[i] = b[i - (k - 1)]
        BY <1>3, <2>1, <3>1, <4>1
      <4> QED
        BY <1>4, <3>3, <4>1, <4>2
    <3> QED
      BY <3>2, <3>3
  <2> QED
    BY <2>1, <2>2, <2>3
<1>6. DOMAIN t = 1 .. n - 1
  BY <1>5, LenProperties
\* where an element of t stood in s
<1> DEFINE Was(i) == IF i < k THEN i ELSE i + 1
<1>7. \A i \in 1 .. n - 1 : Was(i) \in 1 .. n /\ Was(i) # k /\ t[i] = s[Was(i)]
  BY <1>1, <1>5
<1>8. \A i, j \in 1 .. n - 1 : Was(i) = Was(j) => i = j
  BY <1>1
<1>9. \A j \in 1 .. n : j # k => \E i \in 1 .. n - 1 : Was(i) = j
  <2>1. ASSUME NEW j \in 1 .. n, j < k
        PROVE  j \in 1 .. n - 1 /\ Was(j) = j
    BY <1>1, <2>1
  <2>2. ASSUME NEW j \in 1 .. n, j > k
        PROVE  j - 1 \in 1 .. n - 1 /\ Was(j - 1) = j
    BY <1>1, <2>2
  <2>3. \A j \in 1 .. n : j # k => j < k \/ j > k
    BY <1>1
  <2> HIDE DEF Was
  <2> QED
    BY <2>1, <2>2, <2>3
<1> HIDE DEF Was
<1>10. ASSUME IsInjective(s)
       PROVE  IsInjective(t)
  BY <1>1, <1>6, <1>7, <1>8, <1>10 DEF IsInjective
<1>11. ASSUME IsInjective(s)
       PROVE  ToSet(t) = ToSet(s) \ {s[k]}
  <2>1. ToSet(t) \subseteq ToSet(s) \ {s[k]}
    BY <1>1, <1>6, <1>7, <1>11 DEF IsInjective, ToSet
  <2>2. ASSUME NEW j \in 1 .. n, s[j] # s[k]
        PROVE  s[j] \in ToSet(t)
    <3>1. PICK i \in 1 .. n - 1 : Was(i) = j
      BY <1>9, <2>2
    <3> QED
      BY <1>6, <1>7, <3>1 DEF ToSet
  <2>3. ToSet(s) \ {s[k]} \subseteq ToSet(t)
    BY <1>1, <2>2 DEF ToSet
  <2> QED
    BY <2>1, <2>3
<1> QED
  BY <1>1, <1>5, <1>10, <1>11 DEF n, t, ToSet

-----------------------------------------------------------------------------
(* Types.                                                                  *)

LEMMA SetFacts ==
  /\ \A s \in {"find", "ok", "size", "commit", "push", "write", "refuse", "bid",
               "check", "match", "deliver", "settle", "untimer", "clear", "drop", "idle"} : s \in PC
  /\ None \notin Request /\ None \notin Para /\ None \notin Bid
  /\ Rest \in Message /\ NoOffer \in Message
  /\ Request \subseteq Message /\ Para \subseteq Message
  /\ \A b \in Bid : Sent(b) \subseteq Message
  /\ Idle \in WorkerState
BY DispatchAssumption DEF PC, Message, Sent, Idle, WorkerState

\* a field of a bid session changes
LEMMA BidFields ==
  ASSUME NEW s \in BidState
  PROVE  /\ s.list \in Seq(Para) /\ s.active \in Nat /\ s.events \in 0 .. MaxEvents
         /\ s.open \in BOOLEAN /\ s.ptr \in BOOLEAN /\ s.reg \in BOOLEAN
         /\ \A v \in BOOLEAN :
              /\ [s EXCEPT !.open = v] \in BidState /\ [s EXCEPT !.reg = v] \in BidState
              /\ [s EXCEPT !.ptr = v] \in BidState /\ [s EXCEPT !.deleted = v] \in BidState
              /\ [s EXCEPT !.timer = v] \in BidState /\ [s EXCEPT !.watched = v] \in BidState
         /\ \A v \in Seq(Para) : [s EXCEPT !.list = v] \in BidState
         /\ \A v \in Nat : [s EXCEPT !.active = v] \in BidState
         /\ \A v \in 0 .. MaxEvents : [s EXCEPT !.events = v] \in BidState
BY DEF BidState

LEMMA WireFields ==
  ASSUME NEW b \in Bid, NEW s \in WireState(b)
  PROVE  /\ s.to \in Seq(Sent(b)) /\ s.from \in Seq(Message)
         /\ s.busy \in Sent(b) \cup {None} /\ s.req \in Request \cup {None}
         /\ \A v \in BOOLEAN : [s EXCEPT !.alive = v] \in WireState(b)
         /\ \A v \in Seq(Sent(b)) : [s EXCEPT !.to = v] \in WireState(b)
         /\ \A v \in Seq(Message) : [s EXCEPT !.from = v] \in WireState(b)
         /\ \A v \in Sent(b) \cup {None} : [s EXCEPT !.busy = v] \in WireState(b)
         /\ \A v \in Request \cup {None} : [s EXCEPT !.req = v] \in WireState(b)
BY DEF WireState

LEMMA WorkerFields ==
  ASSUME NEW s \in WorkerState
  PROVE  /\ s.left \in Nat /\ s.msg \in Message \cup {None}
         /\ \A v \in PC : [s EXCEPT !.pc = v] \in WorkerState
         /\ \A v \in Para \cup {None} : [s EXCEPT !.p = v] \in WorkerState
         /\ \A v \in Bid \cup {None} : [s EXCEPT !.b = v] \in WorkerState
         /\ \A v \in Message \cup {None} : [s EXCEPT !.msg = v] \in WorkerState
         /\ \A v \in Nat : [s EXCEPT !.left = v] \in WorkerState
BY DEF WorkerState

\* the part of a step that answers
LEMMA AnswerEmptyType ==
  ASSUME TypeOK, NEW ps, AnswerEmpty(ps)
  PROVE  reply' \in [Request -> ReplyState] /\ waiting' \in [Request -> Nat]
BY DEF TypeOK, AnswerEmpty, ReplyState

LEMMA AnswerType ==
  ASSUME TypeOK, NEW p \in Para, NEW resp \in Message \cup {None}, NEW b \in Bid,
         Answer(p, resp, b)
  PROVE  reply' \in [Request -> ReplyState] /\ waiting' \in [Request -> Nat]
<1> DEFINE r == para[p].req
<1>1. reply' = [reply EXCEPT ![r] = [n |-> reply[r].n + 1, from |-> resp, by |-> b]]
  BY DEF Answer
<1>2. waiting' = [waiting EXCEPT ![r] = IF waiting[r] > 0 THEN waiting[r] - 1 ELSE waiting[r]]
  BY DEF Answer
<1> HIDE DEF r
<1>3. r \in Request => [n |-> reply[r].n + 1, from |-> resp, by |-> b] \in ReplyState
  BY DEF TypeOK, ReplyState
<1>4. reply' \in [Request -> ReplyState]
  BY <1>1, <1>3 DEF TypeOK
<1> DEFINE left == IF waiting[r] > 0 THEN waiting[r] - 1 ELSE waiting[r]
<1>5. waiting' \in [Request -> Nat]
  <2>1. r \in Request => left \in Nat
    BY DEF TypeOK
  <2>2. waiting' = [waiting EXCEPT ![r] = left]
    BY <1>2
  <2> HIDE DEF left
  <2> QED
    BY <2>1, <2>2 DEF TypeOK
<1> QED
  BY <1>4, <1>5

\* a session, a connection or a worker in another state of its type
LEMMA Updates ==
  ASSUME TypeOK
  PROVE  /\ \A b \in Bid : \A s \in BidState : [bid EXCEPT ![b] = s] \in [Bid -> BidState]
         /\ \A w \in Workers : \A s \in WorkerState :
              [worker EXCEPT ![w] = s] \in [Workers -> WorkerState]
         /\ \A b \in Bid : \A s \in WireState(b) :
              wire' = [wire EXCEPT ![b] = s] =>
                DOMAIN wire' = Bid /\ \A c \in Bid : wire'[c] \in WireState(c)
BY DEF TypeOK

LEMMA TypeStep ==
  ASSUME TypeOK, WorkersReady, [Next]_vars
  PROVE  TypeOK'
<1> DEFINE BidOK == bid' \in [Bid -> BidState]
           WireOK == DOMAIN wire' = Bid /\ \A b \in Bid : wire'[b] \in WireState(b)
           ReplyOK == reply' \in [Request -> ReplyState] /\ waiting' \in [Request -> Nat]
           WorkerOK == worker' \in [Workers -> WorkerState]
<1>1. /\ bid' = bid => BidOK
      /\ wire' = wire => WireOK
      /\ UNCHANGED <<reply, waiting>> => ReplyOK
      /\ worker' = worker => WorkerOK
      /\ \A w \in Workers : \A pc \in PC : Goto(w, pc) => WorkerOK
      /\ \A w \in Workers : Return(w) => WorkerOK
  BY SetFacts, WorkerFields, Updates DEF TypeOK, Goto, Return
<1>2. TypeOK' <=> /\ para' \in [Para -> ParaState]
                  /\ free' \subseteq Para /\ lost' \subseteq Para
                  /\ BidOK /\ WireOK /\ ReplyOK /\ WorkerOK
  BY DEF TypeOK, WireState, Sent
<1> HIDE DEF BidOK, WireOK, ReplyOK, WorkerOK
<1>3. /\ para' = para => para' \in [Para -> ParaState]
      /\ free' = free => free' \subseteq Para
      /\ lost' = lost => lost' \subseteq Para
  BY DEF TypeOK
<1>4. ASSUME NEW w \in Workers, NEW r \in Request, TakeRequest(w, r)
      PROVE  TypeOK'
  <2> DEFINE n == Cardinality(Registered \ Remote) \div 2
  <2>1. n \in Nat
    <3>1. IsFiniteSet(Registered \ Remote)
      BY DispatchAssumption, FS_Subset DEF Registered
    <3> QED
      BY <3>1, FS_CardinalityType
  <2> HIDE DEF n
  <2>2. PICK p \in free, pc \in {"find", "refuse"} :
          /\ para' = [para EXCEPT ![p] = [req |-> r, timeout |-> FALSE, resp |-> None]]
          /\ free' = free \ {p}
          /\ worker' = [worker EXCEPT ![w] = [Idle EXCEPT !.pc = pc, !.p = p, !.left = n]]
    BY <1>4 DEF TakeRequest, n
  <2>3. p \in Para /\ pc \in PC
    BY <2>2 DEF TypeOK, PC
  <2>4. WorkerOK
    <3>1. [Idle EXCEPT !.pc = pc, !.p = p, !.left = n] \in WorkerState
      BY <2>1, <2>3, SetFacts, WorkerFields
    <3> QED
      BY <2>2, <3>1, Updates DEF WorkerOK
  <2>5. para' \in [Para -> ParaState]
    BY <2>2 DEF TypeOK, ParaState
  <2>6. ReplyOK
    BY <1>4 DEF TakeRequest, TypeOK, ReplyOK
  <2>7. free' \subseteq Para
    BY <2>2 DEF TypeOK
  <2> QED
    BY <1>1, <1>2, <1>3, <1>4, <2>4, <2>5, <2>6, <2>7 DEF TakeRequest
<1>5. ASSUME NEW w \in Workers, NEW b \in Bid, Register(w, b)
      PROVE  TypeOK'
  <2>1. BidOK
    <3> DEFINE s == bid[b]
    <3>1. s \in BidState
      BY DEF TypeOK
    <3>2. bid' = [bid EXCEPT ![b] = [[[s EXCEPT !.ptr = TRUE]
                   EXCEPT !.active = s.active + 1] EXCEPT !.reg = TRUE]]
      BY <1>5 DEF Register
    <3> HIDE DEF s
    <3>3. s.active + 1 \in Nat
      BY <3>1, BidFields
    <3>4. [[[s EXCEPT !.ptr = TRUE] EXCEPT !.active = s.active + 1] EXCEPT !.reg = TRUE] \in BidState
      BY <3>1, <3>3, BidFields
    <3> QED
      BY <3>2, <3>4, Updates DEF BidOK
  <2> QED
    BY <1>1, <1>2, <1>3, <1>5, <2>1 DEF Register
<1>6. ASSUME NEW w \in Workers, WorkerStep(w)
      PROVE  TypeOK'
  <2> DEFINE b == worker[w].b
             s == bid[b]
             me == worker[w]
  <2>1. me \in WorkerState /\ (b \in Bid => s \in BidState)
    BY DEF TypeOK
  <2>2. me.pc \notin {"idle", "find", "refuse"} => b \in Bid
    BY DEF WorkersReady
  <2>3. Asking(w) \/ me.pc \in {"write", "deliver"} => me.p \in Para
    BY DEF WorkersReady
  <2>4. CASE FindBid(w)
    <3>1. CASE \E c \in Preferred(para[me.p].req) :
                 worker' = [worker EXCEPT ![w].pc = "ok", ![w].b = c]
      <4>1. PICK c \in Bid : worker' = [worker EXCEPT ![w] = [[me EXCEPT !.pc = "ok"] EXCEPT !.b = c]]
        BY <3>1 DEF Preferred, Registered
      <4> HIDE DEF me
      <4>2. WorkerOK
        BY <2>1, <4>1, SetFacts, WorkerFields, Updates DEF WorkerOK
      <4> QED
        BY <1>1, <1>2, <1>3, <2>4, <4>2 DEF FindBid
    <3>2. CASE \E pc \in PC : Goto(w, pc)
      BY <1>1, <1>2, <1>3, <2>4, <3>2 DEF FindBid
    <3> QED
      BY <2>4, <3>1, <3>2, SetFacts DEF FindBid
  <2>5. CASE CheckBid(w)
    <3>1. bid' = [bid EXCEPT ![b] = [s EXCEPT !.open = s.open /\ s.ptr]]
      BY <2>5 DEF CheckBid
    <3>2. b \in Bid
      BY <2>2, <2>5 DEF CheckBid
    <3>3. \E pc \in PC : Goto(w, pc)
      BY <2>5, SetFacts DEF CheckBid
    <3> HIDE DEF s, b
    <3>4. [s EXCEPT !.open = s.open /\ s.ptr] \in BidState
      <4>1. (s.open /\ s.ptr) \in BOOLEAN
        OBVIOUS
      <4> QED
        BY <2>1, <3>2, <4>1, BidFields
    <3>5. BidOK
      BY <3>1, <3>2, <3>4, Updates DEF BidOK
    <3> QED
      BY <1>1, <1>2, <1>3, <2>5, <3>3, <3>5 DEF CheckBid
  <2>6. CASE CheckSize(w)
    <3>1. CASE \E pc \in PC : Goto(w, pc)
      BY <1>1, <1>2, <1>3, <2>6, <3>1 DEF CheckSize
    <3>2. CASE me.left > 0 /\ worker' = [worker EXCEPT ![w].pc = "find", ![w].left = @ - 1]
      <4>1. worker' = [worker EXCEPT ![w] = [[me EXCEPT !.pc = "find"] EXCEPT !.left = me.left - 1]]
        BY <3>2
      <4>2. me.left - 1 \in Nat
        BY <2>1, <3>2, WorkerFields
      <4> HIDE DEF me
      <4>3. WorkerOK
        BY <2>1, <4>1, <4>2, SetFacts, WorkerFields, Updates DEF WorkerOK
      <4> QED
        BY <1>1, <1>2, <1>3, <2>6, <4>3 DEF CheckSize
    <3> QED
      BY <2>6, <3>1, <3>2, SetFacts DEF CheckSize
  <2>7. CASE Commit(w)
    <3>1. bid' = [bid EXCEPT ![b] = [[s EXCEPT !.active = s.active + 1] EXCEPT !.timer = TRUE]]
      BY <2>7 DEF Commit
    <3>2. b \in Bid
      BY <2>2, <2>7 DEF Commit
    <3> HIDE DEF s, b
    <3>3. s.active + 1 \in Nat
      BY <2>1, <3>2, BidFields
    <3>4. BidOK
      BY <2>1, <3>1, <3>2, <3>3, BidFields, Updates DEF BidOK
    <3> QED
      BY <1>1, <1>2, <1>3, <2>7, <3>4, SetFacts DEF Commit
  <2>8. CASE Push(w)
    <3>1. b \in Bid /\ me.p \in Para
      BY <2>2, <2>3, <2>8 DEF Push, Asking
    <3>2. Append(s.list, me.p) \in Seq(Para)
      BY <2>1, <3>1, BidFields, AppendFact
    <3>3. CASE ~bid[b].deleted
      <4>1. bid' = [bid EXCEPT ![b] = [s EXCEPT !.list = Append(s.list, me.p)]] /\ lost' = lost
        BY <2>8, <3>3 DEF Push
      <4> HIDE DEF s, b
      <4>2. BidOK
        BY <2>1, <3>1, <3>2, <4>1, BidFields, Updates DEF BidOK
      <4> QED
        BY <1>1, <1>2, <1>3, <2>8, <4>1, <4>2, SetFacts DEF Push
    <3>4. CASE bid[b].deleted
      <4>1. lost' = lost \cup {me.p} /\ bid' = bid
        BY <2>8, <3>4 DEF Push
      <4>2. lost' \subseteq Para
        BY <3>1, <4>1 DEF TypeOK
      <4> QED
        BY <1>1, <1>2, <1>3, <2>8, <4>1, <4>2, SetFacts DEF Push
    <3> QED
      BY <3>3, <3>4
  <2>9. CASE Write(w)
    <3> DEFINE m == IF b \in Remote THEN para[me.p].req ELSE me.p
               v == wire[b]
    <3>1. b \in Bid /\ m \in Sent(b)
      BY <2>2, <2>3, <2>9 DEF Write, WorkersReady, Sent
    <3>2. v \in WireState(b)
      BY <3>1 DEF TypeOK
    <3> HIDE DEF m
    <3>3. Append(v.to, m) \in Seq(Sent(b)) /\ v.to \in Seq(Sent(b))
      BY <3>1, <3>2, WireFields, AppendFact
    <3>4. CASE /\ wire' = [wire EXCEPT ![b].to = IF wire[b].alive THEN Append(@, m) ELSE @]
               /\ bid' = bid
      <4>1. wire' = [wire EXCEPT ![b] = [v EXCEPT !.to = IF v.alive THEN Append(v.to, m) ELSE v.to]]
        BY <3>4
      <4> HIDE DEF v, b
      <4>2. WireOK
        BY <3>1, <3>2, <3>3, <4>1, WireFields, Updates DEF WireOK
      <4> QED
        BY <1>1, <1>2, <1>3, <2>9, <3>4, <4>2 DEF Write
    <3>5. CASE bid' = [bid EXCEPT ![b].open = FALSE] /\ wire' = wire
      <4>1. bid' = [bid EXCEPT ![b] = [s EXCEPT !.open = FALSE]]
        BY <3>5
      <4> HIDE DEF s, b
      <4>2. BidOK
        BY <2>1, <3>1, <4>1, BidFields, Updates DEF BidOK
      <4> QED
        BY <1>1, <1>2, <1>3, <2>9, <3>5, <4>2 DEF Write
    <3> QED
      BY <2>9, <3>4, <3>5 DEF Write, m
  <2>10. CASE Refuse(w)
    BY <1>1, <1>2, <1>3, <2>3, <2>10, AnswerEmptyType DEF Refuse, Asking, ReplyOK, TypeOK
  <2>11. ASSUME NEW c \in Bid, TakeEvent(w, c)
         PROVE  TypeOK'
    <3> DEFINE ends == bid[c].open /\ ~wire[c].alive
               data == bid[c].open /\ wire[c].alive /\ wire[c].from # <<>>
               v == wire[c]
               r == bid[c]
               msg == IF data THEN Head(wire[c].from) ELSE None
    <3>1. r \in BidState /\ v \in WireState(c)
      BY DEF TypeOK
    <3>2. BidOK
      <4>1. bid' = [bid EXCEPT ![c] = [[r EXCEPT !.events = r.events - 1] EXCEPT !.open = r.open /\ ~ends]]
        BY <2>11 DEF TakeEvent
      <4>2. r.events > 0
        BY <2>11 DEF TakeEvent
      <4> HIDE DEF r, ends
      <4>3. r.events - 1 \in 0 .. MaxEvents /\ (r.open /\ ~ends) \in BOOLEAN
        BY <3>1, <4>2, BidFields, DispatchAssumption
      <4> QED
        BY <3>1, <4>1, <4>3, BidFields, Updates DEF BidOK
    <3>3. msg \in Message \cup {None}
      BY <3>1, WireFields, TailFact
    <3>4. WireOK
      <4>1. PICK n \in IF c \in Remote THEN DOMAIN v.from ELSE {1} :
              wire' = [wire EXCEPT ![c] = [v EXCEPT !.from =
                         IF data THEN SubSeq(v.from, n + 1, Len(v.from)) ELSE v.from]]
        BY <2>11 DEF TakeEvent
      <4>2. v.from \in Seq(Message)
        BY <3>1, WireFields
      <4>3. SubSeq(v.from, n + 1, Len(v.from)) \in Seq(Message)
        <5> DEFINE q == v.from
        <5>1. q \in Seq(Message) /\ n \in Nat
          BY <4>2, LenProperties
        <5> HIDE DEF q
        <5>2. n + 1 \in Int /\ Len(q) \in Int /\ \A i \in n + 1 .. Len(q) : q[i] \in Message
          BY <5>1, LenProperties, ElementOfSeq
        <5> QED
          BY <5>2, SubSeqProperties DEF q
      <4> HIDE DEF v, data
      <4> QED
        BY <3>1, <4>1, <4>2, <4>3, WireFields, Updates DEF WireOK
    <3>5. WorkerOK
      <4>1. worker' = [worker EXCEPT ![w] =
              [[[Idle EXCEPT !.pc = "bid"] EXCEPT !.b = c] EXCEPT !.msg = msg]]
        BY <2>11 DEF TakeEvent
      <4> HIDE DEF msg
      <4> QED
        BY <3>3, <4>1, SetFacts, WorkerFields, Updates DEF WorkerOK
    <3> HIDE DEF ends, data, msg
    <3> QED
      BY <1>1, <1>2, <1>3, <2>11, <3>2, <3>4, <3>5 DEF TakeEvent
  <2>12. CASE SortEvent(w)
    <3>1. b \in Bid
      BY <2>2, <2>12 DEF SortEvent
    <3>2. BidOK
      <4>1. bid' = bid \/ bid' = [bid EXCEPT ![b] = [s EXCEPT !.ptr = FALSE]]
        BY <2>12 DEF SortEvent
      <4> HIDE DEF s, b
      <4>2. [s EXCEPT !.ptr = FALSE] \in BidState
        BY <2>1, <3>1, BidFields
      <4>3. bid' = [bid EXCEPT ![b] = [s EXCEPT !.ptr = FALSE]] => BidOK
        BY <3>1, <4>2, Updates DEF BidOK
      <4> QED
        BY <1>1, <4>1, <4>3
    <3>3. Return(w) \/ \E pc \in PC : Goto(w, pc)
      BY <2>12, SetFacts DEF SortEvent
    <3> QED
      BY <1>1, <1>2, <1>3, <2>12, <3>2, <3>3 DEF SortEvent
  <2>13. CASE ClearList(w)
    <3> DEFINE ps == Listed(b)
               n == IF s.active > Len(s.list) THEN s.active - Len(s.list) ELSE 0
    <3>1. b \in Bid
      BY <2>2, <2>13 DEF ClearList
    <3>2. s.list \in Seq(Para) /\ s.active \in Nat
      BY <2>1, <3>1, BidFields
    <3>3. ps \subseteq Para /\ n \in Nat
      BY <3>2, LenProperties, ElementOfSeq DEF Listed, ToSet
    <3>4. BidOK
      <4>1. bid' = [bid EXCEPT ![b] =
              [[[s EXCEPT !.list = <<>>] EXCEPT !.deleted = TRUE] EXCEPT !.active = n]]
        BY <2>13 DEF ClearList
      <4>2. <<>> \in Seq(Para)
        BY EmptySeq
      <4> HIDE DEF s, b, n
      <4> QED
        BY <2>1, <3>1, <3>3, <4>1, <4>2, BidFields, Updates DEF BidOK
    <3>5. free' \subseteq Para
      <4>1. free' = free \cup ps
        BY <2>13 DEF ClearList
      <4> QED
        BY <3>3, <4>1 DEF TypeOK
    <3>6. para' \in [Para -> ParaState]
      <4>1. para' = [p \in Para |-> [para[p] EXCEPT !.timeout = @ \/ p \in ps]]
        BY <2>13 DEF ClearList
      <4> QED
        BY <4>1 DEF TypeOK, ParaState
    <3>7. ReplyOK
      <4>1. AnswerEmpty(Live(ps))
        BY <2>13 DEF ClearList
      <4> QED
        BY <4>1, AnswerEmptyType DEF ReplyOK
    <3> QED
      BY <1>1, <1>2, <1>3, <2>13, <3>4, <3>5, <3>6, <3>7, SetFacts DEF ClearList
  <2>14. CASE DropBid(w)
    <3>1. b \in Bid
      BY <2>2, <2>14 DEF DropBid
    <3> DEFINE n == IF s.active > 0 THEN s.active - 1 ELSE s.active
    <3>2. bid' = [bid EXCEPT ![b] = [[s EXCEPT !.reg = FALSE] EXCEPT !.active = n]]
      BY <2>14 DEF DropBid
    <3>3. n \in Nat
      BY <2>1, <3>1, BidFields
    <3> HIDE DEF s, b, n
    <3>4. BidOK
      BY <2>1, <3>1, <3>2, <3>3, BidFields, Updates DEF BidOK
    <3> QED
      BY <1>1, <1>2, <1>3, <2>14, <3>4 DEF DropBid
  <2>15. ASSUME NEW k \in 0 .. Cardinality(Para), CheckList(w, k)
         PROVE  TypeOK'
    <3>1. para' \in [Para -> ParaState]
      BY <2>15 DEF CheckList, TypeOK, ParaState
    <3>2. Return(w) \/ \E pc \in PC : Goto(w, pc)
      BY <2>15, SetFacts DEF CheckList
    <3>3. ReplyOK
      BY <2>15, AnswerEmptyType DEF CheckList, ReplyOK
    <3> QED
      BY <1>1, <1>2, <1>3, <2>15, <3>1, <3>2, <3>3 DEF CheckList
  <2>16. CASE MatchLocal(w)
    <3>1. b \in Bid
      BY <2>2, <2>16 DEF MatchLocal
    <3>2. CASE Goto(w, "settle") /\ bid' = bid
      BY <1>1, <1>2, <1>3, <2>16, <3>2, SetFacts DEF MatchLocal
    <3>3. CASE /\ \E i \in DOMAIN bid[b].list :
                    /\ bid[b].list[i] = me.msg
                    /\ bid' = [bid EXCEPT ![b].list = RemoveAt(@, i)]
               /\ worker' = [worker EXCEPT ![w].pc = "deliver", ![w].p = me.msg]
      <4>1. PICK i \in DOMAIN s.list :
              /\ s.list[i] = me.msg
              /\ bid' = [bid EXCEPT ![b] = [s EXCEPT !.list = RemoveAt(s.list, i)]]
        BY <3>3
      <4>2. worker' = [worker EXCEPT ![w] = [[me EXCEPT !.pc = "deliver"] EXCEPT !.p = me.msg]]
        BY <3>3
      <4> HIDE DEF s, me, b
      <4>3. s.list \in Seq(Para)
        BY <2>1, <3>1, BidFields
      <4>4. RemoveAt(s.list, i) \in Seq(Para) /\ me.msg \in Para
        BY <4>1, <4>3, RemoveFact
      <4>5. BidOK
        BY <2>1, <3>1, <4>1, <4>4, BidFields, Updates DEF BidOK
      <4>6. WorkerOK
        BY <2>1, <4>2, <4>4, SetFacts, WorkerFields, Updates DEF WorkerOK
      <4> QED
        BY <1>1, <1>2, <1>3, <2>16, <4>5, <4>6 DEF MatchLocal
    <3> QED
      BY <2>16, <3>2, <3>3 DEF MatchLocal
  <2>17. CASE MatchRemote(w)
    <3>1. b \in Bid
      BY <2>2, <2>17 DEF MatchRemote
    <3>2. CASE s.list = <<>>
      BY <1>1, <1>2, <1>3, <2>17, <3>2, SetFacts DEF MatchRemote
    <3>3. CASE s.list # <<>>
      <4>1. s.list \in Seq(Para)
        BY <2>1, <3>1, BidFields
      <4>2. Tail(s.list) \in Seq(Para) /\ Head(s.list) \in Para
        BY <3>3, <4>1, TailFact
      <4>3. BidOK
        <5>1. bid' = [bid EXCEPT ![b] = [s EXCEPT !.list = Tail(s.list)]]
          BY <2>17, <3>3 DEF MatchRemote
        <5> HIDE DEF s, b
        <5> QED
          BY <2>1, <3>1, <4>2, <5>1, BidFields, Updates DEF BidOK
      <4>4. CASE /\ worker' = [worker EXCEPT ![w].pc = "deliver", ![w].p = Head(s.list)]
                 /\ lost' = lost
        <5> DEFINE h == Head(s.list)
        <5>1. worker' = [worker EXCEPT ![w] = [[me EXCEPT !.pc = "deliver"] EXCEPT !.p = h]]
          BY <4>4
        <5> HIDE DEF me, h
        <5>2. WorkerOK
          BY <2>1, <4>2, <5>1, SetFacts, WorkerFields, Updates DEF WorkerOK, h
        <5> QED
          BY <1>1, <1>2, <1>3, <2>17, <4>3, <4>4, <5>2 DEF MatchRemote
      <4>5. CASE Goto(w, "settle") /\ lost' = lost \cup {Head(s.list)}
        <5>1. lost' \subseteq Para
          BY <4>2, <4>5 DEF TypeOK
        <5> QED
          BY <1>1, <1>2, <1>3, <2>17, <4>3, <4>5, <5>1, SetFacts DEF MatchRemote
      <4> QED
        BY <2>17, <3>3, <4>4, <4>5 DEF MatchRemote
    <3> QED
      BY <3>2, <3>3
  <2>18. CASE Deliver(w)
    <3>1. b \in Bid /\ me.p \in Para
      BY <2>2, <2>3, <2>18 DEF Deliver
    <3> DEFINE n == IF s.active > 0 THEN s.active - 1 ELSE s.active
               resp == IF b \in Remote THEN me.msg ELSE para[me.p].resp
    <3>2. BidOK
      <4>1. bid' = [bid EXCEPT ![b] = [s EXCEPT !.active = n]]
        BY <2>18 DEF Deliver
      <4>2. n \in Nat
        BY <2>1, <3>1, BidFields
      <4> HIDE DEF s, b, n
      <4> QED
        BY <2>1, <3>1, <4>1, <4>2, BidFields, Updates DEF BidOK
    <3>3. ReplyOK
      <4>1. resp \in Message \cup {None}
        BY <2>1, <3>1, SetFacts, WorkerFields DEF TypeOK, ParaState
      <4>2. UNCHANGED <<reply, waiting>> \/ Answer(me.p, resp, b) \/ AnswerEmpty({me.p})
        BY <2>18 DEF Deliver
      <4> HIDE DEF resp, b, me
      <4> QED
        BY <1>1, <3>1, <4>1, <4>2, AnswerType, AnswerEmptyType DEF ReplyOK
    <3>4. free' \subseteq Para
      BY <2>18, <3>1 DEF Deliver, TypeOK
    <3>5. WorkerOK
      <4>1. CASE Goto(w, "settle")
        BY <1>1, <4>1, SetFacts
      <4>2. CASE worker' = [worker EXCEPT ![w].pc = "match", ![w].p = None, ![w].msg = Rest]
        <5>1. worker' = [worker EXCEPT ![w] =
                [[[me EXCEPT !.pc = "match"] EXCEPT !.p = None] EXCEPT !.msg = Rest]]
          BY <4>2
        <5> HIDE DEF me
        <5> QED
          BY <2>1, <5>1, SetFacts, WorkerFields, Updates DEF WorkerOK
      <4> QED
        BY <2>18, <4>1, <4>2 DEF Deliver
    <3> QED
      BY <1>1, <1>2, <1>3, <2>18, <3>2, <3>3, <3>4, <3>5 DEF Deliver
  <2>19. CASE Settle(w)
    BY <1>1, <1>2, <1>3, <2>19, SetFacts DEF Settle
  <2>20. CASE StopTimer(w)
    <3>1. b \in Bid
      BY <2>2, <2>20 DEF StopTimer
    <3>2. bid' = [bid EXCEPT ![b] = [s EXCEPT !.timer = FALSE]]
      BY <2>20 DEF StopTimer
    <3> HIDE DEF s, b
    <3>3. BidOK
      BY <2>1, <3>1, <3>2, BidFields, Updates DEF BidOK
    <3> QED
      BY <1>1, <1>2, <1>3, <2>20, <3>3 DEF StopTimer
  <2> QED
    BY <1>6, <2>4, <2>5, <2>6, <2>7, <2>8, <2>9, <2>10, <2>11, <2>12, <2>13, <2>14, <2>15,
       <2>16, <2>17, <2>18, <2>19, <2>20 DEF WorkerStep
<1>7. ASSUME NEW b \in Bid, ReadEvent(b) \/ Unregister(b)
      PROVE  TypeOK'
  <2> DEFINE s == bid[b]
  <2>1. s \in BidState
    BY DEF TypeOK
  <2>2. CASE ReadEvent(b)
    <3>1. bid' = [bid EXCEPT ![b] = [s EXCEPT !.events = s.events + 1]] /\ s.events < MaxEvents
      BY <2>2 DEF ReadEvent
    <3> HIDE DEF s
    <3>2. s.events + 1 \in 0 .. MaxEvents
      BY <2>1, <3>1, BidFields, DispatchAssumption
    <3>3. BidOK
      BY <2>1, <3>1, <3>2, BidFields, Updates DEF BidOK
    <3> QED
      BY <1>1, <1>2, <1>3, <2>2, <3>3 DEF ReadEvent
  <2>3. CASE Unregister(b)
    <3>1. bid' = [bid EXCEPT ![b] = [s EXCEPT !.watched = FALSE]]
      BY <2>3 DEF Unregister
    <3> HIDE DEF s
    <3>2. BidOK
      BY <2>1, <3>1, BidFields, Updates DEF BidOK
    <3> QED
      BY <1>1, <1>2, <1>3, <2>3, <3>2 DEF Unregister
  <2> QED
    BY <1>7, <2>2, <2>3
<1>8. ASSUME NEW b \in Bid, EngineTake(b) \/ EngineAnswer(b) \/ EngineCloses(b)
      PROVE  TypeOK'
  <2> DEFINE v == wire[b]
  <2>1. v \in WireState(b)
    BY DEF TypeOK
  <2>2. CASE EngineTake(b)
    <3> DEFINE m == Head(v.to)
               r == IF b \in Remote THEN m ELSE para[m].req
    <3>1. v.to \in Seq(Sent(b)) /\ v.to # <<>>
      BY <2>1, <2>2, WireFields DEF EngineTake
    <3>2. m \in Sent(b) /\ Tail(v.to) \in Seq(Sent(b))
      BY <3>1, TailFact
    <3>3. wire' = [wire EXCEPT ![b] =
            [[[v EXCEPT !.to = Tail(v.to)] EXCEPT !.busy = m] EXCEPT !.req = r]]
      BY <2>2 DEF EngineTake
    <3> HIDE DEF m
    <3>4. r \in Request \cup {None}
      BY <3>2 DEF Sent, TypeOK, ParaState
    <3> HIDE DEF v, r
    <3>5. WireOK
      BY <2>1, <3>2, <3>3, <3>4, WireFields, Updates DEF WireOK
    <3> QED
      BY <1>1, <1>2, <1>3, <2>2, <3>5 DEF EngineTake
  <2>3. CASE EngineAnswer(b)
    <3>1. v.busy \in Sent(b) /\ v.from \in Seq(Message) /\ v.req \in Request \cup {None}
      BY <2>1, <2>3, WireFields DEF EngineAnswer
    <3>2. PICK packet \in {<<v.busy>>, <<v.busy, Rest>>, <<NoOffer>>} :
            wire' = [wire EXCEPT ![b].busy = None, ![b].req = None,
                       ![b].from = IF bid[b].open /\ wire[b].alive THEN @ \o packet ELSE @]
      BY <2>3 DEF EngineAnswer
    <3> DEFINE got == IF bid[b].open /\ v.alive THEN v.from \o packet ELSE v.from
    <3>3. packet \in Seq(Message)
      <4>1. \A x \in Message : <<x>> \in Seq(Message) /\ <<x, Rest>> \in Seq(Message)
        BY SetFacts
      <4>2. v.busy \in Message /\ NoOffer \in Message
        BY <3>1, SetFacts
      <4> HIDE DEF v
      <4> QED
        BY <3>2, <4>1, <4>2
    <3>4. got \in Seq(Message)
      BY <3>1, <3>3, ConcatProperties
    <3>5. wire' = [wire EXCEPT ![b] =
            [[[v EXCEPT !.busy = None] EXCEPT !.req = None] EXCEPT !.from = got]]
      BY <3>2
    <3>6. para' \in [Para -> ParaState]
      <4>1. para' = para \/ para' = [para EXCEPT ![v.busy].resp = v.req]
        BY <2>3 DEF EngineAnswer
      <4>2. para \in [Para -> ParaState]
        BY DEF TypeOK
      <4> HIDE DEF v
      <4>3. CASE para' = [para EXCEPT ![v.busy].resp = v.req]
        BY <3>1, <4>2, <4>3 DEF ParaState
      <4> QED
        BY <4>1, <4>2, <4>3
    <3> HIDE DEF v, got
    <3>7. WireOK
      BY <2>1, <3>4, <3>5, WireFields, Updates DEF WireOK
    <3> QED
      BY <1>1, <1>2, <1>3, <2>3, <3>6, <3>7 DEF EngineAnswer
  <2>4. CASE EngineCloses(b)
    <3>1. wire' = [wire EXCEPT ![b] = [[v EXCEPT !.alive = FALSE] EXCEPT !.to = <<>>]]
      BY <2>4 DEF EngineCloses
    <3>2. <<>> \in Seq(Sent(b))
      BY EmptySeq
    <3> HIDE DEF v
    <3>3. WireOK
      BY <2>1, <3>1, <3>2, WireFields, Updates DEF WireOK
    <3> QED
      BY <1>1, <1>2, <1>3, <2>4, <3>3 DEF EngineCloses
  <2> QED
    BY <1>8, <2>2, <2>3, <2>4
<1>9. CASE UNCHANGED vars
  BY <1>1, <1>2, <1>3, <1>9 DEF vars
<1> QED
  BY <1>4, <1>5, <1>6, <1>7, <1>8, <1>9 DEF Next

-----------------------------------------------------------------------------
(* What a worker's step does to the workers.                               *)

\* pc, parameter, session and message of a worker after each kind of step
LEMMA WorkerFrame ==
  ASSUME TypeOK, NEW w \in Workers
  PROVE  /\ \A pc : Goto(w, pc) =>
              /\ worker'[w].pc = pc /\ worker'[w].p = worker[w].p
              /\ worker'[w].b = worker[w].b /\ worker'[w].msg = worker[w].msg
              /\ \A v \in Workers \ {w} : worker'[v] = worker[v]
         /\ Return(w) =>
              /\ worker'[w].pc = "idle"
              /\ \A v \in Workers \ {w} : worker'[v] = worker[v]
<1>1. worker \in [Workers -> WorkerState] /\ worker[w] \in WorkerState
  BY DEF TypeOK
<1> QED
  BY <1>1 DEF Goto, Return, WorkerState, Idle

\* the steps of the request's own worker: it keeps the parameter
Ask(w) == FindBid(w) \/ CheckBid(w) \/ CheckSize(w) \/ Commit(w)

LEMMA AskFact ==
  ASSUME TypeOK, WorkersReady, NEW w \in Workers, Ask(w)
  PROVE  /\ Asking(w) /\ Asking(w)' /\ worker'[w].p = worker[w].p
         /\ worker'[w].pc \in {"find", "refuse"} \/ worker'[w].b \in Bid
         /\ \A v \in Workers \ {w} : worker'[v] = worker[v]
         /\ \A b \in Bid : bid'[b].list = bid[b].list
         /\ UNCHANGED <<para, free, lost, reply, waiting>>
<1>1. /\ worker \in [Workers -> WorkerState] /\ worker[w] \in WorkerState
      /\ bid \in [Bid -> BidState] /\ \A b \in Bid : bid[b] \in BidState
  BY DEF TypeOK
<1>2. CASE FindBid(w)
  <2>1. CASE \E c \in Preferred(para[worker[w].p].req) :
               worker' = [worker EXCEPT ![w].pc = "ok", ![w].b = c]
    <3>1. PICK c \in Bid : worker' = [worker EXCEPT ![w].pc = "ok", ![w].b = c]
      BY <2>1 DEF Preferred, Registered
    <3> QED
      BY <1>1, <1>2, <3>1 DEF FindBid, Asking, WorkerState
  <2>2. CASE Goto(w, IF worker[w].b = None THEN "refuse" ELSE "ok")
    <3>1. worker[w].b \in Bid \cup {None}
      BY <1>1 DEF WorkerState
    <3> QED
      BY <1>2, <2>2, <3>1, WorkerFrame DEF FindBid, Asking
  <2> QED
    BY <1>2, <2>1, <2>2 DEF FindBid
<1>3. CASE CheckBid(w)
  <2>1. worker[w].b \in Bid
    BY <1>3 DEF CheckBid, WorkersReady
  <2>2. \A b \in Bid : bid'[b].list = bid[b].list
    BY <1>1, <1>3, <2>1 DEF CheckBid, BidState
  <2> QED
    BY <1>3, <2>1, <2>2, WorkerFrame DEF CheckBid, Asking
<1>4. CASE CheckSize(w)
  <2>1. worker[w].b \in Bid
    BY <1>4 DEF CheckSize, WorkersReady
  <2>2. CASE worker' = [worker EXCEPT ![w].pc = "find", ![w].left = @ - 1]
    BY <1>1, <1>4, <2>2 DEF CheckSize, Asking, WorkerState
  <2> QED
    BY <1>4, <2>1, <2>2, WorkerFrame DEF CheckSize, Asking
<1>5. CASE Commit(w)
  <2>1. worker[w].b \in Bid
    BY <1>5 DEF Commit, WorkersReady
  <2>2. \A b \in Bid : bid'[b].list = bid[b].list
    BY <1>1, <1>5, <2>1 DEF Commit, BidState
  <2> QED
    BY <1>5, <2>1, <2>2, WorkerFrame DEF Commit, Asking
<1> QED
  BY <1>2, <1>3, <1>4, <1>5 DEF Ask

Others(w) == \A v \in Workers \ {w} : worker'[v] = worker[v]

SameLists == \A b \in Bid : bid'[b].list = bid[b].list

LEMMA TakeFact ==
  ASSUME TypeOK, NEW w \in Workers, NEW r \in Request, TakeRequest(w, r)
  PROVE  \E p \in free :
           /\ para' = [para EXCEPT ![p] = [req |-> r, timeout |-> FALSE, resp |-> None]]
           /\ free' = free \ {p}
           /\ waiting' = [waiting EXCEPT ![r] = @ + 1]
           /\ reply[r].n = 0 /\ waiting[r] = 0
           /\ UNCHANGED <<lost, reply>> /\ SameLists
           /\ worker[w].pc = "idle" /\ Asking(w)' /\ worker'[w].p = p
           /\ worker'[w].pc \in {"find", "refuse"}
           /\ Others(w)
<1> DEFINE n == Cardinality(Registered \ Remote) \div 2
<1>1. PICK p \in free, pc \in {"find", "refuse"} :
        /\ para' = [para EXCEPT ![p] = [req |-> r, timeout |-> FALSE, resp |-> None]]
        /\ free' = free \ {p}
        /\ worker' = [worker EXCEPT ![w] = [Idle EXCEPT !.pc = pc, !.p = p, !.left = n]]
  BY DEF TakeRequest
<1> HIDE DEF n
<1>2. /\ worker'[w] = [Idle EXCEPT !.pc = pc, !.p = p, !.left = n]
      /\ Others(w)
  BY <1>1 DEF TypeOK, Others
<1>3. worker'[w].pc = pc /\ worker'[w].p = p
  BY <1>2 DEF Idle
<1>4. reply[r].n = 0
  BY DEF TakeRequest, NoReply
<1> QED
  BY <1>1, <1>2, <1>3, <1>4 DEF TakeRequest, Asking, SameLists

LEMMA PushFact ==
  ASSUME TypeOK, WorkersReady, NEW w \in Workers, Push(w)
  PROVE  /\ Asking(w) /\ worker'[w].pc = "write" /\ worker'[w].p = worker[w].p
         /\ worker'[w].b = worker[w].b /\ worker[w].b \in Bid /\ Others(w)
         /\ UNCHANGED <<para, free, reply, waiting>>
         /\ \/ /\ lost' = lost
               /\ \A c \in Bid \ {worker[w].b} : bid'[c].list = bid[c].list
               /\ bid'[worker[w].b].list = Append(bid[worker[w].b].list, worker[w].p)
            \/ /\ lost' = lost \cup {worker[w].p}
               /\ SameLists
<1> DEFINE b == worker[w].b
           p == worker[w].p
<1>1. b \in Bid
  BY DEF Push, WorkersReady
<1>2. /\ Asking(w) /\ worker'[w].pc = "write" /\ worker'[w].p = p
      /\ worker'[w].b = b /\ Others(w)
  BY WorkerFrame DEF Push, Asking, Others
<1>3. \/ /\ lost' = lost
         /\ bid' = [bid EXCEPT ![b].list = Append(@, p)]
      \/ /\ lost' = lost \cup {p}
         /\ bid' = bid
  BY DEF Push
<1>4. bid \in [Bid -> BidState] /\ bid[b] \in BidState
  BY <1>1 DEF TypeOK
<1> HIDE DEF b, p
<1>5. bid' = [bid EXCEPT ![b].list = Append(@, p)] =>
        /\ \A c \in Bid \ {b} : bid'[c].list = bid[c].list
        /\ bid'[b].list = Append(bid[b].list, p)
  BY <1>1, <1>4 DEF BidState
<1> QED
  BY <1>1, <1>2, <1>3, <1>5 DEF Push, SameLists, b, p

LEMMA RefuseFact ==
  ASSUME TypeOK, NEW w \in Workers, Refuse(w)
  PROVE  /\ Asking(w) /\ worker'[w].pc = "idle" /\ Others(w)
         /\ free' = free \cup {worker[w].p} /\ AnswerEmpty({worker[w].p})
         /\ UNCHANGED <<para, lost>> /\ SameLists
BY WorkerFrame DEF Refuse, Asking, Others, SameLists

Mark(ps) == para' = [p \in Para |-> [para[p] EXCEPT !.timeout = @ \/ p \in ps]]

LEMMA ClearFact ==
  ASSUME TypeOK, WorkersReady, NEW w \in Workers, ClearList(w)
  PROVE  /\ worker[w].pc = "clear" /\ worker'[w].pc = "drop"
         /\ worker'[w].b = worker[w].b /\ worker[w].b \in Bid /\ Others(w)
         /\ free' = free \cup Listed(worker[w].b) /\ lost' = lost
         /\ AnswerEmpty(Live(Listed(worker[w].b))) /\ Mark(Listed(worker[w].b))
         /\ \A c \in Bid \ {worker[w].b} : bid'[c].list = bid[c].list
         /\ bid'[worker[w].b].list = <<>>
<1> DEFINE b == worker[w].b
<1>1. b \in Bid
  BY DEF ClearList, WorkersReady
<1>2. worker[w].pc = "clear" /\ worker'[w].pc = "drop" /\ worker'[w].b = b /\ Others(w)
  BY WorkerFrame DEF ClearList, Others
<1>3. bid \in [Bid -> BidState] /\ bid[b] \in BidState
  BY <1>1 DEF TypeOK
<1> DEFINE n == IF bid[b].active > Len(bid[b].list) THEN bid[b].active - Len(bid[b].list) ELSE 0
<1>4. bid' = [bid EXCEPT ![b].list = <<>>, ![b].deleted = TRUE, ![b].active = n]
  BY DEF ClearList
<1> HIDE DEF b, n
<1>5. (\A c \in Bid \ {b} : bid'[c].list = bid[c].list) /\ bid'[b].list = <<>>
  BY <1>1, <1>3, <1>4 DEF BidState
<1> QED
  BY <1>1, <1>2, <1>5 DEF ClearList, Mark, b

LEMMA CheckFact ==
  ASSUME TypeOK, WorkersReady, NEW w \in Workers, NEW k, CheckList(w, k)
  PROVE  /\ worker[w].pc = "check" /\ worker[w].b \in Bid /\ Others(w)
         /\ worker'[w].pc = "idle" \/ (worker'[w].pc = "match" /\ worker'[w].b = worker[w].b)
         /\ Oldest(w, k) \subseteq Listed(worker[w].b)
         /\ AnswerEmpty(Live(Oldest(w, k))) /\ Mark(Oldest(w, k))
         /\ UNCHANGED <<free, lost>> /\ SameLists
<1>1. worker[w].pc = "check" /\ worker[w].b \in Bid
  BY DEF CheckList, WorkersReady
<1>2. /\ worker'[w].pc = "idle" \/ (worker'[w].pc = "match" /\ worker'[w].b = worker[w].b)
      /\ Others(w)
  <2>1. CASE Return(w)
    BY <2>1, WorkerFrame DEF Others
  <2>2. CASE Goto(w, "match")
    BY <2>2, WorkerFrame DEF Others
  <2> QED
    BY <2>1, <2>2 DEF CheckList
<1>3. Oldest(w, k) \subseteq Listed(worker[w].b)
  BY DEF Oldest, Listed, ToSet
<1> QED
  BY <1>1, <1>2, <1>3 DEF CheckList, Mark, SameLists

LEMMA MatchFact ==
  ASSUME TypeOK, WorkersReady, OneHome, NEW w \in Workers, MatchLocal(w) \/ MatchRemote(w)
  PROVE  /\ worker[w].pc = "match" /\ worker'[w].b = worker[w].b /\ worker[w].b \in Bid
         /\ Others(w)
         /\ UNCHANGED <<para, free, reply, waiting>>
         /\ \/ SameLists /\ lost' = lost /\ worker'[w].pc = "settle"
            \/ \E p \in Listed(worker[w].b) :
                 /\ p \in Para
                 /\ \A c \in Bid \ {worker[w].b} : bid'[c].list = bid[c].list
                 /\ IsInjective(bid'[worker[w].b].list)
                 /\ ToSet(bid'[worker[w].b].list) = Listed(worker[w].b) \ {p}
                 /\ \/ /\ worker'[w].pc = "deliver" /\ worker'[w].p = p
                       /\ lost' = lost
                    \/ /\ worker'[w].pc = "settle"
                       /\ lost' = lost \cup {p}
<1> DEFINE b == worker[w].b
           msg == worker[w].msg
<1>1. worker[w].pc = "match" /\ b \in Bid
  BY DEF MatchLocal, MatchRemote, WorkersReady
<1>2. /\ bid \in [Bid -> BidState] /\ bid[b] \in BidState
      /\ worker \in [Workers -> WorkerState] /\ worker[w] \in WorkerState
  BY <1>1 DEF TypeOK
<1>3. bid[b].list \in Seq(Para) /\ IsInjective(bid[b].list)
  BY <1>1, <1>2, BidFields DEF OneHome
<1>4. \A p : worker' = [worker EXCEPT ![w].pc = "deliver", ![w].p = p] =>
         /\ worker'[w].pc = "deliver" /\ worker'[w].p = p /\ worker'[w].b = b
         /\ Others(w)
  BY <1>2 DEF WorkerState, Others
<1>5. Goto(w, "settle") => worker'[w].pc = "settle" /\ worker'[w].b = b /\ Others(w)
  BY WorkerFrame DEF Others
<1>6. \A l : bid' = [bid EXCEPT ![b].list = l] =>
         bid'[b].list = l /\ \A c \in Bid \ {b} : bid'[c].list = bid[c].list
  BY <1>1, <1>2 DEF BidState
<1>7. UNCHANGED <<para, free, reply, waiting>>
  BY DEF MatchLocal, MatchRemote
<1>8. CASE MatchLocal(w)
  <2>1. CASE bid' = bid /\ Goto(w, "settle")
    BY <1>1, <1>5, <1>7, <1>8, <2>1 DEF MatchLocal, SameLists
  <2>2. CASE /\ \E i \in DOMAIN bid[b].list :
                  /\ bid[b].list[i] = msg
                  /\ bid' = [bid EXCEPT ![b].list = RemoveAt(@, i)]
             /\ worker' = [worker EXCEPT ![w].pc = "deliver", ![w].p = msg]
    <3>1. PICK i \in DOMAIN bid[b].list :
            bid[b].list[i] = msg /\ bid' = [bid EXCEPT ![b].list = RemoveAt(bid[b].list, i)]
      BY <2>2
    <3>2. /\ msg \in ToSet(bid[b].list) /\ msg \in Para
          /\ IsInjective(RemoveAt(bid[b].list, i))
          /\ ToSet(RemoveAt(bid[b].list, i)) = ToSet(bid[b].list) \ {msg}
      BY <1>3, <3>1, RemoveFact
    <3>3. /\ worker'[w].pc = "deliver" /\ worker'[w].p = msg /\ worker'[w].b = b
          /\ Others(w)
      BY <1>4, <2>2
    <3>4. /\ bid'[b].list = RemoveAt(bid[b].list, i)
          /\ \A c \in Bid \ {b} : bid'[c].list = bid[c].list
      BY <1>6, <3>1
    <3>5. lost' = lost
      BY <1>8 DEF MatchLocal
    <3> QED
      BY <1>1, <1>7, <3>2, <3>3, <3>4, <3>5 DEF Listed
  <2> QED
    BY <1>8, <2>1, <2>2 DEF MatchLocal
<1>9. CASE MatchRemote(w)
  <2>1. CASE bid[b].list = <<>>
    BY <1>1, <1>5, <1>7, <1>9, <2>1 DEF MatchRemote, SameLists
  <2>2. CASE bid[b].list # <<>>
    <3> DEFINE h == Head(bid[b].list)
    <3>1. /\ bid' = [bid EXCEPT ![b].list = Tail(bid[b].list)]
          /\ \/ /\ worker' = [worker EXCEPT ![w].pc = "deliver", ![w].p = h]
                /\ lost' = lost
             \/ /\ lost' = lost \cup {h}
                /\ Goto(w, "settle")
      BY <1>9, <2>2 DEF MatchRemote
    <3>2. /\ h \in ToSet(bid[b].list) /\ h \in Para
          /\ IsInjective(Tail(bid[b].list))
          /\ ToSet(Tail(bid[b].list)) = ToSet(bid[b].list) \ {h}
      BY <1>3, <2>2, TailFact
    <3>3. /\ bid'[b].list = Tail(bid[b].list)
          /\ \A c \in Bid \ {b} : bid'[c].list = bid[c].list
      BY <1>6, <3>1
    <3> HIDE DEF h
    <3>4. /\ worker'[w].b = b /\ Others(w)
          /\ \/ worker'[w].pc = "deliver" /\ worker'[w].p = h /\ lost' = lost
             \/ worker'[w].pc = "settle" /\ lost' = lost \cup {h}
      BY <1>4, <1>5, <3>1
    <3> QED
      BY <1>1, <1>7, <3>2, <3>3, <3>4 DEF Listed
  <2> QED
    BY <2>1, <2>2
<1> QED
  BY <1>8, <1>9

LEMMA DeliverFact ==
  ASSUME TypeOK, WorkersReady, NEW w \in Workers, Deliver(w)
  PROVE  /\ worker[w].pc = "deliver" /\ worker[w].p \in Para /\ worker[w].b \in Bid
         /\ worker'[w].pc \in {"settle", "match"} /\ worker'[w].b = worker[w].b
         /\ Others(w)
         /\ free' = free \cup {worker[w].p}
         /\ UNCHANGED <<para, lost>> /\ SameLists
         /\ IF para[worker[w].p].timeout THEN UNCHANGED <<reply, waiting>>
            ELSE AnswerEmpty({worker[w].p})
                 \/ \E resp : Answer(worker[w].p, resp, worker[w].b)
<1> DEFINE b == worker[w].b
<1>1. worker[w].pc = "deliver" /\ worker[w].p \in Para /\ b \in Bid
  BY DEF Deliver, WorkersReady
<1>2. /\ bid \in [Bid -> BidState] /\ bid[b] \in BidState
      /\ worker \in [Workers -> WorkerState] /\ worker[w] \in WorkerState
  BY <1>1 DEF TypeOK
<1>3. worker'[w].pc \in {"settle", "match"} /\ worker'[w].b = b /\ Others(w)
  <2>1. CASE Goto(w, "settle")
    BY <2>1, WorkerFrame DEF Others
  <2>2. CASE worker' = [worker EXCEPT ![w].pc = "match", ![w].p = None, ![w].msg = Rest]
    BY <1>2, <2>2 DEF WorkerState, Others
  <2> QED
    BY <2>1, <2>2 DEF Deliver
<1>4. SameLists
  <2> DEFINE n == IF bid[b].active > 0 THEN bid[b].active - 1 ELSE bid[b].active
  <2>1. bid' = [bid EXCEPT ![b].active = n]
    BY DEF Deliver
  <2> HIDE DEF n, b
  <2> QED
    BY <1>1, <1>2, <2>1 DEF BidState, SameLists
<1> QED
  BY <1>1, <1>3, <1>4 DEF Deliver

\* the steps in which a worker has no parameter
Look(w) ==
  \/ Write(w) \/ \E b \in Bid : TakeEvent(w, b)
  \/ SortEvent(w) \/ DropBid(w) \/ Settle(w) \/ StopTimer(w)

LEMMA LookFact ==
  ASSUME TypeOK, WorkersReady, NEW w \in Workers, Look(w)
  PROVE  /\ ~Asking(w) /\ worker[w].pc # "deliver"
         /\ worker'[w].pc = "idle"
            \/ /\ worker'[w].pc \in {"bid", "check", "clear", "drop", "untimer"}
               /\ worker'[w].b \in Bid
         /\ Others(w)
         /\ UNCHANGED <<para, free, lost, reply, waiting>> /\ SameLists
<1>1. /\ bid \in [Bid -> BidState] /\ \A b \in Bid : bid[b] \in BidState
      /\ worker \in [Workers -> WorkerState] /\ worker[w] \in WorkerState
  BY DEF TypeOK
<1> DEFINE b == worker[w].b
<1>2. worker[w].pc \notin {"idle", "find", "refuse"} => b \in Bid
  BY DEF WorkersReady
<1> DEFINE Free == ~Asking(w) /\ worker[w].pc # "deliver"
           Done == worker'[w].pc = "idle" /\ Others(w)
           Same == UNCHANGED <<para, free, lost, reply, waiting>>
<1>10. worker[w].pc \in {"write", "bid", "drop", "settle", "untimer"} => Free
  BY DEF Asking
<1>11. Return(w) => Done
  BY WorkerFrame DEF Others
<1>3. CASE Write(w)
  <2>1. bid' = bid \/ bid' = [bid EXCEPT ![b].open = FALSE]
    BY <1>3 DEF Write
  <2>2. SameLists
    <3>1. CASE bid' = bid
      BY <3>1 DEF SameLists
    <3>2. CASE bid' = [bid EXCEPT ![b].open = FALSE]
      BY <1>1, <3>2 DEF BidState, SameLists
    <3> QED
      BY <2>1, <3>1, <3>2
  <2>3. worker[w].pc = "write" /\ Return(w) /\ Same
    BY <1>3 DEF Write
  <2> QED
    BY <1>10, <1>11, <2>2, <2>3
<1>4. ASSUME NEW c \in Bid, TakeEvent(w, c)
      PROVE  /\ worker[w].pc = "idle" /\ worker'[w].pc = "bid" /\ worker'[w].b = c
             /\ Others(w) /\ SameLists
             /\ UNCHANGED <<para, free, lost, reply, waiting>>
  <2> DEFINE ends == bid[c].open /\ ~wire[c].alive
             data == bid[c].open /\ wire[c].alive /\ wire[c].from # <<>>
             m == IF data THEN Head(wire[c].from) ELSE None
  <2>1. bid' = [bid EXCEPT ![c].events = @ - 1, ![c].open = @ /\ ~ends]
    BY <1>4 DEF TakeEvent
  <2>2. worker' = [worker EXCEPT ![w] = [Idle EXCEPT !.pc = "bid", !.b = c, !.msg = m]]
    BY <1>4 DEF TakeEvent
  <2> HIDE DEF ends, m
  <2>3. SameLists
    BY <1>1, <2>1 DEF BidState, SameLists
  <2>4. worker'[w].pc = "bid" /\ worker'[w].b = c /\ Others(w)
    BY <1>1, <2>2 DEF Idle, Others
  <2> QED
    BY <1>4, <2>3, <2>4 DEF TakeEvent
<1>5. CASE SortEvent(w)
  <2>1. bid' = bid \/ bid' = [bid EXCEPT ![b].ptr = FALSE]
    BY <1>5 DEF SortEvent
  <2>2. SameLists
    <3>1. CASE bid' = bid
      BY <3>1 DEF SameLists
    <3>2. CASE bid' = [bid EXCEPT ![b].ptr = FALSE]
      BY <1>1, <3>2 DEF BidState, SameLists
    <3> QED
      BY <2>1, <3>1, <3>2
  <2>3. worker[w].pc = "bid" /\ b \in Bid /\ Same
    BY <1>2, <1>5 DEF SortEvent
  <2>4. CASE Return(w)
    BY <1>10, <1>11, <2>2, <2>3, <2>4
  <2>5. CASE \E pc \in {"check", "clear", "drop"} : Goto(w, pc)
    <3>1. worker'[w].pc \in {"check", "clear", "drop"} /\ worker'[w].b = b /\ Others(w)
      BY <2>5, WorkerFrame DEF Others
    <3> QED
      BY <1>10, <2>2, <2>3, <3>1
  <2> QED
    BY <1>5, <2>4, <2>5 DEF SortEvent
<1>6. CASE DropBid(w)
  <2> DEFINE n == IF bid[b].active > 0 THEN bid[b].active - 1 ELSE bid[b].active
  <2>1. bid' = [bid EXCEPT ![b].reg = FALSE, ![b].active = n]
    BY <1>6 DEF DropBid
  <2> HIDE DEF n
  <2>2. SameLists
    BY <1>1, <1>2, <2>1 DEF BidState, SameLists
  <2>3. worker[w].pc = "drop" /\ Return(w) /\ Same
    BY <1>6 DEF DropBid
  <2> QED
    BY <1>10, <1>11, <2>2, <2>3
<1>7. CASE Settle(w)
  <2>1. worker[w].pc = "settle" /\ b \in Bid /\ Same /\ SameLists
    BY <1>2, <1>7 DEF Settle, SameLists
  <2>2. CASE Return(w)
    BY <1>10, <1>11, <2>1, <2>2
  <2>3. CASE Goto(w, "untimer")
    <3>1. worker'[w].pc = "untimer" /\ worker'[w].b = b /\ Others(w)
      BY <2>3, WorkerFrame DEF Others
    <3> QED
      BY <1>10, <2>1, <3>1
  <2> QED
    BY <1>7, <2>2, <2>3 DEF Settle
<1>8. CASE StopTimer(w)
  <2>1. bid' = [bid EXCEPT ![b].timer = FALSE]
    BY <1>8 DEF StopTimer
  <2>2. SameLists
    BY <1>1, <1>2, <2>1 DEF BidState, SameLists
  <2>3. worker[w].pc = "untimer" /\ Return(w) /\ Same
    BY <1>8 DEF StopTimer
  <2> QED
    BY <1>10, <1>11, <2>2, <2>3
<1> QED
  BY <1>3, <1>4, <1>5, <1>6, <1>7, <1>8 DEF Look, Asking

\* the steps in groups
LEMMA WorkerStepCases ==
  ASSUME NEW w \in Workers, WorkerStep(w)
  PROVE  \/ Ask(w) \/ Push(w) \/ Refuse(w) \/ Look(w) \/ ClearList(w)
         \/ \E k : CheckList(w, k)
         \/ MatchLocal(w) \/ MatchRemote(w) \/ Deliver(w)
BY DEF WorkerStep, Ask, Look

\* the engine's, the server thread's and the registering steps
Outside(b) ==
  \/ ReadEvent(b) \/ Unregister(b) \/ EngineTake(b) \/ EngineAnswer(b) \/ EngineCloses(b)
  \/ \E w \in Workers : Register(w, b)

LEMMA OutsideFact ==
  ASSUME TypeOK, NEW b \in Bid, Outside(b)
  PROVE  /\ \A p \in Para : para'[p].req = para[p].req /\ para'[p].timeout = para[p].timeout
         /\ UNCHANGED <<free, lost, reply, waiting, worker>> /\ SameLists
<1>1. /\ bid \in [Bid -> BidState] /\ bid[b] \in BidState
      /\ para \in [Para -> ParaState]
  BY DEF TypeOK
<1>2. CASE ReadEvent(b)
  BY <1>1, <1>2 DEF ReadEvent, SameLists, BidState
<1>3. CASE Unregister(b)
  BY <1>1, <1>3 DEF Unregister, SameLists, BidState
<1>4. ASSUME NEW w \in Workers, Register(w, b)
      PROVE  SameLists /\ UNCHANGED <<para, free, lost, reply, waiting, worker>>
  <2>1. bid' = [bid EXCEPT ![b].ptr = TRUE, ![b].active = bid[b].active + 1, ![b].reg = TRUE]
    BY <1>4 DEF Register
  <2> QED
    BY <1>1, <1>4, <2>1 DEF Register, SameLists, BidState
<1>5. CASE EngineTake(b)
  BY <1>5 DEF EngineTake, SameLists
<1>6. CASE EngineAnswer(b)
  <2>1. para' = para \/ para' = [para EXCEPT ![wire[b].busy].resp = wire[b].req]
    BY <1>6 DEF EngineAnswer
  <2>2. \A p \in Para : para'[p].req = para[p].req /\ para'[p].timeout = para[p].timeout
    BY <1>1, <2>1 DEF ParaState
  <2> QED
    BY <1>6, <2>2 DEF EngineAnswer, SameLists
<1>7. CASE EngineCloses(b)
  BY <1>7 DEF EngineCloses, SameLists
<1> QED
  BY <1>2, <1>3, <1>4, <1>5, <1>6, <1>7 DEF Outside

LEMMA NextCases ==
  ASSUME [Next]_vars
  PROVE  \/ \E w \in Workers : \E r \in Request : TakeRequest(w, r)
         \/ \E w \in Workers : WorkerStep(w)
         \/ \E b \in Bid : Outside(b)
         \/ UNCHANGED vars
BY DEF Next, Outside

LEMMA MarkFact ==
  ASSUME TypeOK, NEW ps, Mark(ps)
  PROVE  \A p \in Para : /\ para'[p].req = para[p].req
                         /\ p \in ps => para'[p].timeout
                         /\ p \notin ps => para'[p].timeout = para[p].timeout
BY DEF TypeOK, ParaState, Mark

-----------------------------------------------------------------------------
(* WorkersReady.                                                           *)

Ready(v) ==
  /\ worker[v].pc \notin {"idle", "find", "refuse"} => worker[v].b \in Bid
  /\ Asking(v) \/ worker[v].pc \in {"write", "deliver"} => worker[v].p \in Para
  /\ worker[v].pc = "write" => para[worker[v].p].req \in Request

LEMMA ReqKept ==
  ASSUME TypeOK, WorkersReady, OneHome, [Next]_vars,
         NEW p \in Para, para[p].req \in Request
  PROVE  para'[p].req \in Request
<1>1. ASSUME NEW w \in Workers, NEW r \in Request, TakeRequest(w, r)
      PROVE  para'[p].req \in Request
  <2>1. PICK q \in free : para' = [para EXCEPT ![q] = [req |-> r, timeout |-> FALSE, resp |-> None]]
    BY <1>1, TakeFact
  <2> QED
    BY <2>1 DEF TypeOK
<1>2. ASSUME NEW w \in Workers, WorkerStep(w)
      PROVE  para'[p].req = para[p].req
  <2>1. CASE Ask(w)
    BY <2>1, AskFact
  <2>2. CASE Push(w)
    BY <2>2, PushFact
  <2>3. CASE Refuse(w)
    BY <2>3, RefuseFact
  <2>4. CASE Look(w)
    BY <2>4, LookFact
  <2>5. CASE ClearList(w)
    BY <2>5, ClearFact, MarkFact
  <2>6. ASSUME NEW k, CheckList(w, k)
        PROVE  para'[p].req = para[p].req
    BY <2>6, CheckFact, MarkFact
  <2>7. CASE MatchLocal(w) \/ MatchRemote(w)
    BY <2>7, MatchFact
  <2>8. CASE Deliver(w)
    BY <2>8, DeliverFact
  <2> QED
    BY <1>2, <2>1, <2>2, <2>3, <2>4, <2>5, <2>6, <2>7, <2>8, WorkerStepCases
<1>3. ASSUME NEW b \in Bid, Outside(b)
      PROVE  para'[p].req = para[p].req
  BY <1>3, OutsideFact
<1>4. CASE UNCHANGED vars
  BY <1>4 DEF vars
<1> QED
  BY <1>1, <1>2, <1>3, <1>4, NextCases

LEMMA ReadyStep ==
  ASSUME DispatchInv, [Next]_vars
  PROVE  WorkersReady'
<1> USE DEF DispatchInv
<1> SUFFICES ASSUME NEW v \in Workers
             PROVE  Ready(v)'
  BY DEF WorkersReady, Ready
<1>1. Ready(v)
  BY DEF WorkersReady, Ready
<1>2. worker'[v] = worker[v] => Ready(v)'
  BY <1>1, ReqKept DEF Ready, Asking
<1>3. ASSUME NEW w \in Workers, NEW r \in Request, TakeRequest(w, r)
      PROVE  Ready(v)'
  <2>1. Others(w)
    BY <1>3, TakeFact
  <2>2. CASE v = w
    <3>1. worker'[w].pc \in {"find", "refuse"} /\ worker'[w].p \in Para
      BY <1>3, TakeFact DEF TypeOK
    <3> QED
      BY <2>2, <3>1 DEF Ready
  <2> QED
    BY <1>2, <2>1, <2>2 DEF Others
<1>4. ASSUME NEW w \in Workers, WorkerStep(w)
      PROVE  Ready(v)'
  <2>0. Ready(w)
    BY DEF WorkersReady, Ready
  <2>1. CASE Ask(w)
    <3>1. /\ Asking(w) /\ Asking(w)' /\ worker'[w].p = worker[w].p /\ Others(w)
          /\ worker'[w].pc \in {"find", "refuse"} \/ worker'[w].b \in Bid
      BY <2>1, AskFact DEF Others
    <3>2. Ready(w)'
      BY <2>0, <3>1 DEF Ready, Asking
    <3> QED
      BY <1>2, <3>1, <3>2 DEF Others
  <2>2. CASE Push(w)
    <3>1. /\ Asking(w) /\ worker'[w].pc = "write" /\ worker'[w].p = worker[w].p
          /\ worker'[w].b = worker[w].b /\ worker[w].b \in Bid /\ Others(w)
          /\ para' = para
      BY <2>2, PushFact
    <3>2. worker[w].p \in Para \ free
      BY <2>0, <3>1 DEF Ready, OneHome, Held
    <3>3. para[worker[w].p].req \in Request
      BY <3>2 DEF TimeoutIsAnswer
    <3>4. Ready(w)'
      BY <3>1, <3>2, <3>3 DEF Ready
    <3> QED
      BY <1>2, <3>1, <3>4 DEF Others
  <2>3. CASE Refuse(w)
    <3>1. worker'[w].pc = "idle" /\ Others(w)
      BY <2>3, RefuseFact
    <3>2. Ready(w)'
      BY <3>1 DEF Ready, Asking
    <3> QED
      BY <1>2, <3>1, <3>2 DEF Others
  <2>4. CASE Look(w)
    <3>1. /\ \/ worker'[w].pc = "idle"
             \/ /\ worker'[w].pc \in {"bid", "check", "clear", "drop", "untimer"}
                /\ worker'[w].b \in Bid
          /\ Others(w)
      BY <2>4, LookFact
    <3>2. Ready(w)'
      BY <3>1 DEF Ready, Asking
    <3> QED
      BY <1>2, <3>1, <3>2 DEF Others
  <2>5. CASE ClearList(w)
    <3>1. worker'[w].pc = "drop" /\ worker'[w].b \in Bid /\ Others(w)
      BY <2>5, ClearFact
    <3>2. Ready(w)'
      BY <3>1 DEF Ready, Asking
    <3> QED
      BY <1>2, <3>1, <3>2 DEF Others
  <2>6. ASSUME NEW k, CheckList(w, k)
        PROVE  Ready(v)'
    <3>1. /\ worker'[w].pc = "idle" \/ (worker'[w].pc = "match" /\ worker'[w].b \in Bid)
          /\ Others(w)
      BY <2>6, CheckFact
    <3>2. Ready(w)'
      BY <3>1 DEF Ready, Asking
    <3> QED
      BY <1>2, <3>1, <3>2 DEF Others
  <2>7. CASE MatchLocal(w) \/ MatchRemote(w)
    <3>1. /\ worker'[w].b \in Bid /\ Others(w)
          /\ worker'[w].pc = "settle" \/ (worker'[w].pc = "deliver" /\ worker'[w].p \in Para)
      BY <2>7, MatchFact
    <3>2. Ready(w)'
      BY <3>1 DEF Ready, Asking
    <3> QED
      BY <1>2, <3>1, <3>2 DEF Others
  <2>8. CASE Deliver(w)
    <3>1. worker'[w].pc \in {"settle", "match"} /\ worker'[w].b \in Bid /\ Others(w)
      BY <2>8, DeliverFact
    <3>2. Ready(w)'
      BY <3>1 DEF Ready, Asking
    <3> QED
      BY <1>2, <3>1, <3>2 DEF Others
  <2> QED
    BY <1>4, <2>1, <2>2, <2>3, <2>4, <2>5, <2>6, <2>7, <2>8, WorkerStepCases
<1>5. ASSUME NEW b \in Bid, Outside(b)
      PROVE  Ready(v)'
  BY <1>2, <1>5, OutsideFact
<1>6. CASE UNCHANGED vars
  BY <1>2, <1>6 DEF vars
<1> QED
  BY <1>3, <1>4, <1>5, <1>6, NextCases

-----------------------------------------------------------------------------
(* OneHome.                                                                *)

LEMMA HeldFrame ==
  ASSUME NEW w \in Workers, Others(w)
  PROVE  \A v \in Workers \ {w} : Held(v)' = Held(v)
BY DEF Others, Held, Asking

LEMMA ListFrame ==
  ASSUME NEW b \in Bid, bid'[b].list = bid[b].list
  PROVE  Listed(b)' = Listed(b)
BY DEF Listed, ToSet

LEMMA HomeKept ==
  ASSUME OneHome, UNCHANGED <<free, lost>>, SameLists,
         \A v \in Workers : Held(v)' = Held(v)
  PROVE  OneHome'
<1>1. \A b \in Bid : Listed(b)' = Listed(b) /\ (IsInjective(bid[b].list) => IsInjective(bid'[b].list))
  BY ListFrame DEF SameLists
<1> QED
  BY <1>1 DEF OneHome

LEMMA HomeStep ==
  ASSUME DispatchInv, [Next]_vars
  PROVE  OneHome'
<1> USE DEF DispatchInv
<1>1. ASSUME NEW w \in Workers, NEW r \in Request, TakeRequest(w, r)
      PROVE  OneHome'
  <2>1. PICK p \in free :
          /\ free' = free \ {p} /\ lost' = lost /\ SameLists
          /\ worker[w].pc = "idle" /\ Asking(w)' /\ worker'[w].p = p
          /\ Others(w)
    BY <1>1, TakeFact
  <2>2. Held(w) = {} /\ Held(w)' = {p}
    BY <2>1 DEF Held, Asking
  <2>3. \A v \in Workers \ {w} : Held(v)' = Held(v)
    BY <2>1, HeldFrame
  <2>4. \A b \in Bid : Listed(b)' = Listed(b) /\ (IsInjective(bid[b].list) => IsInjective(bid'[b].list))
    BY <2>1, ListFrame DEF SameLists
  <2> QED
    BY <2>1, <2>2, <2>3, <2>4 DEF OneHome
<1>2. ASSUME NEW w \in Workers, WorkerStep(w)
      PROVE  OneHome'
  <2> DEFINE p == worker[w].p
  <2>1. CASE Ask(w)
    <3>1. Asking(w) /\ Asking(w)' /\ worker'[w].p = p /\ Others(w) /\ SameLists
          /\ UNCHANGED <<free, lost>>
      BY <2>1, AskFact DEF Others, SameLists
    <3>2. Held(w)' = Held(w)
      BY <3>1 DEF Held
    <3> QED
      BY <3>1, <3>2, HeldFrame, HomeKept
  <2>2. CASE Push(w)
    <3>0. PICK b \in Bid : b = worker[w].b
      BY <2>2, PushFact
    <3>1. Asking(w) /\ worker'[w].pc = "write" /\ Others(w) /\ free' = free
      BY <2>2, PushFact
    <3>2. Held(w) = {p} /\ Held(w)' = {}
      BY <3>1 DEF Held, Asking
    <3>3. \A v \in Workers \ {w} : Held(v)' = Held(v)
      BY <3>1, HeldFrame
    <3>4. CASE /\ lost' = lost
               /\ \A c \in Bid \ {b} : bid'[c].list = bid[c].list
               /\ bid'[b].list = Append(bid[b].list, p)
      <4>1. p \in Para /\ bid[b].list \in Seq(Para)
        BY <3>1, BidFields DEF WorkersReady, TypeOK
      <4>2. p \notin Listed(b) /\ IsInjective(bid[b].list)
        BY <3>1, <3>2 DEF OneHome
      <4>3. Listed(b)' = Listed(b) \cup {p} /\ IsInjective(bid'[b].list)
        BY <3>4, <4>1, <4>2, AppendFact DEF Listed
      <4>4. \A c \in Bid \ {b} :
              Listed(c)' = Listed(c) /\ (IsInjective(bid[c].list) => IsInjective(bid'[c].list))
        BY <3>4, ListFrame
      <4> HIDE DEF p
      <4>5. ASSUME NEW q \in Para
            PROVE  \/ q \in free' \cup lost'
                   \/ \E c \in Bid : q \in Listed(c)'
                   \/ \E v \in Workers : q \in Held(v)'
        BY <3>1, <3>2, <3>3, <3>4, <4>3, <4>4 DEF OneHome
      <4>6. p \notin free \cup lost /\ \A c \in Bid : p \notin Listed(c)
        BY <3>2 DEF OneHome
      <4>7. ASSUME NEW c \in Bid
            PROVE  /\ IsInjective(bid'[c].list)
                   /\ Listed(c)' \cap (free' \cup lost') = {}
                   /\ \A d \in Bid \ {c} : Listed(c)' \cap Listed(d)' = {}
        <5>1. \A d \in Bid : IsInjective(bid[d].list) /\ Listed(d) \cap (free \cup lost) = {}
          BY DEF OneHome
        <5>2. \A d, e \in Bid : d # e => Listed(d) \cap Listed(e) = {}
          BY DEF OneHome
        <5>3. free' = free /\ lost' = lost
          BY <3>1, <3>4
        <5>4. CASE c = b
          BY <4>3, <4>4, <4>6, <5>1, <5>2, <5>3, <5>4
        <5>5. CASE c # b
          BY <4>3, <4>4, <4>6, <5>1, <5>2, <5>3, <5>5
        <5> QED
          BY <5>4, <5>5
      <4>8. ASSUME NEW v \in Workers
            PROVE  /\ Held(v)' \cap (free' \cup lost') = {}
                   /\ \A c \in Bid : Held(v)' \cap Listed(c)' = {}
                   /\ \A u \in Workers \ {v} : Held(v)' \cap Held(u)' = {}
        BY <3>1, <3>2, <3>3, <3>4, <4>3, <4>4 DEF OneHome
      <4> QED
        BY <3>1, <3>4, <4>5, <4>7, <4>8 DEF OneHome
    <3>5. CASE lost' = lost \cup {p} /\ SameLists
      <4>1. \A c \in Bid :
              Listed(c)' = Listed(c) /\ (IsInjective(bid[c].list) => IsInjective(bid'[c].list))
        BY <3>5, ListFrame DEF SameLists
      <4> HIDE DEF p
      <4> QED
        BY <3>1, <3>2, <3>3, <3>5, <4>1 DEF OneHome
    <3> QED
      BY <2>2, <3>0, <3>4, <3>5, PushFact
  <2>3. CASE Refuse(w)
    <3>1. /\ Asking(w) /\ worker'[w].pc = "idle" /\ Others(w)
          /\ free' = free \cup {p} /\ lost' = lost /\ SameLists
      BY <2>3, RefuseFact
    <3>2. Held(w) = {p} /\ Held(w)' = {}
      BY <3>1 DEF Held, Asking
    <3>3. \A v \in Workers \ {w} : Held(v)' = Held(v)
      BY <3>1, HeldFrame
    <3>4. \A c \in Bid :
            Listed(c)' = Listed(c) /\ (IsInjective(bid[c].list) => IsInjective(bid'[c].list))
      BY <3>1, ListFrame DEF SameLists
    <3> HIDE DEF p
    <3> QED
      BY <3>1, <3>2, <3>3, <3>4 DEF OneHome
  <2>4. CASE Look(w)
    <3>1. /\ ~Asking(w) /\ worker[w].pc # "deliver"
          /\ worker'[w].pc \in {"idle", "bid", "check", "clear", "drop", "untimer"}
          /\ Others(w) /\ SameLists /\ UNCHANGED <<free, lost>>
      BY <2>4, LookFact
    <3>2. Held(w)' = Held(w)
      BY <3>1 DEF Held, Asking
    <3> QED
      BY <3>1, <3>2, HeldFrame, HomeKept
  <2>5. CASE ClearList(w)
    <3>0. PICK b \in Bid : b = worker[w].b
      BY <2>5, ClearFact
    <3>1. /\ worker[w].pc = "clear" /\ worker'[w].pc = "drop" /\ Others(w)
          /\ free' = free \cup Listed(b) /\ lost' = lost
          /\ \A c \in Bid \ {b} : bid'[c].list = bid[c].list
          /\ bid'[b].list = <<>>
      BY <2>5, <3>0, ClearFact
    <3>2. Held(w) = {} /\ Held(w)' = {}
      BY <3>1 DEF Held, Asking
    <3>3. \A v \in Workers : Held(v)' = Held(v)
      BY <3>1, <3>2, HeldFrame
    <3>4. Listed(b)' = {} /\ IsInjective(bid'[b].list)
      BY <3>1 DEF Listed, ToSet, IsInjective
    <3>5. \A c \in Bid \ {b} :
            Listed(c)' = Listed(c) /\ (IsInjective(bid[c].list) => IsInjective(bid'[c].list))
      BY <3>1, ListFrame
    <3> HIDE DEF p
    <3> QED
      BY <3>1, <3>3, <3>4, <3>5 DEF OneHome
  <2>6. ASSUME NEW k, CheckList(w, k)
        PROVE  OneHome'
    <3>1. /\ worker[w].pc = "check" /\ worker'[w].pc \in {"idle", "match"} /\ Others(w)
          /\ UNCHANGED <<free, lost>> /\ SameLists
      BY <2>6, CheckFact
    <3>2. Held(w)' = Held(w)
      BY <3>1 DEF Held, Asking
    <3> QED
      BY <3>1, <3>2, HeldFrame, HomeKept
  <2>7. CASE MatchLocal(w) \/ MatchRemote(w)
    <3>0. PICK b \in Bid : b = worker[w].b
      BY <2>7, MatchFact
    <3>1. worker[w].pc = "match" /\ Others(w) /\ free' = free
      BY <2>7, MatchFact
    <3>2. Held(w) = {}
      BY <3>1 DEF Held, Asking
    <3>3. \A v \in Workers \ {w} : Held(v)' = Held(v)
      BY <3>1, HeldFrame
    <3>4. CASE SameLists /\ lost' = lost /\ worker'[w].pc = "settle"
      <4>1. Held(w)' = {}
        BY <3>4 DEF Held, Asking
      <4> QED
        BY <3>1, <3>2, <3>3, <3>4, <4>1, HomeKept
    <3>5. ASSUME NEW q \in Listed(b),
                 \A c \in Bid \ {b} : bid'[c].list = bid[c].list,
                 IsInjective(bid'[b].list),
                 ToSet(bid'[b].list) = Listed(b) \ {q},
                 \/ worker'[w].pc = "deliver" /\ worker'[w].p = q /\ lost' = lost
                 \/ worker'[w].pc = "settle" /\ lost' = lost \cup {q}
          PROVE  OneHome'
      <4>1. \/ Held(w)' = {q} /\ lost' = lost
            \/ Held(w)' = {} /\ lost' = lost \cup {q}
        BY <3>5 DEF Held, Asking
      <4>2. Listed(b)' = Listed(b) \ {q}
        BY <3>5 DEF Listed
      <4>3. \A c \in Bid \ {b} :
              Listed(c)' = Listed(c) /\ (IsInjective(bid[c].list) => IsInjective(bid'[c].list))
        BY <3>5, ListFrame
      <4>4. IsInjective(bid'[b].list)
        BY <3>5
      <4> HIDE DEF p
      <4>5. CASE Held(w)' = {q} /\ lost' = lost
        BY <3>1, <3>2, <3>3, <4>2, <4>3, <4>4, <4>5 DEF OneHome
      <4>6. CASE Held(w)' = {} /\ lost' = lost \cup {q}
        BY <3>1, <3>2, <3>3, <4>2, <4>3, <4>4, <4>6 DEF OneHome
      <4> QED
        BY <4>1, <4>5, <4>6
    <3> QED
      BY <2>7, <3>0, <3>4, <3>5, MatchFact
  <2>8. CASE Deliver(w)
    <3>1. /\ worker[w].pc = "deliver" /\ worker'[w].pc \in {"settle", "match"} /\ Others(w)
          /\ free' = free \cup {p} /\ lost' = lost /\ SameLists
      BY <2>8, DeliverFact
    <3>2. Held(w) = {p} /\ Held(w)' = {}
      BY <3>1 DEF Held, Asking
    <3>3. \A v \in Workers \ {w} : Held(v)' = Held(v)
      BY <3>1, HeldFrame
    <3>4. \A c \in Bid :
            Listed(c)' = Listed(c) /\ (IsInjective(bid[c].list) => IsInjective(bid'[c].list))
      BY <3>1, ListFrame DEF SameLists
    <3> HIDE DEF p
    <3> QED
      BY <3>1, <3>2, <3>3, <3>4 DEF OneHome
  <2> QED
    BY <1>2, <2>1, <2>2, <2>3, <2>4, <2>5, <2>6, <2>7, <2>8, WorkerStepCases
<1>3. ASSUME NEW b \in Bid, Outside(b)
      PROVE  OneHome'
  <2>1. UNCHANGED <<free, lost, worker>> /\ SameLists
    BY <1>3, OutsideFact
  <2>2. \A v \in Workers : Held(v)' = Held(v)
    BY <2>1 DEF Held, Asking
  <2> QED
    BY <2>1, <2>2, HomeKept
<1>4. CASE UNCHANGED vars
  <2>1. UNCHANGED <<free, lost, worker>> /\ SameLists
    BY <1>4 DEF vars, SameLists
  <2>2. \A v \in Workers : Held(v)' = Held(v)
    BY <2>1 DEF Held, Asking
  <2> QED
    BY <2>1, <2>2, HomeKept
<1> QED
  BY <1>1, <1>2, <1>3, <1>4, NextCases

-----------------------------------------------------------------------------
(* AnsweredOnce and TimeoutIsAnswer.                                       *)

\* the requests of the parameters ps, and no other, have just been answered
Answered(ps) ==
  /\ \A p \in Para \ free :
       /\ reply'[para[p].req].n = (IF para[p].timeout \/ p \in ps THEN 1 ELSE 0)
       /\ waiting'[para[p].req] = (IF para[p].timeout \/ p \in ps THEN 0 ELSE 1)
  /\ AnsweredOnce'

LEMMA NoneAnswered ==
  ASSUME AnsweredOnce, TimeoutIsAnswer, UNCHANGED <<reply, waiting>>
  PROVE  Answered({})
BY DEF Answered, AnsweredOnce, TimeoutIsAnswer

LEMMA EmptyAnswered ==
  ASSUME TypeOK, AnsweredOnce, TimeoutIsAnswer, NEW ps \in SUBSET (Para \ free),
         \A p \in ps : ~para[p].timeout, AnswerEmpty(ps)
  PROVE  Answered(ps)
<1> DEFINE rs == {para[p].req : p \in ps}
<1>1. \A r \in Request :
        /\ reply'[r].n = IF r \in rs THEN reply[r].n + 1 ELSE reply[r].n
        /\ waiting'[r] = IF r \in rs /\ waiting[r] > 0 THEN waiting[r] - 1 ELSE waiting[r]
  BY DEF AnswerEmpty
<1>2. ASSUME NEW p \in Para \ free
      PROVE  para[p].req \in rs <=> p \in ps
  <2>1. \A q \in ps : para[q].req = para[p].req => q = p
    BY DEF TimeoutIsAnswer
  <2> QED
    BY <2>1
<1>3. \A r \in rs : r \in Request /\ reply[r].n = 0 /\ waiting[r] = 1
  BY DEF TimeoutIsAnswer
<1> HIDE DEF rs
<1>4. ASSUME NEW p \in Para \ free
      PROVE  /\ reply'[para[p].req].n = (IF para[p].timeout \/ p \in ps THEN 1 ELSE 0)
             /\ waiting'[para[p].req] = (IF para[p].timeout \/ p \in ps THEN 0 ELSE 1)
  <2>1. /\ para[p].req \in Request
        /\ reply[para[p].req].n = (IF para[p].timeout THEN 1 ELSE 0)
        /\ waiting[para[p].req] = (IF para[p].timeout THEN 0 ELSE 1)
    BY DEF TimeoutIsAnswer
  <2> QED
    BY <1>1, <1>2, <1>3, <2>1
<1>5. AnsweredOnce'
  <2>1. ASSUME NEW r \in Request
        PROVE  waiting'[r] + reply'[r].n <= 1
    <3>1. waiting[r] \in Nat /\ reply[r].n \in Nat /\ waiting[r] + reply[r].n <= 1
      BY DEF TypeOK, ReplyState, AnsweredOnce
    <3> QED
      BY <1>1, <1>3, <3>1
  <2> QED
    BY <2>1 DEF AnsweredOnce
<1> QED
  BY <1>4, <1>5 DEF Answered

LEMMA OneAnswered ==
  ASSUME TypeOK, AnsweredOnce, TimeoutIsAnswer, NEW p \in Para \ free,
         ~para[p].timeout, NEW resp, NEW b, Answer(p, resp, b)
  PROVE  Answered({p})
<1> DEFINE r == para[p].req
<1>1. r \in Request /\ reply[r].n = 0 /\ waiting[r] = 1
  BY DEF TimeoutIsAnswer
<1>2. /\ reply' = [reply EXCEPT ![r] = [n |-> reply[r].n + 1, from |-> resp, by |-> b]]
      /\ waiting' = [waiting EXCEPT ![r] = IF waiting[r] > 0 THEN waiting[r] - 1 ELSE waiting[r]]
  BY DEF Answer
<1>3. \A q \in Para \ free : para[q].req = r => q = p
  BY DEF TimeoutIsAnswer
<1> HIDE DEF r
<1>4. /\ reply'[r].n = 1 /\ waiting'[r] = 0
      /\ \A s \in Request \ {r} : reply'[s] = reply[s] /\ waiting'[s] = waiting[s]
  BY <1>1, <1>2 DEF TypeOK
<1>5. ASSUME NEW q \in Para \ free
      PROVE  /\ reply'[para[q].req].n = (IF para[q].timeout \/ q \in {p} THEN 1 ELSE 0)
             /\ waiting'[para[q].req] = (IF para[q].timeout \/ q \in {p} THEN 0 ELSE 1)
  <2>1. CASE q = p
    BY <1>4, <2>1 DEF r
  <2>2. CASE q # p
    <3>1. /\ para[q].req \in Request
          /\ reply[para[q].req].n = (IF para[q].timeout THEN 1 ELSE 0)
          /\ waiting[para[q].req] = (IF para[q].timeout THEN 0 ELSE 1)
      BY DEF TimeoutIsAnswer
    <3>2. para[q].req # r
      BY <1>3, <2>2
    <3> QED
      BY <1>4, <2>2, <3>1, <3>2
  <2> QED
    BY <2>1, <2>2
<1>6. AnsweredOnce'
  <2>1. ASSUME NEW s \in Request
        PROVE  waiting'[s] + reply'[s].n <= 1
    BY <1>1, <1>4 DEF AnsweredOnce
  <2> QED
    BY <2>1 DEF AnsweredOnce
<1> QED
  BY <1>5, <1>6 DEF Answered

LEMMA RequestKept ==
  ASSUME TypeOK, TimeoutIsAnswer, NEW ps, Answered(ps), free \subseteq free',
         \A p \in Para \ free' :
           /\ para'[p].req = para[p].req
           /\ para'[p].timeout <=> para[p].timeout \/ p \in ps,
         \A v \in Workers : Asking(v)' =>
           Asking(v) /\ worker'[v].p = worker[v].p /\ ~para'[worker[v].p].timeout
  PROVE  AnsweredOnce' /\ TimeoutIsAnswer'
<1>1. ASSUME NEW p \in Para \ free'
      PROVE  /\ para'[p].req \in Request
             /\ reply'[para'[p].req].n = (IF para'[p].timeout THEN 1 ELSE 0)
             /\ waiting'[para'[p].req] = (IF para'[p].timeout THEN 0 ELSE 1)
  BY DEF Answered, TimeoutIsAnswer
<1>2. ASSUME NEW p \in Para \ free', NEW q \in Para \ free', para'[p].req = para'[q].req
      PROVE  p = q
  BY <1>2 DEF TimeoutIsAnswer
<1>3. \A v \in Workers : Asking(v)' => ~para'[worker'[v].p].timeout
  OBVIOUS
<1> QED
  BY <1>1, <1>2, <1>3 DEF TimeoutIsAnswer, Answered

LEMMA RequestStep ==
  ASSUME DispatchInv, [Next]_vars
  PROVE  AnsweredOnce' /\ TimeoutIsAnswer'
<1> USE DEF DispatchInv
\* what an asking worker has is nobody else's, and not timed out
<1>1. ASSUME NEW v \in Workers, Asking(v)
      PROVE  /\ worker[v].p \in Para \ free /\ ~para[worker[v].p].timeout
             /\ \A b \in Bid : worker[v].p \notin Listed(b)
             /\ \A w \in Workers \ {v} : worker[v].p \notin Held(w)
  <2>1. Held(v) = {worker[v].p}
    BY <1>1 DEF Held
  <2> QED
    BY <1>1, <2>1 DEF OneHome, WorkersReady, TimeoutIsAnswer
<1>2. ASSUME NEW w \in Workers, Others(w)
      PROVE  \A v \in Workers \ {w} : Asking(v)' => Asking(v) /\ worker'[v].p = worker[v].p
  BY <1>2 DEF Others, Asking
\* steps that answer nothing
<1>3. ASSUME UNCHANGED <<free, reply, waiting>>,
             \A p \in Para : para'[p].req = para[p].req /\ para'[p].timeout = para[p].timeout,
             \A v \in Workers : Asking(v)' => Asking(v) /\ worker'[v].p = worker[v].p
      PROVE  AnsweredOnce' /\ TimeoutIsAnswer'
  <2>1. Answered({})
    BY <1>3, NoneAnswered
  <2>2. \A v \in Workers : Asking(v)' =>
          Asking(v) /\ worker'[v].p = worker[v].p /\ ~para'[worker[v].p].timeout
    BY <1>1, <1>3
  <2>3. \A p \in Para \ free' :
           /\ para'[p].req = para[p].req
           /\ para'[p].timeout <=> para[p].timeout \/ p \in {}
    BY <1>3
  <2> QED
    BY <1>3, <2>1, <2>2, <2>3, RequestKept
<1>4. ASSUME NEW w \in Workers, NEW r \in Request, TakeRequest(w, r)
      PROVE  AnsweredOnce' /\ TimeoutIsAnswer'
  <2>1. PICK p \in free :
          /\ para' = [para EXCEPT ![p] = [req |-> r, timeout |-> FALSE, resp |-> None]]
          /\ free' = free \ {p}
          /\ waiting' = [waiting EXCEPT ![r] = @ + 1]
          /\ reply[r].n = 0 /\ waiting[r] = 0 /\ reply' = reply
          /\ worker'[w].p = p /\ Others(w)
    BY <1>4, TakeFact
  <2>2. /\ p \in Para /\ para'[p].req = r /\ para'[p].timeout = FALSE
        /\ \A q \in Para \ {p} : para'[q] = para[q]
    BY <2>1 DEF TypeOK
  <2>3. /\ waiting'[r] = 1
        /\ \A s \in Request \ {r} : waiting'[s] = waiting[s]
    BY <2>1 DEF TypeOK
  <2>4. \A q \in Para \ free : para[q].req # r
    BY <2>1 DEF TimeoutIsAnswer
  <2>5. AnsweredOnce'
    BY <2>1, <2>3 DEF AnsweredOnce
  <2>6. ASSUME NEW q \in Para \ free'
        PROVE  /\ para'[q].req \in Request
               /\ reply'[para'[q].req].n = (IF para'[q].timeout THEN 1 ELSE 0)
               /\ waiting'[para'[q].req] = (IF para'[q].timeout THEN 0 ELSE 1)
    <3>1. CASE q = p
      BY <2>1, <2>2, <2>3, <3>1
    <3>2. CASE q # p
      <4>1. q \in Para \ free
        BY <2>1, <3>2
      <4>2. /\ para[q].req \in Request
            /\ reply[para[q].req].n = (IF para[q].timeout THEN 1 ELSE 0)
            /\ waiting[para[q].req] = (IF para[q].timeout THEN 0 ELSE 1)
        BY <4>1 DEF TimeoutIsAnswer
      <4> QED
        BY <2>1, <2>2, <2>3, <2>4, <3>2, <4>1, <4>2
    <3> QED
      BY <3>1, <3>2
  <2>7. ASSUME NEW q \in Para \ free', NEW s \in Para \ free', para'[q].req = para'[s].req
        PROVE  q = s
    <3>1. \A t \in Para \ free' : t = p \/ (t \in Para \ free /\ para'[t] = para[t])
      BY <2>1, <2>2
    <3> QED
      BY <2>2, <2>4, <2>7, <3>1 DEF TimeoutIsAnswer
  <2>8. ASSUME NEW v \in Workers, Asking(v)'
        PROVE  ~para'[worker'[v].p].timeout
    <3>1. CASE v = w
      BY <2>1, <2>2, <3>1
    <3>2. CASE v # w
      <4>1. Asking(v) /\ worker'[v].p = worker[v].p
        BY <1>2, <2>1, <2>8, <3>2
      <4>2. worker[v].p \in Para \ free /\ ~para[worker[v].p].timeout
        BY <1>1, <4>1
      <4> QED
        BY <2>1, <2>2, <4>1, <4>2
    <3> QED
      BY <3>1, <3>2
  <2> QED
    BY <2>5, <2>6, <2>7, <2>8 DEF TimeoutIsAnswer
<1>5. ASSUME NEW w \in Workers, WorkerStep(w)
      PROVE  AnsweredOnce' /\ TimeoutIsAnswer'
  <2> DEFINE p == worker[w].p
  <2>1. CASE Ask(w)
    BY <1>2, <1>3, <2>1, AskFact DEF Others
  <2>2. CASE Push(w)
    <3>1. Others(w) /\ ~Asking(w)' /\ UNCHANGED <<para, free, reply, waiting>>
      BY <2>2, PushFact DEF Asking
    <3> QED
      BY <1>2, <1>3, <3>1
  <2>3. CASE Refuse(w)
    <3>1. /\ Asking(w) /\ Others(w) /\ ~Asking(w)' /\ free' = free \cup {p}
          /\ AnswerEmpty({p}) /\ para' = para
      BY <2>3, RefuseFact DEF Asking
    <3>2. Answered({p})
      BY <1>1, <3>1, EmptyAnswered
    <3>3. \A v \in Workers : Asking(v)' =>
            Asking(v) /\ worker'[v].p = worker[v].p /\ ~para'[worker[v].p].timeout
      BY <1>1, <1>2, <3>1
    <3> HIDE DEF p
    <3>4. \A q \in Para \ free' : /\ para'[q].req = para[q].req
                                  /\ para'[q].timeout <=> para[q].timeout \/ q \in {p}
      BY <3>1
    <3>5. free \subseteq free'
      BY <3>1
    <3> QED
      BY <3>2, <3>3, <3>4, <3>5, RequestKept
  <2>4. CASE Look(w)
    <3>1. /\ Others(w) /\ UNCHANGED <<para, free, reply, waiting>>
          /\ worker'[w].pc \in {"idle", "bid", "check", "clear", "drop", "untimer"}
      BY <2>4, LookFact
    <3>2. ~Asking(w)'
      BY <3>1 DEF Asking
    <3> QED
      BY <1>2, <1>3, <3>1, <3>2
  <2>5. CASE ClearList(w)
    <3>0. PICK b \in Bid : b = worker[w].b
      BY <2>5, ClearFact
    <3> DEFINE ps == Live(Listed(b))
    <3>1. /\ worker'[w].pc = "drop" /\ Others(w) /\ free' = free \cup Listed(b)
          /\ AnswerEmpty(ps) /\ Mark(Listed(b))
      BY <2>5, <3>0, ClearFact
    <3>2. ps \subseteq Para \ free /\ \A q \in ps : ~para[q].timeout
      <4>1. Listed(b) \subseteq Para
        BY BidFields, ElementOfSeq, LenProperties DEF Listed, ToSet, TypeOK
      <4> QED
        BY <4>1 DEF OneHome, Live
    <3>3. Answered(ps)
      BY <3>1, <3>2, EmptyAnswered
    <3>4. \A q \in Para \ free' : /\ para'[q].req = para[q].req
                                  /\ para'[q].timeout <=> para[q].timeout \/ q \in ps
      BY <3>1, MarkFact DEF Live
    <3>5. \A v \in Workers : Asking(v)' =>
            Asking(v) /\ worker'[v].p = worker[v].p /\ ~para'[worker[v].p].timeout
      <4>1. ~Asking(w)'
        BY <3>1 DEF Asking
      <4> QED
        BY <1>1, <1>2, <3>1, <4>1, MarkFact
    <3>6. free \subseteq free'
      BY <3>1
    <3> QED
      BY <3>3, <3>4, <3>5, <3>6, RequestKept
  <2>6. ASSUME NEW k, CheckList(w, k)
        PROVE  AnsweredOnce' /\ TimeoutIsAnswer'
    <3>0. PICK b \in Bid : b = worker[w].b
      BY <2>6, CheckFact
    <3>00. PICK old : old = Oldest(w, k)
      OBVIOUS
    <3> DEFINE ps == Live(old)
    <3>1. /\ worker'[w].pc \in {"idle", "match"} /\ Others(w) /\ free' = free
          /\ AnswerEmpty(ps) /\ Mark(old) /\ old \subseteq Listed(b)
      BY <2>6, <3>0, <3>00, CheckFact
    <3>2. ps \subseteq Para \ free /\ \A q \in ps : ~para[q].timeout
      <4>1. Listed(b) \subseteq Para
        BY BidFields, ElementOfSeq, LenProperties DEF Listed, ToSet, TypeOK
      <4> QED
        BY <3>1, <4>1 DEF OneHome, Live
    <3>3. Answered(ps)
      BY <3>1, <3>2, EmptyAnswered
    <3>4. \A q \in Para \ free' : /\ para'[q].req = para[q].req
                                  /\ para'[q].timeout <=> para[q].timeout \/ q \in ps
      <4>1. \A q \in Para : para'[q].timeout \in BOOLEAN /\ para[q].timeout \in BOOLEAN
        BY TypeStep DEF TypeOK, ParaState
      <4> QED
        BY <3>1, <4>1, MarkFact DEF Live
    <3>5. \A v \in Workers : Asking(v)' =>
            Asking(v) /\ worker'[v].p = worker[v].p /\ ~para'[worker[v].p].timeout
      <4>1. ~Asking(w)'
        BY <3>1 DEF Asking
      <4> QED
        BY <1>1, <1>2, <3>1, <4>1, MarkFact
    <3>6. free \subseteq free'
      BY <3>1
    <3> QED
      BY <3>3, <3>4, <3>5, <3>6, RequestKept
  <2>7. CASE MatchLocal(w) \/ MatchRemote(w)
    <3>1. /\ Others(w) /\ UNCHANGED <<para, free, reply, waiting>>
          /\ worker'[w].pc \in {"settle", "deliver"}
      BY <2>7, MatchFact
    <3>2. ~Asking(w)'
      BY <3>1 DEF Asking
    <3> QED
      BY <1>2, <1>3, <3>1, <3>2
  <2>8. CASE Deliver(w)
    <3>1. /\ worker[w].pc = "deliver" /\ p \in Para
          /\ worker'[w].pc \in {"settle", "match"} /\ Others(w)
          /\ free' = free \cup {p} /\ para' = para
          /\ IF para[p].timeout THEN UNCHANGED <<reply, waiting>>
             ELSE AnswerEmpty({p}) \/ \E resp : Answer(p, resp, worker[w].b)
      BY <2>8, DeliverFact
    <3>2. p \in Para \ free
      BY <3>1 DEF OneHome, Held
    <3> HIDE DEF p
    <3>3. PICK ps : Answered(ps) /\ ps \subseteq {p}
      <4>1. CASE para[p].timeout
        BY <3>1, <4>1, NoneAnswered
      <4>2. CASE ~para[p].timeout
        BY <3>1, <3>2, <4>2, EmptyAnswered, OneAnswered
      <4> QED
        BY <4>1, <4>2
    <3>4. \A q \in Para \ free' : /\ para'[q].req = para[q].req
                                  /\ para'[q].timeout <=> para[q].timeout \/ q \in ps
      BY <3>1, <3>3
    <3>5. \A v \in Workers : Asking(v)' =>
            Asking(v) /\ worker'[v].p = worker[v].p /\ ~para'[worker[v].p].timeout
      <4>1. ~Asking(w)'
        BY <3>1 DEF Asking
      <4> QED
        BY <1>1, <1>2, <3>1, <4>1
    <3>6. free \subseteq free'
      BY <3>1
    <3> QED
      BY <3>3, <3>4, <3>5, <3>6, RequestKept
  <2> QED
    BY <1>5, <2>1, <2>2, <2>3, <2>4, <2>5, <2>6, <2>7, <2>8, WorkerStepCases
<1>6. ASSUME NEW b \in Bid, Outside(b)
      PROVE  AnsweredOnce' /\ TimeoutIsAnswer'
  <2>1. \A v \in Workers : Asking(v)' => Asking(v) /\ worker'[v].p = worker[v].p
    BY <1>6, OutsideFact DEF Asking
  <2> QED
    BY <1>3, <1>6, <2>1, OutsideFact
<1>7. CASE UNCHANGED vars
  <2>1. \A v \in Workers : Asking(v)' => Asking(v) /\ worker'[v].p = worker[v].p
    BY <1>7 DEF Asking, vars
  <2> QED
    BY <1>3, <1>7, <2>1 DEF vars
<1> QED
  BY <1>4, <1>5, <1>6, <1>7, NextCases

-----------------------------------------------------------------------------
LEMMA DispatchStart == Init => DispatchInv
<1> SUFFICES ASSUME Init
             PROVE  DispatchInv
  OBVIOUS
<1> USE DEF Init
<1>1. \A b \in Bid : bid[b].list = <<>>
  BY DEF NewBid
<1>2. \A w \in Workers : worker[w].pc = "idle"
  BY DEF Idle
<1>3. TypeOK
  <2>1. bid \in [Bid -> BidState]
    <3>1. NewBid \in BidState
      BY DispatchAssumption, EmptySeq DEF NewBid, BidState
    <3> QED
      BY <3>1
  <2>2. DOMAIN wire = Bid /\ \A b \in Bid : wire[b] \in WireState(b)
    <3>1. \A b \in Bid : NewWire \in WireState(b)
      BY EmptySeq DEF NewWire, WireState
    <3> QED
      BY <3>1
  <2>3. reply \in [Request -> ReplyState]
    BY DEF ReplyState, NoReply
  <2>4. para \in [Para -> ParaState]
    BY DEF ParaState
  <2>5. worker \in [Workers -> WorkerState] /\ waiting \in [Request -> Nat]
    BY SetFacts
  <2> QED
    BY <2>1, <2>2, <2>3, <2>4, <2>5 DEF TypeOK
<1>4. WorkersReady
  BY <1>2 DEF WorkersReady, Asking
<1>5. OneHome
  <2>1. \A b \in Bid : Listed(b) = {} /\ IsInjective(bid[b].list)
    BY <1>1 DEF Listed, ToSet, IsInjective
  <2>2. \A w \in Workers : Held(w) = {}
    BY <1>2 DEF Held, Asking
  <2> QED
    BY <2>1, <2>2 DEF OneHome
<1>6. AnsweredOnce
  BY DEF AnsweredOnce, NoReply
<1>7. TimeoutIsAnswer
  BY <1>2 DEF TimeoutIsAnswer, Asking
<1> QED
  BY <1>3, <1>4, <1>5, <1>6, <1>7 DEF DispatchInv

(* Whatever workers race, however sessions time out and connections break: *)
(* a parameter has one home, and its request at most one answer.           *)
THEOREM DispatchInvariant == Spec => []DispatchInv
<1>1. DispatchInv /\ [Next]_vars => DispatchInv'
  BY TypeStep, ReadyStep, HomeStep, RequestStep DEF DispatchInv
<1> QED
  BY <1>1, DispatchStart, PTL DEF Spec
-----------------------------------------------------------------------------
(* What holds as long as no bid session broke: an exchange gets from a     *)
(* local engine the answer to its own request, and the sessions' counts    *)
(* are exact.                                                              *)
(*                                                                         *)
(* A local engine is sent the address of a parameter and sends it back, so *)
(* what has to be shown is that the address cannot come back twice, or     *)
(* after the parameter went on to another request: while it is under way   *)
(* it is in one place, and its parameter is on the session's list.         *)


Local == Bid \ Remote

\* the places of an address on its way: the connection to the engine, the
\* engine, the connection back, and a worker that read it or will write it
To(b) == ToSet(wire[b].to)

Busy(b) == {p \in Para : wire[b].busy = p}

From(b) == ToSet(wire[b].from)

Reading(w) == worker[w].pc \in {"bid", "check", "match"}

Returned(w, b) == {p \in Para : worker[w].b = b /\ Reading(w) /\ worker[w].msg = p}

Carried(w, b) ==
  Returned(w, b) \cup {p \in Para : worker[w].b = b /\ worker[w].pc = "write" /\ worker[w].p = p}

\* an address is in one of these places at most, and its parameter listed
OnePlace(b) ==
  /\ IsInjective(wire[b].to) /\ IsInjective(wire[b].from)
  /\ To(b) \cup Busy(b) \cup From(b) \subseteq Listed(b)
  /\ To(b) \cap Busy(b) = {} /\ To(b) \cap From(b) = {} /\ Busy(b) \cap From(b) = {}
  /\ \A w \in Workers :
       /\ Carried(w, b) \subseteq Listed(b) \ (To(b) \cup Busy(b) \cup From(b))
       /\ \A v \in Workers \ {w} : Carried(w, b) \cap Carried(v, b) = {}

Fits(p) == para[p].resp = para[p].req

\* what comes back from the engine has the response to its own request
Answers(b) ==
  /\ \A p \in Busy(b) : wire[b].req = para[p].req
  /\ \A p \in From(b) : Fits(p)
  /\ \A w \in Workers : \A p \in Returned(w, b) : Fits(p)

Whole ==
  /\ \A b \in Bid : ~bid[b].deleted
  /\ \A w \in Workers : worker[w].pc \notin {"clear", "drop"}

Delivers ==
  \A w \in Workers : worker[w].pc = "deliver" /\ worker[w].b \in Local => Fits(worker[w].p)

Own == \A r \in Request : reply[r].by \in Local => reply[r].from = r

OwnInv ==
  Sound => /\ Whole
           /\ \A b \in Local : OnePlace(b) /\ Answers(b)
           /\ Delivers
           /\ Own

-----------------------------------------------------------------------------
(* A session that broke stays so, and only ClearList deletes a list.       *)

Kept == \A b \in Bid : (bid'[b].open => bid[b].open) /\ (bid'[b].deleted => bid[b].deleted)

LEMMA AskKept ==
  ASSUME TypeOK, WorkersReady, NEW w \in Workers, Ask(w)
  PROVE  Kept /\ wire' = wire
<1>1. bid \in [Bid -> BidState] /\ \A b \in Bid : bid[b] \in BidState
  BY DEF TypeOK
<1>2. CASE FindBid(w)
  BY <1>2 DEF FindBid, Kept
<1>3. CASE CheckBid(w)
  <2> DEFINE v == bid[worker[w].b].open /\ bid[worker[w].b].ptr
  <2>1. bid' = [bid EXCEPT ![worker[w].b].open = v] /\ wire' = wire
    BY <1>3 DEF CheckBid
  <2>2. v => bid[worker[w].b].open
    OBVIOUS
  <2> HIDE DEF v
  <2> QED
    BY <1>1, <2>1, <2>2 DEF Kept, BidState
<1>4. CASE CheckSize(w)
  BY <1>4 DEF CheckSize, Kept
<1>5. CASE Commit(w)
  BY <1>1, <1>5 DEF Commit, Kept, BidState
<1> QED
  BY <1>2, <1>3, <1>4, <1>5 DEF Ask

LEMMA LookKept ==
  ASSUME TypeOK, NEW w \in Workers, Look(w)
  PROVE  Kept
<1>1. bid \in [Bid -> BidState] /\ \A b \in Bid : bid[b] \in BidState
  BY DEF TypeOK
<1>2. CASE Write(w)
  <2>1. bid' = bid \/ bid' = [bid EXCEPT ![worker[w].b].open = FALSE]
    BY <1>2 DEF Write
  <2>2. CASE bid' = bid
    BY <2>2 DEF Kept
  <2>3. CASE bid' = [bid EXCEPT ![worker[w].b].open = FALSE]
    BY <1>1, <2>3 DEF Kept, BidState
  <2> QED
    BY <2>1, <2>2, <2>3
<1>3. ASSUME NEW c \in Bid, TakeEvent(w, c)
      PROVE  Kept
  <2> DEFINE ends == bid[c].open /\ ~wire[c].alive
             v == bid[c].open /\ ~ends
  <2>1. bid' = [bid EXCEPT ![c].events = @ - 1, ![c].open = v]
    BY <1>3 DEF TakeEvent
  <2>2. v => bid[c].open
    OBVIOUS
  <2> HIDE DEF v
  <2> QED
    BY <1>1, <2>1, <2>2 DEF Kept, BidState
<1>4. CASE SortEvent(w)
  <2>1. bid' = bid \/ bid' = [bid EXCEPT ![worker[w].b].ptr = FALSE]
    BY <1>4 DEF SortEvent
  <2> QED
    BY <1>1, <2>1 DEF Kept, BidState
<1>5. CASE DropBid(w)
  <2> DEFINE c == worker[w].b
             n == IF bid[c].active > 0 THEN bid[c].active - 1 ELSE bid[c].active
  <2>1. bid' = [bid EXCEPT ![c].reg = FALSE, ![c].active = n]
    BY <1>5 DEF DropBid
  <2> HIDE DEF n
  <2> QED
    BY <1>1, <2>1 DEF Kept, BidState
<1>6. CASE Settle(w)
  BY <1>6 DEF Settle, Kept
<1>7. CASE StopTimer(w)
  BY <1>1, <1>7 DEF StopTimer, Kept, BidState
<1> QED
  BY <1>2, <1>3, <1>4, <1>5, <1>6, <1>7 DEF Look

LEMMA OutsideKept ==
  ASSUME TypeOK, NEW b \in Bid, Outside(b)
  PROVE  Kept
<1>1. bid \in [Bid -> BidState] /\ \A c \in Bid : bid[c] \in BidState
  BY DEF TypeOK
<1>2. CASE ReadEvent(b)
  BY <1>1, <1>2 DEF ReadEvent, Kept, BidState
<1>3. CASE Unregister(b)
  BY <1>1, <1>3 DEF Unregister, Kept, BidState
<1>4. ASSUME NEW w \in Workers, Register(w, b)
      PROVE  Kept
  <2>1. bid' = [bid EXCEPT ![b].ptr = TRUE, ![b].active = bid[b].active + 1, ![b].reg = TRUE]
    BY <1>4 DEF Register
  <2> QED
    BY <1>1, <2>1 DEF Kept, BidState
<1>5. CASE EngineTake(b)
  BY <1>5 DEF EngineTake, Kept
<1>6. CASE EngineAnswer(b)
  BY <1>6 DEF EngineAnswer, Kept
<1>7. CASE EngineCloses(b)
  BY <1>7 DEF EngineCloses, Kept
<1> QED
  BY <1>2, <1>3, <1>4, <1>5, <1>6, <1>7 DEF Outside

\* AdParaList.push, del and pop
LEMMA ListKept ==
  ASSUME TypeOK, NEW w \in Workers, Push(w) \/ MatchLocal(w) \/ MatchRemote(w) \/ Deliver(w)
  PROVE  Kept /\ wire' = wire
<1> DEFINE b == worker[w].b
           n == IF bid[b].active > 0 THEN bid[b].active - 1 ELSE bid[b].active
<1>1. bid \in [Bid -> BidState] /\ \A c \in Bid : bid[c] \in BidState
  BY DEF TypeOK
<1>2. \/ bid' = bid
      \/ \E l : bid' = [bid EXCEPT ![b].list = l]
      \/ bid' = [bid EXCEPT ![b].active = n]
  BY DEF Push, MatchLocal, MatchRemote, Deliver
<1>3. wire' = wire
  BY DEF Push, MatchLocal, MatchRemote, Deliver
<1> HIDE DEF b, n
<1> QED
  BY <1>1, <1>2, <1>3 DEF Kept, BidState

LEMMA TakeKept ==
  ASSUME NEW w \in Workers, (\E r \in Request : TakeRequest(w, r)) \/ Refuse(w)
                            \/ \E k : CheckList(w, k)
  PROVE  Kept /\ wire' = wire
BY DEF TakeRequest, Refuse, CheckList, Kept

LEMMA SoundKept ==
  ASSUME TypeOK, WorkersReady, [Next]_vars, Sound'
  PROVE  Sound /\ (Kept \/ \E w \in Workers : worker[w].pc = "clear")
<1>1. ASSUME NEW w \in Workers, WorkerStep(w), ~ClearList(w)
      PROVE  Kept
  BY <1>1, WorkerStepCases, AskKept, LookKept, ListKept, TakeKept
<1>2. ASSUME NEW w \in Workers, ClearList(w)
      PROVE  Sound /\ worker[w].pc = "clear"
  <2> DEFINE b == worker[w].b
             n == IF bid[b].active > Len(bid[b].list) THEN bid[b].active - Len(bid[b].list) ELSE 0
  <2>1. bid' = [bid EXCEPT ![b].list = <<>>, ![b].deleted = TRUE, ![b].active = n]
    BY <1>2 DEF ClearList
  <2> HIDE DEF b, n
  <2>2. \A c \in Bid : bid'[c].open = bid[c].open
    BY <2>1 DEF TypeOK, BidState
  <2> QED
    BY <1>2, <2>2 DEF Sound, ClearList
<1>3. UNCHANGED vars => Kept
  BY DEF vars, Kept
<1>4. Kept => Sound
  BY DEF Kept, Sound
<1> QED
  BY <1>1, <1>2, <1>3, <1>4, NextCases, TakeKept, OutsideKept

-----------------------------------------------------------------------------
(* What a step leaves alone.                                               *)

LEMMA CarriedFrame ==
  ASSUME NEW w \in Workers, Others(w), NEW b
  PROVE  \A v \in Workers \ {w} : Carried(v, b)' = Carried(v, b) /\ Returned(v, b)' = Returned(v, b)
BY DEF Others, Carried, Returned, Reading

LEMMA CarriesNone ==
  ASSUME NEW w \in Workers, NEW b
  PROVE  /\ worker[w].b # b \/ worker[w].pc \notin {"bid", "check", "match", "write"}
              => Carried(w, b) = {} /\ Returned(w, b) = {}
         /\ worker'[w].b # b \/ worker'[w].pc \notin {"bid", "check", "match", "write"}
              => Carried(w, b)' = {} /\ Returned(w, b)' = {}
BY DEF Carried, Returned, Reading

LEMMA WireFrame ==
  ASSUME NEW b, wire'[b] = wire[b]
  PROVE  /\ To(b)' = To(b) /\ Busy(b)' = Busy(b) /\ From(b)' = From(b)
         /\ IsInjective(wire[b].to) => IsInjective(wire'[b].to)
         /\ IsInjective(wire[b].from) => IsInjective(wire'[b].from)
BY DEF To, Busy, From, ToSet, IsInjective

\* an address that goes nowhere else
LEMMA Shrinks ==
  ASSUME NEW b, OnePlace(b), Answers(b),
         IsInjective(wire'[b].to), IsInjective(wire'[b].from),
         To(b)' \subseteq To(b), Busy(b)' \subseteq Busy(b), From(b)' \subseteq From(b),
         Busy(b)' # {} => wire'[b].req = wire[b].req,
         \A w \in Workers :
           Carried(w, b)' \subseteq Carried(w, b) /\ Returned(w, b)' \subseteq Returned(w, b),
         To(b)' \cup Busy(b)' \cup From(b)' \subseteq Listed(b)',
         \A w \in Workers : Carried(w, b)' \subseteq Listed(b)',
         \A p \in Listed(b) : para'[p].req = para[p].req /\ para'[p].resp = para[p].resp
  PROVE  OnePlace(b)' /\ Answers(b)'
<1>1. \A w \in Workers : Returned(w, b) \subseteq Carried(w, b)
  BY DEF Carried
<1>2. OnePlace(b)'
  BY DEF OnePlace
<1>3. Answers(b)'
  <2>1. \A p \in Busy(b)' : wire'[b].req = para'[p].req
    BY DEF Answers, OnePlace
  <2>2. \A p \in From(b)' : para'[p].resp = para'[p].req
    BY DEF Answers, OnePlace, Fits
  <2>3. \A w \in Workers : \A p \in Returned(w, b)' : para'[p].resp = para'[p].req
    BY <1>1 DEF Answers, OnePlace, Fits
  <2> QED
    BY <2>1, <2>2, <2>3 DEF Answers, Fits
<1> QED
  BY <1>2, <1>3

LEMMA PlacesKept ==
  ASSUME NEW b \in Bid, OnePlace(b), Answers(b),
         wire'[b] = wire[b], bid'[b].list = bid[b].list,
         \A w \in Workers :
           Carried(w, b)' \subseteq Carried(w, b) /\ Returned(w, b)' \subseteq Returned(w, b),
         \A p \in Listed(b) : para'[p].req = para[p].req /\ para'[p].resp = para[p].resp
  PROVE  OnePlace(b)' /\ Answers(b)'
<1>1. Listed(b)' = Listed(b)
  BY ListFrame
<1>2. \A w \in Workers : Carried(w, b) \subseteq Listed(b)
  BY DEF OnePlace
<1>3. To(b) \cup Busy(b) \cup From(b) \subseteq Listed(b)
  BY DEF OnePlace
<1>4. IsInjective(wire'[b].to) /\ IsInjective(wire'[b].from)
  BY WireFrame DEF OnePlace
<1> QED
  BY <1>1, <1>2, <1>3, <1>4, WireFrame, Shrinks

\* ... in a step of one worker, which puts away what it carried
LEMMA PutAway ==
  ASSUME NEW b \in Bid, OnePlace(b), Answers(b), NEW w \in Workers, Others(w),
         wire'[b] = wire[b], bid'[b].list = bid[b].list,
         \/ worker'[w].pc \notin {"bid", "check", "match", "write"}
         \/ worker'[w].b # b
         \/ /\ Reading(w) /\ worker'[w].b = worker[w].b
            /\ worker'[w].pc # "write" /\ worker'[w].msg = worker[w].msg,
         \A p \in Listed(b) : para'[p].req = para[p].req /\ para'[p].resp = para[p].resp
  PROVE  OnePlace(b)' /\ Answers(b)'
<1>1. Carried(w, b)' \subseteq Carried(w, b) /\ Returned(w, b)' \subseteq Returned(w, b)
  <2>1. CASE worker'[w].pc \notin {"bid", "check", "match", "write"} \/ worker'[w].b # b
    BY <2>1, CarriesNone
  <2>2. CASE /\ Reading(w) /\ worker'[w].b = worker[w].b
             /\ worker'[w].pc # "write" /\ worker'[w].msg = worker[w].msg
    BY <2>2 DEF Carried, Returned, Reading
  <2> QED
    BY <2>1, <2>2
<1>2. \A v \in Workers :
        Carried(v, b)' \subseteq Carried(v, b) /\ Returned(v, b)' \subseteq Returned(v, b)
  BY <1>1, CarriedFrame
<1> QED
  BY <1>2, PlacesKept

-----------------------------------------------------------------------------
(* The addresses, step by step.                                            *)

Calm == DispatchInv /\ Sound /\ Whole /\ \A b \in Local : OnePlace(b) /\ Answers(b)

LEMMA ListedFact ==
  ASSUME TypeOK, OneHome, NEW b \in Bid
  PROVE  Listed(b) \subseteq Para \ (free \cup lost) /\ bid[b].list \in Seq(Para)
<1>1. bid[b].list \in Seq(Para)
  BY BidFields DEF TypeOK
<1>2. Listed(b) \subseteq Para
  BY <1>1, ElementOfSeq, LenProperties DEF Listed, ToSet
<1> QED
  BY <1>1, <1>2 DEF OneHome

\* a local engine's connection carries addresses
LEMMA LocalWire ==
  ASSUME TypeOK, NEW b \in Local
  PROVE  /\ b \in Bid /\ Sent(b) = Para /\ wire[b] \in WireState(b)
         /\ wire[b].to \in Seq(Para) /\ wire[b].from \in Seq(Message)
         /\ wire[b].busy \in Para \cup {None}
<1>1. b \in Bid /\ Sent(b) = Para /\ wire[b] \in WireState(b)
  BY DEF Local, Sent, TypeOK
<1> QED
  BY <1>1, WireFields

LEMMA PlacesTake ==
  ASSUME Calm, NEW w \in Workers, NEW r \in Request, TakeRequest(w, r), NEW b \in Local
  PROVE  OnePlace(b)' /\ Answers(b)'
<1>1. PICK p \in free :
        /\ para' = [para EXCEPT ![p] = [req |-> r, timeout |-> FALSE, resp |-> None]]
        /\ SameLists /\ worker'[w].pc \in {"find", "refuse"} /\ Others(w)
  BY TakeFact DEF Calm, DispatchInv
<1>2. b \in Bid /\ p \notin Listed(b) /\ Listed(b) \subseteq Para
  BY ListedFact DEF Calm, DispatchInv, Local
<1>3. \A q \in Listed(b) : para'[q].req = para[q].req /\ para'[q].resp = para[q].resp
  BY <1>1, <1>2 DEF Calm, DispatchInv, TypeOK
<1> QED
  BY <1>1, <1>2, <1>3, PutAway DEF Calm, TakeRequest, SameLists

LEMMA PlacesAsk ==
  ASSUME Calm, NEW w \in Workers, Ask(w) \/ Refuse(w), NEW b \in Local
  PROVE  OnePlace(b)' /\ Answers(b)'
<1>1. /\ Others(w) /\ SameLists /\ para' = para /\ wire' = wire
      /\ worker'[w].pc \notin {"bid", "check", "match", "write"}
  BY AskFact, RefuseFact, AskKept, TakeKept DEF Calm, DispatchInv, Others, SameLists, Asking
<1> QED
  BY <1>1, PutAway DEF Calm, SameLists, Local

\* the address is with the worker that will write it
LEMMA PlacesPush ==
  ASSUME Calm, NEW w \in Workers, Push(w), NEW b \in Local
  PROVE  OnePlace(b)' /\ Answers(b)'
<1> USE DEF Calm, DispatchInv
<1> DEFINE p == worker[w].p
<1>0. PICK c \in Bid : c = worker[w].b
  BY PushFact
<1>1. /\ Asking(w) /\ worker'[w].pc = "write" /\ worker'[w].p = p
      /\ worker'[w].b = c /\ Others(w) /\ para' = para
      /\ \/ /\ lost' = lost
            /\ \A d \in Bid \ {c} : bid'[d].list = bid[d].list
            /\ bid'[c].list = Append(bid[c].list, p)
         \/ lost' = lost \cup {p}
  BY <1>0, PushFact
<1>2. p \in Para /\ p \notin lost /\ \A d \in Bid : p \notin Listed(d)
  BY <1>1 DEF OneHome, Held, WorkersReady
<1>3. lost' = lost /\ wire' = wire
  BY <1>0, ListKept DEF Push, Whole
<1> HIDE DEF p
<1>4. /\ \A d \in Bid \ {c} : bid'[d].list = bid[d].list
      /\ bid'[c].list = Append(bid[c].list, p)
  BY <1>1, <1>2, <1>3
<1>5. CASE b # c
  <2>1. b \in Bid /\ bid'[b].list = bid[b].list /\ worker'[w].b # b
    BY <1>1, <1>4, <1>5 DEF Local
  <2> QED
    BY <1>1, <1>3, <2>1, PutAway
<1>6. CASE b = c
  <2>1. Listed(b)' = Listed(b) \cup {p}
    <3>1. Listed(b)' = ToSet(Append(bid[b].list, p))
      BY <1>4, <1>6 DEF Listed
    <3> QED
      BY <1>2, <1>6, <3>1, ListedFact, AppendFact DEF Listed
  <2>2. /\ To(b)' = To(b) /\ Busy(b)' = Busy(b) /\ From(b)' = From(b)
        /\ IsInjective(wire'[b].to) /\ IsInjective(wire'[b].from)
    BY <1>3, WireFrame DEF OnePlace
  <2>3. Carried(w, b)' = {p} /\ Returned(w, b)' = {}
    BY <1>1, <1>2, <1>6 DEF Carried, Returned, Reading
  <2>4. \A v \in Workers \ {w} :
          Carried(v, b)' = Carried(v, b) /\ Returned(v, b)' = Returned(v, b)
    BY <1>1, CarriedFrame
  <2>5. OnePlace(b) /\ Answers(b) /\ p \notin Listed(b)
    BY <1>2, <1>6
  <2>6. OnePlace(b)'
    BY <2>1, <2>2, <2>3, <2>4, <2>5 DEF OnePlace
  <2>7. Answers(b)'
    BY <1>1, <1>3, <2>2, <2>3, <2>4, <2>5 DEF Answers, Fits
  <2> QED
    BY <2>6, <2>7
<1> QED
  BY <1>5, <1>6

\* ... and now on the connection
LEMMA PlacesWrite ==
  ASSUME Calm, Sound', NEW w \in Workers, Write(w), NEW b \in Local
  PROVE  OnePlace(b)' /\ Answers(b)'
<1> USE DEF Calm, DispatchInv
<1> DEFINE p == worker[w].p
<1>0. PICK c \in Bid : c = worker[w].b
  BY DEF Write, WorkersReady
<1>1. worker[w].pc = "write" /\ p \in Para /\ worker'[w].pc = "idle" /\ Others(w) /\ para' = para
  BY WorkerFrame DEF Write, WorkersReady, Others
<1>2. SameLists
  BY LookFact DEF Look
<1>3. wire' = [wire EXCEPT ![c].to =
        IF wire[c].alive THEN Append(@, IF c \in Remote THEN para[p].req ELSE p) ELSE @]
  <2>1. bid' # [bid EXCEPT ![c].open = FALSE]
    <3>1. [bid EXCEPT ![c].open = FALSE][c].open = FALSE
      BY DEF TypeOK, BidState
    <3> QED
      BY <3>1 DEF Sound
  <2> QED
    BY <1>0, <2>1 DEF Write
<1> HIDE DEF p
<1>4. CASE b # c
  <2>1. wire'[b] = wire[b] /\ bid'[b].list = bid[b].list
    BY <1>2, <1>3, <1>4 DEF Local, TypeOK, SameLists
  <2> QED
    BY <1>1, <2>1, PutAway DEF Local
<1>5. CASE b = c /\ ~wire[c].alive
  <2>1. wire'[b] = wire[b] /\ bid'[b].list = bid[b].list
    BY <1>2, <1>3, <1>5, LocalWire DEF TypeOK, SameLists, WireState
  <2> QED
    BY <1>1, <2>1, PutAway DEF Local
<1>6. CASE b = c /\ wire[c].alive
  <2>1. /\ wire'[b].to = Append(wire[b].to, p) /\ wire'[b].from = wire[b].from
        /\ wire'[b].busy = wire[b].busy /\ wire'[b].req = wire[b].req
    BY <1>3, <1>6, LocalWire DEF TypeOK, WireState, Local
  <2>2. p \in Carried(w, b) /\ OnePlace(b) /\ Answers(b)
    BY <1>0, <1>1, <1>6 DEF Carried, p
  <2>3. /\ To(b)' = To(b) \cup {p} /\ IsInjective(wire'[b].to)
        /\ Busy(b)' = Busy(b) /\ From(b)' = From(b) /\ IsInjective(wire'[b].from)
    <3>1. p \notin To(b)
      BY <2>2 DEF OnePlace
    <3> QED
      BY <1>1, <2>1, <2>2, <3>1, LocalWire, AppendFact DEF To, Busy, From, OnePlace
  <2>4. Carried(w, b)' = {} /\ Returned(w, b)' = {}
    BY <1>1, CarriesNone
  <2>5. \A v \in Workers \ {w} :
          Carried(v, b)' = Carried(v, b) /\ Returned(v, b)' = Returned(v, b)
    BY <1>1, CarriedFrame
  <2>6. Listed(b)' = Listed(b)
    BY <1>2, ListFrame DEF SameLists, Local
  <2>7. OnePlace(b)'
    BY <2>2, <2>3, <2>4, <2>5, <2>6 DEF OnePlace
  <2>8. Answers(b)'
    BY <1>1, <2>1, <2>2, <2>3, <2>4, <2>5 DEF Answers, Fits
  <2> QED
    BY <2>7, <2>8
<1> QED
  BY <1>4, <1>5, <1>6

\* AdSessionRead: a worker has the address
LEMMA PlacesEvent ==
  ASSUME Calm, Sound', NEW w \in Workers, NEW c \in Bid, TakeEvent(w, c), NEW b \in Local
  PROVE  OnePlace(b)' /\ Answers(b)'
<1> USE DEF Calm, DispatchInv
<1> DEFINE data == bid[c].open /\ wire[c].alive /\ wire[c].from # <<>>
           m == IF data THEN Head(wire[c].from) ELSE None
<1>1. SameLists /\ Others(w) /\ para' = para
  BY LookFact DEF Look
<1>2. /\ worker'[w].pc = "bid" /\ worker'[w].b = c /\ worker'[w].msg = m
      /\ worker[w].pc = "idle"
  <2>1. worker' = [worker EXCEPT ![w] = [Idle EXCEPT !.pc = "bid", !.b = c, !.msg = m]]
    BY DEF TakeEvent
  <2> HIDE DEF m
  <2>2. worker \in [Workers -> WorkerState] /\ worker[w].pc = "idle"
    BY DEF TypeOK, TakeEvent
  <2> QED
    BY <2>1, <2>2 DEF Idle
<1>3. PICK n \in (IF c \in Remote THEN DOMAIN wire[c].from ELSE {1}) :
        wire' = [wire EXCEPT ![c].from =
                   IF data THEN SubSeq(@, n + 1, Len(@)) ELSE @]
  BY DEF TakeEvent
<1> HIDE DEF data
<1>4. CASE b # c
  <2>1. wire'[b] = wire[b] /\ bid'[b].list = bid[b].list
    BY <1>1, <1>3, <1>4 DEF Local, TypeOK, SameLists
  <2> QED
    BY <1>1, <1>2, <1>4, <2>1, PutAway DEF Local
<1>5. CASE b = c /\ ~data
  <2>1. wire'[b] = wire[b] /\ bid'[b].list = bid[b].list
    BY <1>1, <1>3, <1>5, LocalWire DEF TypeOK, SameLists, WireState
  <2>2. Carried(w, b)' = {} /\ Returned(w, b)' = {}
    BY <1>2, <1>5, SetFacts DEF Carried, Returned
  <2>3. \A v \in Workers :
          Carried(v, b)' \subseteq Carried(v, b) /\ Returned(v, b)' \subseteq Returned(v, b)
    BY <1>1, <2>2, CarriedFrame
  <2> QED
    BY <1>1, <2>1, <2>3, PlacesKept DEF Local
<1>6. CASE b = c /\ data
  <2>0. b \in Bid /\ wire[b].from \in Seq(Message) /\ wire[b].from # <<>> /\ m = Head(wire[b].from)
    BY <1>6, LocalWire DEF data
  <2> HIDE DEF m
  <2>1. /\ wire'[b].to = wire[b].to /\ wire'[b].busy = wire[b].busy
        /\ wire'[b].req = wire[b].req /\ wire'[b].from = Tail(wire[b].from)
    <3>1. n = 1
      BY <1>3, <1>6 DEF Local
    <3>2. wire' = [wire EXCEPT ![b].from = SubSeq(wire[b].from, 2, Len(wire[b].from))]
      BY <1>3, <1>6, <3>1
    <3>3. Tail(wire[b].from) = SubSeq(wire[b].from, 2, Len(wire[b].from))
      BY <2>0, TailIsSubSeq
    <3> QED
      BY <3>2, <3>3, LocalWire DEF TypeOK, WireState
  <2>2. OnePlace(b) /\ Answers(b) /\ Listed(b)' = Listed(b)
    BY <1>1, <2>0, ListFrame DEF SameLists
  <2>3. /\ m \in From(b) /\ From(b)' = From(b) \ {m} /\ IsInjective(wire'[b].from)
        /\ To(b)' = To(b) /\ IsInjective(wire'[b].to) /\ Busy(b)' = Busy(b)
    BY <2>0, <2>1, <2>2, TailFact DEF From, To, Busy, OnePlace
  <2>4. Carried(w, b)' = {m} /\ Returned(w, b)' = {m}
    <3>1. m \in Para
      BY <2>0, <2>2, <2>3, ListedFact DEF OnePlace
    <3> QED
      BY <1>2, <1>6, <3>1 DEF Carried, Returned, Reading
  <2>5. \A v \in Workers \ {w} :
          Carried(v, b)' = Carried(v, b) /\ Returned(v, b)' = Returned(v, b)
    BY <1>1, CarriedFrame
  <2>6. OnePlace(b)'
    BY <2>2, <2>3, <2>4, <2>5 DEF OnePlace
  <2>7. Answers(b)'
    BY <1>1, <2>1, <2>2, <2>3, <2>4, <2>5 DEF Answers, Fits
  <2> QED
    BY <2>6, <2>7
<1> QED
  BY <1>4, <1>5, <1>6

LEMMA PlacesLook ==
  ASSUME Calm, NEW w \in Workers, SortEvent(w) \/ DropBid(w) \/ Settle(w) \/ StopTimer(w),
         NEW b \in Local
  PROVE  OnePlace(b)' /\ Answers(b)'
<1> USE DEF Calm, DispatchInv
<1>1. Others(w) /\ SameLists /\ para' = para
  BY LookFact DEF Look
<1>2. wire' = wire
  BY DEF SortEvent, DropBid, Settle, StopTimer
<1>3. \/ worker'[w].pc \in {"idle", "clear", "drop", "untimer"}
      \/ /\ Reading(w) /\ worker'[w].b = worker[w].b
         /\ worker'[w].pc = "check" /\ worker'[w].msg = worker[w].msg
  BY WorkerFrame DEF SortEvent, DropBid, Settle, StopTimer, Reading
<1> QED
  BY <1>1, <1>2, <1>3, PutAway DEF SameLists, Local

LEMMA PlacesCheck ==
  ASSUME Calm, NEW w \in Workers, NEW k, CheckList(w, k), NEW b \in Local
  PROVE  OnePlace(b)' /\ Answers(b)'
<1> USE DEF Calm, DispatchInv
<1>1. Others(w) /\ SameLists /\ wire' = wire /\ Mark(Oldest(w, k))
  BY CheckFact, TakeKept
<1>2. \/ worker'[w].pc = "idle"
      \/ /\ Reading(w) /\ worker'[w].b = worker[w].b
         /\ worker'[w].pc = "match" /\ worker'[w].msg = worker[w].msg
  BY WorkerFrame DEF CheckList, Reading
<1>3. \A p \in Para : para'[p].req = para[p].req /\ para'[p].resp = para[p].resp
  BY <1>1 DEF Mark, TypeOK, ParaState
<1>4. Listed(b) \subseteq Para
  BY ListedFact DEF Local
<1> QED
  BY <1>1, <1>2, <1>3, <1>4, PutAway DEF SameLists, Local

\* AdParaList.del: the parameter leaves the list with its address
LEMMA PlacesMatch ==
  ASSUME Calm, NEW w \in Workers, MatchLocal(w) \/ MatchRemote(w), NEW b \in Local
  PROVE  /\ OnePlace(b)' /\ Answers(b)'
         /\ worker'[w].pc = "deliver" /\ worker'[w].b = b => Fits(worker'[w].p)
<1> USE DEF Calm, DispatchInv
<1>0. PICK c \in Bid : c = worker[w].b
  BY MatchFact
<1>1. /\ worker[w].pc = "match" /\ worker'[w].b = c /\ Others(w)
      /\ wire' = wire /\ para' = para /\ worker'[w].pc \in {"settle", "deliver"}
      /\ \A d \in Bid \ {c} : bid'[d].list = bid[d].list
  BY <1>0, MatchFact, ListKept DEF SameLists
<1>2. CASE b # c
  <2>1. b \in Bid /\ bid'[b].list = bid[b].list
    BY <1>1, <1>2 DEF Local
  <2> QED
    BY <1>1, <1>2, <2>1, PutAway
<1>3. CASE b = c /\ bid'[b].list = bid[b].list
  <2>1. worker'[w].pc # "deliver"
    <3>1. MatchLocal(w)
      BY <1>0, <1>3 DEF MatchRemote, Local
    <3>2. PICK l \in Seq(Para) : l = bid[b].list
      BY ListedFact DEF Local
    <3>3. ASSUME NEW i \in DOMAIN l, bid' = [bid EXCEPT ![c].list = RemoveAt(l, i)]
          PROVE  FALSE
      <4>1. bid'[b].list = RemoveAt(l, i)
        BY <1>3, <3>3 DEF TypeOK, BidState
      <4>2. IsInjective(l) /\ ToSet(RemoveAt(l, i)) = ToSet(l) \ {l[i]} /\ l[i] \in ToSet(l)
        BY <3>2, RemoveFact DEF OneHome, Local
      <4> QED
        BY <1>3, <3>2, <4>1, <4>2
    <3>4. Goto(w, "settle")
      BY <1>0, <1>3, <3>1, <3>2, <3>3 DEF MatchLocal
    <3> QED
      BY <3>4, WorkerFrame
  <2> QED
    BY <1>1, <1>3, <2>1, PutAway DEF Local
<1>4. CASE b = c /\ bid'[b].list # bid[b].list
  <2> DEFINE p == worker[w].msg
  <2>1. PICK q \in Listed(b) :
          /\ q \in Para /\ Listed(b)' = Listed(b) \ {q}
          /\ worker'[w].pc = "deliver" => worker'[w].p = q
    BY <1>0, <1>4, MatchFact DEF Listed, SameLists
  <2>2. worker'[w].pc = "deliver" /\ worker'[w].p = p
    <3>1. MatchLocal(w)
      BY <1>0, <1>4 DEF MatchRemote, Local
    <3>2. worker' = [worker EXCEPT ![w].pc = "deliver", ![w].p = p]
      BY <1>4, <3>1 DEF MatchLocal
    <3> HIDE DEF p
    <3> QED
      BY <3>2 DEF TypeOK, WorkerState
  <2>3. p = q
    BY <2>1, <2>2
  <2>4. OnePlace(b) /\ Answers(b) /\ p \in Returned(w, b) /\ p \in Carried(w, b)
    BY <1>0, <1>1, <1>4, <2>1, <2>3 DEF Returned, Carried, Reading
  <2> HIDE DEF p
  <2>5. /\ To(b)' = To(b) /\ Busy(b)' = Busy(b) /\ From(b)' = From(b)
        /\ IsInjective(wire'[b].to) /\ IsInjective(wire'[b].from)
    BY <1>1, <2>4, WireFrame DEF OnePlace
  <2>6. Carried(w, b)' = {} /\ Returned(w, b)' = {}
    BY <1>1, CarriesNone
  <2>7. \A v \in Workers \ {w} :
          Carried(v, b)' = Carried(v, b) /\ Returned(v, b)' = Returned(v, b)
    BY <1>1, CarriedFrame
  <2>8. OnePlace(b)'
    BY <2>1, <2>3, <2>4, <2>5, <2>6, <2>7 DEF OnePlace
  <2>9. Answers(b)'
    BY <1>1, <2>4, <2>5, <2>6, <2>7 DEF Answers, Fits
  <2> QED
    BY <2>2, <2>4, <2>8, <2>9 DEF Answers
<1> QED
  BY <1>2, <1>3, <1>4

LEMMA PlacesDeliver ==
  ASSUME Calm, NEW w \in Workers, Deliver(w), NEW b \in Local
  PROVE  OnePlace(b)' /\ Answers(b)'
<1> USE DEF Calm, DispatchInv
<1>1. Others(w) /\ SameLists /\ para' = para /\ wire' = wire
  BY DeliverFact, ListKept
<1>2. Carried(w, b)' = {} /\ Returned(w, b)' = {}
  <2>1. CASE Goto(w, "settle")
    BY <2>1, CarriesNone, WorkerFrame
  <2>2. CASE worker' = [worker EXCEPT ![w].pc = "match", ![w].p = None, ![w].msg = Rest]
    <3>1. worker'[w].pc = "match" /\ worker'[w].msg = Rest
      BY <2>2 DEF TypeOK, WorkerState
    <3> QED
      BY <3>1, DispatchAssumption DEF Carried, Returned
  <2> QED
    BY <2>1, <2>2 DEF Deliver
<1>3. \A v \in Workers :
        Carried(v, b)' \subseteq Carried(v, b) /\ Returned(v, b)' \subseteq Returned(v, b)
  BY <1>1, <1>2, CarriedFrame
<1> QED
  BY <1>1, <1>3, PlacesKept DEF SameLists, Local

\* the engine takes the address from its connection ...
LEMMA PlacesEngineTake ==
  ASSUME Calm, NEW c \in Bid, EngineTake(c), NEW b \in Local
  PROVE  OnePlace(b)' /\ Answers(b)'
<1> USE DEF Calm, DispatchInv
<1> DEFINE m == Head(wire[c].to)
           r == IF c \in Remote THEN m ELSE para[m].req
<1>1. /\ wire[c].busy = None /\ wire[c].to # <<>>
      /\ wire' = [wire EXCEPT ![c].to = Tail(@), ![c].busy = m, ![c].req = r]
      /\ UNCHANGED <<para, bid, worker>>
  BY DEF EngineTake
<1>2. \A w \in Workers : Carried(w, b)' = Carried(w, b) /\ Returned(w, b)' = Returned(w, b)
  BY <1>1 DEF Carried, Returned, Reading
<1>3. bid'[b].list = bid[b].list /\ Listed(b)' = Listed(b)
  BY <1>1 DEF Listed
<1>4. CASE b # c
  <2>1. wire'[b] = wire[b]
    BY <1>1, <1>4 DEF Local, TypeOK
  <2> QED
    BY <1>1, <1>2, <1>3, <2>1, PlacesKept DEF Local
<1>5. CASE b = c
  <2>1. r = para[m].req
    BY <1>5 DEF Local
  <2> HIDE DEF r, m
  <2>2. /\ wire'[b].to = Tail(wire[b].to) /\ wire'[b].from = wire[b].from
        /\ wire'[b].busy = m /\ wire'[b].req = r
    BY <1>1, <1>5, LocalWire DEF TypeOK, WireState
  <2>3. OnePlace(b) /\ Answers(b)
    OBVIOUS
  <2>4. /\ m \in To(b) /\ m \in Para
        /\ To(b)' = To(b) \ {m} /\ IsInjective(wire'[b].to)
        /\ From(b)' = From(b) /\ IsInjective(wire'[b].from)
    BY <1>1, <1>5, <2>2, <2>3, LocalWire, TailFact DEF To, From, OnePlace, m
  <2>5. Busy(b) = {} /\ Busy(b)' = {m}
    BY <1>1, <1>5, <2>2, <2>4, SetFacts DEF Busy
  <2>6. OnePlace(b)'
    BY <1>2, <1>3, <2>3, <2>4, <2>5 DEF OnePlace
  <2>7. Answers(b)'
    BY <1>1, <1>2, <2>1, <2>2, <2>3, <2>4, <2>5 DEF Answers, Fits
  <2> QED
    BY <2>6, <2>7
<1> QED
  BY <1>4, <1>5

\* the parameter in which the engine writes
LEMMA AnswerWrites ==
  ASSUME Calm, NEW c \in Bid, EngineAnswer(c)
  PROVE  \/ para' = para
         \/ /\ c \in Local /\ wire[c].busy \in Listed(c) /\ wire[c].busy \in Para
            /\ para' = [para EXCEPT ![wire[c].busy].resp = wire[c].req]
<1> USE DEF Calm, DispatchInv
<1>1. CASE c \in Remote
  BY <1>1 DEF EngineAnswer
<1>2. CASE c \in Local
  <2>1. wire[c].busy \in Para
    BY <1>2, LocalWire DEF EngineAnswer
  <2>2. wire[c].busy \in Listed(c)
    BY <1>2, <2>1 DEF OnePlace, Busy
  <2> QED
    BY <1>2, <2>1, <2>2 DEF EngineAnswer, Local
<1> QED
  BY <1>1, <1>2 DEF Local

\* ... and sends it back with the response
LEMMA PlacesEngineAnswer ==
  ASSUME Calm, NEW c \in Bid, EngineAnswer(c), NEW b \in Local
  PROVE  OnePlace(b)' /\ Answers(b)'
<1> USE DEF Calm, DispatchInv
<1> DEFINE m == wire[c].busy
<1>0. PICK packet : wire' = [wire EXCEPT ![c].busy = None, ![c].req = None,
                               ![c].from = IF bid[c].open /\ wire[c].alive THEN @ \o packet ELSE @]
                    /\ (c \in Local => packet = <<m>>)
  BY DEF EngineAnswer, Local
<1>1. m # None /\ UNCHANGED <<bid, worker>>
  BY DEF EngineAnswer
<1>2. \A w \in Workers : Carried(w, b)' = Carried(w, b) /\ Returned(w, b)' = Returned(w, b)
  BY <1>1 DEF Carried, Returned, Reading
<1>3. b \in Bid /\ bid'[b].list = bid[b].list /\ Listed(b)' = Listed(b) /\ Listed(b) \subseteq Para
  BY <1>1, ListedFact DEF Listed, Local
<1>4. CASE b # c
  <2>1. wire'[b] = wire[b]
    BY <1>0, <1>4 DEF Local, TypeOK
  <2>2. \A p \in Listed(b) : para'[p].req = para[p].req /\ para'[p].resp = para[p].resp
    <3>1. c \in Local /\ m \in Listed(c) => m \notin Listed(b)
      BY <1>3, <1>4 DEF OneHome
    <3> QED
      BY <1>3, <3>1, AnswerWrites DEF TypeOK, ParaState
  <2> QED
    BY <1>2, <1>3, <2>1, <2>2, PlacesKept
<1>5. CASE b = c
  <2>1. /\ para' = [para EXCEPT ![m].resp = wire[b].req] /\ m \in Para
        /\ m \in Busy(b) /\ Busy(b) = {m}
    BY <1>5, LocalWire, <1>1 DEF EngineAnswer, Busy, Local
  <2>2. OnePlace(b) /\ Answers(b)
    OBVIOUS
  <2>3. /\ wire'[b].to = wire[b].to /\ wire'[b].busy = None
        /\ \/ wire'[b].from = wire[b].from
           \/ wire'[b].from = wire[b].from \o <<m>>
    BY <1>0, <1>5, LocalWire DEF TypeOK, WireState
  <2> HIDE DEF m
  <2>4. m \in Message /\ wire[b].from \o <<m>> = Append(wire[b].from, m)
    BY <2>1, LocalWire, SetFacts, AppendIsConcat
  <2>5. /\ To(b)' = To(b) /\ IsInjective(wire'[b].to) /\ Busy(b)' = {}
        /\ From(b)' \in {From(b), From(b) \cup {m}} /\ IsInjective(wire'[b].from)
    <3>1. m \notin From(b)
      BY <2>1, <2>2 DEF OnePlace
    <3>2. To(b)' = To(b) /\ IsInjective(wire'[b].to)
      BY <2>2, <2>3 DEF To, OnePlace
    <3>3. Busy(b)' = {}
      BY <2>3, SetFacts DEF Busy
    <3>4. From(b)' \in {From(b), From(b) \cup {m}} /\ IsInjective(wire'[b].from)
      <4>1. /\ ToSet(Append(wire[b].from, m)) = ToSet(wire[b].from) \cup {m}
            /\ IsInjective(Append(wire[b].from, m))
        <5>1. IsInjective(wire[b].from) /\ m \notin ToSet(wire[b].from)
          BY <2>2, <3>1 DEF OnePlace, From
        <5>2. wire[b].from \in Seq(Message)
          BY LocalWire
        <5> QED
          BY <2>4, <5>1, <5>2, AppendFact
      <4>2. CASE wire'[b].from = wire[b].from
        BY <2>2, <4>2 DEF From, OnePlace
      <4>3. CASE wire'[b].from = Append(wire[b].from, m)
        BY <4>1, <4>3 DEF From
      <4> QED
        BY <2>3, <2>4, <4>2, <4>3
    <3> QED
      BY <3>2, <3>3, <3>4
  <2>6. /\ para'[m].req = para[m].req /\ para'[m].resp = para[m].req
        /\ \A p \in Para \ {m} : para'[p] = para[p]
    <3>1. wire[b].req = para[m].req
      BY <2>1, <2>2 DEF Answers
    <3> QED
      BY <2>1, <3>1 DEF TypeOK, ParaState
  <2>7. OnePlace(b)'
    BY <1>2, <1>3, <2>1, <2>2, <2>5 DEF OnePlace
  <2>8. Answers(b)'
    <3>1. \A p \in From(b)' : para'[p].resp = para'[p].req
      BY <1>3, <2>2, <2>5, <2>6 DEF Answers, OnePlace, Fits
    <3>2. \A w \in Workers : \A p \in Returned(w, b) : para'[p].resp = para'[p].req
      BY <2>2, <2>6 DEF Answers, Returned, Fits
    <3> QED
      BY <1>2, <2>5, <3>1, <3>2 DEF Answers, Fits
  <2> QED
    BY <2>7, <2>8
<1> QED
  BY <1>4, <1>5

LEMMA PlacesOutside ==
  ASSUME Calm, NEW c \in Bid, Outside(c), NEW b \in Local
  PROVE  OnePlace(b)' /\ Answers(b)'
<1> USE DEF Calm, DispatchInv
<1>1. worker' = worker /\ SameLists
  BY OutsideFact
<1>2. \A w \in Workers : Carried(w, b)' = Carried(w, b) /\ Returned(w, b)' = Returned(w, b)
  BY <1>1 DEF Carried, Returned, Reading
<1>3. CASE EngineCloses(c)
  <2>1. wire' = [wire EXCEPT ![c].alive = FALSE, ![c].to = <<>>] /\ para' = para
    BY <1>3 DEF EngineCloses
  <2>2. /\ wire'[b].to \in {wire[b].to, <<>>} /\ wire'[b].busy = wire[b].busy
        /\ wire'[b].from = wire[b].from /\ wire'[b].req = wire[b].req
    BY <2>1, LocalWire DEF TypeOK, WireState
  <2>3. OnePlace(b) /\ Answers(b)
    OBVIOUS
  <2>4. To(b)' \subseteq To(b) /\ IsInjective(wire'[b].to)
    BY <2>2, <2>3 DEF To, ToSet, IsInjective, OnePlace
  <2>5. /\ Busy(b)' = Busy(b) /\ From(b)' = From(b) /\ IsInjective(wire'[b].from)
        /\ Listed(b)' = Listed(b)
    BY <1>1, <2>2, <2>3, ListFrame DEF Busy, From, OnePlace, SameLists, Local
  <2>6. /\ To(b)' \cup Busy(b)' \cup From(b)' \subseteq Listed(b)'
        /\ \A w \in Workers : Carried(w, b)' \subseteq Listed(b)'
    BY <1>2, <2>3, <2>4, <2>5 DEF OnePlace
  <2>7. \A p \in Listed(b) : para'[p].req = para[p].req /\ para'[p].resp = para[p].resp
    BY <2>1
  <2>8. \A w \in Workers :
          Carried(w, b)' \subseteq Carried(w, b) /\ Returned(w, b)' \subseteq Returned(w, b)
    BY <1>2
  <2> QED
    BY <2>2, <2>3, <2>4, <2>5, <2>6, <2>7, <2>8, Shrinks
<1>4. CASE ReadEvent(c) \/ Unregister(c) \/ \E w \in Workers : Register(w, c)
  <2>1. wire' = wire /\ para' = para
    BY <1>4 DEF ReadEvent, Unregister, Register
  <2> QED
    BY <1>1, <1>2, <2>1, PlacesKept DEF SameLists, Local
<1> QED
  BY <1>3, <1>4, PlacesEngineTake, PlacesEngineAnswer DEF Outside

LEMMA PlacesStep ==
  ASSUME Calm, Sound', [Next]_vars, NEW b \in Local
  PROVE  OnePlace(b)' /\ Answers(b)'
<1>1. ASSUME NEW w \in Workers, WorkerStep(w)
      PROVE  OnePlace(b)' /\ Answers(b)'
  <2>1. ~ClearList(w)
    BY DEF ClearList, Calm, Whole
  <2> QED
    BY <1>1, <2>1, PlacesAsk, PlacesPush, PlacesWrite, PlacesEvent, PlacesLook, PlacesCheck,
       PlacesMatch, PlacesDeliver DEF WorkerStep, Ask
<1>2. CASE UNCHANGED vars
  <2>1. \A w \in Workers : Carried(w, b)' = Carried(w, b) /\ Returned(w, b)' = Returned(w, b)
    BY <1>2 DEF vars, Carried, Returned, Reading
  <2> QED
    BY <1>2, <2>1, PlacesKept DEF vars, Calm, Local
<1> QED
  BY <1>1, <1>2, NextCases, PlacesTake, PlacesOutside

-----------------------------------------------------------------------------
(* The lists stay, and what a worker delivers or an exchange has got fits. *)

LEMMA WholeStep ==
  ASSUME Calm, Sound', [Next]_vars
  PROVE  Whole'
<1> USE DEF Calm, DispatchInv
<1>1. \A b \in Bid : ~bid'[b].deleted
  BY SoundKept DEF Kept, Whole
<1>2. ASSUME NEW w \in Workers, WorkerStep(w)
      PROVE  Others(w) /\ worker'[w].pc \notin {"clear", "drop"}
  <2>1. CASE Ask(w) \/ Push(w) \/ Refuse(w) \/ \E k : CheckList(w, k)
    BY <2>1, AskFact, PushFact, RefuseFact, CheckFact DEF Asking, Others
  <2>2. CASE MatchLocal(w) \/ MatchRemote(w) \/ Deliver(w)
    BY <2>2, MatchFact, DeliverFact
  <2>3. CASE SortEvent(w)
    <3>1. bid[worker[w].b].open
      BY <2>3 DEF SortEvent, WorkersReady, Sound
    <3>2. Return(w) \/ Goto(w, "check")
      BY <2>3, <3>1 DEF SortEvent
    <3> QED
      BY <3>2, WorkerFrame DEF Others
  <2>4. CASE Write(w) \/ Settle(w) \/ StopTimer(w)
    BY <2>4, WorkerFrame DEF Write, Settle, StopTimer, Others
  <2>5. ASSUME NEW c \in Bid, TakeEvent(w, c)
        PROVE  Others(w) /\ worker'[w].pc \notin {"clear", "drop"}
    <3>1. Others(w)
      BY <2>5, LookFact DEF Look
    <3>2. PICK m : worker' = [worker EXCEPT ![w] = [Idle EXCEPT !.pc = "bid", !.b = c, !.msg = m]]
      BY <2>5 DEF TakeEvent
    <3> QED
      BY <3>1, <3>2 DEF Idle, TypeOK
  <2>6. ~ClearList(w) /\ ~DropBid(w)
    BY DEF ClearList, DropBid, Whole
  <2> QED
    BY <1>2, <2>1, <2>2, <2>3, <2>4, <2>5, <2>6 DEF WorkerStep, Ask
<1>3. ASSUME NEW w \in Workers, NEW r \in Request, TakeRequest(w, r)
      PROVE  Others(w) /\ worker'[w].pc \notin {"clear", "drop"}
  BY <1>3, TakeFact
<1>4. (\E b \in Bid : Outside(b)) \/ UNCHANGED vars => worker' = worker
  BY OutsideFact DEF vars
<1>5. \A w \in Workers : worker'[w].pc \notin {"clear", "drop"}
  BY <1>2, <1>3, <1>4, NextCases DEF Whole, Others
<1> QED
  BY <1>1, <1>5 DEF Whole

\* a parameter that a worker delivers is not written to
LEMMA DeliversStep ==
  ASSUME Calm, Delivers, Sound', [Next]_vars
  PROVE  Delivers'
<1> USE DEF Calm, DispatchInv
<1> DEFINE New(w) == worker'[w].pc = "deliver" /\ worker'[w].b \in Local /\ worker'[w] # worker[w]
<1>1. ASSUME NEW w \in Workers, worker[w].pc = "deliver"
      PROVE  /\ worker[w].p \in Para /\ worker[w].p \notin free
             /\ \A b \in Bid : worker[w].p \notin Listed(b)
  BY <1>1 DEF WorkersReady, OneHome, Held
<1>2. ASSUME \A w \in Workers : worker[w].pc = "deliver" /\ worker'[w] = worker[w]
               => /\ para'[worker[w].p].req = para[worker[w].p].req
                  /\ para'[worker[w].p].resp = para[worker[w].p].resp,
             \A w \in Workers : New(w) => Fits(worker'[w].p) /\ para' = para
      PROVE  Delivers'
  BY <1>2 DEF Delivers, Fits
<1>3. ASSUME NEW w \in Workers, WorkerStep(w)
      PROVE  Delivers'
  <2>1. Others(w) /\ \A v \in Workers \ {w} : ~New(v)
    <3>1. Others(w)
      BY <1>3, WorkerStepCases, AskFact, PushFact, RefuseFact, CheckFact, MatchFact, DeliverFact,
         LookFact, ClearFact DEF Others
    <3> QED
      BY <3>1 DEF Others
  <2>2. New(w) => Fits(worker'[w].p) /\ para' = para
    <3>1. CASE MatchLocal(w) \/ MatchRemote(w)
      BY <3>1, PlacesMatch, MatchFact
    <3>2. CASE ~(MatchLocal(w) \/ MatchRemote(w))
      <4>1. worker'[w].pc # "deliver"
        BY <1>3, <3>2, WorkerStepCases, AskFact, PushFact, RefuseFact, CheckFact, DeliverFact,
           LookFact, ClearFact DEF Asking
      <4> QED
        BY <4>1
    <3> QED
      BY <3>1, <3>2
  <2>3. \A p \in Para : para'[p].req = para[p].req /\ para'[p].resp = para[p].resp
    <3>1. \A ps : Mark(ps) =>
            \A p \in Para : para'[p].req = para[p].req /\ para'[p].resp = para[p].resp
      BY DEF Mark, TypeOK, ParaState
    <3> QED
      BY <1>3, <3>1, WorkerStepCases, AskFact, PushFact, RefuseFact, CheckFact, MatchFact,
         DeliverFact, LookFact, ClearFact
  <2> HIDE DEF New
  <2> QED
    BY <1>1, <1>2, <2>1, <2>2, <2>3
<1>4. ASSUME NEW w \in Workers, NEW r \in Request, TakeRequest(w, r)
      PROVE  Delivers'
  <2>1. PICK p \in free :
          /\ para' = [para EXCEPT ![p] = [req |-> r, timeout |-> FALSE, resp |-> None]]
          /\ worker'[w].pc \in {"find", "refuse"} /\ Others(w)
    BY <1>4, TakeFact
  <2>2. \A q \in Para \ {p} : para'[q] = para[q]
    BY <2>1 DEF TypeOK
  <2>3. \A v \in Workers : ~New(v)
    BY <2>1 DEF Others
  <2> HIDE DEF New
  <2> QED
    BY <1>1, <1>2, <2>1, <2>2, <2>3
<1>5. ASSUME NEW b \in Bid, Outside(b)
      PROVE  Delivers'
  <2>1. \A v \in Workers : ~New(v)
    BY <1>5, OutsideFact
  <2>2. \/ para' = para
        \/ \E p \in Listed(b) : \A q \in Para \ {p} : para'[q] = para[q]
    <3>1. CASE EngineAnswer(b)
      BY <3>1, AnswerWrites DEF TypeOK
    <3>2. CASE ~EngineAnswer(b)
      BY <1>5, <3>2 DEF Outside, ReadEvent, Unregister, Register, EngineTake, EngineCloses
    <3> QED
      BY <3>1, <3>2
  <2> HIDE DEF New
  <2>3. \A w \in Workers : worker[w].pc = "deliver" => para'[worker[w].p] = para[worker[w].p]
    BY <1>1, <2>2
  <2> QED
    BY <1>2, <2>1, <2>3
<1>6. CASE UNCHANGED vars
  BY <1>2, <1>6 DEF vars
<1> QED
  BY <1>3, <1>4, <1>5, <1>6, NextCases

LEMMA OwnStep ==
  ASSUME Calm, Delivers, Own, [Next]_vars
  PROVE  Own'
<1> USE DEF Calm, DispatchInv
<1>1. ASSUME NEW ps, AnswerEmpty(ps)
      PROVE  Own'
  <2>1. \A r \in Request : reply'[r] = reply[r] \/ reply'[r].by = None
    BY <1>1 DEF AnswerEmpty
  <2> QED
    BY <2>1, SetFacts DEF Own, Local
<1>2. reply' = reply => Own'
  BY DEF Own
<1>3. ASSUME NEW w \in Workers, WorkerStep(w)
      PROVE  Own'
  <2>1. CASE Deliver(w)
    <3> DEFINE p == worker[w].p
               b == worker[w].b
               r == para[p].req
               resp == IF b \in Remote THEN worker[w].msg ELSE para[p].resp
    <3>1. reply' = reply \/ AnswerEmpty({p}) \/ Answer(p, resp, b)
      BY <2>1 DEF Deliver
    <3>2. b \in Local => resp = r
      BY <2>1 DEF Deliver, Delivers, Fits, Local
    <3> HIDE DEF p, b, resp
    <3>3. ASSUME Answer(p, resp, b)
          PROVE  Own'
      <4>1. reply' = [reply EXCEPT ![r] = [n |-> reply[r].n + 1, from |-> resp, by |-> b]]
        BY <3>3 DEF Answer
      <4> HIDE DEF r
      <4>2. \A s \in Request : \/ reply'[s] = reply[s]
                               \/ s = r /\ reply'[s].from = resp /\ reply'[s].by = b
        BY <4>1 DEF TypeOK
      <4> QED
        BY <3>2, <4>2 DEF Own
    <3> QED
      BY <1>1, <1>2, <3>1, <3>3
  <2>2. CASE ~Deliver(w)
    BY <1>1, <1>2, <1>3, <2>2, WorkerStepCases, AskFact, PushFact, RefuseFact, CheckFact,
       MatchFact, LookFact, ClearFact
  <2> QED
    BY <2>1, <2>2
<1> QED
  BY <1>2, <1>3, NextCases, TakeFact, OutsideFact DEF vars

-----------------------------------------------------------------------------
LEMMA OwnStart == Init => OwnInv
<1> SUFFICES ASSUME Init
             PROVE  OwnInv
  OBVIOUS
<1>1. \A b \in Bid : bid[b] = NewBid /\ wire[b] = NewWire
  BY DEF Init
<1>2. \A w \in Workers : worker[w] = Idle
  BY DEF Init
<1>3. Whole /\ Delivers
  BY <1>1, <1>2 DEF Whole, Delivers, NewBid, Idle
<1>4. Own
  BY SetFacts DEF Init, Own, NoReply, Local
<1>5. ASSUME NEW b \in Local
      PROVE  OnePlace(b) /\ Answers(b)
  <2>1. /\ To(b) = {} /\ From(b) = {} /\ Busy(b) = {}
        /\ IsInjective(wire[b].to) /\ IsInjective(wire[b].from)
    BY <1>1, SetFacts DEF To, From, Busy, NewWire, Local, ToSet, IsInjective
  <2>2. \A w \in Workers : Carried(w, b) = {} /\ Returned(w, b) = {}
    BY <1>2 DEF Carried, Returned, Reading, Idle
  <2> QED
    BY <2>1, <2>2 DEF OnePlace, Answers
<1> QED
  BY <1>3, <1>4, <1>5 DEF OwnInv

LEMMA OwnInvariant == Spec => []OwnInv
<1>1. DispatchInv /\ OwnInv /\ [Next]_vars => OwnInv'
  <2> SUFFICES ASSUME DispatchInv, OwnInv, [Next]_vars, Sound'
               PROVE  /\ Whole'
                      /\ \A b \in Local : OnePlace(b)' /\ Answers(b)'
                      /\ Delivers'
                      /\ Own'
    BY DEF OwnInv, Local
  <2>1. Calm /\ Delivers /\ Own
    BY SoundKept DEF OwnInv, Calm, DispatchInv
  <2> QED
    BY <2>1, WholeStep, PlacesStep, DeliversStep, OwnStep
<1> QED
  BY <1>1, OwnStart, DispatchInvariant, PTL DEF Spec

(* However workers race and requests time out, as long as every bid        *)
(* session holds no exchange gets the response to another one's request    *)
(* from a local engine, although the adapter takes back an address and     *)
(* looks for it on a list whose parameters are used again.                 *)
THEOREM OwnAnswers == Spec => []OwnAnswer
<1>1. OwnInv => OwnAnswer
  BY DEF OwnInv, OwnAnswer, Own, Local
<1> QED
  BY <1>1, OwnInvariant, PTL

-----------------------------------------------------------------------------
(* The sessions' counts.                                                   *)

\* the workers between AdSessionActive and push, or del and AdSessionIdle
Counted(b) == {w \in Workers : worker[w].b = b /\ worker[w].pc \in {"push", "deliver"}}

Registration(b) == IF bid[b].reg THEN 1 ELSE 0

Count(b) ==
  bid[b].active = Registration(b) + Len(bid[b].list) + Cardinality(Counted(b))

Still(b) ==
  /\ bid'[b].active = bid[b].active
  /\ bid'[b].reg = bid[b].reg
  /\ bid'[b].list = bid[b].list

LEMMA CountedFact ==
  ASSUME NEW w \in Workers, Others(w), NEW b
  PROVE  /\ Cardinality(Counted(b)) \in Nat /\ Cardinality(Counted(b)') \in Nat
         /\ w \in Counted(b) /\ w \in Counted(b)' => Counted(b)' = Counted(b)
         /\ w \notin Counted(b) /\ w \notin Counted(b)' => Counted(b)' = Counted(b)
         /\ w \notin Counted(b) /\ w \in Counted(b)' =>
              Cardinality(Counted(b)') = Cardinality(Counted(b)) + 1
         /\ w \in Counted(b) /\ w \notin Counted(b)' =>
              Cardinality(Counted(b)') = Cardinality(Counted(b)) - 1
<1> DEFINE new == Counted(b)'
<1>1. IsFiniteSet(Counted(b)) /\ IsFiniteSet(new)
  BY DispatchAssumption, FS_Subset DEF Counted
<1>2. \A v \in Workers \ {w} : v \in Counted(b) <=> v \in new
  BY DEF Others, Counted
<1>3. Counted(b) \subseteq Workers /\ new \subseteq Workers
  BY DEF Counted
<1> HIDE DEF new
<1>4. CASE w \in Counted(b) <=> w \in new
  <2>1. new = Counted(b)
    BY <1>2, <1>3, <1>4
  <2> QED
    BY <1>1, <1>4, <2>1, FS_CardinalityType DEF new
<1>5. CASE w \notin Counted(b) /\ w \in new
  <2>1. new = Counted(b) \cup {w}
    BY <1>2, <1>3, <1>5
  <2> QED
    BY <1>1, <1>5, <2>1, FS_AddElement, FS_CardinalityType DEF new
<1>6. CASE w \in Counted(b) /\ w \notin new
  <2>1. new = Counted(b) \ {w}
    BY <1>2, <1>3, <1>6
  <2> QED
    BY <1>1, <1>6, <2>1, FS_RemoveElement, FS_CardinalityType DEF new
<1> QED
  BY <1>4, <1>5, <1>6

LEMMA CountKept ==
  ASSUME NEW b, Count(b), Still(b), Counted(b)' = Counted(b)
  PROVE  Count(b)'
BY DEF Count, Still, Registration

LEMMA RegistrationFact ==
  ASSUME NEW b
  PROVE  /\ Registration(b) \in Nat
         /\ bid'[b].reg = bid[b].reg => Registration(b)' = Registration(b)
BY DEF Registration

\* what active gains is what the list and the workers gain
LEMMA CountMoves ==
  ASSUME NEW b, Count(b), bid'[b].reg = bid[b].reg, NEW a \in {-1, 0, 1}, NEW l \in {-1, 0, 1},
         Len(bid[b].list) \in Nat, Cardinality(Counted(b)) \in Nat,
         bid'[b].active = bid[b].active + a + l,
         Len(bid'[b].list) = Len(bid[b].list) + l,
         Cardinality(Counted(b)') = Cardinality(Counted(b)) + a
  PROVE  Count(b)'
<1>1. Registration(b)' = Registration(b) /\ Registration(b) \in Nat
  BY RegistrationFact
<1>2. \A x, y, z, p, q \in Int : x + y + z + p + q = x + (y + q) + (z + p)
  OBVIOUS
<1>3. bid'[b].active = Registration(b) + (Len(bid[b].list) + l) + (Cardinality(Counted(b)) + a)
  <2>1. a \in Int /\ l \in Int
    OBVIOUS
  <2> QED
    BY <1>1, <1>2, <2>1 DEF Count
<1>4. bid'[b].active = Registration(b)' + Len(bid'[b].list) + Cardinality(Counted(b)')
  BY <1>1, <1>3
<1> QED
  BY <1>4 DEF Count

\* fields that the count does not look at
LEMMA StillFact ==
  ASSUME TypeOK, NEW b \in Local, NEW c, NEW v
  PROVE  /\ bid' = bid => Still(b)
         /\ bid' = [bid EXCEPT ![c].open = v] => Still(b)
         /\ bid' = [bid EXCEPT ![c].ptr = v] => Still(b)
         /\ bid' = [bid EXCEPT ![c].timer = v] => Still(b)
         /\ bid' = [bid EXCEPT ![c].watched = v] => Still(b)
         /\ \A n : bid' = [bid EXCEPT ![c].events = n] => Still(b)
         /\ \A n : bid' = [bid EXCEPT ![c].events = n, ![c].open = v] => Still(b)
<1>1. bid \in [Bid -> BidState] /\ bid[b] \in BidState /\ b \in Bid
  BY DEF TypeOK, Local
<1>2. bid' = bid => Still(b)
  BY DEF Still
<1>3. bid' = [bid EXCEPT ![c].open = v] => Still(b)
  BY <1>1 DEF BidState, Still
<1>4. bid' = [bid EXCEPT ![c].ptr = v] => Still(b)
  BY <1>1 DEF BidState, Still
<1>5. bid' = [bid EXCEPT ![c].timer = v] => Still(b)
  BY <1>1 DEF BidState, Still
<1>6. bid' = [bid EXCEPT ![c].watched = v] => Still(b)
  BY <1>1 DEF BidState, Still
<1>7. ASSUME NEW n, bid' = [bid EXCEPT ![c].events = n]
      PROVE  Still(b)
  BY <1>1, <1>7 DEF BidState, Still
<1>8. ASSUME NEW n, bid' = [bid EXCEPT ![c].events = n, ![c].open = v]
      PROVE  Still(b)
  BY <1>1, <1>8 DEF BidState, Still
<1> QED
  BY <1>2, <1>3, <1>4, <1>5, <1>6, <1>7, <1>8

\* a step of a worker that stays out of this session's count
LEMMA Aside ==
  ASSUME NEW w \in Workers, Others(w), NEW b, Count(b), Still(b),
         worker[w].pc \notin {"push", "deliver"} \/ worker[w].b # b,
         worker'[w].pc \notin {"push", "deliver"} \/ worker'[w].b # b
  PROVE  Count(b)'
<1>1. w \notin Counted(b) /\ w \notin Counted(b)'
  BY DEF Counted
<1> QED
  BY <1>1, CountedFact, CountKept

LEMMA CountAsk ==
  ASSUME Calm, NEW w \in Workers, Ask(w), NEW b \in Local, Count(b)
  PROVE  Count(b)'
<1> USE DEF Calm, DispatchInv
<1>0. /\ bid \in [Bid -> BidState] /\ \A c \in Bid : bid[c] \in BidState
      /\ worker \in [Workers -> WorkerState] /\ b \in Bid
  BY DEF TypeOK, Local
<1>1. Others(w)
  BY AskFact DEF Others
<1>2. CASE FindBid(w) \/ CheckBid(w) \/ CheckSize(w)
  <2>1. worker[w].pc \in {"find", "ok", "size"}
    BY <1>2 DEF FindBid, CheckBid, CheckSize
  <2>2. worker'[w].pc \in {"ok", "refuse", "size", "commit", "find"}
    <3>1. \/ \E pc \in {"ok", "refuse", "size", "commit"} : Goto(w, pc)
          \/ \E c : worker' = [worker EXCEPT ![w].pc = "ok", ![w].b = c]
          \/ worker' = [worker EXCEPT ![w].pc = "find", ![w].left = @ - 1]
      BY <1>2 DEF FindBid, CheckBid, CheckSize
    <3> QED
      BY <1>0, <3>1, WorkerFrame DEF WorkerState
  <2>3. Still(b)
    <3>1. bid' = bid \/ \E v : bid' = [bid EXCEPT ![worker[w].b].open = v]
      BY <1>2 DEF FindBid, CheckBid, CheckSize
    <3> QED
      BY <3>1, StillFact
  <2> QED
    BY <1>1, <2>1, <2>2, <2>3, Aside
<1>3. CASE Commit(w)
  <2>1. PICK c \in Bid : c = worker[w].b
    BY <1>3 DEF Commit, WorkersReady
  <2>2. worker[w].pc = "commit" /\ worker'[w].pc = "push" /\ worker'[w].b = c
    BY <1>3, <2>1, WorkerFrame DEF Commit
  <2>3. bid' = [bid EXCEPT ![c].active = @ + 1, ![c].timer = TRUE]
    BY <1>3, <2>1 DEF Commit
  <2>4. CASE b # c
    <3>1. Still(b)
      BY <1>0, <2>3, <2>4 DEF Still
    <3> QED
      BY <1>1, <2>2, <2>4, <3>1, Aside
  <2>5. CASE b = c
    <3>1. /\ bid'[b].active = bid[b].active + 1
          /\ bid'[b].reg = bid[b].reg /\ bid'[b].list = bid[b].list
      BY <1>0, <2>3, <2>5 DEF BidState
    <3>2. w \notin Counted(b) /\ w \in Counted(b)'
      BY <2>2, <2>5 DEF Counted
    <3>3. Cardinality(Counted(b)') = Cardinality(Counted(b)) + 1 /\ Cardinality(Counted(b)) \in Nat
      BY <1>1, <3>2, CountedFact
    <3>4. Len(bid[b].list) \in Nat /\ bid[b].active \in Nat
      BY <1>0, BidFields, LenProperties
    <3>5. /\ bid'[b].active = bid[b].active + 1 + 0
          /\ Len(bid'[b].list) = Len(bid[b].list) + 0
      BY <3>1, <3>4
    <3> QED
      BY <3>1, <3>3, <3>4, <3>5, CountMoves
  <2> QED
    BY <2>4, <2>5
<1> QED
  BY <1>2, <1>3 DEF Ask

LEMMA CountPush ==
  ASSUME Calm, NEW w \in Workers, Push(w), NEW b \in Local, Count(b)
  PROVE  Count(b)'
<1> USE DEF Calm, DispatchInv
<1> DEFINE p == worker[w].p
<1>0. /\ bid \in [Bid -> BidState] /\ bid[b] \in BidState /\ b \in Bid /\ Others(w)
  BY PushFact DEF TypeOK, Local
<1>1. PICK c \in Bid : c = worker[w].b
  BY PushFact
<1>2. /\ worker[w].pc = "push" /\ worker'[w].pc = "write" /\ p \in Para
  BY PushFact DEF Push, WorkersReady
<1>3. bid' = [bid EXCEPT ![c].list = Append(@, p)]
  BY <1>1 DEF Push, Whole
<1> HIDE DEF p
<1>4. CASE b # c
  <2>1. Still(b)
    BY <1>0, <1>3, <1>4 DEF Still
  <2> QED
    BY <1>0, <1>1, <1>2, <1>4, <2>1, Aside
<1>5. CASE b = c
  <2>1. /\ bid'[b].active = bid[b].active /\ bid'[b].reg = bid[b].reg
        /\ bid'[b].list = Append(bid[b].list, p)
    BY <1>0, <1>3, <1>5 DEF BidState
  <2>2. /\ Len(bid'[b].list) = Len(bid[b].list) + 1
        /\ Len(bid[b].list) \in Nat /\ bid[b].active \in Nat
    BY <1>0, <1>2, <2>1, BidFields, AppendProperties, LenProperties
  <2>3. w \in Counted(b) /\ w \notin Counted(b)'
    BY <1>1, <1>2, <1>5 DEF Counted
  <2>4. Cardinality(Counted(b)') = Cardinality(Counted(b)) - 1 /\ Cardinality(Counted(b)) \in Nat
    BY <1>0, <2>3, CountedFact
  <2>5. /\ bid'[b].active = bid[b].active + (-1) + 1
        /\ Cardinality(Counted(b)') = Cardinality(Counted(b)) + (-1)
    BY <2>1, <2>2, <2>4
  <2> QED
    BY <2>1, <2>2, <2>4, <2>5, CountMoves
<1> QED
  BY <1>4, <1>5

LEMMA CountMatch ==
  ASSUME Calm, NEW w \in Workers, MatchLocal(w) \/ MatchRemote(w), NEW b \in Local, Count(b)
  PROVE  Count(b)'
<1> USE DEF Calm, DispatchInv
<1>0. /\ bid \in [Bid -> BidState] /\ bid[b] \in BidState /\ b \in Bid
      /\ worker \in [Workers -> WorkerState]
  BY DEF TypeOK, Local
<1>1. PICK c \in Bid : c = worker[w].b
  BY MatchFact
<1>2. Others(w) /\ worker[w].pc = "match" /\ worker'[w].b = c
  BY <1>1, MatchFact
<1>3. CASE b # c
  <2>1. bid' = bid \/ \E l : bid' = [bid EXCEPT ![c].list = l]
    BY <1>1 DEF MatchLocal, MatchRemote
  <2>2. Still(b)
    BY <1>0, <1>3, <2>1 DEF Still
  <2> QED
    BY <1>1, <1>2, <1>3, <2>2, Aside
<1>4. CASE b = c
  <2>1. MatchLocal(w)
    BY <1>1, <1>4 DEF MatchRemote, Local
  <2>2. CASE bid' = bid /\ Goto(w, "settle")
    <3>1. Still(b) /\ worker'[w].pc = "settle"
      BY <2>2, WorkerFrame DEF Still
    <3> QED
      BY <1>2, <3>1, Aside
  <2>3. ASSUME NEW i \in DOMAIN bid[b].list, NEW m,
               bid' = [bid EXCEPT ![b].list = RemoveAt(bid[b].list, i)],
               worker' = [worker EXCEPT ![w].pc = "deliver", ![w].p = m]
        PROVE  Count(b)'
    <3>1. /\ bid'[b].active = bid[b].active /\ bid'[b].reg = bid[b].reg
          /\ bid'[b].list = RemoveAt(bid[b].list, i)
      BY <1>0, <2>3 DEF BidState
    <3>2. bid[b].list \in Seq(Para) /\ bid[b].active \in Nat
      BY <1>0, BidFields
    <3>3. Len(bid'[b].list) = Len(bid[b].list) - 1 /\ Len(bid[b].list) \in Nat
      BY <3>1, <3>2, RemoveFact, LenProperties
    <3>4. w \notin Counted(b) /\ w \in Counted(b)'
      BY <1>0, <1>2, <1>4, <2>3 DEF Counted, WorkerState
    <3>5. Cardinality(Counted(b)') = Cardinality(Counted(b)) + 1 /\ Cardinality(Counted(b)) \in Nat
      BY <1>2, <3>4, CountedFact
    <3>6. /\ bid'[b].active = bid[b].active + 1 + (-1)
          /\ Len(bid'[b].list) = Len(bid[b].list) + (-1)
      BY <3>1, <3>2, <3>3
    <3> QED
      BY <3>1, <3>3, <3>5, <3>6, CountMoves
  <2> QED
    BY <1>1, <1>4, <2>1, <2>2, <2>3 DEF MatchLocal
<1> QED
  BY <1>3, <1>4

LEMMA CountDeliver ==
  ASSUME Calm, NEW w \in Workers, Deliver(w), NEW b \in Local, Count(b)
  PROVE  Count(b)'
<1> USE DEF Calm, DispatchInv
<1>0. /\ bid \in [Bid -> BidState] /\ bid[b] \in BidState /\ b \in Bid
  BY DEF TypeOK, Local
<1>1. PICK c \in Bid : c = worker[w].b
  BY DeliverFact
<1>2. /\ Others(w) /\ worker[w].pc = "deliver" /\ worker'[w].pc \in {"settle", "match"}
  BY DeliverFact
<1>3. bid' = [bid EXCEPT ![c].active = IF @ > 0 THEN @ - 1 ELSE @]
  BY <1>1 DEF Deliver
<1>4. CASE b # c
  <2>1. Still(b)
    BY <1>0, <1>3, <1>4 DEF Still
  <2> QED
    BY <1>1, <1>2, <1>4, <2>1, Aside
<1>5. CASE b = c
  <2>1. /\ bid'[b].active = IF bid[b].active > 0 THEN bid[b].active - 1 ELSE bid[b].active
        /\ bid'[b].reg = bid[b].reg /\ bid'[b].list = bid[b].list
    BY <1>0, <1>3, <1>5 DEF BidState
  <2>2. w \in Counted(b) /\ w \notin Counted(b)'
    BY <1>1, <1>2, <1>5 DEF Counted
  <2>3. /\ Cardinality(Counted(b)') = Cardinality(Counted(b)) - 1
        /\ Cardinality(Counted(b)) \in Nat /\ Cardinality(Counted(b)') \in Nat
    BY <1>2, <2>2, CountedFact
  <2>4. Len(bid[b].list) \in Nat /\ bid[b].active \in Nat
    BY <1>0, BidFields, LenProperties
  <2> QED
    BY <2>1, <2>3, <2>4, RegistrationFact DEF Count
<1> QED
  BY <1>4, <1>5

LEMMA CountLook ==
  ASSUME Calm, NEW w \in Workers, Look(w), ~DropBid(w), NEW b \in Local, Count(b)
  PROVE  Count(b)'
<1> USE DEF Calm, DispatchInv
<1>0. /\ bid \in [Bid -> BidState] /\ bid[b] \in BidState /\ b \in Bid
  BY DEF TypeOK, Local
<1>1. /\ Others(w) /\ ~Asking(w) /\ worker[w].pc # "deliver"
      /\ worker'[w].pc \in {"idle", "bid", "check", "clear", "drop", "untimer"}
  BY LookFact
<1>2. Still(b)
  <2>1. CASE Write(w)
    BY <2>1, StillFact DEF Write
  <2>2. ASSUME NEW c \in Bid, TakeEvent(w, c)
        PROVE  Still(b)
    <3> DEFINE ends == bid[c].open /\ ~wire[c].alive
               n == bid[c].events - 1
               v == bid[c].open /\ ~ends
    <3>1. bid' = [bid EXCEPT ![c].events = n, ![c].open = v]
      BY <2>2 DEF TakeEvent
    <3> HIDE DEF n, v
    <3> QED
      BY <3>1, StillFact
  <2>3. CASE SortEvent(w) \/ Settle(w) \/ StopTimer(w)
    BY <2>3, StillFact DEF SortEvent, Settle, StopTimer
  <2> QED
    BY <2>1, <2>2, <2>3 DEF Look
<1> QED
  BY <1>1, <1>2, Aside DEF Asking

LEMMA CountOutside ==
  ASSUME Calm, NEW c \in Bid, Outside(c), NEW b \in Local, Count(b)
  PROVE  Count(b)'
<1> USE DEF Calm, DispatchInv
<1>0. /\ bid \in [Bid -> BidState] /\ bid[b] \in BidState /\ b \in Bid
  BY DEF TypeOK, Local
<1>1. Counted(b)' = Counted(b)
  BY OutsideFact DEF Counted
<1>2. CASE \/ bid' = bid \/ bid' = [bid EXCEPT ![c].events = @ + 1]
           \/ bid' = [bid EXCEPT ![c].watched = FALSE]
  <2>1. Still(b)
    BY <1>2, StillFact
  <2> QED
    BY <1>1, <2>1, CountKept
<1>3. ASSUME NEW w \in Workers, Register(w, c)
      PROVE  Count(b)'
  <2>1. /\ bid' = [bid EXCEPT ![c].ptr = TRUE, ![c].active = @ + 1, ![c].reg = TRUE]
        /\ ~bid[c].reg
    BY <1>3 DEF Register
  <2>2. CASE b # c
    <3>1. Still(b)
      BY <1>0, <2>1, <2>2 DEF Still
    <3> QED
      BY <1>1, <3>1, CountKept
  <2>3. CASE b = c
    <3>1. /\ bid'[b].active = bid[b].active + 1 /\ bid'[b].reg
          /\ bid'[b].list = bid[b].list /\ ~bid[b].reg
      BY <1>0, <2>1, <2>3 DEF BidState
    <3>2. Cardinality(Counted(b)) \in Nat
      BY DispatchAssumption, FS_Subset, FS_CardinalityType DEF Counted
    <3>3. Len(bid[b].list) \in Nat
      BY <1>0, BidFields, LenProperties
    <3>4. Registration(b) = 0 /\ Registration(b)' = 1
      BY <3>1 DEF Registration
    <3>5. \A x, y \in Nat : 0 + x + y + 1 = 1 + x + y
      OBVIOUS
    <3>6. bid'[b].active = 1 + Len(bid[b].list) + Cardinality(Counted(b))
      BY <3>1, <3>2, <3>3, <3>4, <3>5 DEF Count
    <3> QED
      BY <1>1, <3>1, <3>4, <3>6 DEF Count
  <2> QED
    BY <2>2, <2>3
<1> QED
  BY <1>2, <1>3 DEF Outside, ReadEvent, Unregister, EngineTake, EngineAnswer, EngineCloses

LEMMA CountStep ==
  ASSUME Calm, [Next]_vars, NEW b \in Local, Count(b)
  PROVE  Count(b)'
<1> USE DEF Calm, DispatchInv
<1>1. ASSUME NEW w \in Workers, (\E r \in Request : TakeRequest(w, r)) \/ Refuse(w)
                                \/ \E k : CheckList(w, k)
      PROVE  Count(b)'
  <2>1. /\ Others(w) /\ worker[w].pc \in {"idle", "refuse", "check"}
        /\ worker'[w].pc \in {"find", "refuse", "idle", "match"}
    BY <1>1, TakeFact, RefuseFact, CheckFact DEF Refuse
  <2>2. Still(b)
    BY <1>1 DEF TakeRequest, Refuse, CheckList, Still
  <2> QED
    BY <2>1, <2>2, Aside
<1>2. ASSUME NEW w \in Workers, WorkerStep(w)
      PROVE  Count(b)'
  <2>1. ~ClearList(w) /\ ~DropBid(w)
    BY DEF ClearList, DropBid, Whole
  <2> QED
    BY <1>1, <1>2, <2>1, WorkerStepCases, CountAsk, CountPush, CountMatch, CountDeliver, CountLook
<1>3. CASE UNCHANGED vars
  BY <1>3, CountKept DEF vars, Counted, Still
<1> QED
  BY <1>1, <1>2, <1>3, NextCases, CountOutside

(* The count that keeps a bid session from being closed as idle neither    *)
(* loses nor gains: AdSessionActive and AdSessionIdle come in pairs over   *)
(* registration, push, answer and timeout, whichever worker makes them.    *)
THEOREM ActiveCounted == Spec => []ActiveCounts
<1>1. Init => ActiveCounts
  <2> SUFFICES ASSUME Init, NEW b \in Local
               PROVE  Count(b)
    BY DEF ActiveCounts, Count, Counted, Registration, Local
  <2>1. bid[b] = NewBid /\ Counted(b) = {}
    BY DEF Init, Idle, Counted, Local
  <2>2. Len(bid[b].list) = 0 /\ Cardinality({}) = 0
    BY <2>1, FS_EmptySet DEF NewBid
  <2> QED
    BY <2>1, <2>2 DEF Count, Registration, NewBid
<1>2. DispatchInv /\ OwnInv /\ ActiveCounts /\ [Next]_vars => ActiveCounts'
  <2> SUFFICES ASSUME DispatchInv, OwnInv, ActiveCounts, [Next]_vars, Sound', NEW b \in Local
               PROVE  Count(b)'
    BY DEF ActiveCounts, Count, Counted, Registration, Local
  <2>1. Calm /\ Count(b)
    BY SoundKept DEF OwnInv, Calm, DispatchInv, ActiveCounts, Count, Counted, Registration, Local
  <2> QED
    BY <2>1, CountStep
<1> QED
  BY <1>1, <1>2, OwnInvariant, DispatchInvariant, PTL DEF Spec
=============================================================================
