-------------------------- MODULE LiveBiddingProofs --------------------------
(***************************************************************************)
(* Proofs about LiveBidding: the invariants of its two halves hold side by *)
(* side, and what a bid may rely on follows from both.                     *)
(***************************************************************************)
EXTENDS LiveBidding, RealTimeProofs, BiddingProofs

LiveInv == TypeOK /\ Filed /\ BidInv

LEMMA LiveStart == LiveInit => LiveInv
BY TypeInit, FiledInit, InitSane DEF LiveInit, LiveInv

(* A thread of the one half leaves the other alone, except that a bid      *)
(* starts on the orders shown.                                             *)
LEMMA LiveStep == LiveInv /\ [LiveNext]_vars => LiveInv'
<1> SUFFICES ASSUME LiveInv, [LiveNext]_vars PROVE LiveInv'
  OBVIOUS
<1>1. [Next]_rtVars
  BY DEF LiveNext, vars
<1>2. TypeOK' /\ Filed'
  BY <1>1, TypeStep, FiledStep DEF LiveInv
<1>3. shown \in Plans
  BY LiveAssumption DEF LiveInv, TypeOK
<1>4. BidInv'
  <2>1. CASE UNCHANGED bid
    BY <2>1 DEF LiveInv, BidInv
  <2>2. ASSUME NEW b \in Bidders, NEW q \in Requests,
               BidStart(b, q, shown, <<clock.day, clock.hour>>)
        PROVE  BidInv'
    BY <1>3, <2>2, StartSane, BiddingAssumption DEF LiveInv
  <2>3. ASSUME NEW b \in Bidders, BidRealTime(b, {u \in bid[b].res : ~Passes(u)})
        PROVE  BidInv'
    BY <2>3, RealTimeSane DEF LiveInv
  <2>4. ASSUME NEW b \in Bidders, BidOn(b)
        PROVE  BidInv'
    BY <2>4, OnSane DEF LiveInv
  <2> QED
    BY <2>1, <2>2, <2>3, <2>4 DEF LiveNext, vars
<1> QED
  BY <1>2, <1>4 DEF LiveInv

\* What the offers rest on, for the composition.
THEOREM LiveInvariant == LiveSpec => []LiveInv
BY LiveStart, LiveStep, PTL DEF LiveSpec

(* Whatever the clock and the rounds did while the bid went on, its order  *)
(* was scheduled for the hour in which the filters looked at it.           *)
THEOREM OffersScheduled == LiveSpec => []OfferIsScheduled
<1>1. LiveInv => OfferIsScheduled
  <2> SUFFICES ASSUME LiveInv, NEW b \in Bidders, bid[b].pc = "offer"
               PROVE  LET o == bid[b].book[bid[b].offer.unit]
                      IN Pushed(o) /\ bid[b].now \in o.hours
    BY DEF OfferIsScheduled
  <2> DEFINE s == bid[b]
             o == s.book[s.offer.unit]
  <2>1. OfferFact(s)
    BY OfferHolds DEF LiveInv
  <2>2. Legible(s.q) /\ s.book \in Plans /\ s.offer.unit \in StaticMatch(s.book, s.q, s.now)
    BY <2>1 DEF LiveInv, BidInv, Sane, OfferFact
  <2>3. s.offer.unit \in DOMAIN s.book /\ Planned(o) /\ Parameter(o, s.q, s.now)
    BY <2>2, FoundOnes
  <2>4. Suits(o, s.q, s.now)
    BY <2>2, <2>3, ParameterSuits DEF Legible
  <2> QED
    BY <2>4 DEF Suits, Pushed
<1> QED
  BY <1>1, LiveInvariant, PTL

Checked ==
  \A b \in Bidders : bid[b].pc = "realtime" /\ bid'[b].pc = "mark" =>
    \A u \in bid'[b].res :
      IF u \in DOMAIN info THEN info[u].flag = "OK" /\ info[u].age < TooOld
      ELSE u \in update.todo \/ u \notin DOMAIN update.book \/ update.late

(* A bid comes past the real-time filter by its one step there, and what   *)
(* that leaves in has a recent OK or no entry, which Filed explains.       *)
LEMMA CheckedStep == LiveInv /\ [LiveNext]_vars => Checked
<1> SUFFICES ASSUME LiveInv, [LiveNext]_vars, NEW b \in Bidders,
                    bid[b].pc = "realtime", bid'[b].pc = "mark"
             PROVE  \A u \in bid'[b].res :
                      IF u \in DOMAIN info THEN info[u].flag = "OK" /\ info[u].age < TooOld
                      ELSE u \in update.todo \/ u \notin DOMAIN update.book \/ update.late
  BY DEF Checked
<1> DEFINE held == {u \in bid[b].res : ~Passes(u)}
<1>1. \A c \in Bidders : \A r : Set(c, r) => bid'[b] = IF c = b THEN r ELSE bid[b]
  <2>1. bid = [c \in Bidders |-> bid[c]]
    BY DEF LiveInv, BidInv
  <2> QED
    BY <2>1 DEF Set
<1>2. NoBid.pc = "idle"
  BY DEF NoBid
<1>3. ~UNCHANGED bid
  OBVIOUS
<1>4. ASSUME NEW c \in Bidders, NEW q, NEW book, NEW now, BidStart(c, q, book, now)
      PROVE  FALSE
  <2>1. PICK r : Set(c, r)
    BY <1>4 DEF BidStart
  <2> QED
    BY <1>1, <1>4, <2>1 DEF BidStart
<1>5. ASSUME NEW c \in Bidders, BidOn(c)
      PROVE  FALSE
  <2>1. bid[c].pc # "realtime" /\ \E r : Set(c, r)
    BY <1>5 DEF BidOn, BidMark, BidLate, BidRank, BidEnd
  <2> QED
    BY <1>1, <2>1
<1>6. BidRealTime(b, held)
  <2>1. PICK c \in Bidders : BidRealTime(c, {u \in bid[c].res : ~Passes(u)})
    BY <1>3, <1>4, <1>5 DEF LiveNext, vars
  <2>2. \E r : Set(c, r)
    BY <2>1 DEF BidRealTime
  <2> QED
    BY <1>1, <2>1, <2>2
<1>7. bid'[b].res = bid[b].res \ held
  <2> DEFINE s == bid[b]
             left == s.res \ held
             r == [s EXCEPT !.pc = "mark", !.res = left]
  <2>1. DOMAIN s = Fields
    BY DEF LiveInv, BidInv, Sane
  <2>2. Set(b, r)
    BY <1>1, <1>2, <1>6 DEF BidRealTime
  <2>3. bid'[b] = r
    BY <1>1, <2>2
  <2> HIDE DEF s, left
  <2>4. r.res = left
    BY <2>1 DEF Fields
  <2> QED
    BY <2>3, <2>4 DEF s, left
<1> SUFFICES ASSUME NEW u \in bid'[b].res
             PROVE  IF u \in DOMAIN info THEN info[u].flag = "OK" /\ info[u].age < TooOld
                    ELSE u \in update.todo \/ u \notin DOMAIN update.book \/ update.late
  OBVIOUS
<1>8. Passes(u)
  BY <1>7
<1>9. CASE u \in DOMAIN info
  <2>1. info[u].age \in Nat /\ UsingTime \in Nat
    BY <1>9, RealTimeAssumption DEF LiveInv, TypeOK, Entries, TooOld
  <2> QED
    BY <1>8, <1>9, <2>1 DEF Passes, TooOld
<1>10. CASE u \notin DOMAIN info
  BY <1>10 DEF LiveInv, Filed
<1> QED
  BY <1>9, <1>10

\* Reports, rounds and midnights beside the bids: none passes the filter with
\* an order that a report of the last UsingTime did not vouch for, except in
\* the window that a midnight opens.
THEOREM BidsChecked == LiveSpec => BidsAreChecked
<1>1. LiveInv /\ [LiveNext]_vars => [Checked]_vars
  BY CheckedStep
<1> QED
  BY <1>1, LiveInvariant, PTL DEF LiveSpec, BidsAreChecked, Checked
=============================================================================
