------------------------- MODULE EngineUpdateProofs -------------------------
(***************************************************************************)
(* Proofs about EngineUpdate for any number of bidding threads.            *)
(***************************************************************************)
EXTENDS EngineUpdate, TLAPS

(* Two copies: what is not in front is at the back. *)
LEMMA BackFact ==
  ASSUME NEW c \in Copy
  PROVE  Back(c) \in Copy /\ Back(c) # c /\ Back(Back(c)) = c
BY DEF Back, Copy

BidderType ==
  [pc : {"idle", "match", "rank"}, chain : Pointer, units : Pointer, old : BOOLEAN]

(* A round that ends keeps the types and marks the bids under way. *)
LEMMA ReturnFact ==
  ASSUME TypeOK, NEW ok \in BOOLEAN, Return(ok)
  PROVE  /\ update' = [pc |-> "wait", again |-> FALSE, ok |-> ok]
         /\ update' \in [pc : UpdatePC, again : BOOLEAN, ok : BOOLEAN]
         /\ bidder' \in [Bidders -> BidderType]
         /\ \A b \in Bidders :
              bidder'[b] = [bidder[b] EXCEPT !.old = bidder[b].pc # "idle"]
<1>1. update' = [pc |-> "wait", again |-> FALSE, ok |-> ok]
  BY DEF Return
<1>2. update' \in [pc : UpdatePC, again : BOOLEAN, ok : BOOLEAN]
  BY <1>1 DEF UpdatePC
<1>3. \A b \in Bidders : bidder'[b] = [bidder[b] EXCEPT !.old = bidder[b].pc # "idle"]
  BY Zenon DEF Return
<1>4. bidder' \in [Bidders -> BidderType]
  BY DEF TypeOK, Return, BidderType
<1> QED
  BY <1>1, <1>2, <1>3, <1>4

LEMMA DeletedFact ==
  ASSUME NEW p \in Pointer, NEW c
  PROVE  Deleted(p, c) \in Pointer
BY DEF Deleted, Pointer

UnitType ==
  [full : BOOLEAN, latest : BOOLEAN, price : Pointer, pids : {"null", "live", "gone"}]

(* Writing one field of a unit leaves it a unit. *)
LEMMA UnitFact ==
  ASSUME NEW u \in UnitType
  PROVE  /\ u.price \in Pointer
         /\ [u EXCEPT !.latest = FALSE] \in UnitType
         /\ \A p \in Pointer : [u EXCEPT !.price = p] \in UnitType
BY DEF UnitType

(* The types are kept by every step. *)
LEMMA TypeStep ==
  ASSUME TypeOK, [Next]_vars
  PROVE  TypeOK'
<1>1. CASE RoundBegin
  BY <1>1 DEF TypeOK, RoundBegin, Goto, UpdatePC
<1>2. CASE NoTimestamp \/ LoadFails \/ PidsFail \/ ConfigFails
  BY <1>2, ReturnFact DEF TypeOK, NoTimestamp, LoadFails, PidsFail, ConfigFails, Fail, BidderType
<1>3. CASE SameTimestamp \/ NewTimestamp
  BY <1>3 DEF TypeOK, SameTimestamp, NewTimestamp, Goto, UpdatePC
<1>4. CASE ClearBack
  <2>1. unit' \in [Copy -> [full : BOOLEAN, latest : BOOLEAN, price : Pointer,
                            pids : {"null", "live", "gone"}]]
    BY <1>4 DEF TypeOK, ClearBack, NoUnits, Pointer, Copies
  <2>2. filters' \in [Copy -> Pointer]
    BY <1>4, DeletedFact DEF TypeOK, ClearBack
  <2>3. bidder' \in [Bidders -> BidderType]
    BY <1>4, DeletedFact DEF TypeOK, ClearBack, BidderType
  <2> QED
    BY <1>4, <2>1, <2>2, <2>3 DEF TypeOK, ClearBack, Goto, UpdatePC, BidderType
<1>5. CASE Switch
  <2>1. redis' \in [new : BOOLEAN, newer : BOOLEAN, empty : BOOLEAN] /\ front' \in Copy
    BY <1>5, BackFact DEF TypeOK, Switch
  <2>2. CASE Fail
    BY <1>5, <2>1, <2>2, ReturnFact DEF TypeOK, Switch, Fail, BidderType
  <2>3. CASE Goto("price") /\ UNCHANGED bidder
    BY <1>5, <2>1, <2>3 DEF TypeOK, Switch, Goto, UpdatePC
  <2> QED
    BY <1>5, <2>2, <2>3 DEF Switch
<1>6. CASE ClearPrices
  <2>1. unit \in [Copy -> UnitType]
    BY DEF TypeOK, UnitType
  <2>2. ASSUME NEW c \in Copy
        PROVE  [unit[c] EXCEPT !.price = Deleted(unit[c].price, Back(price))] \in UnitType
    BY <2>1, UnitFact, DeletedFact
  <2>3. unit' \in [Copy -> UnitType]
    BY <1>6, <2>2 DEF ClearPrices
  <2> QED
    BY <1>6, <2>3 DEF TypeOK, ClearPrices, Goto, UpdatePC, UnitType
<1>7. CASE AttachPrices
  BY <1>7, BackFact DEF TypeOK, AttachPrices, Goto, UpdatePC, Pointer, Copies
<1>8. CASE PricesFail
  BY <1>8, ReturnFact, BackFact DEF TypeOK, PricesFail, Fail, BidderType
<1>9. CASE ClearPids
  <2>1. unit' \in [Copy -> [full : BOOLEAN, latest : BOOLEAN, price : Pointer,
                            pids : {"null", "live", "gone"}]]
    BY <1>9 DEF TypeOK, ClearPids
  <2> QED
    BY <1>9, <2>1, ReturnFact DEF TypeOK, ClearPids, Fail, Goto, UpdatePC, BidderType
<1>10. CASE AttachPids \/ ConfigRead \/ Reinit
  <2>1. CASE AttachPids
    BY <2>1 DEF TypeOK, AttachPids, Goto, UpdatePC
  <2>2. CASE ConfigRead \/ Reinit
    BY <2>2 DEF TypeOK, ConfigRead, Reinit, Goto, UpdatePC
  <2> QED
    BY <1>10, <2>1, <2>2
<1>11. CASE FiltersClear
  <2>1. bidder' \in [Bidders -> BidderType]
    BY <1>11, DeletedFact DEF TypeOK, FiltersClear, BidderType
  <2> QED
    BY <1>11, <2>1 DEF TypeOK, FiltersClear, Pointer, Copies, Goto, UpdatePC, BidderType
<1>12. CASE FiltersUpdate \/ FiltersFail
  <2>1. filters' \in [Copy -> Pointer] /\ shown' \in Copy
    <3>1. Back(shown) \in Copy /\ front \in Pointer
      BY BackFact DEF TypeOK, Pointer, Copies
    <3>2. filters' = [filters EXCEPT ![Back(shown)] = front] /\ shown' \in {shown, Back(shown)}
      BY <1>12 DEF FiltersUpdate, FiltersFail
    <3>3. filters \in [Copy -> Pointer] /\ shown \in Copy
      BY DEF TypeOK
    <3> QED
      BY <3>1, <3>2, <3>3
  <2>2. /\ update' \in [pc : UpdatePC, again : BOOLEAN, ok : BOOLEAN]
        /\ bidder' \in [Bidders -> BidderType]
    BY <1>12, ReturnFact DEF FiltersUpdate, FiltersFail, Fail
  <2> QED
    BY <1>12, <2>1, <2>2 DEF TypeOK, FiltersUpdate, FiltersFail, BidderType
<1>13. CASE Publish
  <2>1. redis' \in [new : BOOLEAN, newer : BOOLEAN, empty : BOOLEAN]
    BY <1>13 DEF Publish
  <2>2. unit' \in [Copy -> [full : BOOLEAN, latest : BOOLEAN, price : Pointer,
                            pids : {"null", "live", "gone"}]]
    <3>1. unit \in [Copy -> UnitType]
      BY DEF TypeOK, UnitType
    <3>2. unit' \in [Copy -> UnitType]
      BY <1>13, <3>1, UnitFact DEF Publish
    <3> QED
      BY <3>2 DEF UnitType
  <2> QED
    BY <1>13, <2>1, <2>2 DEF TypeOK, Publish
<1>14. ASSUME NEW b \in Bidders, BidStart(b) \/ BidRank(b) \/ BidEnd(b)
       PROVE  TypeOK'
  <2>1. bidder' \in [Bidders -> BidderType]
    <3>1. CASE BidStart(b)
      <4>1. filters[shown] \in Pointer /\ shown \in Pointer
        BY DEF TypeOK, Pointer, Copies
      <4>2. [pc |-> "match", chain |-> shown, units |-> filters[shown], old |-> FALSE]
              \in BidderType
        BY <4>1 DEF BidderType
      <4>3. bidder \in [Bidders -> BidderType]
        BY DEF TypeOK, BidderType
      <4> QED
        BY <3>1, <4>2, <4>3 DEF BidStart
    <3>2. CASE BidRank(b)
      <4>1. ASSUME NEW s \in BidderType
            PROVE  [s EXCEPT !.pc = "rank", !.chain = None] \in BidderType
        BY DEF BidderType, Pointer, Copies
      <4>2. bidder \in [Bidders -> BidderType]
        BY DEF TypeOK, BidderType
      <4>3. bidder' = [bidder EXCEPT ![b] = [bidder[b] EXCEPT !.pc = "rank", !.chain = None]]
        BY <3>2, <4>2 DEF BidRank
      <4> QED
        BY <4>1, <4>2, <4>3
    <3>3. CASE BidEnd(b)
      <4>1. NoBid \in BidderType
        BY DEF NoBid, BidderType, Pointer, Copies
      <4>2. bidder \in [Bidders -> BidderType]
        BY DEF TypeOK, BidderType
      <4> QED
        BY <3>3, <4>1, <4>2 DEF BidEnd
    <3> QED
      BY <1>14, <3>1, <3>2, <3>3
  <2> QED
    BY <1>14, <2>1 DEF TypeOK, BidStart, BidRank, BidEnd, BidderType
<1>15. CASE UNCHANGED vars
  BY <1>15 DEF TypeOK, vars
<1> QED
  BY <1>1, <1>2, <1>3, <1>4, <1>5, <1>6, <1>7, <1>8, <1>9, <1>10, <1>11, <1>12,
     <1>13, <1>14, <1>15 DEF Next, UpdateStep

(* Where the update thread is after each of its steps. *)
LEMMA NextPC ==
  ASSUME TypeOK
  PROVE  /\ RoundBegin \/ Reinit => update'.pc = "timestamp"
         /\ NoTimestamp \/ LoadFails \/ PidsFail \/ ConfigFails \/ PricesFail => update'.pc = "wait"
         /\ FiltersUpdate \/ FiltersFail => update'.pc = "wait"
         /\ NewTimestamp => update'.pc = "clear"
         /\ ClearBack => update'.pc = "load"
         /\ Switch => update'.pc \in {"wait", "price"}
         /\ ClearPrices => update'.pc = "prices"
         /\ SameTimestamp \/ AttachPrices => update'.pc = "pids"
         /\ ClearPids => update'.pc \in {"wait", "pidlists"}
         /\ AttachPids => update'.pc = "config"
         /\ ConfigRead => update'.pc = "filters"
         /\ FiltersClear => update'.pc = "build"
<1>1. \A pc : Goto(pc) => update'.pc = pc
  BY DEF TypeOK, Goto
<1>2. \A ok : Return(ok) => update'.pc = "wait"
  BY DEF Return
<1>3. Fail => update'.pc = "wait"
  BY <1>2 DEF Fail
<1>4. RoundBegin \/ Reinit => update'.pc = "timestamp"
  BY <1>1 DEF TypeOK, RoundBegin, Reinit
<1>5. NoTimestamp \/ LoadFails \/ PidsFail \/ ConfigFails \/ PricesFail => update'.pc = "wait"
  BY <1>3 DEF NoTimestamp, LoadFails, PidsFail, ConfigFails, PricesFail
<1>6. FiltersUpdate \/ FiltersFail => update'.pc = "wait"
  BY <1>2, <1>3 DEF FiltersUpdate, FiltersFail
<1>7. Switch => update'.pc \in {"wait", "price"}
  BY <1>1, <1>3 DEF Switch
<1>8. ClearPids => update'.pc \in {"wait", "pidlists"}
  BY <1>1, <1>3 DEF ClearPids
<1> QED
  BY <1>1, <1>4, <1>5, <1>6, <1>7, <1>8
     DEF NewTimestamp, ClearBack, ClearPrices, SameTimestamp, AttachPrices, AttachPids,
         ConfigRead, FiltersClear

(* The filters shown after a build are the new ones, or the old ones. *)
LEMMA BuildFact ==
  ASSUME TypeOK, FiltersUpdate \/ FiltersFail
  PROVE  filters'[shown'] \in {filters[shown], front}
<1> DEFINE back == Back(shown)
<1>1. back \in Copy /\ back # shown /\ shown \in Copy
  BY BackFact DEF TypeOK
<1>2. DOMAIN filters = Copy
  BY DEF TypeOK
<1>3. filters' = [filters EXCEPT ![back] = front] /\ shown' \in {shown, back}
  BY DEF FiltersUpdate, FiltersFail
<1> HIDE DEF back
<1>4. filters'[back] = front /\ filters'[shown] = filters[shown]
  BY <1>1, <1>2, <1>3
<1> QED
  BY <1>3, <1>4

(* Orders are only loaded in a round that saw them change. *)
LEMMA PendingStep ==
  ASSUME EngineInv, [Next]_vars
  PROVE  Pending'
<1> USE DEF EngineInv, Pending
<1>0. TypeOK
  OBVIOUS
<1>1. CASE \/ RoundBegin \/ SameTimestamp \/ ConfigRead \/ Reinit
           \/ NoTimestamp \/ LoadFails \/ PidsFail \/ ConfigFails \/ PricesFail
           \/ Switch \/ ClearPrices \/ AttachPrices \/ ClearPids \/ AttachPids
           \/ FiltersClear \/ FiltersUpdate \/ FiltersFail
  BY <1>0, <1>1, NextPC
<1>2. CASE NewTimestamp
  BY <1>0, <1>2 DEF TypeOK, NewTimestamp
<1>3. CASE ClearBack
  BY <1>3 DEF ClearBack
<1>4. CASE Publish
  BY <1>4 DEF Publish
<1>5. ASSUME NEW b \in Bidders, BidStart(b) \/ BidRank(b) \/ BidEnd(b)
      PROVE  Pending'
  BY <1>5 DEF BidStart, BidRank, BidEnd
<1>6. CASE UNCHANGED vars
  BY <1>6 DEF vars
<1> QED
  BY <1>1, <1>2, <1>3, <1>4, <1>5, <1>6 DEF Next, UpdateStep

(* What is in front was loaded whole, after the last change. *)
LEMMA LoadedStep ==
  ASSUME EngineInv, [Next]_vars
  PROVE  Loaded'
<1> USE DEF EngineInv, Loaded
<1>0. TypeOK
  OBVIOUS
<1>1. CASE RoundBegin \/ SameTimestamp \/ NewTimestamp \/ ConfigRead \/ Reinit
  BY <1>0, <1>1 DEF TypeOK, RoundBegin, SameTimestamp, NewTimestamp, ConfigRead, Reinit, Goto
<1>2. CASE NoTimestamp \/ LoadFails \/ PidsFail \/ ConfigFails \/ PricesFail
  BY <1>0, <1>2, NextPC DEF NoTimestamp, LoadFails, PidsFail, ConfigFails, PricesFail
<1>3. CASE ClearBack
  <2>1. unit'[front'] = unit[front]
    BY <1>0, <1>3, BackFact DEF TypeOK, ClearBack
  <2>2. unit'[Back(front')].latest /\ unit'[Back(front')].price = None
    BY <1>0, <1>3, BackFact DEF TypeOK, ClearBack, NoUnits
  <2> QED
    BY <1>3, <2>1, <2>2 DEF ClearBack
<1>4. CASE Switch
  <2>1. update'.pc # "load"
    BY <1>0, <1>4, NextPC
  <2>2. redis'.new = redis.newer /\ unit'[front'].latest = unit[Back(front)].latest
    BY <1>0, <1>4 DEF TypeOK, Switch
  <2> QED
    BY <1>4, <2>1, <2>2 DEF Switch
<1>5. CASE ClearPrices \/ AttachPrices \/ AttachPids
  <2>1. unit'[front'].latest = unit[front].latest
    BY <1>0, <1>5 DEF TypeOK, ClearPrices, AttachPrices, AttachPids
  <2>2. update'.pc # "load"
    BY <1>0, <1>5, NextPC
  <2> QED
    BY <1>5, <2>1, <2>2 DEF ClearPrices, AttachPrices, AttachPids
<1>6. CASE ClearPids
  <2>1. unit'[front'].latest = unit[front].latest
    BY <1>0, <1>6 DEF TypeOK, ClearPids
  <2>2. update'.pc # "load"
    BY <1>0, <1>6, NextPC
  <2> QED
    BY <1>6, <2>1, <2>2 DEF ClearPids
<1>7. CASE FiltersClear
  BY <1>0, <1>7 DEF TypeOK, FiltersClear, Goto
<1>8. CASE FiltersUpdate \/ FiltersFail
  BY <1>0, <1>8, NextPC DEF FiltersUpdate, FiltersFail
<1>9. CASE Publish
  <2>1. redis'.new /\ redis'.newer
    BY <1>9 DEF Publish
  <2>2. unit'[Back(front)].price = unit[Back(front)].price
    BY <1>0, <1>9, BackFact DEF TypeOK, Publish
  <2> QED
    BY <1>9, <2>1, <2>2 DEF Publish
<1>10. ASSUME NEW b \in Bidders, BidStart(b) \/ BidRank(b) \/ BidEnd(b)
       PROVE  Loaded'
  BY <1>10 DEF BidStart, BidRank, BidEnd
<1>11. CASE UNCHANGED vars
  BY <1>11 DEF vars
<1> QED
  BY <1>1, <1>2, <1>3, <1>4, <1>5, <1>6, <1>7, <1>8, <1>9, <1>10, <1>11 DEF Next, UpdateStep

(* No pointer of a unit leads into the prices that are about to go. *)
LEMMA PricedStep ==
  ASSUME EngineInv, [Next]_vars
  PROVE  Priced'
<1> USE DEF EngineInv, Priced
<1>0. TypeOK
  OBVIOUS
<1>1. CASE RoundBegin \/ SameTimestamp \/ NewTimestamp \/ ConfigRead \/ Reinit
  BY <1>0, <1>1, NextPC DEF RoundBegin, SameTimestamp, NewTimestamp, ConfigRead, Reinit
<1>2. CASE NoTimestamp \/ LoadFails \/ PidsFail \/ ConfigFails
  BY <1>0, <1>2, NextPC DEF NoTimestamp, LoadFails, PidsFail, ConfigFails
<1>3. CASE ClearBack
  <2>1. unit'[front].price = unit[front].price
    BY <1>0, <1>3, BackFact DEF TypeOK, ClearBack
  <2>2. \A c \in Copy : unit'[c].price \in {unit[c].price, None}
    BY <1>0, <1>3 DEF TypeOK, ClearBack, NoUnits
  <2>3. update'.pc = "load"
    BY <1>0, <1>3, NextPC
  <2> QED
    BY <1>3, <2>1, <2>2, <2>3, EngineAssumption DEF ClearBack
<1>4. CASE Switch
  <2>1. front' = Back(front) /\ Back(front') = front /\ unit' = unit /\ price' = price
    BY <1>0, <1>4, BackFact DEF TypeOK, Switch
  <2>2. unit[Back(front)].price = None
    BY <1>4 DEF Switch, Loaded
  <2>3. update'.pc \in {"wait", "price"}
    BY <1>0, <1>4, NextPC
  <2> QED
    BY <2>1, <2>2, <2>3
<1>5. CASE ClearPrices
  <2>1. \A c \in Copy : c = front \/ c = Back(front)
    BY <1>0 DEF TypeOK, Copy, Back
  <2>2. \A c \in Copy : unit[c].price \in {None, price}
    BY <1>5, <2>1 DEF ClearPrices
  <2>3. Back(price) \notin {None, price}
    BY <1>0, EngineAssumption DEF TypeOK, Copy, Back
  <2>4. \A c \in Copy : unit'[c].price = unit[c].price
    BY <1>0, <1>5, <2>2, <2>3 DEF TypeOK, ClearPrices, Deleted
  <2>5. update'.pc = "prices" /\ front' = front /\ price' = price
    BY <1>0, <1>5, NextPC DEF ClearPrices
  <2>6. unit[front].price = None /\ front \in Copy
    BY <1>0, <1>5 DEF TypeOK, ClearPrices
  <2>7. \A c \in Copy : unit'[c].price # Gone
    BY <2>4
  <2>8. unit'[front'].price = None
    BY <2>4, <2>5, <2>6
  <2> QED
    BY <2>5, <2>7, <2>8
<1>6. CASE AttachPrices
  <2>1. unit'[front].price = Back(price) /\ price' = Back(price) /\ Back(price) # Gone
    BY <1>0, <1>6, EngineAssumption DEF TypeOK, AttachPrices, Copy, Back
  <2>2. \A c \in Copy \ {front} : unit'[c] = unit[c]
    BY <1>0, <1>6 DEF TypeOK, AttachPrices
  <2>3. update'.pc = "pids" /\ front' = front
    BY <1>0, <1>6, NextPC DEF AttachPrices
  <2> QED
    BY <2>1, <2>2, <2>3
<1>7. CASE PricesFail
  BY <1>0, <1>7, NextPC DEF PricesFail
<1>8. CASE ClearPids \/ AttachPids
  <2>1. \A c \in Copy : unit'[c].price = unit[c].price
    BY <1>0, <1>8 DEF TypeOK, ClearPids, AttachPids
  <2>2. update'.pc \notin {"price", "prices"}
    BY <1>0, <1>8, NextPC
  <2> QED
    BY <1>0, <1>8, <2>1, <2>2 DEF TypeOK, ClearPids, AttachPids
<1>9. CASE FiltersClear \/ FiltersUpdate \/ FiltersFail
  BY <1>0, <1>9, NextPC DEF FiltersClear, FiltersUpdate, FiltersFail
<1>10. CASE Publish
  <2>1. \A c \in Copy : unit'[c].price = unit[c].price
    BY <1>0, <1>10 DEF TypeOK, Publish
  <2> QED
    BY <1>0, <1>10, <2>1, BackFact DEF TypeOK, Publish
<1>11. ASSUME NEW b \in Bidders, BidStart(b) \/ BidRank(b) \/ BidEnd(b)
       PROVE  Priced'
  BY <1>11 DEF BidStart, BidRank, BidEnd
<1>12. CASE UNCHANGED vars
  BY <1>12 DEF vars
<1> QED
  BY <1>1, <1>2, <1>3, <1>4, <1>5, <1>6, <1>7, <1>8, <1>9, <1>10, <1>11, <1>12
     DEF Next, UpdateStep

(* Nothing clears the pids between their reading and the filters. *)
LEMMA ListedStep ==
  ASSUME EngineInv, [Next]_vars
  PROVE  Listed'
<1> USE DEF EngineInv, Listed
<1>0. TypeOK
  OBVIOUS
<1>1. CASE \/ RoundBegin \/ SameTimestamp \/ NewTimestamp \/ Reinit
           \/ NoTimestamp \/ LoadFails \/ PidsFail \/ ConfigFails \/ PricesFail
           \/ ClearBack \/ Switch \/ ClearPrices \/ AttachPrices \/ ClearPids
           \/ FiltersUpdate \/ FiltersFail
  BY <1>0, <1>1, NextPC
<1>2. CASE AttachPids
  BY <1>0, <1>2 DEF TypeOK, AttachPids
<1>3. CASE ConfigRead \/ FiltersClear
  BY <1>3 DEF ConfigRead, FiltersClear
<1>4. CASE Publish
  BY <1>0, <1>4 DEF TypeOK, Publish
<1>5. ASSUME NEW b \in Bidders, BidStart(b) \/ BidRank(b) \/ BidEnd(b)
      PROVE  Listed'
  BY <1>5 DEF BidStart, BidRank, BidEnd
<1>6. CASE UNCHANGED vars
  BY <1>6 DEF vars
<1> QED
  BY <1>1, <1>2, <1>3, <1>4, <1>5, <1>6 DEF Next, UpdateStep

(* What the end of a round leaves of the bids under way. *)
LEMMA ReturnBidding ==
  ASSUME TypeOK, Bidding, NEW ok \in BOOLEAN, Return(ok)
  PROVE  /\ Bidding'
         /\ \A b \in Bidders : /\ bidder'[b].chain = bidder[b].chain
                               /\ bidder'[b].units = bidder[b].units
<1>1. update'.pc = "wait"
  BY DEF Return
<1>2. ASSUME NEW b \in Bidders
      PROVE  /\ bidder'[b].pc = bidder[b].pc
             /\ bidder'[b].chain = bidder[b].chain
             /\ bidder'[b].units = bidder[b].units
  <2>1. CASE bidder[b].pc = "idle"
    <3>1. bidder'[b] = [bidder[b] EXCEPT !.old = FALSE]
      BY <2>1, ReturnFact, Zenon
    <3> QED
      BY <3>1 DEF TypeOK
  <2>2. CASE bidder[b].pc # "idle"
    <3>1. bidder'[b] = [bidder[b] EXCEPT !.old = TRUE]
      BY <2>2, ReturnFact, Zenon
    <3> QED
      BY <3>1 DEF TypeOK
  <2> QED
    BY <2>1, <2>2
<1>3. ASSUME NEW b \in Bidders, bidder[b].pc # "idle"
      PROVE  bidder'[b].old
  <2>1. bidder'[b] = [bidder[b] EXCEPT !.old = TRUE]
    BY <1>3, ReturnFact, Zenon
  <2> QED
    BY <2>1 DEF TypeOK
<1>4. ASSUME NEW b \in Bidders, bidder[b].pc = "idle"
      PROVE  ~bidder'[b].old
  <2>1. bidder'[b] = [bidder[b] EXCEPT !.old = FALSE]
    BY <1>4, ReturnFact, Zenon
  <2> QED
    BY <2>1 DEF TypeOK
<1> QED
  BY <1>1, <1>2, <1>3, <1>4 DEF Bidding

(* The ways a round can end. *)
LEMMA Returns ==
  ASSUME \/ NoTimestamp \/ LoadFails \/ PidsFail \/ ConfigFails \/ PricesFail
         \/ FiltersUpdate \/ FiltersFail
  PROVE  \E ok \in BOOLEAN : Return(ok)
BY DEF NoTimestamp, LoadFails, PidsFail, ConfigFails, PricesFail, FiltersUpdate,
       FiltersFail, Fail

(* A bid of this round walks the filters in front. *)
LEMMA BiddingStep ==
  ASSUME EngineInv, [Next]_vars
  PROVE  Bidding'
<1>0. TypeOK /\ Bidding
  BY DEF EngineInv
<1>1. CASE RoundBegin
  BY <1>0, <1>1 DEF Bidding, RoundBegin
<1>2. ASSUME UNCHANGED <<shown, filters, bidder>>
      PROVE  Bidding'
  BY <1>0, <1>2 DEF Bidding
<1>3. CASE \/ SameTimestamp \/ NewTimestamp \/ ClearPrices \/ AttachPrices
           \/ AttachPids \/ ConfigRead \/ Reinit
  BY <1>2, <1>3 DEF SameTimestamp, NewTimestamp, ClearPrices, AttachPrices, AttachPids,
                    ConfigRead, Reinit
<1>4. CASE \/ NoTimestamp \/ LoadFails \/ PidsFail \/ ConfigFails \/ PricesFail
           \/ FiltersUpdate \/ FiltersFail
  BY <1>0, <1>4, Returns, ReturnBidding
<1>5. CASE Switch \/ ClearPids
  <2>1. CASE Fail
    BY <1>0, <2>1, ReturnBidding DEF Fail
  <2>2. CASE UNCHANGED bidder
    BY <1>2, <1>5, <2>2 DEF Switch, ClearPids
  <2> QED
    BY <1>5, <2>1, <2>2 DEF Switch, ClearPids
<1>6. CASE ClearBack
  <2>1. update.pc = "clear" /\ shown' = shown
    BY <1>6 DEF ClearBack
  <2>2. filters'[shown] = Deleted(filters[shown], Back(front))
    BY <1>0, <1>6 DEF TypeOK, ClearBack
  <2>3. ASSUME NEW b \in Bidders
        PROVE  /\ bidder'[b].pc = bidder[b].pc
               /\ bidder'[b].chain = bidder[b].chain
               /\ bidder'[b].old = bidder[b].old
               /\ bidder'[b].units = Deleted(bidder[b].units, Back(front))
    BY <1>0, <1>6 DEF TypeOK, ClearBack
  <2>4. ASSUME NEW b \in Bidders, bidder[b].pc = "idle"
        PROVE  bidder'[b].chain = None /\ bidder'[b].units = None /\ ~bidder'[b].old
    <3>1. Back(front) # None
      BY <1>0, EngineAssumption DEF TypeOK, Copy, Back
    <3> QED
      BY <1>0, <2>3, <2>4, <3>1 DEF Bidding, Deleted
  <2>5. \A p : p # None => Deleted(p, Back(front)) # None
    BY EngineAssumption DEF Deleted
  <2> QED
    BY <1>0, <2>1, <2>2, <2>3, <2>4, <2>5 DEF Bidding
<1>7. CASE FiltersClear
  <2>1. update.pc = "filters" /\ shown' = shown /\ filters'[shown] = filters[shown]
    BY <1>0, <1>7, BackFact DEF TypeOK, FiltersClear
  <2>2. ASSUME NEW b \in Bidders
        PROVE  /\ bidder'[b].pc = bidder[b].pc
               /\ bidder'[b].units = bidder[b].units
               /\ bidder'[b].old = bidder[b].old
               /\ bidder'[b].chain = Deleted(bidder[b].chain, Back(shown))
    BY <1>0, <1>7 DEF TypeOK, FiltersClear
  <2>3. Back(shown) \notin {None, shown}
    BY <1>0, EngineAssumption DEF TypeOK, Copy, Back
  <2>4. ASSUME NEW b \in Bidders, bidder[b].pc = "idle"
        PROVE  bidder'[b].chain = None /\ bidder'[b].units = None /\ ~bidder'[b].old
    BY <1>0, <2>2, <2>3, <2>4 DEF Bidding, Deleted
  <2>5. \A p \in {None, shown} : Deleted(p, Back(shown)) = p
    BY <2>3 DEF Deleted
  <2> QED
    BY <1>0, <2>1, <2>2, <2>4, <2>5 DEF Bidding
<1>8. CASE Publish
  BY <1>0, <1>8 DEF Bidding, Publish
<1>9. ASSUME NEW b \in Bidders, BidStart(b)
      PROVE  Bidding'
  BY <1>0, <1>9 DEF TypeOK, Bidding, BidStart
<1>10. ASSUME NEW b \in Bidders, BidRank(b)
       PROVE  Bidding'
  BY <1>0, <1>10 DEF TypeOK, Bidding, BidRank
<1>11. ASSUME NEW b \in Bidders, BidEnd(b)
       PROVE  Bidding'
  BY <1>0, <1>11 DEF TypeOK, Bidding, BidEnd, NoBid
<1>12. CASE UNCHANGED vars
  BY <1>0, <1>12 DEF Bidding, vars
<1> QED
  BY <1>1, <1>3, <1>4, <1>5, <1>6, <1>7, <1>8, <1>9, <1>10, <1>11, <1>12
     DEF Next, UpdateStep

(* The invariant holds at the start. *)
LEMMA EngineInit ==
  ASSUME Init
  PROVE  EngineInv
<1>1. TypeOK
  BY DEF Init, TypeOK, Copy, Pointer, Copies, UpdatePC, NoUnits, NoBid
<1>2. Pending /\ Loaded /\ Listed
  BY DEF Init, Pending, Loaded, Listed, NoUnits, Copy
<1>3. Priced
  BY EngineAssumption DEF Init, Priced, NoUnits, Copy
<1>4. Bidding
  BY DEF Init, Bidding, NoBid
<1> QED
  BY <1>1, <1>2, <1>3, <1>4 DEF EngineInv

(* However the orders change and whatever fails: new orders are noticed,   *)
(* loaded whole, and priced from the map that was just read; a bid of this *)
(* round walks the filters in front.                                       *)
THEOREM EngineInvariant == Spec => []EngineInv
<1>1. Init => EngineInv
  BY EngineInit
<1>2. EngineInv /\ [Next]_vars => EngineInv'
  <2> SUFFICES ASSUME EngineInv, [Next]_vars
               PROVE  EngineInv'
    OBVIOUS
  <2>1. TypeOK'
    BY TypeStep DEF EngineInv
  <2> QED
    BY <2>1, PendingStep, LoadedStep, PricedStep, ListedStep, BiddingStep DEF EngineInv
<1> QED
  BY <1>1, <1>2, PTL DEF Spec

(* No change of the orders is missed by an update, whichever of its steps  *)
(* fail.                                                                   *)
THEOREM OrdersNotMissed == Spec => []NoOrderMissed
<1>1. EngineInv => NoOrderMissed
  BY DEF EngineInv, Loaded, NoOrderMissed
<1> QED
  BY <1>1, EngineInvariant, PTL

(* The ban filter is built from lists of pids that exist. *)
THEOREM PidsAreLive == Spec => []BuildReadsLivePids
<1>1. EngineInv => BuildReadsLivePids
  BY DEF EngineInv, Listed, BuildReadsLivePids
<1> QED
  BY <1>1, EngineInvariant, PTL

(* The steps that leave the filters in front as they are. *)
LEMMA ShownKept ==
  ASSUME TypeOK, [Next]_vars
  PROVE  \/ ClearBack \/ FiltersUpdate \/ FiltersFail
         \/ filters'[shown'] = filters[shown]
<1>1. CASE FiltersClear
  BY <1>1, BackFact DEF TypeOK, FiltersClear
<1>2. CASE \/ RoundBegin \/ NoTimestamp \/ SameTimestamp \/ NewTimestamp
           \/ LoadFails \/ Switch \/ ClearPrices \/ AttachPrices \/ PricesFail
           \/ ClearPids \/ AttachPids \/ PidsFail \/ ConfigRead \/ ConfigFails \/ Reinit
  BY <1>2 DEF RoundBegin, NoTimestamp, SameTimestamp, NewTimestamp, LoadFails, Switch,
              ClearPrices, AttachPrices, PricesFail, ClearPids, AttachPids, PidsFail,
              ConfigRead, ConfigFails, Reinit
<1>3. CASE Publish \/ (\E b \in Bidders : BidStart(b) \/ BidRank(b) \/ BidEnd(b))
  BY <1>3 DEF Publish, BidStart, BidRank, BidEnd
<1>4. CASE UNCHANGED vars
  BY <1>4 DEF vars
<1> QED
  BY <1>1, <1>2, <1>3, <1>4 DEF Next, UpdateStep

(* Whatever the orders do, wherever rounds fail and however long bids      *)
(* last: the filters in front lose their units only when orders are loaded *)
(* into a copy that they were built from before the last switch.           *)
THEOREM FiltersLoseUnbuilt == Spec => LostOnlyUnbuilt
<1> DEFINE Unbuilt == update.pc = "clear" /\ filters[shown] = Back(front)
<1>1. EngineInv /\ [Next]_vars =>
        [filters'[shown'] = Gone => filters[shown] = Gone \/ Unbuilt]_vars
  <2> SUFFICES ASSUME EngineInv, [Next]_vars, filters'[shown'] = Gone, filters[shown] # Gone
               PROVE  Unbuilt
    OBVIOUS
  <2>1. TypeOK
    BY DEF EngineInv
  <2>2. CASE ClearBack
    <3>1. filters'[shown'] = Deleted(filters[shown], Back(front))
      BY <2>1, <2>2 DEF TypeOK, ClearBack
    <3> QED
      BY <2>2, <3>1 DEF ClearBack, Deleted
  <2>3. CASE FiltersUpdate \/ FiltersFail
    <3>1. filters'[shown'] \in {filters[shown], front}
      BY <2>1, <2>3, BuildFact
    <3>2. front # Gone
      BY <2>1, EngineAssumption DEF TypeOK, Copy
    <3> QED
      BY <3>1, <3>2
  <2> QED
    BY <2>1, <2>2, <2>3, ShownKept
<1> QED
  BY <1>1, EngineInvariant, PTL DEF Spec, LostOnlyUnbuilt

(* A bid that began after the last round ended never reads what an update  *)
(* has deleted, as long as the filters in front have their units, although *)
(* nobody takes a lock and any step of a round may fail.                   *)
THEOREM BidsAreSafe == Spec => []BidsReadLiveData
<1>1. EngineInv => BidsReadLiveData
  <2> SUFFICES ASSUME EngineInv, NEW b \in Bidders
               PROVE  /\ ~bidder[b].old => bidder[b].chain # Gone
                      /\ ~bidder[b].old /\ bidder[b].units = Gone => filters[shown] = Gone
                      /\ bidder[b].units \in Copy => unit[bidder[b].units].price # Gone
    BY DEF BidsReadLiveData
  <2>1. Bidding /\ shown \in Copy
    BY DEF EngineInv, TypeOK
  <2>2. None # Gone /\ shown # Gone
    BY <2>1, EngineAssumption DEF Copy
  <2>3. \A c \in Copy : unit[c].price # Gone
    BY DEF EngineInv, Priced
  <2> QED
    BY <2>1, <2>2, <2>3 DEF Bidding
<1> QED
  BY <1>1, EngineInvariant, PTL

=============================================================================
