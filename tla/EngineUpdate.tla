---------------------------- MODULE EngineUpdate ----------------------------
(***************************************************************************)
(* How a bidding engine takes new orders while it bids: AdRtbEngineUpdate  *)
(* of ibidding/engine, AdPlanningData (planning units, advanced prices,    *)
(* banned pids) and AdRtbFilters::FiltersUpdate, over the ping-pong buffer *)
(* of AdBuff.h.                                                            *)
(*                                                                         *)
(* Units, prices and filters have two copies each; the update thread       *)
(* writes the back one and switches.  A filter holds pointers to units and *)
(* a unit one to its prices and one to its pids, and nothing counts them:  *)
(* a pointer into a copy that has been cleared since is Gone.  The bidding *)
(* threads take no lock.                                                   *)
(*                                                                         *)
(* Redis, which the update reads, and whoever writes orders to it are      *)
(* external; an order and its timestamp change together.                   *)
(***************************************************************************)
EXTENDS Naturals

CONSTANTS
  Bidders,      \* AdBiddingTask threads
  None, Gone    \* no pointer, and one to what has been deleted

ASSUME EngineAssumption == None \notin {0, 1} /\ Gone \notin {0, 1, None}

VARIABLES
  redis,    \* new: exec:timestamp differs from m_iLastTimeStamp;
            \* newer: it changed since this round read it; empty: no orders
  front,    \* m_mData: the copy in front
  unit,     \* the units of each copy
  price,    \* m_mAdvancePrice: the copy in front
  shown,    \* m_vFilters: the copy in front
  filters,  \* the units each copy of the filters points to
  update,   \* the update thread; ok: the last round ended with AD_SUCCESS
  bidder    \* the bidding threads

vars == <<redis, front, unit, price, shown, filters, update, bidder>>

Copy == {0, 1}

Back(c) == 1 - c

\* latest: loaded after the last change of the orders; price: the copy that
\* m_pAdvancedPrice points into; pids: where m_pltBanPidList points
NoUnits == [full |-> FALSE, latest |-> FALSE, price |-> None, pids |-> "null"]

\* old: it was under way when a round ended
NoBid == [pc |-> "idle", chain |-> None, units |-> None, old |-> FALSE]

\* the first round is over before the threads are created; the process ends
\* when it fails
Init ==
  /\ redis = [new |-> FALSE, newer |-> FALSE, empty |-> FALSE]
  /\ front = 1
  /\ unit = [c \in Copy |->
       IF c = 1 THEN [full |-> TRUE, latest |-> TRUE, price |-> 1, pids |-> "live"]
       ELSE NoUnits]
  /\ price = 1
  /\ shown = 1
  /\ filters = [c \in Copy |-> IF c = 1 THEN 1 ELSE None]
  /\ update = [pc |-> "wait", again |-> FALSE, ok |-> TRUE]
  /\ bidder = [b \in Bidders |-> NoBid]

\* the pointers p of everyone into copy c when it is deleted
Deleted(p, c) == IF p = c THEN Gone ELSE p

Goto(pc) == update' = [update EXCEPT !.pc = pc]

\* AdRtbEngineUpdate returns; five seconds pass before the next round
Return(ok) ==
  /\ update' = [pc |-> "wait", again |-> FALSE, ok |-> ok]
  /\ bidder' = [b \in Bidders |-> [bidder[b] EXCEPT !.old = bidder[b].pc # "idle"]]

Fail == Return(FALSE)

-----------------------------------------------------------------------------
(* DataUpdate.                                                             *)

RoundBegin ==
  /\ update.pc = "wait"
  /\ Goto("timestamp")
  /\ UNCHANGED <<redis, front, unit, price, shown, filters, bidder>>

\* no connection, no timestamp or no list of keys
NoTimestamp ==
  /\ update.pc = "timestamp"
  /\ Fail
  /\ UNCHANGED <<redis, front, unit, price, shown, filters>>

\* mutant: the orders did not change, so nothing is left to do
SameTimestampReturns ==
  /\ update.pc = "timestamp"
  /\ ~redis.new
  /\ Return(TRUE)
  /\ UNCHANGED <<redis, front, unit, price, shown, filters>>

SameTimestamp ==
  /\ update.pc = "timestamp"
  /\ ~redis.new
  /\ Goto("pids")
  /\ UNCHANGED <<redis, front, unit, price, shown, filters, bidder>>

NewTimestamp ==
  /\ update.pc = "timestamp"
  /\ redis.new
  /\ redis' = [redis EXCEPT !.newer = FALSE]
  /\ Goto("clear")
  /\ UNCHANGED <<front, unit, price, shown, filters, bidder>>

\* mutant: the units in front are deleted
ClearFront ==
  /\ update.pc = "clear"
  /\ LET c == front IN
     /\ unit' = [unit EXCEPT ![c] =
                   [NoUnits EXCEPT !.full = ~redis.empty, !.latest = TRUE]]
     /\ filters' = [f \in Copy |-> Deleted(filters[f], c)]
     /\ bidder' = [b \in Bidders |->
                     [bidder[b] EXCEPT !.units = Deleted(bidder[b].units, c)]]
  /\ Goto("load")
  /\ UNCHANGED <<redis, front, price, shown>>

\* the units of the back copy are deleted; who points to them is not asked
ClearBack ==
  /\ update.pc = "clear"
  /\ LET c == Back(front) IN
     /\ unit' = [unit EXCEPT ![c] =
                   [NoUnits EXCEPT !.full = ~redis.empty, !.latest = TRUE]]
     /\ filters' = [f \in Copy |-> Deleted(filters[f], c)]
     /\ bidder' = [b \in Bidders |->
                     [bidder[b] EXCEPT !.units = Deleted(bidder[b].units, c)]]
  /\ Goto("load")
  /\ UNCHANGED <<redis, front, price, shown>>

\* mutant: the timestamp is kept although the orders did not come
LoadFailsRecorded ==
  /\ update.pc = "load"
  /\ redis' = [redis EXCEPT !.new = redis.newer]
  /\ Fail
  /\ UNCHANGED <<front, unit, price, shown, filters>>

\* a key, a unit or the bans of one
LoadFails ==
  /\ update.pc = "load"
  /\ Fail
  /\ UNCHANGED <<redis, front, unit, price, shown, filters>>

\* DataUpdateForSystem may fail, and does when there are no orders: the
\* timestamp is kept and the copies switch all the same
Switch ==
  /\ update.pc = "load"
  /\ redis' = [redis EXCEPT !.new = redis.newer]
  /\ front' = Back(front)
  /\ \/ Fail
     \/ /\ unit[Back(front)].full
        /\ Goto("price")
        /\ UNCHANGED bidder
  /\ UNCHANGED <<unit, price, shown, filters>>

-----------------------------------------------------------------------------
(* DataUpdateAdvancedPriceData, after new orders.                          *)

\* mutant: the prices in front are cleared
ClearPricesFront ==
  /\ update.pc = "price"
  /\ unit' = [c \in Copy |-> [unit[c] EXCEPT !.price = Deleted(unit[c].price, price)]]
  /\ Goto("prices")
  /\ UNCHANGED <<redis, front, price, shown, filters, bidder>>

ClearPrices ==
  /\ update.pc = "price"
  /\ unit' = [c \in Copy |-> [unit[c] EXCEPT !.price = Deleted(unit[c].price, Back(price))]]
  /\ Goto("prices")
  /\ UNCHANGED <<redis, front, price, shown, filters, bidder>>

AttachPrices ==
  /\ update.pc = "prices"
  /\ unit' = [unit EXCEPT ![front].price = Back(price)]
  /\ price' = Back(price)
  /\ Goto("pids")
  /\ UNCHANGED <<redis, front, shown, filters, bidder>>

\* RETURN is reached with what was read so far, and switches
PricesFail ==
  /\ update.pc = "prices"
  /\ price' = Back(price)
  /\ Fail
  /\ UNCHANGED <<redis, front, unit, shown, filters>>

-----------------------------------------------------------------------------
(* DataUpdateAdvancedFilterResult: one map of pids, cleared while units    *)
(* point into it.                                                          *)

ClearPids ==
  /\ update.pc = "pids"
  /\ unit' = [c \in Copy |->
       [unit[c] EXCEPT !.pids = IF unit[c].pids = "live" THEN "gone" ELSE unit[c].pids]]
  /\ IF unit[front].full THEN Goto("pidlists") /\ UNCHANGED bidder ELSE Fail
  /\ UNCHANGED <<redis, front, price, shown, filters>>

AttachPids ==
  /\ update.pc = "pidlists"
  /\ unit' = [unit EXCEPT ![front].pids = "live"]
  /\ Goto("config")
  /\ UNCHANGED <<redis, front, price, shown, filters, bidder>>

\* mutant: the filters are rebuilt all the same
PidsFailOn ==
  /\ update.pc = "pidlists"
  /\ Goto("config")
  /\ UNCHANGED <<redis, front, unit, price, shown, filters, bidder>>

PidsFail ==
  /\ update.pc = "pidlists"
  /\ Fail
  /\ UNCHANGED <<redis, front, unit, price, shown, filters>>

-----------------------------------------------------------------------------
(* The configuration, then FiltersUpdate.                                  *)

ConfigRead ==
  /\ update.pc = "config"
  /\ Goto("filters")
  /\ UNCHANGED <<redis, front, unit, price, shown, filters, bidder>>

\* AdRtbDealRankInit, or AdRtbEngineInit after AD_RTB_ENGINE_REINIT
ConfigFails ==
  /\ update.pc = "config"
  /\ Fail
  /\ UNCHANGED <<redis, front, unit, price, shown, filters>>

\* AdAdapterUpdate initialises the engine and begins again at once; asked
\* for it a second time it gives up
Reinit ==
  /\ update.pc = "config"
  /\ ~update.again
  /\ update' = [update EXCEPT !.pc = "timestamp", !.again = TRUE]
  /\ UNCHANGED <<redis, front, unit, price, shown, filters, bidder>>

\* mutant: the filters in front are deleted
FiltersClearFront ==
  /\ update.pc = "filters"
  /\ filters' = [filters EXCEPT ![shown] = None]
  /\ bidder' = [b \in Bidders |->
                  [bidder[b] EXCEPT !.chain = Deleted(bidder[b].chain, shown)]]
  /\ Goto("build")
  /\ UNCHANGED <<redis, front, unit, price, shown>>

FiltersClear ==
  /\ update.pc = "filters"
  /\ filters' = [filters EXCEPT ![Back(shown)] = None]
  /\ bidder' = [b \in Bidders |->
                  [bidder[b] EXCEPT !.chain = Deleted(bidder[b].chain, Back(shown))]]
  /\ Goto("build")
  /\ UNCHANGED <<redis, front, unit, price, shown>>

\* FiltersCreate, AddData of every unit, FiltersInit, Switch
FiltersUpdate ==
  /\ update.pc = "build"
  /\ filters' = [filters EXCEPT ![Back(shown)] = front]
  /\ shown' = Back(shown)
  /\ Return(TRUE)
  /\ UNCHANGED <<redis, front, unit, price>>

\* a file of FiltersInit
FiltersFail ==
  /\ update.pc = "build"
  /\ filters' = [filters EXCEPT ![Back(shown)] = front]
  /\ Fail
  /\ UNCHANGED <<redis, front, unit, price, shown>>

UpdateStep ==
  \/ RoundBegin \/ NoTimestamp \/ SameTimestamp \/ NewTimestamp
  \/ ClearBack \/ LoadFails \/ Switch
  \/ ClearPrices \/ AttachPrices \/ PricesFail
  \/ ClearPids \/ AttachPids \/ PidsFail
  \/ ConfigRead \/ ConfigFails \/ Reinit
  \/ FiltersClear \/ FiltersUpdate \/ FiltersFail

-----------------------------------------------------------------------------
(* A bid: FiltersMatch keeps a reference to the filters in front, what     *)
(* matched are pointers to units; AdRtbRankChoice reads units and prices.  *)

BidStart(b) ==
  /\ bidder[b].pc = "idle"
  /\ filters[shown] # None
  /\ bidder' = [bidder EXCEPT ![b] =
       [pc |-> "match", chain |-> shown, units |-> filters[shown], old |-> FALSE]]
  /\ UNCHANGED <<redis, front, unit, price, shown, filters, update>>

BidRank(b) ==
  /\ bidder[b].pc = "match"
  /\ bidder' = [bidder EXCEPT ![b].pc = "rank", ![b].chain = None]
  /\ UNCHANGED <<redis, front, unit, price, shown, filters, update>>

BidEnd(b) ==
  /\ bidder[b].pc = "rank"
  /\ bidder' = [bidder EXCEPT ![b] = NoBid]
  /\ UNCHANGED <<redis, front, unit, price, shown, filters, update>>

\* new orders, or the last ones are withdrawn
Publish ==
  /\ \E empty \in BOOLEAN : redis' = [new |-> TRUE, newer |-> TRUE, empty |-> empty]
  /\ unit' = [c \in Copy |-> [unit[c] EXCEPT !.latest = FALSE]]
  /\ UNCHANGED <<front, price, shown, filters, update, bidder>>

Next ==
  \/ UpdateStep
  \/ Publish
  \/ \E b \in Bidders : BidStart(b) \/ BidRank(b) \/ BidEnd(b)

Spec == Init /\ [][Next]_vars

(* Threads keep running; whether Redis answers is nobody's promise. *)
Fairness ==
  /\ WF_vars(UpdateStep)
  /\ \A b \in Bidders : WF_vars(BidRank(b) \/ BidEnd(b))

FairSpec == Spec /\ Fairness

-----------------------------------------------------------------------------
UpdatePC ==
  {"wait", "timestamp", "clear", "load", "price", "prices", "pids", "pidlists",
   "config", "filters", "build"}

Copies == Copy \cup {None}

Pointer == Copies \cup {Gone}

(* Every variable has its type. *)
TypeOK ==
  /\ redis \in [new : BOOLEAN, newer : BOOLEAN, empty : BOOLEAN]
  /\ front \in Copy /\ price \in Copy /\ shown \in Copy
  /\ unit \in [Copy -> [full : BOOLEAN, latest : BOOLEAN, price : Pointer,
                        pids : {"null", "live", "gone"}]]
  /\ filters \in [Copy -> Pointer]
  /\ update \in [pc : UpdatePC, again : BOOLEAN, ok : BOOLEAN]
  /\ bidder \in [Bidders -> [pc : {"idle", "match", "rank"}, chain : Pointer,
                             units : Pointer, old : BOOLEAN]]

(* A round takes up orders only when they changed.                         *)
Pending == update.pc \in {"clear", "load"} => redis.new

Loaded ==
  /\ ~redis.new => unit[front].latest
  /\ update.pc = "load" =>
       /\ ~redis.newer => unit[Back(front)].latest
       /\ unit[Back(front)].price = None

(* Prices: a unit in front points into the map in front or has none, and   *)
(* the map to be cleared is nobody's.                                      *)
Priced ==
  /\ \A c \in Copy : unit[c].price # Gone
  /\ unit[front].price \in {None, price}
  /\ update.pc \in {"price", "prices"} => unit[front].price = None
  /\ update.pc = "price" => unit[Back(front)].price \in {None, price}

(* The lists of pids are complete from their reading to the end of a round. *)
Listed == update.pc \in {"config", "filters", "build"} => unit[front].pids = "live"

(* A bid that began after the last round walks the filters in front.       *)
Bidding ==
  \A b \in Bidders :
    /\ bidder[b].pc = "idle" =>
         bidder[b].chain = None /\ bidder[b].units = None /\ ~bidder[b].old
    /\ bidder[b].pc # "idle" => bidder[b].units # None
    /\ bidder[b].pc # "idle" /\ ~bidder[b].old =>
         /\ bidder[b].units = filters[shown]
         /\ bidder[b].chain \in {None, shown}

EngineInv == TypeOK /\ Pending /\ Loaded /\ Priced /\ Listed /\ Bidding

(* The filters that requests are matched with point to units that exist.   *)
(* Not so: an update that stops half way leaves the filters of the orders  *)
(* before, and the next one deletes what it takes for old.                 *)
FiltersHoldLiveUnits == filters[shown] # Gone

(* That is the only way: the filters in front lose their units when newer  *)
(* orders are loaded although no round has built filters since the copies  *)
(* of the units switched.  However rounds fail or follow each other, and   *)
(* whenever orders change, units that filters in front were built from     *)
(* after their switch are not deleted.                                     *)
LostOnlyUnbuilt ==
  [][filters'[shown'] = Gone =>
       \/ filters[shown] = Gone
       \/ update.pc = "clear" /\ filters[shown] = Back(front)]_vars

(* A bid that was not under way when the last round ended keeps what it    *)
(* reads, although it takes no lock and copies switch and are cleared      *)
(* beside it: the filters it walks through, and the units that matched, as *)
(* long as the filters in front have theirs.  Prices are never cleared     *)
(* under a unit that a bid reads, however long it lasts.                   *)
BidsReadLiveData ==
  \A b \in Bidders :
    /\ ~bidder[b].old => bidder[b].chain # Gone
    /\ ~bidder[b].old /\ bidder[b].units = Gone => filters[shown] = Gone
    /\ bidder[b].units \in Copy => unit[bidder[b].units].price # Gone

(* AddData of the ban filter reads the pids of every unit: no unit in      *)
(* front then points into the map that was cleared for this round.         *)
BuildReadsLivePids == update.pc = "build" => unit[front].pids = "live"

(* No change of the orders is missed: when the timestamps agree, the units *)
(* in front were loaded, completely, after the last change.                *)
NoOrderMissed == update.pc = "wait" /\ ~redis.new => unit[front].latest

\* the filters in front are made from the last orders
Settled == filters[shown] = front /\ unit[front].latest

(* However many rounds failed, and wherever: once the orders stay as they  *)
(* are and if rounds succeed again and again, the bids come to be made     *)
(* from the last orders.                                                   *)
OrdersReachBids ==
  []<>(update.pc = "wait" /\ update.ok) /\ <>[][~Publish]_vars => (redis.new ~> Settled)
=============================================================================
