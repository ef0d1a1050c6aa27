------------------------------ MODULE Bidding ------------------------------
(***************************************************************************)
(* One bid, from request to offer: AdRtbEngineRun of ibidding/engine with  *)
(* the filters (Filters) and the ranking (AdRtbDealRank.cpp).  A bidding   *)
(* thread walks the filters it found in front.  Between the filters, and   *)
(* while it asks the cache about the user, rounds of the update and spend  *)
(* reports go on: which orders the real-time filter holds back is left     *)
(* open here, and is what LiveBidding adds.                                *)
(*                                                                         *)
(* The user cache and the click model are external: a user is any of       *)
(* Users, the price the model computes is a field of the order.            *)
(***************************************************************************)
EXTENDS Filters

CONSTANTS
  Bidders,      \* AdBiddingTask threads
  Requests, Users,
  Plans,        \* the orders the filters in front may be made from
  Times,        \* weekdays and hours
  Weight,       \* m_fWeight in percent
  VipPrice,     \* AD_VIP_PRICE
  FloorFree     \* Youku and Miaozhen: their video bids may be below the floor

\* Planners write plain values: a pid or a category is not what stands for all
\* or for none, and an exchange has its creative group for all its materials.
\* Audiences are in the order of the plan.
Planned(o) ==
  /\ o.audience \in Seq(ToSet(o.audience))
  /\ \A p \in o.pids : p.mode \in {"ALL", "FIXED", "OTHER"} /\ All \notin p.ids
  /\ \A m, n \in o.materials : m.adx = n.adx => m.group = n.group
  /\ {o.target, o.model} \cup {a.price : a \in o.advanced} \subseteq Nat

\* An exchange has a number and names the categories it excludes.
Legible(q) ==
  /\ q.adx # 0 /\ <<>> \notin q.sensitive \cup q.categories
  /\ q.crowd \in Seq(ToSet(q.crowd))

ASSUME BiddingAssumption ==
  /\ Weight \in 0 .. 100 /\ VipPrice \in Nat
  /\ \A q \in Requests : Legible(q)
  /\ \A user \in Users : user.ok => user.marks \in Seq(ToSet(user.marks))
  /\ \A d \in TanxDescriptions : <<>> \notin d.cats
  /\ \A book \in Plans :
       /\ DOMAIN book \subseteq Nat /\ IsFiniteSet(DOMAIN book)
       /\ \A u \in DOMAIN book : Planned(book[u])

VARIABLE bid    \* the bidding threads

NoOffer == [unit |-> -1, price |-> 0, material |-> [adx |-> 0]]

NoBid == [pc |-> "idle", q |-> [adx |-> 0], book |-> <<>>, now |-> <<>>,
          user |-> [ok |-> FALSE],
          res |-> {}, vip |-> {}, offer |-> NoOffer]

-----------------------------------------------------------------------------
(* AdRtbRankChoice.                                                        *)

\* an advanced price for the pid goes before the order's own
Price(o, q) ==
  LET advanced == {a \in o.advanced : a.pid = q.pid}
  IN IF advanced # {} THEN (CHOOSE a \in advanced : TRUE).price
     ELSE IF o.type = "CPM" THEN o.target ELSE o.model

\* mutant: what equals the floor is good enough
KeptAtFloor(o, q) ==
  \/ Price(o, q) > 0 /\ Price(o, q) >= q.floor
  \/ q.flow = "video" /\ q.adx \in FloorFree

Kept(o, q) ==
  \/ Price(o, q) > 0 /\ Price(o, q) > q.floor
  \/ q.flow = "video" /\ q.adx \in FloorFree

\* AdRtbRandWet: of a hundred slots, Weight go to 0, Weight of the rest to 1,
\* what is left to the last
Slots(n, i) ==
  LET first == Weight
      second == ((100 - Weight) * Weight) \div 100
  IN CASE i = n - 1 -> 100 - (IF n > 1 THEN first ELSE 0) - (IF n > 2 THEN second ELSE 0)
       [] i = 0 /\ n > 1 -> first
       [] i = 1 /\ n > 2 -> second

RandWet(n) == {i \in 0 .. n - 1 : Slots(n, i) > 0}

\* AdRtbRankStrategy: of up to three orders, by execute id, the drawn one; of
\* more, first one of the three highest prices, then any order that offers it
RankStrategy(price) ==
  LET kept == DOMAIN price
      prices == {price[u] : u \in kept}
      least(n) == IF n < 3 THEN n ELSE 3
  IN IF Cardinality(kept) <= 3
     THEN {u \in kept : Cardinality({v \in kept : v < u}) \in RandWet(Cardinality(kept))}
     ELSE {u \in kept :
             Cardinality({p \in prices : p > price[u]}) \in RandWet(least(Cardinality(prices)))}

\* the units and prices the choice may fall on
RankChoice(book, q, res, vip) ==
  LET price == [u \in {v \in res : Kept(book[v], q)} |-> Price(book[u], q)]
  IN IF vip # {} THEN {[unit |-> u, price |-> VipPrice] : u \in vip}
     ELSE {[unit |-> u, price |-> price[u]] : u \in RankStrategy(price)}

\* AdRtbEngineBuild: a material of the exchange and the size, the first of its
\* list there; which one that is, is left open
Materials(o, q) == {m \in o.materials : m.adx = q.adx /\ m.size = q.size}

-----------------------------------------------------------------------------
(* AdRtbEngineRun.                                                         *)

BidInit == bid = [b \in Bidders |-> NoBid]

Set(b, r) == bid' = [bid EXCEPT ![b] = r]

\* FiltersMatch takes the filters in front and walks them up to RealTime
BidStart(b, q, book, now) ==
  LET res == StaticMatch(book, q, now)
  IN /\ bid[b].pc = "idle"
     /\ Set(b, IF res = {} THEN NoBid
               ELSE [NoBid EXCEPT !.pc = "realtime", !.q = q, !.book = book,
                                  !.now = now, !.res = res])

\* `held' are the orders that AdFilterRealTime::match takes out
BidRealTime(b, held) ==
  LET res == bid[b].res \ held
  IN /\ bid[b].pc = "realtime"
     /\ Set(b, IF res = {} THEN NoBid
               ELSE [bid[b] EXCEPT !.pc = "mark", !.res = res])

\* AdFilterMarkVipUserTag: only for a user the cache knows
BidMark(b, user) ==
  LET res == MarkMatch(bid[b].book, bid[b].res, bid[b].q, user)
      vip == IF user.ok THEN res \cap {user.eid} ELSE {}
  IN /\ bid[b].pc = "mark"
     /\ Set(b, IF res = {} THEN NoBid
               ELSE [bid[b] EXCEPT !.pc = "rank", !.res = res, !.vip = vip, !.user = user])

\* checkLife: the cache took too long
BidLate(b) ==
  /\ bid[b].pc \in {"mark", "rank"}
  /\ Set(b, NoBid)

BidRank(b) ==
  LET s == bid[b]
      choice == RankChoice(s.book, s.q, s.res, s.vip)
  IN /\ s.pc = "rank"
     /\ IF choice = {} THEN Set(b, NoBid)
        ELSE \E c \in choice :
          LET made == Materials(s.book[c.unit], s.q)
          IN IF made = {} THEN Set(b, NoBid)
             ELSE \E m \in made :
               Set(b, [s EXCEPT !.pc = "offer",
                         !.offer = [unit |-> c.unit, price |-> c.price, material |-> m]])

\* the response is written
BidEnd(b) == bid[b].pc = "offer" /\ Set(b, NoBid)

\* what follows the real-time filter
BidOn(b) ==
  \/ \E user \in Users : BidMark(b, user)
  \/ BidLate(b)
  \/ BidRank(b)
  \/ BidEnd(b)

BidNext ==
  \E b \in Bidders :
    \/ \E q \in Requests, book \in Plans, now \in Times : BidStart(b, q, book, now)
    \/ \E held \in SUBSET bid[b].res : BidRealTime(b, held)
    \/ BidOn(b)

BidSpec == BidInit /\ [][BidNext]_bid

-----------------------------------------------------------------------------
(* Properties.                                                             *)

\* an order's places: all of an exchange, some pids, or some kinds of site
Asks(p, q) ==
  \/ p.mode = "ALL"
  \/ p.mode = "FIXED" /\ q.pid \in p.ids
  \/ p.mode = "OTHER" /\ p.ids \cap q.sites # {}

\* what the planner of an order means, without keys and bits
Suits(o, q, now) ==
  /\ o.days # {} /\ now \in o.hours
  /\ \E p \in o.pids : p.adx = q.adx
  /\ \E p \in o.pids : p.adx = q.adx /\ Asks(p, q)
  /\ All \in o.area \/ q.area \in o.area
  /\ o.ua = {} \/ All \in o.ua \/ o.ua \cap q.ua # {}
  /\ \E m \in o.materials : m.group /\ m.adx = q.adx /\ m.size = q.size
  /\ q.flow = "pc" => ~o.mobile
  /\ q.flow = "mobile" =>
       /\ o.mobile
       /\ \A l \in {<<o.operator, q.operator>>, <<o.device, q.device>>, <<o.connect, q.connect>>} :
            All \in l[1] \/ l[1] \cap l[2] # {}
  /\ o.screens # {} => \E s \in o.screens : s = 0 \/ s >= q.view
  /\ o.types # {} => 0 \in o.types \/ q.type \in o.types

\* Nine indexes, bits collected per order and one comparison of bits: an
\* order is in the result exactly when it suits the request and no list of
\* the order, the exchange or TanX's content rules bans it.
ResultSuits ==
  \A b \in Bidders : bid[b].pc = "realtime" =>
    bid[b].res = {u \in DOMAIN bid[b].book :
                    Suits(bid[b].book[u], bid[b].q, bid[b].now) /\ ~Banned(bid[b].book[u], bid[b].q)}

\* a material may be shown where the request is from
Allowed(o, q, m) ==
  /\ m.cat \notin q.sensitive \cup q.categories
  /\ q.adx = Baidu => Head2(m.cat) \notin q.sensitive \cup q.categories
  /\ m.kind # 0 => m.kind \notin q.creates
  /\ q.adx = TanX => \A d \in TanxDescriptions :
       d.pid = q.pid /\ ~d.limited => m.cat \notin d.cats
  /\ o.banContent \cap {<<q.pid>>, <<q.adx, q.pid>>} = {}
  /\ <<q.adx, q.pid>> \notin o.banPids

\* The bans are per order and the material is chosen at the end, by size
\* alone: an offer is never for a category, a kind of material or a place that
\* the exchange or the order excluded.  Landing pages are not among this: the
\* list of those that Baidu excludes is not loaded.
OfferIsAllowed ==
  \A b \in Bidders : bid[b].pc = "offer" =>
    Allowed(bid[b].book[bid[b].offer.unit], bid[b].q, bid[b].offer.material)

\* AdRtbEngineBuild looks for the material on its own: it finds one for
\* whatever the filters and the ranking let through.
OfferCanBeBuilt ==
  \A b \in Bidders : bid[b].pc = "rank" =>
    \A u \in bid[b].res : Materials(bid[b].book[u], bid[b].q) # {}

\* An offer is above the floor of the request, whichever of three places its
\* price comes from, save for a user's own order and two exchanges' videos;
\* and no more than two other prices above it were passed over.
OfferIsWorthIt ==
  \A b \in Bidders : bid[b].pc = "offer" =>
    LET s == bid[b]
        others == {Price(s.book[u], s.q) : u \in {v \in s.res : Kept(s.book[v], s.q)}}
    IN IF s.vip # {} THEN s.offer.unit \in s.vip /\ s.offer.unit = s.user.eid
       ELSE /\ s.offer.price > s.q.floor \/ (s.q.flow = "video" /\ s.q.adx \in FloorFree)
            /\ Cardinality({p \in others : p > s.offer.price}) <= 2

\* the user's texts, or what the exchange says of the user
Texts(s) ==
  IF s.user.ok THEN {s.user.marks[i].text : i \in DOMAIN s.user.marks}
  ELSE {s.q.crowd[i] : i \in DOMAIN s.q.crowd}

Meets(node, user, kind) ==
  {i \in Masked(node[kind]) : \E j \in DOMAIN user.audience :
     /\ IsStrictPrefix(node[kind][i].key, user.audience[j].text)
     /\ node[kind][i].days >= user.audience[j].days}

\* A bid for an order with keywords has a text that contains one, and a bid
\* for an order with one audience is for a user in it, as far as its
\* conditions have bits.
MarksAreMet ==
  \A b \in Bidders : bid[b].pc = "rank" =>
    \A u \in bid[b].res :
      LET s == bid[b]
          o == s.book[u]
      IN /\ Nice(o) = "NICE" => \E k \in o.keys, t \in Texts(s) : Occurs(k.key, t)
         /\ Nice(o) = "AUDIENCE" /\ Len(o.audience) = 1 /\ o.audience[1].merge = "AND" =>
              /\ Meets(o.audience[1], s.user, "search") = Masked(o.audience[1].search)
              /\ Meets(o.audience[1], s.user, "visit") = Masked(o.audience[1].visit)
              /\ Meets(o.audience[1], s.user, "unvisit") = {}
=============================================================================
