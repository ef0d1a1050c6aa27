------------------------------- MODULE Remote -------------------------------
(***************************************************************************)
(* A bid of a remote engine (ibidding/src), which gets its requests from   *)
(* the adapter over the network: the internal protocol of libtlv           *)
(* (AdRtbNetProtocol.cpp) and AdRtbEngineRun for a packet, around the      *)
(* filters and the ranking of Bidding.                                     *)
(*                                                                         *)
(* A packet is the exchange, the number of fields and the fields, each a   *)
(* key and a value; a field that is empty is not written.  The body is     *)
(* compressed, which is external: what comes out of it again is no longer  *)
(* than the buffer it is unpacked to.  How packets and parameters meet in  *)
(* the adapter is Dispatch.                                                *)
(*                                                                         *)
(* Requests are those of Filters, with the bytes of the url (with user     *)
(* agent and the like) and of the device's ids as fields; m_sArea is set,  *)
(* to AD_AREA_ALL if by nothing else.  Materials have the bytes of their   *)
(* html, a click url and monitor urls.                                     *)
(***************************************************************************)
EXTENDS Bidding

CONSTANTS
  PackMax,    \* bytes for the body: AD_KBYTES8, AD_CACHE_MAX, less the head
  UnpackMax,  \* bytes of sUnCompress that are used, AD_KBYTES4
  KeyBytes    \* of a field's key and length, 5

VARIABLES
  sent,       \* per thread: the request as the adapter has it
  answer      \* per thread: the response as the adapter has it

remoteVars == <<bid, sent, answer>>

-----------------------------------------------------------------------------
(* Fields, and what the two parsers know (AdRtbProtocolInitParser).        *)

Strings == {"flow", "pid", "size", "url", "view", "type", "floor", "ids",
            "unit", "price", "cat", "html", "click"}
Lists == {"sites", "creates", "categories", "ua", "sensitive", "operator",
          "device", "connect", "monitors"}

\* Requests and materials hold lists of some length and texts of some bytes;
\* the area of an order is a number or AD_AREA_ALL.
ASSUME RemoteAssumption ==
  /\ {PackMax, UnpackMax, KeyBytes} \subseteq Nat /\ UnpackMax <= PackMax
  /\ \A q \in Requests : \A key \in Lists \ {"monitors"} : IsFiniteSet(q[key])
  /\ \A book \in Plans : \A u \in DOMAIN book :
       /\ "" \notin book[u].area
       /\ \A m \in book[u].materials : m.html \in Nat /\ IsFiniteSet(m.monitors)

Blank ==
  [flow |-> "", pid |-> "", size |-> "", url |-> 0, view |-> 0, type |-> 0, floor |-> 0,
   ids |-> 0, unit |-> -1, price |-> -1, cat |-> <<>>, html |-> 0, click |-> ""]

\* AdRtbRequest::clear
NoRequest ==
  [adx |-> 0, flow |-> "", pid |-> "", sites |-> {}, area |-> "", size |-> "", url |-> 0,
   view |-> 0, type |-> 0, creates |-> {}, crowd |-> <<>>, categories |-> {}, ua |-> {},
   sensitive |-> {}, floor |-> 0, operator |-> {}, device |-> {}, connect |-> {}, ids |-> 0]

\* AdRtbResponse::clear
NoResponse ==
  [adx |-> 0, unit |-> -1, price |-> -1, cat |-> <<>>, html |-> 0, click |-> "",
   monitors |-> {}]

\* flow is written twice; the area is not written
RequestOrder ==
  <<"flow", "flow", "pid", "sites", "size", "url", "view", "type", "creates", "crowd",
    "categories", "ua", "sensitive", "floor", "operator", "device", "connect", "ids">>

ResponseOrder == <<"unit", "price", "cat", "html", "click", "monitors">>

Field(key, value) == [key |-> key, value |-> value]

\* AD_PROTOCOL_KV for a string, or for each element of a list
Written(r, key) ==
  IF key \in Strings
  THEN IF r[key] = Blank[key] THEN <<>> ELSE <<Field(key, r[key])>>
  ELSE LET list == IF key = "crowd" THEN r[key] ELSE SetToSeq(r[key])
       IN [i \in DOMAIN list |-> Field(key, list[i])]

Body(r, order) == FlattenSeq([i \in DOMAIN order |-> Written(r, order[i])])

\* the texts whose length matters, and one byte for any other value
Bytes(field) ==
  KeyBytes + (IF field.key \in {"url", "ids", "html"} THEN field.value ELSE 1)

Size(body) ==
  LET sum[i \in 0 .. Len(body)] == IF i = 0 THEN 0 ELSE sum[i - 1] + Bytes(body[i])
  IN sum[Len(body)]

-----------------------------------------------------------------------------
(* InternalToTlv and TlvToInternal.                                        *)

Packet(r, body) == [adx |-> r.adx, total |-> Len(body), body |-> body]

\* mutant: the first copy of flow is not counted either
EncodeUncounted(r) ==
  LET body == Body(r, RequestOrder)
      copy == Size(Written(r, "flow"))
  IN IF Size(body) - copy > PackMax THEN {}
     ELSE {[Packet(r, body) EXCEPT !.total = IF copy > 0 THEN @ - 1 ELSE @]}

\* the packet of a request, if there is room: for all but the first copy of flow
EncodeRequest(r) ==
  LET body == Body(r, RequestOrder)
      copy == Size(Written(r, "flow"))
  IN IF Size(body) - copy > PackMax THEN {} ELSE {Packet(r, body)}

\* mutant: a list counts as one field
EncodeResponseKeys(r) ==
  LET body == Body(r, ResponseOrder)
  IN IF Size(body) > PackMax THEN {}
     ELSE {[Packet(r, body) EXCEPT !.total = Cardinality({body[i].key : i \in DOMAIN body})]}

\* the packet of a response, if there is room
EncodeResponse(r) ==
  LET body == Body(r, ResponseOrder)
  IN IF Size(body) > PackMax THEN {} ELSE {Packet(r, body)}

\* compress, and uncompress at the other end.  Of a field across the end of
\* the buffer the value is in part what the stack held, and the length too
\* where the end is within it: then the thread may throw.  Here such a field
\* is lost, or the packet is.
Unpacked(body) ==
  LET whole == {n \in 0 .. Len(body) : Size(SubSeq(body, 1, n)) <= UnpackMax}
      rest == CHOOSE n \in whole : \A m \in whole : m <= n
  IN SubSeq(body, 1, rest)

Torn(body) == Size(body) > UnpackMax

\* mutant: the last value of a list wins
AssignLast(old, key, fields) ==
  LET at == {i \in DOMAIN fields : fields[i].key = key}
  IN CASE key \in Strings /\ at # {} -> fields[Max(at)].value
       [] key \in Lists /\ at # {} -> {fields[Max(at)].value}
       [] OTHER -> old

\* what the parser leaves in a member: the last value of a string, and each of
\* a list.  A key that no parser has is skipped: that of the crowd categories.
Assign(old, key, fields) ==
  LET at == {i \in DOMAIN fields : fields[i].key = key}
  IN CASE key \in Strings /\ at # {} -> fields[Max(at)].value
       [] key \in Lists -> old \cup {fields[i].value : i \in at}
       [] OTHER -> old

\* up to the number of fields that the head says
Decode(none, packet) ==
  LET body == Unpacked(packet.body)
      n == IF Len(body) < packet.total THEN Len(body) ELSE packet.total
      read == SubSeq(body, 1, n)
  IN [key \in DOMAIN none |->
        IF key = "adx" THEN packet.adx ELSE Assign(none[key], key, read)]

\* AdRtbEngineBuild
Response(s) ==
  [NoResponse EXCEPT !.adx = s.q.adx, !.unit = s.offer.unit, !.price = s.offer.price,
     !.cat = s.offer.material.cat, !.html = s.offer.material.html,
     !.click = s.offer.material.click, !.monitors = s.offer.material.monitors]

-----------------------------------------------------------------------------
(* AdRtbEngineRun for a packet.                                            *)

RemoteInit ==
  /\ BidInit
  /\ sent = [b \in Bidders |-> NoRequest]
  /\ answer = [b \in Bidders |-> NoResponse]

\* AllocPara clears the response
RemoteStart(b, q, book, now) ==
  /\ bid[b].pc = "idle"
  /\ \E packet \in EncodeRequest(q) : BidStart(b, Decode(NoRequest, packet), book, now)
  /\ sent' = [sent EXCEPT ![b] = q]
  /\ answer' = [answer EXCEPT ![b] = NoResponse]

\* the life of the request began when it was decoded; only the filter of marks
\* looks at it here
RemoteOn(b) ==
  /\ \/ \E held \in SUBSET bid[b].res : BidRealTime(b, held)
     \/ \E user \in Users : BidMark(b, user)
     \/ bid[b].pc = "mark" /\ BidLate(b)
     \/ BidRank(b)
  /\ UNCHANGED <<sent, answer>>

\* no packet when there is no room for the response
RemoteAnswer(b) ==
  LET packets == EncodeResponse(Response(bid[b]))
  IN /\ BidEnd(b)
     /\ IF packets = {} THEN UNCHANGED answer
        ELSE \E packet \in packets :
               \/ answer' = [answer EXCEPT ![b] = Decode(NoResponse, packet)]
               \/ Torn(packet.body) /\ UNCHANGED answer
     /\ UNCHANGED sent

RemoteNext ==
  \E b \in Bidders :
    \/ \E q \in Requests, book \in Plans, now \in Times : RemoteStart(b, q, book, now)
    \/ RemoteOn(b)
    \/ RemoteAnswer(b)

RemoteSpec == RemoteInit /\ [][RemoteNext]_remoteVars

-----------------------------------------------------------------------------
(* Properties.  A body may be twice as long as what it is unpacked to; of  *)
(* those that are longer nothing is claimed.                               *)

Arrives(r, order) == Size(Body(r, order)) <= UnpackMax

\* What a remote engine finds is exactly what a local one finds for the same
\* request, among the orders for all areas: nothing that a filter asks for is
\* lost or made up on the way, but the area.
RemoteSuits ==
  \A b \in Bidders : bid[b].pc = "realtime" /\ Arrives(sent[b], RequestOrder) =>
    bid[b].res = {u \in DOMAIN bid[b].book :
                    LET o == bid[b].book[u]
                    IN All \in o.area /\ Suits(o, sent[b], bid[b].now) /\ ~Banned(o, sent[b])}

\* The offer is for the request that the adapter has: of its exchange and size,
\* above its floor, and in none of the categories it excludes.
OfferFitsRequest ==
  \A b \in Bidders : bid[b].pc = "offer" /\ Arrives(sent[b], RequestOrder) =>
    LET q == sent[b]
        offer == bid[b].offer
    IN /\ offer.material.adx = q.adx /\ offer.material.size = q.size
       /\ offer.material.cat \notin q.sensitive \cup q.categories
       /\ \/ offer.price > q.floor
          \/ offer.unit \in bid[b].vip
          \/ q.flow = "video" /\ q.adx \in FloorFree

\* What the adapter makes of the answer is what the engine offered, to the last
\* of the monitor urls.
AnswerIsOffer ==
  [][\A b \in Bidders :
       LET offered == Response(bid[b])
       IN bid[b].pc = "offer" /\ bid'[b].pc = "idle" /\ Arrives(offered, ResponseOrder) =>
            answer'[b] = offered]_remoteVars
=============================================================================
