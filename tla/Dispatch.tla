------------------------------ MODULE Dispatch ------------------------------
(***************************************************************************)
(* How the adapter hands bid requests to bidding engines and brings the    *)
(* answers back: adapter/AdAdapter.cpp (Run, AdAdapterIBiddingResponse,    *)
(* SessionTimeout), inc/AdParaList.h and the engine's side of the          *)
(* connection (AdRtbEngineLoop).                                           *)
(*                                                                         *)
(* A request of an exchange is put into a parameter (AdAdapterPara), which *)
(* waits on the list of one bid session until the engine answers, or its   *)
(* time is over, or the session breaks.  Any worker runs any of these      *)
(* parts; the lists have a lock each, what lies between two calls has      *)
(* none.  One request per exchange session is modelled, one answer of a    *)
(* local engine per read of its session, and a request that gets no answer *)
(* because EmptyToHttp fails counts as answered.                           *)
(***************************************************************************)
EXTENDS Naturals, FiniteSets, Sequences, SequencesExt

CONSTANTS
  Request,     \* requests of the exchanges, each on a session of its own
  Para,        \* AdAdapterPara objects; more would come from new
  Bid,         \* sessions of the bidding engines
  Workers,     \* AdWorkerTask threads
  None,
  MaxEvents,   \* bound: READ messages queued for one bid session
  Remote,      \* m_ctNetSession: engines whose answers carry no pointer;
               \* the others are of m_ctLocalSession
  Debug,       \* requests of debug users (m_bDebugUser): remote engines first
  Rest,        \* the rest of an answer that came in two pieces
  NoOffer      \* a remote engine's answer without an offer: a head, no body

ASSUME DispatchAssumption ==
  /\ MaxEvents \in Nat \ {0}
  /\ IsFiniteSet(Bid) /\ IsFiniteSet(Workers)
  /\ Remote \subseteq Bid
  /\ Debug \subseteq Request
  /\ None \notin Request \cup Para \cup Bid \cup {Rest, NoOffer}
  /\ {Rest, NoOffer} \cap (Request \cup Para) = {} /\ Rest # NoOffer

VARIABLES
  para,     \* the parameters
  free,     \* m_ctFreePara, and the objects not allocated yet
  lost,     \* parameters pushed on a deleted list, or popped and dropped
  bid,      \* the bid sessions, with their AdParaList
  wire,     \* the two directions of each bid connection, and the engine
  reply,    \* what was written to the exchange sessions
  waiting,  \* AdSessionActive less AdSessionIdle, per exchange session
  worker    \* per worker: where it is and what it holds

vars == <<para, free, lost, bid, wire, reply, waiting, worker>>

Message == Request \cup Para \cup {Rest, NoOffer}

NoReply == [n |-> 0, from |-> None, by |-> None]

Idle == [pc |-> "idle", p |-> None, b |-> None, msg |-> None, left |-> 0]

\* open: AdSessionOk; ptr: m_pData; deleted: the list it pointed to is gone;
\* timer: m_iTimeout is 3; watched: in m_mSessionRead
NewBid ==
  [open |-> TRUE, reg |-> FALSE, ptr |-> FALSE, deleted |-> FALSE, list |-> <<>>,
   timer |-> FALSE, active |-> 0, watched |-> TRUE, events |-> 0]

NewWire ==
  [alive |-> TRUE, to |-> <<>>, from |-> <<>>, busy |-> None, req |-> None]

Init ==
  /\ para = [p \in Para |-> [req |-> None, timeout |-> FALSE, resp |-> None]]
  /\ free = Para
  /\ lost = {}
  /\ bid = [b \in Bid |-> NewBid]
  /\ wire = [b \in Bid |-> NewWire]
  /\ reply = [r \in Request |-> NoReply]
  /\ waiting = [r \in Request |-> 0]
  /\ worker = [w \in Workers |-> Idle]

-----------------------------------------------------------------------------
(* SessionTimeout and the answers: what reaches the exchange sessions.     *)

Registered == {b \in Bid : bid[b].reg}

\* local engines first, or remote ones for a debug user
Preferred(r) ==
  LET first == IF r \in Debug THEN Registered \cap Remote ELSE Registered \ Remote
  IN IF first # {} THEN first ELSE Registered

\* the parameters on the list of a bid session
Listed(b) == ToSet(bid[b].list)

Live(ps) == {p \in ps : ~para[p].timeout}

\* an empty answer to the request of every parameter of ps, once each
AnswerEmpty(ps) ==
  LET rs == {para[p].req : p \in ps} IN
  /\ reply' = [r \in Request |->
       IF r \in rs THEN [n |-> reply[r].n + 1, from |-> None, by |-> None] ELSE reply[r]]
  /\ waiting' = [r \in Request |->
       IF r \in rs /\ waiting[r] > 0 THEN waiting[r] - 1 ELSE waiting[r]]

\* AdSessionWrite of the converted response, then AdSessionIdle
Answer(p, resp, b) ==
  LET r == para[p].req IN
  /\ reply' = [reply EXCEPT ![r] = [n |-> @.n + 1, from |-> resp, by |-> b]]
  /\ waiting' = [waiting EXCEPT ![r] = IF @ > 0 THEN @ - 1 ELSE @]

Goto(w, pc) == worker' = [worker EXCEPT ![w].pc = pc]

Return(w) == worker' = [worker EXCEPT ![w] = Idle]

-----------------------------------------------------------------------------
(* Run, a request of an exchange.                                          *)

\* AllocPara and AdAdapterToInternal, which may refuse the request
TakeRequest(w, r) ==
  /\ worker[w].pc = "idle"
  /\ reply[r] = NoReply /\ waiting[r] = 0
  /\ \E p \in free, pc \in {"find", "refuse"} :
       /\ para' = [para EXCEPT ![p] = [req |-> r, timeout |-> FALSE, resp |-> None]]
       /\ free' = free \ {p}
       /\ worker' = [worker EXCEPT ![w] =
            [Idle EXCEPT !.pc = pc, !.p = p,
               !.left = Cardinality(Registered \ Remote) \div 2]]
  /\ waiting' = [waiting EXCEPT ![r] = @ + 1]
  /\ UNCHANGED <<lost, bid, wire, reply>>

\* AdLRBuffer.find takes a registered session; if there is none, the session
\* of the last turn of the loop stays
FindBid(w) ==
  /\ worker[w].pc = "find"
  /\ \/ \E b \in Preferred(para[worker[w].p].req) :
          worker' = [worker EXCEPT ![w].pc = "ok", ![w].b = b]
     \/ /\ Registered = {}
        /\ Goto(w, IF worker[w].b = None THEN "refuse" ELSE "ok")
  /\ UNCHANGED <<para, free, lost, bid, wire, reply, waiting>>

\* the private pointer and AdSessionOk
CheckBid(w) ==
  /\ worker[w].pc = "ok"
  /\ LET b == worker[w].b IN
     /\ bid' = [bid EXCEPT ![b].open = @ /\ bid[b].ptr]
     /\ Goto(w, IF bid[b].ptr /\ bid[b].open THEN "size" ELSE "refuse")
  /\ UNCHANGED <<para, free, lost, wire, reply, waiting>>

\* a session with a request outstanding is not sent another one
CheckSize(w) ==
  /\ worker[w].pc = "size"
  /\ LET b == worker[w].b IN
     \/ /\ bid[b].list = <<>>
        /\ Goto(w, "commit")
     \/ /\ bid[b].list # <<>> /\ worker[w].left > 0
        /\ worker' = [worker EXCEPT ![w].pc = "find", ![w].left = @ - 1]
     \/ /\ bid[b].list # <<>> /\ worker[w].left = 0
        /\ Goto(w, "refuse")
  /\ UNCHANGED <<para, free, lost, bid, wire, reply, waiting>>

\* mutant: the session gets no timeout
CommitUntimed(w) ==
  /\ worker[w].pc = "commit"
  /\ bid' = [bid EXCEPT ![worker[w].b].active = @ + 1]
  /\ Goto(w, "push")
  /\ UNCHANGED <<para, free, lost, wire, reply, waiting>>

\* AdSessionActive and AdSessionSetTimeout(3)
Commit(w) ==
  /\ worker[w].pc = "commit"
  /\ bid' = [bid EXCEPT ![worker[w].b].active = @ + 1, ![worker[w].b].timer = TRUE]
  /\ Goto(w, "push")
  /\ UNCHANGED <<para, free, lost, wire, reply, waiting>>

\* AdParaList.push; the list may have been deleted since CheckBid
Push(w) ==
  /\ worker[w].pc = "push"
  /\ LET b == worker[w].b  p == worker[w].p IN
     \/ /\ ~bid[b].deleted
        /\ bid' = [bid EXCEPT ![b].list = Append(@, p)]
        /\ UNCHANGED lost
     \/ /\ bid[b].deleted
        /\ lost' = lost \cup {p}
        /\ UNCHANGED bid
  /\ Goto(w, "write")
  /\ UNCHANGED <<para, free, wire, reply, waiting>>

\* AdSessionWrite to the engine; it fails once the connection is broken,
\* perhaps not at once
Write(w) ==
  /\ worker[w].pc = "write"
  /\ LET b == worker[w].b
         p == worker[w].p
         m == IF b \in Remote THEN para[p].req ELSE p
     IN \/ /\ bid[b].open
           /\ wire' = [wire EXCEPT ![b].to = IF wire[b].alive THEN Append(@, m) ELSE @]
           /\ UNCHANGED bid
        \/ /\ ~bid[b].open \/ ~wire[b].alive
           /\ bid' = [bid EXCEPT ![b].open = FALSE]
           /\ UNCHANGED wire
  /\ Return(w)
  /\ UNCHANGED <<para, free, lost, reply, waiting>>

\* the label RETURN: an empty answer, and the parameter is free again
Refuse(w) ==
  /\ worker[w].pc = "refuse"
  /\ AnswerEmpty({worker[w].p})
  /\ free' = free \cup {worker[w].p}
  /\ Return(w)
  /\ UNCHANGED <<para, lost, bid, wire>>

-----------------------------------------------------------------------------
(* The server thread's part, see NetBase: READ messages for bid sessions.  *)

ReadEvent(b) ==
  /\ bid[b].watched
  /\ bid[b].events < MaxEvents
  /\ \/ bid[b].open /\ (wire[b].from # <<>> \/ ~wire[b].alive)
     \/ bid[b].timer
  /\ bid' = [bid EXCEPT ![b].events = @ + 1]
  /\ UNCHANGED <<para, free, lost, wire, reply, waiting, worker>>

Unregister(b) ==
  /\ bid[b].watched /\ ~bid[b].open
  /\ bid' = [bid EXCEPT ![b].watched = FALSE]
  /\ UNCHANGED <<para, free, lost, wire, reply, waiting, worker>>

-----------------------------------------------------------------------------
(* Run, a message of a bid session: AdAdapterIBiddingResponse.             *)

\* the engine's first message makes the session a bid session
Register(w, b) ==
  /\ worker[w].pc = "idle"
  /\ ~bid[b].reg /\ ~bid[b].ptr /\ ~bid[b].deleted /\ bid[b].open
  /\ bid' = [bid EXCEPT ![b].ptr = TRUE, ![b].active = @ + 1, ![b].reg = TRUE]
  /\ UNCHANGED <<para, free, lost, wire, reply, waiting, worker>>

\* AdSessionRead: some of what came, nothing, or the end of the connection;
\* of more than one answer of a remote engine the first is looked at
TakeEvent(w, b) ==
  /\ worker[w].pc = "idle"
  /\ bid[b].events > 0
  /\ LET ends == bid[b].open /\ ~wire[b].alive
         data == bid[b].open /\ wire[b].alive /\ wire[b].from # <<>>
     IN /\ bid' = [bid EXCEPT ![b].events = @ - 1, ![b].open = @ /\ ~ends]
        /\ \E n \in IF b \in Remote THEN DOMAIN wire[b].from ELSE {1} :
             wire' = [wire EXCEPT ![b].from =
                        IF data THEN SubSeq(@, n + 1, Len(@)) ELSE @]
        /\ worker' = [worker EXCEPT ![w] =
             [Idle EXCEPT !.pc = "bid", !.b = b,
                !.msg = IF data THEN Head(wire[b].from) ELSE None]]
  /\ UNCHANGED <<para, free, lost, reply, waiting>>

\* AdLRBuffer.check, AdSessionOk, AdSessionGetPrivate
SortEvent(w) ==
  /\ worker[w].pc = "bid"
  /\ LET b == worker[w].b IN
     \/ /\ ~bid[b].reg
        /\ Return(w)
        /\ UNCHANGED bid
     \/ /\ bid[b].reg /\ bid[b].open
        /\ Goto(w, "check")
        /\ UNCHANGED bid
     \/ /\ bid[b].reg /\ ~bid[b].open
        /\ Goto(w, IF bid[b].ptr THEN "clear" ELSE "drop")
        /\ bid' = [bid EXCEPT ![b].ptr = FALSE]
  /\ UNCHANGED <<para, free, lost, wire, reply, waiting>>

\* AdParaList.clear, and the list is deleted
ClearList(w) ==
  /\ worker[w].pc = "clear"
  /\ LET b == worker[w].b
         ps == Listed(b)
     IN /\ AnswerEmpty(Live(ps))
        /\ para' = [p \in Para |-> [para[p] EXCEPT !.timeout = @ \/ p \in ps]]
        /\ free' = free \cup ps
        /\ bid' = [bid EXCEPT ![b].list = <<>>, ![b].deleted = TRUE,
                     ![b].active = IF @ > Len(bid[b].list) THEN @ - Len(bid[b].list) ELSE 0]
  /\ Goto(w, "drop")
  /\ UNCHANGED <<lost, wire>>

\* AdLRBuffer.del, and the AdSessionIdle of the registration
DropBid(w) ==
  /\ worker[w].pc = "drop"
  /\ bid' = [bid EXCEPT ![worker[w].b].reg = FALSE,
                        ![worker[w].b].active = IF @ > 0 THEN @ - 1 ELSE @]
  /\ Return(w)
  /\ UNCHANGED <<para, free, lost, wire, reply, waiting>>

\* the oldest k on the list of worker w's session
Oldest(w, k) ==
  LET list == bid[worker[w].b].list IN {list[i] : i \in DOMAIN list \cap 1 .. k}

\* mutant: a parameter that timed out in an earlier round is answered again
CheckListAgain(w, k) ==
  /\ worker[w].pc = "check"
  /\ AnswerEmpty(Oldest(w, k))
  /\ para' = [p \in Para |-> [para[p] EXCEPT !.timeout = @ \/ p \in Oldest(w, k)]]
  /\ IF worker[w].msg = None THEN Return(w) ELSE Goto(w, "match")
  /\ UNCHANGED <<free, lost, bid, wire>>

\* mutant: what timed out leaves the list and is free at once
CheckListFrees(w, k) ==
  /\ worker[w].pc = "check"
  /\ AnswerEmpty(Live(Oldest(w, k)))
  /\ para' = [p \in Para |-> [para[p] EXCEPT !.timeout = @ \/ p \in Oldest(w, k)]]
  /\ free' = free \cup Oldest(w, k)
  /\ bid' = [bid EXCEPT ![worker[w].b].list = SelectSeq(@, LAMBDA p : p \notin Oldest(w, k))]
  /\ IF worker[w].msg = None THEN Return(w) ELSE Goto(w, "match")
  /\ UNCHANGED <<lost, wire>>

\* AdParaList.check: the oldest k are out of time; the first that is not
\* ends the walk
CheckList(w, k) ==
  /\ worker[w].pc = "check"
  /\ AnswerEmpty(Live(Oldest(w, k)))
  /\ para' = [p \in Para |-> [para[p] EXCEPT !.timeout = @ \/ p \in Oldest(w, k)]]
  /\ IF worker[w].msg = None THEN Return(w) ELSE Goto(w, "match")
  /\ UNCHANGED <<free, lost, bid, wire>>

\* local engines send the parameter's address back: AdParaList.del
MatchLocal(w) ==
  /\ worker[w].pc = "match" /\ worker[w].b \notin Remote
  /\ LET b == worker[w].b  p == worker[w].msg IN
     \/ /\ \E i \in DOMAIN bid[b].list :
             /\ bid[b].list[i] = p
             /\ bid' = [bid EXCEPT ![b].list = RemoveAt(@, i)]
        /\ worker' = [worker EXCEPT ![w].pc = "deliver", ![w].p = p]
     \/ /\ p \notin Listed(b)
        /\ Goto(w, "settle")
        /\ UNCHANGED bid
  /\ UNCHANGED <<para, free, lost, wire, reply, waiting>>

\* remote engines answer in order: AdParaList.pop, before the length is looked
\* at; pop reads the parameter from the node it has just erased, which still
\* holds it.  TlvPacketLen has no length for the rest of a split answer; for one
\* without a body it takes the byte behind the packet, whatever that is.  When
\* the length is not positive the parameter is dropped.
MatchRemote(w) ==
  /\ worker[w].pc = "match" /\ worker[w].b \in Remote
  /\ LET b == worker[w].b IN
     \/ /\ bid[b].list = <<>>
        /\ Goto(w, "settle")
        /\ UNCHANGED <<bid, lost>>
     \/ /\ bid[b].list # <<>>
        /\ bid' = [bid EXCEPT ![b].list = Tail(@)]
        /\ \/ /\ worker[w].msg # Rest
              /\ worker' = [worker EXCEPT ![w].pc = "deliver", ![w].p = Head(bid[b].list)]
              /\ UNCHANGED lost
           \/ /\ worker[w].msg \in {Rest, NoOffer}
              /\ lost' = lost \cup {Head(bid[b].list)}
              /\ Goto(w, "settle")
  /\ UNCHANGED <<para, free, wire, reply, waiting>>

\* mutant: a session is released only when the answer was in time
DeliverLateBusy(w) ==
  /\ worker[w].pc = "deliver"
  /\ LET p == worker[w].p
         b == worker[w].b
         msg == worker[w].msg
     IN
     /\ IF para[p].timeout THEN UNCHANGED <<reply, waiting, bid>>
        ELSE /\ \/ /\ msg # NoOffer
                   /\ Answer(p, IF b \in Remote THEN msg ELSE para[p].resp, b)
                \/ AnswerEmpty({p})
             /\ bid' = [bid EXCEPT ![b].active = IF @ > 0 THEN @ - 1 ELSE @]
     /\ free' = free \cup {p}
     /\ \/ Goto(w, "settle")
        \/ /\ msg = NoOffer
           /\ worker' = [worker EXCEPT ![w].pc = "match", ![w].p = None, ![w].msg = Rest]
  /\ UNCHANGED <<para, lost, wire>>

\* the answer goes out unless the empty one already has; in a remote engine's
\* cache the loop may go on behind an answer without a body, as with a rest
Deliver(w) ==
  /\ worker[w].pc = "deliver"
  /\ LET p == worker[w].p
         b == worker[w].b
         msg == worker[w].msg
     IN
     /\ IF para[p].timeout THEN UNCHANGED <<reply, waiting>>
        ELSE \/ /\ msg # NoOffer
                /\ Answer(p, IF b \in Remote THEN msg ELSE para[p].resp, b)
             \/ AnswerEmpty({p})
     /\ free' = free \cup {p}
     /\ \/ Goto(w, "settle")
        \/ /\ msg = NoOffer
           /\ worker' = [worker EXCEPT ![w].pc = "match", ![w].p = None, ![w].msg = Rest]
  /\ bid' = [bid EXCEPT ![worker[w].b].active = IF @ > 0 THEN @ - 1 ELSE @]
  /\ UNCHANGED <<para, lost, wire>>

\* the last size() and AdSessionSetTimeout(0)
Settle(w) ==
  /\ worker[w].pc = "settle"
  /\ IF bid[worker[w].b].list = <<>> THEN Goto(w, "untimer") ELSE Return(w)
  /\ UNCHANGED <<para, free, lost, bid, wire, reply, waiting>>

StopTimer(w) ==
  /\ worker[w].pc = "untimer"
  /\ bid' = [bid EXCEPT ![worker[w].b].timer = FALSE]
  /\ Return(w)
  /\ UNCHANGED <<para, free, lost, wire, reply, waiting>>

-----------------------------------------------------------------------------
(* The engine: AdRtbEngineLoop.  A local one reads the request and writes  *)
(* the response in the adapter's own parameter.                            *)

EngineTake(b) ==
  /\ wire[b].alive /\ wire[b].busy = None /\ wire[b].to # <<>>
  /\ LET m == Head(wire[b].to) IN
     wire' = [wire EXCEPT ![b].to = Tail(@), ![b].busy = m,
                          ![b].req = IF b \in Remote THEN m ELSE para[m].req]
  /\ UNCHANGED <<para, free, lost, bid, reply, waiting, worker>>

EngineAnswer(b) ==
  /\ wire[b].busy # None
  /\ para' = IF b \in Remote THEN para
             ELSE [para EXCEPT ![wire[b].busy].resp = wire[b].req]
  /\ \E packet \in IF b \in Remote THEN {<<wire[b].busy>>, <<wire[b].busy, Rest>>, <<NoOffer>>}
                   ELSE {<<wire[b].busy>>} :
       wire' = [wire EXCEPT ![b].busy = None, ![b].req = None,
                  ![b].from = IF bid[b].open /\ wire[b].alive THEN @ \o packet ELSE @]
  /\ UNCHANGED <<free, lost, bid, reply, waiting, worker>>

\* the engine's end closes
EngineCloses(b) ==
  /\ wire[b].alive
  /\ wire' = [wire EXCEPT ![b].alive = FALSE, ![b].to = <<>>]
  /\ UNCHANGED <<para, free, lost, bid, reply, waiting, worker>>

-----------------------------------------------------------------------------
WorkerStep(w) ==
  \/ FindBid(w) \/ CheckBid(w) \/ CheckSize(w) \/ Commit(w) \/ Push(w)
  \/ Write(w) \/ Refuse(w)
  \/ \E b \in Bid : TakeEvent(w, b)
  \/ SortEvent(w) \/ ClearList(w) \/ DropBid(w)
  \/ \E k \in 0 .. Cardinality(Para) : CheckList(w, k)
  \/ MatchLocal(w) \/ MatchRemote(w) \/ Deliver(w) \/ Settle(w) \/ StopTimer(w)

Next ==
  \/ \E w \in Workers :
       \/ \E r \in Request : TakeRequest(w, r)
       \/ \E b \in Bid : Register(w, b)
       \/ WorkerStep(w)
  \/ \E b \in Bid : ReadEvent(b) \/ Unregister(b)
  \/ \E b \in Bid : EngineTake(b) \/ EngineAnswer(b) \/ EngineCloses(b)

Spec == Init /\ [][Next]_vars

(***************************************************************************)
(* Threads keep running and the server thread passes on what arrives and   *)
(* what times out; the READ queues are first in, first out, so that no     *)
(* session's messages are passed over for ever; time passes, so that a     *)
(* list looked at again and again is out of time once.  Nothing is assumed *)
(* of the engines: one may never answer.                                   *)
(***************************************************************************)
Fairness ==
  /\ \A w \in Workers :
       /\ WF_vars(WorkerStep(w))
       /\ \A b \in Bid :
            /\ SF_vars(TakeEvent(w, b))
            /\ SF_vars(worker[w].b = b /\ CheckList(w, Cardinality(Para)))
  /\ \A b \in Bid : WF_vars(ReadEvent(b)) /\ WF_vars(Unregister(b))

FairSpec == Spec /\ Fairness

-----------------------------------------------------------------------------
Sound == \A b \in Bid : bid[b].open

PC == {"idle", "find", "ok", "size", "commit", "push", "write", "refuse", "bid",
       "check", "match", "deliver", "settle", "untimer", "clear", "drop"}

\* what goes to an engine and names the request there
Sent(b) == IF b \in Remote THEN Request ELSE Para

ParaState == [req : Request \cup {None}, timeout : BOOLEAN, resp : Request \cup {None}]

BidState ==
  [open : BOOLEAN, reg : BOOLEAN, ptr : BOOLEAN, deleted : BOOLEAN, list : Seq(Para),
   timer : BOOLEAN, active : Nat, watched : BOOLEAN, events : 0 .. MaxEvents]

WireState(b) ==
  [alive : BOOLEAN, to : Seq(Sent(b)), from : Seq(Message), busy : Sent(b) \cup {None},
   req : Request \cup {None}]

ReplyState == [n : Nat, from : Message \cup {None}, by : Bid \cup {None}]

WorkerState ==
  [pc : PC, p : Para \cup {None}, b : Bid \cup {None}, msg : Message \cup {None}, left : Nat]

(* Every variable has its type. *)
TypeOK ==
  /\ para \in [Para -> ParaState]
  /\ free \subseteq Para /\ lost \subseteq Para
  /\ bid \in [Bid -> BidState]
  /\ DOMAIN wire = Bid /\ \A b \in Bid : wire[b] \in WireState(b)
  /\ reply \in [Request -> ReplyState]
  /\ waiting \in [Request -> Nat]
  /\ worker \in [Workers -> WorkerState]

\* before the request is on a list
Asking(w) == worker[w].pc \in {"find", "ok", "size", "commit", "push", "refuse"}

\* the parameter that worker w owns
Held(w) == IF Asking(w) \/ worker[w].pc = "deliver" THEN {worker[w].p} ELSE {}

\* what a worker's step needs is there
WorkersReady ==
  \A w \in Workers :
    /\ worker[w].pc \notin {"idle", "find", "refuse"} => worker[w].b \in Bid
    /\ Asking(w) \/ worker[w].pc \in {"write", "deliver"} => worker[w].p \in Para
    /\ worker[w].pc = "write" => para[worker[w].p].req \in Request

(* A parameter has one home: the pool, one place on one list, one worker,  *)
(* or it is lost.  Whoever answers, times out or clears takes it from      *)
(* there once.                                                             *)
OneHome ==
  /\ \A p \in Para : \/ p \in free \cup lost
                     \/ \E b \in Bid : p \in Listed(b)
                     \/ \E w \in Workers : p \in Held(w)
  /\ free \cap lost = {}
  /\ \A b \in Bid :
       /\ IsInjective(bid[b].list)
       /\ Listed(b) \cap (free \cup lost) = {}
       /\ \A c \in Bid \ {b} : Listed(b) \cap Listed(c) = {}
  /\ \A w \in Workers :
       /\ Held(w) \cap (free \cup lost) = {}
       /\ \A b \in Bid : Held(w) \cap Listed(b) = {}
       /\ \A v \in Workers \ {w} : Held(w) \cap Held(v) = {}

(* The worker with the answer, the one that sees the timeout and the one   *)
(* that clears the list race for a request: it is answered at most once,   *)
(* and its session is released exactly when it is.                         *)
AnsweredOnce == \A r \in Request : waiting[r] + reply[r].n <= 1

(* A parameter that is out of the pool stands for a request of its own,    *)
(* and is marked as timed out exactly when that request has had the empty  *)
(* answer; until it is on a list nobody marks it.                          *)
TimeoutIsAnswer ==
  /\ \A p \in Para \ free :
       /\ para[p].req \in Request
       /\ reply[para[p].req].n = (IF para[p].timeout THEN 1 ELSE 0)
       /\ waiting[para[p].req] = (IF para[p].timeout THEN 0 ELSE 1)
       /\ \A q \in Para \ free : para[p].req = para[q].req => p = q
  /\ \A w \in Workers : Asking(w) => ~para[worker[w].p].timeout

DispatchInv == TypeOK /\ WorkersReady /\ OneHome /\ AnsweredOnce /\ TimeoutIsAnswer

(* As long as no bid session broke: what an exchange gets from a local     *)
(* engine is the answer to its own request...                              *)
OwnAnswer ==
  Sound => \A r \in Request :
    reply[r].by \in Bid \ Remote => reply[r].from = r

(* ... and its session is active once for its registration and once for    *)
(* every request outstanding on it.                                        *)
ActiveCounts ==
  Sound => \A b \in Bid \ Remote :
    bid[b].active =
      (IF bid[b].reg THEN 1 ELSE 0) + Len(bid[b].list)
        + Cardinality({w \in Workers : worker[w].b = b /\ worker[w].pc \in {"push", "deliver"}})

(* Every request taken is answered while the connections hold and no split *)
(* answer of a remote engine drops a parameter: if the engine does not     *)
(* answer, the session's timeout keeps a worker coming back to the list.   *)
EveryRequestAnswered ==
  [](lost = {} /\ \A b \in Bid : wire[b].alive) =>
    \A r \in Request : waiting[r] > 0 ~> waiting[r] = 0

=============================================================================
