# AdRtbAdapter in TLA+

The adapter sits between ad exchanges and bidding engines. An exchange sends a
bid request over HTTP; the adapter converts it, gives it to one bidding engine
and must send an answer back within a few milliseconds, an empty one when the
engine is late. The engines are threads of the same process (*local*, connected
over the loopback interface) or other processes (*remote*). Everything runs on
a network library of the repository's own, `libnet`, in which one server thread
owns libevent and any number of worker threads read, run the application's
handler and write.

Two things are hard here. Session objects, file descriptors and request
parameters are recycled by threads that share them through ring buffers and
through fields nobody locks; and a bid is the work of sixteen filters, a ranking
and a builder that agree on keys, bits and prices only by convention, while the
orders and the budgets change under them. The models are about these two; the
properties are about what must survive.

## 1. Inventory

Paths are relative to `src/`.

| Component | State | Operations | Interacts with | Hard part |
|---|---|---|---|---|
| Ring buffers and locks: `libutil/inc/AdBuff.h`, `AdLock.h` | slots, two positions, up to two mutexes with condition variables | push, tryPush, pop, pop(ms), tryPop, wait, wake | every queue and pool below | the two sides share positions without a common lock; signals are sent without the mutex |
| Ping-pong buffer: `AdBuff.h` | two copies and an index | Get, GetBack, Switch | planning data, filters, methods | readers keep references into a copy that is written again two switches later |
| Network base: `libnet/src/AdNetBase.cpp`, `AdSession.cpp`, `AdEvent.cpp`, `inc/AdNetTask.h` | session maps, close list, free list, event registration; per session: sockets, use count, send list, timeout | accept, control round, arming of writes, delayed delete; read, write, close, delayed write | workers through the READ queues, the write task through the WRITE queue, back through the control queue | objects and descriptors are recycled while others hold them |
| TCP clients: `libnet/src/AdClient.cpp` | client sessions, servers to reconnect to | create, reconnect | network base (new-session queue) | retry after failure, lock order |
| Packet assembly: `AdSession.cpp` | packet length, bytes read | AdSessionCompletePacket | application's length function | packets split and merged by TCP |
| Bid dispatch: `adapter/AdAdapter.cpp`, `inc/AdParaList.h` | pool of parameters, one list of outstanding parameters per engine connection, timers | Run for a request, for an answer, for a timeout, for a broken connection | exchanges, engines, network base | late answers, timeouts and breaks race for one parameter |
| Engine: `ibidding/engine/src/AdRtbEngine.cpp`, `AdPlanningData.cpp` | planning units, prices, bans in two copies | bidding loop, update every five seconds | dispatch over a connection, filters | update with several sources that fail one by one, while bidding goes on |
| Filters: `ibidding/filter/` | inverted indexes in two copies, one map of real-time entries | AddData, init, match; spend reports from a multicast socket | engine | sixteen filters must agree on bits and keys; they outlive the units they point to; the real-time entries are shared by rounds, reports and bids |
| Ranking and building: `AdRtbDealRank.cpp`, `AdRtbEngineRun` | none | choose an order, its price and its material | engine | a weighted draw over ties; the material is looked up again after the filters |
| Internal protocol and remote process: `libtlv/`, `ibidding/src/` | packets of keyed fields | encode, decode, bid | dispatch, filters | what is not written, not known or too long is lost in silence |
| Control: `control/src/AdControl.cpp`, `libutil/inc/AdTask.h` | task table with loop counters | watchdog, recreate, debug port | every thread | a thread that is slow, not dead, is cancelled |
| Exchange adapters: `adx/` | none | convert a request, convert an answer | dispatch | formats |
| Log, Kafka, Avro, Redis, configuration, tools, test exchange | | I/O | | out of scope |
| `libjson`, `libconhash`, `libextern`, `*.pb.*` | | | | third-party or generated |

The correctness of each, in a sentence:

* ring buffers: a bounded first in, first out queue; nobody sleeps for ever
  beside an element or a free slot;
* network base: a descriptor belongs to the session the maps name, a session is
  recycled only when nobody holds it, a new connection inherits nothing, a
  broken connection is noticed, delayed writes go out, closed sessions come back;
* bid dispatch: every request gets exactly one answer, its own; a parameter has
  one owner; a connection counts its outstanding requests;
* engine: a reader sees one generation of the data, complete; no filter points
  to a unit that is gone (it may: `engine_stale`);
* filters: an order passes exactly when its fields suit the request and nothing
  bans it; an order that is out of budget, out of its hours or not reported does
  not bid, but for the window a midnight opens;
* ranking: what is offered is worth its price, may be shown and can be built;
* internal protocol: a remote engine judges the request the adapter has, and the
  adapter gets the offer the engine made;
* packet assembly: what comes out is what went in, whatever TCP does to it;
* reconnect and watchdog: what failed is tried again, what runs is left alone.

## 2. Modules

| Module | Models | Proved |
|---|---|---|
| `BoundedQueue` | what a ring buffer promises: a queue of at most `Capacity` elements | |
| `RingBuffer` | the four ring buffers, one shared memory access or lock operation per step | |
| `RingBufferProofs` | | `RingInvariant`, `LocksAreHeld`, `StoresAreOutside`, `LoadsAreHeads`, `RingIsQueue` |
| `Recycling` | what libnet promises of its session objects: one descriptor at a time, and another only when nobody has the object | |
| `NetBase` (`MCNetBase`: symmetry) | sessions, descriptors, server thread, workers, write task | |
| `NetBaseProofs` | | `SessionsAreSound`, `ConnectionsStartClean`, `SessionsAreRecycled` |
| `Dispatch` (`MCDispatch`: symmetry) | dispatch of requests, answers, timeouts, breaks | |
| `DispatchProofs` | | `DispatchInvariant`, `OwnAnswers`, `ActiveCounted` |
| `EngineUpdate` | the engine's update of its data while it bids | |
| `EngineUpdateProofs` | | `EngineInvariant`, `OrdersNotMissed`, `PidsAreLive`, `FiltersLoseUnbuilt`, `BidsAreSafe` |
| `RealTime` (`MCRealTime`: values) | the entries of the real-time filter: rounds, spend reports, midnights | |
| `RealTimeProofs` | | `TypeCorrect`, `UncheckedIsUnderway`, `OkIsHeld`, `ReportsAdmit` |
| `Filters` | the filters built from the orders alone, as operators | |
| `Bidding` (`MCBidding`: values) | one bid from request to offer: filters, ranking, material | |
| `BiddingProofs` | | `FiltersSuit`, `BuildSucceeds`, `OffersAllowed`, `OffersWorthIt`, `MarksMet` |
| `LiveBidding` (`MCLiveBidding`: values) | `RealTime` and `Bidding` together | |
| `LiveBiddingProofs` | | `OffersScheduled`, `BidsChecked` |
| `Remote` (`MCRemote`: values) | a bid of a remote engine behind the internal protocol | |
| `RemoteProofs` | | `RemoteInvariant`, `RemoteFiltersSuit`, `RemoteOffersFit`, `AnswersAreOffers` |

### RingBuffer

The four classes are one algorithm with or without a lock on each side;
`WriteLock` and `ReadLock` choose the class. `slots`, `readPos`, `writePos` are
`m_vRing` and the two positions; a thread's program counter stands for its
place in push or pop. A push is `StartPush`, `LockWriteSide`, `CheckFull`,
`StoreSlot`, `AdvanceWrite`, `WakeReader`; when the ring is full and the call
blocks, `PushWait`. The test of the ring and the wait are two steps since
`wake()` takes no mutex: a signal between them is lost. The readers mirror this,
with `PopTimeout` for `pop(ms)`.

The side without a lock must have one thread; `RingAssumption` says so, and
that blocking `pop` is never used with a locked reader side, because there it
calls itself under its own mutex (`AdBuff.h:149`). Stores become visible in
program order: the build is unoptimised and for x86-64.

The abstract specification is `BoundedQueue`; the refinement mapping reads the
queue off the slots between the two positions (`QueueSpec`).

### NetBase

`net` is what only the server thread touches: the read and write maps, the
events registered with libevent, the close list and the free list. `ses` are
the session objects, which every thread touches. `control`, `readQ` and
`writeQ` are the queues between the threads, each a sequence since `RingBuffer`
shows that they are queues. `server` is the place in `AdNetBaseLoop`:

    LoopBegin -> ControlMessage* -> ControlEmpty -> ActivateWrites
              -> DeleteNext* -> DeleteEnd -> one event or NoEvent -> LoopBegin

The delayed delete walks `closing`, oldest first, one entry per step: `due` is
how many entries are old enough (`LoopBegin` reads the clock, so it only grows
there), `next` is the iterator. Workers run between two entries.

A worker takes a session from `readQ`, reads it, reports a failure on
`control`, runs the application (which answers, sets a timeout or does
nothing), and gives its reference back. The write task takes a session from
`writeQ` and tries the front of its send list. A session's lock matters only
while the write task sends (`Unlocked`), since that is the only call that keeps
it over something another thread can see.

Descriptors are numbers the kernel uses again at once: a worker closes a socket
and `accept` may return the number before the server heard of it.

Assumption `NoGapRace`: between the last look at `control` and the delayed
delete of a round, no worker both reports a closed session and gives it back.
The code has nothing that prevents this, only the two seconds of delay. Without
the assumption `NetInv` fails: the old report is handled after the object has
been recycled, and it is put on the free list twice. The hazard list has it
(`AdNetBase.cpp:455`).

The abstract specification is `Recycling`: a session serves a descriptor, its
connection is over, threads take it and let go, and only when none has it is it
used for another connection. The refinement mapping (`RecyclingSpec`) reads the
lines off the read map, what is over off the close list, and who has a session
off the three queues, the workers and the write task (`Held`); the counter, the
lists of unused objects, events and timeouts are gone.

### Dispatch

`para` and `free` are the parameters and their pool, `bid` the engine
connections with their lists, `wire` the two directions of each connection and
the engine at its end, `reply` and `waiting` what the exchanges see. A worker
that runs a request goes

    TakeRequest -> FindBid -> CheckBid -> CheckSize -> Commit -> Push -> Write

with `Refuse` as the way out, and one that handles a READ message of an engine

    TakeEvent -> SortEvent -> CheckList
              -> MatchLocal | MatchRemote -> Deliver -> Settle -> StopTimer
    TakeEvent -> SortEvent -> ClearList -> DropBid            (broken)

Each arrow is a point where the lock of a list is released or a field of the
session is used without one. `CheckList(w, k)` finds the `k` oldest parameters
out of time. A local engine answers with the address of the parameter and
writes the answer into it, so `EngineAnswer` writes to `para` without a lock;
a remote one answers in order, and its answer may come in two pieces (`Rest`) or
have no body at all (`NoOffer`). `TlvPacketLen` (`AdRtbNetProtocol.cpp:264`)
reads the length one byte too far, so for a packet that ends with its head it
takes whatever the buffer holds behind it: both outcomes are in `MatchRemote`.
Remote engines are the alternative when no local one is registered, and the
first choice for debug users (`Debug`).

`Listed(b)` is the list of a connection as a set; `Asking(w)` and `Held(w)` say
what a worker owns between taking a parameter from the pool or a list and
giving it away. A parameter is at home in the pool, in one place on one list,
with one worker, or lost (pushed on a deleted list, or dropped with a split
answer).

### EngineUpdate

`unit` is what the two copies of `AdPlanningData::m_mData` hold, reduced to
where their pointers lead; `front`, `price` and `shown` are the copies in front
of the three ping-pong buffers (units, advanced prices, filters), and `filters`
the units that each copy of the filters points to. A pointer into a copy that
has been cleared since is `Gone`. `redis` says what the next look at
`exec:timestamp` will tell. The update thread goes

    RoundBegin -> NewTimestamp -> ClearBack -> Switch
                    -> ClearPrices -> AttachPrices -> ClearPids
    RoundBegin -> SameTimestamp  ------------------> ClearPids
    ClearPids -> AttachPids -> ConfigRead -> FiltersClear -> FiltersUpdate

and each step that reads Redis or a file has a way to fail, which ends the
round (`Return`) and leaves everything as it is at that point: `Switch` may
switch and fail. `Reinit` is `AD_RTB_ENGINE_REINIT`, after which
`AdAdapterUpdate` begins another round without the five seconds between rounds.
The first round is over in `Init`, since the threads are created after it and
the process ends when it fails. A bid is `BidStart` (the reference to the
filters in front, and what they point to), `BidRank` (units and prices),
`BidEnd`; it takes no lock.

The remote process (`AdRtbMain.cpp`) runs the same rounds, one second apart;
its update thread ends for good when a round after `Reinit` fails.

Nothing is assumed of when orders change (`Publish` at any step) or of how long
a bid lasts. Copies are cleared in turn, so a bid that was under way when a
round ended (`old`) and still is when the next one clears, five seconds later,
may lose the filters it walks through; the properties say what holds for the
other bids. Which filters lose their units, and when, is `LostOnlyUnbuilt`, and
that they do is the finding of `engine_stale`.

Orders and their timestamp are taken to change together; the process that
writes them is not in this repository.

### RealTime

All other filters are built anew on a back copy; `AdFilterRealTime` is one
object for all rounds and bids. `info` is its map of entries, `lastDay` the
weekday it was filled for, `update` the thread that adds orders:

    RoundBegin -> (AddBegin -> AddStore)* -> RoundEnd | RoundFail

`AddData` looks at the weekday, empties the map when it changed and takes the
lock again for the entry, hence two steps per order. `Report` is a datagram
about any order, in any order, lost or repeated; `Reported` is the arithmetic of
`AdFilterRealTimeUpdate` with its subtraction in 32 bits (`Word`) and its
division by the hours left. `Tick` lets time pass; a day is long (`Tick` waits
at a midnight until the last one's damage is mended, which the five seconds of a
round give).

### Filters, Bidding

An order is a record of the fields the filters look at, a request likewise.
Nine filters are inverted indexes: `Keys(f, o)` is what `AddData` files an order
under, `Asked(f, q, now)` what `match` looks up; `Match` is the order's set of
bits, `Parameter` the comparison with the mask of the kind of flow, `Banned` the
three filters that take out. `MarkMatch` is `AdFilterMark` with its keyword tree
(`Tree`, where an empty keyword clears what was added before) and its audiences
(`AudienceFits`, where several audiences of one order share bits). What the code
formats as a string is a tuple of what goes into it, so that equal strings are
equal tuples.

A bid is `BidStart` (the filters up to the real-time one), `BidRealTime`,
`BidMark` (after the user cache answered), `BidRank` (`AdRtbRankChoice`, then
`AdRtbEngineBuild`), `BidEnd`, with `BidLate` where the bid's time is looked at.
`RandWet` is which places the weighted draw can fall on, with the slots the
float arithmetic gives; which one, and which of equal materials, is left open.

### LiveBidding

The composition: `BidStart` takes the orders shown at that moment and the time
of the clock, `BidRealTime` the entries there are when it is reached, and
everything of `RealTime` happens in between.

### Remote

`EncodeRequest` and `EncodeResponse` write the fields in the order of the code,
skip empty ones, count what they wrote (`flow` twice, as the code does) and give
up when there is no room; `Decode` keeps the fields its parser has a key for. A thread's `sent` is
the request as the adapter has it, the bid's own `q` what came out of the
packet, `answer` the response as the adapter has it. The compression is
external; it gives back no more than `UnpackMax` bytes.

## 3. Runs

| Run | Question | Result |
|---|---|---|
| `ring_worker` | is the worker queue (one writer, one reader with a timeout) a queue, and is it drained | holds |
| `ring_shared` | are the two locks enough for pools shared by several threads, is a sleeping pusher woken | holds |
| `net_safe` | recycling of sessions and descriptors with two workers, three sessions, two numbers, and that it refines `Recycling` | holds |
| `net_live` | delayed writes, broken connections, recycling, under fairness | holds |
| `dispatch_mixed` | two workers, a local and a remote engine, connections break anywhere | holds |
| `dispatch_live` | is every request answered though engines may be silent | holds, with one worker |
| `engine_update` | when can bids lose what they read, and do new orders reach them, whatever fails and whenever orders change | holds |
| `engine_stale` | do the filters in front always have their units | violated: a failed update leaves them on units that the next one deletes |
| `realtime_day` | do the real-time entries follow the orders over two days with failing rounds, any reports and midnights | holds |
| `bidding` | do the filters find what suits, and is an offer allowed, buildable, worth its price and for the right user | holds |
| `live_bidding` | the same real-time entries as a bid sees them that began before a round or a midnight | holds |
| `remote` | does a remote engine bid on the request the adapter has, and is its offer what the adapter gets | holds |

The violation is a finding about the code, against its own comments;
`PROJECT.json` quotes them.

### Properties

* `RingInv`: types, locks held, a store is outside the queue, a load is its
  head, every queued slot holds an element.
* `NetInv`: types; `MapsAgree`, the four maps of the server agree with the
  sessions; `ReferencesAreCounted`, `m_uiActive` covers the READ and WRITE queues
  and the threads that hold the session; `OneHome`, a session is registered, on the
  close list, on the free list or not allocated, and listed once;
  `UnusedIsClean`, one that waits for reuse is closed, unused, and in no queue;
  `GapIsInUse`, whoever reports a closed session after the server's last look
  at the reports keeps it in use past the delayed delete.
* `StartsClean`: nothing of the last connection is left when a session gets a
  new one.
* `RecyclingSpec`: the network base implements `Recycling`. Beyond `NetInv` it
  is about steps: no session goes from one connection to another without the
  close list between them, or leaves that list while a queue or thread has it,
  and nobody gets hold of one except through a descriptor it serves.
* `LeftoverIsTried`, `BrokenIsUnregistered`, `ReadSessionsAreRecycled`: what a
  delayed write left over is taken up again, a broken connection leaves the
  maps, a session that never had a delayed write comes back.
* `DispatchInv`: types; `WorkersReady`, what a worker's next step needs is there;
  `OneHome`, a parameter is in exactly one place; `AnsweredOnce`, a request has
  one answer, and its session is released exactly then; `TimeoutIsAnswer`, a
  parameter out of the pool stands for a request of its own and is marked
  exactly when that request has had the empty answer.
* `OwnAnswer` and `ActiveCounts` are for local engines while no connection of
  an engine broke (`Sound`). Beyond that the code does not provide them
  (section 5).
* `EngineInv`: types; `Pending`, orders are loaded only while they are
  newer than the last; `Loaded`, the units in front are the last ones when the
  timestamps agree; `Priced`, no unit points to prices that were cleared;
  `Listed`, the pids are complete while filters are built from them; `Bidding`,
  a bid of this round walks the filters in front.
* `FiltersHoldLiveUnits` (`engine_stale` only, where it is violated): the filters
  in front point to units that exist. `LostOnlyUnbuilt` bounds the damage: a step
  takes their units away only when it loads newer orders although no round has
  built filters since the units switched. `BidsReadLiveData`: a bid not under
  way when the last round ended walks filters that exist, and has its units as
  long as the filters in front have theirs; no bid reads cleared prices.
  `BuildReadsLivePids`: filters are not built from cleared pids.
* `NoOrderMissed`: a round that fails after it recorded the timestamp does not
  make the engine forget orders. `OrdersReachBids`: once the orders stay as they
  are, and if rounds succeed again and again, the filters in front come to be
  made from the last orders.
* `UnknownIsUnderway`: an order without an entry passes the real-time filter
  unchecked; that happens only for what the round since midnight is still to
  add, for orders no longer there, and when midnight fell into a round's adds.
  `UncheckedEnds`: the window closes. `OkFollowsOrders`: whoever made or changed
  an entry last, an order that is OK is held to the budget and hours of the last
  round's weekday. `OnlyReportsAdmit`: no round and no passing of time lets an
  order bid that could not.
* `ResultSuits`: nine indexes, bits and a mask find exactly the orders that the
  planner's fields describe (`Suits` is written without keys and bits).
  `OfferCanBeBuilt`, `OfferIsAllowed`, `OfferIsWorthIt`, `MarksAreMet`: what
  comes after, which looks at orders again and knows nothing of the filters,
  keeps what they promised. `OfferIsAllowed` is about categories, kinds of
  material, places and TanX's rules, not about landing pages (section 5).
* `BidsAreChecked`, `OfferIsScheduled`: the same across threads: the orders of
  one moment, the entries of a later one, the offer of a still later one.
* `RemoteSuits`, `OfferFitsRequest`, `AnswerIsOffer`: if a packet arrives whole
  (`Arrives`), the far side works on what the near side meant. `RemoteSuits` is
  for orders for all areas, since the area is not sent (section 5).

### Bounds, and why they are enough

* Rings of 3 or 4 slots (2 or 3 elements): full, empty and wrapped positions
  occur, with two values to tell order. Two threads on a locked side show any
  race between two; the locks are symmetric beyond.
* Three sessions and two descriptors (`net_safe`): one session on the close
  list, one on the free list and one connected at the same time, and the number
  of a closed one in use again. `MaxQueue = 1` keeps one message per queue in
  flight besides those the workers hold. `MaxActive` counts one more than the
  queue and the workers can hold: a count that high stands for "that many or
  more" and never falls, which only the write task's missing `AdSessionIdle`
  reaches.
* Two requests, two parameters, two workers and two engines (`dispatch_mixed`):
  the pool runs dry, two requests meet on one list, each engine is chosen and
  breaks. `MaxEvents = 1` READ message per connection is in the queue while
  the workers handle others.
* One bidding thread (`engine_update`, `engine_stale`): bids only read, write
  nothing another bid reads, and may begin and end at any point of a round.
  Nothing else in `EngineUpdate` is bounded: it has no counter. The theorems are
  for any number of threads.
* Two orders, two weekdays of two hours and reports for each hour with nothing
  or all spent (`realtime_day`): a midnight before, between and after the adds
  of a round; an order that loses its schedule, one that is in some books only;
  budgets that are zero, spent and not spent; `Word = 8` is the UINT of the
  difference. `UsingTime = 1` makes an entry old in two ticks. All are data of
  the orders, so that theorems replace them by any.
* `bidding` goes through orders that differ from a plain one in each field a
  filter or the ranking looks at, and requests likewise, so that every key,
  list, ban, mark, kind of flow and branch of the draw occurs; one thread, for
  bids share nothing here. What several fields do together is left to the
  theorems.
* `live_bidding`: one bid beside everything `RealTime` does with two orders.
* `remote`: seven orders and twelve requests that use every field of the packet,
  two of them with texts longer than `UnpackMax`, and answers longer than it.
  `MaskBits = 1` bit for the conditions of an audience, instead of 32, so that
  one of them is left out.
* Symmetry is used in the safety runs only.
* Deadlock is not looked for in `Dispatch`: when every request is answered and
  nothing is registered the system may stop. The other modules never do.

### Fairness

* Kernel scheduling: a thread that can step does (weak fairness per thread).
  Readers call pop again for ever, as the loops of `AdNetTask.h` do; nobody is
  obliged to push.
* Time: strong fairness of `LoopBegin(k)` and of `CheckList` finding the list
  out of time, for what is looked at again and again is old once.
* `SF(TaskSend)` and `SF(WriteEvent)` in `net_live`: the peer makes room again
  and again. Events are edge triggered (`EV_ET`, `AdEvent.cpp:114, 164`) and
  those for writing come once (no `EV_PERSIST`), but `AdNetBase.cpp` registers
  the descriptor anew for every delayed write (`AdEventModify` deletes and adds
  it), which reports a socket that has room already; room made later is an edge.
* `SF(TakeEvent)`: READ queues are first in, first out.
* `RealTime`: weak fairness of the update thread, and strong fairness of
  `RoundEnd`: rounds succeed again and again. Nothing is assumed of reports.
* Nothing is assumed of the engines: one may never answer. Nor of Redis:
  `OrdersReachBids` has as its premise that rounds end well again and again.

## 4. What is proved

`RingBufferProofs`, for every size `N >= 2`, every set of elements and every
mix of locks and threads that `RingAssumption` admits:

* `RingInvariant`: `Spec => []RingInv`. The property readers of the code care
  about, that a store never hits the queue and a load always hits its head, is
  not inductive alone. Three things are added: each thread between lock and
  unlock owns the mutex (`LocksHeld`), so at most one is inside each side
  (`OneInside`, where a side without a lock has one thread by assumption);
  types; and that every slot between the positions holds an element
  (`QueuedAreElements`), without which the element loaded could be anything.
  The argument for the unlocked test: only the writer side makes a ring fuller
  and only the reader side emptier, so `~Full` seen by the only writer inside
  survives every reader's step, and the other way round. `LocksAreHeld`,
  `StoresAreOutside` and `LoadsAreHeads` are its parts that runs name.
* `RingIsQueue`: `Spec => QueueSpec`. `AdvanceWrite` maps to `Put` of the
  element stored, `AdvanceRead` to `Take`, every other step to a stutter. The
  lemmas on `Following`, `Size` and `SlotOf` do the arithmetic modulo `N`.

`NetBaseProofs`, for any number of descriptors, finitely many sessions and
workers, and queues of any length, under `NoGapRace` (the proof needs it in one
place, `WorkerDoneStep`, exactly where the counterexample is):

* `SessionsAreSound`: `Spec => []NetInv`. A reader cares about `MapsAgree` and
  about a recycled session being nobody's. Neither is inductive alone: that a
  session is clean when it gets to the free list needs that its count covers
  every holder (`ReferencesAreCounted`); that it stays clean there needs that
  nobody comes to hold it again, and the only ways to it are the maps, so it
  must not be registered (`OneHome`); and a report nobody has read yet is not
  counted at all, which is why `GapIsInUse` is needed. `References` counts
  places in `readQ` and workers; `RefsAppend`, `RefsTake` and `RefsDone` say how
  an append, a take and a release move it. Steps are grouped by what they do:
  `UseStep` (one thread works on a session it holds), `QuietStep` and
  `SameServer` (the maps stay), `CloseKeeps` (a session moves to the close
  list), `RegisterKeeps`, `DeleteStep`; `AcceptStep` combines three of them.
* `ConnectionsStartClean`: `Spec => StartsClean`. Only `AcceptEvent` connects
  (`OnlyAcceptConnects`), and what it connects was `Unused`.
* `SessionsAreRecycled`: `Spec => RecyclingSpec`. The steps of the invariant's
  proof also say what they do to the read map and the close list (`Closes`,
  `Opens`, `Recycles`); `AcceptEvent` maps to `Open`, a report of a broken
  session to `Close`, `DeleteNext` to `Recycle` or a stutter, the two events to
  `Use`. Every step of a worker or of the write task handles one session it
  holds (`WorkerHandles`, `TaskHandles`), and so is a `Release` of it or a
  stutter (`ReleaseStep`): `HandlesOnly` is the frame, which leaves every other
  session held or free as it was. That `Recycle` finds nobody with the session
  is `ReferencesAreCounted` and `GapIsInUse` again.

`DispatchProofs`, for any number of requests, parameters, engines (finitely
many, local or remote) and finitely many workers, with connections that break
at any point:

* `DispatchInvariant`: `Spec => []DispatchInv`. `AnsweredOnce` is what a reader
  cares about; it is not inductive, because who answers does not look at the
  request but at the parameter's mark. `TimeoutIsAnswer` ties the two together
  for every parameter out of the pool (on a list, with a worker, or lost), and
  needs that no two of them stand for one request, which in turn needs
  `OneHome`: whoever frees a parameter is its only home. The list operations
  are lemmas about sequences as sets (`AppendFact`, `TailFact`, `RemoveFact`).
  Each step is then summed up by what it does to homes and marks (`AskFact`,
  `PushFact`, `RefuseFact`, `ClearFact`, `CheckFact`, `MatchFact`,
  `DeliverFact`; everything else is `LookFact` or `OutsideFact`), and the parts
  of the invariant are proved over these sums, not over the actions.

In the same module, on top of it and for steps that leave every bid session
open:

* `OwnAnswers`: `Spec => []OwnAnswer`. A local engine is sent a parameter's
  address and sends it back, so the invariant (`OwnInv`) follows the address: it
  is on the connection to the engine (`To`), in the engine (`Busy`), on the
  connection back (`From`), or with a worker that will write it or has read it
  (`Carried`), in one of these at most, and its parameter is on the session's
  list meanwhile (`OnePlace`). What is on the way back carries the response to
  its own request (`Answers`), and so does what a worker delivers (`Delivers`).
  Lists are neither cleared nor deleted (`Whole`); that an open session was open
  before is `SoundKept`. A timed-out parameter stays on the list, which is what
  keeps it from being used again under an engine that still has its address.
* `ActiveCounted`: `Spec => []ActiveCounts`, with the number of workers between
  `AdSessionActive` and `push`, or `del` and `AdSessionIdle`. That `AdSessionIdle`
  never finds 0 is part of it, so its test loses nothing (`CountMoves`).

`EngineUpdateProofs`, for any number of bidding threads:

* `EngineInvariant`: `Spec => []EngineInv`. None of the properties is inductive:
  that the units in front are the last ones needs to know that a load under way
  saw the last orders unless the timestamp changed again (`Loaded`); that no
  price is cleared under a unit needs that a unit freshly switched in has none
  (`Priced`); that a bid of this round keeps its filters needs that it walks the
  ones in front (`Bidding`). Six lemmas, one per conjunct, each with a step per
  action.
* `OrdersNotMissed` and `PidsAreLive`: `NoOrderMissed` and `BuildReadsLivePids`
  follow.
* `FiltersLoseUnbuilt`: `Spec => LostOnlyUnbuilt`. Only `ClearBack` makes a
  pointer `Gone`; every other step leaves what is shown alone (`ShownKept`) or
  shows what it has just built.
* `BidsAreSafe`: `Spec => []BidsReadLiveData`, from `Bidding` and `Priced`.

`RealTimeProofs`, for any orders, reports and length of day and week
(`RealTimeAssumption`):

* `TypeCorrect`: the divisor is never zero where the code divides, and what is
  subtracted is never more than what it is taken from.
* `UncheckedIsUnderway`, from `Filed`: what the round under way has added has an
  entry, unless the map was emptied since, which marks the round `late`.
* `OkIsHeld`, from `Held`: an entry carries what `Added` gave it for the
  weekday of the last round, or is fresh and cannot be OK under a schedule.
* `ReportsAdmit`: an action property, from the types alone.

`BiddingProofs`, for any orders that are `Planned` and requests that are
`Legible` (`BiddingAssumption`: no key that stands for "all" as a plain value,
prices are numbers, an exchange has its creative group for all or none of its
materials; marks, audiences and crowd categories are sequences of some length):

* `FiltersSuit`, `BuildSucceeds`, `OffersAllowed`, `OffersWorthIt`, `MarksMet`. The
  invariant `BidInv` carries along a bid that its result is a part of what
  `StaticMatch` gave, and its offer is of the result. The lemmas behind it are
  about the indexes: `Keys` and `Asked` of each filter meet exactly when the
  order's field suits the request (`ParameterSuits`, one step per filter), and
  about the draw (`StrategyFact`): the place drawn is one of the first three by
  price, whatever the weight.
* `MarksMet` is about a fold: what the marks of a user contain is carried from
  one mark to the next until a mark has a fitting keyword (`Matched`). It is
  written as a recursive function, and that a function as it describes exists is
  itself proved (`Recursion`), then that each of its values holds only keywords
  that some mark contains (`MatchedFact`). Neither needs induction over an
  operator: the library's `WFMin` gives every set of numbers a least element, so
  the least number up to which a function is missing, or at which it fails,
  leads to a contradiction (`Least`, `Upwards`).

`LiveBiddingProofs` (with `LiveAssumption`: the books are plans): `OffersScheduled`
and `BidsChecked`, from the invariants of both components, which a step of the
other leaves alone.

`RemoteProofs` (with `RemoteAssumption`: a request's lists are finite, texts
have a length, what is unpacked is no more than what can be packed, no order
has the empty string for an area):

* `RemoteInvariant`: the inductive invariant is Bidding's, and that each thread
  bids for `Decode` of a packet of the request sent to it (`Received`). `Sane`
  asks of a request only what the steps of a bid need (`Legible`), not that it
  is one of `Requests`, since a decoded one is not.
* `RemoteFiltersSuit` and `RemoteOffersFit`, from `RequestFact`: a request whose
  packet arrives whole agrees with the one sent in every field but the area and
  the crowd, for which the decoder has no key, and those no filter reads (`Alike`). The lemmas under it follow a request through the
  code: the members of a list are written one field each, in any order
  (`ListFact`, `FlattenFact`, `WrittenFact`, `BodyFact`); the body has a size,
  being a sum over its fields (`SizeFact`); what fits is unpacked as it is
  (`UnpackedFact`); and decoding gives every key its last value, or every value
  for a list (`AssignFact`, `DecodeFact`).
* `AnswersAreOffers`: an action property, from `ResponseFact`, the same of a
  response, and that the offer is one of the book's materials (`OfferHolds`).

Only model-checked is liveness
(`NonEmptyIsDrained`, `SoleSleeperIsWoken`, `BrokenIsUnregistered`,
`LeftoverIsTried`, `ReadSessionsAreRecycled`, `EveryRequestAnswered`,
`OrdersReachBids`, `UncheckedEnds` and the other leads-to properties): the proof
system does not do fairness.

## 5. Known deviations without a run

Where the code does not provide what one would expect, the property is stated
for the part it does provide. These are the other parts; all but the landing
pages and the last were seen as counterexamples while the models were built.

* `AdBuff.h:395`: `pop()` without a timeout tests the ring and waits in two
  steps, so a signal can be lost between them. The write task's queue is read
  like that: an element may lie there until the next push. With `pop(ms)`, which
  the workers use, `NonEmptyIsDrained` holds.
* `AdSession.cpp:379`: `AdSessionEmpty` may look while the write task has taken
  the front of the send list and is about to put it back; the server then takes
  the session off the delayed writes. `LeftoverIsTried` says only that a report
  is acted on.
* `AdNetTask.h:222`: the write task never undoes the `AdSessionActive` of
  `AdNetBasePushMsg`. `ReadSessionsAreRecycled` is for sessions it never had.
* `AdNetBase.cpp:455`: without `NoGapRace`, `NetInv` fails (see NetBase).
* `AdAdapter.cpp:791`: when a worker's `AdSessionWrite` closes the connection to
  an engine, no READ message follows and the list is never cleared: its requests
  get no answer. `EveryRequestAnswered` is for connections that hold.
* `AdAdapter.cpp:396`: with two workers, one that empties the list may stop the
  timer between another's start of the timer and its push.
  `EveryRequestAnswered` is checked with one worker.
* `AdAdapter.cpp:811`: two workers may push on the list of a remote engine in
  one order and write in the other; answers are matched by order and are then
  swapped. `OwnAnswer` is for local engines. After a break it fails for these,
  too: `clear` frees a parameter its engine may still write to.
* `AdRtbFilters.cpp:237`: `if(0)` stands where the flag was tested
  (`//if(uiFlags & AD_FILTERS_LANDINGPAGE)`, line 236). The comment above says
  "init Filter landingpage, which need configure file", and
  `conf/iBidding/AdRtbEng.conf:17` and `:72` name that file and watch it, but `AdFilterLandingPageInit` is never
  called: `m_mLandPages` is empty, `AdFilterLandingPage::match` takes nothing
  out, and a page the exchange does not want may be offered. The model's list is
  empty as well (`LandPages`), and `OfferIsAllowed` claims nothing of landing
  pages.
* `AdBuff.h:537`: a bid that lasts from before the end of one round into the next
  (five seconds, one in the remote process) may have the filters it walks
  through cleared. `BidsReadLiveData` is for the others, except for prices.
* `AdFilterRealTime.cpp:224`: `NORANGE` is kept by reports although the schedule
  came back, until a midnight empties the map.
* `AdFilterMark.cpp:123, 384` and `AdAcbm.cpp:298`: keywords of one mark are
  tried on the next; two audiences of one order share bits; an empty keyword
  clears the tree of all orders before it. `MarksAreMet` is for orders with one
  audience, and says nothing of bids lost.
* `AdFilterMark.cpp:240, 247, 252`: the conditions of an audience have 32 bits
  per kind; what the user must have searched for or must not have visited is not
  looked at from the 33rd on. `MarksAreMet` is about the others (`Masked`).
* `AdRtbNetProtocol.cpp:823, 864, 341`: the area is not sent to remote engines,
  so they bid on orders for all areas only; a body above 4 KB loses fields.
* `AdParaList.h:120`: `pop` erases the front and then reads its element through
  the iterator. It works with the usual allocators; the model takes the value.

## 6. Not modelled

* Failures of `malloc` and `fcntl`; `AD_EVENT_ERROR`, which no code raises.
* A server thread blocked by full READ queues (`AdNetBasePushMsg` spins): the
  model stops adding at `MaxQueue`.
* Several READ or WRITE queues of one kind: one queue each. The wrong index at
  `AdNetBase.cpp:150` is in the hazard list.
* Packet assembly (`AdSessionCompletePacket`): sequential; that a split packet
  is never delivered is in the hazard list.
* TCP clients and their reconnect: its first success deadlocks on a mutex it
  holds; there is no behaviour beyond that to check.
* Control and watchdog: what a cancelled thread leaves locked depends on the
  cancellation points of the C library.
* In the engine: parsing of orders, the click model, `AdRtbProtect`; in the
  filters: the files some of them load, parsing of the user cache, whose result
  is an input of a bid; in the protocol: the extended head.
* The exchanges' protocols (`adx/`) are stateless conversions; `*.pb.*` is
  generated, `libjson`, `libconhash`, `liblinear` and libevent are third-party:
  together they are most of the lines of the repository.
* The test exchange (`AdExchange`) and its own `AdParaList`, which differs from
  the adapter's.
* `AdCharge.cpp` and the epoll variant are not built.
* Log, Kafka, Redis, configuration files, tools: I/O.

## 7. What could follow

1. `PacketAssembly`, against concatenation over all ways to cut a byte stream.
2. `Dispatch` with two workers and two remote engines: the order of answers, and
   the timer race as runs of their own.
