------------------------------ MODULE RealTime ------------------------------
(***************************************************************************)
(* The real-time filter of ibidding/filter: AdFilterRealTime.cpp, and the  *)
(* part of AdRtbFilters::FiltersUpdate that feeds it.                      *)
(*                                                                         *)
(* Every other filter is built anew on the back copy and switched in; this *)
(* one is a single object that all rounds and all bids share.  The update  *)
(* thread writes an entry per order (AddData), one thread takes the spend  *)
(* reports off a multicast socket and writes the same entries, the bidding *)
(* threads read them; a read-write lock covers one call at a time.         *)
(*                                                                         *)
(* Time is the weekday, the hour and the age of the last report of each    *)
(* entry, which stops at "too old".  The reports are external: any report, *)
(* in any order, lost or repeated.                                         *)
(***************************************************************************)
EXTENDS Integers, FiniteSets

CONSTANTS
  Units,        \* execute ids of orders
  LastDay,      \* weekdays are 0 .. LastDay; 6
  LastHour,     \* hours of a day are 0 .. LastHour; 23
  UsingTime,    \* AD_REALTIME_USING_TIME, in ticks
  Word,         \* 2^32: m_uiWillSpend and uiNumber are UINT
  Books,        \* what Redis may hold: orders by execute id
  Reports       \* what the socket may bring, for some execute id

Days == 0 .. LastDay
Hours == 0 .. LastHour

ASSUME RealTimeAssumption ==
  /\ Units \subseteq Nat /\ IsFiniteSet(Units)
  /\ LastDay \in Nat /\ LastHour \in Nat /\ UsingTime \in Nat
  /\ Word \in Nat \ {0}
  /\ \A book \in Books :
       /\ DOMAIN book \subseteq Units
       /\ \A u \in DOMAIN book :
            /\ book[u].days \subseteq Days
            /\ book[u].budget \in [Days -> Nat]
            /\ book[u].hours \subseteq Days \X Hours
            /\ book[u].share \in BOOLEAN
  /\ \A r \in Reports :
       /\ r.hour \in Hours
       /\ r.have \in Nat /\ r.hourSpend \in Nat /\ r.remain \in Int

VARIABLES
  info,    \* m_mInfo: entries by execute id
  lastDay, \* m_uiLastDay
  clock,   \* weekday and hour
  shown,   \* the orders the filters in front were made from
  update   \* the update thread; late: m_mInfo was emptied in the middle of
           \* the last round's adds; ok: the last round succeeded

rtVars == <<info, lastDay, clock, shown, update>>

Flags == {"none", "OK", "OVER", "CONTROL", "SHARE", "NORANGE", "NOREMAIN"}

TooOld == UsingTime + 1

\* bPush: the order has an entry for some weekday
Push(o) == o.days # {}

\* a fresh entry is all zero: its last report was in 1970
NoInfo == [flag |-> "none", age |-> TooOld, share |-> FALSE, will |-> 0,
           hours |-> {}, total |-> [h \in Hours |-> 0]]

With(f, u, e) == [v \in DOMAIN f \cup {u} |-> IF v = u THEN e ELSE f[v]]

-----------------------------------------------------------------------------
(* AddData: the order's values for a weekday.                              *)

\* AddData looks for the weekday in seven slots; those the order left empty
\* say weekday 0, budget 0, no hour.
Today(o, day) ==
  [will |-> IF day \in o.days THEN o.budget[day] ELSE 0,
   hours |-> {h \in Hours : day \in o.days /\ <<day, h>> \in o.hours}]

HasSlot(o, day) == day \in o.days \cup {0}

\* mutant: a new entry counts as pushed until a report says otherwise
AddedOk(e, o, day) ==
  [e EXCEPT
     !.will = IF HasSlot(o, day) THEN Today(o, day).will ELSE @,
     !.hours = IF HasSlot(o, day) THEN Today(o, day).hours ELSE @,
     !.share = o.share,
     !.flag = IF Push(o) THEN "OK" ELSE "NORANGE"]

Added(e, o, day) ==
  [e EXCEPT
     !.will = IF HasSlot(o, day) THEN Today(o, day).will ELSE @,
     !.hours = IF HasSlot(o, day) THEN Today(o, day).hours ELSE @,
     !.share = o.share,
     !.flag = IF Push(o) THEN @ ELSE "NORANGE"]

-----------------------------------------------------------------------------
(* AdFilterRealTimeUpdate: what a report does to an entry.                 *)

\* what was spent before this hour, as a UINT
SpentBefore(r) == (r.have - r.hourSpend) % Word

HoursLeft(e, r) == Cardinality({h \in e.hours : h >= r.hour})

\* the hour's share of what is left; that of an earlier report when the
\* spend before the hour is not below the budget
Share(e, r) ==
  IF e.will > SpentBefore(r) THEN (e.will - SpentBefore(r)) \div HoursLeft(e, r)
  ELSE e.total[r.hour]

OverBudget(e, r) == e.will > 0 /\ r.have >= e.will

ShareUsedUp(e, r) == e.will > 0 /\ e.share /\ Share(e, r) <= r.hourSpend

Verdict(e, r) ==
  CASE e.flag = "NORANGE" -> "NORANGE"
    [] e.flag # "NORANGE" /\ OverBudget(e, r) -> "OVER"
    [] e.flag # "NORANGE" /\ ~OverBudget(e, r) /\ r.remain <= 0 -> "NOREMAIN"
    [] OTHER -> IF r.hour \notin e.hours THEN "CONTROL"
                ELSE IF ShareUsedUp(e, r) THEN "SHARE" ELSE "OK"

Reported(e, r) ==
  LET verdict == Verdict(e, r)
      total == CASE verdict = "CONTROL" -> 0
                 [] verdict \in {"SHARE", "OK"} -> Share(e, r)
                 [] OTHER -> e.total[r.hour]
  IN [e EXCEPT !.age = 0, !.flag = verdict, !.total[r.hour] = total]

-----------------------------------------------------------------------------
(* match: the orders of a result that stay in it.                          *)

Passes(u) == u \in DOMAIN info => info[u].age <= UsingTime /\ info[u].flag = "OK"

-----------------------------------------------------------------------------
(* The three kinds of threads, and time.                                   *)

Idle(book, ok) ==
  [pc |-> "idle", book |-> book, todo |-> {}, week |-> 0, late |-> FALSE, ok |-> ok]

\* the first round is over before the threads are created; the process ends
\* when it fails
Init ==
  /\ clock \in [day : Days, hour : Hours]
  /\ lastDay = clock.day
  /\ shown \in Books
  /\ info = [u \in DOMAIN shown |-> Added(NoInfo, shown[u], lastDay)]
  /\ update = Idle(shown, TRUE)

\* FiltersUpdate: orders are added in the order of their ids
RoundBegin(book) ==
  /\ update.pc = "idle"
  /\ update' = [Idle(book, FALSE) EXCEPT !.pc = "add", !.todo = DOMAIN book]
  /\ UNCHANGED <<info, lastDay, clock, shown>>

\* mutant: the day of the last round is used for this one
AddBeginLastDay(u) ==
  /\ update.pc = "add"
  /\ u \in update.todo
  /\ \A v \in update.todo : u <= v
  /\ IF clock.day = lastDay
     THEN /\ update' = [update EXCEPT !.pc = "store", !.week = lastDay]
          /\ UNCHANGED <<info, lastDay>>
     ELSE /\ info' = [v \in {} |-> NoInfo]
          /\ lastDay' = clock.day
          /\ update' = [update EXCEPT !.pc = "store", !.week = lastDay,
                          !.late = update.todo # DOMAIN update.book]
  /\ UNCHANGED <<clock, shown>>

\* AddData looks at the weekday and, when it changed, empties the map ...
AddBegin(u) ==
  /\ update.pc = "add"
  /\ u \in update.todo
  /\ \A v \in update.todo : u <= v
  /\ IF clock.day = lastDay
     THEN /\ update' = [update EXCEPT !.pc = "store", !.week = clock.day]
          /\ UNCHANGED <<info, lastDay>>
     ELSE /\ info' = [v \in {} |-> NoInfo]
          /\ lastDay' = clock.day
          /\ update' = [update EXCEPT !.pc = "store", !.week = clock.day,
                          !.late = update.todo # DOMAIN update.book]
  /\ UNCHANGED <<clock, shown>>

\* mutant: only known orders are given their values of the day
AddStoreKnown(u) ==
  /\ update.pc = "store"
  /\ u \in update.todo
  /\ \A v \in update.todo : u <= v
  /\ info' = IF u \in DOMAIN info
             THEN [info EXCEPT ![u] = Added(@, update.book[u], update.week)]
             ELSE info
  /\ update' = [update EXCEPT !.pc = "add", !.todo = @ \ {u}]
  /\ UNCHANGED <<lastDay, clock, shown>>

\* ... then, with the lock taken again, writes the entry
AddStore(u) ==
  /\ update.pc = "store"
  /\ u \in update.todo
  /\ \A v \in update.todo : u <= v
  /\ info' = With(info, u,
                  Added(IF u \in DOMAIN info THEN info[u] ELSE NoInfo,
                        update.book[u], update.week))
  /\ update' = [update EXCEPT !.pc = "add", !.todo = @ \ {u}]
  /\ UNCHANGED <<lastDay, clock, shown>>

RoundEnd ==
  /\ update.pc = "add" /\ update.todo = {}
  /\ shown' = update.book
  /\ update' = [update EXCEPT !.pc = "idle", !.ok = TRUE]
  /\ UNCHANGED <<info, lastDay, clock>>

\* FiltersInit fails: the entries stay, the filters in front are the old ones
RoundFail ==
  /\ update.pc = "add" /\ update.todo = {}
  /\ update' = [update EXCEPT !.pc = "idle"]
  /\ UNCHANGED <<info, lastDay, clock, shown>>

\* a datagram; the sender may know orders this engine does not
Report(u, r) ==
  /\ info' = With(info, u, Reported(IF u \in DOMAIN info THEN info[u] ELSE NoInfo, r))
  /\ UNCHANGED <<lastDay, clock, shown, update>>

\* mutant: the last day of the week has no next
NextHourOn ==
  IF clock.hour < LastHour THEN [clock EXCEPT !.hour = @ + 1]
  ELSE [day |-> clock.day + 1, hour |-> 0]

NextHour ==
  IF clock.hour < LastHour THEN [clock EXCEPT !.hour = @ + 1]
  ELSE [day |-> (clock.day + 1) % (LastDay + 1), hour |-> 0]

\* a day is long: what the last midnight emptied is filled before the next
Tick ==
  /\ clock' \in {clock, NextHour}
  /\ clock'.day # clock.day => DOMAIN shown \subseteq DOMAIN info
  /\ info' = [u \in DOMAIN info |->
       [info[u] EXCEPT !.age = IF @ < TooOld THEN @ + 1 ELSE TooOld]]
  /\ UNCHANGED <<lastDay, shown, update>>

UpdateStep ==
  \/ \E book \in Books : RoundBegin(book)
  \/ \E u \in Units : AddBegin(u) \/ AddStore(u)
  \/ RoundEnd
  \/ RoundFail

Next ==
  \/ UpdateStep
  \/ \E u \in Units, r \in Reports : Report(u, r)
  \/ Tick

Spec == Init /\ [][Next]_rtVars

\* the update thread goes on, and its rounds succeed again and again
FairSpec == Spec /\ WF_rtVars(UpdateStep) /\ SF_rtVars(RoundEnd)

-----------------------------------------------------------------------------
(* Properties.                                                             *)

Entries ==
  [flag : Flags, age : 0 .. TooOld, share : BOOLEAN, will : Nat,
   hours : SUBSET Hours, total : [Hours -> Nat]]

TypeOK ==
  /\ DOMAIN info \subseteq Units
  /\ \A u \in DOMAIN info : info[u] \in Entries
  /\ lastDay \in Days
  /\ clock \in [day : Days, hour : Hours]
  /\ shown \in Books
  /\ update \in [pc : {"idle", "add", "store"}, book : Books, todo : SUBSET Units,
                 week : Days, late : BOOLEAN, ok : BOOLEAN]
  /\ update.todo \subseteq DOMAIN update.book
  /\ update.pc = "idle" => update.todo = {}

\* the orders of this or the last round that have been added
AddedOrders == DOMAIN update.book \ update.todo

\* An order without an entry passes the filter unchecked (match erases only
\* what it finds).  An order that bids can win lacks its entry only while the
\* round that emptied the map is still to come to it, when it is not among the
\* new orders any more, or when midnight fell into the middle of the round's
\* adds, which FiltersUpdate does not notice.
UnknownIsUnderway ==
  \A u \in DOMAIN shown \ DOMAIN info :
    u \in update.todo \/ u \notin DOMAIN update.book \/ update.late

\* Entries outlive rounds, failed ones too, and a datagram may make one before
\* AddData does.  Whatever the order of these calls, an order that is OK has a
\* schedule and is held to the budget and the hours the orders give for the
\* weekday of the last round.
OkFollowsOrders ==
  \A u \in AddedOrders \cap DOMAIN info :
    LET o == update.book[u]
    IN info[u].flag = "OK" =>
         /\ Push(o)
         /\ HasSlot(o, lastDay) =>
              /\ info[u].will = Today(o, lastDay).will
              /\ info[u].hours = Today(o, lastDay).hours

\* Only a report lets an order bid: no round, and no passing of time, makes an
\* entry pass that did not, nor adds one that does.
OnlyReportsAdmit ==
  [][UpdateStep \/ Tick =>
       \A u \in DOMAIN info' : Passes(u)' => u \in DOMAIN info /\ Passes(u)]_rtVars

\* The window in which an order passes unchecked closes.
UncheckedEnds ==
  \A u \in Units :
    u \in DOMAIN shown \ DOMAIN info ~> u \in DOMAIN info \/ u \notin DOMAIN shown
=============================================================================
