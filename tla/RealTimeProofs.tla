--------------------------- MODULE RealTimeProofs ---------------------------
(***************************************************************************)
(* Proofs about RealTime for any orders, reports and calendar.             *)
(***************************************************************************)
EXTENDS RealTime, FiniteSetTheorems, TLAPS

(* What Redis holds. *)
LEMMA BookFact ==
  ASSUME NEW book \in Books
  PROVE  /\ DOMAIN book \subseteq Units
         /\ \A u \in DOMAIN book :
              /\ book[u].days \subseteq Days
              /\ book[u].budget \in [Days -> Nat]
              /\ book[u].share \in BOOLEAN
BY RealTimeAssumption DEF RealTimeAssumption

LEMMA NoInfoFact == NoInfo \in Entries
<1>1. TooOld \in 0 .. TooOld
  BY RealTimeAssumption DEF RealTimeAssumption, TooOld
<1>2. [h \in Hours |-> 0] \in [Hours -> Nat]
  OBVIOUS
<1> QED
  BY <1>1, <1>2 DEF NoInfo, Entries, Flags

LEMMA TodayFact ==
  ASSUME NEW book \in Books, NEW u \in DOMAIN book, NEW day \in Days
  PROVE  Today(book[u], day).will \in Nat /\ Today(book[u], day).hours \subseteq Hours
<1>1. book[u].budget \in [Days -> Nat]
  BY BookFact
<1>2. day \in book[u].days => book[u].budget[day] \in Nat
  BY <1>1
<1> QED
  BY <1>2 DEF Today

(* AddData's part of an entry, whatever the entry was. *)
LEMMA AddedFact ==
  ASSUME NEW e \in Entries, NEW book \in Books, NEW u \in DOMAIN book, NEW day \in Days
  PROVE  LET o == book[u]
             f == Added(e, o, day)
         IN /\ f \in Entries
            /\ f.age = e.age
            /\ f.flag = IF Push(o) THEN e.flag ELSE "NORANGE"
            /\ HasSlot(o, day) =>
                 f.will = Today(o, day).will /\ f.hours = Today(o, day).hours
<1> DEFINE o == book[u]
           will == IF HasSlot(o, day) THEN Today(o, day).will ELSE e.will
           hours == IF HasSlot(o, day) THEN Today(o, day).hours ELSE e.hours
           flag == IF Push(o) THEN e.flag ELSE "NORANGE"
           f == Added(e, o, day)
<1>1. f = [e EXCEPT !.will = will, !.hours = hours, !.share = o.share, !.flag = flag]
  BY DEF Added
<1>2. will \in Nat /\ hours \in SUBSET Hours /\ o.share \in BOOLEAN /\ flag \in Flags
  BY TodayFact, BookFact DEF Entries, Flags
<1> HIDE DEF will, hours, flag, o, f
<1>3. f \in Entries /\ f.age = e.age /\ f.flag = flag /\ f.will = will /\ f.hours = hours
  BY <1>1, <1>2 DEF Entries
<1> QED
  BY <1>3 DEF will, hours, flag, o, f

(* The hours left of the day count the one of the report. *)
LEMMA HoursLeftFact ==
  ASSUME NEW e \in Entries, NEW r \in Reports, r.hour \in e.hours
  PROVE  HoursLeft(e, r) \in Nat \ {0}
<1> DEFINE left == {h \in e.hours : h >= r.hour}
<1>1. IsFiniteSet(Hours)
  BY FS_Interval, RealTimeAssumption DEF RealTimeAssumption, Hours
<1>2. left \in SUBSET Hours
  BY DEF Entries
<1>3. r.hour \in left
  BY RealTimeAssumption DEF RealTimeAssumption, Hours
<1> HIDE DEF left
<1>4. IsFiniteSet(left)
  BY <1>1, <1>2, FS_Subset
<1>5. Cardinality(left) \in Nat /\ Cardinality(left) # 0
  BY <1>3, <1>4, FS_CardinalityType, FS_EmptySet
<1> QED
  BY <1>5 DEF HoursLeft, left

LEMMA DivFact ==
  ASSUME NEW a \in Nat, NEW b \in Nat \ {0}
  PROVE  a \div b \in Nat
OBVIOUS

LEMMA ShareFact ==
  ASSUME NEW e \in Entries, NEW r \in Reports, r.hour \in e.hours
  PROVE  Share(e, r) \in Nat
<1>1. SpentBefore(r) \in Nat
  <2>1. r.have - r.hourSpend \in Int /\ Word \in Nat \ {0}
    BY RealTimeAssumption DEF RealTimeAssumption
  <2> QED
    BY <2>1 DEF SpentBefore
<1>2. e.will \in Nat /\ e.total[r.hour] \in Nat
  BY RealTimeAssumption DEF RealTimeAssumption, Entries
<1>3. CASE e.will > SpentBefore(r)
  <2>1. e.will - SpentBefore(r) \in Nat
    BY <1>1, <1>2, <1>3
  <2> QED
    BY <1>3, <2>1, HoursLeftFact, DivFact DEF Share
<1>4. CASE ~(e.will > SpentBefore(r))
  BY <1>2, <1>4 DEF Share
<1> QED
  BY <1>3, <1>4

(* A report's part of an entry: the orders' part stays, an order without a *)
(* schedule stays so, and OK needs an hour.                                *)
LEMMA ReportedFact ==
  ASSUME NEW e \in Entries, NEW r \in Reports
  PROVE  LET f == Reported(e, r)
         IN /\ f \in Entries
            /\ f.will = e.will /\ f.hours = e.hours
            /\ e.flag = "NORANGE" => f.flag = "NORANGE"
            /\ e.flag # "NORANGE" /\ e.will = 0 /\ e.hours = {} =>
                 f.flag \in {"NOREMAIN", "CONTROL"}
<1> DEFINE verdict == Verdict(e, r)
           total == CASE verdict = "CONTROL" -> 0
                      [] verdict \in {"SHARE", "OK"} -> Share(e, r)
                      [] OTHER -> e.total[r.hour]
           f == Reported(e, r)
<1>1. r.hour \in Hours
  BY RealTimeAssumption DEF RealTimeAssumption
<1>2. verdict \in Flags
  BY Zenon DEF Verdict, Flags
<1>3. verdict \in {"SHARE", "OK"} => r.hour \in e.hours
  BY DEF Verdict
<1>4. total \in Nat
  BY <1>1, <1>3, ShareFact DEF Entries
<1>5. e.flag = "NORANGE" => verdict = "NORANGE"
  BY DEF Verdict
<1>6. e.flag # "NORANGE" /\ e.will = 0 /\ e.hours = {} => verdict \in {"NOREMAIN", "CONTROL"}
  BY DEF Verdict, OverBudget
<1>7. f = [e EXCEPT !.age = 0, !.flag = verdict, !.total[r.hour] = total]
  BY DEF Reported
<1>8. 0 \in 0 .. TooOld
  BY RealTimeAssumption DEF RealTimeAssumption, TooOld
<1> HIDE DEF verdict, total, f
<1>9. f \in Entries /\ f.will = e.will /\ f.hours = e.hours /\ f.flag = verdict
  BY <1>1, <1>2, <1>4, <1>7, <1>8 DEF Entries
<1> QED
  BY <1>5, <1>6, <1>9 DEF verdict, f
-----------------------------------------------------------------------------
(* Every step is one of these; the update thread's are cut into two kinds. *)

(* The entry that AddStore starts from. *)
Found(u) == IF u \in DOMAIN info THEN info[u] ELSE NoInfo

LEMMA FoundFact ==
  ASSUME TypeOK, NEW u
  PROVE  Found(u) \in Entries
BY NoInfoFact DEF Found, TypeOK

LEMMA WithFact ==
  ASSUME NEW f, NEW u, NEW e
  PROVE  /\ DOMAIN With(f, u, e) = DOMAIN f \cup {u}
         /\ With(f, u, e)[u] = e
         /\ \A v \in DOMAIN f : v # u => With(f, u, e)[v] = f[v]
BY DEF With

UpdateType ==
  [pc : {"idle", "add", "store"}, book : Books, todo : SUBSET Units,
   week : Days, late : BOOLEAN, ok : BOOLEAN]

LEMMA CalendarFact ==
  /\ 0 \in Days
  /\ clock \in [day : Days, hour : Hours] => NextHour \in [day : Days, hour : Hours]
<1>1. LastDay \in Nat /\ LastHour \in Nat
  BY RealTimeAssumption DEF RealTimeAssumption
<1>2. ASSUME clock \in [day : Days, hour : Hours]
      PROVE  NextHour \in [day : Days, hour : Hours]
  <2>1. clock.day \in Days /\ clock.hour \in Hours
    BY <1>2
  <2>2. (clock.day + 1) % (LastDay + 1) \in Days
    BY <1>1, <2>1 DEF Days
  <2>3. CASE clock.hour < LastHour
    BY <1>1, <1>2, <2>1, <2>3 DEF NextHour, Hours
  <2>4. CASE ~(clock.hour < LastHour)
    BY <1>1, <2>2, <2>4 DEF NextHour, Hours
  <2> QED
    BY <2>3, <2>4
<1> QED
  BY <1>1, <1>2 DEF Days

(* An AddBegin, an AddStore, a report and a Tick, as the proofs use them. *)
LEMMA BeginFact ==
  ASSUME TypeOK, NEW u \in Units, AddBegin(u)
  PROVE  /\ update' \in UpdateType
         /\ update'.book = update.book /\ update'.todo = update.todo
         /\ update'.week = clock.day /\ update'.pc = "store" /\ lastDay' = clock.day
         /\ \/ info' = info /\ lastDay' = lastDay /\ update'.late = update.late
            \/ DOMAIN info' = {} /\ update'.late = (update.todo # DOMAIN update.book)
         /\ UNCHANGED <<clock, shown>>
<1>1. clock.day \in Days
  BY DEF TypeOK
<1>2. CASE clock.day = lastDay
  BY <1>1, <1>2 DEF AddBegin, TypeOK, UpdateType
<1>3. CASE clock.day # lastDay
  BY <1>1, <1>3 DEF AddBegin, TypeOK, UpdateType
<1> QED
  BY <1>2, <1>3

LEMMA StoreFact ==
  ASSUME TypeOK, NEW u \in Units, AddStore(u)
  PROVE  LET f == Added(Found(u), update.book[u], update.week)
         IN /\ u \in update.todo /\ u \in DOMAIN update.book /\ update.book \in Books
            /\ update.week \in Days
            /\ f \in Entries
            /\ DOMAIN info' = DOMAIN info \cup {u}
            /\ info'[u] = f
            /\ \A v \in DOMAIN info : v # u => info'[v] = info[v]
            /\ update' = [update EXCEPT !.pc = "add", !.todo = @ \ {u}]
            /\ UNCHANGED <<lastDay, clock, shown>>
<1>1. /\ u \in update.todo /\ u \in DOMAIN update.book /\ update.book \in Books
      /\ update.week \in Days
  BY DEF AddStore, TypeOK
<1>2. Added(Found(u), update.book[u], update.week) \in Entries
  BY <1>1, FoundFact, AddedFact
<1>3. info' = With(info, u, Added(Found(u), update.book[u], update.week))
  BY DEF AddStore, Found
<1> DEFINE f == Added(Found(u), update.book[u], update.week)
<1>4. /\ DOMAIN info' = DOMAIN info \cup {u} /\ info'[u] = f
      /\ \A v \in DOMAIN info : v # u => info'[v] = info[v]
  <2> HIDE DEF f
  <2>1. /\ DOMAIN With(info, u, f) = DOMAIN info \cup {u}
        /\ With(info, u, f)[u] = f
        /\ \A v \in DOMAIN info : v # u => With(info, u, f)[v] = info[v]
    BY DEF With
  <2>2. info' = With(info, u, f)
    BY <1>3 DEF f
  <2> QED
    BY <2>1, <2>2
<1>5. /\ update' = [update EXCEPT !.pc = "add", !.todo = @ \ {u}]
      /\ UNCHANGED <<lastDay, clock, shown>>
  BY DEF AddStore
<1> QED
  BY <1>1, <1>2, <1>4, <1>5

LEMMA ReportFact ==
  ASSUME TypeOK, NEW u \in Units, NEW r \in Reports, Report(u, r)
  PROVE  LET f == Reported(Found(u), r)
         IN /\ f \in Entries
            /\ DOMAIN info' = DOMAIN info \cup {u}
            /\ info'[u] = f
            /\ \A v \in DOMAIN info : v # u => info'[v] = info[v]
            /\ UNCHANGED <<lastDay, clock, shown, update>>
<1>1. Reported(Found(u), r) \in Entries
  BY FoundFact, ReportedFact
<1>2. info' = With(info, u, Reported(Found(u), r))
  BY DEF Report, Found
<1> DEFINE f == Reported(Found(u), r)
<1>3. /\ DOMAIN info' = DOMAIN info \cup {u} /\ info'[u] = f
      /\ \A v \in DOMAIN info : v # u => info'[v] = info[v]
  <2> HIDE DEF f
  <2>1. /\ DOMAIN With(info, u, f) = DOMAIN info \cup {u}
        /\ With(info, u, f)[u] = f
        /\ \A v \in DOMAIN info : v # u => With(info, u, f)[v] = info[v]
    BY DEF With
  <2>2. info' = With(info, u, f)
    BY <1>2 DEF f
  <2> QED
    BY <2>1, <2>2
<1>4. UNCHANGED <<lastDay, clock, shown, update>>
  BY DEF Report
<1> QED
  BY <1>1, <1>3, <1>4

LEMMA TickFact ==
  ASSUME TypeOK, Tick
  PROVE  /\ clock' \in [day : Days, hour : Hours]
         /\ DOMAIN info' = DOMAIN info
         /\ \A u \in DOMAIN info :
              /\ info'[u] \in Entries
              /\ info'[u].will = info[u].will /\ info'[u].hours = info[u].hours
              /\ info'[u].flag = info[u].flag
              /\ info'[u].age <= UsingTime => info[u].age <= UsingTime
         /\ UNCHANGED <<lastDay, shown, update>>
<1>1. clock' \in [day : Days, hour : Hours]
  BY CalendarFact DEF Tick, TypeOK
<1>2. info' = [u \in DOMAIN info |->
        [info[u] EXCEPT !.age = IF @ < TooOld THEN @ + 1 ELSE TooOld]]
  BY DEF Tick
<1>3. TooOld \in Nat /\ UsingTime \in Nat /\ TooOld = UsingTime + 1
  BY RealTimeAssumption DEF RealTimeAssumption, TooOld
<1>4. ASSUME NEW u \in DOMAIN info
      PROVE  /\ info'[u] \in Entries
             /\ info'[u].will = info[u].will /\ info'[u].hours = info[u].hours
             /\ info'[u].flag = info[u].flag
             /\ info'[u].age <= UsingTime => info[u].age <= UsingTime
  <2> DEFINE age == IF info[u].age < TooOld THEN info[u].age + 1 ELSE TooOld
  <2>1. info[u] \in Entries
    BY DEF TypeOK
  <2>2. info[u].age \in 0 .. TooOld
    BY <2>1 DEF Entries
  <2>3. age \in 0 .. TooOld /\ (age <= UsingTime => info[u].age <= UsingTime)
    BY <1>3, <2>2
  <2>4. info'[u] = [info[u] EXCEPT !.age = age]
    BY <1>2
  <2> HIDE DEF age
  <2> QED
    BY <2>1, <2>3, <2>4 DEF Entries
<1>5. DOMAIN info' = DOMAIN info /\ UNCHANGED <<lastDay, shown, update>>
  BY <1>2 DEF Tick
<1> QED
  BY <1>1, <1>4, <1>5

LEMMA RoundFact ==
  ASSUME TypeOK, NEW book \in Books, RoundBegin(book)
  PROVE  /\ update' = [pc |-> "add", book |-> book, todo |-> DOMAIN book, week |-> 0,
                       late |-> FALSE, ok |-> FALSE]
         /\ update' \in UpdateType
         /\ UNCHANGED <<info, lastDay, clock, shown>>
<1>1. update' = [pc |-> "add", book |-> book, todo |-> DOMAIN book, week |-> 0,
                 late |-> FALSE, ok |-> FALSE]
  BY DEF RoundBegin, Idle
<1>2. DOMAIN book \in SUBSET Units /\ 0 \in Days
  BY BookFact, CalendarFact
<1>3. update' \in UpdateType
  BY <1>1, <1>2 DEF UpdateType
<1> QED
  BY <1>1, <1>3 DEF RoundBegin

LEMMA EndFact ==
  ASSUME TypeOK, RoundEnd \/ RoundFail
  PROVE  /\ update' \in UpdateType /\ update'.pc = "idle"
         /\ update.todo = {} /\ update'.todo = update.todo
         /\ update'.book = update.book /\ update'.late = update.late
         /\ update'.week = update.week
         /\ shown' \in {shown, update.book}
         /\ UNCHANGED <<info, lastDay, clock>>
BY DEF RoundEnd, RoundFail, TypeOK, UpdateType
-----------------------------------------------------------------------------
(* The types, and what is at work in each phase of a round.                *)

LEMMA TypeInit == Init => TypeOK
<1> SUFFICES ASSUME Init PROVE TypeOK
  OBVIOUS
<1>1. lastDay \in Days /\ clock \in [day : Days, hour : Hours] /\ shown \in Books
  BY DEF Init
<1>2. ASSUME NEW u \in DOMAIN info
      PROVE  u \in Units /\ info[u] \in Entries
  <2>1. u \in DOMAIN shown /\ info[u] = Added(NoInfo, shown[u], lastDay)
    BY DEF Init
  <2>2. Added(NoInfo, shown[u], lastDay) \in Entries
    BY <1>1, <2>1, NoInfoFact, AddedFact
  <2> QED
    BY <1>1, <2>1, <2>2, BookFact
<1>3. /\ update \in UpdateType
      /\ update.todo \subseteq DOMAIN update.book
      /\ update.pc = "idle" => update.todo = {}
  BY <1>1, CalendarFact DEF Init, Idle, UpdateType
<1> QED
  BY <1>1, <1>2, <1>3 DEF TypeOK, UpdateType

LEMMA TypeStep == TypeOK /\ [Next]_rtVars => TypeOK'
<1> SUFFICES ASSUME TypeOK, [Next]_rtVars PROVE TypeOK'
  OBVIOUS
<1>1. CASE \E book \in Books : RoundBegin(book)
  <2>1. PICK book \in Books : RoundBegin(book)
    BY <1>1
  <2> QED
    BY <2>1, RoundFact DEF TypeOK, UpdateType
<1>2. ASSUME NEW u \in Units, AddBegin(u)
      PROVE  TypeOK'
  <2>1. lastDay' \in Days
    BY <1>2, BeginFact DEF TypeOK
  <2>2. DOMAIN info' \subseteq Units /\ \A v \in DOMAIN info' : info'[v] \in Entries
    BY <1>2, BeginFact DEF TypeOK
  <2> QED
    BY <1>2, <2>1, <2>2, BeginFact DEF TypeOK, UpdateType
<1>3. ASSUME NEW u \in Units, AddStore(u)
      PROVE  TypeOK'
  <2>1. DOMAIN info' \subseteq Units /\ \A v \in DOMAIN info' : info'[v] \in Entries
    <3>1. /\ DOMAIN info' = DOMAIN info \cup {u} /\ info'[u] \in Entries
          /\ \A v \in DOMAIN info : v # u => info'[v] = info[v]
      BY <1>3, StoreFact
    <3> QED
      BY <3>1 DEF TypeOK
  <2>2. update' = [update EXCEPT !.pc = "add", !.todo = @ \ {u}]
    BY <1>3, StoreFact
  <2>3. /\ update' \in UpdateType
        /\ update'.todo \subseteq DOMAIN update'.book
        /\ update'.pc = "add"
    BY <2>2 DEF TypeOK, UpdateType
  <2> QED
    BY <1>3, <2>1, <2>3, StoreFact DEF TypeOK, UpdateType
<1>4. CASE RoundEnd \/ RoundFail
  <2>1. shown' \in Books
    BY <1>4, EndFact DEF TypeOK
  <2>2. /\ update' \in UpdateType /\ update'.todo = {}
        /\ UNCHANGED <<info, lastDay, clock>>
    BY <1>4, EndFact
  <2> QED
    BY <2>1, <2>2 DEF TypeOK, UpdateType
<1>5. ASSUME NEW u \in Units, NEW r \in Reports, Report(u, r)
      PROVE  TypeOK'
  <2>1. DOMAIN info' \subseteq Units /\ \A v \in DOMAIN info' : info'[v] \in Entries
    <3>1. /\ DOMAIN info' = DOMAIN info \cup {u} /\ info'[u] \in Entries
          /\ \A v \in DOMAIN info : v # u => info'[v] = info[v]
      BY <1>5, ReportFact
    <3> QED
      BY <3>1 DEF TypeOK
  <2>2. UNCHANGED <<lastDay, clock, shown, update>>
    BY <1>5, ReportFact
  <2> QED
    BY <2>1, <2>2 DEF TypeOK
<1>6. CASE Tick
  BY <1>6, TickFact DEF TypeOK
<1>7. CASE UNCHANGED rtVars
  BY <1>7 DEF TypeOK, rtVars
<1> QED
  BY <1>1, <1>2, <1>3, <1>4, <1>5, <1>6, <1>7 DEF Next, UpdateStep

(* Entries stay whole and within the calendar, whatever Redis and the      *)
(* socket bring.                                                           *)
THEOREM TypeCorrect == Spec => []TypeOK
BY TypeInit, TypeStep, PTL DEF Spec
-----------------------------------------------------------------------------
(* No order of a finished round is without its entry.  The invariant names *)
(* the round's own orders, which are what bids can win once it ends.       *)

Filed == \A u \in DOMAIN update.book \ DOMAIN info : u \in update.todo \/ update.late

LEMMA FiledInit == Init => Filed
BY DEF Init, Filed, Idle

LEMMA FiledStep == TypeOK /\ Filed /\ [Next]_rtVars => Filed'
<1> SUFFICES ASSUME TypeOK, Filed, [Next]_rtVars PROVE Filed'
  OBVIOUS
<1>1. CASE \E book \in Books : RoundBegin(book)
  BY <1>1, RoundFact DEF Filed
<1>2. ASSUME NEW u \in Units, AddBegin(u)
      PROVE  Filed'
  <2>1. CASE info' = info /\ update'.late = update.late
    BY <1>2, <2>1, BeginFact DEF Filed
  <2>2. CASE update'.late = (update.todo # DOMAIN update.book)
    BY <1>2, <2>2, BeginFact DEF Filed, TypeOK
  <2> QED
    BY <1>2, <2>1, <2>2, BeginFact
<1>3. ASSUME NEW u \in Units, AddStore(u)
      PROVE  Filed'
  <2>1. DOMAIN info' = DOMAIN info \cup {u}
    BY <1>3, StoreFact
  <2>2. /\ update'.book = update.book /\ update'.todo = update.todo \ {u}
        /\ update'.late = update.late
    <3>1. update' = [update EXCEPT !.pc = "add", !.todo = @ \ {u}]
      BY <1>3, StoreFact
    <3> QED
      BY <3>1 DEF TypeOK
  <2> QED
    BY <2>1, <2>2 DEF Filed
<1>4. CASE RoundEnd \/ RoundFail
  BY <1>4, EndFact DEF Filed
<1>5. ASSUME NEW u \in Units, NEW r \in Reports, Report(u, r)
      PROVE  Filed'
  BY <1>5, ReportFact DEF Filed
<1>6. CASE Tick
  BY <1>6, TickFact DEF Filed
<1>7. CASE UNCHANGED rtVars
  BY <1>7 DEF Filed, rtVars
<1> QED
  BY <1>1, <1>2, <1>3, <1>4, <1>5, <1>6, <1>7 DEF Next, UpdateStep

(* An order that bids can win has its entry, so that its spend is checked, *)
(* unless the round at work is still to file it, its orders are without    *)
(* it, or midnight fell into the round's adds.                             *)
THEOREM UncheckedIsUnderway == Spec => []UnknownIsUnderway
<1>1. Filed => UnknownIsUnderway
  BY DEF Filed, UnknownIsUnderway
<1> QED
  BY <1>1, FiledInit, FiledStep, TypeCorrect, PTL DEF Spec
-----------------------------------------------------------------------------
(* Entries and orders.  An entry of an order added this round either holds *)
(* what the orders say, or was made by a report after the map was emptied, *)
(* and then it cannot be OK: it has no hour.                               *)

Fresh(e) == e.will = 0 /\ e.hours = {} /\ e.flag \in {"none", "CONTROL", "NOREMAIN"}

Follows(e, o, day) ==
  /\ Push(o) \/ e.flag = "NORANGE"
  /\ HasSlot(o, day) => e.will = Today(o, day).will /\ e.hours = Today(o, day).hours

Held ==
  /\ update.pc = "store" => update.week = lastDay
  /\ \A u \in AddedOrders \cap DOMAIN info :
       Follows(info[u], update.book[u], lastDay) \/ Fresh(info[u])

LEMMA AddedFollows ==
  ASSUME NEW e \in Entries, NEW book \in Books, NEW u \in DOMAIN book, NEW day \in Days
  PROVE  Follows(Added(e, book[u], day), book[u], day)
BY AddedFact DEF Follows

LEMMA ReportedFollows ==
  ASSUME NEW e \in Entries, NEW r \in Reports, NEW o, NEW day,
         Follows(e, o, day) \/ Fresh(e)
  PROVE  Follows(Reported(e, r), o, day) \/ Fresh(Reported(e, r))
<1> DEFINE f == Reported(e, r)
<1>1. /\ f.will = e.will /\ f.hours = e.hours
      /\ e.flag = "NORANGE" => f.flag = "NORANGE"
      /\ e.flag # "NORANGE" /\ e.will = 0 /\ e.hours = {} =>
           f.flag \in {"NOREMAIN", "CONTROL"}
  BY ReportedFact
<1> HIDE DEF f
<1>2. CASE Follows(e, o, day)
  <2>1. Follows(f, o, day)
    BY <1>1, <1>2 DEF Follows
  <2> QED
    BY <2>1 DEF f
<1>3. CASE Fresh(e)
  <2>1. Fresh(f)
    BY <1>1, <1>3 DEF Fresh
  <2> QED
    BY <2>1 DEF f
<1> QED
  BY <1>2, <1>3

LEMMA HeldInit == Init => Held
<1> SUFFICES ASSUME Init PROVE Held
  OBVIOUS
<1>1. update.pc = "idle" /\ update.book = shown /\ lastDay \in Days /\ shown \in Books
  BY DEF Init, Idle
<1>2. ASSUME NEW u \in DOMAIN info
      PROVE  Follows(info[u], update.book[u], lastDay)
  <2>1. u \in DOMAIN shown /\ info[u] = Added(NoInfo, shown[u], lastDay)
    BY DEF Init
  <2> QED
    BY <1>1, <2>1, NoInfoFact, AddedFollows
<1> QED
  BY <1>1, <1>2 DEF Held

LEMMA HeldStep == TypeOK /\ Held /\ [Next]_rtVars => Held'
<1> SUFFICES ASSUME TypeOK, Held, [Next]_rtVars PROVE Held'
  OBVIOUS
<1>1. CASE \E book \in Books : RoundBegin(book)
  BY <1>1, RoundFact DEF Held, AddedOrders
<1>2. ASSUME NEW u \in Units, AddBegin(u)
      PROVE  Held'
  <2>1. update'.week = lastDay' /\ AddedOrders' = AddedOrders /\ update'.book = update.book
    BY <1>2, BeginFact DEF AddedOrders
  <2>2. CASE info' = info /\ lastDay' = lastDay
    BY <2>1, <2>2 DEF Held
  <2>3. CASE DOMAIN info' = {}
    BY <2>1, <2>3 DEF Held
  <2> QED
    BY <1>2, <2>2, <2>3, BeginFact
<1>3. ASSUME NEW u \in Units, AddStore(u)
      PROVE  Held'
  <2>1. /\ u \in DOMAIN update.book /\ update.book \in Books /\ lastDay' = lastDay
        /\ DOMAIN info' = DOMAIN info \cup {u}
        /\ info'[u] = Added(Found(u), update.book[u], update.week)
        /\ \A v \in DOMAIN info : v # u => info'[v] = info[v]
    BY <1>3, StoreFact
  <2>2. /\ update'.pc = "add" /\ update'.book = update.book
        /\ update'.todo = update.todo \ {u}
    <3>1. update' = [update EXCEPT !.pc = "add", !.todo = @ \ {u}]
      BY <1>3, StoreFact
    <3> QED
      BY <3>1 DEF TypeOK
  <2>3. update.week = lastDay /\ lastDay \in Days
    BY <1>3 DEF AddStore, Held, TypeOK
  <2>4. Follows(info'[u], update'.book[u], lastDay')
    BY <2>1, <2>2, <2>3, FoundFact, AddedFollows
  <2>5. ASSUME NEW v \in AddedOrders' \cap DOMAIN info', v # u
        PROVE  Follows(info'[v], update'.book[v], lastDay') \/ Fresh(info'[v])
    <3>1. v \in AddedOrders \cap DOMAIN info /\ info'[v] = info[v]
      BY <2>1, <2>2, <2>5 DEF AddedOrders
    <3> QED
      BY <2>1, <2>2, <3>1 DEF Held
  <2> QED
    BY <2>2, <2>4, <2>5 DEF Held
<1>4. CASE RoundEnd \/ RoundFail
  BY <1>4, EndFact DEF Held, AddedOrders
<1>5. ASSUME NEW u \in Units, NEW r \in Reports, Report(u, r)
      PROVE  Held'
  <2>1. /\ DOMAIN info' = DOMAIN info \cup {u}
        /\ info'[u] = Reported(Found(u), r)
        /\ \A v \in DOMAIN info : v # u => info'[v] = info[v]
        /\ lastDay' = lastDay /\ update' = update
    BY <1>5, ReportFact
  <2>2. u \notin DOMAIN info => Fresh(Found(u))
    BY DEF Found, Fresh, NoInfo
  <2>3. u \in AddedOrders =>
          Follows(Found(u), update.book[u], lastDay) \/ Fresh(Found(u))
    BY <2>2 DEF Held, Found
  <2>4. u \in AddedOrders =>
          Follows(info'[u], update.book[u], lastDay) \/ Fresh(info'[u])
    BY <2>1, <2>3, FoundFact, ReportedFollows
  <2>5. AddedOrders' = AddedOrders
    BY <2>1 DEF AddedOrders
  <2>6. ASSUME NEW v \in AddedOrders' \cap DOMAIN info'
        PROVE  Follows(info'[v], update'.book[v], lastDay') \/ Fresh(info'[v])
    <3>1. CASE v = u
      BY <2>1, <2>4, <2>5, <2>6, <3>1
    <3>2. CASE v # u
      BY <2>1, <2>5, <2>6, <3>2 DEF Held
    <3> QED
      BY <3>1, <3>2
  <2> QED
    BY <2>1, <2>6 DEF Held
<1>6. CASE Tick
  <2>1. /\ DOMAIN info' = DOMAIN info /\ UNCHANGED <<lastDay, shown, update>>
        /\ \A u \in DOMAIN info :
             /\ info'[u].will = info[u].will /\ info'[u].hours = info[u].hours
             /\ info'[u].flag = info[u].flag
    BY <1>6, TickFact
  <2> QED
    BY <2>1 DEF Held, AddedOrders, Follows, Fresh
<1>7. CASE UNCHANGED rtVars
  BY <1>7 DEF Held, AddedOrders, rtVars
<1> QED
  BY <1>1, <1>2, <1>3, <1>4, <1>5, <1>6, <1>7 DEF Next, UpdateStep

(* Whatever order rounds, midnights, failures and reports come in, an      *)
(* order that is OK is held to the budget and hours of its orders.         *)
THEOREM OkIsHeld == Spec => []OkFollowsOrders
<1>1. Held => OkFollowsOrders
  BY DEF Held, OkFollowsOrders, Follows, Fresh
<1> QED
  BY <1>1, HeldInit, HeldStep, TypeCorrect, PTL DEF Spec
-----------------------------------------------------------------------------
(* Only a report makes an order pass.                                      *)

LEMMA AdmitStep ==
  ASSUME TypeOK, UpdateStep \/ Tick, NEW u \in DOMAIN info', Passes(u)'
  PROVE  u \in DOMAIN info /\ Passes(u)
<1>1. info'[u].age <= UsingTime /\ info'[u].flag = "OK"
  BY DEF Passes
<1>2. CASE \E book \in Books : RoundBegin(book)
  BY <1>2, RoundFact DEF Passes
<1>3. ASSUME NEW v \in Units, AddBegin(v)
      PROVE  u \in DOMAIN info /\ Passes(u)
  BY <1>3, BeginFact DEF Passes
<1>4. ASSUME NEW v \in Units, AddStore(v)
      PROVE  u \in DOMAIN info /\ Passes(u)
  <2>1. CASE u = v
    <3>1. /\ v \in DOMAIN update.book /\ update.book \in Books /\ update.week \in Days
          /\ info'[v] = Added(Found(v), update.book[v], update.week)
      BY <1>4, StoreFact
    <3>2. info'[v].age = Found(v).age /\ info'[v].flag \in {Found(v).flag, "NORANGE"}
      BY <3>1, FoundFact, AddedFact
    <3>3. Found(v).flag = "OK" /\ Found(v).age <= UsingTime
      BY <1>1, <2>1, <3>2
    <3> QED
      BY <2>1, <3>3 DEF Found, NoInfo, Passes
  <2>2. CASE u # v
    <3>1. u \in DOMAIN info /\ info'[u] = info[u]
      BY <1>4, <2>2, StoreFact
    <3> QED
      BY <1>1, <3>1 DEF Passes
  <2> QED
    BY <2>1, <2>2
<1>5. CASE RoundEnd \/ RoundFail
  BY <1>5, EndFact DEF Passes
<1>6. CASE Tick
  BY <1>1, <1>6, TickFact DEF Passes
<1> QED
  BY <1>2, <1>3, <1>4, <1>5, <1>6 DEF UpdateStep

(* No round and no passing of time lets an order bid that could not.       *)
THEOREM ReportsAdmit == Spec => OnlyReportsAdmit
<1>1. TypeOK /\ [Next]_rtVars =>
        [UpdateStep \/ Tick =>
           \A u \in DOMAIN info' : Passes(u)' => u \in DOMAIN info /\ Passes(u)]_rtVars
  BY AdmitStep
<1> QED
  BY <1>1, TypeCorrect, PTL DEF Spec, OnlyReportsAdmit
=============================================================================
