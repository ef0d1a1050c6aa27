----------------------------- MODULE MCRealTime -----------------------------
(* Small values for RealTime: two orders, two days of two hours.           *)
EXTENDS RealTime, TLC

AllDay(days) == days \X (0 .. 1)

\* the first order has no schedule in one book; the second is only in the other
Paused == [days |-> {}, budget |-> [d \in 0 .. 1 |-> 0], hours |-> {}, share |-> FALSE]
Weekly == [days |-> {0, 1}, budget |-> [d \in 0 .. 1 |-> d + 1], hours |-> AllDay({0, 1}),
           share |-> FALSE]
Monday == [days |-> {1}, budget |-> [d \in 0 .. 1 |-> d * 4], hours |-> AllDay({1}),
           share |-> TRUE]

MCUnits == {1, 2}
MCBooks == {1 :> Weekly @@ 2 :> Monday, 1 :> Weekly, 1 :> Paused}
MCReports ==
  {[hour |-> h, have |-> s, hourSpend |-> s, remain |-> 1] : h \in 0 .. 1, s \in {0, 2}}
=============================================================================
