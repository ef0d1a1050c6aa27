--------------------------- MODULE MCLiveBidding ---------------------------
(* Small values for LiveBidding: two orders, one of them not in every book  *)
(* and scheduled for the second day alone; one request, an unknown user.    *)
EXTENDS LiveBidding, TLC

Banner == [adx |-> 1, size |-> "s", group |-> TRUE, first |-> TRUE, kind |-> 0,
           cat |-> <<>>, sites |-> {}]

Weekly ==
  [days |-> {0, 1}, hours |-> {0, 1} \X {0, 1}, budget |-> [d \in 0 .. 1 |-> 2],
   share |-> FALSE, pids |-> {[adx |-> 1, mode |-> "ALL", ids |-> {}]},
   area |-> {All}, materials |-> {Banner}, ua |-> {},
   operator |-> {All}, device |-> {All}, connect |-> {All}, mobile |-> FALSE,
   screens |-> {}, types |-> {}, banContent |-> {}, banPids |-> {},
   keys |-> {}, audience |-> <<>>, advanced |-> {},
   type |-> "CPM", target |-> 2, model |-> 0]

Evening == [Weekly EXCEPT !.days = {1}, !.hours = {<<1, 1>>}, !.budget = [d \in 0 .. 1 |-> d]]

MCUnits == {1, 2}
MCBooks == {1 :> Weekly @@ 2 :> Evening, 1 :> Weekly}
MCReports == {[hour |-> h, have |-> 0, hourSpend |-> 0, remain |-> 1] : h \in 0 .. 1}
MCTimes == (0 .. 1) \X (0 .. 1)

MCRequests ==
  {[adx |-> 1, pid |-> "p", sites |-> {}, area |-> "here", size |-> "s", ua |-> {},
    flow |-> "pc", operator |-> {}, device |-> {}, connect |-> {},
    view |-> 1, type |-> 1, sensitive |-> {}, categories |-> {}, creates |-> {},
    crowd |-> <<>>, floor |-> 1]}

MCUsers == {[ok |-> FALSE, marks |-> <<>>, audience |-> <<>>, eid |-> 0]}
=============================================================================
