---------------------------- MODULE LiveBidding ----------------------------
(***************************************************************************)
(* Bidding threads (Bidding) over the filters and the entries of a running *)
(* engine (RealTime): a bid takes the orders that were shown when it began *)
(* and is judged by the entries there are when it comes to the real-time   *)
(* filter.                                                                 *)
(***************************************************************************)
EXTENDS RealTime, Bidding

ASSUME LiveAssumption == Books \subseteq Plans

vars == <<rtVars, bid>>

LiveInit == Init /\ BidInit

LiveNext ==
  \/ Next /\ UNCHANGED bid
  \/ /\ UNCHANGED rtVars
     /\ \E b \in Bidders :
          \/ \E q \in Requests : BidStart(b, q, shown, <<clock.day, clock.hour>>)
          \/ BidRealTime(b, {u \in bid[b].res : ~Passes(u)})
          \/ BidOn(b)

LiveSpec == LiveInit /\ [][LiveNext]_vars

-----------------------------------------------------------------------------
(* Properties.                                                             *)

\* Reports and rounds run beside a bid that holds the filters of an earlier
\* round.  What passes the real-time filter was reported within the last
\* UsingTime to have budget, unless its entry is missing; that only happens
\* for an order that the round since midnight is still to come to, that the
\* orders no longer hold, or that was added just before midnight.
BidsAreChecked ==
  [][\A b \in Bidders : bid[b].pc = "realtime" /\ bid'[b].pc = "mark" =>
       \A u \in bid'[b].res :
         IF u \in DOMAIN info THEN info[u].flag = "OK" /\ info[u].age < TooOld
         ELSE u \in update.todo \/ u \notin DOMAIN update.book \/ update.late]_vars

\* An order on which a bid ends with an offer was scheduled for the hour in
\* which the bid began, whatever became of the clock and the orders since.
OfferIsScheduled ==
  \A b \in Bidders : bid[b].pc = "offer" =>
    LET o == bid[b].book[bid[b].offer.unit]
    IN Pushed(o) /\ bid[b].now \in o.hours
=============================================================================
