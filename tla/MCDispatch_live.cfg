\* one worker, two local engines that may never answer
SPECIFICATION FairSpec
CONSTANTS
  Request = {r1, r2}
  Para = {p1, p2}
  Bid = {b1, b2}
  Workers = {w1}
  None = None
  Rest = Rest
  NoOffer = NoOffer
  MaxEvents = 1
  Remote = {}
  Debug = {}
\* all requests answered or no engine left: nothing more happens
CHECK_DEADLOCK FALSE
PROPERTIES EveryRequestAnswered
