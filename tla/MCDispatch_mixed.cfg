\* a local and a remote engine, two workers, connections break
SPECIFICATION Spec
CONSTANTS
  Request = {r1, r2}
  Para = {p1, p2}
  Bid = {b1, n1}
  Workers = {w1, w2}
  None = None
  Rest = Rest
  NoOffer = NoOffer
  MaxEvents = 1
  Remote = {n1}
  Debug = {r2}
\* all requests answered or no engine left: nothing more happens
CHECK_DEADLOCK FALSE
SYMMETRY Symmetry
INVARIANTS DispatchInv OwnAnswer ActiveCounts
