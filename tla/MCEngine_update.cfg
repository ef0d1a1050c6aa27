\* one bidding thread, for bids only read; orders change whenever they do
SPECIFICATION FairSpec
CONSTANTS
  Bidders = {b1}
  None = None
  Gone = Gone
INVARIANTS EngineInv BidsReadLiveData BuildReadsLivePids NoOrderMissed
PROPERTIES LostOnlyUnbuilt OrdersReachBids
