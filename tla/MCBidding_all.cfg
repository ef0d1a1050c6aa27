\* one bidding thread; Baidu is exchange 1, TanX 2, Youku 3
SPECIFICATION BidSpec
CONSTANTS
  Bidders = {b1}
  Requests <- MCRequests
  Users <- MCUsers
  Plans <- MCPlans
  Times <- MCTimes
  TanxDescriptions <- MCTanx
  MaskBits = 1
  Baidu = 1
  TanX = 2
  FloorFree = {3}
  Weight = 70
  VipPrice = 50
INVARIANTS ResultSuits OfferIsAllowed OfferCanBeBuilt OfferIsWorthIt MarksAreMet
