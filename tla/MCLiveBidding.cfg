\* one bidding thread beside the update thread, reports and two midnights
SPECIFICATION LiveSpec
CONSTANTS
  Units <- MCUnits
  LastDay = 1
  LastHour = 1
  UsingTime = 0
  Word = 8
  Books <- MCBooks
  Reports <- MCReports
  Bidders = {b1}
  Requests <- MCRequests
  Users <- MCUsers
  Plans <- MCBooks
  Times <- MCTimes
  TanxDescriptions = {}
  MaskBits = 1
  Baidu = 2
  TanX = 3
  FloorFree = {}
  Weight = 70
  VipPrice = 50
INVARIANTS OfferIsScheduled
PROPERTIES BidsAreChecked
