\* one thread of a remote engine; Baidu is exchange 1, TanX 2
SPECIFICATION RemoteSpec
CONSTANTS
  Bidders = {b1}
  Requests <- MCRequests
  Users <- MCUsers
  Plans <- MCPlans
  Times <- MCTimes
  TanxDescriptions = {}
  MaskBits = 1
  Baidu = 1
  TanX = 2
  FloorFree = {2}
  Weight = 70
  VipPrice = 50
  KeyBytes = 1
  UnpackMax = 50
  PackMax = 80
INVARIANTS RemoteSuits OfferFitsRequest
PROPERTIES AnswerIsOffer
