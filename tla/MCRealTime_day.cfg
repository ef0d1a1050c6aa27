\* two orders, two days of two hours, reports in any order
SPECIFICATION FairSpec
CONSTANTS
  Units <- MCUnits
  LastDay = 1
  LastHour = 1
  UsingTime = 1
  Word = 8
  Books <- MCBooks
  Reports <- MCReports
INVARIANTS TypeOK UnknownIsUnderway OkFollowsOrders
PROPERTIES OnlyReportsAdmit UncheckedEnds
