\* one bidding thread is enough
SPECIFICATION Spec
CONSTANTS
  Bidders = {b1}
  None = None
  Gone = Gone
INVARIANTS FiltersHoldLiveUnits
