SPECIFICATION FairSpec
CONSTANTS
  Domains = {"purchase_orders", "product_on_orders"}
  MaxFailures = 1
INVARIANTS GoldInv
PROPERTIES OrphansAreRaces ItemsAreJudged GoldCatchesUp
