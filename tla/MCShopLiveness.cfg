SPECIFICATION FairSpec
CONSTANTS
  pills = pills
  soap = soap
  comb = comb
  old = old
  b1 = b1
  b2 = b2
  b3 = b3
  b4 = b4
  p1 = p1
  p2 = p2
  q1 = q1
  q2 = q2
  q3 = q3
  q4 = q4
  Free = Free
  Opening = Opening
  Product <- MCProduct
  Batch <- MCBatch
  Purchase <- MCPurchase
  Request = {q1, q2, q3}
  ProductOf <- MCProductOf
  TracksExpiry <- MCTracks
  PkRank <- MCPkRank
  FefoRank <- MCFefoRank
  Expired <- MCExpired
  OpeningStock <- TillStock
  PurchaseLines <- ShelfLines
  JobsOf <- LiveJobs
PROPERTIES
  EveryRequestAnswered
CHECK_DEADLOCK FALSE
