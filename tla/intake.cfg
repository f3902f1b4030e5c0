SPECIFICATION IntakeSpec
CONSTANTS
  ann = ann
  bob = bob
  cat = cat
  shopA = shopA
  shopB = shopB
  codeA = codeA
  codeB = codeB
  codeC = codeC
  bill = bill
  Users = {ann, bob, cat}
  Tenants = {shopA, shopB}
  Codes = {codeA, codeB, codeC}
  Issuer <- CodesOfShops
  Linked <- CatInShop
  Updates <- Messages
  Arrivals <- Scenarios
  Replicas = {g1, g2}
  Lanes = {lane}
  Workers = {w1, w2}
  Readings = {r1, r2}
  Attempts = 2
  Nothing = Nothing
  NoJob = NoJob
  MaxFaults = 2
SYMMETRY Symmetry
CHECK_DEADLOCK FALSE
INVARIANTS IntakeTypeOK OneTenantOneUse OneJobPerMessage AcceptedIsIssued
INVARIANTS PhotoMappedOnce MappedIsStored
INVARIANTS  UnmappedCostFaults AcceptedBecomesInvoice
