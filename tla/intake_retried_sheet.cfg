SPECIFICATION IntakeSpec
CONSTANTS
  ann = ann
  bob = bob
  cat = cat
  shopA = shopA
  shopB = shopB
  codeA = codeA
  codeB = codeB
  codeC = codeC
  bill = bill
  Users = {ann, bob, cat}
  Tenants = {shopA, shopB}
  Codes = {codeA, codeB, codeC}
  Issuer <- CodesOfShops
  Linked <- CatInShop
  Updates <- Messages
  Arrivals <- OneSheet
  Replicas = {g1, g2}
  Lanes = {lane}
  Workers = {w1, w2}
  Readings = {r1, r2}
  Attempts = 2
  Nothing = Nothing
  NoJob = NoJob
  MaxFaults = 1
CHECK_DEADLOCK FALSE
INVARIANTS OneInvoicePerFile
