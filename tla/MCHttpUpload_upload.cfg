SPECIFICATION Spec
CONSTANTS
  Urls = {"/post"}
  Codes = {}
  Boundaries = {"A", "B"}
  NoBoundary = "no boundary"
  Data = {"x", "y", "z"}
  Keys <- MCKeys
  Lower <- MCLower
  Values <- MCValues
  Workers = {"w1", "w2"}
  Plans <- MCPlans
  Packets0 <- MCPackets
  Serial <- SerialPlans
  MaxConnects = 3
INVARIANTS TypeOK OneItemPerKey KindAgrees SizesAgree WireFaithful
