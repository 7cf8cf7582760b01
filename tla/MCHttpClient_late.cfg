SPECIFICATION FairSpec
CONSTANTS
  Urls = {}
  Codes = {101, 200, 404}
  Boundaries = {"B"}
  NoBoundary = "no boundary"
  Data = {"x", "y", "z"}
  NoCode <- MCNoCode
  Scripts <- HastyScripts
  Garbage <- MCGarbage
  RecvMax = 12
  Timed <- HastyScripts
  Hasty <- HastyScripts
  MaxCalls = 5
INVARIANTS OwnAnswer
