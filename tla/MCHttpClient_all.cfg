SPECIFICATION FairSpec
CONSTANTS
  Urls = {}
  Codes = {101, 200, 404}
  Boundaries = {"B"}
  NoBoundary = "no boundary"
  Data = {"x", "y", "z"}
  NoCode <- MCNoCode
  Scripts <- AllScripts
  Garbage <- MCGarbage
  RecvMax = 12
  Timed <- TimedAnswers
  Hasty <- HastyScripts
  MaxCalls = 5
INVARIANTS TypeOK SameResponse OwnAnswerInTime NoFormatError FormatIsFinal
PROPERTIES DeliverySafe Returns
