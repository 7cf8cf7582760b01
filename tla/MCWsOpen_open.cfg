SPECIFICATION OpenFairSpec
CONSTANTS
  Urls <- MCUrls
  Codes = {101, 404}
  Boundaries = {"B"}
  NoBoundary = "no boundary"
  Data = {"x", "y", "z"}
  Routines = {"routine"}
  NoRoutine = "no routine"
  NoUrl = "no url"
  OtherUrl = "another word"
  NoCode <- MCNoCode
  Route <- MCRoute
  Scripts <- MCScripts
  WsServed <- ServedScripts
  Quiet <- QuietScripts
  Pushes <- MCPushes
  MaxPushes = 3
  Garbage <- MCGarbage
  RecvMax = 12
INVARIANTS OpenAgrees FramesKept NothingBehindUpgrade
PROPERTIES Opens
