SPECIFICATION FairSpec
CONSTANTS
  Urls <- MCUrls
  Codes = {200}
  Boundaries = {"B"}
  NoBoundary = "no boundary"
  Data = {"x", "y", "z"}
  Routines <- MCRoutines
  NoRoutine = "no routine"
  NoUrl = "no url"
  OtherUrl = "another word"
  Route <- MCRoute
  WsServed <- NoScripts
  Scripts <- TextScripts
  Garbage <- MCGarbage
  RecvMax = 12
PROPERTIES Served
