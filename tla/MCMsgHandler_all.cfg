SPECIFICATION FairSpec
CONSTANTS
  Urls <- MCUrls
  Codes = {200}
  Boundaries = {"B"}
  NoBoundary = "no boundary"
  Data = {"x", "y", "z"}
  Routines <- MCRoutines
  NoRoutine = "no routine"
  NoUrl = "no url"
  OtherUrl = "another word"
  Route <- MCRoute
  WsServed <- WsScripts
  Scripts <- AllScripts
  Garbage <- MCGarbage
  RecvMax = 12
INVARIANTS TypeOK HandlerReady CleanBetween NormalKept FramesOnce WsAfterUpgrade
PROPERTIES NoCallAfterFalse DeliverySpec FramesHandled
