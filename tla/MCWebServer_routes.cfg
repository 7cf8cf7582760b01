SPECIFICATION Spec
CONSTANTS
  Clients = {c1, c2}
  Urls <- MCUrls
  Wild <- MCWild
  Order <- MCOrder
  Matches <- MCMatches
  Length <- MCLength
  MaxLength = 3
  Question <- MCQuestion
  AllFiles = "/*"
  Routines = {"r1", "r2", "r3"}
  Settings <- MCSettings
  Dirs = {"web", "doc"}
  Files <- MCFiles
  Requests <- MCRequests
  MaxSettings = 4
INVARIANTS TypeOK ListeningServed OneRoutine ReadersFresh BodyMatchesHeader
PROPERTIES ChosenBest
