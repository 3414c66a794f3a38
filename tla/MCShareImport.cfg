CONSTANTS
  a = a
  b = b
  c = c
  Album = album
  Auth = auth
  NoKey = none
  Uploads <- MCUploads
  InLibrary = {a, b}
SPECIFICATION FairSpec
INVARIANTS
  TypeOK
  CompletedIsSaved
PROPERTIES
  PollingEnds
CHECK_DEADLOCK FALSE
