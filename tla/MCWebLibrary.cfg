\* Two sessions; one item per page, so that a reset lists several pages.
SPECIFICATION FairSpec
CONSTANTS
  k = k
  a = a
  n = n
  s1 = s1
  s2 = s2
  Nothing = Nothing
  Sessions <- TwoSessions
  Listing <- MCListing
  Keyless = {k}
  InLibrary = {k, a}
  PageSize = 1
INVARIANTS
  TypeOK
  DeletedMeansGone
  ResetIsComplete
  CountedIsDeleted
PROPERTIES
  EveryOperationEnds
