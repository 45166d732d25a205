CONSTANTS
  r1 = r1
  r2 = r2
  t1 = t1
  Readers = {r1, r2}
  Tags = {t1}
  NoReader = NoReader
  RandomTime = {r2}
  MaxAnswers = 3
  MaxLost = 2
SPECIFICATION FairSpec
INVARIANTS TypeOK SilentOnlyWhenHeard HeardOncePerVisit
PROPERTY EachReaderTracks
