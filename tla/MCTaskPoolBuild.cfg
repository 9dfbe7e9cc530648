SPECIFICATION FairSpec
CONSTANTS
  p1 = p1  p2 = p2  r1 = r1
  Builders = {p1, p2}
  Readers = {r1}
  Events <- MCEvents
  Histories <- MCHistories
  Repeat = 2
  MaxBuilds = 2
  MaxFaults = 2
  Absent = Absent
CHECK_DEADLOCK FALSE
INVARIANTS PublishedIsCertified KeptStays
PROPERTIES PublicationEnds FrozenGetsPublished
