SPECIFICATION FairSpec
CONSTANTS
  c1 = c1
  c2 = c2
  j1 = j1
  j2 = j2
  None = None
  Last = 3
  Content <- TwoContents
  Runner <- TwoRunners
  Attempts = 3
  MaxEdits = 3
  MaxFaults = 1
INVARIANTS
  TypeOK
  RecordedWasApplied
  DoneMeansRecorded
  GivesUpRightly
PROPERTIES
  InOrder
  JobSucceeds
