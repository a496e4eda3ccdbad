CONSTANTS
  o = o
  h1 = h1
  h2 = h2
  x = x
  Participants <- Four
  Corrupt = {x}
  Organizer = o
  Times = {1, 2}
  Voters = {o, h1, h2}
  CloseTimes = {1}
  CorruptEnvelopes <- ConflictingEnvelopes
  Bodiless <- BodilessEnvelope
  Invalid = {}
  MaxProposals = 0
  MaxCollected = 0
SPECIFICATION FairSpec
CHECK_DEADLOCK FALSE
INVARIANTS
    InclusionStatusAgrees
PROPERTIES
    PollCompletes
