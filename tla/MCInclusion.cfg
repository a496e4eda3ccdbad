CONSTANTS
  o = o
  h1 = h1
  h2 = h2
  x = x
  Participants <- Four
  Corrupt = {o}
  Organizer = o
  Times = {1}
  Voters = {h1, h2}
  CloseTimes = {0, 1}
  CorruptEnvelopes <- ValidEnvelope
  Bodiless = {}
  Invalid = {}
  MaxProposals = 1
  MaxCollected = 0
SYMMETRY TwoVoters
SPECIFICATION Spec
CHECK_DEADLOCK FALSE
INVARIANT InclusionStatusAgrees
