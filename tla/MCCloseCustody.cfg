CONSTANTS
  o = o
  h1 = h1
  h2 = h2
  x = x
  Participants <- Four
  Corrupt = {x}
  Organizer = o
  Times = {1}
  Voters = {}
  CloseTimes = {1}
  CorruptEnvelopes <- Many
  Bodiless = {}
  MaxProposals = 0
  MaxCollected = 3
SYMMETRY HonestSymmetry
SPECIFICATION CloseSpec
CHECK_DEADLOCK FALSE
INVARIANTS
    CustodyBounded
