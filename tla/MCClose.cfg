CONSTANTS
  o = o
  h1 = h1
  h2 = h2
  x = x
  Participants <- Four
  Corrupt = {x}
  Organizer = o
  Times = {1}
  Voters = {h1, h2}
  CloseTimes = {1}
  CorruptEnvelopes <- Conflicting
  Bodiless <- OnlyBodiless
  MaxProposals = 0
  MaxCollected = 2
SYMMETRY HonestSymmetry
SPECIFICATION CloseSpec
CHECK_DEADLOCK FALSE
INVARIANTS
    OmissionBounded
    ProtectedBallots
    CloseWorkable
