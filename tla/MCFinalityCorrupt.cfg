CONSTANTS
  o = o
  h1 = h1
  h2 = h2
  x = x
  Participants <- Four
  Corrupt = {o}
  Organizer = o
  Times = {1}
  Voters = {h1, h2, x}
  CloseTimes = {0, 1}
  CorruptEnvelopes <- OrganizerEnvelopes
  Bodiless = {}
  Invalid <- InvalidEnvelope
  MaxProposals = 2
  MaxCollected = 0
SYMMETRY CorruptOrganizerSymmetry
SPECIFICATION Spec
CHECK_DEADLOCK FALSE
INVARIANTS
    CertifiedTargetUnique
    RecoveredResultProtected
PROPERTIES
    TargetLockKept
    ImplementsOutcome
