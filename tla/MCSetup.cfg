CONSTANTS
    Own = mine
    Foreign = {other}
    SigningPurposes = {offerKey, ballotKey}
    Preparation = {offerKey}
    KeyChunks = 2
    Families = 2
    MaxFaults = 3
    Absent = Absent
    o = o
    h1 = h1
    h2 = h2
    x = x
    a = a
    b = b
    c = c
    a1 = a1
    a2 = a2
    Nothing = Nothing
    Polynomials = 2
    Checkpoints = 2
    Proofs = 2
    MaxVisits = 4
    Offers <- SignedOffers
    PositionOf <- OnePosition
    Valid <- ValidOffers
    Contributors = 1
    Members = {1}
    Participants = {o, h1, h2, x}
    Corrupt = {o}
    Organizer = o
    Proposable = {a, b, c}
    Sound = {a, b}
    MaxRosters = 2
    Shards = {1, 2}
    Positions = {1, 2}
    Candidates <- Records
    Identity <- IdentityOf
    Signer <- IdentityOf
    Parts <- PartsOf
    OrganizerKey = 1
    OwnIdentity = 1
    RegistrationKeyChunks = 1
    SourceChunks = 1
    MaxSessions = 2
    NoRoster = NoRoster
    GeneratorSeeds = {1, 2}
    Gadgets = 1
    Recipients = 2
    Columns = 0
    Lookups = 0
    StatementLength = 4
    Predecessors = {0}
    Committed = 2
    CheckpointRecords = 2
    Layers = 1
    Rows = 2
    NoWork = NoWork
    Subjects = {"session", "enrollment", "roster", "contribution", "prover", "offer verifier", "aggregator", "published aggregate", "agreement"}
SPECIFICATION RunSpec
INVARIANTS
    SessionSound
    OneSetup
    MembersBound
    OfferReproduced
    EnrollmentWhole
    RosterSound
    OfferProofs
    OffersExact
PROPERTIES
    SettledForGood
