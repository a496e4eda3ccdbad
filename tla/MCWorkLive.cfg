CONSTANTS
    None = None
    Undecodable = Undecodable
    Absent = Absent
    Conflicting = Conflicting
    s1 = s1
    s2 = s2
    Reads = {"r1", "r2", "r3"}
    Strict = {TRUE, FALSE}
    Count = 3
    Organizer = 1
    Quorum = 2
    Parts = 2
    Intents = {1, 2}
    Envelopes <- SomeEnvelopes
    Responses <- SomeResponses
    Proposals <- SomeProposals
    Authors = 2
    Turnout = 1
    StreamParts = 1
    MaxVisits = 2
    Setups <- SomeSetups
    Ballots <- SomeBallots
    Barriers <- SomeBarriers
    Program <- TargetProgram
    Foreign <- ForeignCopies
    Nil = Nil
    Holders = 3
    Targets <- SomeTargets
    VotePackets <- SomeVotes
    EnvelopePackets <- SomeShares
    Partials <- SomePartials
    ProofPieces <- SomePieces
    OperandParts = 2
    MaxFaults = 5
    Unset = Unset
    Subjects = {"served work", "served engine", "served completion", "one helper", "two helpers", "small hash", "transaction", "small discovery", "hostile discovery", "small publication"}
SPECIFICATION FairRunSpec
PROPERTIES
    WorkProgress
