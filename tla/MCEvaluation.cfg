CONSTANTS
    None = None
    Undecodable = Undecodable
    Absent = Absent
    Conflicting = Conflicting
    s1 = s1
    s2 = s2
    Reads = {"r1", "r2", "r3"}
    Strict = {TRUE, FALSE}
    Count = 3
    Organizer = 1
    Quorum = 2
    Parts = 2
    Intents = {1, 2}
    Envelopes <- SomeEnvelopes
    Responses <- SomeResponses
    Proposals <- SomeProposals
    Authors = 2
    Turnout = 1
    StreamParts = 1
    MaxVisits = 2
    Setups <- SomeSetups
    Ballots <- SomeBallots
    Barriers <- SomeBarriers
    Program <- TargetProgram
    Foreign <- ForeignCopies
    Nil = Nil
    Holders = 3
    Targets <- SomeTargets
    VotePackets <- SomeVotes
    EnvelopePackets <- SomeShares
    Partials <- SomePartials
    ProofPieces <- SomePieces
    OperandParts = 2
    MaxFaults = 4
    Unset = Unset
    Subjects = {"barrier", "classification", "keyed work", "batched work", "engine", "tight engine", "program", "target", "completion"}
SPECIFICATION RunSpec
INVARIANTS
    BarrierFixed
    TargetSound
    EvaluationRight
    CompletionSound
PROPERTIES
    StepsHold
