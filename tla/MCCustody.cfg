CONSTANTS
    w1 = w1
    w2 = w2
    d1 = d1
    d2 = d2
    s1 = s1
    s2 = s2
    o = o
    h1 = h1
    h2 = h2
    x = x
    early = early
    late = late
    first = first
    second = second
    t1 = t1
    t2 = t2
    NoMessage = NoMessage
    Ballots = {early, late}
    BallotTime <- BallotTimes
    Intents = {first, second}
    CloseTime <- CloseTimesOfIntents
    Targets = {t1, t2}
    ResultTargets = {t1, t2}
    BodyChunks = 2
    Workers = {w1, w2}
    IsOrganizer = TRUE
    Decisions = {d1, d2}
    Seeds = {s1, s2}
    MaxEvents = 1
    Subjects = {"custody", "close log", "credential"}
SYMMETRY Symmetries
SPECIFICATION RunSpec
INVARIANTS
    FramesKept
    LogFaithful
    OwnBallotListed
    SignedAgree
PROPERTIES
    CustodyForward
