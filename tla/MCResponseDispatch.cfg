CONSTANTS
    j1 = j1
    j2 = j2
    j3 = j3
    e1 = e1
    NoKey = NoKey
    NoOffer = NoOffer
    Jobs <- MCJobs
    Endpoints = {e1}
    Endpoint <- MCEndpoint
    Kind <- MCKind
    Key <- MCKey
    Size <- MCSize
    Phases = {"running"}
    OfferBytesMax = 2
    OfferAttemptsMax = 3
    MaxOffers = 2
    Agent = e1
    AgentKinds <- MCAgentKinds
    InlineKinds = {"forensic_collection"}
    Refused = {}
    BadPayload = {}
    MaxJobs = 1
    Faults = {"reply", "ack", "dup", "beat", "result", "spawn", "crash", "cache"}
SPECIFICATION DFairSpec
CHECK_DEADLOCK FALSE
INVARIANTS
    RunsAtMostOnce
    WithdrawnNeverRuns
    WorkerHoldsJob
    ResultsFindTheirJob
    SucceededRan
PROPERTIES
    EndsUnlessLost
