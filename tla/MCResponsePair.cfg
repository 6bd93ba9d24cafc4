CONSTANTS
    j1 = j1
    j2 = j2
    j3 = j3
    e1 = e1
    NoKey = NoKey
    NoOffer = NoOffer
    Jobs <- MCPair
    Endpoints = {e1}
    Endpoint <- MCEndpoint
    Kind <- MCKindInline
    Key <- MCKey
    Size <- MCSize
    Phases = {"running"}
    OfferBytesMax = 2
    OfferAttemptsMax = 1
    MaxOffers = 2
    Agent = e1
    AgentKinds <- MCAgentKinds
    InlineKinds = {"forensic_collection"}
    Refused = {}
    BadPayload = {j1}
    MaxJobs = 2
    Faults = {"reply", "ack", "spawn", "crash", "cache", "result"}
SPECIFICATION DFairSpec
CHECK_DEADLOCK FALSE
INVARIANTS
    TakenIsSomebodys

    
