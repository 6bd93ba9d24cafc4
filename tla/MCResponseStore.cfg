CONSTANTS
    j1 = j1
    j2 = j2
    j3 = j3
    e1 = e1
    e2 = e2
    k1 = k1
    NoKey = NoKey
    Jobs <- MCJobs
    Endpoints <- MCEndpoints
    Endpoint <- MCEndpoint
    Kind <- MCKind
    Key <- MCKey
    Size <- MCSize
    Phases = {"running", "stalled"}
    OfferBytesMax = 3
    OfferAttemptsMax = 2
    MaxOffers = 2
SPECIFICATION Spec
CHECK_DEADLOCK FALSE
INVARIANTS
    OfferedWithinLimit
    
    SupervisedWasTaken
    
PROPERTIES
    KeepsContract
