CONSTANTS
    j1 = j1
    j2 = j2
    j3 = j3
    e1 = e1
    e2 = e2
    k1 = k1
    NoKey = NoKey
    Jobs <- MCJobs
    Endpoints = {e1}
    Endpoint <- MCEndpoint
    Kind <- MCKind
    Key <- MCNoKeys
    Size <- MCSize
    Phases = {"running"}
    OfferBytesMax = 3
    OfferAttemptsMax = 2
    MaxOffers = 2
SPECIFICATION WaitSpec
CHECK_DEADLOCK FALSE
PROPERTIES
    NeverStuckOpen
