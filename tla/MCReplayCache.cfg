CONSTANTS
    g1 = g1
    g2 = g2
    g3 = g3
    g4 = g4
    NoGrant = NoGrant
    Grants <- MCGrants
    Nonce <- MCNonce
    IssuedAt <- MCIssuedAt
    ExpiresAt <- MCExpiresAt
    Grace = 1
    CacheMax = 2
    MaxTime = 3
    MaxAccepts = 2
SPECIFICATION Spec
CHECK_DEADLOCK FALSE
INVARIANTS
    AcceptedOnceInWindow
    CacheBounded
    NonceUsedOnce
