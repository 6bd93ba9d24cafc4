CONSTANTS
    p1 = p1
    p2 = p2
    p3 = p3
    Ids = {i1, i2}
    Endpoints = {e1, e2}
    Digests = {d1, d2}
    Posts <- MCPosts
    NoRow = NoRow
SPECIFICATION Spec
CHECK_DEADLOCK FALSE
INVARIANTS
    TakenByOnePost
    JobIsTheReservedOne
    
