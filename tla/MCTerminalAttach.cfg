CONSTANTS
    Viewers = {v1, v2}
    Admin = Admin
    NoOne = NoOne
    Requests = {"agent", "detach"}
    ConnectTimeout = 1
    IdleTimeout = 1
    MaxDuration = 2
    HasEvidence = FALSE
    MaxRecording = 1
    MaxReads = 0
    MaxNow = 0
    MaxRestarts = 0
SPECIFICATION Spec
SYMMETRY ViewerSymmetry
CHECK_DEADLOCK FALSE
INVARIANTS
    OneOperator
    OperatorIsFed
    SuccessorLeftAlone
