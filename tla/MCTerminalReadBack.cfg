CONSTANTS
    Viewers = {v1}
    Admin = Admin
    NoOne = NoOne
    Requests = {"agent", "close"}
    ConnectTimeout = 1
    IdleTimeout = 1
    MaxDuration = 2
    HasEvidence = TRUE
    MaxRecording = 4
    MaxReads = 2
    MaxNow = 0
    MaxRestarts = 0
SPECIFICATION Spec
CHECK_DEADLOCK FALSE
INVARIANTS
    ReadsWholeRecording
