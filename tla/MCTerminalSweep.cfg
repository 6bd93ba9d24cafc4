CONSTANTS
    Viewers = {v1}
    Admin = Admin
    NoOne = NoOne
    Requests = {"agent", "sweep"}
    ConnectTimeout = 0
    IdleTimeout = 0
    MaxDuration = 0
    HasEvidence = TRUE
    MaxRecording = 1
    MaxReads = 1
    MaxNow = 1
    MaxRestarts = 0
SPECIFICATION Spec
CHECK_DEADLOCK FALSE
INVARIANTS
    SlotHeld
    FramesKept
PROPERTIES
    EndedStaysEnded
