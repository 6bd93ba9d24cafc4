CONSTANTS
    Viewers = {v1}
    Admin = Admin
    NoOne = NoOne
    Requests = {"close", "sweep"}
    ConnectTimeout = 0
    IdleTimeout = 0
    MaxDuration = 0
    HasEvidence = FALSE
    MaxRecording = 1
    MaxReads = 0
    MaxNow = 1
    MaxRestarts = 1
SPECIFICATION FairSpec
CHECK_DEADLOCK FALSE
PROPERTIES
    AlwaysEnds
    RecordingCloses
