SPECIFICATION PreflightSpec
CONSTANTS
    MaxOutput = 3
    ReadSize = 2
    PipeSize = 2
    MaxWritten = 3
    Backlog = 2
    MaxClients = 2
    MaxEdits = 1
    Missing = Missing
    Torn = Torn
CHECK_DEADLOCK FALSE
INVARIANTS PreflightTypeOK ContainerStopsFirst NothingLeftRunning OneTamperIsCaught DockerGateIsEarned 
PROPERTIES ContractSpec 
