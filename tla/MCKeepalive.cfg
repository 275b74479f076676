SPECIFICATION Spec
CONSTANTS
    Configs <- MCConfigs
    Off = Off
INVARIANTS
    TypeOK
    AnsweringPeerKept
    SilentPeerDropped
CHECK_DEADLOCK FALSE
