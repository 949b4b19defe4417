SPECIFICATION FairSpec
CONSTANTS
    systemCount = 3
    ConnectTimeout = {2}
    MaxFaults = 2
INVARIANTS CountIsOwnLinks RolesAgree
PROPERTIES ReturnsWhenLinked Interconnects HeldUpOnlyByDead
CHECK_DEADLOCK FALSE
