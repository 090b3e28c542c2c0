SPECIFICATION Spec
CONSTANTS
    Missing = Missing
    IntMod = 65536
    Files <- MCFiles
PROPERTY ReconnectAttempted
CHECK_DEADLOCK FALSE
