SPECIFICATION Spec
CONSTANTS
    Missing = Missing
    IntMod = 65536
    Files <- MCFiles
PROPERTY CtrlCExits
CHECK_DEADLOCK FALSE
