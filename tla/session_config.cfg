SPECIFICATION Spec
CONSTANTS
    Missing = Missing
    IntMod = 65536
    Files <- MCFiles
INVARIANT AttemptsAsConfigured
CHECK_DEADLOCK FALSE
