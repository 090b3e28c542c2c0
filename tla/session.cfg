SPECIFICATION Spec
CONSTANTS
    Missing = Missing
    IntMod = 65536
    Files <- MCFiles
INVARIANTS TypeOK StatsReadAlone HeartbeatOnlyInSession HeartbeatStartedOnce CleanExitAfterConnection AtMostOneAttempt
PROPERTIES SignalStopsSession ImplementsLifecycle
CHECK_DEADLOCK FALSE
