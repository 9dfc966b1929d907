SPECIFICATION FairSpec
CONSTANTS
    Processes = {p1, p2}
    NoFile = NoFile
    Heartbeat = 1
    StaleAfter = 1
    MaxWait = 1
    Ahead <- ClocksAgree
    MaxJoins = 3
    MaxEvents = 1
CHECK_DEADLOCK FALSE

    
PROPERTIES
    HealthyHolderIsPreemptedLate
    EveryFlightEnds
