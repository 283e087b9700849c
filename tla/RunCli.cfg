CONSTANTS
    c1 = c1
    c2 = c2
    Calls <- TwoCalls
    Helpers = TRUE
    WaitKinds <- BothWaits
SPECIFICATION FairSpec
CHECK_DEADLOCK FALSE
INVARIANTS TypeOK NoChildLeftRunning ResultMeansAllGone
PROPERTIES ImplementsEngineCall CallsEnd
