CONSTANTS
    c1 = c1
    c2 = c2
    Calls <- TwoCalls
    ConnectTimeout = 1
    Timeout = 2
SPECIFICATION FairSpec
CHECK_DEADLOCK FALSE
PROPERTY HttpCallsEnd
