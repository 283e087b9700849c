CONSTANTS
    c1 = c1
    c2 = c2
    Calls <- OneCall
    Helpers = FALSE
    WaitKinds <- BothWaits
SPECIFICATION Spec
CHECK_DEADLOCK FALSE
INVARIANT TimeoutRaisesCliError
