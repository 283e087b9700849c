CONSTANTS
    Text <- AllText
    EmptyText = ""
    key1 = key1
    sign1 = sign1
    sign2 = sign2
    c1 = c1
    r1 = r1
    NoKey = NoKey
    Malformed = Malformed
    MasterKeys = {key1}
    SigningKeys = {sign1, sign2}
    Times = {0, 1}
    Tokens <- SomeTokens
    Boots <- SomeBoots
    InitialFiles <- Files
    Patches <- SomePatches
    WriteFailures = FALSE
    MaxCrashes = 1
    Binaries <- BothClis
    Catalogues <- EmptyCatalogue
    EnvApiKey <- AnApiKey
    Requests <- OneRequest
    Calls <- OneCall
    Helpers = TRUE
    WaitKinds <- PipesWait
    ConnectTimeout = 1
    Timeout = 1
SPECIFICATION FairServiceSpec
CHECK_DEADLOCK FALSE
INVARIANTS ServiceTypeOK OrphansOnlyFromExits
PROPERTIES OperatorsDecide CallsHaveOneOutcome CallsAreAnswered RestartIsNotHeldUp
