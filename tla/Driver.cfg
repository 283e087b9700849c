CONSTANTS
    Text <- AllText
    EmptyText = ""
    key1 = key1
    sign1 = sign1
    NoKey = NoKey
    Malformed = Malformed
    SigningKeys = {sign1}
    MasterKeys = {key1}
    Boots <- AllBoots
    InitialFiles <- AllFiles
    Patches <- AllPatches
    WriteFailures = TRUE
    MaxCrashes = 2
    Binaries <- Cli
    Catalogues <- SomeCatalogues
    EnvApiKey <- NoApiKey
SPECIFICATION DriverSpec
INVARIANTS
    DriverTypeOK NothingPendingMeansCurrent ListedModelsBuild InfoFitsProvider
    TestPredictsRestart
