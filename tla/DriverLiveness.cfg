CONSTANTS
    Text <- AllText
    EmptyText = ""
    key1 = key1
    sign1 = sign1
    NoKey = NoKey
    Malformed = Malformed
    SigningKeys = {sign1}
    MasterKeys = {key1}
    Boots <- OneKeyBoots
    InitialFiles <- SomeFiles
    Patches <- RepairPatches
    WriteFailures = TRUE
    MaxCrashes = 1
    Binaries <- Cli
    Catalogues <- EmptyCatalogue
    EnvApiKey <- NoApiKey
SPECIFICATION FairDriverSpec
PROPERTIES FailedBootRecovers RepairTakesEffect
