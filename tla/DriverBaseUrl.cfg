CONSTANTS
    Text <- AllText
    EmptyText = ""
    key1 = key1
    sign1 = sign1
    NoKey = NoKey
    Malformed = Malformed
    SigningKeys = {sign1}
    MasterKeys = {key1}
    Boots <- OneKeyBoots
    InitialFiles <- CustomFile
    Patches <- ProviderPatches
    WriteFailures = FALSE
    MaxCrashes = 0
    Binaries <- Cli
    Catalogues <- EmptyCatalogue
    EnvApiKey <- NoApiKey
SPECIFICATION DriverSpec
INVARIANT NamedProviderUrl
