CONSTANTS
    Text <- AllText
    EmptyText = ""
    key1 = key1
    key2 = key2
    sign1 = sign1
    NoKey = NoKey
    Malformed = Malformed
    SigningKeys = {sign1}
    MasterKeys = {key1, key2}
    Boots <- KeyedBoot
    InitialFiles <- AllFiles
    Patches <- AllPatches
    WriteFailures = FALSE
SPECIFICATION Spec
PROPERTY ImplementsDurableConfig
