SPECIFICATION FairSpec
CONSTANTS
    Requests = {r1}
    NoRouter = NoRouter
    MaxVersion = 3
    Configs <- MCConfigs
    Files = {"mint", "kem", "ecdh"}
    MaxGeneration = 2
    Jobs = {j1, j2}
    NoToken = NoToken
    MaxToken = 3
    MaxEdit = 1
    MaxCrash = 1
INVARIANTS
    SettledMeansCurrent
    MixedOnlyWhileWriting
    NeverBackToDefaults
    SettledKeysAreLive
    WholeConfigurations
    SettledTokensAreLive
    RotationRefusesNoJob
PROPERTY
    ReloadTakesEffect
