SPECIFICATION Spec
CONSTANTS
    Key = {k1, k2}
    Null = Null
    Failure = Failure
    Request = {r1, r2}
    MaxSaves = 2
    MaxDeploys = 2
SYMMETRY Alike
INVARIANTS
    SettingsInv
    SecretsReadableExactly
    PdpTokenIsNeverGarbled
    SaveIsShown
    LoadingMeansWaiting
