SPECIFICATION HelmSpec
CONSTANTS
    db = db  gateway = gateway  p1 = p1  None = None
    HookOrder <- TwoHooks  Kind <- TwoKinds  CA = db  Values <- GatewayValues
    FailAt <- DbLost  MaxRevisions = 3  MaxFaults = 1
INVARIANT UpgradeKeepsSecrets
CHECK_DEADLOCK FALSE
