CONSTANTS
    MaxBytes <- MCMaxBytes
    Room = 1
    Timeout = 2
SPECIFICATION FairSpec
INVARIANTS
    WindowFollowsDelivery
    IdleBounded
PROPERTIES
    OnlyIdlePipesTimeOut
    ImplementsRelay
    Progress
