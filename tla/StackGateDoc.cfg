SPECIFICATION StackSpec
CONSTANTS
    None = None
    NightlyJob <- CountAndPublish
    Dangerous = {"export"}
    GrantSets <- SomeGrants
    Journal = 3
    Mintings = 1
    FeatureVisitors = {v1, v2}
    Pending = 2
    MostQueued = 2
    ProbesPerRun = 2
    Savings = 2
    SettingKeys = {"first", "second"}
    BoardPosts = 3
    BoardAsking = 1
    FrontSlots = {"first"}
    Routes <- PlayedRoutes
    BodySize = 1
    FaultsKept = 1
    Signatures = 1
    PageHolds = 3
    LotsImported = 1
    PostsMeanwhile = 1
    MaxDeploys = 3
    MaxVersion = 2
SYMMETRY VisitorSymmetry
INVARIANTS
    GateOfThisVersion
CHECK_DEADLOCK FALSE
