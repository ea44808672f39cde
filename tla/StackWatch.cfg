SPECIFICATION WatchSpec
CONSTANTS
    None = None
    ArchiveOffered <- FiveSettings
    ArchiveBoard = 2
    ArchivePrologue = 1
    ArchiveLog = 4
    ArchivePosts = 3
    ArchiveEpochs = 3
    DrillWindow = 3
    DrillDrafts = 1
    OutagePolicies <- TwoPolicies
    OutageStarter <- Dark
    OutageSlots = {s1, s2}
    OutageLedger = 1
    OutageChanges = 2
    PortalStarting <- SoundOrEmpty
    PortalPalette <- SmallPalette
    PortalEdits = 1
    PortalWritten = 1
    Facts <- DayFacts
    Needs <- DayNeeds
    Secure <- DaySecure
    Plan <- DayPlan
    OpensAt <- DayProbes
    Requested <- DayRequested
    Hold = 1
    DarkShare = 3
    MaxTime = 3
    MaxTicks = 2
INVARIANTS
    DaySafe
    RelaySafe
    RecoverSafe
    DefendSafe
    ExposureSafe
CHECK_DEADLOCK FALSE
