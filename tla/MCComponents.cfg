CONSTANTS
    a = a
    b = b
    c = c
    u = u
    p1 = p1
    p2 = p2
    Starts = Starts
    Ends = Ends
    NotSet = NotSet
    Procs = {p1, p2}
    NeedDays <- MCNeedDays
    NeedVolume <- MCNeedVolume
    Minute = 2
    Hour = 4
    Day = 16
    Zones <- MCZones
    Now <- MCNow
    Requests <- MCRequests
    Responses <- MCResponses
    BundleEvidence = {"e1"}
    AttributeSettings <- MCAttributeSettings
    Required = {a}
    MaxByHand = 1
    MaxResponses = 2
    SourceDay = 4
    SourceZone <- MCSourceZone
    Dates = {0, 1, 2}
    Today = 0
    SourceEvents <- MCSourceEvents
    SourceEdits <- MCSourceEdits
    SourceCommits <- MCSourceCommits
    CommitLimit = 2
    MaxSourceEdits = 2
    Typed <- MCTyped
    Listed <- MCListed
    Keys <- MCKeys
    Files = {1, 2}
    Fixtures <- MCFixtures
    RequiredTags = {"dst", "sparse"}
    MinimumDays = 2
    Material = {"issue", "startedAt", "durationMinutes"}
    LocalDates = {0}
    PhaseNames <- MCPhaseNames
    LastDay = 2
    NormalizedDays = 0
    ReportDays = 1
    Batches <- MCBatches
    Sound = {a, b}
    Clashes <- MCClashes
    Outages = TRUE
    HookEvents <- MCHookEvents
    InitialHooks <- MCInitialHooks
    Pids = {p1, p2}
    CaptureTimes = {1, 2}
    MaxHookEdits = 1
    MaxHookStarts = 3
    Repos = {a, b}
    Calendars = {c}
    Plans <- MCPlans
    Flags <- MCFlags
    Times = {p1, p2}
    NotATime = u
    MaxSetupStarts = 2
    MaxSetupChanges = 1
    Loaders = {1, 2}
    LastDocument = 4
    WellFormed = {1, 2, 4}
    Tagged = {2, 4}
    Documents <- MCDocuments
    Schemas <- MCSchemas
    Values <- MCValues
    Singular <- MCSingular
    Arguments <- MCArguments
    MaxRefDepth = 8
SPECIFICATION ComponentsSpec
INVARIANTS
    StageIsBacked
    LiveIsEarned
    ListedAsLogged
    OwnIsRecognised
    CollectedIsCurrent
    DocumentsInv
    PreparedAsDeclared
    PrintedAsSelected
    PassedIsClean
    OneWorklogPerOperation
    HooksInv
    ChoicesKept
PROPERTIES
    ApprovedIsFree
    SubmitsOnlyConsented
CHECK_DEADLOCK FALSE
