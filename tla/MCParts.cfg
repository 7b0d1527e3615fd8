SPECIFICATION MCSpec
CHECK_DEADLOCK FALSE
CONSTANTS
    Combos = {1, 2}
    Spellings = {"a", "b", "A"}
    Meaning <- MCMeaning
    Canonical <- MCCanonical
    Commands = {"c"}
    Defaults <- MCDefaults
    Contended = {2}
    RulesBind = TRUE
    Saves = {TRUE, FALSE}
    MaxBindings = 2

    Flags = {"b"}
    Enums = {}
    Ints = {"c"}
    Values <- MCValues
    Default <- MCDefault
    Repaired <- MCRepaired
    Order <- MCOrder
    Providers = {"p", "config"}
    Required = {"config"}
    Lists <- MCLists
    Typed = {2, 3, 4}
    Queries = {"q"}
    Shows <- MCShows
    Files <- MCFiles

    Ids = {1, 2, 3}
    Kind <- MCKind
    Matching = {1, 2}
    ProviderRows = {1, 2}
    ScreenLines = 2
    Coming = {3}

    Names = {1, 2}
    Others = {3, 4}
    Spaced = {4}
    Begins <- MCBegins
    MaxCandidates = 2
    MaxHistory = 2
    HelpLines = 3
    PageLines = 2
    MaxRun = 2

    Devices = {1, 2}
    Searches = {"q"}
    Found <- MCFound
    MaxCalls = 2

    PathFiles <- MCPathFiles
    Initial <- MCInitial
    Ranked <- MCRanked
    MaxBins = 2
    MaxRows = 2
    MaxChanges = 2

    SlotTabs = {"sinks"}
    Payloads = {"p", "q"}
    SlotKeys = {0, 1}
    MatchIds = {"7"}
    SlotFiles <- MCSlotFiles

    SinkNames = {1, 2}
    Filters = {"f"}
    Heard <- MCHeard
    OtherRows = {1, 2}

    Procs <- MCProcs
    Foreign = {}
    Patterns = {"f"}
    Score <- MCScore
    Windowed = {2}

    Logs = {"l", "m", "n"}
    Subagents = {"m"}
    SessionOf <- MCSessionOf
    Modified <- MCModified
    Label <- MCLabel
    Terms <- MCTerms
    Refines = {"b"}
    SessionNames <- MCSessionNames
    Fixed = {2}
    LinesRead = 2
    MaxSessions = 2
    MaxHits = 1
    MaxReads = 2

    Win = {2, 3}
    Desks = 2
    MaxEvents = 2
    MaxTimers = 4

    RulePairs = {1, 2}
    Limit = 2
    Window = 2
    Quiet = 3
    MaxEntries = 1
    MaxTime = 6
    MaxTries = 6
VIEW MCView
INVARIANTS
    HotkeysInStep
    SlotsFitTheScreen
    RowsAreWindows
    LineAgrees
    SettingsAgree
    ScoresAreEarned
    WindowLands
    ListsAgree
    LateIsHarmless
PROPERTIES
    KeepsSelected
    KeepsToItsWindows
