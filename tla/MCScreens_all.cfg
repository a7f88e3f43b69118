SPECIFICATION Spec
CONSTANTS
    None = None
    a = a
    b = b
    Sources <- MCSources
    GithubSources <- MCSources
    MaxCalls = 3
    MaxVersion = 2
    MaxClicks = 4
    MaxNoteCalls = 2
    MaxNoteClicks = 4
    Signals <- MCSources
    MaxDraftCalls = 3
    MaxDraftVer = 2
    MaxDeeds = 4
    MaxListCalls = 3
    MaxListClicks = 4
SYMMETRY Symmetry
CHECK_DEADLOCK FALSE
INVARIANTS ScreensSettle ShownIsSelected EditsBuildOnWhatTheyReplace
PROPERTIES TypedIsKept CheckedBeforeRetry
