CONSTANTS
    a = a
    outer = outer
    inner = inner
    Card <- MCCard
    Off = Off
    LastPage = 1
    MaxStrokes = 2
    MaxSheets = 3
    MaxCrashes = 2
    Kid <- MCKid
    Root = Root
    Above <- MCAbove
    Null = Null
    MaxTick = 2
    MaxCommits = 1
    MaxReopens = 1
    DayLength = 2
    BucketLength = 1
    SampleLimit = 2
    Missing = Missing
    MaxInstant = 4
    MaxTotal = 1
    MaxMishaps = 2
    Account = {1, 2, 3}
    AccountLimit = 2
    Unmeasured = Unmeasured
    MaxReading = 1
    MaxUpsets = 3
SPECIFICATION MCSpec
INVARIANTS DragHasItsStroke UpgradeKeepsTheRows CurvesReadable GuardKnowsTheFile QuotaReadable
PROPERTIES ClickSettlesItsOwnStroke SheetsKeepApart InitConverges StoppedStaysGone EndedChildrenLeave KnownAccountsStay
CHECK_DEADLOCK FALSE
