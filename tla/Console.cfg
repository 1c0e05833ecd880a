\* Each page by itself: two calls of a user who waits or hurries, or one call
\* and one thing that goes wrong; the chat has one event more.
CONSTANTS
    None = None
    a = a
    b = b
    r1 = r1
    r2 = r2
    c1 = c1
    c2 = c2
    c3 = c3
    Habits = {"waits", "hurries"}
    MaxClicks = 2
    MaxEvents = 2
    MaxVisits = 2
    Names = {a, b}
    InitConfigs <- ConfigUsers
    Troubles = {"edit", "fetch", "server", "reload"}
    Default = Default
    Other = Other
    SessionKinds <- SomeKinds
    MaxTests = 2
    MaxTyped = 3
    Ids = {r1, r2}
    Sessions <- AlertSessions
    ChannelIds = {c1, c2, c3}
    RouteIds = {r1, r2, a}
    InitChannels <- OneChannel
    InitRoutes <- OneRoute
    RouteHabits <- RouteUsers
    InitSettings <- TwoSections
    Scripts <- SomeScripts
    MaxStored = 3
    MaxChatEvents = 3
SPECIFICATION FairSpec
INVARIANTS
    TypeOK
    ConfigIsCurrent
    SourcesAreCurrent
    VerdictIsTheLatest
    AlertsAreCurrent
    WindowsAreMeant
    RoutesAreCurrent
    PageShowsItsCalls
    FileIsCurrent
    LoadingIsRunning
    AnswersStayApart
    HistoryIsKept
PROPERTIES
    ConfigUseIsSafe
    SourceSavesAreExact
    AnswersCloseTheirOwn
    AlertEditsAreExact
    RouteSavesAreExact
    NotifierSavesAreExact
    EndsSettled
CHECK_DEADLOCK FALSE
