\* The whole process: one request, the file rewritten once, both triggers.
CONSTANTS
    q1 = q1
    Torn = Torn
    Contents <- SmallContents
    Env <- SmallEnv
    Requests = {q1}
    SourceNames = {"sighup", "file"}
    FileWatchMayFail = TRUE
    MaxWrites = 1
SPECIFICATION MCSpec
INVARIANTS
    TypeOK
    SubscribersAgree
    ExitCodeTrue
    NoReloadCutShort
    RestartReported
PROPERTIES
    ServerKept
    ShutdownHonoursReload
    HangupSafe
CHECK_DEADLOCK FALSE
