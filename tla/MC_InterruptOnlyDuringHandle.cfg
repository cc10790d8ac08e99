CONSTANTS
    Threads = {t1, t2}
    Clients = {c1, c2}
    Listener = L
    Handlers = {"hVersion", "hShutdown", "hCommand"}
    Requests = {"rVersion", "rShutdown", "rAmbiguous"}
    CanHandle <- MCCanHandle
    ShutdownHandler = "hShutdown"
    BlockingHandlers = {}
    EpollCtlMayFail = FALSE
    MaxRequests = 2
    NoHandler = NoHandler
    None = None
    NoReg = NoReg

SPECIFICATION Spec
\* The server idles forever when no client talks to it: every worker is
\* blocked in HandleEvent with nothing ready.
CHECK_DEADLOCK FALSE

PROPERTY InterruptOnlyDuringHandle
