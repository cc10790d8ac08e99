CONSTANTS
    Threads = {t1, t2}
    Clients = {c1, c2}
    Listener = L
    Handlers = {"hVersion", "hShutdown", "hCommand"}
    Requests = {"rVersion", "rShutdown", "rAmbiguous"}
    CanHandle <- MCCanHandle
    ShutdownHandler = "hShutdown"
    BlockingHandlers = {}
    EpollCtlMayFail = TRUE
    MaxRequests = 2
    NoHandler = NoHandler
    None = None
    NoReg = NoReg
SPECIFICATION Spec
\* The server idles once every worker waits with nothing ready.
CHECK_DEADLOCK FALSE
PROPERTY ImplementsConnectionProtocol
