\* Two workers and two clients, each sending one command whose handler
\* blocks until it is interrupted: the scaled-down form of kNumThreads
\* long-running commands at once.
CONSTANTS
    Threads = {t1, t2}
    Clients = {c1, c2}
    Listener = L
    Handlers = {"hVersion", "hShutdown", "hCommand"}
    Requests = {"rCommand"}
    CanHandle <- MCCanHandle
    ShutdownHandler = "hShutdown"
    BlockingHandlers = {"hCommand"}
    EpollCtlMayFail = FALSE
    MaxRequests = 1
    NoHandler = NoHandler
    None = None
    NoReg = NoReg
SPECIFICATION Spec
\* The server idles once every worker waits with nothing ready.
CHECK_DEADLOCK FALSE
PROPERTY InterruptReachesBlockedHandler
