----------------------------- MODULE CvdServer -----------------------------
(***************************************************************************)
(* The cvd server of host/commands/cvd/server.cc: a pool of worker        *)
(* threads draining one EpollPool, the listener (StartServer,             *)
(* AcceptClient), the per-connection request cycle (HandleMessage) with   *)
(* its interrupt callback, handler routing (RequestHandler) and the       *)
(* shutdown cascade (Stop, BestEffortWakeup, Join, ~CvdServer).           *)
(*                                                                         *)
(* Clients are the environment: they connect, send one request at a time *)
(* and may hang up at any moment.                                         *)
(***************************************************************************)
EXTENDS EpollPool, Naturals, FiniteSets

CONSTANTS
    Threads,          \* the worker threads (kNumThreads in server.cc)
    Clients,          \* client processes; each connects at most once
    Listener,         \* the server_fd passed to StartServer
    Handlers,         \* the handler instances the injector multibinds
    Requests,         \* the kinds of request a client may send
    CanHandle,        \* [Handlers -> [Requests -> BOOLEAN]]: CanHandle()
    ShutdownHandler,  \* the handler whose Handle() calls CvdServer::Stop
    BlockingHandlers, \* handlers whose Handle() returns only once interrupted
    EpollCtlMayFail,  \* whether epoll_ctl(ADD) of server_fd may fail
    MaxRequests,      \* bound on the requests one client sends
    NoHandler,        \* the null CvdServerHandler*
    None              \* absent value (empty socket buffer, no event)

ASSUME /\ CanHandle \in [Handlers -> [Requests -> BOOLEAN]]
       /\ ShutdownHandler \in Handlers
       /\ BlockingHandlers \subseteq Handlers
       /\ EpollCtlMayFail \in BOOLEAN
       /\ MaxRequests \in Nat \ {0}
       /\ Listener \notin Clients

\* One eventfd per BestEffortWakeup call: one per exiting worker and one
\* in ~CvdServer.
Wakeups == 1..(Cardinality(Threads) + 1)
Fds == {Listener} \cup Clients \cup Wakeups

\* A request in flight is named by its connection and its ordinal; the
\* SharedState of HandleMessage belongs to it.
Sids == Clients \X (1..MaxRequests)

Callbacks ==
    {[fn |-> "accept"], [fn |-> "message"], [fn |-> "noop"]}
      \cup {[fn |-> "interrupt", sid |-> s] : s \in Sids}

VARIABLES
    running,     \* CvdServer::running_
    registry,    \* the EpollPool registration table
    wakeups,     \* number of eventfds BestEffortWakeup has created
    pc,          \* per worker: where it is in its loop or callback
    evFd,        \* per worker: EpollEvent.fd of the event it handles
    evEvents,    \* per worker: EpollEvent.events
    sid,         \* per worker: the request its callback works on
    handlerOf,   \* per request: SharedState::handler
    interrupts,  \* per request: calls of handler->Interrupt()
    rejected,    \* descriptors for which a Register was refused
    mainPc,      \* CvdServerMain: "Start", "Join", "Done"
    peer,        \* per client: "idle", "open", "eof" (shut down its
                 \* writing side), "closed"
    inbuf,       \* per client: the request unread in its socket, or None
    awaiting,    \* per client: waiting for the response to its request
    sent,        \* per client: requests sent so far
    served       \* per client: "none", "live" (accepted) or "dropped"

vars == <<running, registry, wakeups, pc, evFd, evEvents, sid, handlerOf,
          interrupts, rejected, mainPc, peer, inbuf, awaiting, sent, served>>
serverVars == <<running, registry, wakeups, pc, evFd, evEvents, sid,
                handlerOf, interrupts, rejected, mainPc>>
clientVars == <<peer, inbuf, awaiting, sent, served>>

\* The states of HandleMessage between reading a request and returning.
FlowPcs == {"RegisterInterrupt", "Handle", "Send", "Clear", "Rearm"}
Pcs == {"Loop", "Wait", "Accept", "Message", "Interrupt", "Exiting",
        "Exited"} \cup FlowPcs

-----------------------------------------------------------------------------
(* Readiness as the kernel reports it for each descriptor.                *)

\* Connections that reached the listen backlog and were not yet accepted.
Backlog == {c \in Clients : peer[c] # "idle" /\ served[c] = "none"}

Ready(fd, interest) ==
    CASE fd = Listener -> Backlog # {}
      [] fd \in Clients ->
            \/ peer[fd] = "closed"
            \/ interest = "IN" /\ (inbuf[fd] # None \/ peer[fd] = "eof")
      [] OTHER -> TRUE          \* an eventfd written once, never drained

ReadyFor == [fd \in Fds |-> {i \in {"IN", "HUP"} : Ready(fd, i)}]

EventsOf(fd, interest) ==
    IF fd \in Clients
    THEN (IF peer[fd] = "closed" THEN {"HUP"} ELSE {})
           \cup (IF interest = "IN" THEN {"IN"} ELSE {})
    ELSE {"IN"}

-----------------------------------------------------------------------------
(* Routing: RequestHandler.                                               *)

\* The handlers whose CanHandle accepts the request.
CompatibleHandlers(r) == {h \in Handlers : CanHandle[h][r]}

\* Routing succeeds iff exactly one handler is compatible.
RoutingSucceeds(r) == Cardinality(CompatibleHandlers(r)) = 1

RequestHandler(r) == CHOOSE h \in CompatibleHandlers(r) : TRUE

-----------------------------------------------------------------------------
(* Shutdown cascade.                                                       *)

\* Mutant: the eventfd is created and written but never registered.
BestEffortWakeupUnregistered ==
    /\ wakeups' = wakeups + 1
    /\ UNCHANGED registry

\* BestEffortWakeup: a fresh eventfd, written once, registered for EPOLLIN
\* with a callback that does nothing.
BestEffortWakeup ==
    /\ wakeups' = wakeups + 1
    /\ registry' = Registered(registry, wakeups + 1, "IN", [fn |-> "noop"])

\* The loop condition `while (running_)' of a worker.
WorkerLoop(t) ==
    /\ pc[t] = "Loop"
    /\ pc' = [pc EXCEPT ![t] = IF running THEN "Wait" ELSE "Exiting"]
    /\ UNCHANGED <<running, registry, wakeups, evFd, evEvents, sid,
                   handlerOf, interrupts, rejected, mainPc>>
    /\ UNCHANGED clientVars

\* After the loop: BestEffortWakeup so the next blocked worker wakes too.
WorkerExit(t) ==
    /\ pc[t] = "Exiting"
    /\ BestEffortWakeup
    /\ pc' = [pc EXCEPT ![t] = "Exited"]
    /\ UNCHANGED <<running, evFd, evEvents, sid, handlerOf, interrupts,
                   rejected, mainPc>>
    /\ UNCHANGED clientVars

\* EpollPool::HandleEvent: wait for a ready registration, take its
\* callback out of the table and start running it.  The no-op callback of
\* a wakeup eventfd returns at once.
HandleEvent(t) ==
    /\ pc[t] = "Wait"
    /\ \E fd \in Dispatchable(registry, ReadyFor) :
          LET cb == registry[fd].cb IN
          /\ registry' = Taken(registry, fd)
          /\ evFd' = [evFd EXCEPT ![t] =
                         IF cb.fn = "noop" THEN None ELSE fd]
          /\ evEvents' = [evEvents EXCEPT ![t] =
                             IF cb.fn = "noop" THEN {}
                             ELSE EventsOf(fd, registry[fd].interest)]
          /\ sid' = [sid EXCEPT ![t] =
                        IF cb.fn = "interrupt" THEN cb.sid ELSE None]
          /\ pc' = [pc EXCEPT ![t] =
                       CASE cb.fn = "accept"    -> "Accept"
                         [] cb.fn = "message"   -> "Message"
                         [] cb.fn = "interrupt" -> "Interrupt"
                         [] cb.fn = "noop"      -> "Loop"]
    /\ UNCHANGED <<running, wakeups, handlerOf, interrupts, rejected,
                   mainPc>>
    /\ UNCHANGED clientVars

\* A callback returns; the worker goes back to its loop.
Return(t) ==
    /\ pc' = [pc EXCEPT ![t] = "Loop"]
    /\ evFd' = [evFd EXCEPT ![t] = None]
    /\ evEvents' = [evEvents EXCEPT ![t] = {}]
    /\ sid' = [sid EXCEPT ![t] = None]

\* Mutant: abandon_client without its Remove (guard cancelled too early).
AbandonWithoutRemove(t) ==
    /\ UNCHANGED registry
    /\ served' = [served EXCEPT ![evFd[t]] = "dropped"]
    /\ Return(t)

\* ScopeGuard abandon_client: Remove(event.fd) (its failure is ignored)
\* and the connection's descriptor is released.
Abandon(t) ==
    /\ registry' = Removed(registry, evFd[t])
    /\ served' = [served EXCEPT ![evFd[t]] = "dropped"]
    /\ Return(t)

-----------------------------------------------------------------------------
(* The listener: StartServer and AcceptClient.                            *)

\* AcceptClient after a successful accept of c: register the client for
\* EPOLLIN, then re-register the listener.  A refused Register fails the
\* callback and its ScopeGuard calls Stop().
\* Mutant: AcceptClient forgets to re-register the listener.
AcceptRegistrationsNoRearm(c) ==
    /\ registry' = Registered(registry, c, "IN", [fn |-> "message"])
    /\ UNCHANGED <<running, rejected>>

AcceptRegistrations(c) ==
    LET withClient == Registered(registry, c, "IN", [fn |-> "message"]) IN
    IF ~CanRegister(registry, c)
    THEN /\ rejected' = rejected \cup {c}
         /\ running' = FALSE
         /\ UNCHANGED registry
    ELSE IF ~CanRegister(withClient, Listener)
    THEN /\ rejected' = rejected \cup {Listener}
         /\ running' = FALSE
         /\ registry' = withClient
    ELSE /\ registry' = Registered(withClient, Listener, "IN",
                                   [fn |-> "accept"])
         /\ UNCHANGED <<running, rejected>>

AcceptClient(t) ==
    /\ pc[t] = "Accept"
    /\ \/ \* SharedFD::Accept fails: stop_on_failure calls Stop() and the
          \* listener is not re-registered.
          /\ running' = FALSE
          /\ UNCHANGED <<registry, rejected, served>>
       \/ \E c \in Backlog :
            /\ served' = [served EXCEPT ![c] = "live"]
            /\ AcceptRegistrations(c)
    /\ Return(t)
    /\ UNCHANGED <<wakeups, handlerOf, interrupts, mainPc>>
    /\ UNCHANGED <<peer, inbuf, awaiting, sent>>

-----------------------------------------------------------------------------
(* HandleMessage, one action per step between blocking points.            *)

\* Entry: hang-up, end-of-file, or read one request and route it.
HandleMessage(t) ==
    LET c == evFd[t] IN
    /\ pc[t] = "Message"
    /\ \/ /\ "HUP" \in evEvents[t]          \* client went away
          /\ Abandon(t)
          /\ UNCHANGED <<inbuf, handlerOf>>
       \/ /\ "HUP" \notin evEvents[t]
          /\ inbuf[c] = None                 \* end-of-file
          /\ Abandon(t)
          /\ UNCHANGED <<inbuf, handlerOf>>
       \/ /\ "HUP" \notin evEvents[t]
          /\ inbuf[c] # None
          /\ inbuf' = [inbuf EXCEPT ![c] = None]
          /\ IF RoutingSucceeds(inbuf[c])
             THEN LET s == <<c, sent[c]>> IN
                  /\ handlerOf' = [handlerOf EXCEPT
                                     ![s] = RequestHandler(inbuf[c])]
                  /\ sid' = [sid EXCEPT ![t] = s]
                  /\ pc' = [pc EXCEPT ![t] = "RegisterInterrupt"]
                  /\ UNCHANGED <<registry, served, evFd, evEvents>>
             ELSE /\ Abandon(t)
                  /\ UNCHANGED handlerOf
    /\ UNCHANGED <<running, wakeups, interrupts, rejected, mainPc>>
    /\ UNCHANGED <<peer, awaiting, sent>>

\* Mutant: the connection is re-registered with self_cb for EPOLLIN in
\* place of the interrupt callback.
RegisterInterruptForInput(t) ==
    /\ pc[t] = "RegisterInterrupt"
    /\ registry' = Registered(registry, evFd[t], "IN", [fn |-> "message"])
    /\ pc' = [pc EXCEPT ![t] = "Handle"]
    /\ UNCHANGED <<rejected, served, evFd, evEvents, sid>>
    /\ UNCHANGED <<running, wakeups, handlerOf, interrupts, mainPc>>
    /\ UNCHANGED <<peer, inbuf, awaiting, sent>>

\* Register(event.fd, EPOLLHUP, interrupt_cb).
RegisterInterrupt(t) ==
    LET c == evFd[t] IN
    /\ pc[t] = "RegisterInterrupt"
    /\ IF CanRegister(registry, c)
       THEN /\ registry' = Registered(registry, c, "HUP",
                                      [fn |-> "interrupt", sid |-> sid[t]])
            /\ pc' = [pc EXCEPT ![t] = "Handle"]
            /\ UNCHANGED <<rejected, served, evFd, evEvents, sid>>
       ELSE /\ rejected' = rejected \cup {c}
            /\ Abandon(t)
    /\ UNCHANGED <<running, wakeups, handlerOf, interrupts, mainPc>>
    /\ UNCHANGED <<peer, inbuf, awaiting, sent>>

\* Mutant: Stop() also calls BestEffortWakeup to hurry the cascade.
HandleStopWakes(t) ==
    /\ pc[t] = "Handle"
    /\ handlerOf[sid[t]] \in BlockingHandlers => interrupts[sid[t]] > 0
    /\ \/ /\ pc' = [pc EXCEPT ![t] = "Send"]
          /\ running' = (running /\ handlerOf[sid[t]] # ShutdownHandler)
          /\ IF handlerOf[sid[t]] = ShutdownHandler
             THEN BestEffortWakeup ELSE UNCHANGED <<registry, wakeups>>
          /\ UNCHANGED <<served, evFd, evEvents, sid>>
       \/ /\ Abandon(t)
          /\ UNCHANGED <<running, wakeups>>
    /\ UNCHANGED <<handlerOf, interrupts, rejected, mainPc>>
    /\ UNCHANGED <<peer, inbuf, awaiting, sent>>

\* shared->handler->Handle(*request); the shutdown handler calls Stop().
\* A failed Handle leaves shared->handler set.  A blocking handler (one
\* that waits on a subprocess, say) returns only after Interrupt().
Handle(t) ==
    /\ pc[t] = "Handle"
    /\ handlerOf[sid[t]] \in BlockingHandlers => interrupts[sid[t]] > 0
    /\ \/ /\ pc' = [pc EXCEPT ![t] = "Send"]
          /\ running' = (running /\ handlerOf[sid[t]] # ShutdownHandler)
          /\ UNCHANGED <<registry, served, evFd, evEvents, sid>>
       \/ /\ Abandon(t)
          /\ UNCHANGED running
    /\ UNCHANGED <<wakeups, handlerOf, interrupts, rejected, mainPc>>
    /\ UNCHANGED <<peer, inbuf, awaiting, sent>>

\* SendResponse(event.fd, response): fails once the client has closed.
Send(t) ==
    LET c == evFd[t] IN
    /\ pc[t] = "Send"
    /\ IF peer[c] = "closed"
       THEN /\ Abandon(t)
            /\ UNCHANGED awaiting
       ELSE /\ awaiting' = [awaiting EXCEPT ![c] = FALSE]
            /\ pc' = [pc EXCEPT ![t] = "Clear"]
            /\ UNCHANGED <<registry, served, evFd, evEvents, sid>>
    /\ UNCHANGED <<running, wakeups, handlerOf, interrupts, rejected,
                   mainPc>>
    /\ UNCHANGED <<peer, inbuf, sent>>

\* Under shared->mutex: shared->handler = nullptr.
Clear(t) ==
    /\ pc[t] = "Clear"
    /\ handlerOf' = [handlerOf EXCEPT ![sid[t]] = NoHandler]
    /\ pc' = [pc EXCEPT ![t] = "Rearm"]
    /\ UNCHANGED <<running, registry, wakeups, evFd, evEvents, sid,
                   interrupts, rejected, mainPc>>
    /\ UNCHANGED clientVars

\* Mutant: the interrupt registration is removed but EPOLLIN is never
\* registered again.
RearmWithoutReregister(t) ==
    /\ pc[t] = "Rearm"
    /\ IF ~CanRemove(registry, evFd[t])
       THEN Abandon(t)
       ELSE /\ registry' = Removed(registry, evFd[t])
            /\ Return(t)
            /\ UNCHANGED served
    /\ UNCHANGED <<running, wakeups, handlerOf, interrupts, rejected, mainPc>>
    /\ UNCHANGED <<peer, inbuf, awaiting, sent>>

\* Mutant: EPOLLIN is registered again without removing the interrupt
\* registration first.
RearmWithoutRemove(t) ==
    /\ pc[t] = "Rearm"
    /\ IF ~CanRegister(registry, evFd[t])
       THEN /\ rejected' = rejected \cup {evFd[t]}
            /\ Abandon(t)
       ELSE /\ registry' = Registered(registry, evFd[t], "IN",
                                      [fn |-> "message"])
            /\ Return(t)
            /\ UNCHANGED <<rejected, served>>
    /\ UNCHANGED <<running, wakeups, handlerOf, interrupts, mainPc>>
    /\ UNCHANGED <<peer, inbuf, awaiting, sent>>

\* Remove(event.fd) deletes the interrupt registration, then
\* Register(event.fd, EPOLLIN, self_cb) and abandon_client.Cancel().
Rearm(t) ==
    LET c == evFd[t]
        withoutInterrupt == Removed(registry, c)
    IN
    /\ pc[t] = "Rearm"
    /\ IF ~CanRemove(registry, c)
       THEN /\ Abandon(t)
            /\ UNCHANGED rejected
       ELSE IF ~CanRegister(withoutInterrupt, c)
       THEN /\ rejected' = rejected \cup {c}
            /\ Abandon(t)
       ELSE /\ registry' = Registered(withoutInterrupt, c, "IN",
                                      [fn |-> "message"])
            /\ Return(t)
            /\ UNCHANGED <<rejected, served>>
    /\ UNCHANGED <<running, wakeups, handlerOf, interrupts, mainPc>>
    /\ UNCHANGED <<peer, inbuf, awaiting, sent>>

\* interrupt_cb: under shared->mutex, call Interrupt() on the handler if
\* the request has not cleared it (CF_EXPECT fails otherwise).
InterruptCallback(t) ==
    LET s == sid[t] IN
    /\ pc[t] = "Interrupt"
    /\ IF handlerOf[s] # NoHandler
       THEN interrupts' = [interrupts EXCEPT ![s] = interrupts[s] + 1]
       ELSE UNCHANGED interrupts
    /\ Return(t)
    /\ UNCHANGED <<running, registry, wakeups, handlerOf, rejected, mainPc>>
    /\ UNCHANGED clientVars

-----------------------------------------------------------------------------
(* CvdServerMain and the CvdServer destructor.                            *)

\* server.StartServer(server_fd) then server.Join(): the Result of
\* StartServer is ignored, so main goes on to Join even when epoll_ctl
\* refused server_fd (ENOMEM, ENOSPC) and the listener is never armed.
StartServer ==
    /\ mainPc = "Start"
    /\ \/ registry' = Registered(registry, Listener, "IN", [fn |-> "accept"])
       \/ EpollCtlMayFail /\ UNCHANGED registry
    /\ mainPc' = "Join"
    /\ UNCHANGED <<running, wakeups, pc, evFd, evEvents, sid, handlerOf,
                   interrupts, rejected>>
    /\ UNCHANGED clientVars

\* Mutant: Join() returns without waiting for the workers.
DestroyWithoutJoin ==
    /\ mainPc = "Join"
    /\ running' = FALSE
    /\ BestEffortWakeup
    /\ mainPc' = "Done"
    /\ UNCHANGED <<pc, evFd, evEvents, sid, handlerOf, interrupts, rejected>>
    /\ UNCHANGED clientVars

\* server.Join() returns once every worker has exited; then ~CvdServer
\* sets running_ = false, calls BestEffortWakeup and joins again.
Destroy ==
    /\ mainPc = "Join"
    /\ \A t \in Threads : pc[t] = "Exited"
    /\ running' = FALSE
    /\ BestEffortWakeup
    /\ mainPc' = "Done"
    /\ UNCHANGED <<pc, evFd, evEvents, sid, handlerOf, interrupts, rejected>>
    /\ UNCHANGED clientVars

-----------------------------------------------------------------------------
(* Clients (the environment).                                             *)

Connect(c) ==
    /\ peer[c] = "idle"
    /\ peer' = [peer EXCEPT ![c] = "open"]
    /\ UNCHANGED <<inbuf, awaiting, sent, served>>

\* A client sends its next request once the previous one was answered.
SendRequest(c) ==
    /\ peer[c] = "open"
    /\ served[c] # "dropped"
    /\ ~awaiting[c]
    /\ sent[c] < MaxRequests
    /\ \E r \in Requests : inbuf' = [inbuf EXCEPT ![c] = r]
    /\ awaiting' = [awaiting EXCEPT ![c] = TRUE]
    /\ sent' = [sent EXCEPT ![c] = sent[c] + 1]
    /\ UNCHANGED <<peer, served>>

\* shutdown(SHUT_WR): the server reads end-of-file, can still write.
ShutdownWrite(c) ==
    /\ peer[c] = "open"
    /\ peer' = [peer EXCEPT ![c] = "eof"]
    /\ UNCHANGED <<inbuf, awaiting, sent, served>>

HangUp(c) ==
    /\ peer[c] \in {"open", "eof"}
    /\ peer' = [peer EXCEPT ![c] = "closed"]
    /\ UNCHANGED <<inbuf, awaiting, sent, served>>

Client(c) ==
    /\ mainPc # "Done"
    /\ \/ Connect(c) \/ SendRequest(c) \/ ShutdownWrite(c) \/ HangUp(c)
    /\ UNCHANGED serverVars

-----------------------------------------------------------------------------

Init ==
    /\ running = TRUE
    /\ registry = [fd \in Fds |-> NoReg]
    /\ wakeups = 0
    /\ pc = [t \in Threads |-> "Loop"]
    /\ evFd = [t \in Threads |-> None]
    /\ evEvents = [t \in Threads |-> {}]
    /\ sid = [t \in Threads |-> None]
    /\ handlerOf = [s \in Sids |-> NoHandler]
    /\ interrupts = [s \in Sids |-> 0]
    /\ rejected = {}
    /\ mainPc = "Start"
    /\ peer = [c \in Clients |-> "idle"]
    /\ inbuf = [c \in Clients |-> None]
    /\ awaiting = [c \in Clients |-> FALSE]
    /\ sent = [c \in Clients |-> 0]
    /\ served = [c \in Clients |-> "none"]

Worker(t) ==
    \/ WorkerLoop(t) \/ WorkerExit(t) \/ HandleEvent(t)
    \/ AcceptClient(t) \/ HandleMessage(t) \/ RegisterInterrupt(t)
    \/ Handle(t) \/ Send(t) \/ Clear(t) \/ Rearm(t) \/ InterruptCallback(t)

Main == StartServer \/ Destroy

Next ==
    \/ \E t \in Threads : Worker(t)
    \/ Main
    \/ \E c \in Clients : Client(c)

\* Worker threads and the main thread are OS threads: each keeps running
\* while it can.  Clients get no fairness: they may stop at any time.
Spec ==
    /\ Init /\ [][Next]_vars
    /\ \A t \in Threads : WF_vars(Worker(t))
    /\ WF_vars(Main)

-----------------------------------------------------------------------------
(* Properties.                                                             *)

\* Every variable has its type; in particular the cascade creates at most
\* one eventfd per exiting worker and one in ~CvdServer (BestEffortWakeup
\* is called from nowhere else, so Stop() leaks none).
TypeOK ==
    /\ running \in BOOLEAN
    /\ registry \in [Fds -> {NoReg} \cup
                      [interest : {"IN", "HUP"}, cb : Callbacks]]
    /\ wakeups \in 0..Cardinality(Wakeups)
    /\ pc \in [Threads -> Pcs]
    /\ evFd \in [Threads -> Fds \cup {None}]
    /\ evEvents \in [Threads -> SUBSET {"IN", "HUP"}]
    /\ sid \in [Threads -> Sids \cup {None}]
    /\ handlerOf \in [Sids -> Handlers \cup {NoHandler}]
    /\ interrupts \in [Sids -> Nat]
    /\ rejected \in SUBSET Fds
    /\ mainPc \in {"Start", "Join", "Done"}
    /\ peer \in [Clients -> {"idle", "open", "eof", "closed"}]
    /\ inbuf \in [Clients -> Requests \cup {None}]
    /\ awaiting \in [Clients -> BOOLEAN]
    /\ sent \in [Clients -> 0..MaxRequests]
    /\ served \in [Clients -> {"none", "live", "dropped"}]

\* Connection sequencing (spec 5): a connection is owned by one flow at a
\* time.  Counting the workers inside HandleMessage for c and an armed
\* EPOLLIN registration of c, there is at most one; so request B of a
\* connection is never read while request A is still being handled.
\* It rests on the one-shot dispatch and on HandleMessage re-arming
\* EPOLLIN only after removing the interrupt registration.
SingleFlowPerConnection ==
    \A c \in Clients :
        LET workers == {t \in Threads : pc[t] \in FlowPcs \cup {"Message"}
                                         /\ evFd[t] = c}
            armed   == IF registry[c] # NoReg /\ registry[c].cb.fn = "message"
                       THEN 1 ELSE 0
        IN Cardinality(workers) + armed <= 1

\* Registration discipline (spec 3, 7(c)): no Register the server issues
\* (AcceptClient, interrupt_cb, re-arm, BestEffortWakeup) is ever refused
\* because its descriptor already has a live registration.
RegistrationNeverRejected == rejected = {}

\* No stale interrupt callback: an EPOLLHUP registration of a connection
\* exists only while a worker is inside that request's HandleMessage,
\* past the Register and before it returns; every exit path of
\* HandleMessage (abandon_client or the final Remove) deletes it.
InterruptRegistrationOwned ==
    \A c \in Clients :
        (registry[c] # NoReg /\ registry[c].cb.fn = "interrupt") =>
            \E t \in Threads : /\ pc[t] \in FlowPcs \ {"RegisterInterrupt"}
                              /\ sid[t] = registry[c].cb.sid

\* Shutdown liveness (spec 8): once running_ is false (Stop() from the
\* shutdown handler or from a failed AcceptClient), the wakeup cascade
\* gets every worker out of HandleEvent, Join() returns and the process
\* finishes ~CvdServer.
ShutdownCompletes == (~running) ~> (mainPc = "Done")

\* A client waiting for a response gets it, or sees its connection
\* dropped, or the server process ends; unless it closes first.
RequestAnswered ==
    \A c \in Clients :
        awaiting[c] ~> \/ ~awaiting[c]
                       \/ served[c] = "dropped"
                       \/ peer[c] = "closed"
                       \/ mainPc = "Done"

\* Spec 7: a listener failure is fatal, since no connection could ever
\* arrive again.  So a client that connects is accepted, or the process
\* exits: StartServer arms server_fd and every AcceptClient re-arms it
\* or calls Stop(), which ends in the shutdown cascade.
ClientAcceptedOrServerExits ==
    \A c \in Clients : peer[c] # "idle" ~> (served[c] # "none" \/ mainPc = "Done")

\* Request s is inside a Handle() that waits for Interrupt(), and its
\* client has hung up.
BlockedAndHungUp(s) ==
    /\ handlerOf[s] \in BlockingHandlers
    /\ peer[s[1]] = "closed"
    /\ \E t \in Threads : pc[t] = "Handle" /\ sid[t] = s

\* Spec 4.5 and 8, mid-flight disconnect: a client that closes while its
\* handler blocks gets that handler interrupted, as long as the server
\* runs.  interrupt_cb needs a free worker to run on
\* (EpollPool::HandleEvent), and Handle() occupies its worker until it
\* returns.
InterruptReachesBlockedHandler ==
    \A s \in Sids : BlockedAndHungUp(s) ~> (interrupts[s] > 0 \/ ~running)

\* A call of handler->Interrupt() made by interrupt_cb for request s.
InterruptDelivered(s) == interrupts'[s] # interrupts[s]

\* The comment in HandleMessage: the interrupt callback only holds on to
\* SharedState, "which will be cleaned out when the request handler
\* exits"; so Interrupt() is only called on a handler whose
\* HandleMessage (and its fruit::Injector, which owns the handler) is
\* still running.
InterruptOnlyWhileRequestAlive ==
    [][\A s \in Sids :
         InterruptDelivered(s) =>
             \E t \in Threads : pc[t] \in FlowPcs /\ sid[t] = s]_vars

\* Spec 8 (interrupt mutual exclusion): Interrupt() is never invoked
\* after Handle() has returned.
InterruptOnlyDuringHandle ==
    [][\A s \in Sids :
         InterruptDelivered(s) =>
             \E t \in Threads : pc[t] = "Handle" /\ sid[t] = s]_vars

-----------------------------------------------------------------------------
(* Refinement: CvdServer implements the per-connection protocol of        *)
(* CvdServerAbstract.  A connection is busy while a worker is in          *)
(* HandleMessage past reading its request; the process is down once       *)
(* ~CvdServer has run.                                                    *)

ConnState(c) ==
    CASE served[c] = "none"    -> "pending"
      [] served[c] = "dropped" -> "dropped"
      [] \E t \in Threads : pc[t] \in FlowPcs /\ evFd[t] = c -> "busy"
      [] OTHER                 -> "idle"

\* The response of the request in flight has been written: no worker of
\* the connection is in HandleMessage before or in SendResponse.
Replied(c) ==
    ~\E t \in Threads : pc[t] \in FlowPcs \ {"Clear", "Rearm"} /\ evFd[t] = c

Abstract == INSTANCE CvdServerAbstract
                WITH conn <- [c \in Clients |-> ConnState(c)],
                     replied <- [c \in Clients |-> Replied(c)],
                     down <- (mainPc = "Done")

\* The server keeps the connection protocol: accept, then one request at
\* a time read, answered and finished before the next is read (spec 5:
\* "the next read is only re-armed after the previous response is fully
\* written"), a connection dropped at most once and for good, and the
\* process ending only with no request in flight.
ImplementsConnectionProtocol == Abstract!Spec
=============================================================================
