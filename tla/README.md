# TLA+ models of the cvd server (and plan for the rest of the tree)

This directory holds TLA+ models of the code under `src/`, the TLC
configurations that check them, and `PROJECT.json`. That file lists the
components, runs, mutants, the source map, the findings and the hazards.

## 1. Inventory

The source tree has five files. Its only concurrent core is the cvd server
(`src/host/commands/cvd/server.cc`).

### cvd server (`server.cc`)

| Part | State | Operations | Interacts with |
|---|---|---|---|
| Worker pool | `running_`, `threads_` (kNumThreads = 10) | worker loop `while (running_) HandleEvent()`, `Stop`, `Join` | the EpollPool: every callback runs on a worker |
| Shutdown cascade | eventfds created by `BestEffortWakeup` | `BestEffortWakeup` at worker exit and in `~CvdServer` | registers a no-op callback on an always-ready eventfd |
| EpollPool (`epoll_loop.cc`, not in the tree) | registration table fd -> (interest, callback) | `Register` (refused if the fd has one), `Remove` (fails if none), `HandleEvent` (wait, take the callback out, run it) | shared by all workers |
| Listener | `server_fd` registration | `StartServer`, `AcceptClient` (guard `stop_on_failure` calls `Stop`) | registers each new client for EPOLLIN and re-registers itself |
| Connection / request cycle | the client fd's registration, per request a `SharedState{handler, mutex}` | `HandleMessage`: hang-up / EOF / read, route, register EPOLLHUP `interrupt_cb`, `Handle`, `SendResponse`, clear handler under the mutex, `Remove`, re-register EPOLLIN; guard `abandon_client` removes the fd on every early return | `interrupt_cb` runs on another worker concurrently with `Handle` |
| Router | the injector's handler set | `RequestHandler`: exactly one `CanHandle` must accept | handlers (version, shutdown, command; not in the tree) |
| main | `server_fd` | `StartServer` (result ignored), `Join`, destructor | |

The hard behaviours are these:
- Callbacks of one connection run on different workers. `interrupt_cb` races
  with the end of `HandleMessage`.
- A callback can be taken out of the pool by one worker and run later, after
  the state it refers to has changed.
- Registrations are one-shot, so every path must re-arm or remove exactly
  once.
- Shutdown has to wake workers that are blocked forever in `HandleEvent`.
- Clients hang up or half-close at any moment.

The properties that make it correct:
- Connection sequencing: one flow per connection.
- Registration discipline: no refused `Register`, no stale interrupt
  registration.
- Interrupt exclusion: `Interrupt()` only while `Handle` runs.
- Shutdown liveness.
- Every request is answered or its connection dropped.

### secure_env (`secure_env_linux_main.cpp`, `oemlock_responder.h`)

`secure_env` is a separate process. At start it chooses implementations from
flags; a bad choice is `LOG(FATAL)`. It then starts six threads:
- the Rust KeyMint TA;
- the keymaster, gatekeeper and oemlock responders, each of which recreates
  its channel whenever `ProcessMessage` fails;
- the confirmation-UI sign server;
- a kernel-event monitor that re-execs the whole process on
  `BootloaderLoaded`.

`DupFdFlag` CHECKs every descriptor flag except the Rust TA's. The hazards
here are:
- the re-exec kills the other threads while they are in the middle of a
  message;
- the responder loops reconnect;
- some choices of flags abort the process.

### ABuffer (`ABuffer.cpp`)

A byte buffer with `mCapacity`, `mRangeOffset` and `mRangeLength`.
`setRange` checks `offset + size <= capacity` in `size_t` arithmetic, which
can overflow. `reserve` grows the buffer. When `realloc` fails, it falls back
to `malloc` plus a copy of the range only, and it does not check the
`malloc` result.

### Test helper (`selector_parser_ids_test_helper.cpp`)

This is a test fixture with no system state. It is not modelled.

## 2. Modules

| Module | Models | Map |
|---|---|---|
| `EpollPool.tla` | The pool's registration table and its operations as pure operators: `CanRegister`/`Registered` (Register), `CanRemove`/`Removed` (Remove), `Dispatchable`/`Taken` (HandleEvent takes the callback out before running it). | Modelled from spec 4.1, because `epoll_loop.cc` is not in the tree. |
| `CvdServer.tla` | Extends `EpollPool`. It holds the pool, the workers, the listener, the request cycle, routing, the shutdown cascade, main, and clients as the environment. | `server.cc` |
| `CvdServerAbstract.tla` | What the server promises each connection, without workers or the pool: `Accept`, `Begin` (one request read), `Answer` (its response written), `Finish` (back to reading), `Drop`, and `Shutdown` (only with no request in flight). The clients are the same environment as in `CvdServer`. | None: it is the specification that `CvdServer` is checked against. |
| `MCCvdServer.tla` | Gives the handler table `MCCanHandle` for TLC. | |
| `SecureEnv.tla` | `secure_env`: start-up in the code's order, the three responder loops, the kernel-event monitor's re-exec, and the guest as environment. | `secure_env_linux_main.cpp`, `oemlock_responder.h` |
| `MCSecureEnv.tla` | Gives the sets of descriptor flags for TLC. | |
| `ABuffer.tla` | `ABuffer`'s constructor, `setRange`, `meta` and `reserve`, with `size_t` as W-bit arithmetic (`% 2^W`). | `ABuffer.cpp` |

### How `ABuffer` corresponds to the code

- `capacity`, `rangeOffset`, `rangeLength` and `hasMeta` are `mCapacity`,
  `mRangeOffset`, `mRangeLength` and `mMeta != nullptr`.
- `content` is the block, with bytes abstracted to labels. The constructor's
  byte at index i is labelled i, and `Garbage` marks uninitialised memory.
  This is enough to tell whether a byte survived a reallocation at its index.
- `status` is `"aborted"` after a failed `CHECK_LE`, and `"crashed"` after the
  fallback `memcpy` writes through a null `malloc` result. Nothing runs after
  either.
- `Reserve` has three outcomes: `realloc` succeeds (`Reallocated`), `realloc`
  fails and `malloc` succeeds (`FallbackCopy`: only the range is copied, to
  the same offset), or both fail (crash). The early return when the block is
  large enough is the `IF`.

### How `CvdServer` corresponds to the code

- `registry` is the EpollPool table. Each worker has a `pc` plus the event it
  is handling (`evFd`, `evEvents`) and the request it works on (`sid`).
  `handlerOf[s]` is `SharedState::handler` of request `s`.
- `interrupts[s]` counts the calls of `handler->Interrupt()`. `rejected`
  records refused `Register` calls. In the code such a call is an error
  result: `Stop()` in `AcceptClient`, a dropped connection in
  `HandleMessage`.
- Worker actions:
  - `WorkerLoop` is the `while (running_)` test.
  - `HandleEvent` is the pool's wait and dispatch. The no-op wakeup callback
    returns in the same step.
  - `AcceptClient` covers the whole callback. Accept can fail, which calls
    `Stop()` and leaves the listener unarmed.
  - `HandleMessage` covers lines 170-196: the hang-up, EOF and read+route
    branches. Routing that fails abandons the connection.
  - `RegisterInterrupt` is line 204.
  - `Handle` is line 206. It may fail, and the shutdown handler's `Handle`
    calls `Stop()`.
  - `Send` is line 207. It fails once the peer has closed.
  - `Clear` is lines 209-212.
  - `Rearm` is lines 213-221.
  - `InterruptCallback` is `interrupt_cb`. It is atomic because it runs
    entirely under `SharedState::mutex`, and so does `Clear`.
  - `WorkerExit` is the `BestEffortWakeup` after the loop.
- `Abandon` is the `abandon_client` ScopeGuard: `Remove(fd)`, with a failure
  ignored, then the connection is released.
- `StartServer` and `Destroy` make up main: `Join` returns when every worker
  has exited. `~CvdServer` then clears `running_` and performs the last
  wakeup.
- Clients `Connect`, `SendRequest` (one outstanding request at a time, as
  the cvd client does), `ShutdownWrite` (half-close) and `HangUp`.
- `BlockingHandlers` is a constant. A handler in this set returns from
  `Handle` only after `Interrupt()` has been called on its request (spec 5:
  a `command` request can block for a long time). It is empty in every run
  except `interrupt_never_delivered`.
- **Refinement mapping** to `CvdServerAbstract`:
  - `conn[c]` (`ConnState`) is "pending" before the accept and "dropped"
    after the abandon. It is "busy" while a worker is in `HandleMessage`'s
    flow for `c`, and "idle" otherwise.
  - `replied[c]` (`Replied`) holds once no worker for `c` is before `Clear`.
    That is, the response has been sent (or the flow is over).
  - `down` is `mainPc = "Done"`.
- `EpollCtlMayFail` lets `StartServer`'s `Register(server_fd)` fail
  (epoll_ctl ENOMEM or ENOSPC). Main ignores that `Result` and goes on to
  `Join`, as the code does. The constant is FALSE in the server runs except
  `server_refinement` and `listener_failure_ignored`.
- Readiness (`Ready`, `EventsOf`):
  - the listener is ready while its backlog is non-empty;
  - a client fd with EPOLLIN interest is ready when data is pending or the
    peer is at EOF or closed;
  - EPOLLHUP interest is ready once the peer has closed;
  - an eventfd is always ready.

### How `SecureEnv` corresponds to the code

- `flags` holds the four implementation flags and the set of descriptor
  flags that are given, that is not -1. Init takes them from constant sets,
  where `"other"` stands for any string the code rejects. They never change,
  because `ReExecSelf` passes the same argv. `origOpen` holds the original
  descriptors, which `DupFdFlag` keeps open for the re-exec.
- `mainPc` and `stage` follow `SecureEnvMain`:
  - `Inject` is the injector: the gatekeeper and oemlock components, the
    Tpm provider and `Esys_Initialize`. A bad flag aborts with cause
    `"flag"`, and a TPM failure aborts with cause `"env"`.
  - `Keymint` is the keymint choice and the Rust TA thread.
  - `StartThread` is one `DupFdFlag` site and the thread it starts, in
    source order.
  - `Join` is reached when every thread is running.
- Each channel is a pair of FIFOs. `pipe[r]` holds the guest's unread
  requests, each tagged with the boot that sent it and whether it is
  well-formed. `reply[r]` holds the responses the guest has not read, each
  tagged with its request's boot. Both survive a guest reboot and a
  re-exec. Each responder thread has `rpc[r]` (`Create` or `Process`) and
  `held[r]`, the request it has read and not yet answered:
  - `CreateChannel` builds the channel and the responder.
  - `ReadRequest` and `Respond` are the two halves of a successful
    `ProcessMessage`.
  - `ProcessFails` is a malformed message: it ends the inner loop and the
    channel is built again.
- `ReExec` is the monitor reading `BootloaderLoaded` and calling
  `ReExecSelf`. A successful `execv` replaces every thread and restarts
  `SecureEnvMain`; a failed one aborts. A request that was read but not
  answered (`held`) is gone. Unread data stays in both FIFOs, because the
  descriptors are inherited.
- `ReadEventFails` is the monitor's `ReadEvent` returning no event once the
  pipe is drained and its writer has closed. The `CHECK` aborts with cause
  `"monitor"`.
- The guest (`GuestBoot`, `GuestSend`, `GuestReceive`) is the environment.
  Each boot writes `BootloaderLoaded` and forgets what its clients waited
  for. A client sends on one of `GuestChannels` only when it waits for
  nothing (`waiting[r]`). It takes the next response in its channel as its
  own. At most `MaxQueued` = 1 request is unread per channel.

## 3. Runs

| Run | Config | Expect | What it shows |
|---|---|---|---|
| `server_safety_liveness` | `MCCvdServer.cfg` | pass | See below. |
| `interrupt_after_exit` | `MC_InterruptOnlyWhileRequestAlive.cfg` | violation | **Code bug.** The client hangs up while `Handle` runs. Worker B takes `interrupt_cb` out of the pool. Then `Handle` fails, or `SendResponse` fails on the closed socket. Worker A leaves `HandleMessage` through `abandon_client` without clearing `shared->handler`, and the injector that owns the handler is destroyed. B then calls `Interrupt()` on the freed handler. The comment at lines 188-190 promises the opposite. |
| `abuffer_reserve` | `MCABuffer.cfg` | pass | With 3-bit `size_t` and every initial capacity, a `reserve` that does not crash keeps every byte of a valid range at its index (`ReserveKeepsRange`). About 12 000 states. |
| `abuffer_range_overflow` | `MC_RangeInBounds.cfg` | violation | **Code bug.** With a 3-bit `size_t`, a `setRange(offset, size)` whose `offset + size` wraps to at most `mCapacity` passes both `CHECK_LE`s. The range then ends past `mCapacity`. TLC reports one such two-step trace, and which one depends on the worker schedule. Examples are `setRange(1, 7)` on a 1-byte buffer, where `1 + 7` wraps to 0, and `setRange(2, 6)` on a 2-byte buffer, where `2 + 6` wraps to 0. |
| `secure_env` | `MCSecureEnv.cfg` | pass | All 2 592 flag configurations, 2 guest boots, and good and malformed requests on two channels. A re-executed image never fails a flag check (`ReExecNeverFailsFlagCheck`). Every request leaves its channel, answered or lost to a re-exec, unless the process dies or the guest reboots (`ResponderKeepsServing`). About 780 000 states in under 2 minutes. |
| `secure_env_guest_out_of_step` | `MC_ClientGetsOwnResponse.cfg` | violation | **Spec gap.** `ClientGetsOwnResponse` has two conjuncts. `TakesOwnResponse` (safety): the response the guest takes off a channel is for its own boot's request. `OwnResponseArrives` (liveness): a waiting client of the current boot eventually gets its response. The re-exec is meant to keep secure_env in step with the guest, but the channels outlive both reboot and `execv`. TLC reports the safety half. The old image answers boot 1's request, and the guest reboots before the monitor reads `BootloaderLoaded`. The rebooted guest's client then sends and takes boot 1's response as its own. Checked alone, the liveness half fails too. A responder reads the boot's request, and the re-exec triggered by that boot's own `BootloaderLoaded` kills it, so the client waits forever. |
| `server_refinement` | `MC_Refinement.cfg` | pass | `CvdServer` implements `CvdServerAbstract` (`ImplementsConnectionProtocol`). Every interleaving of workers, callbacks, re-arms and the shutdown cascade looks, per connection, like: accept, then one request read and answered at a time, until the connection is dropped. The process ends only with no request in flight. The mutant `Destroy` without waiting for `Join` breaks it. About 430 000 states. |
| `interrupt_never_delivered` | `MC_InterruptReachesBlockedHandler.cfg` | violation | **Spec gap.** Spec §4.5 and the §8 "mid-flight disconnect" scenario say a client that disconnects mid-request gets its handler interrupted. The run uses 2 workers and `command` handlers that block until interrupted. Both workers enter `Handle()`, and then both clients hang up. `interrupt_cb` is registered, but the fixed pool (`kNumThreads`, line 59) has no free worker to run it. So no handler is ever interrupted, and the server stays stuck. |
| `listener_failure_ignored` | `MC_ListenerFailureIsFatal.cfg` | violation | **Spec divergence.** `epoll_ctl` refuses `server_fd`. `CvdServerMain` ignores `StartServer`'s error (line 250) and waits in `Join`. A client connects and is never accepted, and the process never exits. Spec 7 says listener failures are fatal. |
| `monitor_eof_aborts` | `MC_ServingEndsOnlyByExec.cfg` | violation | **Spec gap.** The host's kernel log monitor closes the kernel-events pipe. `ReadEvent` fails, and `CHECK(read_result.has_value())` (line 119) aborts a fully started `secure_env` and all its responders. The loop is written as `while (kernel_events_fd->IsOpen())`, but secure_env never closes that descriptor, so the loop never ends that way. |
| `abuffer_null_block` | `MC_BlockBacksCapacity.cfg` | violation | **Code bug.** `reserve(1)` on an empty 0-byte buffer sets `mCapacity = 1`. Then realloc and malloc both fail, and the memcpy of 0 bytes does nothing. The buffer goes on with `mData == NULL` (line 61 does not check malloc). |
| `interrupt_after_handle` | `MC_InterruptOnlyDuringHandle.cfg` | violation | **Spec divergence.** Spec section 8 says `Interrupt()` is never called after `Handle` returned. The code clears the handler only after `SendResponse`, so a hang-up in that window still interrupts. |

The passing run checks these properties:
- `SingleFlowPerConnection`: at most one `HandleMessage` flow or armed
  EPOLLIN registration per connection.
- `RegistrationNeverRejected`.
- `InterruptRegistrationOwned`: an EPOLLHUP registration exists only while
  its request's `HandleMessage` is running.
- `ShutdownCompletes`: `~running ~> mainPc = "Done"`.
- `RequestAnswered`: a waiting client gets its response, or its connection
  is dropped, or it closed, or the process ended.
- `ClientAcceptedOrServerExits`: a client that connects is accepted, or the
  process exits. It needs `StartServer` to arm the listener, and every
  `AcceptClient` to re-arm it or call `Stop()`.

Each of these properties has a mutant in `PROJECT.json`, and TLC finds each
mutant's violation:
- clearing the handler to the wrong null;
- level-triggered dispatch;
- `Remove` that keeps the callback;
- `abandon_client` without `Remove`;
- a wakeup eventfd that is never registered;
- no EPOLLIN re-arm after a response;
- an `AcceptClient` that does not re-register the listener.

**Bounds.** The model uses:
- 2 workers and 2 clients, with up to 2 requests per client;
- 3 request kinds: version, shutdown, and one claimed by two handlers, so
  routing fails;
- 3 handlers.

Two workers are enough for every race in the code: each race is between two
callbacks running at once. Two clients make accepts interleave with running
requests. Two requests per client exercise re-arming and the stale interrupt
registration of the first request. The run covers about 430 000 distinct
states in under a minute.

**Fairness.** Every worker and the main thread are OS threads, so each gets
weak fairness. That includes `HandleEvent` when an event is ready. Outside
`BlockingHandlers`, the model's `Handle` always finishes, which assumes handlers terminate; spec 5
accepts that a handler may block for long, but not forever. Clients get no
fairness.

For `SecureEnv`, two boots give a re-exec with requests still pending in
the pipes, and a second re-exec of an image that was itself re-executed.
The guest uses two channels in `secure_env` and one (oemlock) in the
violation runs. The responders share nothing but the process that a
re-exec or an abort ends, so two channels are enough to interleave them.
With all three channels, one flag configuration alone has 870 000 states.
The threads get weak fairness because they are OS threads. The guest gets
none, and neither does the host's kernel log monitor, whose closing of the
pipe makes `ReadEventFails` possible. Deadlock checking is off because an abort ends the process.

For `ABuffer`, W = 3 gives sizes 0..7. That is enough for every branch of
`reserve` and for `offset + size` to wrap. Deadlock checking is off there
because a failed `CHECK` or a crash ends the program. When both
allocations in `reserve` fail, the memcpy through a null pointer is
undefined behaviour. The model allows the outcomes the build can produce.
With `size() == 0`, nothing is copied and the buffer goes on with
`mData == NULL` (`dataNull`). Otherwise it crashes.

Deadlock checking is off in the server runs because the server really does idle forever:
every worker is blocked in `HandleEvent` with nothing ready.

## 4. Not modelled (yet) and why

- **The kernel side of epoll.** The model does not have the one-shot-disabled
  fd that stays in the epoll set, or `epoll_ctl` errors other than the one on
  `server_fd`, whose result main ignores. The pool contract (spec 4.1) is
  modelled instead.
- **A failed `malloc` in the `ABuffer` constructor.** Only `reserve`'s
  allocations may fail.
- **`GetRequest` read errors.** They take the same abandon path as EOF.
- **`CanHandle` errors and handler internals.**
- **Logging, flag parsing and dependency injection.**
- **`BestEffortWakeup` failures.** `SharedFD::Event`, `EventfdWrite` or
  `Register` can fail, and the `CHECK` at line 74 or 82 then aborts the
  server. The model always succeeds in creating and arming the wakeup
  eventfd.
- **What the Rust TA thread does.** `kmr_ta_main` is not in this tree. The
  model starts the kmr thread before the `DupFdFlag` CHECKs (line 262). It
  does not model the thread serving on unchecked descriptors until a later
  CHECK aborts the process.
- **`OemLockResponder::ProcessMessage`.** Only its declaration is here.
  `Respond` writes one response per request it read, and is modelled from
  that contract.

## 5. Plan

1. Done: `EpollPool`, `CvdServer`, and the core runs above.
2. Done: `ABuffer.tla`, with the runs `abuffer_reserve` and
   `abuffer_range_overflow`.
3. Done: `SecureEnv.tla`, with the `secure_env` runs and
   `monitor_eof_aborts`. The stale answer of an earlier boot is now part of
   `secure_env_guest_out_of_step`.
4. Done: `CvdServerAbstract.tla` and the run `server_refinement`.
5. Dropped: a RECURSIVE routing fold. `CompatibleHandlers` and
   `RoutingSucceeds` already express the loop at lines 113-121 directly, so a
   second copy would check nothing new.
7. Done: `listener_failure_ignored` and `abuffer_null_block`.
6. Done: the run `interrupt_never_delivered`, with `BlockingHandlers`.
