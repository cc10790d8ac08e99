----------------------------- MODULE SecureEnv -----------------------------
(***************************************************************************)
(* The secure_env process (host/commands/secure_env/                      *)
(* secure_env_linux_main.cpp): its start-up sequence, the three responder *)
(* threads that serve the guest's keymaster, gatekeeper and oemlock       *)
(* channels, and the kernel-event monitor that re-executes the whole      *)
(* process when the guest's bootloader loads again.                       *)
(*                                                                         *)
(* The flags are chosen in Init from the constant sets of values (an      *)
(* invalid value stands for every string the code does not accept) and    *)
(* survive a re-exec, as ReExecSelf passes the same argv.  A descriptor   *)
(* flag is abstracted to whether it was given (not -1) and whether the    *)
(* original descriptor is still open.  The guest is the environment: it   *)
(* reboots (writing BootloaderLoaded to the kernel-events pipe) and sends *)
(* one request at a time per channel, good or malformed.  The pipes are   *)
(* inherited across exec, so what the guest wrote and nobody read stays   *)
(* in them, and so does what secure_env wrote and the guest has not read: *)
(* each channel is a pair of FIFOs that outlive both a guest reboot and   *)
(* a re-exec.  A message is labelled with the guest boot that sent it.    *)
(***************************************************************************)
EXTENDS Naturals, Sequences

CONSTANTS
    TpmImpls,        \* values FLAGS_tpm_impl may have
    KeymintImpls,    \* values FLAGS_keymint_impl may have
    GatekeeperImpls, \* values FLAGS_gatekeeper_impl may have
    OemlockImpls,    \* values FLAGS_oemlock_impl may have
    GivenFdSets,     \* sets of descriptor flags that may be given (not -1)
    MaxBoots,        \* bound on guest boots, hence on re-execs
    GuestChannels    \* the channels the guest sends requests on

Responders == {"keymaster", "gatekeeper", "oemlock"}

ASSUME GuestChannels \subseteq Responders

\* The DupFdFlag call sites of SecureEnvMain in order, each followed by
\* the start of the thread that owns the descriptors.
DupSites == <<"keymaster", "gatekeeper", "oemlock", "confui", "monitor">>

SiteSet == {DupSites[i] : i \in 1..Len(DupSites)}

Threads == SiteSet \cup {"kmr"}

\* A request: the boot that sent it, and whether it is well-formed.
Msgs == [boot : 1..MaxBoots, ok : BOOLEAN]
NoMsg == [boot |-> 0, ok |-> TRUE]

\* Bound on the requests unread in one channel.
MaxQueued == 1

VARIABLES
    flags,      \* [tpm, keymint, gatekeeper, oemlock, given]
    origOpen,   \* descriptor flags whose original fd is still open
    gen,        \* number of successful re-execs
    mainPc,     \* "Inject", "Keymint", "Start", "Join" or "Aborted"
    stage,      \* index into DupSites of the next DupFdFlag
    abortCause, \* "none", "flag" (a flag or CHECK), "env" (TPM), "exec",
                \* "monitor" (ReadEvent failed)
    started,    \* threads running in the current process image
    rpc,        \* per responder: "Create" (building the channel) or "Process"
    pipe,       \* per channel: the guest's requests secure_env has not read
    held,       \* per responder: the request read and not answered, or NoMsg
    reply,      \* per channel: responses (the boot of their request) the
                \* guest has not read
    waiting,    \* per channel: the boot whose client waits for a response,
                \* or 0
    boot,       \* guest boots so far
    events      \* BootloaderLoaded events written and not yet read

vars == <<flags, origOpen, gen, mainPc, stage, abortCause, started, rpc,
          pipe, held, reply, waiting, boot, events>>

chanVars == <<pipe, held, reply, waiting>>

Alive == mainPc # "Aborted"

\* The implementation choices the code accepts: ChooseGatekeeperComponent,
\* ChooseOemlockComponent (a "tpm" oemlock is LOG(FATAL) too) and the Tpm
\* provider of SecureEnvComponent.
InjectFlagsValid ==
    /\ flags.tpm \in {"in_memory", "host_device"}
    /\ flags.gatekeeper \in {"software", "tpm"}
    /\ flags.oemlock = "software"

KeymintFlagValid == flags.keymint \in {"software", "tpm"}

\* The process dies: every thread stops where it is; a request a responder
\* had read and not answered is gone, whatever is still in a pipe stays.
ThreadsKilled ==
    /\ started' = {}
    /\ held' = [r \in Responders |-> NoMsg]
    /\ UNCHANGED <<pipe, reply, waiting>>

Abort(cause) ==
    /\ mainPc' = "Aborted"
    /\ abortCause' = cause
    /\ ThreadsKilled
    /\ UNCHANGED <<rpc, stage>>

Init ==
    /\ flags \in [tpm : TpmImpls, keymint : KeymintImpls,
                  gatekeeper : GatekeeperImpls, oemlock : OemlockImpls,
                  given : GivenFdSets]
    /\ origOpen = flags.given
    /\ gen = 0
    /\ mainPc = "Inject"
    /\ stage = 1
    /\ abortCause = "none"
    /\ started = {}
    /\ rpc = [r \in Responders |-> "Create"]
    /\ pipe = [r \in Responders |-> <<>>]
    /\ held = [r \in Responders |-> NoMsg]
    /\ reply = [r \in Responders |-> <<>>]
    /\ waiting = [r \in Responders |-> 0]
    /\ boot = 0
    /\ events = 0

\* The injector (line 228) runs the component functions and, on the first
\* get, the Tpm and Esys providers: a bad choice is LOG(FATAL), and so is a
\* TPM that cannot be reached or initialised.
Inject ==
    /\ mainPc = "Inject"
    /\ IF ~InjectFlagsValid
       THEN Abort("flag")
       ELSE \/ /\ mainPc' = "Keymint"
               /\ UNCHANGED <<abortCause, started, chanVars, rpc, stage>>
            \/ Abort("env")
    /\ UNCHANGED <<flags, origOpen, gen, boot, events>>

\* The keymint choice (lines 240-247), the Rust TA thread, which takes its
\* descriptors unchecked (lines 259-264), and the keymaster context.
Keymint ==
    /\ mainPc = "Keymint"
    /\ IF ~KeymintFlagValid
       THEN Abort("flag")
       ELSE /\ mainPc' = "Start"
            /\ stage' = 1
            /\ started' = started \cup {"kmr"}
            /\ UNCHANGED <<abortCause, chanVars, rpc>>
    /\ UNCHANGED <<flags, origOpen, gen, boot, events>>

\* DupFdFlag's two CHECKs: the flag is not -1 and dup of it succeeds,
\* which needs the original descriptor to be open.
DupSucceeds(site) == site \in flags.given /\ site \in origOpen

\* Mutant: the flag's descriptor is dup'ed and then closed.
DupFdFlagClosing(site) == origOpen' = origOpen \ {site}

\* DupFdFlag keeps the original descriptor open, so that the re-executed
\* image finds it again.
DupFdFlag(site) == origOpen' = origOpen

\* One DupFdFlag call site and the thread it feeds (lines 287-334): a
\* responder thread starts by building its channel.
StartThread ==
    LET site == DupSites[stage] IN
    /\ mainPc = "Start"
    /\ IF DupSucceeds(site)
       THEN /\ DupFdFlag(site)
            /\ started' = started \cup {site}
            /\ rpc' = IF site \in Responders
                      THEN [rpc EXCEPT ![site] = "Create"] ELSE rpc
            /\ stage' = stage + 1
            /\ mainPc' = IF stage = Len(DupSites) THEN "Join" ELSE "Start"
            /\ UNCHANGED <<abortCause, chanVars>>
       ELSE /\ Abort("flag")
            /\ UNCHANGED origOpen
    /\ UNCHANGED <<flags, gen, boot, events>>

-----------------------------------------------------------------------------
(* The responder threads: while (true) { channel; responder;              *)
(* while (responder.ProcessMessage()) {} }.  ProcessMessage reads one      *)
(* request and writes its response; a malformed request (or a failed      *)
(* read) makes it return false and the channel is built again.           *)

Serving(r) == Alive /\ r \in started

CreateChannel(r) ==
    /\ Serving(r)
    /\ rpc[r] = "Create"
    /\ rpc' = [rpc EXCEPT ![r] = "Process"]
    /\ UNCHANGED <<flags, origOpen, gen, mainPc, stage, abortCause, started,
                   chanVars, boot, events>>

ReadRequest(r) ==
    /\ Serving(r)
    /\ rpc[r] = "Process"
    /\ held[r] = NoMsg
    /\ pipe[r] # <<>>
    /\ Head(pipe[r]).ok
    /\ held' = [held EXCEPT ![r] = Head(pipe[r])]
    /\ pipe' = [pipe EXCEPT ![r] = Tail(@)]
    /\ UNCHANGED <<flags, origOpen, gen, mainPc, stage, abortCause, started,
                   rpc, reply, waiting, boot, events>>

\* ProcessMessage writes the response to the request it read.  Only the
\* OemLockResponder declaration is in this tree, so the step is modelled
\* from what the responder loops rely on: one response per request.
Respond(r) ==
    /\ Serving(r)
    /\ held[r] # NoMsg
    /\ reply' = [reply EXCEPT ![r] = Append(@, held[r].boot)]
    /\ held' = [held EXCEPT ![r] = NoMsg]
    /\ UNCHANGED <<flags, origOpen, gen, mainPc, stage, abortCause, started,
                   rpc, pipe, waiting, boot, events>>

\* Mutant: the thread returns when ProcessMessage fails (no outer loop).
ProcessFailsExits(r) ==
    /\ rpc' = [rpc EXCEPT ![r] = "Exited"]
    /\ started' = started \ {r}

ProcessFailsRecreate(r) ==
    /\ rpc' = [rpc EXCEPT ![r] = "Create"]
    /\ UNCHANGED started

ProcessFails(r) ==
    /\ Serving(r)
    /\ rpc[r] = "Process"
    /\ held[r] = NoMsg
    /\ pipe[r] # <<>>
    /\ ~Head(pipe[r]).ok
    /\ pipe' = [pipe EXCEPT ![r] = Tail(@)]
    /\ ProcessFailsRecreate(r)
    /\ UNCHANGED <<flags, origOpen, gen, mainPc, stage, abortCause, boot,
                   events, held, reply, waiting>>

-----------------------------------------------------------------------------
(* The kernel-event monitor (StartKernelEventMonitor): ReadEvent blocks   *)
(* until an event; on BootloaderLoaded ReExecSelf execv's /proc/self/exe  *)
(* with the same argv, which replaces every thread of the process, or     *)
(* LOG(FATAL)s when execv fails.  Other events leave nothing to model.    *)
ReExec ==
    /\ Serving("monitor")
    /\ events > 0
    /\ events' = events - 1
    /\ \/ /\ gen' = gen + 1
          /\ mainPc' = "Inject"
          /\ stage' = 1
          /\ rpc' = [r \in Responders |-> "Create"]
          /\ ThreadsKilled
          /\ UNCHANGED abortCause
       \/ /\ Abort("exec")
          /\ UNCHANGED gen
    /\ UNCHANGED <<flags, origOpen, boot>>

\* Once the host's kernel log monitor has closed its end and the pipe is
\* drained, ReadEvent returns no event; kernel_events_fd itself stays
\* open, so the loop goes on to CHECK(read_result.has_value()), which
\* aborts the whole process.  The writer closing is the environment's
\* doing, so this step gets no fairness.
ReadEventFails ==
    /\ Serving("monitor")
    /\ events = 0
    /\ Abort("monitor")
    /\ UNCHANGED <<flags, origOpen, gen, boot, events>>

-----------------------------------------------------------------------------
(* The guest.                                                              *)

(* A reboot writes BootloaderLoaded to the kernel-events pipe; the       *)
(* rebooted guest's clients wait for nothing the old ones sent.  A        *)
(* client waits for a response before it sends its next request, and     *)
(* takes the next response in the channel as that response.               *)
GuestBoot ==
    /\ boot < MaxBoots
    /\ boot' = boot + 1
    /\ events' = events + 1
    /\ waiting' = [r \in Responders |-> 0]
    /\ UNCHANGED <<flags, origOpen, gen, mainPc, stage, abortCause, started,
                   rpc, pipe, held, reply>>

GuestSend(r) ==
    /\ r \in GuestChannels
    /\ boot > 0
    /\ waiting[r] = 0
    /\ Len(pipe[r]) < MaxQueued
    /\ \E ok \in BOOLEAN :
          /\ pipe' = [pipe EXCEPT ![r] = Append(@, [boot |-> boot, ok |-> ok])]
          /\ waiting' = [waiting EXCEPT ![r] = IF ok THEN boot ELSE 0]
    /\ UNCHANGED <<flags, origOpen, gen, mainPc, stage, abortCause, started,
                   rpc, held, reply, boot, events>>

GuestReceive(r) ==
    /\ waiting[r] # 0
    /\ reply[r] # <<>>
    /\ reply' = [reply EXCEPT ![r] = Tail(@)]
    /\ waiting' = [waiting EXCEPT ![r] = 0]
    /\ UNCHANGED <<flags, origOpen, gen, mainPc, stage, abortCause, started,
                   rpc, pipe, held, boot, events>>

Main == Inject \/ Keymint \/ StartThread

Responder(r) == CreateChannel(r) \/ ReadRequest(r) \/ Respond(r) \/ ProcessFails(r)

Guest == GuestBoot \/ \E r \in Responders : GuestSend(r) \/ GuestReceive(r)

Next ==
    \/ Main
    \/ \E r \in Responders : Responder(r)
    \/ ReExec
    \/ ReadEventFails
    \/ Guest

\* Every thread of the process is an OS thread: each gets weak fairness.
\* The guest and the host's kernel log monitor get none.
Fairness ==
    /\ WF_vars(Main)
    /\ \A r \in Responders : WF_vars(Responder(r))
    /\ WF_vars(ReExec)

Spec == Init /\ [][Next]_vars /\ Fairness

-----------------------------------------------------------------------------

TypeOK ==
    /\ origOpen \subseteq SiteSet
    /\ gen \in 0..MaxBoots
    /\ mainPc \in {"Inject", "Keymint", "Start", "Join", "Aborted"}
    /\ stage \in 1..(Len(DupSites) + 1)
    /\ abortCause \in {"none", "flag", "env", "exec", "monitor"}
    /\ started \subseteq Threads
    /\ rpc \in [Responders -> {"Create", "Process"}]
    /\ pipe \in [Responders -> Seq(Msgs)]
    /\ held \in [Responders -> Msgs \cup {NoMsg}]
    /\ reply \in [Responders -> Seq(1..MaxBoots)]
    /\ waiting \in [Responders -> 0..MaxBoots]
    /\ boot \in 0..MaxBoots
    /\ events \in 0..MaxBoots

\* DupFdFlag keeps the original descriptor open "so that we can re-exec
\* this process": an image started by ReExecSelf, with the same argv,
\* never fails a flag check or a CHECK of DupFdFlag that the first image
\* passed.
ReExecNeverFailsFlagCheck ==
    abortCause = "flag" => gen = 0

\* The request a client waits for is still in its channel or held by the
\* responder.
InFlight(r) ==
    /\ waiting[r] # 0
    /\ \/ held[r].boot = waiting[r]
       \/ \E i \in DOMAIN pipe[r] : pipe[r][i] = [boot |-> waiting[r], ok |-> TRUE]

\* A request the guest writes to a responder's channel is eventually taken
\* out of it and answered, or lost to a re-exec, unless the process dies
\* or the guest reboots:
\* a malformed message before it only makes the responder rebuild its
\* channel and carry on.
ResponderKeepsServing ==
    \A r \in Responders :
        InFlight(r) ~> (~InFlight(r) \/ ~Alive)

\* A response the guest takes off a channel is the one for the request its
\* client waits for, the guest's boot: it is never a response to an
\* earlier boot's request still left in the host-to-guest FIFO.
TakesOwnResponse ==
    [][\A r \in Responders : GuestReceive(r) => Head(reply[r]) = waiting[r]]_vars

\* A client of the current boot that waits for a response eventually
\* finds a response to its own request first in its channel, unless the
\* guest reboots again or the process dies: a re-exec may not drop it.
OwnResponseArrives ==
    \A r \in Responders, b \in 1..MaxBoots :
        (boot = b /\ waiting[r] = b)
            ~> (reply[r] # <<>> /\ Head(reply[r]) = b) \/ boot # b \/ ~Alive

\* secure_env re-executes on every guest boot so that its boot tracking
\* "matches up with the guest" (the comment above StartKernelEventMonitor):
\* every client of a boot gets the response to its own request, neither a
\* stale one left by the previous image nor none at all because the
\* re-exec killed the request the responder had read.
ClientGetsOwnResponse == TakesOwnResponse /\ OwnResponseArrives

\* The monitor loop runs "while (kernel_events_fd->IsOpen())", as if it
\* were to end when its pipe goes away: a secure_env serving the guest
\* (every thread started) leaves only through ReExecSelf, whose failed
\* execv is the one fatal exit.
ServingEndsOnlyByExec ==
    [][mainPc = "Join" /\ mainPc' = "Aborted" => abortCause' = "exec"]_vars
=============================================================================
