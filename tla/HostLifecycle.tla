--------------------------- MODULE HostLifecycle ---------------------------
(***************************************************************************)
(* AstrBotRuntime: the object the chat host calls to start and stop the    *)
(* plugin.  It owns one core, the guard of the private storage, the lease  *)
(* of the reviewed bundle, the HTTP transport and the published tools.     *)
(*                                                                         *)
(* initialize, terminate and recover_management serialise on one asyncio   *)
(* lock, but terminate raises its fence (generation, closing, ready)       *)
(* before it queues, so it runs in the middle of a start.  A step ends at  *)
(* an await; every await of an owned resource may fail.                    *)
(***************************************************************************)
EXTENDS Naturals, Sequences, FiniteSets

CONSTANTS
    Starters,        \* tasks of the host that call initialize
    Stoppers,        \* tasks of the host that call terminate
    Recoverers,      \* tasks of the dashboard that call recover_management
    MaxStarts        \* bound on hostGeneration

HostTasks == Starters \cup Stoppers \cup Recoverers

ASSUME HostAssumption ==
    /\ IsFiniteSet(HostTasks)
    /\ Starters \cap Stoppers = {} /\ (Starters \cup Stoppers) \cap Recoverers = {}
    /\ MaxStarts \in Nat \ {0}

VARIABLES
    hostGeneration,  \* _generation
    hostClosing,     \* _closing
    hostReady,       \* _ready
    hostCore,        \* _core: the generation that built it, 0 for None
    openCores,       \* cores that were built and whose close has not finished
    blockedCore,     \* hostCore.configuration_blocked
    configError,     \* _config_error is not None
    storageGuard,    \* _private_storage_guard: the generation that opened it, or 0
    bundleLease,     \* _assembly_lease is not None
    hostTransport,   \* _http_transport is not None
    hostTools,       \* _tool_publisher: "none", "open" or "revoked"
    hostQueue,       \* asyncio.Lock: its holder, then its waiters
    host             \* task -> coroutine

owned == <<hostCore, openCores, blockedCore, storageGuard, bundleLease, hostTransport, hostTools>>
fence == <<hostGeneration, hostClosing, hostReady, configError>>
hostVars == <<fence, owned, hostQueue, host>>

NoHostTask == [pc |-> "idle", gen |-> 0, ret |-> "none", pending |-> FALSE]

HostInit ==
    /\ hostGeneration = 0 /\ hostClosing = FALSE /\ hostReady = FALSE
    /\ hostCore = 0 /\ openCores = {} /\ blockedCore = FALSE /\ configError = FALSE
    /\ storageGuard = 0 /\ bundleLease = FALSE /\ hostTransport = FALSE
    /\ hostTools = "none"
    /\ hostQueue = << >>
    /\ host = [t \in HostTasks |-> NoHostTask]

Holds(t) == hostQueue # << >> /\ Head(hostQueue) = t
HostAt(t, pc) == host[t].pc = pc
HostGoes(t, pc) == host' = [host EXCEPT ![t].pc = pc] /\ UNCHANGED hostQueue
HostWaits(t, pc) == host' = [host EXCEPT ![t].pc = pc] /\ hostQueue' = Append(hostQueue, t)
HostLeaves(t) == host' = [host EXCEPT ![t] = NoHostTask] /\ hostQueue' = Tail(hostQueue)
\* await _close_owned_runtime(), then continue at ret.
HostCalls(t, ret) ==
    /\ host' = [host EXCEPT ![t].pc = "close", ![t].ret = ret, ![t].pending = FALSE]
    /\ UNCHANGED hostQueue

-----------------------------------------------------------------------------
\* _close_owned_runtime.

\* Extension host, font and help tasks are awaited; then, in one step, the
\* runtime stops being ready, its tools are withdrawn and its sources closed.
CloseFronts(t, helpPending, toolsPending) ==
    /\ HostAt(t, "close") /\ Holds(t)
    /\ toolsPending => hostTools # "none"
    /\ hostReady' = FALSE
    /\ hostTools' = IF toolsPending THEN "revoked" ELSE "none"
    /\ host' = [host EXCEPT ![t].pc = "close_core", ![t].pending = helpPending \/ toolsPending]
    /\ UNCHANGED <<hostGeneration, hostClosing, configError, hostCore, openCores, blockedCore,
                   storageGuard, bundleLease, hostTransport, hostQueue>>

\* core.close() returned TRUE, or it is still pending and stays owned.
CloseCore_Forgets(t, closed) ==
    /\ hostCore' = 0 /\ blockedCore' = FALSE
    /\ openCores' = IF closed THEN openCores \ {hostCore} ELSE openCores
    /\ host' = [host EXCEPT ![t].pc = "close_rest"]

CloseCore(t, closed) ==
    IF hostCore = 0 \/ closed
    THEN /\ hostCore' = 0 /\ blockedCore' = FALSE
         /\ openCores' = openCores \ {hostCore}
         /\ host' = [host EXCEPT ![t].pc = "close_rest"]
    ELSE /\ UNCHANGED <<hostCore, openCores, blockedCore>>
         /\ host' = [host EXCEPT ![t].pc = "close_rest", ![t].pending = TRUE]

CloseCoreStep(t, closed) ==
    /\ HostAt(t, "close_core") /\ Holds(t)
    /\ CloseCore(t, closed)
    /\ UNCHANGED <<fence, storageGuard, bundleLease, hostTransport, hostTools, hostQueue>>

\* Once no core is left: storage guard, bundle lease, transport.  Anything
\* pending is raised to the caller, which leaves the lock.
CloseRest(t, transportPending) ==
    LET failed == host[t].pending \/ (hostCore = 0 /\ transportPending) IN
    /\ HostAt(t, "close_rest") /\ Holds(t)
    /\ transportPending => hostTransport /\ hostCore = 0
    /\ IF hostCore = 0
       THEN storageGuard' = 0 /\ bundleLease' = FALSE /\ hostTransport' = transportPending
       ELSE UNCHANGED <<storageGuard, bundleLease, hostTransport>>
    /\ IF failed THEN HostLeaves(t) ELSE HostGoes(t, host[t].ret)
    /\ UNCHANGED <<fence, hostCore, openCores, blockedCore, hostTools>>

-----------------------------------------------------------------------------
\* initialize.

InitializeCalled(t) ==
    /\ t \in Starters /\ HostAt(t, "idle") /\ hostGeneration < MaxStarts
    /\ host' = [host EXCEPT ![t].pc = "enter", ![t].gen = hostGeneration]
    /\ hostQueue' = Append(hostQueue, t)
    /\ UNCHANGED <<fence, owned>>

InitializeEnters(t) ==
    /\ HostAt(t, "enter") /\ Holds(t)
    /\ \/ host[t].gen # hostGeneration /\ HostLeaves(t)
       \/ host[t].gen = hostGeneration /\ hostClosing /\ HostCalls(t, "reopen")
       \/ host[t].gen = hostGeneration /\ ~hostClosing /\ HostGoes(t, "renew")
    /\ UNCHANGED <<fence, owned>>

InitializeReopens(t) ==
    /\ HostAt(t, "reopen") /\ Holds(t)
    /\ hostClosing' = FALSE
    /\ HostGoes(t, "renew")
    /\ UNCHANGED <<hostGeneration, hostReady, configError, owned>>

\* A new generation closes the sessions of the last one, and first of all
\* whatever the last one still owns.
NothingHeld == hostCore = 0 /\ ~hostTransport

Renew(t) ==
    /\ HostAt(t, "renew") /\ Holds(t)
    /\ IF configError \/ (hostReady /\ hostCore # 0) \/ hostGeneration >= MaxStarts
       THEN HostLeaves(t) /\ UNCHANGED hostGeneration
       ELSE /\ hostGeneration' = hostGeneration + 1
            /\ host' = [host EXCEPT ![t].gen = hostGeneration + 1,
                           ![t].pc = IF NothingHeld THEN "install" ELSE "close",
                           ![t].ret = "install", ![t].pending = FALSE]
            /\ UNCHANGED hostQueue
    /\ UNCHANGED <<hostClosing, hostReady, configError, owned>>

\* install_bundled_package, then transport and storage guard; the trust
\* records are loaded with an await.
InstallBundle(t, trusted, failed) ==
    /\ HostAt(t, "install") /\ Holds(t)
    /\ IF failed
       THEN HostLeaves(t) /\ UNCHANGED <<bundleLease, hostTransport, storageGuard>>
       ELSE /\ bundleLease' = trusted
            /\ hostTransport' = TRUE
            /\ storageGuard' = host[t].gen
            /\ HostGoes(t, "build")
    /\ UNCHANGED <<fence, hostCore, openCores, blockedCore, hostTools>>

\* The core is constructed and its administration sources registered, or
\* everything acquired so far is released.
BuildCore(t, built, transportPending) ==
    /\ HostAt(t, "build") /\ Holds(t)
    /\ built => ~transportPending
    /\ IF built
       THEN /\ hostCore' = host[t].gen
            /\ openCores' = openCores \cup {host[t].gen}
            /\ HostGoes(t, "starting")
            /\ UNCHANGED <<storageGuard, bundleLease, hostTransport>>
       ELSE /\ storageGuard' = 0 /\ bundleLease' = FALSE
            /\ hostTransport' = transportPending
            /\ HostLeaves(t)
            /\ UNCHANGED <<hostCore, openCores>>
    /\ UNCHANGED <<fence, blockedCore, hostTools>>

\* core.start() raised: a blocked configuration keeps the core for the
\* dashboard unless the runtime is closing; otherwise the core is closed.
StartFailed(t, blocked) ==
    /\ HostAt(t, "starting") /\ Holds(t)
    /\ hostReady' = FALSE
    /\ IF blocked /\ ~hostClosing /\ host[t].gen = hostGeneration
       THEN /\ configError' = TRUE /\ blockedCore' = TRUE
            /\ HostLeaves(t)
       ELSE /\ UNCHANGED configError
            /\ blockedCore' = blocked
            /\ HostGoes(t, "failed")
    /\ UNCHANGED <<hostGeneration, hostClosing, hostCore, openCores, storageGuard,
                   bundleLease, hostTransport, hostTools>>

StartReleases(t, closed, transportPending) ==
    /\ HostAt(t, "failed") /\ Holds(t)
    /\ transportPending => closed
    /\ IF closed
       THEN /\ hostCore' = 0 /\ blockedCore' = FALSE
            /\ openCores' = openCores \ {hostCore}
            /\ storageGuard' = 0 /\ bundleLease' = FALSE
            /\ hostTransport' = transportPending
       ELSE UNCHANGED <<hostCore, blockedCore, openCores, storageGuard, bundleLease, hostTransport>>
    /\ HostLeaves(t)
    /\ UNCHANGED <<fence, hostTools>>

\* core.start() returned.
StillStarting_Closing(t) ==
    hostCore = host[t].gen

StillStarting(t) ==
    ~hostClosing /\ host[t].gen = hostGeneration /\ hostCore = host[t].gen

StartFinished(t) ==
    /\ HostAt(t, "starting") /\ Holds(t)
    /\ IF StillStarting(t)
       THEN hostReady' = TRUE /\ HostGoes(t, "publish")
       ELSE UNCHANGED hostReady /\ HostLeaves(t)
    /\ UNCHANGED <<hostGeneration, hostClosing, configError, owned>>

\* _publish_tools_or_close, also used by recover_management.
PublishTools(t, published) ==
    /\ HostAt(t, "publish") /\ Holds(t)
    /\ IF published /\ hostTools # "revoked"
       THEN /\ hostTools' = "open"
            /\ HostLeaves(t)
            /\ UNCHANGED <<hostReady, hostClosing>>
       ELSE /\ hostReady' = FALSE /\ hostClosing' = TRUE
            /\ hostTools' = "revoked"
            /\ HostCalls(t, "unpublished")
    /\ UNCHANGED <<hostGeneration, configError, hostCore, openCores, blockedCore,
                   storageGuard, bundleLease, hostTransport>>

-----------------------------------------------------------------------------
\* terminate.

\* The source authorizations are closed with an await before the fence.
TerminateCalled(t) ==
    /\ t \in Stoppers /\ HostAt(t, "idle") /\ hostGeneration < MaxStarts
    /\ HostGoes(t, "fence")
    /\ UNCHANGED <<fence, owned>>

RaiseFence(t) ==
    /\ HostAt(t, "fence")
    /\ hostGeneration' = hostGeneration + 1
    /\ hostClosing' = TRUE /\ hostReady' = FALSE
    /\ hostTools' = IF hostTools = "none" THEN "none" ELSE "revoked"
    /\ HostWaits(t, "stopping")
    /\ UNCHANGED <<configError, hostCore, openCores, blockedCore, storageGuard,
                   bundleLease, hostTransport>>

TerminateEnters(t) ==
    /\ HostAt(t, "stopping") /\ Holds(t)
    /\ HostCalls(t, "stopped")
    /\ UNCHANGED <<fence, owned>>

\* _closing = False: the last statement of terminate, and of a failed
\* publication.
Reopened(t) ==
    /\ host[t].pc \in {"stopped", "unpublished"} /\ Holds(t)
    /\ hostClosing' = FALSE
    /\ HostLeaves(t)
    /\ UNCHANGED <<hostGeneration, hostReady, configError, owned>>

-----------------------------------------------------------------------------
\* recover_management.

RecoverCalled(t) ==
    /\ t \in Recoverers /\ HostAt(t, "idle") /\ hostCore # 0
    /\ host' = [host EXCEPT ![t].pc = "recover", ![t].gen = hostCore]
    /\ hostQueue' = Append(hostQueue, t)
    /\ UNCHANGED <<fence, owned>>

ManagementCurrent(t) == hostCore = host[t].gen /\ ~hostClosing

RecoverEnters(t) ==
    /\ HostAt(t, "recover") /\ Holds(t)
    /\ IF ManagementCurrent(t) /\ blockedCore THEN HostGoes(t, "recovering") ELSE HostLeaves(t)
    /\ UNCHANGED <<fence, owned>>

\* A preparatory failure keeps the blocked foundation; a later one closes all.
RecoverFailed(t, stillBlocked) ==
    /\ HostAt(t, "recovering") /\ Holds(t)
    /\ blockedCore' = stillBlocked
    /\ IF stillBlocked THEN HostLeaves(t) ELSE HostCalls(t, "unrecovered")
    /\ UNCHANGED <<fence, hostCore, openCores, storageGuard, bundleLease, hostTransport, hostTools>>

RecoverRaises(t) ==
    /\ HostAt(t, "unrecovered") /\ Holds(t)
    /\ HostLeaves(t)
    /\ UNCHANGED <<fence, owned>>

RecoverFinished(t) ==
    /\ HostAt(t, "recovering") /\ Holds(t)
    /\ blockedCore' = FALSE
    /\ IF ManagementCurrent(t)
       THEN configError' = FALSE /\ hostReady' = TRUE /\ HostGoes(t, "publish")
       ELSE UNCHANGED <<configError, hostReady>> /\ HostLeaves(t)
    /\ UNCHANGED <<hostGeneration, hostClosing, hostCore, openCores, storageGuard,
                   bundleLease, hostTransport, hostTools>>

-----------------------------------------------------------------------------
\* What follows the return of an awaited call without another await.
Continues(t) == host[t].pc \in {"reopen", "renew", "install", "publish", "stopped",
                                "unpublished", "unrecovered"}
HostContinues(t) ==
    \/ InitializeReopens(t) \/ Renew(t) \/ Reopened(t) \/ RecoverRaises(t)
    \/ \E published \in BOOLEAN : PublishTools(t, published)
    \/ \E trusted, failed \in BOOLEAN : InstallBundle(t, trusted, failed)

HostResumes(t) ==
    \/ InitializeCalled(t) \/ InitializeEnters(t) \/ StartFinished(t)
    \/ TerminateCalled(t) \/ RaiseFence(t) \/ TerminateEnters(t)
    \/ RecoverCalled(t) \/ RecoverEnters(t) \/ RecoverFinished(t)
    \/ \E a, b \in BOOLEAN : CloseFronts(t, a, b) \/ BuildCore(t, a, b) \/ StartReleases(t, a, b)
    \/ \E a \in BOOLEAN :
          CloseCoreStep(t, a) \/ CloseRest(t, a) \/ StartFailed(t, a) \/ RecoverFailed(t, a)

HostNext ==
    \E t \in HostTasks :
       \/ HostContinues(t)
       \/ (\A u \in HostTasks : ~Continues(u)) /\ HostResumes(t)

HostSpec == HostInit /\ [][HostNext]_hostVars

-----------------------------------------------------------------------------
\* The runtime answers the host (_ready) only while it is not closing and the
\* core it would use is the started core of the current generation, holding
\* the storage guard and a transport: a terminate that overtakes a start or a
\* recovery is never undone when that start returns.
ReadyMeansCurrent ==
    hostReady => /\ ~hostClosing /\ ~blockedCore /\ ~configError
                 /\ hostCore = hostGeneration /\ hostCore \in openCores
                 /\ storageGuard = hostCore /\ hostTransport
                 /\ hostTools = "revoked" => \E t \in HostTasks : HostAt(t, "publish")

\* However starts, stops, recoveries and failed closes follow each other, at
\* most one core is open, it is the one the runtime still owns, and it keeps
\* the storage guard and the transport for as long as it may have workers.
OneCoreOwnsStorage ==
    openCores # {} => openCores = {hostCore} /\ storageGuard = hostCore /\ hostTransport
=============================================================================
