------------------------------- MODULE MCHost -------------------------------
(***************************************************************************)
(* What the AstrBot host drives, for TLC: its start and stop, tool calls,  *)
(* dashboard pages, the log queries of the FF14 module, and the packages   *)
(* of other plugins.  Their models share no state, so one run explores     *)
(* each by itself: entrance says which of them this behaviour is about.    *)
(***************************************************************************)
EXTENDS HostLifecycle, ToolCalls, ModulePages, LogsHistory, ExternalPackages, TLC

CONSTANTS t1, t2, s1, s2

VARIABLE entrance

HostSymmetry == Permutations({t1, t2}) \cup Permutations({s1, s2})

\* A component that does not run has no state
Off == "off"

MCInit ==
    /\ entrance \in {"lifecycle", "tools", "pages", "logs", "packages"}
    /\ IF entrance = "lifecycle" THEN HostInit
       ELSE /\ hostGeneration = Off /\ hostClosing = Off /\ hostReady = Off
            /\ hostCore = Off /\ openCores = Off /\ blockedCore = Off /\ configError = Off
            /\ storageGuard = Off /\ bundleLease = Off /\ hostTransport = Off
            /\ hostTools = Off /\ hostQueue = Off /\ host = Off
    /\ IF entrance = "tools" THEN ToolInit
       ELSE /\ toolEpoch = Off /\ toolActive = Off /\ toolFence = Off /\ handles = Off
            /\ listed = Off /\ foreign = Off /\ publishError = Off /\ edits = Off
            /\ receipts = Off /\ request = Off /\ call = Off
    /\ IF entrance = "pages" THEN PageInit
       ELSE /\ pageEpoch = Off /\ pageFence = Off /\ pageSessions = Off /\ pageIssued = Off
            /\ tickets = Off /\ flow = Off /\ flowLock = Off /\ pageRevision = Off
            /\ pageTask = Off /\ told = Off /\ wrote = Off
    /\ IF entrance = "logs" THEN LogsInit
       ELSE /\ life = Off /\ metaCache = Off /\ dutyCache = Off /\ contracts = Off
            /\ packCache = Off /\ hides = Off /\ look = Off
    /\ IF entrance = "packages" THEN PackageInit
       ELSE /\ disk = Off /\ star = Off /\ hostOpen = Off /\ hostTurn = Off
            /\ packLease = Off /\ knownSource = Off /\ attachments = Off /\ code = Off
            /\ exposed = Off /\ grantRow = Off /\ policies = Off /\ migrated = Off
            /\ packager = Off /\ approval = Off

MCNext ==
    /\ UNCHANGED entrance
    /\ IF entrance = "lifecycle" THEN HostNext ELSE UNCHANGED hostVars
    /\ IF entrance = "tools" THEN ToolNext ELSE UNCHANGED toolVars
    /\ IF entrance = "pages" THEN PageNext ELSE UNCHANGED pageVars
    /\ IF entrance = "logs" THEN LogsNext ELSE UNCHANGED logsVars
    /\ IF entrance = "packages" THEN PackageNext ELSE UNCHANGED packageVars

MCSpec == MCInit /\ [][MCNext]_<<entrance, hostVars, toolVars, pageVars, logsVars, packageVars>>

-----------------------------------------------------------------------------
(* Properties *)

\* However initialize, terminate and recover_management overlap and fail, the
\* runtime answers only with the started core of its generation, and the core that
\* may have workers is the only one and holds the storage guard.
HostIsOwned ==
    entrance = "lifecycle" => ReadyMeansCurrent /\ OneCoreOwnsStorage

\* Publication of tools, the scoping of requests and the calls themselves: no step
\* leaves a tool of an old epoch callable, overwrites an edit of the host, or
\* answers for a message or an epoch that has changed.
ToolsStayCurrent ==
    [][entrance = "tools" => NoStaleTool' /\ HostEditSurvives' /\ AnswerIsCurrent]_toolVars

\* No step of a module page writes for a session that has ended, and no cancel of
\* an authorization is answered "cancelled" when its credential was or will be stored.
PagesAreFenced ==
    [][entrance = "pages" => CancelTellsTruth' /\ WriteIsLive]_pageVars

\* However the queries of the logs handler, their workers and close() interleave, a
\* history says what was found, and the caches hold nothing of an earlier lifecycle.
LogsTellTruth ==
    entrance = "logs" => HistoryTellsTruth /\ LogCachesAreCurrent

\* No step of register_package, _withdraw or detach_host_package loses the owner of
\* an attached package, and none of approve or bind records what nobody was shown.
PackagesAreTrusted ==
    [][entrance = "packages" => PackageIsOwned' /\ ApprovedAsShown]_packageVars
=============================================================================
