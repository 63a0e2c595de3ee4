----------------------------- MODULE MCServices -----------------------------
(***************************************************************************)
(* The services a module's invocation may call, for TLC.  Their models     *)
(* share no state, so one run explores each by itself: service says which  *)
(* of them this behaviour is about.                                        *)
(***************************************************************************)
EXTENDS AccountBindings, ResourceCache, DurableJobs, BoundServices, StorageMigration, TLC

CONSTANTS t1, t2, s1, s2

VARIABLE service

ServiceSymmetry == Permutations({t1, t2}) \cup Permutations({s1, s2})

\* A component that does not run has no state
Off == "off"

MCInit ==
    /\ service \in {"bindings", "cache", "jobs", "bound", "migration"}
    /\ IF service = "bindings" THEN BindInit
       ELSE /\ principals = Off /\ route = Off /\ identities = Off /\ bindings = Off
            /\ minted = Off /\ chosen = Off /\ bindGate = Off /\ command = Off
    /\ IF service = "cache" THEN CacheInit
       ELSE /\ index = Off /\ entry = Off /\ files = Off /\ pins = Off /\ page = Off
            /\ cacheLock = Off /\ readers = Off /\ job = Off
    /\ IF service = "jobs" THEN JobsInit
       ELSE /\ jobs = Off /\ moduleOn = Off /\ up = Off /\ wake = Off /\ queue = Off
            /\ driver = Off /\ runs = Off /\ tasks = Off /\ running = Off /\ settling = Off
    /\ IF service = "bound" THEN ServicesInit
       ELSE /\ registered = Off /\ lifetime = Off /\ closed = Off /\ grant = Off
            /\ ownerOn = Off /\ mutex = Off /\ record = Off /\ cached = Off /\ scope = Off
    /\ IF service = "migration" THEN MigrationInit
       ELSE /\ source = Off /\ header = Off /\ tries = Off /\ selector = Off /\ writer = Off
            /\ supervisor = Off /\ plan = Off /\ mover = Off

MCNext ==
    /\ UNCHANGED service
    /\ IF service = "bindings" THEN BindNext ELSE UNCHANGED bindVars
    /\ IF service = "cache" THEN CacheNext ELSE UNCHANGED cacheVars
    /\ IF service = "jobs" THEN JobsNext ELSE UNCHANGED jobVars
    /\ IF service = "bound" THEN ServicesNext ELSE UNCHANGED serviceVars
    /\ IF service = "migration" THEN MigrationNext ELSE UNCHANGED migrationVars

MCSpec == MCInit /\ [][MCNext]_<<service, bindVars, cacheVars, jobVars, serviceVars,
                                  migrationVars>>

-----------------------------------------------------------------------------
(* Properties *)

\* Whichever first messages of an actor race through ensure and bind, what they
\* stored belongs to the principal the actor resolves to.
BindingsAreKept ==
    service = "bindings" => OwnerKeepsBindings

\* No step of store, read, pin or _evict, and no crash, leaves a live entry
\* without its bytes, or takes bytes away that are leased or pinned.
BytesArePromised ==
    [][service = "cache" => ManagedHasFile' /\ LeasedFileStays]_cacheVars

\* However claims, cancellations, retries, timeouts, close and restarts of the job
\* service meet: one run per job, results of one attempt, no row left running.
JobsAreOwned ==
    service = "jobs" => ResultsOfOneAttempt /\ OneRunPerJob /\ RunningHasRun

\* No step of a bound service writes a record or a cache entry without the
\* authority that is present at its commit, or loses work given to create_task.
ServicesStayBound ==
    [][service = "bound" => WorkIsSettled' /\ RecordWriteIsCurrent /\ CacheWriteIsGranted]_serviceVars

\* Wherever the transfer of the private storage, its supervisor or the process
\* stops, the committed target verifies at every start, what a cut-off attempt
\* left can be told from foreign data, and the journal describes the source it
\* was begun for in all that the fence protects, so only a changed file of the
\* source makes it refuse the next plan.
MigrationRecovers ==
    service = "migration" => CommittedVerifies /\ AttemptsExplained /\ JournalStands
=============================================================================
