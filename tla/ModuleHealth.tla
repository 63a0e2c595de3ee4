---------------------------- MODULE ModuleHealth ----------------------------
(***************************************************************************)
(* HealthResolver: what the Core knows in memory of a module's readiness,  *)
(* which admission reads on every call.  A start prepares it from an       *)
(* unlocked read of the configuration and a probe of the source, an        *)
(* administrator's update publishes the fields it changed, a refresh       *)
(* probes the source again.  All publications are inside the mutation      *)
(* gate, the reads and the probes are not.                                 *)
(*                                                                         *)
(* One module with one capability that requires every field and the one    *)
(* source.  Starting and stopping the module is ModuleActivation.          *)
(***************************************************************************)
EXTENDS Naturals, FiniteSets

CONSTANTS
    HealthTasks,   \* coroutines in prepare or refresh_source
    HealthFields,  \* configuration fields the capability requires
    MaxStored,     \* bound on configuration revisions
    MaxRunsOf,     \* bound on runs of the module
    MaxProbes      \* bound on reserved source generations

ASSUME HealthAssumption ==
    /\ IsFiniteSet(HealthTasks) /\ IsFiniteSet(HealthFields)
    /\ {MaxStored, MaxRunsOf, MaxProbes} \subseteq Nat \ {0}

VARIABLES
    moduleRun,   \* [n, state]: the run the lifecycle has, "stopped", "starting" or "active"
    storedRow,   \* [rev, set]: the configuration row and the fields it configures
    known,       \* [rev, field]: HealthResolver._configs, rev 0 when absent
    runHealth,   \* [n, source, gen]: HealthResolver._runs, n 0 when absent
    probes,      \* HealthResolver._source_generations of the source
    publishing,  \* fields committed by the update that holds the gate, or {}
    unpublished, \* fields whose last change was committed and never published
    prober       \* task -> coroutine

healthVars == <<moduleRun, storedRow, known, runHealth, probes, publishing, unpublished, prober>>

NoProbe == [at |-> "idle", kind |-> "none", n |-> 0, gen |-> 0, was |-> 0,
            row |-> [rev |-> 0, set |-> {}], answer |-> "none"]
NoRun == [n |-> 0, source |-> "unknown", gen |-> 0]
NoReadiness == [rev |-> 0, field |-> [f \in HealthFields |-> "unknown"]]

HealthInit ==
    /\ moduleRun = [n |-> 0, state |-> "stopped"]
    /\ storedRow = [rev |-> 1, set |-> {}]
    /\ known = NoReadiness
    /\ runHealth = NoRun
    /\ probes = 0
    /\ publishing = {} /\ unpublished = {}
    /\ prober = [h \in HealthTasks |-> NoProbe]

\* The gate is free unless an update is between its commit and its publication:
\* the other holders publish in one step
HealthGate == publishing = {}

\* _readiness of a row
Readiness(row) == [rev |-> row.rev,
                   field |-> [f \in HealthFields |-> IF f \in row.set THEN "ok" ELSE "missing"]]

\* _same_run: the run a coroutine started for is still starting or active
SameRun(n) == moduleRun.n = n /\ moduleRun.state # "stopped"

-----------------------------------------------------------------------------
(* prepare *)

\* The first gate: a source generation is reserved and the run's record replaced
Prepares(h) ==
    /\ prober[h].at = "idle" /\ HealthGate /\ probes < MaxProbes
    /\ moduleRun.state = "starting" /\ runHealth.n # moduleRun.n
    /\ probes' = probes + 1
    /\ runHealth' = [n |-> moduleRun.n, source |-> "unknown", gen |-> 0]
    /\ prober' = [prober EXCEPT ![h] = [NoProbe EXCEPT !.at = "loading", !.kind = "prepare",
                        !.n = moduleRun.n, !.gen = probes + 1, !.was = known.rev]]
    /\ UNCHANGED <<moduleRun, storedRow, known, publishing, unpublished>>

\* _load_config: the row as it is now, or nothing when the read fails
LoadsConfig(h) ==
    /\ prober[h].kind = "prepare" /\ prober[h].at = "loading"
    /\ \E row \in {storedRow, NoProbe.row} :
          prober' = [prober EXCEPT ![h].at = "probing", ![h].row = row]
    /\ UNCHANGED <<moduleRun, storedRow, known, runHealth, probes, publishing, unpublished>>

\* _load_source: the provider's answer, unknown when it fails
LoadsSource(h) ==
    /\ prober[h].at = "probing"
    /\ \E answer \in {"ok", "unavailable", "unknown"} :
          prober' = [prober EXCEPT ![h].at = "publish", ![h].answer = answer]
    /\ UNCHANGED <<moduleRun, storedRow, known, runHealth, probes, publishing, unpublished>>

\* What a prepared row makes of the known readiness: an older row is dropped, a
\* failed read forgets only what was known when the preparation began
Prepared_Always(h) == IF prober[h].row.rev # 0 THEN Readiness(prober[h].row) ELSE NoReadiness
Prepared(h) ==
    LET row == prober[h].row IN
    IF row.rev # 0
    THEN IF row.rev >= known.rev THEN Readiness(row) ELSE known
    ELSE IF known.rev = prober[h].was
         THEN [rev |-> IF known.rev = 0 THEN 1 ELSE known.rev, field |-> NoReadiness.field]
         ELSE known

\* A probe is shown when no newer one was reserved
Shown_Any(h) == [runHealth EXCEPT !.source = prober[h].answer, !.gen = prober[h].gen]
ProbeShown(h) == IF probes = prober[h].gen
    THEN [runHealth EXCEPT !.source = prober[h].answer, !.gen = prober[h].gen] ELSE runHealth

\* The second gate
PublishesPrepared(h) ==
    /\ prober[h].kind = "prepare" /\ prober[h].at = "publish" /\ HealthGate
    /\ IF SameRun(prober[h].n) /\ runHealth.n = prober[h].n
       THEN /\ known' = Prepared(h)
            /\ runHealth' = ProbeShown(h)
            /\ unpublished' = IF prober[h].row = storedRow THEN {} ELSE unpublished
       ELSE UNCHANGED <<known, runHealth, unpublished>>
    /\ prober' = [prober EXCEPT ![h] = NoProbe]
    /\ UNCHANGED <<moduleRun, storedRow, probes, publishing>>

-----------------------------------------------------------------------------
(* refresh_source *)

Refreshes(h) ==
    /\ prober[h].at = "idle" /\ HealthGate /\ probes < MaxProbes
    /\ moduleRun.state # "stopped" /\ runHealth.n = moduleRun.n
    /\ probes' = probes + 1
    /\ prober' = [prober EXCEPT ![h] = [NoProbe EXCEPT !.at = "probing", !.kind = "refresh",
                        !.n = moduleRun.n, !.gen = probes + 1]]
    /\ UNCHANGED <<moduleRun, storedRow, known, runHealth, publishing, unpublished>>

PublishesRefresh(h) ==
    /\ prober[h].kind = "refresh" /\ prober[h].at = "publish" /\ HealthGate
    /\ runHealth' = IF SameRun(prober[h].n) /\ runHealth.n = prober[h].n
                    THEN ProbeShown(h) ELSE runHealth
    /\ prober' = [prober EXCEPT ![h] = NoProbe]
    /\ UNCHANGED <<moduleRun, storedRow, known, probes, publishing, unpublished>>

-----------------------------------------------------------------------------
(* publish_config *)

\* Inside the gate the update's transaction commits the fields it sets and clears
UpdateStores ==
    /\ HealthGate /\ storedRow.rev < MaxStored
    /\ \E set \in SUBSET HealthFields, f \in HealthFields :
          LET changed == {f} \cup (set \ storedRow.set) \cup (storedRow.set \ set) IN
          /\ storedRow' = [rev |-> storedRow.rev + 1, set |-> set]
          /\ publishing' = changed
    /\ UNCHANGED <<moduleRun, known, runHealth, probes, unpublished, prober>>

\* Untouched fields keep the readiness they had
Merged_Blind(changed) == known
Merged(changed) ==
    IF known.rev = 0 THEN Readiness(storedRow)
    ELSE [rev |-> storedRow.rev, field |-> [f \in HealthFields |->
              IF f \in changed THEN Readiness(storedRow).field[f] ELSE known.field[f]]]

\* The shielded rest of the update reaches the publisher whatever its caller does
UpdatePublished ==
    /\ ~HealthGate
    /\ known' = Merged(publishing) /\ unpublished' = unpublished \ publishing
    /\ publishing' = {}
    /\ UNCHANGED <<moduleRun, storedRow, runHealth, probes, prober>>

\* A receipt that cannot be finalized or a row that cannot be read back ends the
\* update before the publisher; a module that is not registered has none
UpdateUnpublished ==
    /\ ~HealthGate
    /\ unpublished' = unpublished \cup publishing /\ publishing' = {}
    /\ UNCHANGED <<moduleRun, storedRow, known, runHealth, probes, prober>>

\* copy_legacy_if_absent writes its field and publishes nothing
LegacyCopied ==
    /\ HealthGate /\ storedRow.rev < MaxStored
    /\ \E f \in HealthFields \ storedRow.set :
          /\ storedRow' = [rev |-> storedRow.rev + 1, set |-> storedRow.set \cup {f}]
          /\ unpublished' = unpublished \cup {f}
    /\ UNCHANGED <<moduleRun, known, runHealth, probes, publishing, prober>>

-----------------------------------------------------------------------------
(* The lifecycle *)

StartsRun ==
    /\ moduleRun.state = "stopped" /\ moduleRun.n < MaxRunsOf
    /\ moduleRun' = [n |-> moduleRun.n + 1, state |-> "starting"]
    /\ UNCHANGED <<storedRow, known, runHealth, probes, publishing, unpublished, prober>>

\* Committed once its prepare has returned
BecomesActive ==
    /\ moduleRun.state = "starting" /\ runHealth.n = moduleRun.n
    /\ \A h \in HealthTasks : ~(prober[h].kind = "prepare" /\ prober[h].n = moduleRun.n)
    /\ moduleRun' = [moduleRun EXCEPT !.state = "active"]
    /\ UNCHANGED <<storedRow, known, runHealth, probes, publishing, unpublished, prober>>

StopsRun ==
    /\ moduleRun.state # "stopped"
    /\ moduleRun' = [moduleRun EXCEPT !.state = "stopped"]
    /\ UNCHANGED <<storedRow, known, runHealth, probes, publishing, unpublished, prober>>

\* A stop cancels the coroutines of its operation
ProbeCancelled(h) ==
    /\ prober[h].at # "idle" /\ prober' = [prober EXCEPT ![h] = NoProbe]
    /\ moduleRun.state = "stopped"
    /\ UNCHANGED <<moduleRun, storedRow, known, runHealth, probes, publishing, unpublished>>

\* prepare_detach forgets an unloaded module
Forgotten ==
    /\ moduleRun.state = "stopped" /\ HealthGate /\ known.rev # 0
    /\ known' = NoReadiness /\ runHealth' = NoRun /\ unpublished' = {}
    /\ UNCHANGED <<moduleRun, storedRow, probes, publishing, prober>>

HealthNext ==
    \/ \E h \in HealthTasks :
          \/ Prepares(h) \/ LoadsConfig(h) \/ LoadsSource(h) \/ PublishesPrepared(h)
          \/ Refreshes(h) \/ PublishesRefresh(h) \/ ProbeCancelled(h)
    \/ UpdateStores \/ UpdatePublished \/ UpdateUnpublished \/ LegacyCopied
    \/ StartsRun \/ BecomesActive \/ StopsRun \/ Forgotten

HealthSpec == HealthInit /\ [][HealthNext]_healthVars

-----------------------------------------------------------------------------
(* Properties *)

\* _effective: what admission finds
Effective ==
    IF moduleRun.state # "active" THEN "module_unavailable"
    ELSE IF \E f \in HealthFields : known.field[f] = "missing" THEN "configuration_missing"
    ELSE LET source == IF runHealth.n = moduleRun.n THEN runHealth.source ELSE "unknown" IN
    IF source = "unavailable" THEN "source_unavailable"
    ELSE IF \E f \in HealthFields : known.field[f] = "unknown" THEN "configuration_unknown"
    ELSE IF source = "unknown" THEN "source_unknown" ELSE "available"

\* Admission decides on the configuration that is stored: outside the update
\* that is about to publish, a capability found available has every field it
\* requires, and one refused for a missing field misses one, except for
\* fields whose last change never reached the publisher
HealthTellsTruth ==
    HealthGate =>
        /\ Effective = "available" => HealthFields \ unpublished \subseteq storedRow.set
        /\ Effective = "configuration_missing" =>
              \E f \in HealthFields : known.field[f] = "missing" /\ f \notin storedRow.set \ unpublished

\* A probe never replaces the answer of one that was reserved after it, and a
\* run shows only answers of its own probes
ProbesStayOrdered ==
    /\ runHealth'.n = runHealth.n => runHealth'.gen >= runHealth.gen
    /\ runHealth'.source # runHealth.source /\ runHealth'.n = runHealth.n =>
          \E h \in HealthTasks : prober[h].n = moduleRun.n /\ prober[h].answer = runHealth'.source
=============================================================================
