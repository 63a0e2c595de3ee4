---------------------------- MODULE PumpPlanning ----------------------------
(***************************************************************************)
(* What the pump prepares in every cycle before it collects: the declared  *)
(* subscription gates it registers and the background jobs it reconciles   *)
(* with the manifests, the configuration and the runtime intents.  The     *)
(* scheduler remembers the signature of the jobs it last reconciled and    *)
(* skips the transaction while the signature is the same; a collection     *)
(* stores its observation only under the fence of its job's row.           *)
(*                                                                         *)
(* Modules are enabled, disabled and configured meanwhile; a crash forgets *)
(* the signature, the gate bindings and the collections.                   *)
(***************************************************************************)
EXTENDS Naturals, FiniteSets

CONSTANTS
    PlannedModules, \* modules with one background schedule and one subscription gate
    MaxIntents,     \* bound on intent revisions of a module
    MaxConfigs      \* bound on configuration revisions of a module

ASSUME PlanningAssumption ==
    /\ IsFiniteSet(PlannedModules)
    /\ MaxIntents \in Nat /\ MaxConfigs \in Nat \ {0}

VARIABLES
    stage,      \* module -> "off", "enabling", "on", "stopping"
    epoch,      \* module epoch in the registry
    wish,       \* module_runtime_intents: [on, rev]
    config,     \* config_state: revision
    subsGate,   \* declared gate: [reg, value, cut, bound]
    jobRow,     \* b04_background_jobs: [active, config, intent]
    armed,      \* b04_collection_jobs: due_at is set
    plan,       \* reconcile_background_jobs: [pc, todo, jobs]
    signature,  \* _background_registration_signature
    collect     \* module -> ExecutionLease of a background collection

planVars == <<stage, epoch, wish, config, subsGate, jobRow, armed, plan, signature, collect>>
worldVars == <<stage, epoch, wish, config>>

NoJobRow == [active |-> FALSE, config |-> 0, intent |-> 0]
NoLease == [held |-> FALSE, config |-> 0, intent |-> 0]
Resting == [pc |-> "gates", todo |-> {}, jobs |-> {}]
Unsigned == [known |-> FALSE, jobs |-> {}]
Signed(jobs) == [known |-> TRUE, jobs |-> jobs]

PlanInit ==
    /\ stage = [m \in PlannedModules |-> "off"]
    /\ epoch = [m \in PlannedModules |-> 1]
    /\ wish = [m \in PlannedModules |-> [on |-> FALSE, rev |-> 0]]
    /\ config = [m \in PlannedModules |-> 1]
    /\ \E v \in [PlannedModules -> {"absent", "true", "false"}] :
          subsGate = [m \in PlannedModules |->
                         [reg |-> FALSE, value |-> v[m], cut |-> FALSE, bound |-> FALSE]]
    /\ jobRow = [m \in PlannedModules |-> NoJobRow]
    /\ armed = [m \in PlannedModules |-> FALSE]
    /\ plan = Resting /\ signature = Unsigned
    /\ collect = [m \in PlannedModules |-> NoLease]

-----------------------------------------------------------------------------
\* The modules, as ModuleActivation has them.

\* The transaction that commits an enabled intent comes before the projection.
EnableCommitted(m) ==
    /\ stage[m] = "off" /\ ~wish[m].on /\ wish[m].rev < MaxIntents
    /\ wish' = [wish EXCEPT ![m] = [on |-> TRUE, rev |-> @.rev + 1]]
    /\ stage' = [stage EXCEPT ![m] = "enabling"]
    /\ UNCHANGED <<epoch, config, subsGate, jobRow, armed, plan, signature, collect>>

Published(m) ==
    /\ stage[m] = "enabling"
    /\ stage' = [stage EXCEPT ![m] = "on"]
    /\ epoch' = [epoch EXCEPT ![m] = @ + 1]
    /\ UNCHANGED <<wish, config, subsGate, jobRow, armed, plan, signature, collect>>

\* quiesce: a new epoch that no guard accepts
Quiesced(m) ==
    /\ stage[m] = "on" /\ wish[m].rev < MaxIntents
    /\ stage' = [stage EXCEPT ![m] = "stopping"]
    /\ epoch' = [epoch EXCEPT ![m] = @ + 1]
    /\ UNCHANGED <<wish, config, subsGate, jobRow, armed, plan, signature, collect>>

\* The intent of a disabled module, or of one whose projection failed.
DisableCommitted(m) ==
    /\ stage[m] \in {"stopping", "enabling"} /\ wish[m].rev < MaxIntents
    /\ wish' = [wish EXCEPT ![m] = [on |-> FALSE, rev |-> @.rev + 1]]
    /\ stage' = [stage EXCEPT ![m] = "off"]
    /\ UNCHANGED <<epoch, config, subsGate, jobRow, armed, plan, signature, collect>>

\* _update_in_unit: one more revision; a gate that changes its value gets the
\* time of the change.
ConfigSaved(m) ==
    /\ config[m] < MaxConfigs
    /\ config' = [config EXCEPT ![m] = @ + 1]
    /\ \E v \in {subsGate[m].value} \cup (IF subsGate[m].bound THEN {"true", "false"} ELSE {}) :
          subsGate' = [subsGate EXCEPT ![m].value = v, ![m].cut = @ \/ v # subsGate[m].value]
    /\ UNCHANGED <<stage, epoch, wish, jobRow, armed, plan, signature, collect>>

-----------------------------------------------------------------------------
\* Declared subscription gates.

\* register_declared_subscription_gate: a gate that has no value becomes true, with
\* a new configuration revision; a value that is there stays.
GateRow_Replaces(g) == [g EXCEPT !.reg = TRUE, !.cut = TRUE, !.value = "true"]

GateRow(g) ==
    IF g.reg THEN g
    ELSE [g EXCEPT !.reg = TRUE,
                   !.cut = @ \/ g.value # "false",
                   !.value = IF @ = "absent" THEN "true" ELSE @]

\* _register_declared_subscription_gates, for one enabled module it has no spec of.
GateRegistered(m) ==
    /\ plan.pc = "gates" /\ stage[m] \in {"on", "stopping"} /\ ~subsGate[m].bound
    /\ subsGate' = [subsGate EXCEPT ![m] = [GateRow(@) EXCEPT !.bound = TRUE]]
    /\ config' = [config EXCEPT ![m] =
                     IF ~subsGate[m].reg /\ subsGate[m].value = "absent" THEN @ + 1 ELSE @]
    /\ UNCHANGED <<stage, epoch, wish, jobRow, armed, plan, signature, collect>>

-----------------------------------------------------------------------------
\* Background jobs.

\* The registry snapshot the reconciliation goes through.
PlanStarts ==
    /\ plan.pc = "gates"
    /\ plan' = [pc |-> "read", jobs |-> {},
                todo |-> {<<m, epoch[m]>> : m \in {x \in PlannedModules : stage[x] \in {"on", "stopping"}}}]
    /\ UNCHANGED <<stage, epoch, wish, config, subsGate, jobRow, armed, signature, collect>>

\* lifecycle.guard with the epoch of the snapshot, before the configuration is read,
\* and the same registered module after it.
StillLive(m, e) == stage[m] = "on" /\ epoch[m] = e

\* What the signature keeps of a module: its epoch and its configuration revision.
JobOf_Epochless(m) == <<m, 0, config[m]>>

JobOf(m) == <<m, epoch[m], config[m]>>

\* One module: its job with the configuration revision it was read at.
PlanReads ==
    /\ plan.pc = "read"
    /\ \E t \in plan.todo :
          plan' = [plan EXCEPT !.todo = @ \ {t},
                               !.jobs = IF StillLive(t[1], t[2])
                                        THEN @ \cup {JobOf(t[1])} ELSE @]
    /\ UNCHANGED <<stage, epoch, wish, config, subsGate, jobRow, armed, signature, collect>>

\* What the transaction takes of the jobs that were read.
Retained(jobs) == {t \in jobs : wish[t[1]].on /\ config[t[1]] = t[3]}
KeepsJob(m) == \E t \in Retained(plan.jobs) : t[1] = m

UnchangedJob(m) ==
    /\ jobRow[m].active /\ jobRow[m].config = config[m] /\ jobRow[m].intent = wish[m].rev

\* A job that changed is due; one that is gone is inactive and has no due time.  The
\* generation that takes a lease away is not kept: the cycle awaits its collections,
\* so none is held here.
PlanApplied ==
    /\ plan.pc = "read" /\ plan.todo = {} /\ signature # Signed(plan.jobs)
    /\ jobRow' = [m \in PlannedModules |->
           CASE KeepsJob(m) /\ UnchangedJob(m) -> jobRow[m]
             [] KeepsJob(m) /\ ~UnchangedJob(m) ->
                    [active |-> TRUE, config |-> config[m], intent |-> wish[m].rev]
             [] ~KeepsJob(m) -> [jobRow[m] EXCEPT !.active = FALSE]]
    /\ armed' = [m \in PlannedModules |->
           IF KeepsJob(m) THEN ~UnchangedJob(m) \/ armed[m]
           ELSE ~jobRow[m].active /\ armed[m]]
    /\ signature' = Signed(plan.jobs)
    /\ plan' = [Resting EXCEPT !.pc = "pump"]
    /\ UNCHANGED <<stage, epoch, wish, config, subsGate, collect>>

PlanUnchanged ==
    /\ plan.pc = "read" /\ plan.todo = {} /\ signature = Signed(plan.jobs)
    /\ plan' = [Resting EXCEPT !.pc = "pump"]
    /\ UNCHANGED <<stage, epoch, wish, config, subsGate, jobRow, armed, signature, collect>>

\* The rest of the cycle: the due jobs it started are awaited.
CycleEnds ==
    /\ plan.pc = "pump" /\ \A m \in PlannedModules : ~collect[m].held
    /\ plan' = Resting
    /\ UNCHANGED <<stage, epoch, wish, config, subsGate, jobRow, armed, signature, collect>>

\* _read_background_fence: the row, the intent and the configuration agree.
FenceReadable_Unconfigured(m) ==
    jobRow[m].active /\ wish[m].on /\ wish[m].rev = jobRow[m].intent

FenceReadable(m) ==
    /\ jobRow[m].active
    /\ wish[m].on /\ wish[m].rev = jobRow[m].intent
    /\ config[m] = jobRow[m].config

\* list_due_jobs and claim
Collects(m) ==
    /\ plan.pc = "pump" /\ armed[m] /\ FenceReadable(m) /\ stage[m] = "on" /\ ~collect[m].held
    /\ collect' = [collect EXCEPT ![m] =
           [held |-> TRUE, config |-> jobRow[m].config, intent |-> jobRow[m].intent]]
    /\ UNCHANGED <<stage, epoch, wish, config, subsGate, jobRow, armed, plan, signature>>

\* commit_observation_with_evaluations: the same fence, or nothing is stored.
FenceHolds(m) == FenceReadable(m) /\ jobRow[m].intent = collect[m].intent

Stored(m) ==
    /\ collect[m].held /\ FenceHolds(m)
    /\ collect' = [collect EXCEPT ![m].held = FALSE]
    /\ UNCHANGED <<stage, epoch, wish, config, subsGate, jobRow, armed, plan, signature>>

\* Refused, failed or cancelled with its module: the lease is released.
Dropped(m) ==
    /\ collect[m].held
    /\ collect' = [collect EXCEPT ![m] = NoLease]
    /\ UNCHANGED <<stage, epoch, wish, config, subsGate, jobRow, armed, plan, signature>>

\* A crash and the start after it: intents that are on are restored.
PlanCrash ==
    /\ stage' = [m \in PlannedModules |-> IF wish[m].on THEN "enabling" ELSE "off"]
    /\ epoch' = [m \in PlannedModules |-> 1]
    /\ subsGate' = [m \in PlannedModules |-> [subsGate[m] EXCEPT !.bound = FALSE]]
    /\ plan' = Resting /\ signature' = Unsigned
    /\ collect' = [m \in PlannedModules |-> NoLease]
    /\ UNCHANGED <<wish, config, jobRow, armed>>

PlanNext ==
    \/ \E m \in PlannedModules :
          \/ EnableCommitted(m)
          \/ Published(m)
          \/ Quiesced(m)
          \/ DisableCommitted(m)
          \/ ConfigSaved(m)
          \/ GateRegistered(m)
          \/ Collects(m)
          \/ Stored(m)
          \/ Dropped(m)
    \/ PlanStarts
    \/ PlanReads
    \/ PlanApplied
    \/ PlanUnchanged
    \/ CycleEnds
    \/ PlanCrash

PlanSpec == PlanInit /\ [][PlanNext]_planVars

-----------------------------------------------------------------------------
\* Properties.

\* The jobs a reconciliation would read now.
JobsNow == {JobOf(m) : m \in {x \in PlannedModules : stage[x] = "on"}}

\* When the remembered signature says that nothing changed, the row of every module
\* that is on is the one of its present intent and configuration: the transaction
\* that is skipped would not have changed it, and its job can be claimed.
SignatureIsTruth ==
    signature = Signed(JobsNow) =>
        \A m \in PlannedModules : stage[m] = "on" => UnchangedJob(m)

\* What a background collection brought is stored only under the configuration and
\* the intent it was claimed under.
StoredAsConfigured ==
    \A m \in PlannedModules :
          collect[m].held /\ ~collect'[m].held /\ collect'[m] # NoLease =>
              /\ wish[m] = [on |-> TRUE, rev |-> collect[m].intent]
              /\ config[m] = collect[m].config

\* The pump never switches on a subscription gate that was switched off, and a gate
\* that is on and bound has the cut-off its events are compared with.
GatesKeepTheirValue ==
    \A m \in PlannedModules :
          /\ subsGate[m].value = "false" /\ subsGate'[m].value = "true" => config'[m] # config[m]
          /\ subsGate'[m].bound /\ subsGate'[m].value = "true" => subsGate'[m].cut
=============================================================================
