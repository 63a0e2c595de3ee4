------------------------- MODULE ModuleActivation -------------------------
(***************************************************************************)
(* Turning the modules of one package on and off.  An operation builds the *)
(* package if needed, journals what it is about to do, starts the module,  *)
(* commits the durable intent and only then publishes the module and opens *)
(* its admission gate; turning a module off goes the other way round.  A   *)
(* restart settles the journal and restores the enabled modules.           *)
(*                                                                         *)
(* Sources: ExtensionRuntime in services/extension_runtime.py,             *)
(* LifecycleController in core/lifecycle.py, Registry in core/registry.py, *)
(* the intents and the journal in                                          *)
(* infrastructure/sqlite/repositories_runtime.py, and start and close of   *)
(* services/core_runtime.py.                                               *)
(*                                                                         *)
(* Each await is a step boundary.  Only the commit steps wait on SQLite    *)
(* while they hold the mutation gate, so lock is kept only over those.     *)
(*                                                                         *)
(* A definition X_Y is X with the bug that Y names.                        *)
(***************************************************************************)
EXTENDS Naturals, FiniteSets

CONSTANTS
    Modules,        \* the modules of the package
    Defaults,       \* bundled modules the host turns on by default
    MaxOps,         \* bound on the operations administrators request
    MaxGen,         \* bound on rotations of the administrator credential
    MaxFaults       \* bound on crashes and on failing calls

ASSUME ActivationConstants ==
    /\ IsFiniteSet(Modules)
    /\ Modules # {}
    /\ Defaults \subseteq Modules
    /\ MaxOps \in Nat \ {0}
    /\ MaxGen \in Nat \ {0}
    /\ MaxFaults \in Nat

VARIABLES
    intent,     \* durable: desired_enabled, revision and operation per module
    journal,    \* durable: the journal row of each operation
    gen,        \* durable: generation of the administrator credential
    reg,        \* registry snapshot: revision, registered, enabled, epoch
    epochs,     \* LifecycleController._epochs
    lc,         \* LifecycleController._states and _operations
    inst,       \* LifecycleController._instances
    runs,       \* modules whose start was called and whose stop has not ended
    gate,       \* epoch the admission gate of each module is open for, or 0
    op,         \* the operation in flight for each module
    pkg,        \* the build flight, then the built package with its lease
    loose,      \* instances adopted and not installed
    lock,       \* modules that hold the mutation gate over an await
    proc,       \* life of the process
    todo,       \* modules restore_startup has still to restore
    used,       \* operation ids used
    faults      \* faults so far

durable == <<intent, journal, gen>>
live == <<reg, epochs, lc, inst, runs, gate>>
vars == <<durable, live, op, pkg, loose, lock, proc, todo, used, faults>>

OpIds == 1 .. MaxOps
Restore == MaxOps + 1           \* operation id of a restore: it is not journalled
Phases == {"none", "prepared", "committed", "applied", "compensated", "recovery"}
Unresolved == {"prepared", "committed", "recovery"}

NoRow == [ph |-> "none", of |-> "none", old |-> FALSE, new |-> FALSE,
          rev |-> 0, gen |-> 0]
Idle == [pc |-> "idle", id |-> 0, on |-> FALSE, exp |-> 0, irev |-> 0, gen |-> 0,
         cancel |-> FALSE, prep |-> FALSE, com |-> FALSE, lin |-> FALSE]
NoState == [st |-> "none", id |-> 0, owner |-> 0, pend |-> FALSE]
NoInstance == [has |-> FALSE, ever |-> FALSE, att |-> FALSE, done |-> FALSE]
NoPackage == [st |-> "none", base |-> 0, fin |-> 0, lease |-> FALSE, gen |-> 0,
              left |-> {}, wait |-> {}, cancel |-> FALSE]

Cold ==
    /\ reg' = [rev |-> 0, in |-> {}, on |-> [m \in Modules |-> FALSE],
               ep |-> [m \in Modules |-> 0]]
    /\ epochs' = [m \in Modules |-> 0]
    /\ lc' = [m \in Modules |-> NoState]
    /\ inst' = [m \in Modules |-> NoInstance]
    /\ runs' = {}
    /\ gate' = [m \in Modules |-> 0]
    /\ op' = [m \in Modules |-> Idle]
    /\ pkg' = NoPackage
    /\ loose' = {}
    /\ lock' = {}
    /\ todo' = {}

Init ==
    /\ intent = [m \in Modules |-> [on |-> FALSE, rev |-> 0, by |-> 0]]
    /\ journal = [o \in OpIds |-> NoRow]
    /\ gen = 1
    /\ reg = [rev |-> 0, in |-> {}, on |-> [m \in Modules |-> FALSE],
              ep |-> [m \in Modules |-> 0]]
    /\ epochs = [m \in Modules |-> 0]
    /\ lc = [m \in Modules |-> NoState]
    /\ inst = [m \in Modules |-> NoInstance]
    /\ runs = {}
    /\ gate = [m \in Modules |-> 0]
    /\ op = [m \in Modules |-> Idle]
    /\ pkg = NoPackage
    /\ loose = {}
    /\ lock = {}
    /\ proc = "down"
    /\ todo = {}
    /\ used = 0
    /\ faults = 0

Max2(a, b) == IF a > b THEN a ELSE b
Fault == faults < MaxFaults /\ faults' = faults + 1
Closing == proc \in {"closing", "closed"}
Up == proc \in {"restoring", "open", "closing"}

--------------------
\* The journal and the intents.
\* SQLiteModuleRuntimeRepository.mark_phase
Marked(j, o, phase) ==
    LET legal == \/ j[o].ph = "prepared" /\ phase \in {"compensated", "recovery"}
                 \/ j[o].ph = "committed" /\ phase \in {"applied", "recovery"}
                 \/ j[o].ph = "recovery" /\ phase \in {"applied", "compensated"}
    IN  IF legal THEN [j EXCEPT ![o].ph = phase] ELSE j

\* SQLiteModuleRuntimeRepository.prepare, when the revision still agrees
Prepared(m, o) ==
    [journal EXCEPT ![op[m].id] =
        [ph |-> "prepared", of |-> m, old |-> intent[m].on, new |-> o,
         rev |-> intent[m].rev, gen |-> op[m].gen]]

\* SQLiteModuleRuntimeRepository.commit_intent: what the transaction requires
MayCommit(m) ==
    LET row == journal[op[m].id]
    IN  /\ row.ph = "prepared"
        /\ row.gen = gen
        /\ intent[m].rev = row.rev
        /\ intent[m].on = row.old

CommitIntent(m) ==
    /\ intent' = [intent EXCEPT ![m] =
                    [on |-> journal[op[m].id].new, rev |-> @.rev + 1, by |-> op[m].id]]
    /\ journal' = [journal EXCEPT ![op[m].id].ph = "committed"]

\* SQLiteModuleRuntimeRepository.compensate: what the transaction requires
MayCompensate(m) ==
    LET row == journal[op[m].id]
    IN  /\ row.ph \in {"committed", "recovery"}
        /\ op[m].gen = gen
        /\ intent[m].by = op[m].id
        /\ intent[m].on = row.new

CompensateIntent(m) ==
    /\ intent' = [intent EXCEPT ![m] =
                    [on |-> journal[op[m].id].old, rev |-> @.rev + 1, by |-> @.by]]
    /\ journal' = [journal EXCEPT ![op[m].id].ph = "compensated"]

--------------------
\* The lifecycle. Each takes the state it needs and returns the next one.
\* Registry._publish_lifecycle_projection
Projected(m, on, epoch) ==
    IF reg.on[m] = on /\ reg.ep[m] = epoch THEN reg
    ELSE [reg EXCEPT !.rev = @ + 1, !.on[m] = on, !.ep[m] = epoch]

Terminal == {"none", "discovered", "stopped", "failed"}

\* LifecycleController._claim_operation
MayClaim(m, o, replace) ==
    \/ lc[m].owner \in {0, o}
    \/ replace /\ lc[m].st \in Terminal

\* LifecycleController.quiesce: it refuses a module without a state, one
\* that is starting, and one another operation owns
MayQuiesce(m, o) ==
    /\ lc[m].st \in {"active", "stopping", "failed", "stopped", "discovered"}
    /\ MayClaim(m, o, TRUE)

Quiesce_GateOpen(m, o) ==
    LET epoch == Max2(epochs[m], reg.ep[m]) + 1
    IN  /\ epochs' = [epochs EXCEPT ![m] = epoch]
        /\ reg' = Projected(m, reg.on[m], epoch)
        /\ lc' = [lc EXCEPT ![m] = [@ EXCEPT !.st = "stopping", !.id = epoch, !.owner = o]]
        /\ UNCHANGED gate

Quiesce(m, o) ==
    IF lc[m].st \in {"stopping", "failed"} /\ lc[m].id # 0 /\ lc[m].id = reg.ep[m]
    THEN /\ lc' = [lc EXCEPT ![m].st = "stopping", ![m].owner = o]
         /\ UNCHANGED <<reg, epochs, gate>>
    ELSE LET epoch == Max2(epochs[m], reg.ep[m]) + 1
         IN  /\ epochs' = [epochs EXCEPT ![m] = epoch]
             /\ reg' = Projected(m, reg.on[m], epoch)
             /\ lc' = [lc EXCEPT ![m] = [@ EXCEPT !.st = "stopping", !.id = epoch, !.owner = o]]
             /\ gate' = [gate EXCEPT ![m] = IF lc[m].st = "active" THEN 0 ELSE @]

\* LifecycleController.stop_candidate once it may run: the scope and the
\* instance stop in time, or the module is left failed and still cleaning up
Stopped(m) ==
    /\ lc' = [lc EXCEPT ![m] = [st |-> "stopped", id |-> @.id, owner |-> 0, pend |-> FALSE]]
    /\ inst' = [inst EXCEPT ![m] = [@ EXCEPT !.att = FALSE, !.done = TRUE]]
    /\ runs' = runs \ {m}

StopFails(m, o) ==
    /\ lc' = [lc EXCEPT ![m] = [@ EXCEPT !.st = "failed", !.owner = o, !.pend = TRUE]]
    /\ gate' = [gate EXCEPT ![m] = 0]
    /\ UNCHANGED <<inst, runs>>

\* LifecycleController.discard_candidate: instances never installed are stopped
Discarded(ms) == loose' = loose \ ms

\* LifecycleController.install_dormant, of a module whose old state is gone
Dormant(m) == [st |-> IF reg.on[m] THEN "discovered" ELSE "stopped",
               id |-> 0, owner |-> 0, pend |-> FALSE]

\* LifecycleController.adopt_candidate: the record of a new instance
NewInstance == [NoInstance EXCEPT !.has = TRUE]

--------------------
\* Requests, cancellation and the checks of an operation.
Step(m, pc) == op' = [op EXCEPT ![m].pc = pc]

\* ExtensionRuntime._is_noop
Noop(m, on) ==
    /\ intent[m].on = on
    /\ IF m \notin reg.in THEN ~on
       ELSE reg.on[m] = on /\ lc[m].st = IF on THEN "active" ELSE "stopped"

\* ExtensionRuntime.set_enabled: the caller read the current revision; a
\* request that joins an operation or finds nothing to do changes nothing
SetEnabled(m, on) ==
    /\ proc = "open"
    /\ op[m] = Idle
    /\ lock = {}
    /\ used < MaxOps
    /\ ~Noop(m, on)
    /\ used' = used + 1
    /\ op' = [op EXCEPT ![m] = [Idle EXCEPT !.pc = IF on THEN "ensure" ELSE "quiesce",
                                            !.id = used + 1, !.on = on, !.exp = reg.rev,
                                            !.irev = intent[m].rev, !.gen = gen]]
    /\ UNCHANGED <<durable, live, pkg, loose, lock, proc, todo, faults>>

\* ExtensionRuntime._detach_build_waiter
Unwaited(p, ms) ==
    [p EXCEPT !.wait = @ \ ms,
              !.cancel = @ \/ (ms \cap p.wait # {} /\ p.wait \subseteq ms)]

\* The last caller of set_enabled goes away before the commit
CallerLeaves(m) ==
    /\ op[m].id \in OpIds
    /\ ~op[m].cancel
    /\ ~op[m].lin
    /\ Fault
    /\ op' = [op EXCEPT ![m].cancel = TRUE]
    /\ pkg' = Unwaited(pkg, {m})
    /\ UNCHANGED <<durable, live, loose, lock, proc, todo, used>>

IsRestore(m) == op[m].id = Restore

\* ExtensionRuntime._check_operation and the generation check beside it
Allowed(m) ==
    /\ ~op[m].cancel
    /\ ~Closing
    /\ IsRestore(m) \/ op[m].gen = gen

\* Before its journal row an operation just ends; a restore always cleans up
Refused(m) ==
    IF IsRestore(m) THEN Step(m, "abort") ELSE op' = [op EXCEPT ![m] = Idle]

--------------------
\* Building the package.
\* ExtensionRuntime._controlled_build_rebase
Rebased_Never(m) == op[m].exp

Rebased(m) ==
    IF op[m].exp = pkg.base /\ reg.rev = pkg.fin THEN pkg.fin ELSE op[m].exp

\* ExtensionRuntime._ensure_package_built
EnsureBuilt(m) ==
    /\ op[m].pc = "ensure"
    /\ \/ /\ pkg.st = "built"
          /\ op' = [op EXCEPT ![m].exp = Rebased(m), ![m].pc = "repair"]
          /\ UNCHANGED pkg
       \/ /\ pkg.st \in {"none", "capture", "create"}
          /\ lock = {}
          /\ Allowed(m)
          /\ reg.rev = op[m].exp
          /\ Step(m, "wait")
          /\ pkg' = IF pkg.st # "none" THEN [pkg EXCEPT !.wait = @ \cup {m}]
                    ELSE [NoPackage EXCEPT !.st = "capture", !.base = reg.rev,
                                           !.gen = IF IsRestore(m) THEN 0 ELSE op[m].gen,
                                           !.left = Modules, !.wait = {m}]
       \/ /\ pkg.st # "built"
          /\ lock = {}
          /\ \/ pkg.st \in {"discard", "pending"}
             \/ ~Allowed(m)
             \/ reg.rev # op[m].exp
          /\ Refused(m)
          /\ UNCHANGED pkg
    /\ UNCHANGED <<durable, live, loose, lock, proc, todo, used, faults>>

\* The checks _build_package makes after every await
BuildCurrent ==
    /\ ~pkg.cancel
    /\ pkg.gen \in {0, gen}
    /\ reg.rev = pkg.base

\* _build_package: the source bundle is captured, or the capture is refused
BuildCapture ==
    /\ pkg.st = "capture"
    /\ \/ /\ ~pkg.cancel /\ pkg.gen \in {0, gen}
          /\ pkg' = [pkg EXCEPT !.st = "create", !.lease = TRUE]
          /\ UNCHANGED <<op, faults>>
       \/ /\ \/ (pkg.cancel \/ pkg.gen \notin {0, gen}) /\ UNCHANGED faults
             \/ Fault
          /\ pkg' = NoPackage
          /\ op' = [m \in Modules |-> IF op[m].pc = "wait"
                                      THEN [op[m] EXCEPT !.pc = "unbuilt"] ELSE op[m]]
    /\ UNCHANGED <<durable, live, loose, lock, proc, todo, used>>

\* _build_package: one factory is called and its result adopted
BuildCreate(m) ==
    /\ pkg.st = "create"
    /\ m \in pkg.left
    /\ lock = {}
    /\ BuildCurrent
    /\ pkg' = [pkg EXCEPT !.left = @ \ {m}]
    /\ loose' = loose \cup {m}
    /\ UNCHANGED <<durable, live, op, lock, proc, todo, used, faults>>

\* Registry.register_package, and one more revision per installed instance
PackageRegistered ==
    [reg EXCEPT !.rev = @ + 1 + Cardinality(Modules), !.in = Modules]

\* _build_package: the package is registered and every instance installed
BuildRegister ==
    /\ pkg.st = "create"
    /\ pkg.left = {}
    /\ lock = {}
    /\ BuildCurrent
    /\ reg' = PackageRegistered
    /\ lc' = [m \in Modules |-> Dormant(m)]
    /\ inst' = [m \in Modules |-> NewInstance]
    /\ loose' = {}
    /\ pkg' = [pkg EXCEPT !.st = "built", !.fin = reg'.rev, !.wait = {}]
    /\ op' = [m \in Modules |-> IF op[m].pc = "wait"
                                THEN [op[m] EXCEPT !.pc = "built"] ELSE op[m]]
    /\ UNCHANGED <<durable, epochs, runs, gate, lock, proc, todo, used, faults>>

\* _build_package: a factory raises or a check fails; the candidates are
\* stopped and the bundle released, or the flight stays with what is left
BuildFails ==
    /\ pkg.st = "create"
    /\ \/ ~BuildCurrent /\ UNCHANGED faults
       \/ Fault
    /\ pkg' = [pkg EXCEPT !.st = "discard"]
    /\ UNCHANGED <<durable, live, op, loose, lock, proc, todo, used>>

BuildDiscard_ReleaseFirst ==
    /\ pkg.st = "discard"
    /\ \/ pkg' = NoPackage /\ loose' = {} /\ UNCHANGED faults
       \/ Fault /\ loose # {} /\ pkg' = NoPackage /\ UNCHANGED loose
    /\ op' = [m \in Modules |-> IF op[m].pc = "wait"
                                THEN [op[m] EXCEPT !.pc = "unbuilt"] ELSE op[m]]
    /\ UNCHANGED <<durable, live, lock, proc, todo, used>>

BuildDiscard ==
    /\ pkg.st = "discard"
    /\ \/ pkg' = NoPackage /\ Discarded(Modules) /\ UNCHANGED faults
       \/ Fault /\ loose # {} /\ pkg' = [pkg EXCEPT !.st = "pending"] /\ UNCHANGED loose
    /\ op' = [m \in Modules |-> IF op[m].pc = "wait"
                                THEN [op[m] EXCEPT !.pc = "unbuilt"] ELSE op[m]]
    /\ UNCHANGED <<durable, live, lock, proc, todo, used>>

\* _ensure_package_built resumes with what its flight came to
BuildJoined(m) ==
    /\ op[m].pc \in {"built", "unbuilt"}
    /\ IF op[m].pc = "built" /\ ~op[m].cancel
       THEN op' = [op EXCEPT ![m].exp = Rebased(m), ![m].pc = "repair"]
       ELSE Refused(m)
    /\ UNCHANGED <<durable, live, pkg, loose, lock, proc, todo, used, faults>>

\* ExtensionRuntime._repair_missing_module: an instance that was rolled back
\* is created again, once the candidate of an earlier repair is gone
RepairModule(m) ==
    /\ op[m].pc = "repair"
    /\ IF inst[m].has
       THEN /\ IF lc[m].pend \/ op[m].cancel THEN Refused(m) ELSE Step(m, "prepare")
            /\ UNCHANGED <<loose, faults>>
       ELSE \/ /\ Allowed(m) /\ reg.rev = op[m].exp
               /\ lock = {}
               /\ loose' = loose \cup {m}
               /\ Step(m, "install")
               /\ UNCHANGED faults
            \/ /\ ~Allowed(m) \/ reg.rev # op[m].exp
               /\ Discarded({m})
               /\ Refused(m)
               /\ UNCHANGED faults
            \/ /\ Fault         \* the earlier candidate still does not stop
               /\ m \in loose
               /\ Refused(m)
               /\ UNCHANGED loose
    /\ UNCHANGED <<durable, live, pkg, lock, proc, todo, used>>

RepairInstall(m) ==
    /\ op[m].pc = "install"
    /\ lock = {}
    /\ IF Allowed(m) /\ reg.rev = op[m].exp
       THEN /\ lc' = [lc EXCEPT ![m] = Dormant(m)]
            /\ inst' = [inst EXCEPT ![m] = NewInstance]
            /\ reg' = [reg EXCEPT !.rev = @ + 1]
            /\ loose' = loose \ {m}
            /\ op' = [op EXCEPT ![m].exp = reg.rev + 1, ![m].pc = "prepare"]
            /\ UNCHANGED faults
       ELSE /\ \/ Discarded({m}) /\ UNCHANGED faults
               \/ Fault /\ UNCHANGED loose
            /\ Refused(m)
            /\ UNCHANGED <<lc, inst, reg>>
    /\ UNCHANGED <<durable, epochs, runs, gate, pkg, lock, proc, todo, used>>

--------------------
\* Turning a module on.
\* _enable and _restore_intent up to the journal row
PrepareEnable(m) ==
    /\ op[m].pc = "prepare"
    /\ lock = {}
    /\ IF Allowed(m) /\ reg.rev = op[m].exp /\ intent[m].rev = op[m].irev
       THEN /\ op' = [op EXCEPT ![m].pc = "start", ![m].prep = ~IsRestore(m)]
            /\ journal' = IF IsRestore(m) THEN journal ELSE Prepared(m, TRUE)
       ELSE Refused(m) /\ UNCHANGED journal
    /\ UNCHANGED <<intent, gen, live, pkg, loose, lock, proc, todo, used, faults>>

\* LifecycleController.start_candidate up to its first await
MayStart(m) ==
    /\ m \notin loose
    /\ MayClaim(m, op[m].id, FALSE)
    /\ inst[m].has
    /\ ~lc[m].pend
    /\ ~(inst[m].att /\ ~inst[m].done)
    /\ lc[m].st \notin {"active", "starting", "stopping"}

StartCandidate(m) ==
    /\ op[m].pc = "start"
    /\ IF MayStart(m)
       THEN LET epoch == Max2(epochs[m], reg.ep[m]) + 1
            IN  /\ epochs' = [epochs EXCEPT ![m] = epoch]
                /\ lc' = [lc EXCEPT ![m] = [st |-> "starting", id |-> epoch,
                                            owner |-> op[m].id, pend |-> FALSE]]
                /\ inst' = [inst EXCEPT ![m] = [@ EXCEPT !.att = TRUE, !.done = FALSE]]
                /\ runs' = runs \cup {m}
                /\ Step(m, "starting")
       ELSE Step(m, "abort") /\ UNCHANGED <<epochs, lc, inst, runs>>
    /\ UNCHANGED <<durable, reg, gate, pkg, loose, lock, proc, todo, used, faults>>

\* start_candidate: start and check_health answer
StartAnswers(m) ==
    /\ op[m].pc = "starting"
    /\ Step(m, "commit")
    /\ UNCHANGED <<durable, live, pkg, loose, lock, proc, todo, used, faults>>

\* start_candidate: one of them fails; the instance is stopped at once, or
\* it is left for a later cleanup
StartRaises(m) ==
    /\ op[m].pc = "starting"
    /\ Fault
    /\ gate' = [gate EXCEPT ![m] = 0]
    /\ \/ /\ inst' = [inst EXCEPT ![m] = [@ EXCEPT !.att = FALSE, !.done = TRUE]]
          /\ runs' = runs \ {m}
          /\ lc' = [lc EXCEPT ![m].st = "failed"]
       \/ /\ lc' = [lc EXCEPT ![m].st = "failed", ![m].pend = TRUE]
          /\ UNCHANGED <<inst, runs>>
    /\ Step(m, "abort")
    /\ UNCHANGED <<durable, reg, epochs, pkg, loose, lock, proc, todo, used>>

\* _enable: the checks under the mutation gate before the commit, which also
\* stand for a failing health preparation or a refused authorization
CommitChecked(m) ==
    /\ op[m].pc = "commit"
    /\ ~IsRestore(m)
    /\ \/ /\ lock = {}
          /\ Allowed(m)
          /\ reg.rev = op[m].exp
          /\ lc[m].st = "starting"
          /\ op' = [op EXCEPT ![m].pc = "committing", ![m].lin = TRUE]
          /\ lock' = {m}
          /\ UNCHANGED faults
       \/ /\ \/ Fault
             \/ UNCHANGED faults /\ lock = {} /\ (~Allowed(m) \/ reg.rev # op[m].exp
                                                    \/ lc[m].st # "starting")
          /\ Step(m, "abort")
          /\ UNCHANGED lock
    /\ UNCHANGED <<durable, live, pkg, loose, proc, todo, used>>

\* The commit transaction: done, refused, or done or not with an error
CommitEnable(m) ==
    /\ op[m].pc = "committing"
    /\ \/ /\ MayCommit(m)
          /\ CommitIntent(m)
          /\ op' = [op EXCEPT ![m].pc = "publish", ![m].com = TRUE]
          /\ UNCHANGED <<lock, faults>>
       \/ /\ MayCommit(m)
          /\ Fault
          /\ \/ CommitIntent(m)
             \/ UNCHANGED <<intent, journal>>
          /\ Step(m, "abort")
          /\ lock' = {}
       \/ /\ ~MayCommit(m)
          /\ Step(m, "abort")
          /\ lock' = {}
          /\ UNCHANGED <<intent, journal, faults>>
    /\ UNCHANGED <<gen, live, pkg, loose, proc, todo, used>>

\* LifecycleController.publish_committed_intent, enabling
PublishActive(m) ==
    /\ reg' = Projected(m, TRUE, lc[m].id)
    /\ lc' = [lc EXCEPT ![m].st = "active", ![m].owner = 0]
    /\ inst' = [inst EXCEPT ![m].ever = TRUE]
    /\ gate' = [gate EXCEPT ![m] = lc[m].id]

PublishEnable_Fenceless(m) ==
    /\ op[m].pc = "publish"
    /\ PublishActive(m)
    /\ Step(m, "applied")
    /\ UNCHANGED <<durable, epochs, runs, pkg, loose, lock, proc, todo, used, faults>>

\* _enable after the commit: a shutdown or a moved registry keeps the gate shut
PublishEnable(m) ==
    /\ op[m].pc = "publish"
    /\ \/ /\ Closing
          /\ journal' = Marked(journal, op[m].id, "recovery")
          /\ Step(m, "abort")
          /\ lock' = {}
          /\ UNCHANGED live
       \/ /\ ~Closing
          /\ reg.rev = op[m].exp
          /\ PublishActive(m)
          /\ Step(m, "applied")
          /\ UNCHANGED <<epochs, runs, journal, lock>>
       \/ /\ ~Closing
          /\ reg.rev # op[m].exp
          /\ lc' = [lc EXCEPT ![m].st = "failed", ![m].pend = TRUE]
          /\ Step(m, "compensate")
          /\ lock' = {}
          /\ UNCHANGED <<reg, epochs, inst, runs, gate, journal>>
    /\ UNCHANGED <<intent, gen, pkg, loose, proc, todo, used, faults>>

\* _enable and _disable: the applied mark, which may fail
MarkApplied(m) ==
    /\ op[m].pc = "applied"
    /\ \/ journal' = Marked(journal, IF IsRestore(m) THEN intent[m].by ELSE op[m].id, "applied")
          /\ UNCHANGED faults
       \/ Fault /\ UNCHANGED journal
    /\ op' = [op EXCEPT ![m] = Idle]
    /\ lock' = lock \ {m}
    /\ UNCHANGED <<intent, gen, live, pkg, loose, proc, todo, used>>

\* _restore_intent: the checks and the publication under one gate
RestorePublish(m) ==
    /\ op[m].pc = "commit"
    /\ IsRestore(m)
    /\ lock = {}
    /\ IF ~op[m].cancel /\ ~Closing /\ intent[m].rev = op[m].irev /\ lc[m].st = "starting"
       THEN PublishActive(m) /\ Step(m, "applied")
       ELSE Step(m, "abort") /\ UNCHANGED <<reg, lc, inst, gate>>
    /\ UNCHANGED <<durable, epochs, runs, pkg, loose, lock, proc, todo, used, faults>>

\* _compensate_committed: the intent goes back, or the row asks for recovery
Compensate(m) ==
    /\ op[m].pc = "compensate"
    /\ lock = {}
    /\ IF MayCompensate(m)
       THEN CompensateIntent(m)
       ELSE /\ journal' = Marked(journal, op[m].id, "recovery")
            /\ UNCHANGED intent
    /\ Step(m, "abort")
    /\ UNCHANGED <<gen, live, pkg, loose, lock, proc, todo, used, faults>>

AbortJournal_Blind(m) ==
    /\ op[m].pc = "abort"
    /\ journal' = IF ~IsRestore(m) /\ op[m].prep
                  THEN [journal EXCEPT ![op[m].id].ph = "compensated"] ELSE journal
    /\ Step(m, "rollback")
    /\ UNCHANGED <<intent, gen, live, pkg, loose, lock, proc, todo, used, faults>>

\* _abort_enable up to the lifecycle: an uncertain commit is looked up, and a
\* row that is still only prepared is closed.  A restore marks the row of its
\* intent instead (_mark_intent_recovery_required).
AbortJournal(m) ==
    LET o == op[m].id
        happened == /\ op[m].lin
                    /\ journal[o].ph \in {"committed", "recovery"}
                    /\ intent[m].by = o
                    /\ intent[m].on
    IN  /\ op[m].pc = "abort"
        /\ journal' = CASE IsRestore(m) ->
                             IF intent[m].rev = op[m].irev /\ journal[intent[m].by].ph = "committed"
                             THEN Marked(journal, intent[m].by, "recovery") ELSE journal
                        [] ~IsRestore(m) /\ op[m].prep /\ ~op[m].com ->
                             Marked(journal, o, IF happened THEN "recovery" ELSE "compensated")
                        [] OTHER -> journal
        /\ Step(m, "rollback")
        /\ UNCHANGED <<intent, gen, live, pkg, loose, lock, proc, todo, used, faults>>

\* LifecycleController.rollback_unpublished_candidate: it refuses an instance
\* that was active before
MayRollback(m) ==
    /\ ~inst[m].ever
    /\ lc[m].st \in {"starting", "stopping", "failed", "stopped", "discovered"}
    /\ ~reg.on[m]
    /\ lc[m].owner \in {0, op[m].id}

Rollback(m) ==
    LET epoch == Max2(epochs[m], Max2(reg.ep[m], lc[m].id)) + 1
        stale == lc[m].st = "starting" \/ lc[m].id > reg.ep[m]
    IN  /\ op[m].pc = "rollback"
        /\ \/ /\ ~inst[m].has \/ pkg.st # "built"
              /\ op' = [op EXCEPT ![m] = Idle]
              /\ UNCHANGED <<live, faults>>
           \/ /\ inst[m].has /\ pkg.st = "built"
              /\ ~MayRollback(m)
              /\ Step(m, "stop")
              /\ UNCHANGED <<live, faults>>
           \/ /\ inst[m].has /\ pkg.st = "built"
              /\ MayRollback(m)
              /\ epochs' = IF stale THEN [epochs EXCEPT ![m] = epoch] ELSE epochs
              /\ reg' = IF stale THEN Projected(m, FALSE, epoch) ELSE reg
              /\ gate' = [gate EXCEPT ![m] = 0]
              /\ \/ /\ lc' = [lc EXCEPT ![m] = NoState]
                    /\ inst' = [inst EXCEPT ![m] = NoInstance]
                    /\ runs' = runs \ {m}
                    /\ op' = [op EXCEPT ![m] = Idle]
                    /\ UNCHANGED faults
                 \/ /\ Fault
                    /\ lc' = [lc EXCEPT ![m] = [st |-> "failed", owner |-> op[m].id, pend |-> TRUE,
                                                id |-> IF stale THEN epoch ELSE @.id]]
                    /\ Step(m, "stop")
                    /\ UNCHANGED <<inst, runs>>
        /\ UNCHANGED <<durable, pkg, loose, lock, proc, todo, used>>

\* _abort_enable for an instance that stays: a failed module is quiesced and
\* stopped.  A starting one cannot be, and stays as it is.
AbortQuiesce(m) ==
    /\ op[m].pc = "stop"
    /\ \/ /\ lc[m].st = "failed"
          /\ lc[m].id # 0
          /\ MayQuiesce(m, op[m].id)
          /\ Quiesce(m, op[m].id)
          /\ Step(m, "stopping")
       \/ /\ lc[m].st = "stopping"
          /\ lc[m].owner = op[m].id
          /\ Step(m, "stopping")
          /\ UNCHANGED <<lc, reg, epochs, gate>>
       \/ /\ \/ lc[m].st \in {"starting", "active", "stopped", "discovered", "none"}
             \/ lc[m].st = "stopping" /\ lc[m].owner # op[m].id
             \/ lc[m].st = "failed" /\ lc[m].id = 0
          /\ op' = [op EXCEPT ![m] = Idle]
          /\ UNCHANGED <<lc, reg, epochs, gate>>
    /\ UNCHANGED <<durable, inst, runs, pkg, loose, lock, proc, todo, used, faults>>

AbortStop(m) ==
    /\ op[m].pc = "stopping"
    /\ \/ Stopped(m) /\ UNCHANGED <<gate, faults>>
       \/ Fault /\ StopFails(m, op[m].id)
    /\ op' = [op EXCEPT ![m] = Idle]
    /\ UNCHANGED <<durable, reg, epochs, pkg, loose, lock, proc, todo, used>>

--------------------
\* Turning a module off.
\* _disable up to the journal row: the gate shuts before anything is durable
QuiesceDisable(m) ==
    /\ op[m].pc = "quiesce"
    /\ lock = {}
    /\ IF /\ Allowed(m)
          /\ reg.rev = op[m].exp
          /\ intent[m].rev = op[m].irev
          /\ m \in reg.in => MayQuiesce(m, op[m].id)
       THEN /\ IF m \in reg.in THEN Quiesce(m, op[m].id)
               ELSE UNCHANGED <<lc, reg, epochs, gate>>
            /\ \/ /\ op' = [op EXCEPT ![m].pc = "off", ![m].prep = TRUE, ![m].exp = reg'.rev]
                  /\ journal' = Prepared(m, FALSE)
                  /\ lock' = {m}
                  /\ UNCHANGED faults
               \/ /\ Fault                 \* the journal row cannot be written
                  /\ m \in reg.in
                  /\ Step(m, "errstop")
                  /\ UNCHANGED <<journal, lock>>
       ELSE /\ op' = [op EXCEPT ![m] = Idle]
            /\ UNCHANGED <<journal, lc, reg, epochs, gate, lock, faults>>
    /\ UNCHANGED <<intent, gen, inst, runs, pkg, loose, proc, todo, used>>

\* _disable: a cancelled operation closes its row, any other one commits
CommitDisable(m) ==
    /\ op[m].pc = "off"
    /\ \/ /\ op[m].cancel
          /\ journal' = Marked(journal, op[m].id, "compensated")
          /\ IF m \in reg.in THEN Step(m, "errstop") ELSE op' = [op EXCEPT ![m] = Idle]
          /\ lock' = {}
          /\ UNCHANGED <<intent, faults>>
       \/ /\ ~op[m].cancel
          /\ MayCommit(m)
          /\ CommitIntent(m)
          /\ op' = [op EXCEPT ![m].pc = "hide", ![m].com = TRUE, ![m].lin = TRUE]
          /\ UNCHANGED <<lock, faults>>
       \/ /\ ~op[m].cancel
          /\ MayCommit(m)
          /\ Fault
          /\ CommitIntent(m) \/ UNCHANGED <<intent, journal>>
          /\ Step(m, "offerror")
          /\ lock' = {}
       \/ /\ ~op[m].cancel
          /\ ~MayCommit(m)
          /\ Step(m, "offerror")
          /\ lock' = {}
          /\ UNCHANGED <<intent, journal, faults>>
    /\ UNCHANGED <<gen, live, pkg, loose, proc, todo, used>>

\* LifecycleController.publish_committed_intent, disabling
PublishDisable(m) ==
    /\ op[m].pc = "hide"
    /\ lock' = {}
    /\ \/ /\ m \in reg.in /\ reg.rev = op[m].exp
          /\ reg' = Projected(m, FALSE, lc[m].id)
          /\ Step(m, "offstop")
          /\ UNCHANGED journal
       \/ /\ m \in reg.in /\ reg.rev # op[m].exp
          /\ journal' = Marked(journal, op[m].id, "recovery")
          /\ Step(m, "errstop")
          /\ UNCHANGED reg
       \/ /\ m \notin reg.in
          /\ Step(m, "applied")
          /\ UNCHANGED <<reg, journal>>
    /\ UNCHANGED <<intent, gen, epochs, lc, inst, runs, gate, pkg, loose, proc, todo, used, faults>>

\* _disable's handler: what the journal says decides between the two endings
DisableError(m) ==
    LET o == op[m].id
        happened == journal[o].ph = "committed" /\ intent[m].by = o /\ ~intent[m].on
    IN  /\ op[m].pc = "offerror"
        /\ \/ journal' = Marked(journal, o, IF happened THEN "recovery" ELSE "compensated")
              /\ UNCHANGED faults
           \/ Fault /\ UNCHANGED journal
        /\ IF m \in reg.in THEN Step(m, "errstop") ELSE op' = [op EXCEPT ![m] = Idle]
        /\ UNCHANGED <<intent, gen, live, pkg, loose, lock, proc, todo, used>>

\* _disable: the module stops, within the cleanup bound or not
DisableStop(m) ==
    /\ op[m].pc \in {"offstop", "errstop"}
    /\ \/ /\ Stopped(m)
          /\ IF op[m].pc = "offstop" THEN Step(m, "applied") ELSE op' = [op EXCEPT ![m] = Idle]
          /\ UNCHANGED <<gate, journal, faults>>
       \/ /\ Fault
          /\ StopFails(m, op[m].id)
          /\ journal' = IF op[m].pc = "offstop" THEN Marked(journal, op[m].id, "recovery") ELSE journal
          /\ op' = [op EXCEPT ![m] = Idle]
    /\ UNCHANGED <<intent, gen, reg, epochs, pkg, loose, lock, proc, todo, used>>

--------------------
\* Shutdown, crash, restart and the rest of the world.
\* ExtensionRuntime.stop_accepting, called first by CoreRuntime.close, which
\* then shuts the gates of the active modules (_quiesce_admission_gates)
StopAccepting ==
    /\ proc \in {"restoring", "open"}
    /\ proc' = "closing"
    /\ op' = [m \in Modules |-> IF op[m] = Idle \/ op[m].lin THEN op[m]
                                ELSE [op[m] EXCEPT !.cancel = TRUE]]
    /\ pkg' = [pkg EXCEPT !.cancel = pkg.st \in {"capture", "create"}, !.wait = {}]
    /\ UNCHANGED <<durable, live, loose, lock, todo, used, faults>>

ShutGates ==
    /\ proc = "closing"
    /\ lock = {}
    /\ \E m \in Modules : gate[m] # 0
    /\ gate' = [m \in Modules |-> 0]
    /\ UNCHANGED <<durable, reg, epochs, lc, inst, runs, op, pkg, loose, lock, proc,
                   todo, used, faults>>

Quiet == /\ \A m \in Modules : op[m] = Idle
         /\ pkg.st \in {"none", "built", "pending"}

\* ExtensionRuntime.close: one module after the other is stopped; the first
\* that does not stop ends the attempt, which is made again later
CloseModule(m) ==
    /\ proc = "closing"
    /\ Quiet
    /\ inst[m].has
    /\ ~(lc[m].st = "stopped" /\ inst[m].done)
    /\ MayQuiesce(m, Restore)
    /\ \/ /\ reg' = IF lc[m].st \in {"stopping", "failed"} /\ lc[m].id = reg.ep[m] THEN reg
                    ELSE Projected(m, reg.on[m], Max2(epochs[m], reg.ep[m]) + 1)
          /\ epochs' = [epochs EXCEPT ![m] = Max2(@, reg'.ep[m])]
          /\ Stopped(m)
          /\ gate' = [gate EXCEPT ![m] = 0]
          /\ UNCHANGED faults
       \/ Fault /\ StopFails(m, Restore) /\ UNCHANGED <<reg, epochs>>
    /\ UNCHANGED <<durable, op, pkg, loose, lock, proc, todo, used>>

\* ExtensionRuntime.close: the candidates left over are stopped, then the
\* source bundle is released
CloseDone ==
    /\ proc = "closing"
    /\ Quiet
    /\ \A m \in Modules : inst[m].has => lc[m].st = "stopped" /\ inst[m].done
    /\ \/ /\ Discarded(Modules)
          /\ pkg' = NoPackage
          /\ proc' = "closed"
          /\ UNCHANGED faults
       \/ /\ loose # {}
          /\ Fault
          /\ UNCHANGED <<loose, pkg, proc>>
    /\ UNCHANGED <<durable, live, op, lock, todo, used>>

\* The process ends, closed or not; everything volatile is gone
Exit ==
    /\ \/ proc \in {"closing", "closed"} /\ UNCHANGED faults
       \/ Up /\ Fault
    /\ proc' = "down"
    /\ Cold
    /\ UNCHANGED <<durable, used>>

\* SQLiteModuleRuntimeRepository.seed_default_enabled_if_absent, from
\* CoreRuntime._seed_trusted_bundled_defaults
Seeds(m) ==
    /\ m \in Defaults
    /\ intent[m].rev = 0
    /\ ~\E o \in OpIds : journal[o].of = m /\ journal[o].ph \in Unresolved
    /\ used < MaxOps

SeedDefault(m) ==
    /\ proc = "down"
    /\ Seeds(m)
    /\ used' = used + 1
    /\ journal' = [journal EXCEPT ![used + 1] = [ph |-> "committed", of |-> m, old |-> FALSE,
                                                 new |-> TRUE, rev |-> 0, gen |-> 0]]
    /\ intent' = [intent EXCEPT ![m] = [on |-> TRUE, rev |-> 1, by |-> used + 1]]
    /\ UNCHANGED <<gen, live, op, pkg, loose, lock, proc, todo, faults>>

\* ExtensionRuntime.restore_startup, its pass over the unresolved rows
Recovered(o) ==
    LET row == journal[o]
        current == row.of \in Modules /\ intent[row.of].by = o
    IN  CASE row.ph = "prepared" /\ ~current -> [row EXCEPT !.ph = "compensated"]
          [] row.ph \in {"committed", "recovery"} /\ ~(current /\ intent[row.of].on)
                 -> [row EXCEPT !.ph = "applied"]
          [] OTHER -> row

Start ==
    /\ proc = "down"
    /\ ~\E m \in Modules : Seeds(m)
    /\ proc' = "restoring"
    /\ journal' = [o \in OpIds |-> Recovered(o)]
    /\ todo' = {m \in Modules : intent[m].on}
    /\ UNCHANGED <<intent, gen, live, op, pkg, loose, lock, used, faults>>

\* restore_startup, its pass over the enabled intents, one at a time
RestoreIntent(m) ==
    /\ proc = "restoring"
    /\ m \in todo
    /\ \A x \in Modules : op[x] = Idle
    /\ todo' = todo \ {m}
    /\ op' = [op EXCEPT ![m] = [Idle EXCEPT !.pc = "ensure", !.id = Restore, !.on = TRUE,
                                            !.exp = reg.rev, !.irev = intent[m].rev]]
    /\ UNCHANGED <<durable, live, pkg, loose, lock, proc, used, faults>>

Started ==
    /\ proc = "restoring"
    /\ todo = {}
    /\ \A x \in Modules : op[x] = Idle
    /\ proc' = "open"
    /\ UNCHANGED <<durable, live, op, pkg, loose, lock, todo, used, faults>>

\* The administrator credential is rotated: grants of the old one are void
RotateCredential ==
    /\ proc = "open"
    /\ gen < MaxGen
    /\ gen' = gen + 1
    /\ UNCHANGED <<intent, journal, live, op, pkg, loose, lock, proc, todo, used, faults>>

\* LifecycleController._scope_cleanup_timeout: module work ignores its
\* cancellation; the run is isolated under a new epoch
IsolateRun(m) ==
    /\ lc[m].st = "active"
    /\ Fault
    /\ LET epoch == Max2(epochs[m], reg.ep[m]) + 1
       IN  /\ epochs' = [epochs EXCEPT ![m] = epoch]
           /\ reg' = Projected(m, reg.on[m], epoch)
           /\ lc' = [lc EXCEPT ![m].st = "failed", ![m].id = epoch, ![m].pend = TRUE]
    /\ gate' = [gate EXCEPT ![m] = 0]
    /\ UNCHANGED <<durable, inst, runs, op, pkg, loose, lock, proc, todo, used>>

OperationStep(m) ==
    \/ EnsureBuilt(m) \/ BuildJoined(m) \/ RepairModule(m) \/ RepairInstall(m)
    \/ PrepareEnable(m) \/ StartCandidate(m) \/ StartAnswers(m) \/ StartRaises(m)
    \/ CommitChecked(m) \/ CommitEnable(m) \/ PublishEnable(m) \/ RestorePublish(m)
    \/ MarkApplied(m) \/ Compensate(m)
    \/ AbortJournal(m) \/ Rollback(m) \/ AbortQuiesce(m) \/ AbortStop(m)
    \/ QuiesceDisable(m) \/ CommitDisable(m) \/ PublishDisable(m)
    \/ DisableError(m) \/ DisableStop(m)

BuildStep ==
    \/ BuildCapture \/ BuildRegister \/ BuildFails \/ BuildDiscard
    \/ \E m \in Modules : BuildCreate(m)

StartStep ==
    \/ Start \/ Started
    \/ \E m \in Modules : SeedDefault(m) \/ RestoreIntent(m)

Next ==
    \/ \E m \in Modules : OperationStep(m) \/ CallerLeaves(m) \/ IsolateRun(m) \/ CloseModule(m)
    \/ \E m \in Modules, on \in BOOLEAN : SetEnabled(m, on)
    \/ BuildStep \/ StartStep
    \/ StopAccepting \/ ShutGates \/ CloseDone \/ Exit \/ RotateCredential

Spec == Init /\ [][Next]_vars

\* asyncio runs every task that is ready, SQLite answers, and a process that
\* ended is started again
FairSpec ==
    /\ Spec
    /\ \A m \in Modules : WF_vars(OperationStep(m))
    /\ WF_vars(BuildStep)
    /\ WF_vars(StartStep)

\* An open admission gate means that the durable intent is on, the module is
\* registered under the very epoch the gate is open for, and its code runs:
\* _enable publishes only after its commit and _disable shuts the gate first.
GateFollowsIntent ==
    \A m \in Modules : gate[m] # 0 =>
        /\ intent[m].on
        /\ reg.on[m] /\ reg.ep[m] = gate[m]
        /\ lc[m].st = "active" /\ lc[m].id = gate[m]
        /\ m \in runs

\* Code of the package, started or only created, never outlives the lease of
\* its source bundle (close and _build_package release it last).
LeaseCoversCode == runs \cup loose # {} => pkg.lease

\* A compensated operation left no trace: no intent carries its value.  The
\* rows of intents are never still prepared (restore_startup reports that as
\* intent_journal_inconsistent).
JournalTellsTruth ==
    \A m \in Modules, o \in OpIds : intent[m].by = o =>
        /\ journal[o].ph # "prepared"
        /\ journal[o].ph = "compensated" => intent[m].on = journal[o].old
        /\ journal[o].ph # "compensated" => intent[m].on = journal[o].new

\* What _enable, _disable, _restore and close hold between them, whichever of
\* their steps fails: gates follow intents, code its lease, the journal the truth.
ActivationIsSound == GateFollowsIntent /\ LeaseCoversCode /\ JournalTellsTruth

\* Once stop_accepting has fenced the runtime no gate opens any more, not even
\* for an operation whose commit was already under way (_enable's shutdown
\* fence).
ClosingOpensNothing == [][\A m \in Modules :
    Closing /\ gate[m] = 0 => gate'[m] = 0]_vars

\* An intent that is on is served after a restart, unless a call fails, the
\* cleanup of a sibling is pending or the process is told to stop.
RestoreServes == \A m \in Modules :
    proc = "restoring" /\ m \in todo /\ pkg.st \in {"none", "built"} /\ faults = MaxFaults
        ~> gate[m] # 0 \/ proc \in {"closing", "closed", "down"}

============================================================================
