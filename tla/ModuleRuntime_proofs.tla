------------------------ MODULE ModuleRuntime_proofs ------------------------
(***************************************************************************)
(* Proofs about the runtime of modules, for every value of the constants:  *)
(* the activation that gives a module its run, the request that runs in    *)
(* it, and the route of its answer.  The three models share no state, and  *)
(* each has an inductive invariant of its own.                             *)
(***************************************************************************)
EXTENDS ModuleActivation, MCPaths, FiniteSetTheorems, TLAPS

\* Activation: the inductive invariant.

EnablePcs == {"ensure", "wait", "built", "unbuilt", "repair", "install", "prepare", "start",
              "starting", "commit", "committing", "publish", "compensate", "abort",
              "rollback", "stop", "stopping"}
DisablePcs == {"quiesce", "off", "hide", "offstop", "errstop", "offerror"}
OpPcs == EnablePcs \cup DisablePcs \cup {"idle", "applied"}

IntentRows == [on: BOOLEAN, rev: Nat, by: 0..MaxOps]
JournalRows == [ph: Phases, of: Modules \cup {"none"}, old: BOOLEAN, new: BOOLEAN,
                rev: Nat, gen: Nat]
Registries == [rev: Nat, in: {{}, Modules}, on: [Modules -> BOOLEAN], ep: [Modules -> Nat]]
LifecycleStates == [st: {"none", "discovered", "starting", "active", "stopping", "stopped", "failed"},
                    id: Nat, owner: 0..Restore, pend: BOOLEAN]
Instances == [has: BOOLEAN, ever: BOOLEAN, att: BOOLEAN, done: BOOLEAN]
Operations == [pc: OpPcs, id: 0..Restore, on: BOOLEAN, exp: Nat, irev: Nat, gen: Nat,
               cancel: BOOLEAN, prep: BOOLEAN, com: BOOLEAN, lin: BOOLEAN]
Packages == [st: {"none", "capture", "create", "built", "discard", "pending"}, base: Nat, fin: Nat,
             lease: BOOLEAN, gen: Nat, left: SUBSET Modules, wait: SUBSET Modules, cancel: BOOLEAN]

DurableTyped ==
    /\ intent \in [Modules -> IntentRows]
    /\ journal \in [OpIds -> JournalRows]
    /\ gen \in Nat
    /\ used \in 0..MaxOps

LiveTyped ==
    /\ reg \in Registries
    /\ epochs \in [Modules -> Nat]
    /\ lc \in [Modules -> LifecycleStates]
    /\ inst \in [Modules -> Instances]
    /\ runs \subseteq Modules
    /\ gate \in [Modules -> Nat]

HostTyped ==
    /\ op \in [Modules -> Operations]
    /\ pkg \in Packages
    /\ loose \subseteq Modules
    /\ lock \subseteq Modules
    /\ proc \in {"down", "restoring", "open", "closing", "closed"}
    /\ todo \subseteq Modules
    /\ faults \in Nat

Typed == DurableTyped /\ LiveTyped /\ HostTyped

\* Places of an operation at which the package is built, at which the gate of
\* its module is shut, at which the module's code runs, and at which its commit
\* cannot have happened.
BuiltPcs == {"built", "repair", "install", "prepare", "start", "starting", "commit", "committing",
             "publish", "compensate", "stop", "stopping", "offstop", "errstop"}
ShutPcs == {"starting", "commit", "committing", "publish", "compensate", "stopping"} \cup
           {"off", "hide", "offstop", "errstop", "offerror"}
RunPcs == {"starting", "commit", "committing", "publish"}
EarlyPcs == {"ensure", "wait", "built", "unbuilt", "repair", "install", "prepare", "start",
             "starting", "commit", "committing", "quiesce", "off"}
RowPcs == {"start", "starting", "commit", "committing", "off", "offerror"}
OwnPcs == {"committing", "publish", "compensate"} \cup DisablePcs

\* What an operation holds at each place.
PcHolds(m) ==
    /\ op[m].pc = "idle" => op[m] = Idle
    /\ op[m].pc # "idle" => op[m].id # 0 /\ proc \notin {"down", "closed"}
    /\ op[m].pc \in EnablePcs => op[m].on
    /\ op[m].pc \in DisablePcs => ~op[m].on
    /\ op[m].pc \in OwnPcs => op[m].id \in OpIds
    /\ op[m].pc \in BuiltPcs => pkg.st = "built"
    /\ op[m].pc \in ShutPcs => gate[m] = 0
    /\ op[m].pc \in RunPcs => m \in runs
    /\ op[m].pc = "install" => ~inst[m].has
    /\ op[m].pc \in {"committing", "publish", "compensate"} => op[m].lin

\* The row an operation has in the journal, and whether an intent is its own.
RowHolds(m) ==
    op[m].id \in OpIds =>
        /\ op[m].id <= used
        /\ op[m].prep => journal[op[m].id].of = m /\ journal[op[m].id].new = op[m].on
        /\ op[m].pc \in RowPcs => op[m].prep
        /\ op[m].pc \in {"publish", "compensate", "applied", "hide", "offstop"} => op[m].prep
        /\ op[m].pc \in RowPcs \ {"offerror"} => journal[op[m].id].ph = "prepared"
        /\ op[m].pc = "offerror" => journal[op[m].id].ph \in {"prepared", "committed"}
        /\ op[m].pc \in EarlyPcs \/ (op[m].pc = "abort" /\ ~op[m].lin)
              => \A n \in Modules : intent[n].by # op[m].id

\* The intent of a module knows its row, and what its operation relies on.
IntentHolds(m) ==
    /\ intent[m].by <= used
    /\ intent[m].on => intent[m].by # 0
    /\ intent[m].by # 0 => journal[intent[m].by].of = m
    /\ op[m].id = Restore => intent[m].on
    /\ op[m].pc = "publish" => intent[m].on

\* The two invariants, of one module.
GateHolds(m) ==
    gate[m] # 0 =>
        /\ intent[m].on
        /\ reg.on[m] /\ reg.ep[m] = gate[m]
        /\ lc[m].st = "active" /\ lc[m].id = gate[m]
        /\ m \in runs

JournalHolds(m) ==
    intent[m].by \in OpIds =>
        LET own == journal[intent[m].by]
        IN  /\ own.ph # "prepared"
            /\ own.ph = "compensated" => intent[m].on = own.old
            /\ own.ph # "compensated" => intent[m].on = own.new

Holds(m) == PcHolds(m) /\ RowHolds(m) /\ IntentHolds(m) /\ GateHolds(m) /\ JournalHolds(m)

\* An operation id is used by one operation.
IdsDiffer == \A m, n \in Modules : op[m].id \in OpIds /\ op[m].id = op[n].id => m = n

\* Nothing of the package is live before it is built, and after close.
PackageHolds ==
    /\ pkg.lease <=> pkg.st \in {"create", "built", "discard", "pending"}
    /\ pkg.st \in {"none", "capture"} => loose = {}
    /\ pkg.st = "built" => reg.in = Modules
    /\ proc = "closed" => pkg.st = "none" /\ runs = {}
    /\ proc = "down" => pkg.st = "none"
    /\ pkg.st # "built" /\ proc # "closed" =>
          /\ reg.in = {} /\ runs = {}
          /\ \A m \in Modules : lc[m].st = "none" /\ ~inst[m].has /\ gate[m] = 0
    /\ \A m \in runs : inst[m].has /\ ~inst[m].done

TodoHolds ==
    /\ \A m \in todo : intent[m].on /\ op[m] = Idle
    /\ proc \in {"down", "open"} => todo = {}

ActivationInv ==
    /\ Typed
    /\ \A m \in Modules : Holds(m)
    /\ IdsDiffer /\ PackageHolds /\ TodoHolds

LEMMA Constants ==
    /\ Modules # {} /\ IsFiniteSet(Modules) /\ MaxOps \in Nat \ {0} /\ MaxGen \in Nat \ {0}
    /\ MaxFaults \in Nat /\ Restore \in Nat /\ Restore \notin OpIds /\ 0 \notin OpIds
    /\ OpIds \subseteq 0..MaxOps /\ 0..MaxOps \subseteq 0..Restore /\ 0 # Restore
    /\ \A x \in 0..Restore : x = 0 \/ x \in OpIds \/ x = Restore
    /\ \A x \in 0..MaxOps : x = 0 \/ x \in OpIds
    /\ Cardinality(Modules) \in Nat
BY ActivationConstants, FS_CardinalityType DEF OpIds, Restore

LEMMA RecordsTyped ==
    /\ Idle \in Operations /\ NoState \in LifecycleStates /\ NoInstance \in Instances
    /\ NoPackage \in Packages /\ NoRow \in JournalRows /\ NewInstance \in Instances
<1>1. Idle \in Operations
  BY Constants DEF Idle, Operations, OpPcs
<1>2. NoState \in LifecycleStates
  BY Constants DEF NoState, LifecycleStates
<1>3. NoInstance \in Instances /\ NewInstance \in Instances
  BY DEF NoInstance, NewInstance, Instances
<1>4. NoPackage \in Packages
  BY DEF NoPackage, Packages
<1>5. NoRow \in JournalRows
  BY DEF NoRow, JournalRows, Phases
<1> QED BY <1>1, <1>2, <1>3, <1>4, <1>5

LEMMA ActivationInit == Init => ActivationInv
<1> SUFFICES ASSUME Init PROVE ActivationInv
  OBVIOUS
<1>1. Typed
  <2>1. [on |-> FALSE, rev |-> 0, by |-> 0] \in IntentRows
    BY Constants DEF IntentRows
  <2>2. DurableTyped
    BY <2>1, RecordsTyped, Constants DEF Init, DurableTyped
  <2>3. reg \in Registries
    BY DEF Init, Registries
  <2>4. LiveTyped
    BY <2>3, RecordsTyped DEF Init, LiveTyped
  <2> QED BY <2>2, <2>4, RecordsTyped DEF Init, HostTyped, Typed
<1>2. \A m \in Modules : op[m] = Idle /\ op[m].pc = "idle" /\ op[m].id = 0 /\ op[m].pc \notin OwnPcs
          /\ op[m].pc \notin EnablePcs \cup DisablePcs \cup BuiltPcs \cup ShutPcs \cup RunPcs
          /\ op[m].id # Restore /\ op[m].id \notin OpIds
  BY Constants DEF Init, Idle, EnablePcs, DisablePcs, BuiltPcs, ShutPcs, RunPcs, OwnPcs
<1>3. \A m \in Modules : intent[m].by = 0 /\ ~intent[m].on /\ gate[m] = 0
  BY DEF Init
<1>4. \A m \in Modules : Holds(m)
  BY <1>2, <1>3, Constants DEF Init, Holds, PcHolds, RowHolds, IntentHolds, GateHolds, JournalHolds
<1>5. IdsDiffer
  BY <1>2 DEF IdsDiffer
<1>6. PackageHolds
  BY DEF Init, PackageHolds, NoPackage, NoState, NoInstance
<1> QED BY <1>1, <1>4, <1>5, <1>6 DEF ActivationInv, Init, TodoHolds

\* Steps of one operation.

\* What every step of an operation leaves to the others, and alone.
StepOf(m) ==
    /\ \A n \in Modules \ {m} :
          /\ op'[n] = op[n] /\ intent'[n] = intent[n]
          /\ lc'[n] = lc[n] /\ inst'[n] = inst[n] /\ gate'[n] = gate[n]
          /\ reg'.on[n] = reg.on[n] /\ reg'.ep[n] = reg.ep[n]
          /\ n \in runs <=> n \in runs'
    /\ reg'.in = reg.in
    /\ UNCHANGED <<proc, used, todo>>
    /\ op[m].pc # "idle"
    /\ intent'[m].by \in {intent[m].by, op[m].id}
    /\ op'[m] = Idle \/ (op'[m].pc # "idle" /\ op'[m].id = op[m].id)
    /\ pkg'.st = "built" <=> pkg.st = "built"
    /\ \A o \in OpIds :
          \/ journal'[o] = journal[o]
          \/ o = op[m].id /\ (op[m].prep \/ op[m].pc \in {"prepare", "quiesce"})
          \/ /\ o = intent[m].by
             /\ journal'[o].of = journal[o].of /\ journal'[o].new = journal[o].new

\* The other modules keep what holds of them.
LEMMA OthersHold ==
    ASSUME ActivationInv, NEW m \in Modules, StepOf(m), NEW n \in Modules \ {m}
    PROVE  Holds(n)'
<1>1. /\ op'[n] = op[n] /\ intent'[n] = intent[n]
      /\ lc'[n] = lc[n] /\ inst'[n] = inst[n] /\ gate'[n] = gate[n]
      /\ reg'.on[n] = reg.on[n] /\ reg'.ep[n] = reg.ep[n] /\ (n \in runs <=> n \in runs')
      /\ proc' = proc /\ used' = used /\ (pkg'.st = "built" <=> pkg.st = "built")
  BY DEF StepOf
<1>2. Holds(n) /\ Holds(m) /\ op[m].pc # "idle"
  BY DEF ActivationInv, StepOf
<1>3. PcHolds(n)'
  BY <1>1, <1>2 DEF Holds, PcHolds
<1>4. GateHolds(n)'
  BY <1>1, <1>2 DEF Holds, GateHolds
<1>5. /\ intent[m].by \in 0..MaxOps /\ intent[n].by \in 0..MaxOps
      /\ op[m].id \in 0..Restore /\ op[n].id \in 0..Restore
  BY DEF ActivationInv, Typed, DurableTyped, HostTyped, IntentRows, Operations
<1>6. ASSUME intent[n].by \in OpIds
      PROVE  journal'[intent[n].by] = journal[intent[n].by]
  <2>1. journal[intent[n].by].of = n
    BY <1>2, <1>6, Constants DEF Holds, IntentHolds
  <2>2. intent[n].by # intent[m].by
    BY <1>2, <1>6, <2>1, Constants DEF Holds, IntentHolds
  <2>3. intent[n].by = op[m].id => ~op[m].prep /\ op[m].pc \notin {"prepare", "quiesce"}
    BY <1>2, <1>6, <2>1 DEF Holds, RowHolds, EarlyPcs
  <2> QED BY <1>6, <2>2, <2>3 DEF StepOf
<1>7. JournalHolds(n)'
  BY <1>1, <1>2, <1>6 DEF Holds, JournalHolds
<1>8. IntentHolds(n)'
  BY <1>1, <1>2, <1>5, <1>6, Constants DEF Holds, IntentHolds
<1>9. ASSUME op[n].id \in OpIds
      PROVE  RowHolds(n)'
  <2>1. op[n].id # op[m].id
    BY <1>9 DEF ActivationInv, IdsDiffer
  <2>2. \/ journal'[op[n].id] = journal[op[n].id]
        \/ /\ op[n].id = intent[m].by
           /\ journal'[op[n].id].of = journal[op[n].id].of /\ journal'[op[n].id].new = journal[op[n].id].new
    BY <1>9, <2>1 DEF StepOf
  <2>3. op[n].id = intent[m].by => ~op[n].prep
    BY <1>2, <1>9, Constants DEF Holds, IntentHolds, RowHolds
  <2>4. op[n].pc \in EarlyPcs \/ (op[n].pc = "abort" /\ ~op[n].lin)
           => \A k \in Modules : intent'[k].by # op[n].id
    <3>1. \A k \in Modules : intent'[k].by = intent[k].by \/ intent'[k].by = op[m].id
      BY DEF StepOf
    <3> QED BY <1>2, <1>9, <2>1, <3>1 DEF Holds, RowHolds
  <2> QED BY <1>1, <1>2, <1>9, <2>2, <2>3, <2>4 DEF Holds, RowHolds, RowPcs
<1>10. RowHolds(n)'
  BY <1>1, <1>9 DEF RowHolds
<1> QED BY <1>3, <1>4, <1>7, <1>8, <1>10 DEF Holds
\* A step of one operation keeps the invariant when its own module and the
\* package keep theirs.
LEMMA StepKeeps ==
    ASSUME ActivationInv, NEW m \in Modules, StepOf(m), Typed', Holds(m)', PackageHolds'
    PROVE  ActivationInv'
<1>1. \A n \in Modules : Holds(n)'
  BY OthersHold
<1>2. \A n \in Modules : op'[n].id = op[n].id \/ op'[n].id = 0
  BY DEF StepOf, Idle
<1>3. IdsDiffer'
  BY <1>2, Constants DEF IdsDiffer, ActivationInv
<1>4. m \notin todo
  BY DEF ActivationInv, TodoHolds, StepOf, Idle
<1>5. TodoHolds'
  BY <1>4 DEF ActivationInv, TodoHolds, StepOf, Typed, HostTyped
<1> QED BY <1>1, <1>3, <1>5 DEF ActivationInv

LEMMA PackageKept ==
    ASSUME ActivationInv, NEW m \in Modules, StepOf(m), pkg' = pkg,
           pkg.st \in {"none", "capture"} => loose' = {},
           pkg.st = "built" \/ UNCHANGED <<reg, lc, inst, runs, gate>>,
           m \in runs' => inst'[m].has /\ ~inst'[m].done, runs' \subseteq Modules
    PROVE  PackageHolds'
<1>1. \A n \in runs' : inst'[n].has /\ ~inst'[n].done
  BY DEF ActivationInv, PackageHolds, StepOf
<1>2. proc # "closed" /\ proc # "down" /\ proc' = proc
  BY DEF ActivationInv, Holds, PcHolds, StepOf
<1> QED BY <1>1, <1>2 DEF ActivationInv, PackageHolds, StepOf

\* Steps that touch neither the lifecycle nor the intents.
LEMMA QuietHolds ==
    ASSUME ActivationInv, NEW m \in Modules, UNCHANGED <<intent, journal, used, gate, reg, lc, runs>>,
           PcHolds(m)', RowHolds(m)', op'[m].id \in {0, op[m].id}, op'[m].pc # "publish"
    PROVE  Holds(m)'
BY Constants DEF ActivationInv, Holds, IntentHolds, GateHolds, JournalHolds

LEMMA IdleHolds ==
    ASSUME NEW m \in Modules, op'[m] = Idle
    PROVE  PcHolds(m)' /\ RowHolds(m)' /\ op'[m].id = 0 /\ op'[m].pc # "publish"
BY Constants DEF Idle, PcHolds, RowHolds, EnablePcs, DisablePcs, OwnPcs, BuiltPcs, ShutPcs, RunPcs

LEMMA OpSet ==
    ASSUME Typed, NEW m \in Modules, NEW r \in Operations, op' = [op EXCEPT ![m] = r]
    PROVE  /\ op' \in [Modules -> Operations] /\ op'[m] = r
           /\ \A n \in Modules \ {m} : op'[n] = op[n]
BY DEF Typed, HostTyped

LEMMA StepFields ==
    ASSUME Typed, NEW m \in Modules, NEW pc \in OpPcs, Step(m, pc)
    PROVE  /\ op' \in [Modules -> Operations]
           /\ op'[m].pc = pc /\ op'[m].id = op[m].id /\ op'[m].on = op[m].on
           /\ op'[m].exp = op[m].exp /\ op'[m].irev = op[m].irev /\ op'[m].gen = op[m].gen
           /\ op'[m].cancel = op[m].cancel /\ op'[m].prep = op[m].prep
           /\ op'[m].com = op[m].com /\ op'[m].lin = op[m].lin
           /\ \A n \in Modules \ {m} : op'[n] = op[n]
<1>1. op[m] \in Operations /\ op \in [Modules -> Operations]
  BY DEF Typed, HostTyped
<1>2. [op[m] EXCEPT !.pc = pc] \in Operations
  BY <1>1 DEF Operations
<1>3. op' = [op EXCEPT ![m] = [op[m] EXCEPT !.pc = pc]]
  BY DEF Step
<1>4. op' \in [Modules -> Operations] /\ op'[m] = [op[m] EXCEPT !.pc = pc]
      /\ \A n \in Modules \ {m} : op'[n] = op[n]
  BY <1>1, <1>2, <1>3
<1> QED BY <1>1, <1>4 DEF Operations

\* An operation that may only clean up from here on.
LEMMA AbortHolds ==
    ASSUME ActivationInv, NEW m \in Modules, op[m].pc \in EnablePcs, op'[m].pc = "abort",
           op'[m].id = op[m].id, op'[m].on = op[m].on, op'[m].prep = op[m].prep, op'[m].lin = op[m].lin,
           op[m].pc \in EarlyPcs \ {"committing"} \/ op[m].id = Restore \/ op[m].lin,
           UNCHANGED <<proc, used>>, \A n \in Modules : intent'[n].by = intent[n].by \/ op[m].lin,
           op[m].id \in OpIds /\ op[m].prep =>
              /\ journal'[op[m].id].of = journal[op[m].id].of
              /\ journal'[op[m].id].new = journal[op[m].id].new
    PROVE  PcHolds(m)' /\ RowHolds(m)'
<1>2. PcHolds(m)'
  BY DEF ActivationInv, Holds, PcHolds, EnablePcs, DisablePcs, OwnPcs, BuiltPcs, ShutPcs, RunPcs
<1>3. RowHolds(m)'
  BY Constants DEF ActivationInv, Holds, RowHolds, RowPcs, EarlyPcs
<1> QED BY <1>2, <1>3

\* What the records of a state are.
LEMMA TypeFacts ==
    ASSUME ActivationInv, NEW m \in Modules
    PROVE  /\ Typed /\ Holds(m)
           /\ op[m] \in Operations /\ op \in [Modules -> Operations]
           /\ lc[m] \in LifecycleStates /\ lc \in [Modules -> LifecycleStates]
           /\ inst[m] \in Instances /\ inst \in [Modules -> Instances]
           /\ intent[m] \in IntentRows /\ intent \in [Modules -> IntentRows]
           /\ journal \in [OpIds -> JournalRows] /\ reg \in Registries /\ pkg \in Packages
           /\ gate \in [Modules -> Nat] /\ epochs \in [Modules -> Nat] /\ gate[m] \in Nat /\ epochs[m] \in Nat
           /\ reg.rev \in Nat /\ reg.on \in [Modules -> BOOLEAN] /\ reg.ep \in [Modules -> Nat]
           /\ reg.in \in {{}, Modules} /\ runs \subseteq Modules
BY DEF ActivationInv, Typed, DurableTyped, LiveTyped, HostTyped, Registries

\* Where an operation goes on after its own step, with nothing of the journal moved.
LEMMA MovesOn ==
    ASSUME ActivationInv, NEW m \in Modules, NEW pc \in OpPcs \ {"idle", "publish"},
           op[m].pc # "idle", op'[m].pc = pc, op'[m].id = op[m].id, op'[m].on = op[m].on,
           op'[m].prep = op[m].prep, op'[m].lin = op[m].lin,
           UNCHANGED <<proc, used, intent, journal>>, pkg'.st = pkg.st,
           pc \in EnablePcs => op[m].on, pc \in DisablePcs => ~op[m].on,
           pc \in OwnPcs => op[m].id \in OpIds, pc \in BuiltPcs => pkg.st = "built",
           pc \in ShutPcs => gate'[m] = 0, pc \in RunPcs => m \in runs', pc = "install" => ~inst'[m].has,
           pc \notin {"committing", "compensate"},
           pc \in {"applied", "hide", "offstop"} => op[m].pc \in {"publish", "hide"},
           pc \in EarlyPcs => op[m].pc \in EarlyPcs,
           pc \in RowPcs \ {"offerror"} => op[m].pc \in RowPcs \ {"offerror"},
           pc # "offerror",
           pc = "abort" => op[m].pc \in EarlyPcs \/ op[m].lin \/ op[m].pc = "abort"
    PROVE  PcHolds(m)' /\ RowHolds(m)'
<1>1. Holds(m)
  BY TypeFacts
<1>2. PcHolds(m)'
  BY <1>1 DEF Holds, PcHolds
<1>3. RowHolds(m)'
  BY <1>1 DEF Holds, RowHolds, RowPcs
<1> QED BY <1>2, <1>3

LEMMA RefusedFields ==
    ASSUME ActivationInv, NEW m \in Modules, op[m].pc \in EnablePcs, Refused(m), UNCHANGED <<proc, used, intent, journal>>
    PROVE  /\ op' \in [Modules -> Operations]
           /\ \A n \in Modules \ {m} : op'[n] = op[n]
           /\ op'[m] = Idle \/ (op'[m].pc = "abort" /\ op'[m].id = op[m].id)
           /\ PcHolds(m)' /\ RowHolds(m)' /\ op'[m].id \in {0, op[m].id} /\ op'[m].pc # "publish"
<1> USE DEF Refused
<1>t. Typed
  BY DEF ActivationInv
<1>1. CASE IsRestore(m)
  <2>1. Step(m, "abort") /\ "abort" \in OpPcs /\ op[m].id = Restore
    BY <1>1 DEF OpPcs, EnablePcs, IsRestore
  <2> HIDE DEF Refused
  <2>2. /\ op' \in [Modules -> Operations]
        /\ op'[m].pc = "abort" /\ op'[m].id = op[m].id /\ op'[m].on = op[m].on
        /\ op'[m].prep = op[m].prep /\ op'[m].lin = op[m].lin
        /\ \A n \in Modules \ {m} : op'[n] = op[n]
    BY <1>t, <2>1, StepFields
  <2>3. PcHolds(m)' /\ RowHolds(m)'
    BY <2>1, <2>2, AbortHolds
  <2> QED BY <2>2, <2>3
<1>2. CASE ~IsRestore(m)
  <2>1. op' = [op EXCEPT ![m] = Idle]
    BY <1>2
  <2>2. op' \in [Modules -> Operations] /\ op'[m] = Idle /\ \A n \in Modules \ {m} : op'[n] = op[n]
    BY <1>t, <2>1, OpSet, RecordsTyped
  <2> QED BY <2>2, IdleHolds
<1> QED BY <1>1, <1>2

LEMMA EnsureBuiltKeeps == ASSUME ActivationInv, NEW m \in Modules, EnsureBuilt(m) PROVE ActivationInv'
<1>1. Typed /\ Holds(m) /\ op[m] \in Operations /\ pkg \in Packages /\ op[m].pc = "ensure"
      /\ UNCHANGED <<durable, live, loose, lock, proc, todo, used, faults>>
  BY TypeFacts DEF EnsureBuilt
<1>2. op[m].id # 0 /\ op[m].on /\ proc \notin {"down", "closed"}
  BY <1>1 DEF Holds, PcHolds, EnablePcs
<1>3. pkg' \in Packages /\ (pkg' = pkg \/ (pkg.st # "built" /\ pkg'.st # "built" /\ (pkg'.lease <=> pkg.lease)
                               /\ pkg'.st \in {pkg.st, "capture"} /\ (pkg'.st = pkg.st \/ (~pkg'.lease /\ pkg.st = "none"))))
  <2>1. CASE pkg' = pkg
    BY <1>1, <2>1
  <2>2. CASE pkg' = [pkg EXCEPT !.wait = @ \cup {m}] /\ pkg.st \in {"capture", "create"}
    BY <1>1, <2>2 DEF Packages
  <2>3. ASSUME NEW g \in Nat, pkg.st = "none",
               pkg' = [NoPackage EXCEPT !.st = "capture", !.base = reg.rev, !.gen = g,
                                        !.left = Modules, !.wait = {m}]
        PROVE  pkg' \in Packages /\ pkg'.st = "capture" /\ ~pkg'.lease /\ ~pkg.lease
    BY <1>1, <2>3, RecordsTyped, TypeFacts DEF Packages, NoPackage, ActivationInv, PackageHolds
  <2>4. op[m].gen \in Nat /\ 0 \in Nat
    BY <1>1 DEF Operations
  <2> QED BY <1>1, <2>1, <2>2, <2>3, <2>4 DEF EnsureBuilt
<1>4. /\ op' \in [Modules -> Operations] /\ \A n \in Modules \ {m} : op'[n] = op[n]
      /\ op'[m] = Idle \/ (op'[m].pc # "idle" /\ op'[m].id = op[m].id)
      /\ PcHolds(m)' /\ RowHolds(m)' /\ op'[m].id \in {0, op[m].id} /\ op'[m].pc # "publish"
  <2>1. CASE Step(m, "wait") /\ pkg.st # "built"
    <3>1. "wait" \in OpPcs
      BY DEF OpPcs, EnablePcs
    <3>2. /\ op' \in [Modules -> Operations]
          /\ op'[m].pc = "wait" /\ op'[m].id = op[m].id /\ op'[m].on = op[m].on
          /\ op'[m].prep = op[m].prep /\ op'[m].lin = op[m].lin
          /\ \A n \in Modules \ {m} : op'[n] = op[n]
      BY <1>1, <2>1, <3>1, StepFields
    <3> QED
      BY <1>1, <1>2, <3>2 DEF durable, Holds, PcHolds, RowHolds, EnablePcs, DisablePcs, OwnPcs, BuiltPcs, ShutPcs,
         RunPcs, RowPcs, EarlyPcs
  <2>2. CASE Refused(m)
    <3>1. op[m].pc \in EnablePcs /\ UNCHANGED <<proc, used, intent, journal>>
      BY <1>1 DEF EnablePcs, durable
    <3> QED BY <1>1, <2>2, <3>1, RefusedFields
  <2>3. CASE pkg.st = "built" /\ pkg' = pkg /\ op' = [op EXCEPT ![m].exp = Rebased(m), ![m].pc = "repair"]
    <3>1. Rebased(m) \in Nat
      BY <1>1 DEF Rebased, Operations, Packages
    <3> DEFINE r == [op[m] EXCEPT !.exp = Rebased(m), !.pc = "repair"]
    <3>2. /\ r \in Operations /\ r.pc = "repair" /\ r.id = op[m].id /\ r.on = op[m].on
          /\ r.prep = op[m].prep /\ r.lin = op[m].lin
      BY <1>1, <3>1 DEF Operations, OpPcs, EnablePcs
    <3>3. op' = [op EXCEPT ![m] = r]
      BY <2>3
    <3> HIDE DEF r
    <3>4. op' \in [Modules -> Operations] /\ op'[m] = r /\ \A n \in Modules \ {m} : op'[n] = op[n]
      BY <1>1, <3>2, <3>3, OpSet
    <3> QED
      BY ZenonT(30), <1>1, <1>2, <2>3, <3>2, <3>4 DEF durable, Holds, PcHolds, RowHolds, EnablePcs, DisablePcs, OwnPcs, BuiltPcs,
         ShutPcs, RunPcs, RowPcs, EarlyPcs
  <2> QED BY <1>1, <2>1, <2>2, <2>3 DEF EnsureBuilt
<1>5. Typed'
  BY <1>1, <1>3, <1>4 DEF Typed, DurableTyped, LiveTyped, HostTyped, durable, live
<1>6. StepOf(m)
  BY <1>1, <1>3, <1>4 DEF StepOf, durable, live
<1>7. Holds(m)'
  BY <1>1, <1>4, QuietHolds DEF durable, live
<1>8. PackageHolds'
  BY <1>1, <1>3, <1>2 DEF ActivationInv, PackageHolds, live
<1> QED BY <1>5, <1>6, <1>7, <1>8, StepKeeps

\* A step that moves an operation and nothing that is live.
LEMMA QuietStep ==
    ASSUME ActivationInv, NEW m \in Modules, op[m].pc # "idle",
           op' \in [Modules -> Operations], \A n \in Modules \ {m} : op'[n] = op[n],
           op'[m] = Idle \/ (op'[m].pc # "idle" /\ op'[m].id = op[m].id),
           PcHolds(m)', RowHolds(m)', op'[m].pc # "publish",
           UNCHANGED <<durable, live, pkg, proc, todo, used>>,
           loose' \subseteq Modules, lock' \subseteq Modules, faults' \in Nat,
           pkg.st \in {"none", "capture"} => loose' = {}
    PROVE  ActivationInv'
<1>1. Typed /\ Holds(m)
  BY TypeFacts
<1>2. Typed'
  BY <1>1 DEF Typed, DurableTyped, LiveTyped, HostTyped, durable, live
<1>3. StepOf(m)
  BY DEF StepOf, durable, live
<1>4. Holds(m)'
  <2>1. op'[m].id \in {0, op[m].id}
    BY DEF Idle
  <2> QED BY <2>1, QuietHolds DEF durable, live
<1>5. PackageHolds'
  <2>1. runs' \subseteq Modules /\ UNCHANGED <<reg, lc, inst, runs, gate>>
    BY <1>1 DEF live, Typed, LiveTyped
  <2>2. m \in runs' => inst'[m].has /\ ~inst'[m].done
    BY <2>1 DEF ActivationInv, PackageHolds
  <2> QED BY <1>3, <2>1, <2>2, PackageKept
<1> QED BY <1>2, <1>3, <1>4, <1>5, StepKeeps

LEMMA BuildJoinedKeeps == ASSUME ActivationInv, NEW m \in Modules, BuildJoined(m) PROVE ActivationInv'
<1>1. /\ Typed /\ Holds(m) /\ op[m] \in Operations /\ pkg \in Packages /\ op[m].pc \in {"built", "unbuilt"}
      /\ UNCHANGED <<durable, live, pkg, loose, lock, proc, todo, used, faults>>
  BY TypeFacts DEF BuildJoined
<1>2. op[m].id # 0 /\ op[m].on /\ proc \notin {"down", "closed"} /\ op[m].pc \in EnablePcs
  BY <1>1 DEF Holds, PcHolds, EnablePcs
<1>4. /\ op' \in [Modules -> Operations] /\ \A n \in Modules \ {m} : op'[n] = op[n]
      /\ op'[m] = Idle \/ (op'[m].pc # "idle" /\ op'[m].id = op[m].id)
      /\ PcHolds(m)' /\ RowHolds(m)' /\ op'[m].pc # "publish"
  <2>2. CASE Refused(m)
    BY <1>1, <1>2, <2>2, RefusedFields DEF durable
  <2>3. CASE op[m].pc = "built" /\ op' = [op EXCEPT ![m].exp = Rebased(m), ![m].pc = "repair"]
    <3>1. Rebased(m) \in Nat
      BY <1>1 DEF Rebased, Operations, Packages
    <3> DEFINE r == [op[m] EXCEPT !.exp = Rebased(m), !.pc = "repair"]
    <3>2. /\ r \in Operations /\ r.pc = "repair" /\ r.id = op[m].id /\ r.on = op[m].on
          /\ r.prep = op[m].prep /\ r.lin = op[m].lin
      BY <1>1, <3>1 DEF Operations, OpPcs, EnablePcs
    <3>3. op' = [op EXCEPT ![m] = r]
      BY <2>3
    <3> HIDE DEF r
    <3>4. op' \in [Modules -> Operations] /\ op'[m] = r /\ \A n \in Modules \ {m} : op'[n] = op[n]
      BY <1>1, <3>2, <3>3, OpSet
    <3>5. UNCHANGED <<intent, journal, used, proc, pkg>> /\ pkg.st = "built"
      BY <1>1, <2>3 DEF durable, Holds, PcHolds, BuiltPcs
    <3>6. PcHolds(m)' /\ RowHolds(m)'
      BY <1>2, <2>3, <3>2, <3>4, <3>5, MovesOn DEF OpPcs, EnablePcs, DisablePcs, OwnPcs, BuiltPcs, ShutPcs, RunPcs,
         EarlyPcs, RowPcs
    <3> QED BY <1>2, <3>2, <3>4, <3>6
  <2> QED BY <1>1, <2>2, <2>3 DEF BuildJoined
<1> QED BY <1>1, <1>4, QuietStep DEF Typed, HostTyped, ActivationInv, PackageHolds

LEMMA FaultCounts == Typed /\ (Fault \/ UNCHANGED faults) => faults' \in Nat
BY DEF Typed, HostTyped, Fault

LEMMA RepairModuleKeeps == ASSUME ActivationInv, NEW m \in Modules, RepairModule(m) PROVE ActivationInv'
<1>1. /\ Typed /\ Holds(m) /\ op[m] \in Operations /\ op[m].pc = "repair"
      /\ UNCHANGED <<durable, live, pkg, lock, proc, todo, used>> /\ faults' \in Nat
  BY TypeFacts, FaultCounts DEF RepairModule
<1>2. /\ op[m].id # 0 /\ op[m].on /\ proc \notin {"down", "closed"} /\ op[m].pc \in EnablePcs
      /\ pkg.st = "built"
  BY <1>1 DEF Holds, PcHolds, EnablePcs, BuiltPcs
<1>3. loose' \subseteq Modules
  BY <1>1 DEF RepairModule, Discarded, Typed, HostTyped
<1>4. ASSUME NEW pc \in {"prepare", "install"}, Step(m, pc), pc = "install" => ~inst[m].has
      PROVE  /\ op' \in [Modules -> Operations] /\ \A n \in Modules \ {m} : op'[n] = op[n]
             /\ op'[m].pc # "idle" /\ op'[m].id = op[m].id
             /\ PcHolds(m)' /\ RowHolds(m)' /\ op'[m].pc # "publish"
  <2>1. pc \in OpPcs
    BY <1>4 DEF OpPcs, EnablePcs
  <2>2. /\ op' \in [Modules -> Operations]
        /\ op'[m].pc = pc /\ op'[m].id = op[m].id /\ op'[m].on = op[m].on
        /\ op'[m].prep = op[m].prep /\ op'[m].lin = op[m].lin
        /\ \A n \in Modules \ {m} : op'[n] = op[n]
    BY <1>1, <1>4, <2>1, StepFields
  <2> QED
    BY <1>1, <1>2, <1>4, <2>2 DEF durable, live, Holds, PcHolds, RowHolds, EnablePcs, DisablePcs, OwnPcs, BuiltPcs,
       ShutPcs, RunPcs, RowPcs, EarlyPcs
<1>5. CASE Refused(m)
  <2>1. /\ op' \in [Modules -> Operations] /\ \A n \in Modules \ {m} : op'[n] = op[n]
        /\ op'[m] = Idle \/ (op'[m].pc = "abort" /\ op'[m].id = op[m].id)
        /\ PcHolds(m)' /\ RowHolds(m)' /\ op'[m].pc # "publish"
    BY <1>1, <1>2, <1>5, RefusedFields DEF durable
  <2> QED BY <1>1, <1>2, <1>3, <2>1, QuietStep DEF Typed, HostTyped
<1>6. CASE Step(m, "prepare") \/ (Step(m, "install") /\ ~inst[m].has)
  BY <1>1, <1>2, <1>3, <1>4, <1>6, QuietStep DEF Typed, HostTyped
<1> QED BY <1>5, <1>6 DEF RepairModule

\* The state a new instance of a registered module has.
LEMMA DormantTyped ==
    ASSUME ActivationInv, NEW m \in Modules
    PROVE  Dormant(m) \in LifecycleStates /\ Dormant(m).st \in {"discovered", "stopped"} /\ ~Dormant(m).pend
BY Constants DEF Dormant, LifecycleStates

LEMMA RepairInstallKeeps == ASSUME ActivationInv, NEW m \in Modules, RepairInstall(m) PROVE ActivationInv'
<1>1. /\ Typed /\ Holds(m) /\ op[m] \in Operations /\ op[m].pc = "install"
      /\ UNCHANGED <<durable, epochs, runs, gate, pkg, lock, proc, todo, used>> /\ faults' \in Nat
  BY TypeFacts, FaultCounts DEF RepairInstall
<1>2. /\ op[m].id # 0 /\ op[m].on /\ proc \notin {"down", "closed"} /\ op[m].pc \in EnablePcs
      /\ pkg.st = "built"
  BY <1>1 DEF Holds, PcHolds, EnablePcs, BuiltPcs
<1>3. loose' \subseteq Modules
  BY <1>1 DEF RepairInstall, Discarded, Typed, HostTyped
<1>4. CASE Allowed(m) /\ reg.rev = op[m].exp
  <2> DEFINE r == [op[m] EXCEPT !.exp = reg.rev + 1, !.pc = "prepare"]
  <2>1. /\ r \in Operations /\ r.pc = "prepare" /\ r.id = op[m].id /\ r.on = op[m].on
        /\ r.prep = op[m].prep /\ r.lin = op[m].lin
    <3>1. reg.rev + 1 \in Nat
      BY TypeFacts
    <3> QED BY <1>1, <3>1 DEF Operations, OpPcs, EnablePcs
  <2>2. /\ op' = [op EXCEPT ![m] = r] /\ lc' = [lc EXCEPT ![m] = Dormant(m)]
        /\ inst' = [inst EXCEPT ![m] = NewInstance] /\ reg' = [reg EXCEPT !.rev = @ + 1]
    BY <1>1, <1>4 DEF RepairInstall
  <2> HIDE DEF r
  <2>3. op' \in [Modules -> Operations] /\ op'[m] = r /\ \A n \in Modules \ {m} : op'[n] = op[n]
    BY <1>1, <2>1, <2>2, OpSet
  <2>4. /\ lc' \in [Modules -> LifecycleStates] /\ \A n \in Modules \ {m} : lc'[n] = lc[n]
        /\ inst' \in [Modules -> Instances] /\ \A n \in Modules \ {m} : inst'[n] = inst[n]
        /\ inst'[m] = NewInstance
    BY <2>2, TypeFacts, DormantTyped, RecordsTyped
  <2>5. /\ reg' \in Registries /\ reg'.on = reg.on /\ reg'.ep = reg.ep /\ reg'.in = reg.in
    BY <2>2, TypeFacts DEF Registries
  <2>6. m \notin runs /\ gate[m] = 0
    BY <1>1 DEF Holds, PcHolds, GateHolds, ActivationInv, PackageHolds
  <2>7. PcHolds(m)' /\ RowHolds(m)'
    BY <1>1, <1>2, <2>1, <2>3, MovesOn DEF durable, OpPcs, EnablePcs, DisablePcs, OwnPcs, BuiltPcs, ShutPcs, RunPcs,
       EarlyPcs, RowPcs
  <2>8. Holds(m)'
    BY <1>1, <2>1, <2>3, <2>6, <2>7, Constants DEF Holds, IntentHolds, GateHolds, JournalHolds, durable
  <2>9. Typed'
    BY <1>1, <1>3, <2>3, <2>4, <2>5 DEF Typed, DurableTyped, LiveTyped, HostTyped, durable
  <2>10. StepOf(m)
    BY <1>1, <2>1, <2>3, <2>4, <2>5 DEF StepOf, durable
  <2>11. PackageHolds'
    BY <1>1, <1>2, <2>6, <2>10, PackageKept, TypeFacts
  <2> QED BY <2>8, <2>9, <2>10, <2>11, StepKeeps
<1>5. CASE ~(Allowed(m) /\ reg.rev = op[m].exp)
  <2>1. /\ op' \in [Modules -> Operations] /\ \A n \in Modules \ {m} : op'[n] = op[n]
        /\ op'[m] = Idle \/ (op'[m].pc = "abort" /\ op'[m].id = op[m].id)
        /\ PcHolds(m)' /\ RowHolds(m)' /\ op'[m].pc # "publish"
    BY <1>1, <1>2, <1>5, RefusedFields DEF durable, RepairInstall
  <2>2. UNCHANGED <<durable, live, pkg, proc, todo, used>> /\ lock' \subseteq Modules /\ op[m].pc # "idle"
    BY <1>1, <1>5 DEF RepairInstall, Typed, HostTyped, live
  <2> QED BY <1>1, <1>2, <1>3, <2>1, <2>2, QuietStep DEF Typed, HostTyped
<1> QED BY <1>4, <1>5

\* The row of an operation as prepare writes it.
LEMMA PreparedRow ==
    ASSUME ActivationInv, NEW m \in Modules, NEW on \in BOOLEAN, op[m].id \in OpIds,
           op[m].pc \in {"prepare", "quiesce"}, journal' = Prepared(m, on), UNCHANGED intent
    PROVE  /\ journal' \in [OpIds -> JournalRows]
           /\ journal'[op[m].id].ph = "prepared" /\ journal'[op[m].id].of = m
           /\ journal'[op[m].id].new = on
           /\ \A o \in OpIds : o # op[m].id => journal'[o] = journal[o]
           /\ intent[m].by # op[m].id
<1>1. /\ op[m] \in Operations /\ intent[m] \in IntentRows /\ journal \in [OpIds -> JournalRows] /\ Holds(m)
  BY TypeFacts
<1>2. [ph |-> "prepared", of |-> m, old |-> intent[m].on, new |-> on,
       rev |-> intent[m].rev, gen |-> op[m].gen] \in JournalRows
  BY <1>1 DEF JournalRows, Operations, IntentRows, Phases
<1> QED BY <1>1, <1>2 DEF Prepared, Holds, RowHolds, EarlyPcs

LEMMA PrepareEnableKeeps == ASSUME ActivationInv, NEW m \in Modules, PrepareEnable(m) PROVE ActivationInv'
<1>1. /\ Typed /\ Holds(m) /\ op[m] \in Operations /\ op[m].pc = "prepare"
      /\ UNCHANGED <<intent, gen, live, pkg, loose, lock, proc, todo, used, faults>>
  BY TypeFacts DEF PrepareEnable
<1>2. /\ op[m].id # 0 /\ op[m].on /\ proc \notin {"down", "closed"} /\ op[m].pc \in EnablePcs
      /\ pkg.st = "built"
  BY <1>1 DEF Holds, PcHolds, EnablePcs, BuiltPcs
<1>3. CASE Refused(m) /\ UNCHANGED journal
  <2>1. /\ op' \in [Modules -> Operations] /\ \A n \in Modules \ {m} : op'[n] = op[n]
        /\ op'[m] = Idle \/ (op'[m].pc = "abort" /\ op'[m].id = op[m].id)
        /\ PcHolds(m)' /\ RowHolds(m)' /\ op'[m].pc # "publish"
    BY <1>1, <1>2, <1>3, RefusedFields
  <2> QED BY <1>1, <1>2, <1>3, <2>1, QuietStep DEF Typed, HostTyped, durable
<1>4. CASE /\ op' = [op EXCEPT ![m].pc = "start", ![m].prep = ~IsRestore(m)]
           /\ journal' = IF IsRestore(m) THEN journal ELSE Prepared(m, TRUE)
  <2> DEFINE r == [op[m] EXCEPT !.pc = "start", !.prep = ~IsRestore(m)]
  <2>1. /\ r \in Operations /\ r.pc = "start" /\ r.id = op[m].id /\ r.on = op[m].on
        /\ (r.prep <=> op[m].id # Restore) /\ r.lin = op[m].lin
    BY <1>1 DEF Operations, OpPcs, EnablePcs, IsRestore
  <2>2. op' = [op EXCEPT ![m] = r]
    BY <1>4
  <2> HIDE DEF r
  <2>3. op' \in [Modules -> Operations] /\ op'[m] = r /\ \A n \in Modules \ {m} : op'[n] = op[n]
    BY <1>1, <2>1, <2>2, OpSet
  <2>4. PcHolds(m)'
    BY <1>1, <1>2, <2>1, <2>3 DEF Holds, PcHolds, EnablePcs, DisablePcs, OwnPcs, BuiltPcs, ShutPcs, RunPcs
  <2>5. CASE op[m].id = Restore
    <3>1. journal' = journal
      BY <1>4, <2>5 DEF IsRestore
    <3>2. RowHolds(m)'
      BY <2>1, <2>3, <2>5, Constants DEF RowHolds
    <3> QED
      BY <1>1, <1>2, <2>1, <2>3, <2>4, <3>1, <3>2, QuietStep DEF Typed, HostTyped, durable, ActivationInv, PackageHolds
  <2>6. CASE op[m].id \in OpIds
    <3>1. /\ journal' \in [OpIds -> JournalRows]
          /\ journal'[op[m].id].ph = "prepared" /\ journal'[op[m].id].of = m
          /\ journal'[op[m].id].new = TRUE
          /\ \A o \in OpIds : o # op[m].id => journal'[o] = journal[o]
          /\ intent[m].by # op[m].id
      BY <1>1, <1>4, <2>6, PreparedRow, Constants DEF IsRestore
    <3>2. RowHolds(m)'
      BY ZenonT(30), <1>1, <1>2, <2>1, <2>3, <2>6, <3>1, Constants DEF Holds, RowHolds, EarlyPcs, RowPcs
    <3>3. Holds(m)'
      BY <1>1, <2>1, <2>3, <2>4, <2>6, <3>1, <3>2, TypeFacts, Constants DEF Holds, IntentHolds, GateHolds, JournalHolds,
         live, IntentRows
    <3>4. Typed'
      BY <1>1, <2>3, <3>1 DEF Typed, DurableTyped, LiveTyped, HostTyped, live
    <3>5. StepOf(m)
      BY <1>1, <2>1, <2>3, <3>1 DEF StepOf, live
    <3>6. PackageHolds'
      BY <1>1 DEF ActivationInv, PackageHolds, live
    <3> QED BY <3>3, <3>4, <3>5, <3>6, StepKeeps
  <2> QED BY <1>1, <1>2, <2>5, <2>6, Constants DEF Operations
<1> QED BY <1>3, <1>4 DEF PrepareEnable

LEMMA StartAnswersKeeps == ASSUME ActivationInv, NEW m \in Modules, StartAnswers(m) PROVE ActivationInv'
<1>1. /\ Typed /\ Holds(m) /\ op[m].pc = "starting" /\ Step(m, "commit") /\ "commit" \in OpPcs
      /\ UNCHANGED <<durable, live, pkg, loose, lock, proc, todo, used, faults>>
  BY TypeFacts DEF StartAnswers, OpPcs, EnablePcs
<1>2. /\ op' \in [Modules -> Operations]
      /\ op'[m].pc = "commit" /\ op'[m].id = op[m].id /\ op'[m].on = op[m].on
      /\ op'[m].prep = op[m].prep /\ op'[m].lin = op[m].lin
      /\ \A n \in Modules \ {m} : op'[n] = op[n]
  BY <1>1, StepFields
<1>3. /\ op[m].on /\ gate[m] = 0 /\ m \in runs /\ pkg.st = "built"
  BY <1>1 DEF Holds, PcHolds, EnablePcs, ShutPcs, RunPcs, BuiltPcs
<1>4. PcHolds(m)' /\ RowHolds(m)'
  BY <1>1, <1>2, <1>3, MovesOn DEF durable, live, OpPcs, EnablePcs, DisablePcs, OwnPcs, BuiltPcs, ShutPcs,
     RunPcs, EarlyPcs, RowPcs
<1> QED BY <1>1, <1>2, <1>3, <1>4, QuietStep DEF Typed, HostTyped

LEMMA StartCandidateKeeps == ASSUME ActivationInv, NEW m \in Modules, StartCandidate(m) PROVE ActivationInv'
<1>1. /\ Typed /\ Holds(m) /\ op[m] \in Operations /\ op[m].pc = "start"
      /\ UNCHANGED <<durable, reg, gate, pkg, loose, lock, proc, todo, used, faults>>
  BY TypeFacts DEF StartCandidate
<1>2. /\ op[m].id # 0 /\ op[m].on /\ proc \notin {"down", "closed"} /\ op[m].pc \in EnablePcs
      /\ pkg.st = "built"
  BY <1>1 DEF Holds, PcHolds, EnablePcs, BuiltPcs
<1>3. ASSUME NEW pc \in {"starting", "abort"}, Step(m, pc), pc = "starting" => gate[m] = 0 /\ m \in runs'
      PROVE  /\ op' \in [Modules -> Operations] /\ \A n \in Modules \ {m} : op'[n] = op[n]
             /\ op'[m].pc = pc /\ op'[m].id = op[m].id
             /\ PcHolds(m)' /\ RowHolds(m)'
  <2>1. pc \in OpPcs
    BY <1>3 DEF OpPcs, EnablePcs
  <2>2. /\ op' \in [Modules -> Operations]
        /\ op'[m].pc = pc /\ op'[m].id = op[m].id /\ op'[m].on = op[m].on
        /\ op'[m].prep = op[m].prep /\ op'[m].lin = op[m].lin
        /\ \A n \in Modules \ {m} : op'[n] = op[n]
    BY <1>1, <1>3, <2>1, StepFields
  <2> QED
    BY <1>1, <1>2, <1>3, <2>1, <2>2, MovesOn DEF durable, EnablePcs, DisablePcs, OwnPcs, BuiltPcs,
       ShutPcs, RunPcs, RowPcs, EarlyPcs
<1>4. CASE ~MayStart(m)
  <2>1. Step(m, "abort") /\ UNCHANGED <<epochs, lc, inst, runs>>
    BY <1>4 DEF StartCandidate
  <2> QED BY <1>1, <1>2, <1>3, <2>1, QuietStep DEF Typed, HostTyped, live
<1>5. CASE MayStart(m)
  <2> DEFINE epoch == Max2(epochs[m], reg.ep[m]) + 1
             rec == [st |-> "starting", id |-> epoch, owner |-> op[m].id, pend |-> FALSE]
             new == [inst[m] EXCEPT !.att = TRUE, !.done = FALSE]
  <2>1. epoch \in Nat
    BY TypeFacts DEF Max2
  <2>2. /\ epochs' = [epochs EXCEPT ![m] = epoch] /\ lc' = [lc EXCEPT ![m] = rec]
        /\ inst' = [inst EXCEPT ![m] = new] /\ runs' = runs \cup {m} /\ Step(m, "starting")
    BY <1>5 DEF StartCandidate
  <2> HIDE DEF epoch
  <2>3. rec \in LifecycleStates
    BY <1>1, <2>1 DEF LifecycleStates, Operations
  <2>4. new \in Instances /\ new.has /\ ~new.done
    BY <1>5, TypeFacts DEF Instances, MayStart
  <2> HIDE DEF rec, new
  <2>5. gate[m] = 0
    BY <1>1, <1>5 DEF Holds, GateHolds, MayStart
  <2>6. /\ op' \in [Modules -> Operations] /\ \A n \in Modules \ {m} : op'[n] = op[n]
        /\ op'[m].pc = "starting" /\ op'[m].id = op[m].id
        /\ PcHolds(m)' /\ RowHolds(m)'
    BY <1>3, <2>2, <2>5
  <2>7. Holds(m)'
    BY <1>1, <2>5, <2>6, Constants DEF Holds, IntentHolds, GateHolds, JournalHolds, durable
  <2>8. /\ lc' \in [Modules -> LifecycleStates] /\ \A n \in Modules \ {m} : lc'[n] = lc[n]
        /\ inst' \in [Modules -> Instances] /\ \A n \in Modules \ {m} : inst'[n] = inst[n]
        /\ inst'[m] = new /\ epochs' \in [Modules -> Nat] /\ runs' \subseteq Modules
    BY <2>1, <2>2, <2>3, <2>4, TypeFacts
  <2>9. Typed'
    BY <1>1, <2>6, <2>8 DEF Typed, DurableTyped, LiveTyped, HostTyped, durable
  <2>10. StepOf(m)
    BY <1>1, <2>2, <2>6, <2>8 DEF StepOf, durable
  <2>11. PackageHolds'
    BY <1>1, <1>2, <2>4, <2>8, <2>10, PackageKept
  <2> QED BY <2>7, <2>9, <2>10, <2>11, StepKeeps
<1> QED BY <1>4, <1>5

\* What a mark does to the journal.
LEMMA MarkedRow ==
    ASSUME journal \in [OpIds -> JournalRows], NEW o \in OpIds, NEW phase \in Phases,
           journal' = Marked(journal, o, phase)
    PROVE  /\ journal' \in [OpIds -> JournalRows]
           /\ \A k \in OpIds : k # o => journal'[k] = journal[k]
           /\ journal'[o].of = journal[o].of /\ journal'[o].new = journal[o].new
           /\ journal'[o].old = journal[o].old
           /\ \/ journal'[o] = journal[o]
              \/ journal'[o].ph = phase /\ journal[o].ph = "prepared" /\ phase \in {"compensated", "recovery"}
              \/ journal'[o].ph = phase /\ journal[o].ph = "committed" /\ phase \in {"applied", "recovery"}
              \/ journal'[o].ph = phase /\ journal[o].ph = "recovery" /\ phase \in {"applied", "compensated"}
<1>1. journal[o] \in JournalRows
  OBVIOUS
<1>2. [journal[o] EXCEPT !.ph = phase] \in JournalRows
  BY <1>1 DEF JournalRows
<1>3. CASE journal' = journal
  BY <1>3
<1>4. CASE /\ \/ journal[o].ph = "prepared" /\ phase \in {"compensated", "recovery"}
              \/ journal[o].ph = "committed" /\ phase \in {"applied", "recovery"}
              \/ journal[o].ph = "recovery" /\ phase \in {"applied", "compensated"}
           /\ journal' = [journal EXCEPT ![o].ph = phase]
  <2>1. journal' = [journal EXCEPT ![o] = [journal[o] EXCEPT !.ph = phase]]
    BY <1>4
  <2>2. /\ journal' \in [OpIds -> JournalRows] /\ journal'[o] = [journal[o] EXCEPT !.ph = phase]
        /\ \A k \in OpIds : k # o => journal'[k] = journal[k]
    BY <1>2, <2>1
  <2>3. journal'[o].ph = phase /\ journal'[o].of = journal[o].of /\ journal'[o].new = journal[o].new
        /\ journal'[o].old = journal[o].old
    BY <1>1, <2>2 DEF JournalRows
  <2> QED BY <1>4, <2>2, <2>3
<1> QED BY <1>3, <1>4 DEF Marked

\* A step of an operation on a built package, whatever it moves.
LEMMA LiveStep ==
    ASSUME ActivationInv, NEW m \in Modules, op[m].pc # "idle", pkg.st = "built", pkg' = pkg,
           op' \in [Modules -> Operations], \A n \in Modules \ {m} : op'[n] = op[n],
           op'[m] = Idle \/ (op'[m].pc # "idle" /\ op'[m].id = op[m].id),
           intent' \in [Modules -> IntentRows], \A n \in Modules \ {m} : intent'[n] = intent[n],
           intent'[m].by \in {intent[m].by, op[m].id},
           journal' \in [OpIds -> JournalRows],
           \A o \in OpIds :
              \/ journal'[o] = journal[o]
              \/ o = op[m].id /\ (op[m].prep \/ op[m].pc \in {"prepare", "quiesce"})
              \/ /\ o = intent[m].by
                 /\ journal'[o].of = journal[o].of /\ journal'[o].new = journal[o].new,
           reg' \in Registries, reg'.in = reg.in,
           \A n \in Modules \ {m} : reg'.on[n] = reg.on[n] /\ reg'.ep[n] = reg.ep[n],
           epochs' \in [Modules -> Nat],
           lc' \in [Modules -> LifecycleStates], \A n \in Modules \ {m} : lc'[n] = lc[n],
           inst' \in [Modules -> Instances], \A n \in Modules \ {m} : inst'[n] = inst[n],
           gate' \in [Modules -> Nat], \A n \in Modules \ {m} : gate'[n] = gate[n],
           runs' \in {runs, runs \cup {m}, runs \ {m}},
           m \in runs' => inst'[m].has /\ ~inst'[m].done,
           UNCHANGED <<gen, loose, proc, todo, used>>, lock' \subseteq Modules, faults' \in Nat,
           Holds(m)'
    PROVE  ActivationInv'
<1>1. runs \subseteq Modules /\ runs' \subseteq Modules /\ Typed
  BY TypeFacts
<1>2. \A n \in Modules \ {m} : n \in runs <=> n \in runs'
  OBVIOUS
<1>3. Typed'
  BY <1>1 DEF Typed, DurableTyped, LiveTyped, HostTyped
<1>4. StepOf(m)
  BY <1>2 DEF StepOf
<1>5. PackageHolds'
  BY <1>1, <1>4, PackageKept
<1> QED BY <1>3, <1>4, <1>5, StepKeeps

LEMMA StartRaisesKeeps == ASSUME ActivationInv, NEW m \in Modules, StartRaises(m) PROVE ActivationInv'
<1>1. /\ Typed /\ Holds(m) /\ op[m].pc = "starting" /\ Step(m, "abort") /\ "abort" \in OpPcs
      /\ UNCHANGED <<durable, reg, epochs, pkg, loose, lock, proc, todo, used>>
      /\ gate' = [gate EXCEPT ![m] = 0] /\ faults' \in Nat
  BY TypeFacts, FaultCounts DEF StartRaises, OpPcs, EnablePcs
<1>2. /\ op' \in [Modules -> Operations]
      /\ op'[m].pc = "abort" /\ op'[m].id = op[m].id /\ op'[m].on = op[m].on
      /\ op'[m].prep = op[m].prep /\ op'[m].lin = op[m].lin
      /\ \A n \in Modules \ {m} : op'[n] = op[n]
  BY <1>1, StepFields
<1>3. /\ op[m].on /\ m \in runs /\ pkg.st = "built"
  BY <1>1 DEF Holds, PcHolds, EnablePcs, ShutPcs, RunPcs, BuiltPcs
<1>4. PcHolds(m)' /\ RowHolds(m)'
  BY <1>1, <1>2, <1>3, MovesOn DEF durable, live, OpPcs, EnablePcs, DisablePcs, OwnPcs, BuiltPcs, ShutPcs,
     RunPcs, EarlyPcs, RowPcs
<1>5. gate' \in [Modules -> Nat] /\ gate'[m] = 0 /\ \A n \in Modules \ {m} : gate'[n] = gate[n]
  BY <1>1, TypeFacts
<1>6. Holds(m)'
  BY <1>1, <1>2, <1>4, <1>5 DEF Holds, IntentHolds, GateHolds, JournalHolds, durable
<1>7. /\ lc' \in [Modules -> LifecycleStates] /\ \A n \in Modules \ {m} : lc'[n] = lc[n]
  <2>1. \A p \in BOOLEAN : [lc[m] EXCEPT !.st = "failed", !.pend = p] \in LifecycleStates
    BY TypeFacts DEF LifecycleStates
  <2>2. [lc[m] EXCEPT !.st = "failed"] \in LifecycleStates
    BY TypeFacts DEF LifecycleStates
  <2>3. \/ lc' = [lc EXCEPT ![m] = [lc[m] EXCEPT !.st = "failed"]]
        \/ lc' = [lc EXCEPT ![m] = [lc[m] EXCEPT !.st = "failed", !.pend = TRUE]]
    BY TypeFacts DEF StartRaises
  <2> QED BY <2>1, <2>2, <2>3, TypeFacts
<1>8. /\ inst' \in [Modules -> Instances] /\ \A n \in Modules \ {m} : inst'[n] = inst[n]
      /\ runs' \in {runs, runs \ {m}} /\ (m \in runs' => inst'[m].has /\ ~inst'[m].done)
  <2>1. [inst[m] EXCEPT !.att = FALSE, !.done = TRUE] \in Instances
    BY TypeFacts DEF Instances
  <2>2. \A n \in runs : inst[n].has /\ ~inst[n].done
    BY DEF ActivationInv, PackageHolds
  <2> QED BY <2>1, <2>2, TypeFacts DEF StartRaises
<1> QED
  BY <1>1, <1>2, <1>3, <1>5, <1>6, <1>7, <1>8, LiveStep, TypeFacts DEF durable, Typed, HostTyped

LEMMA CommitCheckedKeeps == ASSUME ActivationInv, NEW m \in Modules, CommitChecked(m) PROVE ActivationInv'
<1>1. /\ Typed /\ Holds(m) /\ op[m] \in Operations /\ op[m].pc = "commit" /\ op[m].id # Restore
      /\ UNCHANGED <<durable, live, pkg, loose, proc, todo, used>> /\ faults' \in Nat
      /\ lock' \subseteq Modules
  BY TypeFacts, FaultCounts DEF CommitChecked, IsRestore, Typed, HostTyped
<1>2. /\ op[m].on /\ gate[m] = 0 /\ m \in runs /\ pkg.st = "built" /\ op[m].id # 0 /\ proc \notin {"down", "closed"}
  BY <1>1 DEF Holds, PcHolds, EnablePcs, ShutPcs, RunPcs, BuiltPcs
<1>3. op[m].id \in OpIds
  BY <1>1, <1>2, Constants DEF Operations
<1>4. CASE Step(m, "abort")
  <2>1. /\ op' \in [Modules -> Operations]
        /\ op'[m].pc = "abort" /\ op'[m].id = op[m].id /\ op'[m].on = op[m].on
        /\ op'[m].prep = op[m].prep /\ op'[m].lin = op[m].lin
        /\ \A n \in Modules \ {m} : op'[n] = op[n]
    BY <1>1, <1>4, StepFields DEF OpPcs, EnablePcs
  <2>2. PcHolds(m)' /\ RowHolds(m)'
    BY <1>1, <1>2, <2>1, MovesOn DEF durable, live, OpPcs, EnablePcs, DisablePcs, OwnPcs, BuiltPcs, ShutPcs,
       RunPcs, EarlyPcs, RowPcs
  <2> QED BY <1>1, <1>2, <2>1, <2>2, QuietStep DEF Typed, HostTyped
<1>5. CASE op' = [op EXCEPT ![m].pc = "committing", ![m].lin = TRUE]
  <2> DEFINE r == [op[m] EXCEPT !.pc = "committing", !.lin = TRUE]
  <2>1. /\ r \in Operations /\ r.pc = "committing" /\ r.id = op[m].id /\ r.on = op[m].on
        /\ r.prep = op[m].prep /\ r.lin
    BY <1>1 DEF Operations, OpPcs, EnablePcs
  <2>2. op' = [op EXCEPT ![m] = r]
    BY <1>5
  <2> HIDE DEF r
  <2>3. op' \in [Modules -> Operations] /\ op'[m] = r /\ \A n \in Modules \ {m} : op'[n] = op[n]
    BY <1>1, <2>1, <2>2, OpSet
  <2>4. PcHolds(m)'
    BY <1>1, <1>2, <1>3, <2>1, <2>3 DEF PcHolds, EnablePcs, DisablePcs, OwnPcs, BuiltPcs, ShutPcs, RunPcs, live
  <2>5. RowHolds(m)'
    BY <1>1, <2>1, <2>3 DEF Holds, RowHolds, EarlyPcs, RowPcs, durable
  <2> QED BY <1>1, <1>2, <2>1, <2>3, <2>4, <2>5, QuietStep DEF Typed, HostTyped
<1> QED BY <1>4, <1>5 DEF CommitChecked

\* What a commit leaves: the intent is the operation's, its row is committed.
LEMMA CommittedRow ==
    ASSUME ActivationInv, NEW m \in Modules, op[m].pc \in {"committing", "off"}, op[m].id \in OpIds,
           CommitIntent(m)
    PROVE  /\ intent' \in [Modules -> IntentRows] /\ \A n \in Modules \ {m} : intent'[n] = intent[n]
           /\ intent'[m].by = op[m].id /\ intent'[m].on = op[m].on
           /\ journal' \in [OpIds -> JournalRows]
           /\ \A o \in OpIds : o # op[m].id => journal'[o] = journal[o]
           /\ journal'[op[m].id].ph = "committed" /\ journal'[op[m].id].of = m
           /\ journal'[op[m].id].new = op[m].on
           /\ op[m].prep
<1> DEFINE o == op[m].id
           i == [on |-> journal[o].new, rev |-> intent[m].rev + 1, by |-> o]
           r == [journal[o] EXCEPT !.ph = "committed"]
<1>1. /\ intent \in [Modules -> IntentRows] /\ journal \in [OpIds -> JournalRows] /\ Holds(m)
      /\ op[m] \in Operations
  BY TypeFacts
<1>2. intent' = [intent EXCEPT ![m] = i] /\ journal' = [journal EXCEPT ![o] = r]
  BY <1>1 DEF CommitIntent
<1>3. op[m].prep /\ journal[o].of = m /\ journal[o].new = op[m].on
  BY <1>1 DEF Holds, RowHolds, RowPcs
<1>4. i \in IntentRows
  <2>0. journal[o] \in JournalRows /\ intent[m] \in IntentRows
    BY <1>1
  <2>2. o \in 0..MaxOps
    BY Constants
  <2>1. o \in 0..MaxOps /\ journal[o].new \in BOOLEAN /\ intent[m].rev + 1 \in Nat
    BY <2>0, <2>2 DEF IntentRows, JournalRows
  <2> QED BY <2>1 DEF IntentRows
<1>5. r \in JournalRows /\ r.ph = "committed" /\ r.of = journal[o].of /\ r.new = journal[o].new
  BY <1>1 DEF JournalRows, Phases
<1> HIDE DEF r
<1> QED BY <1>1, <1>2, <1>3, <1>4, <1>5

LEMMA CommitEnableKeeps == ASSUME ActivationInv, NEW m \in Modules, CommitEnable(m) PROVE ActivationInv'
<1>1. /\ Typed /\ Holds(m) /\ op[m] \in Operations /\ op[m].pc = "committing"
      /\ UNCHANGED <<gen, live, pkg, loose, proc, todo, used>> /\ faults' \in Nat /\ lock' \subseteq Modules
  BY TypeFacts, FaultCounts DEF CommitEnable, Typed, HostTyped
<1>2. /\ op[m].on /\ gate[m] = 0 /\ m \in runs /\ pkg.st = "built" /\ op[m].id \in OpIds /\ op[m].lin
      /\ proc \notin {"down", "closed"}
  BY <1>1 DEF Holds, PcHolds, EnablePcs, ShutPcs, RunPcs, BuiltPcs, OwnPcs
<1>3. CASE Step(m, "abort") /\ UNCHANGED <<intent, journal>>
  <2>1. /\ op' \in [Modules -> Operations]
        /\ op'[m].pc = "abort" /\ op'[m].id = op[m].id /\ op'[m].on = op[m].on
        /\ op'[m].prep = op[m].prep /\ op'[m].lin = op[m].lin
        /\ \A n \in Modules \ {m} : op'[n] = op[n]
    BY <1>1, <1>3, StepFields DEF OpPcs, EnablePcs
  <2>2. PcHolds(m)' /\ RowHolds(m)'
    BY <1>1, <1>2, <1>3, <2>1, MovesOn DEF live, OpPcs, EnablePcs, DisablePcs, OwnPcs, BuiltPcs, ShutPcs,
       RunPcs, EarlyPcs, RowPcs
  <2> QED BY <1>1, <1>2, <1>3, <2>1, <2>2, QuietStep DEF Typed, HostTyped, durable
<1>4. ASSUME CommitIntent(m), NEW pc \in {"abort", "publish"}, op'[m].pc = pc,
             op' \in [Modules -> Operations], \A n \in Modules \ {m} : op'[n] = op[n],
             op'[m].id = op[m].id, op'[m].on = op[m].on, op'[m].prep = op[m].prep, op'[m].lin = op[m].lin
      PROVE  ActivationInv'
  <2>1. /\ intent' \in [Modules -> IntentRows] /\ \A n \in Modules \ {m} : intent'[n] = intent[n]
        /\ intent'[m].by = op[m].id /\ intent'[m].on = op[m].on
        /\ journal' \in [OpIds -> JournalRows]
        /\ \A o \in OpIds : o # op[m].id => journal'[o] = journal[o]
        /\ journal'[op[m].id].ph = "committed" /\ journal'[op[m].id].of = m
        /\ journal'[op[m].id].new = op[m].on /\ op[m].prep
    BY <1>1, <1>2, <1>4, CommittedRow
  <2>2. PcHolds(m)'
    <3>1. op'[m].pc = "abort" \/ op'[m].pc = "publish"
      BY <1>4
    <3>2. /\ op'[m].on /\ gate'[m] = 0 /\ m \in runs' /\ pkg'.st = "built" /\ op'[m].id \in OpIds /\ op'[m].lin
          /\ proc' \notin {"down", "closed"} /\ op'[m].id # 0
      BY <1>1, <1>2, <1>4, Constants DEF live
    <3> QED BY <3>1, <3>2 DEF PcHolds, EnablePcs, DisablePcs, OwnPcs, BuiltPcs, ShutPcs, RunPcs
  <2>3. RowHolds(m)'
    BY <1>1, <1>2, <1>4, <2>1 DEF Holds, RowHolds, EarlyPcs, RowPcs
  <2>4. IntentHolds(m)'
    BY <1>1, <1>2, <1>4, <2>1, Constants DEF Holds, RowHolds, IntentHolds
  <2>5. GateHolds(m)' /\ JournalHolds(m)'
    BY <1>1, <1>2, <2>1 DEF live, GateHolds, JournalHolds
  <2>6. Holds(m)'
    BY <2>2, <2>3, <2>4, <2>5 DEF Holds
  <2>7. m \in runs' => inst'[m].has /\ ~inst'[m].done
    BY <1>1 DEF live, ActivationInv, PackageHolds
  <2> QED BY <1>1, <1>2, <1>4, <2>1, <2>6, <2>7, LiveStep, TypeFacts DEF live
<1>5. CASE CommitIntent(m) /\ Step(m, "abort")
  <2>1. /\ op' \in [Modules -> Operations]
        /\ op'[m].pc = "abort" /\ op'[m].id = op[m].id /\ op'[m].on = op[m].on
        /\ op'[m].prep = op[m].prep /\ op'[m].lin = op[m].lin
        /\ \A n \in Modules \ {m} : op'[n] = op[n]
    BY <1>1, <1>5, StepFields DEF OpPcs, EnablePcs
  <2> QED BY <1>4, <1>5, <2>1
<1>6. CASE CommitIntent(m) /\ op' = [op EXCEPT ![m].pc = "publish", ![m].com = TRUE]
  <2> DEFINE r == [op[m] EXCEPT !.pc = "publish", !.com = TRUE]
  <2>1. /\ r \in Operations /\ r.pc = "publish" /\ r.id = op[m].id /\ r.on = op[m].on
        /\ r.prep = op[m].prep /\ r.lin = op[m].lin
    BY <1>1 DEF Operations, OpPcs, EnablePcs
  <2>2. op' = [op EXCEPT ![m] = r]
    BY <1>6
  <2> HIDE DEF r
  <2>3. op' \in [Modules -> Operations] /\ op'[m] = r /\ \A n \in Modules \ {m} : op'[n] = op[n]
    BY <1>1, <2>1, <2>2, OpSet
  <2> QED BY <1>4, <1>6, <2>1, <2>3
<1> QED BY <1>3, <1>5, <1>6 DEF CommitEnable

\* What a projection leaves in the registry.
LEMMA ProjectedReg ==
    ASSUME ActivationInv, NEW m \in Modules, NEW on \in BOOLEAN, NEW epoch \in Nat,
           reg' = Projected(m, on, epoch)
    PROVE  /\ reg' \in Registries /\ reg'.in = reg.in /\ reg'.on[m] = on /\ reg'.ep[m] = epoch
           /\ \A n \in Modules \ {m} : reg'.on[n] = reg.on[n] /\ reg'.ep[n] = reg.ep[n]
<1>1. /\ reg \in Registries /\ reg.on \in [Modules -> BOOLEAN] /\ reg.ep \in [Modules -> Nat] /\ reg.rev \in Nat
  BY TypeFacts
<1>2. CASE reg.on[m] = on /\ reg.ep[m] = epoch
  BY <1>1, <1>2 DEF Projected
<1>3. CASE ~(reg.on[m] = on /\ reg.ep[m] = epoch)
  <2> DEFINE ons == [reg.on EXCEPT ![m] = on]
             eps == [reg.ep EXCEPT ![m] = epoch]
  <2>1. /\ ons \in [Modules -> BOOLEAN] /\ ons[m] = on /\ \A n \in Modules \ {m} : ons[n] = reg.on[n]
        /\ eps \in [Modules -> Nat] /\ eps[m] = epoch /\ \A n \in Modules \ {m} : eps[n] = reg.ep[n]
    BY <1>1
  <2>2. reg' = [reg EXCEPT !.rev = @ + 1, !.on = ons, !.ep = eps]
    BY <1>1, <1>3 DEF Projected, Registries
  <2> HIDE DEF ons, eps
  <2>3. reg' \in Registries /\ reg'.in = reg.in /\ reg'.on = ons /\ reg'.ep = eps
    <3>1. reg.in \in {{}, Modules} /\ reg.rev + 1 \in Nat
      BY TypeFacts
    <3>2. reg = [rev |-> reg.rev, in |-> reg.in, on |-> reg.on, ep |-> reg.ep]
      BY <1>1 DEF Registries
    <3>3. reg' = [rev |-> reg.rev + 1, in |-> reg.in, on |-> ons, ep |-> eps]
      BY <2>2, <3>2
    <3> QED BY <2>1, <3>1, <3>3 DEF Registries
  <2> QED BY <2>1, <2>3
<1> QED BY <1>2, <1>3

\* An instance that is published: its gate opens under the epoch it runs in.
LEMMA PublishedHolds ==
    ASSUME ActivationInv, NEW m \in Modules, PublishActive(m), m \in runs, runs' = runs,
           intent[m].on, UNCHANGED <<intent, used>>, lc[m].id \in Nat
    PROVE  /\ GateHolds(m)'
           /\ reg' \in Registries /\ reg'.in = reg.in
           /\ \A n \in Modules \ {m} : reg'.on[n] = reg.on[n] /\ reg'.ep[n] = reg.ep[n]
           /\ lc' \in [Modules -> LifecycleStates] /\ \A n \in Modules \ {m} : lc'[n] = lc[n]
           /\ inst' \in [Modules -> Instances] /\ \A n \in Modules \ {m} : inst'[n] = inst[n]
           /\ gate' \in [Modules -> Nat] /\ \A n \in Modules \ {m} : gate'[n] = gate[n]
           /\ inst'[m].has /\ ~inst'[m].done
<1>1. /\ reg \in Registries /\ lc \in [Modules -> LifecycleStates] /\ inst \in [Modules -> Instances]
      /\ gate \in [Modules -> Nat] /\ lc[m] \in LifecycleStates /\ inst[m] \in Instances
      /\ reg.on \in [Modules -> BOOLEAN] /\ reg.ep \in [Modules -> Nat] /\ reg.rev \in Nat
  BY TypeFacts
<1>2. /\ reg' \in Registries /\ reg'.in = reg.in /\ reg'.on[m] /\ reg'.ep[m] = lc[m].id
      /\ \A n \in Modules \ {m} : reg'.on[n] = reg.on[n] /\ reg'.ep[n] = reg.ep[n]
  BY <1>1, ProjectedReg DEF PublishActive
<1> DEFINE r == [lc[m] EXCEPT !.st = "active", !.owner = 0]
           i == [inst[m] EXCEPT !.ever = TRUE]
<1>3. r \in LifecycleStates /\ r.st = "active" /\ r.id = lc[m].id
  <2>1. 0 \in 0..Restore
    BY Constants
  <2> QED BY <1>1, <2>1 DEF LifecycleStates
<1>4. i \in Instances /\ (i.has <=> inst[m].has) /\ (i.done <=> inst[m].done)
  BY <1>1 DEF Instances
<1>5. /\ lc' = [lc EXCEPT ![m] = r] /\ inst' = [inst EXCEPT ![m] = i]
      /\ gate' = [gate EXCEPT ![m] = lc[m].id]
  BY <1>1 DEF PublishActive
<1> HIDE DEF r, i
<1>6. /\ lc' \in [Modules -> LifecycleStates] /\ \A n \in Modules \ {m} : lc'[n] = lc[n]
      /\ inst' \in [Modules -> Instances] /\ \A n \in Modules \ {m} : inst'[n] = inst[n]
      /\ gate' \in [Modules -> Nat] /\ \A n \in Modules \ {m} : gate'[n] = gate[n]
      /\ lc'[m] = r /\ inst'[m] = i /\ gate'[m] = lc[m].id
  BY <1>1, <1>3, <1>4, <1>5
<1>7. GateHolds(m)'
  BY <1>2, <1>3, <1>6 DEF GateHolds
<1>8. inst[m].has /\ ~inst[m].done
  BY DEF ActivationInv, PackageHolds
<1> QED BY <1>2, <1>4, <1>6, <1>7, <1>8

\* A step of an operation on the journal and the intents, with nothing live moved.
LEMMA DurableStep ==
    ASSUME ActivationInv, NEW m \in Modules, op[m].pc # "idle",
           op' \in [Modules -> Operations], \A n \in Modules \ {m} : op'[n] = op[n],
           op'[m] = Idle \/ (op'[m].pc # "idle" /\ op'[m].id = op[m].id),
           intent' \in [Modules -> IntentRows], \A n \in Modules \ {m} : intent'[n] = intent[n],
           intent'[m].by \in {intent[m].by, op[m].id},
           journal' \in [OpIds -> JournalRows],
           \A o \in OpIds :
              \/ journal'[o] = journal[o]
              \/ o = op[m].id /\ (op[m].prep \/ op[m].pc \in {"prepare", "quiesce"})
              \/ /\ o = intent[m].by
                 /\ journal'[o].of = journal[o].of /\ journal'[o].new = journal[o].new,
           UNCHANGED <<gen, live, pkg, loose, proc, todo, used>>, lock' \subseteq Modules, faults' \in Nat,
           Holds(m)'
    PROVE  ActivationInv'
<1>1. Typed
  BY TypeFacts
<1>2. Typed'
  BY <1>1 DEF Typed, DurableTyped, LiveTyped, HostTyped, live
<1>3. StepOf(m)
  BY DEF StepOf, live
<1>4. PackageHolds'
  BY DEF ActivationInv, PackageHolds, live
<1> QED BY <1>2, <1>3, <1>4, StepKeeps

LEMMA PublishEnableKeeps == ASSUME ActivationInv, NEW m \in Modules, PublishEnable(m) PROVE ActivationInv'
<1>1. /\ Typed /\ Holds(m) /\ op[m] \in Operations /\ op[m].pc = "publish"
      /\ UNCHANGED <<intent, gen, pkg, loose, proc, todo, used, faults>> /\ lock' \subseteq Modules
  BY TypeFacts DEF PublishEnable, Typed, HostTyped
<1>2. /\ op[m].on /\ gate[m] = 0 /\ m \in runs /\ pkg.st = "built" /\ op[m].id \in OpIds /\ op[m].lin
      /\ op[m].id # 0 /\ proc \notin {"down", "closed"} /\ op[m].prep /\ intent[m].on
  BY <1>1, Constants DEF Holds, PcHolds, RowHolds, IntentHolds, EnablePcs, ShutPcs, RunPcs, BuiltPcs, OwnPcs
<1>3. ASSUME NEW pc \in {"abort", "applied", "compensate"}, Step(m, pc)
      PROVE  /\ op' \in [Modules -> Operations]
             /\ op'[m].pc = pc /\ op'[m].id = op[m].id /\ op'[m].on = op[m].on
             /\ op'[m].prep = op[m].prep /\ op'[m].lin = op[m].lin
             /\ \A n \in Modules \ {m} : op'[n] = op[n]
  <2>1. pc \in OpPcs
    BY DEF OpPcs, EnablePcs
  <2> QED BY <1>1, <1>3, <2>1, StepFields
<1>4. CASE Closing /\ journal' = Marked(journal, op[m].id, "recovery") /\ Step(m, "abort") /\ UNCHANGED live
  <2>1. /\ op' \in [Modules -> Operations]
        /\ op'[m].pc = "abort" /\ op'[m].id = op[m].id /\ op'[m].on = op[m].on
        /\ op'[m].prep = op[m].prep /\ op'[m].lin = op[m].lin
        /\ \A n \in Modules \ {m} : op'[n] = op[n]
    BY <1>3, <1>4
  <2>2. /\ journal' \in [OpIds -> JournalRows]
        /\ \A k \in OpIds : k # op[m].id => journal'[k] = journal[k]
        /\ journal'[op[m].id].of = journal[op[m].id].of /\ journal'[op[m].id].new = journal[op[m].id].new
        /\ (journal'[op[m].id] = journal[op[m].id] \/ journal'[op[m].id].ph = "recovery")
        /\ (journal[op[m].id].ph = "compensated" => journal'[op[m].id] = journal[op[m].id])
    <3>1. "recovery" \in Phases
      BY DEF Phases
    <3> QED BY <1>2, <1>4, <3>1, TypeFacts, MarkedRow
  <2>3. PcHolds(m)' /\ RowHolds(m)'
    <3>1. op[m].pc \in EnablePcs
      BY <1>1 DEF EnablePcs
    <3> QED BY <1>1, <1>2, <2>1, <2>2, <3>1, AbortHolds
  <2>4. Holds(m)'
    <3>1. IntentHolds(m)'
      BY <1>1, <1>2, <2>1, <2>2, TypeFacts, Constants DEF Holds, IntentHolds, IntentRows
    <3>2. GateHolds(m)'
      BY <1>2, <1>4 DEF live, GateHolds
    <3>3. JournalHolds(m)'
      BY <1>1, <1>2, <2>2 DEF Holds, JournalHolds
    <3> QED BY <2>3, <3>1, <3>2, <3>3 DEF Holds
  <2> QED BY <1>1, <1>2, <1>4, <2>1, <2>2, <2>4, DurableStep, TypeFacts DEF Typed, HostTyped
<1>5. CASE PublishActive(m) /\ Step(m, "applied") /\ UNCHANGED <<epochs, runs, journal>>
  <2>1. /\ op' \in [Modules -> Operations]
        /\ op'[m].pc = "applied" /\ op'[m].id = op[m].id /\ op'[m].on = op[m].on
        /\ op'[m].prep = op[m].prep /\ op'[m].lin = op[m].lin
        /\ \A n \in Modules \ {m} : op'[n] = op[n]
    BY <1>3, <1>5
  <2>2. lc[m].id \in Nat
    BY TypeFacts DEF LifecycleStates
  <2>3. /\ GateHolds(m)'
        /\ reg' \in Registries /\ reg'.in = reg.in
        /\ \A n \in Modules \ {m} : reg'.on[n] = reg.on[n] /\ reg'.ep[n] = reg.ep[n]
        /\ lc' \in [Modules -> LifecycleStates] /\ \A n \in Modules \ {m} : lc'[n] = lc[n]
        /\ inst' \in [Modules -> Instances] /\ \A n \in Modules \ {m} : inst'[n] = inst[n]
        /\ gate' \in [Modules -> Nat] /\ \A n \in Modules \ {m} : gate'[n] = gate[n]
        /\ inst'[m].has /\ ~inst'[m].done
    BY <1>1, <1>2, <1>5, <2>2, PublishedHolds
  <2>4. PcHolds(m)' /\ RowHolds(m)'
    BY <1>1, <1>2, <1>5, <2>1, MovesOn DEF OpPcs, EnablePcs, DisablePcs, OwnPcs, BuiltPcs, ShutPcs,
       RunPcs, EarlyPcs, RowPcs
  <2>5. Holds(m)'
    BY <1>1, <1>5, <2>1, <2>3, <2>4, Constants DEF Holds, IntentHolds, JournalHolds
  <2> QED BY <1>1, <1>2, <1>5, <2>1, <2>3, <2>5, LiveStep, TypeFacts DEF Typed, HostTyped
<1>6. CASE /\ lc' = [lc EXCEPT ![m].st = "failed", ![m].pend = TRUE] /\ Step(m, "compensate")
           /\ UNCHANGED <<reg, epochs, inst, runs, gate, journal>>
  <2>1. /\ op' \in [Modules -> Operations]
        /\ op'[m].pc = "compensate" /\ op'[m].id = op[m].id /\ op'[m].on = op[m].on
        /\ op'[m].prep = op[m].prep /\ op'[m].lin = op[m].lin
        /\ \A n \in Modules \ {m} : op'[n] = op[n]
    BY <1>3, <1>6
  <2>2. lc' \in [Modules -> LifecycleStates] /\ \A n \in Modules \ {m} : lc'[n] = lc[n]
    <3>1. [lc[m] EXCEPT !.st = "failed", !.pend = TRUE] \in LifecycleStates
      BY TypeFacts DEF LifecycleStates
    <3>2. lc' = [lc EXCEPT ![m] = [lc[m] EXCEPT !.st = "failed", !.pend = TRUE]]
      BY <1>6, TypeFacts
    <3> QED BY <3>1, <3>2, TypeFacts
  <2>3. PcHolds(m)'
    BY <1>1, <1>2, <1>6, <2>1 DEF PcHolds, EnablePcs, DisablePcs, OwnPcs, BuiltPcs, ShutPcs, RunPcs
  <2>4. RowHolds(m)'
    BY <1>1, <1>2, <1>6, <2>1 DEF Holds, RowHolds, RowPcs, EarlyPcs
  <2>5. Holds(m)'
    BY <1>1, <1>2, <1>6, <2>1, <2>3, <2>4, Constants DEF Holds, IntentHolds, GateHolds, JournalHolds
  <2>6. m \in runs' => inst'[m].has /\ ~inst'[m].done
    BY <1>6 DEF ActivationInv, PackageHolds
  <2> QED BY <1>1, <1>2, <1>6, <2>1, <2>2, <2>5, <2>6, LiveStep, TypeFacts DEF Typed, HostTyped
<1> QED BY <1>4, <1>5, <1>6 DEF PublishEnable

LEMMA RestorePublishKeeps == ASSUME ActivationInv, NEW m \in Modules, RestorePublish(m) PROVE ActivationInv'
<1>1. /\ Typed /\ Holds(m) /\ op[m] \in Operations /\ op[m].pc = "commit" /\ op[m].id = Restore
      /\ UNCHANGED <<durable, epochs, runs, pkg, loose, lock, proc, todo, used, faults>>
  BY TypeFacts DEF RestorePublish, IsRestore
<1>2. /\ op[m].on /\ gate[m] = 0 /\ m \in runs /\ pkg.st = "built"
      /\ proc \notin {"down", "closed"} /\ intent[m].on
  BY <1>1, Constants DEF Holds, PcHolds, RowHolds, IntentHolds, EnablePcs, ShutPcs, RunPcs, BuiltPcs
<1>3. ASSUME NEW pc \in {"abort", "applied"}, Step(m, pc)
      PROVE  /\ op' \in [Modules -> Operations]
             /\ op'[m].pc = pc /\ op'[m].id = op[m].id /\ op'[m].on = op[m].on
             /\ op'[m].prep = op[m].prep /\ op'[m].lin = op[m].lin
             /\ \A n \in Modules \ {m} : op'[n] = op[n]
             /\ PcHolds(m)' /\ RowHolds(m)'
  <2>1. pc \in OpPcs
    BY DEF OpPcs, EnablePcs
  <2>2. /\ op' \in [Modules -> Operations]
        /\ op'[m].pc = pc /\ op'[m].id = op[m].id /\ op'[m].on = op[m].on
        /\ op'[m].prep = op[m].prep /\ op'[m].lin = op[m].lin
        /\ \A n \in Modules \ {m} : op'[n] = op[n]
    BY <1>1, <1>3, <2>1, StepFields
  <2>3. PcHolds(m)'
    BY <1>1, <1>2, <2>2, Constants DEF PcHolds, EnablePcs, DisablePcs, OwnPcs, BuiltPcs, ShutPcs, RunPcs
  <2>4. RowHolds(m)'
    BY <1>1, <2>2, Constants DEF RowHolds
  <2> QED BY <2>2, <2>3, <2>4
<1>4. CASE Step(m, "abort") /\ UNCHANGED <<reg, lc, inst, gate>>
  <2>1. /\ op' \in [Modules -> Operations]
        /\ op'[m].pc = "abort" /\ op'[m].id = op[m].id
        /\ \A n \in Modules \ {m} : op'[n] = op[n]
        /\ PcHolds(m)' /\ RowHolds(m)'
    BY <1>3, <1>4
  <2> QED BY <1>1, <1>2, <1>4, <2>1, QuietStep DEF Typed, HostTyped, live
<1>5. CASE PublishActive(m) /\ Step(m, "applied")
  <2>1. /\ op' \in [Modules -> Operations]
        /\ op'[m].pc = "applied" /\ op'[m].id = op[m].id
        /\ \A n \in Modules \ {m} : op'[n] = op[n]
        /\ PcHolds(m)' /\ RowHolds(m)'
    BY <1>3, <1>5
  <2>2. lc[m].id \in Nat
    BY TypeFacts DEF LifecycleStates
  <2>3. /\ GateHolds(m)'
        /\ reg' \in Registries /\ reg'.in = reg.in
        /\ \A n \in Modules \ {m} : reg'.on[n] = reg.on[n] /\ reg'.ep[n] = reg.ep[n]
        /\ lc' \in [Modules -> LifecycleStates] /\ \A n \in Modules \ {m} : lc'[n] = lc[n]
        /\ inst' \in [Modules -> Instances] /\ \A n \in Modules \ {m} : inst'[n] = inst[n]
        /\ gate' \in [Modules -> Nat] /\ \A n \in Modules \ {m} : gate'[n] = gate[n]
        /\ inst'[m].has /\ ~inst'[m].done
    BY <1>1, <1>2, <1>5, <2>2, PublishedHolds DEF durable
  <2>4. Holds(m)'
    BY <1>1, <1>2, <2>1, <2>3, Constants DEF Holds, IntentHolds, JournalHolds, durable
  <2> QED BY <1>1, <1>2, <1>5, <2>1, <2>3, <2>4, LiveStep, TypeFacts DEF Typed, HostTyped, durable
<1> QED BY <1>4, <1>5 DEF RestorePublish

LEMMA MarkAppliedKeeps == ASSUME ActivationInv, NEW m \in Modules, MarkApplied(m) PROVE ActivationInv'
<1>1. /\ Typed /\ Holds(m) /\ op[m] \in Operations /\ op[m].pc = "applied"
      /\ UNCHANGED <<intent, gen, live, pkg, loose, proc, todo, used>> /\ op' = [op EXCEPT ![m] = Idle]
      /\ lock' \subseteq Modules /\ faults' \in Nat
  BY TypeFacts, FaultCounts DEF MarkApplied, Typed, HostTyped
<1>2. /\ op' \in [Modules -> Operations] /\ op'[m] = Idle /\ \A n \in Modules \ {m} : op'[n] = op[n]
      /\ PcHolds(m)' /\ RowHolds(m)' /\ op'[m].id = 0 /\ op'[m].pc # "publish"
  BY <1>1, OpSet, RecordsTyped, IdleHolds
<1>3. CASE UNCHANGED journal
  <2>1. loose' \subseteq Modules /\ (pkg.st \in {"none", "capture"} => loose' = {})
    BY <1>1 DEF ActivationInv, PackageHolds, Typed, HostTyped
  <2>2. UNCHANGED durable /\ op[m].pc # "idle"
    BY <1>1, <1>3 DEF durable
  <2> QED BY <1>1, <1>2, <2>1, <2>2, QuietStep
<1>4. CASE journal' = Marked(journal, IF IsRestore(m) THEN intent[m].by ELSE op[m].id, "applied")
  <2> DEFINE o == IF IsRestore(m) THEN intent[m].by ELSE op[m].id
  <2>1. /\ o \in OpIds /\ (o = intent[m].by \/ (o = op[m].id /\ op[m].prep))
    <3>1. CASE op[m].id = Restore
      <4>1. intent[m].by # 0
        BY <1>1, <3>1 DEF Holds, IntentHolds
      <4>2. intent[m].by \in 0..MaxOps
        BY TypeFacts DEF IntentRows
      <4> QED BY <3>1, <4>1, <4>2, Constants DEF IsRestore
    <3>2. CASE op[m].id # Restore
      <4>1. op[m].id \in OpIds
        BY <1>1, <3>2, Constants DEF Holds, PcHolds, Operations
      <4>2. op[m].prep
        BY <1>1, <4>1 DEF Holds, RowHolds
      <4> QED BY <3>2, <4>1, <4>2 DEF IsRestore
    <3> QED BY <3>1, <3>2
  <2>2. journal' = Marked(journal, o, "applied")
    BY <1>4
  <2> HIDE DEF o
  <2>3. /\ journal' \in [OpIds -> JournalRows]
        /\ \A k \in OpIds : k # o => journal'[k] = journal[k]
        /\ journal'[o].of = journal[o].of /\ journal'[o].new = journal[o].new
        /\ \/ journal'[o] = journal[o]
           \/ journal'[o].ph = "applied" /\ journal[o].ph \in {"committed", "recovery"}
    <3>1. "applied" \in Phases
      BY DEF Phases
    <3> QED BY <2>1, <2>2, <3>1, TypeFacts, MarkedRow
  <2>4. JournalHolds(m)'
    BY <1>1, <2>1, <2>3 DEF Holds, JournalHolds
  <2>5. IntentHolds(m)'
    <3>1. intent[m].by # 0 => intent[m].by \in OpIds
      BY Constants, TypeFacts DEF IntentRows
    <3> QED BY ZenonT(30), <1>1, <1>2, <2>1, <2>3, <3>1, Constants DEF Holds, IntentHolds
  <2>6. Holds(m)'
    BY <1>1, <1>2, <2>4, <2>5 DEF Holds, GateHolds, live
  <2>7. \A k \in OpIds :
              \/ journal'[k] = journal[k]
              \/ k = op[m].id /\ op[m].prep
              \/ /\ k = intent[m].by
                 /\ journal'[k].of = journal[k].of /\ journal'[k].new = journal[k].new
    BY <2>1, <2>3
  <2> QED BY <1>1, <1>2, <2>3, <2>6, <2>7, DurableStep, TypeFacts
<1> QED BY <1>3, <1>4 DEF MarkApplied

\* A row that asks for recovery still tells the truth.
LEMMA RecoveryMarked ==
    ASSUME ActivationInv, NEW m \in Modules, NEW o \in OpIds, journal' = Marked(journal, o, "recovery"),
           UNCHANGED intent
    PROVE  /\ journal' \in [OpIds -> JournalRows]
           /\ \A k \in OpIds : k # o => journal'[k] = journal[k]
           /\ journal'[o].of = journal[o].of /\ journal'[o].new = journal[o].new
           /\ JournalHolds(m)'
<1>1. journal \in [OpIds -> JournalRows] /\ "recovery" \in Phases /\ JournalHolds(m)
  BY TypeFacts DEF Phases, Holds
<1>2. /\ journal' \in [OpIds -> JournalRows]
      /\ \A k \in OpIds : k # o => journal'[k] = journal[k]
      /\ journal'[o].of = journal[o].of /\ journal'[o].new = journal[o].new
      /\ journal'[o].old = journal[o].old
      /\ \/ journal'[o] = journal[o]
         \/ journal'[o].ph = "recovery" /\ journal[o].ph \in {"prepared", "committed"}
  BY <1>1, MarkedRow
<1>3. CASE intent[m].by = o
  BY <1>1, <1>2, <1>3 DEF JournalHolds
<1>4. CASE intent[m].by # o
  BY <1>1, <1>2, <1>4 DEF JournalHolds
<1> QED BY <1>2, <1>3, <1>4

LEMMA CompensateKeeps == ASSUME ActivationInv, NEW m \in Modules, Compensate(m) PROVE ActivationInv'
<1>1. /\ Typed /\ Holds(m) /\ op[m] \in Operations /\ op[m].pc = "compensate" /\ Step(m, "abort")
      /\ UNCHANGED <<gen, live, pkg, loose, lock, proc, todo, used, faults>> /\ lock' \subseteq Modules /\ faults' \in Nat
  BY TypeFacts DEF Compensate, Typed, HostTyped
<1>2. /\ op[m].on /\ gate[m] = 0 /\ pkg.st = "built" /\ op[m].id \in OpIds /\ op[m].lin
      /\ op[m].id # 0 /\ proc \notin {"down", "closed"} /\ op[m].prep
      /\ journal[op[m].id].of = m /\ journal[op[m].id].new = op[m].on /\ op[m].pc \in EnablePcs
  BY <1>1, Constants DEF Holds, PcHolds, RowHolds, EnablePcs, ShutPcs, RunPcs, BuiltPcs, OwnPcs
<1>3. /\ op' \in [Modules -> Operations]
      /\ op'[m].pc = "abort" /\ op'[m].id = op[m].id /\ op'[m].on = op[m].on
      /\ op'[m].prep = op[m].prep /\ op'[m].lin = op[m].lin
      /\ \A n \in Modules \ {m} : op'[n] = op[n]
  BY <1>1, StepFields DEF OpPcs, EnablePcs
<1>4. ASSUME intent' \in [Modules -> IntentRows], \A n \in Modules \ {m} : intent'[n] = intent[n],
             intent'[m].by = intent[m].by,
             journal' \in [OpIds -> JournalRows], \A k \in OpIds : k # op[m].id => journal'[k] = journal[k],
             journal'[op[m].id].of = journal[op[m].id].of /\ journal'[op[m].id].new = journal[op[m].id].new,
             JournalHolds(m)', intent'[m].on => intent'[m].by # 0
      PROVE  ActivationInv'
  <2>1. PcHolds(m)' /\ RowHolds(m)'
    BY <1>1, <1>2, <1>3, <1>4, AbortHolds
  <2>2. intent[m].by # 0 => intent[m].by \in OpIds
    BY Constants, TypeFacts DEF IntentRows
  <2>3. IntentHolds(m)'
    <3>1. intent'[m].by <= used' /\ op'[m].id # Restore /\ op'[m].pc # "publish"
      BY <1>1, <1>2, <1>3, <1>4, Constants DEF Holds, IntentHolds
    <3>2. intent'[m].by # 0 => journal'[intent'[m].by].of = m
      BY <1>1, <1>4, <2>2 DEF Holds, IntentHolds
    <3> QED BY <1>4, <3>1, <3>2 DEF IntentHolds
  <2>4. Holds(m)'
    BY <1>1, <1>2, <1>4, <2>1, <2>3 DEF Holds, GateHolds, live
  <2> QED BY <1>1, <1>2, <1>3, <1>4, <2>4, DurableStep
<1>5. CASE MayCompensate(m) /\ CompensateIntent(m)
  <2> DEFINE o == op[m].id
             i == [on |-> journal[o].old, rev |-> intent[m].rev + 1, by |-> intent[m].by]
             r == [journal[o] EXCEPT !.ph = "compensated"]
  <2>1. intent[m] \in IntentRows /\ journal[o] \in JournalRows
    BY <1>2, TypeFacts
  <2>2. /\ i \in IntentRows /\ i.on = journal[o].old /\ i.by = intent[m].by
        /\ r \in JournalRows /\ r.ph = "compensated" /\ r.of = journal[o].of /\ r.new = journal[o].new
        /\ r.old = journal[o].old
    <3>1. journal[o].old \in BOOLEAN /\ intent[m].rev + 1 \in Nat /\ intent[m].by \in 0..MaxOps
      BY <2>1 DEF IntentRows, JournalRows
    <3>3. i \in IntentRows /\ i.on = journal[o].old /\ i.by = intent[m].by
      BY <3>1 DEF IntentRows
    <3>4. /\ r \in JournalRows /\ r.ph = "compensated" /\ r.of = journal[o].of /\ r.new = journal[o].new
          /\ r.old = journal[o].old
      BY <2>1 DEF JournalRows, Phases
    <3> QED BY <3>3, <3>4
  <2>3. intent' = [intent EXCEPT ![m] = i] /\ journal' = [journal EXCEPT ![o] = r] /\ intent[m].by = o
    <3>1. intent' = [intent EXCEPT ![m] = i]
      BY <1>5, TypeFacts DEF CompensateIntent
    <3>2. journal' = [journal EXCEPT ![o] = r]
      BY <1>2, <1>5, TypeFacts DEF CompensateIntent
    <3> QED BY <1>5, <3>1, <3>2 DEF MayCompensate
  <2> HIDE DEF i, r
  <2>4. /\ intent' \in [Modules -> IntentRows] /\ \A n \in Modules \ {m} : intent'[n] = intent[n]
        /\ intent'[m] = i /\ journal' \in [OpIds -> JournalRows] /\ journal'[o] = r
        /\ \A k \in OpIds : k # o => journal'[k] = journal[k]
    BY <1>2, <2>2, <2>3, TypeFacts
  <2>5. JournalHolds(m)'
    BY <1>2, <2>2, <2>3, <2>4 DEF JournalHolds
  <2> QED BY <1>2, <1>4, <2>2, <2>3, <2>4, <2>5
<1>6. CASE journal' = Marked(journal, op[m].id, "recovery") /\ UNCHANGED intent
  <2>1. /\ journal' \in [OpIds -> JournalRows]
        /\ \A k \in OpIds : k # op[m].id => journal'[k] = journal[k]
        /\ journal'[op[m].id].of = journal[op[m].id].of /\ journal'[op[m].id].new = journal[op[m].id].new
        /\ JournalHolds(m)'
    BY <1>2, <1>6, RecoveryMarked
  <2>3. intent'[m].on => intent'[m].by # 0
    BY <1>1, <1>6 DEF Holds, IntentHolds
  <2> QED BY <1>4, <1>6, <2>1, <2>3, TypeFacts
<1> QED BY <1>5, <1>6 DEF Compensate

LEMMA AbortJournalKeeps == ASSUME ActivationInv, NEW m \in Modules, AbortJournal(m) PROVE ActivationInv'
<1> DEFINE o == op[m].id
           happened == /\ op[m].lin
                       /\ journal[o].ph \in {"committed", "recovery"}
                       /\ intent[m].by = o
                       /\ intent[m].on
<1>1. /\ Typed /\ Holds(m) /\ op[m] \in Operations /\ op[m].pc = "abort" /\ Step(m, "rollback")
      /\ UNCHANGED <<intent, gen, live, pkg, loose, lock, proc, todo, used, faults>> /\ lock' \subseteq Modules
      /\ faults' \in Nat
  BY TypeFacts DEF AbortJournal, Typed, HostTyped
<1>2. /\ op[m].on /\ op[m].id # 0 /\ proc \notin {"down", "closed"} /\ op[m].pc \in EnablePcs
  BY <1>1 DEF Holds, PcHolds, EnablePcs
<1>3. /\ op' \in [Modules -> Operations]
      /\ op'[m].pc = "rollback" /\ op'[m].id = op[m].id /\ op'[m].on = op[m].on
      /\ op'[m].prep = op[m].prep /\ op'[m].lin = op[m].lin
      /\ \A n \in Modules \ {m} : op'[n] = op[n]
  BY <1>1, StepFields DEF OpPcs, EnablePcs
<1>4. PcHolds(m)'
  BY <1>1, <1>2, <1>3 DEF PcHolds, EnablePcs, DisablePcs, OwnPcs, BuiltPcs, ShutPcs, RunPcs
<1>5. CASE journal' = journal
  <2>1. RowHolds(m)'
    BY <1>1, <1>3, <1>5 DEF Holds, RowHolds, RowPcs, EarlyPcs
  <2> QED
    BY <1>1, <1>3, <1>4, <1>5, <2>1, QuietStep DEF durable, ActivationInv, PackageHolds, Typed, HostTyped
<1>6. ASSUME NEW k \in OpIds, NEW phase \in {"recovery", "compensated"}, journal' = Marked(journal, k, phase),
             k = intent[m].by \/ (k = o /\ op[m].prep),
             k = intent[m].by /\ phase = "compensated" => journal[k].ph \notin {"prepared", "committed", "recovery"}
      PROVE  ActivationInv'
  <2>1. /\ journal' \in [OpIds -> JournalRows]
        /\ \A x \in OpIds : x # k => journal'[x] = journal[x]
        /\ journal'[k].of = journal[k].of /\ journal'[k].new = journal[k].new
        /\ \/ journal'[k] = journal[k]
           \/ journal'[k].ph = phase /\ journal[k].ph \in {"prepared", "committed", "recovery"}
    <3>1. phase \in Phases
      BY DEF Phases
    <3> QED BY <1>6, <3>1, TypeFacts, MarkedRow
  <2>2. RowHolds(m)'
    BY <1>1, <1>3, <2>1 DEF Holds, RowHolds, RowPcs, EarlyPcs
  <2>3. JournalHolds(m)'
    BY <1>1, <1>6, <2>1 DEF Holds, JournalHolds
  <2>4. IntentHolds(m)'
    <3>1. intent[m].by # 0 => intent[m].by \in OpIds
      BY Constants, TypeFacts DEF IntentRows
    <3> QED BY ZenonT(30), <1>1, <1>3, <2>1, <3>1, Constants DEF Holds, IntentHolds
  <2>5. Holds(m)'
    BY <1>1, <1>4, <2>2, <2>3, <2>4 DEF Holds, GateHolds, live
  <2>6. \A x \in OpIds :
              \/ journal'[x] = journal[x]
              \/ x = op[m].id /\ op[m].prep
              \/ /\ x = intent[m].by
                 /\ journal'[x].of = journal[x].of /\ journal'[x].new = journal[x].new
    BY <1>6, <2>1
  <2> QED BY <1>1, <1>3, <2>1, <2>5, <2>6, DurableStep, TypeFacts
<1>7. CASE IsRestore(m)
  <2>1. intent[m].by \in OpIds
    BY <1>1, <1>7, Constants, TypeFacts DEF IntentRows, IsRestore, Holds, IntentHolds
  <2>2. journal' = journal \/ journal' = Marked(journal, intent[m].by, "recovery")
    BY <1>7 DEF AbortJournal
  <2> QED BY <1>5, <1>6, <2>1, <2>2
<1>8. CASE ~IsRestore(m) /\ op[m].prep /\ ~op[m].com
  <2>1. o \in OpIds
    BY <1>1, <1>2, <1>8, Constants DEF IsRestore, Operations
  <2>2. journal' = Marked(journal, o, IF happened THEN "recovery" ELSE "compensated")
    BY <1>8 DEF AbortJournal
  <2>3. CASE happened
    BY <1>6, <1>8, <2>1, <2>2, <2>3
  <2>4. CASE ~happened
    <3>1. intent[m].by = o => journal[o].ph \notin {"prepared", "committed", "recovery"}
      BY <1>1, <1>2, <1>8, <2>1, <2>4 DEF Holds, RowHolds, JournalHolds
    <3> QED BY <1>6, <1>8, <2>1, <2>2, <2>4, <3>1
  <2> QED BY <2>3, <2>4
<1>9. CASE ~IsRestore(m) /\ ~(op[m].prep /\ ~op[m].com)
  BY <1>5, <1>9 DEF AbortJournal
<1> QED BY <1>7, <1>8, <1>9

\* What quiescing leaves: the gate of the module is shut.
LEMMA QuiesceFields ==
    ASSUME ActivationInv, NEW m \in Modules, NEW o \in 0..Restore, Quiesce(m, o)
    PROVE  /\ reg' \in Registries /\ reg'.in = reg.in
           /\ \A n \in Modules \ {m} : reg'.on[n] = reg.on[n] /\ reg'.ep[n] = reg.ep[n]
           /\ epochs' \in [Modules -> Nat]
           /\ lc' \in [Modules -> LifecycleStates] /\ \A n \in Modules \ {m} : lc'[n] = lc[n]
           /\ gate' \in [Modules -> Nat] /\ \A n \in Modules \ {m} : gate'[n] = gate[n]
           /\ gate'[m] = 0
<1>1. lc \in [Modules -> LifecycleStates] /\ lc[m] \in LifecycleStates /\ gate \in [Modules -> Nat] /\ Holds(m)
      /\ reg \in Registries /\ epochs \in [Modules -> Nat] /\ reg.on[m] \in BOOLEAN
  BY TypeFacts
<1>2. lc[m].st # "active" => gate[m] = 0
  BY <1>1 DEF Holds, GateHolds
<1>3. CASE lc[m].st \in {"stopping", "failed"} /\ lc[m].id # 0 /\ lc[m].id = reg.ep[m]
  <2> DEFINE r == [lc[m] EXCEPT !.st = "stopping", !.owner = o]
  <2>1. r \in LifecycleStates
    BY <1>1 DEF LifecycleStates
  <2>2. lc' = [lc EXCEPT ![m] = r] /\ UNCHANGED <<reg, epochs, gate>>
    BY <1>1, <1>3 DEF Quiesce
  <2> HIDE DEF r
  <2> QED BY <1>1, <1>2, <1>3, <2>1, <2>2
<1>4. CASE ~(lc[m].st \in {"stopping", "failed"} /\ lc[m].id # 0 /\ lc[m].id = reg.ep[m])
  <2> DEFINE epoch == Max2(epochs[m], reg.ep[m]) + 1
             r == [lc[m] EXCEPT !.st = "stopping", !.id = epoch, !.owner = o]
  <2>1. epoch \in Nat
    BY TypeFacts DEF Max2
  <2>2. /\ epochs' = [epochs EXCEPT ![m] = epoch]
        /\ reg' = Projected(m, reg.on[m], epoch)
        /\ lc' = [lc EXCEPT ![m] = r]
        /\ gate' = [gate EXCEPT ![m] = IF lc[m].st = "active" THEN 0 ELSE gate[m]]
    BY <1>4 DEF Quiesce
  <2> HIDE DEF epoch
  <2>3. r \in LifecycleStates
    BY <1>1, <2>1 DEF LifecycleStates
  <2> HIDE DEF r
  <2>4. /\ reg' \in Registries /\ reg'.in = reg.in
        /\ \A n \in Modules \ {m} : reg'.on[n] = reg.on[n] /\ reg'.ep[n] = reg.ep[n]
    BY <1>1, <2>1, <2>2, ProjectedReg
  <2>5. (IF lc[m].st = "active" THEN 0 ELSE gate[m]) = 0
    BY <1>2
  <2>6. gate' = [gate EXCEPT ![m] = 0]
    BY <2>2, <2>5
  <2> QED BY <1>1, <2>1, <2>2, <2>3, <2>4, <2>6
<1> QED BY <1>3, <1>4

LEMMA StoppedFields ==
    ASSUME ActivationInv, NEW m \in Modules, Stopped(m)
    PROVE  /\ lc' \in [Modules -> LifecycleStates] /\ \A n \in Modules \ {m} : lc'[n] = lc[n]
           /\ inst' \in [Modules -> Instances] /\ \A n \in Modules \ {m} : inst'[n] = inst[n]
           /\ runs' = runs \ {m} /\ m \notin runs'
<1> DEFINE r == [st |-> "stopped", id |-> lc[m].id, owner |-> 0, pend |-> FALSE]
           i == [inst[m] EXCEPT !.att = FALSE, !.done = TRUE]
<1>1. lc' = [lc EXCEPT ![m] = r] /\ inst' = [inst EXCEPT ![m] = i] /\ runs' = runs \ {m}
  BY DEF Stopped
<1>2. r \in LifecycleStates
  BY TypeFacts, Constants DEF LifecycleStates
<1>3. i \in Instances
  BY TypeFacts DEF Instances
<1> HIDE DEF r, i
<1> QED BY <1>1, <1>2, <1>3, TypeFacts

LEMMA StopFailsFields ==
    ASSUME ActivationInv, NEW m \in Modules, NEW o \in 0..Restore, StopFails(m, o)
    PROVE  /\ lc' \in [Modules -> LifecycleStates] /\ \A n \in Modules \ {m} : lc'[n] = lc[n]
           /\ gate' \in [Modules -> Nat] /\ \A n \in Modules \ {m} : gate'[n] = gate[n]
           /\ gate'[m] = 0 /\ UNCHANGED <<inst, runs>>
           /\ m \in runs' => inst'[m].has /\ ~inst'[m].done
<1> DEFINE r == [lc[m] EXCEPT !.st = "failed", !.owner = o, !.pend = TRUE]
<1>1. lc' = [lc EXCEPT ![m] = r] /\ gate' = [gate EXCEPT ![m] = 0] /\ UNCHANGED <<inst, runs>>
  BY DEF StopFails
<1>2. r \in LifecycleStates
  BY TypeFacts DEF LifecycleStates
<1>3. m \in runs => inst[m].has /\ ~inst[m].done
  BY DEF ActivationInv, PackageHolds
<1> HIDE DEF r
<1> QED BY <1>1, <1>2, <1>3, TypeFacts

LEMMA RollbackKeeps == ASSUME ActivationInv, NEW m \in Modules, Rollback(m) PROVE ActivationInv'
<1> DEFINE epoch == Max2(epochs[m], Max2(reg.ep[m], lc[m].id)) + 1
           stale == lc[m].st = "starting" \/ lc[m].id > reg.ep[m]
<1>1. /\ Typed /\ Holds(m) /\ op[m] \in Operations /\ op[m].pc = "rollback"
      /\ UNCHANGED <<durable, pkg, loose, lock, proc, todo, used>> /\ lock' \subseteq Modules
      /\ faults' \in Nat
  BY TypeFacts, FaultCounts DEF Rollback, Typed, HostTyped
<1>2. /\ op[m].on /\ op[m].id # 0 /\ proc \notin {"down", "closed"} /\ op[m].pc \in EnablePcs
      /\ loose' \subseteq Modules /\ (pkg.st \in {"none", "capture"} => loose' = {})
  BY <1>1 DEF Holds, PcHolds, EnablePcs, ActivationInv, PackageHolds, Typed, HostTyped
<1>3. ASSUME op' = [op EXCEPT ![m] = Idle]
      PROVE  /\ op' \in [Modules -> Operations] /\ \A n \in Modules \ {m} : op'[n] = op[n]
             /\ op'[m] = Idle /\ PcHolds(m)' /\ RowHolds(m)' /\ op'[m].pc # "publish" /\ op'[m].id = 0
  BY <1>1, <1>3, OpSet, RecordsTyped, IdleHolds
<1>4. ASSUME Step(m, "stop"), pkg.st = "built"
      PROVE  /\ op' \in [Modules -> Operations] /\ \A n \in Modules \ {m} : op'[n] = op[n]
             /\ op'[m].pc = "stop" /\ op'[m].id = op[m].id
             /\ PcHolds(m)' /\ RowHolds(m)'
  <2>1. "stop" \in OpPcs
    BY DEF OpPcs, EnablePcs
  <2>2. /\ op' \in [Modules -> Operations]
        /\ op'[m].pc = "stop" /\ op'[m].id = op[m].id /\ op'[m].on = op[m].on
        /\ op'[m].prep = op[m].prep /\ op'[m].lin = op[m].lin
        /\ \A n \in Modules \ {m} : op'[n] = op[n]
    BY <1>1, <1>4, <2>1, StepFields
  <2> QED
    BY <1>1, <1>2, <1>4, <2>2, MovesOn DEF durable, OpPcs, EnablePcs, DisablePcs, OwnPcs, BuiltPcs, ShutPcs, RunPcs,
       EarlyPcs, RowPcs
<1>5. CASE op' = [op EXCEPT ![m] = Idle] /\ UNCHANGED <<live, faults>>
  BY <1>1, <1>2, <1>3, <1>5, QuietStep
<1>6. CASE Step(m, "stop") /\ UNCHANGED <<live, faults>> /\ pkg.st = "built"
  <2>1. /\ op' \in [Modules -> Operations] /\ \A n \in Modules \ {m} : op'[n] = op[n]
        /\ op'[m].pc = "stop" /\ op'[m].id = op[m].id
        /\ PcHolds(m)' /\ RowHolds(m)'
    BY <1>4, <1>6
  <2> QED BY <1>1, <1>2, <1>6, <2>1, QuietStep
<1>7. ASSUME inst[m].has, pkg.st = "built",
             epochs' = IF stale THEN [epochs EXCEPT ![m] = epoch] ELSE epochs,
             reg' = IF stale THEN Projected(m, FALSE, epoch) ELSE reg,
             gate' = [gate EXCEPT ![m] = 0]
      PROVE  /\ epoch \in Nat /\ epochs' \in [Modules -> Nat] /\ reg' \in Registries /\ reg'.in = reg.in
             /\ \A n \in Modules \ {m} : reg'.on[n] = reg.on[n] /\ reg'.ep[n] = reg.ep[n]
             /\ gate' \in [Modules -> Nat] /\ gate'[m] = 0 /\ \A n \in Modules \ {m} : gate'[n] = gate[n]
  <2>1. lc[m].id \in Nat /\ reg.ep[m] \in Nat /\ epochs[m] \in Nat
    BY TypeFacts DEF LifecycleStates
  <2>2. epoch \in Nat
    BY <2>1 DEF Max2
  <2> HIDE DEF epoch, stale
  <2>3. epochs' \in [Modules -> Nat]
    BY <1>7, <2>2, TypeFacts
  <2>4. /\ reg' \in Registries /\ reg'.in = reg.in
        /\ \A n \in Modules \ {m} : reg'.on[n] = reg.on[n] /\ reg'.ep[n] = reg.ep[n]
    <3>1. CASE stale
      BY <1>7, <2>2, <3>1, ProjectedReg
    <3>2. CASE ~stale
      BY <1>7, <3>2, TypeFacts
    <3> QED BY <3>1, <3>2
  <2> QED BY <1>7, <2>2, <2>3, <2>4, TypeFacts
<1>8. ASSUME PcHolds(m)', RowHolds(m)', op'[m].id \in {0, op[m].id}, op'[m].pc # "publish", gate'[m] = 0
      PROVE  Holds(m)'
  BY <1>1, <1>8, Constants DEF Holds, IntentHolds, GateHolds, JournalHolds, durable
<1>9. ASSUME inst[m].has, pkg.st = "built",
             epochs' = IF stale THEN [epochs EXCEPT ![m] = epoch] ELSE epochs,
             reg' = IF stale THEN Projected(m, FALSE, epoch) ELSE reg,
             gate' = [gate EXCEPT ![m] = 0],
             lc' = [lc EXCEPT ![m] = NoState], inst' = [inst EXCEPT ![m] = NoInstance],
             runs' = runs \ {m}, op' = [op EXCEPT ![m] = Idle]
      PROVE  ActivationInv'
  <2>1. /\ epochs' \in [Modules -> Nat] /\ reg' \in Registries /\ reg'.in = reg.in
        /\ \A n \in Modules \ {m} : reg'.on[n] = reg.on[n] /\ reg'.ep[n] = reg.ep[n]
        /\ gate' \in [Modules -> Nat] /\ gate'[m] = 0 /\ \A n \in Modules \ {m} : gate'[n] = gate[n]
    BY <1>7, <1>9
  <2>2. /\ op' \in [Modules -> Operations] /\ \A n \in Modules \ {m} : op'[n] = op[n]
        /\ op'[m] = Idle /\ PcHolds(m)' /\ RowHolds(m)' /\ op'[m].pc # "publish" /\ op'[m].id = 0
    BY <1>3, <1>9
  <2>3. Holds(m)'
    BY <1>8, <2>1, <2>2
  <2>4. /\ lc' \in [Modules -> LifecycleStates] /\ \A n \in Modules \ {m} : lc'[n] = lc[n]
        /\ inst' \in [Modules -> Instances] /\ \A n \in Modules \ {m} : inst'[n] = inst[n]
        /\ m \notin runs'
    BY <1>9, TypeFacts, RecordsTyped
  <2> HIDE DEF epoch, stale
  <2> QED BY <1>1, <1>2, <1>9, <2>1, <2>2, <2>3, <2>4, LiveStep, TypeFacts DEF durable
<1>10. ASSUME inst[m].has, pkg.st = "built",
             epochs' = IF stale THEN [epochs EXCEPT ![m] = epoch] ELSE epochs,
             reg' = IF stale THEN Projected(m, FALSE, epoch) ELSE reg,
             gate' = [gate EXCEPT ![m] = 0],
             lc' = [lc EXCEPT ![m] = [st |-> "failed", owner |-> op[m].id, pend |-> TRUE,
                                      id |-> IF stale THEN epoch ELSE @.id]],
             UNCHANGED <<inst, runs>>, Step(m, "stop")
      PROVE  ActivationInv'
  <2>1. /\ epoch \in Nat /\ epochs' \in [Modules -> Nat] /\ reg' \in Registries /\ reg'.in = reg.in
        /\ \A n \in Modules \ {m} : reg'.on[n] = reg.on[n] /\ reg'.ep[n] = reg.ep[n]
        /\ gate' \in [Modules -> Nat] /\ gate'[m] = 0 /\ \A n \in Modules \ {m} : gate'[n] = gate[n]
    BY <1>7, <1>10
  <2>2. /\ op' \in [Modules -> Operations] /\ \A n \in Modules \ {m} : op'[n] = op[n]
        /\ op'[m].pc = "stop" /\ op'[m].id = op[m].id
        /\ PcHolds(m)' /\ RowHolds(m)'
    BY <1>4, <1>10
  <2>3. Holds(m)'
    BY <1>8, <2>1, <2>2
  <2> HIDE DEF epoch, stale
  <2> DEFINE r == [st |-> "failed", owner |-> op[m].id, pend |-> TRUE, id |-> IF stale THEN epoch ELSE lc[m].id]
  <2>4. r \in LifecycleStates
    <3>1. lc[m].id \in Nat /\ op[m].id \in 0..Restore
      BY TypeFacts DEF LifecycleStates, Operations
    <3>2. (IF stale THEN epoch ELSE lc[m].id) \in Nat
      BY <2>1, <3>1
    <3> QED BY <3>1, <3>2 DEF LifecycleStates
  <2>5. lc' = [lc EXCEPT ![m] = r]
    BY <1>10
  <2> HIDE DEF r
  <2>6. lc' \in [Modules -> LifecycleStates] /\ \A n \in Modules \ {m} : lc'[n] = lc[n]
    BY <2>4, <2>5, TypeFacts
  <2>7. m \in runs' => inst'[m].has /\ ~inst'[m].done
    BY <1>10 DEF ActivationInv, PackageHolds
  <2> QED BY <1>1, <1>2, <1>10, <2>1, <2>2, <2>3, <2>6, <2>7, LiveStep, TypeFacts DEF durable
<1> HIDE DEF epoch, stale
<1> QED BY <1>5, <1>6, <1>9, <1>10 DEF Rollback, epoch, stale

LEMMA AbortQuiesceKeeps == ASSUME ActivationInv, NEW m \in Modules, AbortQuiesce(m) PROVE ActivationInv'
<1>1. /\ Typed /\ Holds(m) /\ op[m] \in Operations /\ op[m].pc = "stop"
      /\ UNCHANGED <<durable, inst, runs, pkg, loose, lock, proc, todo, used, faults>>
      /\ lock' \subseteq Modules /\ loose' \subseteq Modules /\ faults' \in Nat
  BY TypeFacts DEF AbortQuiesce, Typed, HostTyped
<1>2. /\ op[m].on /\ op[m].id # 0 /\ proc \notin {"down", "closed"} /\ op[m].pc \in EnablePcs
      /\ pkg.st = "built"
  BY <1>1 DEF Holds, PcHolds, EnablePcs, BuiltPcs
<1>3. CASE op' = [op EXCEPT ![m] = Idle] /\ UNCHANGED <<lc, reg, epochs, gate>>
  <2>1. /\ op' \in [Modules -> Operations] /\ \A n \in Modules \ {m} : op'[n] = op[n]
        /\ op'[m] = Idle /\ PcHolds(m)' /\ RowHolds(m)' /\ op'[m].pc # "publish"
    BY <1>1, <1>3, OpSet, RecordsTyped, IdleHolds
  <2> QED BY <1>1, <1>2, <1>3, <2>1, QuietStep DEF live
<1>4. ASSUME Step(m, "stopping"), gate'[m] = 0
      PROVE  /\ op' \in [Modules -> Operations] /\ \A n \in Modules \ {m} : op'[n] = op[n]
             /\ op'[m].pc = "stopping" /\ op'[m].id = op[m].id
             /\ PcHolds(m)' /\ RowHolds(m)' /\ Holds(m)'
  <2>1. "stopping" \in OpPcs
    BY DEF OpPcs, EnablePcs
  <2>2. /\ op' \in [Modules -> Operations]
        /\ op'[m].pc = "stopping" /\ op'[m].id = op[m].id /\ op'[m].on = op[m].on
        /\ op'[m].prep = op[m].prep /\ op'[m].lin = op[m].lin
        /\ \A n \in Modules \ {m} : op'[n] = op[n]
    BY <1>1, <1>4, <2>1, StepFields
  <2>3. PcHolds(m)' /\ RowHolds(m)'
    BY <1>1, <1>2, <1>4, <2>2, MovesOn DEF durable, OpPcs, EnablePcs, DisablePcs, OwnPcs, BuiltPcs, ShutPcs, RunPcs,
       EarlyPcs, RowPcs
  <2>4. Holds(m)'
    BY <1>1, <1>4, <2>2, <2>3, Constants DEF Holds, IntentHolds, GateHolds, JournalHolds, durable
  <2> QED BY <2>2, <2>3, <2>4
<1>5. CASE lc[m].st = "stopping" /\ Step(m, "stopping") /\ UNCHANGED <<lc, reg, epochs, gate>>
  <2>1. gate[m] = 0
    BY <1>1, <1>5 DEF Holds, GateHolds
  <2>2. /\ op' \in [Modules -> Operations] /\ \A n \in Modules \ {m} : op'[n] = op[n]
        /\ op'[m].pc = "stopping" /\ op'[m].id = op[m].id
        /\ PcHolds(m)' /\ RowHolds(m)'
    BY <1>4, <1>5, <2>1
  <2> QED BY <1>1, <1>2, <1>5, <2>2, QuietStep DEF live
<1>6. CASE Quiesce(m, op[m].id) /\ Step(m, "stopping")
  <2>1. op[m].id \in 0..Restore
    BY <1>1 DEF Operations
  <2>2. /\ reg' \in Registries /\ reg'.in = reg.in
        /\ \A n \in Modules \ {m} : reg'.on[n] = reg.on[n] /\ reg'.ep[n] = reg.ep[n]
        /\ epochs' \in [Modules -> Nat]
        /\ lc' \in [Modules -> LifecycleStates] /\ \A n \in Modules \ {m} : lc'[n] = lc[n]
        /\ gate' \in [Modules -> Nat] /\ \A n \in Modules \ {m} : gate'[n] = gate[n]
        /\ gate'[m] = 0
    BY <1>6, <2>1, QuiesceFields
  <2>3. /\ op' \in [Modules -> Operations] /\ \A n \in Modules \ {m} : op'[n] = op[n]
        /\ op'[m].pc = "stopping" /\ op'[m].id = op[m].id /\ Holds(m)'
    BY <1>4, <1>6, <2>2
  <2>4. m \in runs' => inst'[m].has /\ ~inst'[m].done
    BY <1>1 DEF ActivationInv, PackageHolds
  <2> QED BY <1>1, <1>2, <2>2, <2>3, <2>4, LiveStep, TypeFacts DEF durable
<1> QED BY <1>3, <1>5, <1>6 DEF AbortQuiesce

LEMMA AbortStopKeeps == ASSUME ActivationInv, NEW m \in Modules, AbortStop(m) PROVE ActivationInv'
<1>1. /\ Typed /\ Holds(m) /\ op[m] \in Operations /\ op[m].pc = "stopping" /\ op' = [op EXCEPT ![m] = Idle]
      /\ UNCHANGED <<durable, reg, epochs, pkg, loose, lock, proc, todo, used>>
      /\ lock' \subseteq Modules /\ faults' \in Nat
  BY TypeFacts, FaultCounts DEF AbortStop, Typed, HostTyped
<1>2. gate[m] = 0 /\ pkg.st = "built" /\ op[m].id \in 0..Restore
  BY <1>1 DEF Holds, PcHolds, ShutPcs, BuiltPcs, Operations
<1>3. /\ op' \in [Modules -> Operations] /\ \A n \in Modules \ {m} : op'[n] = op[n]
      /\ op'[m] = Idle /\ PcHolds(m)' /\ RowHolds(m)' /\ op'[m].pc # "publish" /\ op'[m].id = 0
  BY <1>1, OpSet, RecordsTyped, IdleHolds
<1>4. gate'[m] = 0 => Holds(m)'
  BY <1>1, <1>3, Constants DEF Holds, IntentHolds, GateHolds, JournalHolds, durable
<1>5. CASE Stopped(m) /\ UNCHANGED gate
  <2>1. /\ lc' \in [Modules -> LifecycleStates] /\ \A n \in Modules \ {m} : lc'[n] = lc[n]
        /\ inst' \in [Modules -> Instances] /\ \A n \in Modules \ {m} : inst'[n] = inst[n]
        /\ runs' = runs \ {m} /\ m \notin runs'
    BY <1>5, StoppedFields
  <2> QED BY <1>1, <1>2, <1>3, <1>4, <1>5, <2>1, LiveStep, TypeFacts DEF durable
<1>6. CASE StopFails(m, op[m].id)
  <2>1. /\ lc' \in [Modules -> LifecycleStates] /\ \A n \in Modules \ {m} : lc'[n] = lc[n]
        /\ gate' \in [Modules -> Nat] /\ \A n \in Modules \ {m} : gate'[n] = gate[n]
        /\ gate'[m] = 0 /\ UNCHANGED <<inst, runs>>
        /\ m \in runs' => inst'[m].has /\ ~inst'[m].done
    BY <1>2, <1>6, StopFailsFields
  <2> QED BY <1>1, <1>2, <1>3, <1>4, <2>1, LiveStep, TypeFacts DEF durable
<1> QED BY <1>5, <1>6 DEF AbortStop

\* A module is registered only while its package is built.
LEMMA RegisteredBuilt ==
    ASSUME ActivationInv, NEW m \in Modules, op[m].pc # "idle"
    PROVE  /\ m \in reg.in <=> pkg.st = "built"
           /\ pkg.st # "built" => gate[m] = 0
BY DEF ActivationInv, PackageHolds, Holds, PcHolds

LEMMA QuiesceDisableKeeps == ASSUME ActivationInv, NEW m \in Modules, QuiesceDisable(m) PROVE ActivationInv'
<1>1. /\ Typed /\ Holds(m) /\ op[m] \in Operations /\ op[m].pc = "quiesce"
      /\ UNCHANGED <<intent, gen, inst, runs, pkg, loose, proc, todo, used>>
      /\ lock' \subseteq Modules /\ loose' \subseteq Modules /\ faults' \in Nat
  BY TypeFacts, FaultCounts DEF QuiesceDisable, Typed, HostTyped
<1>2. /\ ~op[m].on /\ op[m].id # 0 /\ proc \notin {"down", "closed"} /\ op[m].id \in OpIds /\ op[m].id \in 0..Restore
  BY <1>1 DEF Holds, PcHolds, DisablePcs, OwnPcs, Operations
<1>3. CASE op' = [op EXCEPT ![m] = Idle] /\ UNCHANGED <<journal, lc, reg, epochs, gate>>
  <2>1. /\ op' \in [Modules -> Operations] /\ \A n \in Modules \ {m} : op'[n] = op[n]
        /\ op'[m] = Idle /\ PcHolds(m)' /\ RowHolds(m)' /\ op'[m].pc # "publish"
    BY <1>1, <1>3, OpSet, RecordsTyped, IdleHolds
  <2> QED BY <1>1, <1>3, <2>1, QuietStep DEF live, durable, ActivationInv, PackageHolds
<1>4. ASSUME IF m \in reg.in THEN Quiesce(m, op[m].id) ELSE UNCHANGED <<lc, reg, epochs, gate>>
      PROVE  /\ reg' \in Registries /\ reg'.in = reg.in /\ reg'.rev \in Nat
             /\ \A n \in Modules \ {m} : reg'.on[n] = reg.on[n] /\ reg'.ep[n] = reg.ep[n]
             /\ epochs' \in [Modules -> Nat]
             /\ lc' \in [Modules -> LifecycleStates] /\ \A n \in Modules \ {m} : lc'[n] = lc[n]
             /\ gate' \in [Modules -> Nat] /\ \A n \in Modules \ {m} : gate'[n] = gate[n]
             /\ gate'[m] = 0
             /\ m \in runs' => inst'[m].has /\ ~inst'[m].done
  <2>1. m \in runs' => inst'[m].has /\ ~inst'[m].done
    BY <1>1 DEF ActivationInv, PackageHolds
  <2>2. CASE m \in reg.in
    <3>1. /\ reg' \in Registries /\ reg'.in = reg.in
          /\ \A n \in Modules \ {m} : reg'.on[n] = reg.on[n] /\ reg'.ep[n] = reg.ep[n]
          /\ epochs' \in [Modules -> Nat]
          /\ lc' \in [Modules -> LifecycleStates] /\ \A n \in Modules \ {m} : lc'[n] = lc[n]
          /\ gate' \in [Modules -> Nat] /\ \A n \in Modules \ {m} : gate'[n] = gate[n]
          /\ gate'[m] = 0
      BY <1>2, <1>4, <2>2, QuiesceFields
    <3>2. reg'.rev \in Nat
      BY <3>1 DEF Registries
    <3> QED BY <2>1, <3>1, <3>2
  <2>3. CASE m \notin reg.in
    <3>1. gate[m] = 0
      BY <1>1, <2>3, RegisteredBuilt
    <3> QED BY <1>4, <2>1, <2>3, <3>1, TypeFacts
  <2> QED BY <2>2, <2>3
<1>5. CASE /\ IF m \in reg.in THEN Quiesce(m, op[m].id) ELSE UNCHANGED <<lc, reg, epochs, gate>>
           /\ op' = [op EXCEPT ![m].pc = "off", ![m].prep = TRUE, ![m].exp = reg'.rev]
           /\ journal' = Prepared(m, FALSE)
  <2>1. /\ reg' \in Registries /\ reg'.in = reg.in /\ reg'.rev \in Nat
        /\ \A n \in Modules \ {m} : reg'.on[n] = reg.on[n] /\ reg'.ep[n] = reg.ep[n]
        /\ epochs' \in [Modules -> Nat]
        /\ lc' \in [Modules -> LifecycleStates] /\ \A n \in Modules \ {m} : lc'[n] = lc[n]
        /\ gate' \in [Modules -> Nat] /\ \A n \in Modules \ {m} : gate'[n] = gate[n]
        /\ gate'[m] = 0
        /\ m \in runs' => inst'[m].has /\ ~inst'[m].done
    BY <1>4, <1>5
  <2>2. PICK rev \in Nat : rev = reg'.rev
    BY <2>1
  <2> DEFINE r == [op[m] EXCEPT !.pc = "off", !.prep = TRUE, !.exp = rev]
  <2>3. /\ r \in Operations /\ r.pc = "off" /\ r.id = op[m].id /\ r.on = op[m].on
        /\ r.prep /\ r.lin = op[m].lin
    BY <1>1 DEF Operations, OpPcs, DisablePcs
  <2>4. op' = [op EXCEPT ![m] = r]
    BY <1>5, <2>2
  <2> HIDE DEF r
  <2>5. op' \in [Modules -> Operations] /\ op'[m] = r /\ \A n \in Modules \ {m} : op'[n] = op[n]
    BY <1>1, <2>3, <2>4, OpSet
  <2>6. /\ journal' \in [OpIds -> JournalRows]
        /\ journal'[op[m].id].ph = "prepared" /\ journal'[op[m].id].of = m
        /\ journal'[op[m].id].new = FALSE
        /\ \A o \in OpIds : o # op[m].id => journal'[o] = journal[o]
        /\ intent[m].by # op[m].id
    BY <1>1, <1>2, <1>5, PreparedRow
  <2>7. PcHolds(m)'
    BY <1>1, <1>2, <2>1, <2>3, <2>5 DEF PcHolds, EnablePcs, DisablePcs, OwnPcs, BuiltPcs, ShutPcs, RunPcs
  <2>8. RowHolds(m)'
    <3>1. op[m].on = FALSE
      BY <1>1, <1>2 DEF Operations
    <3>2. op'[m].pc = "off" /\ op'[m].id = op[m].id /\ op'[m].on = FALSE /\ op'[m].prep
      BY <2>3, <2>5, <3>1
    <3>3. op[m].id <= used' /\ \A n \in Modules : intent'[n].by # op[m].id
      BY <1>1, <1>2 DEF Holds, RowHolds, EarlyPcs
    <3> QED BY <2>6, <3>2, <3>3 DEF RowHolds
  <2>9. IntentHolds(m)'
    <3>1. intent[m].by # 0 => intent[m].by \in OpIds
      BY Constants, TypeFacts DEF IntentRows
    <3> QED BY <1>1, <1>2, <2>3, <2>5, <2>6, <3>1, Constants DEF Holds, IntentHolds
  <2>10. Holds(m)'
    BY <1>1, <2>1, <2>6, <2>7, <2>8, <2>9 DEF Holds, GateHolds, JournalHolds
  <2>11. \A o \in OpIds : journal'[o] = journal[o] \/ (o = op[m].id /\ op[m].pc \in {"prepare", "quiesce"})
    BY <1>1, <2>6
  <2>12. CASE pkg.st = "built"
    BY <1>1, <2>1, <2>3, <2>5, <2>6, <2>10, <2>11, <2>12, LiveStep, TypeFacts
  <2>13. CASE pkg.st # "built"
    <3>1. UNCHANGED live
      BY <1>1, <1>5, <2>13, RegisteredBuilt DEF live
    <3> QED BY <1>1, <2>3, <2>5, <2>6, <2>10, <2>11, <3>1, DurableStep, TypeFacts
  <2> QED BY <2>12, <2>13
<1>6. CASE /\ m \in reg.in /\ Quiesce(m, op[m].id) /\ Step(m, "errstop") /\ UNCHANGED journal
  <2>1. /\ reg' \in Registries /\ reg'.in = reg.in
        /\ \A n \in Modules \ {m} : reg'.on[n] = reg.on[n] /\ reg'.ep[n] = reg.ep[n]
        /\ epochs' \in [Modules -> Nat]
        /\ lc' \in [Modules -> LifecycleStates] /\ \A n \in Modules \ {m} : lc'[n] = lc[n]
        /\ gate' \in [Modules -> Nat] /\ \A n \in Modules \ {m} : gate'[n] = gate[n]
        /\ gate'[m] = 0
        /\ m \in runs' => inst'[m].has /\ ~inst'[m].done
    BY <1>4, <1>6
  <2>2. "errstop" \in OpPcs /\ pkg.st = "built"
    BY <1>1, <1>6, RegisteredBuilt DEF OpPcs, DisablePcs
  <2>3. /\ op' \in [Modules -> Operations]
        /\ op'[m].pc = "errstop" /\ op'[m].id = op[m].id /\ op'[m].on = op[m].on
        /\ op'[m].prep = op[m].prep /\ op'[m].lin = op[m].lin
        /\ \A n \in Modules \ {m} : op'[n] = op[n]
    BY <1>1, <1>6, <2>2, StepFields
  <2>4. PcHolds(m)' /\ RowHolds(m)'
    BY <1>1, <1>2, <1>6, <2>1, <2>2, <2>3, MovesOn DEF EnablePcs, DisablePcs, OwnPcs, BuiltPcs, ShutPcs, RunPcs,
       EarlyPcs, RowPcs
  <2>5. Holds(m)'
    BY <1>1, <1>2, <1>6, <2>1, <2>3, <2>4, Constants DEF Holds, IntentHolds, GateHolds, JournalHolds
  <2> QED BY <1>1, <1>6, <2>1, <2>2, <2>3, <2>5, LiveStep, TypeFacts
<1> QED BY <1>3, <1>5, <1>6 DEF QuiesceDisable

LEMMA CommitDisableKeeps == ASSUME ActivationInv, NEW m \in Modules, CommitDisable(m) PROVE ActivationInv'
<1>1. /\ Typed /\ Holds(m) /\ op[m] \in Operations /\ op[m].pc = "off"
      /\ UNCHANGED <<gen, live, pkg, loose, proc, todo, used>>
      /\ lock' \subseteq Modules /\ loose' \subseteq Modules /\ faults' \in Nat
  BY TypeFacts, FaultCounts DEF CommitDisable, Typed, HostTyped
<1>2. /\ ~op[m].on /\ op[m].id # 0 /\ proc \notin {"down", "closed"} /\ op[m].id \in OpIds /\ gate[m] = 0
      /\ op[m].prep /\ journal[op[m].id].ph = "prepared" /\ \A n \in Modules : intent[n].by # op[m].id
      /\ gate'[m] = 0
  BY <1>1 DEF Holds, PcHolds, RowHolds, DisablePcs, OwnPcs, ShutPcs, RowPcs, EarlyPcs, live
<1>3. ASSUME NEW pc \in {"errstop", "hide", "offerror"}, op'[m].pc = pc, op'[m].id = op[m].id, op'[m].on = op[m].on,
             op'[m].prep = op[m].prep, pc = "errstop" => m \in reg.in,
             op' \in [Modules -> Operations], \A n \in Modules \ {m} : op'[n] = op[n]
      PROVE  PcHolds(m)'
  <2>1. pc = "errstop" => pkg.st = "built"
    BY <1>1, <1>3, RegisteredBuilt
  <2> QED
    BY <1>1, <1>2, <1>3, <2>1 DEF PcHolds, EnablePcs, DisablePcs, OwnPcs, BuiltPcs, ShutPcs, RunPcs
<1>4. CASE /\ journal' = Marked(journal, op[m].id, "compensated")
           /\ IF m \in reg.in THEN Step(m, "errstop") ELSE op' = [op EXCEPT ![m] = Idle]
           /\ UNCHANGED intent
  <2>1. "compensated" \in Phases
    BY DEF Phases
  <2>2. /\ journal' \in [OpIds -> JournalRows]
        /\ \A k \in OpIds : k # op[m].id => journal'[k] = journal[k]
        /\ journal'[op[m].id].of = journal[op[m].id].of /\ journal'[op[m].id].new = journal[op[m].id].new
    BY <1>2, <1>4, <2>1, TypeFacts, MarkedRow
  <2>3. /\ op' \in [Modules -> Operations] /\ \A n \in Modules \ {m} : op'[n] = op[n]
        /\ op'[m] = Idle \/ (op'[m].pc # "idle" /\ op'[m].id = op[m].id)
        /\ PcHolds(m)' /\ RowHolds(m)' /\ op'[m].pc # "publish" /\ op'[m].id # Restore
    <3>1. CASE m \in reg.in
      <4>1. /\ op' \in [Modules -> Operations]
            /\ op'[m].pc = "errstop" /\ op'[m].id = op[m].id /\ op'[m].on = op[m].on
            /\ op'[m].prep = op[m].prep /\ op'[m].lin = op[m].lin
            /\ \A n \in Modules \ {m} : op'[n] = op[n]
        BY <1>1, <1>4, <3>1, StepFields DEF OpPcs, DisablePcs
      <4>2. PcHolds(m)'
        BY <1>3, <3>1, <4>1
      <4>3. RowHolds(m)'
        BY <1>1, <1>2, <2>2, <4>1 DEF Holds, RowHolds, EarlyPcs, RowPcs
      <4> QED BY <1>2, <4>1, <4>2, <4>3, Constants
    <3>2. CASE m \notin reg.in
      BY <1>1, <1>4, <3>2, OpSet, RecordsTyped, IdleHolds, Constants
    <3> QED BY <3>1, <3>2
  <2>4. IntentHolds(m)'
    <3>1. intent[m].by # 0 => intent[m].by \in OpIds
      BY Constants, TypeFacts DEF IntentRows
    <3> QED BY <1>1, <1>2, <1>4, <2>2, <2>3, <3>1 DEF Holds, IntentHolds
  <2>5. JournalHolds(m)'
    BY <1>1, <1>2, <1>4, <2>2 DEF Holds, JournalHolds
  <2>6. Holds(m)'
    BY <1>1, <1>2, <2>3, <2>4, <2>5 DEF Holds, GateHolds
  <2> QED BY <1>1, <1>2, <1>4, <2>2, <2>3, <2>6, DurableStep, TypeFacts
<1>5. ASSUME CommitIntent(m), NEW pc \in {"hide", "offerror"}, op'[m].pc = pc,
             op'[m].id = op[m].id, op'[m].on = op[m].on, op'[m].prep = op[m].prep,
             op' \in [Modules -> Operations], \A n \in Modules \ {m} : op'[n] = op[n]
      PROVE  ActivationInv'
  <2>1. /\ intent' \in [Modules -> IntentRows] /\ \A n \in Modules \ {m} : intent'[n] = intent[n]
        /\ intent'[m].by = op[m].id /\ intent'[m].on = op[m].on
        /\ journal' \in [OpIds -> JournalRows]
        /\ \A o \in OpIds : o # op[m].id => journal'[o] = journal[o]
        /\ journal'[op[m].id].ph = "committed" /\ journal'[op[m].id].of = m
        /\ journal'[op[m].id].new = op[m].on
    BY <1>1, <1>2, <1>5, CommittedRow
  <2>2. PcHolds(m)'
    BY <1>3, <1>5
  <2>3. RowHolds(m)'
    BY <1>1, <1>2, <1>5, <2>1 DEF Holds, RowHolds, EarlyPcs, RowPcs
  <2>4. IntentHolds(m)'
    BY <1>1, <1>2, <1>5, <2>1, Constants DEF Holds, RowHolds, IntentHolds
  <2>5. JournalHolds(m)' /\ GateHolds(m)'
    BY <1>2, <2>1 DEF JournalHolds, GateHolds
  <2>6. Holds(m)'
    BY <2>2, <2>3, <2>4, <2>5 DEF Holds
  <2>7. op'[m].pc # "idle"
    BY <1>5
  <2> QED BY <1>1, <1>2, <1>5, <2>1, <2>6, <2>7, DurableStep
<1>6. ASSUME Step(m, "offerror")
      PROVE  /\ op' \in [Modules -> Operations] /\ \A n \in Modules \ {m} : op'[n] = op[n]
             /\ op'[m].pc = "offerror" /\ op'[m].id = op[m].id /\ op'[m].on = op[m].on /\ op'[m].prep = op[m].prep
  BY <1>1, <1>6, StepFields DEF OpPcs, DisablePcs
<1>7. CASE CommitIntent(m) /\ op' = [op EXCEPT ![m].pc = "hide", ![m].com = TRUE, ![m].lin = TRUE]
  <2> DEFINE r == [op[m] EXCEPT !.pc = "hide", !.com = TRUE, !.lin = TRUE]
  <2>1. /\ r \in Operations /\ r.pc = "hide" /\ r.id = op[m].id /\ r.on = op[m].on
        /\ r.prep = op[m].prep
    BY <1>1 DEF Operations, OpPcs, DisablePcs
  <2>2. op' = [op EXCEPT ![m] = r]
    BY <1>7
  <2> HIDE DEF r
  <2>3. op' \in [Modules -> Operations] /\ op'[m] = r /\ \A n \in Modules \ {m} : op'[n] = op[n]
    BY <1>1, <2>1, <2>2, OpSet
  <2> QED BY <1>5, <1>7, <2>1, <2>3
<1>8. CASE CommitIntent(m) /\ Step(m, "offerror")
  BY <1>5, <1>6, <1>8
<1>9. CASE Step(m, "offerror") /\ UNCHANGED <<intent, journal>>
  <2>1. /\ op' \in [Modules -> Operations] /\ \A n \in Modules \ {m} : op'[n] = op[n]
        /\ op'[m].pc = "offerror" /\ op'[m].id = op[m].id /\ op'[m].on = op[m].on /\ op'[m].prep = op[m].prep
    BY <1>6, <1>9
  <2>2. PcHolds(m)'
    BY <1>3, <2>1
  <2>3. RowHolds(m)'
    BY <1>1, <1>2, <1>9, <2>1 DEF Holds, RowHolds, EarlyPcs, RowPcs
  <2> QED BY <1>1, <1>9, <2>1, <2>2, <2>3, QuietStep DEF durable, ActivationInv, PackageHolds
<1> QED BY <1>4, <1>7, <1>8, <1>9 DEF CommitDisable

LEMMA PublishDisableKeeps == ASSUME ActivationInv, NEW m \in Modules, PublishDisable(m) PROVE ActivationInv'
<1>1. /\ Typed /\ Holds(m) /\ op[m] \in Operations /\ op[m].pc = "hide"
      /\ UNCHANGED <<intent, gen, epochs, lc, inst, runs, gate, pkg, loose, proc, todo, used, faults>>
      /\ lock' \subseteq Modules /\ loose' \subseteq Modules /\ faults' \in Nat
  BY TypeFacts DEF PublishDisable, Typed, HostTyped
<1>2. /\ ~op[m].on /\ op[m].id # 0 /\ proc \notin {"down", "closed"} /\ op[m].id \in OpIds /\ gate[m] = 0
      /\ op[m].prep
  BY <1>1 DEF Holds, PcHolds, RowHolds, DisablePcs, OwnPcs, ShutPcs
<1>3. ASSUME NEW pc \in {"offstop", "errstop", "applied"}, Step(m, pc), pc # "applied" => m \in reg.in,
             journal' \in [OpIds -> JournalRows],
             journal'[op[m].id].of = journal[op[m].id].of /\ journal'[op[m].id].new = journal[op[m].id].new
      PROVE  /\ op' \in [Modules -> Operations] /\ \A n \in Modules \ {m} : op'[n] = op[n]
             /\ op'[m].pc = pc /\ op'[m].id = op[m].id /\ PcHolds(m)' /\ RowHolds(m)'
  <2>1. pc \in OpPcs /\ (pc # "applied" => pkg.st = "built")
    BY <1>1, <1>3, RegisteredBuilt DEF OpPcs, DisablePcs
  <2>2. /\ op' \in [Modules -> Operations]
        /\ op'[m].pc = pc /\ op'[m].id = op[m].id /\ op'[m].on = op[m].on
        /\ op'[m].prep = op[m].prep /\ op'[m].lin = op[m].lin
        /\ \A n \in Modules \ {m} : op'[n] = op[n]
    BY <1>1, <1>3, <2>1, StepFields
  <2>3. PcHolds(m)'
    BY <1>1, <1>2, <2>1, <2>2 DEF PcHolds, EnablePcs, DisablePcs, OwnPcs, BuiltPcs, ShutPcs, RunPcs
  <2>4. RowHolds(m)'
    BY <1>1, <1>2, <1>3, <2>2 DEF Holds, RowHolds, EarlyPcs, RowPcs
  <2> QED BY <2>2, <2>3, <2>4
<1>4. CASE m \in reg.in /\ reg' = Projected(m, FALSE, lc[m].id) /\ Step(m, "offstop") /\ UNCHANGED journal
  <2>1. /\ op' \in [Modules -> Operations] /\ \A n \in Modules \ {m} : op'[n] = op[n]
        /\ op'[m].pc = "offstop" /\ op'[m].id = op[m].id /\ PcHolds(m)' /\ RowHolds(m)'
    BY <1>3, <1>4, TypeFacts
  <2>2. pkg.st = "built" /\ lc[m].id \in Nat
    BY <1>1, <1>4, RegisteredBuilt, TypeFacts DEF LifecycleStates
  <2>3. /\ reg' \in Registries /\ reg'.in = reg.in
        /\ \A n \in Modules \ {m} : reg'.on[n] = reg.on[n] /\ reg'.ep[n] = reg.ep[n]
    BY <1>4, <2>2, ProjectedReg
  <2>4. Holds(m)'
    BY <1>1, <1>2, <1>4, <2>1, Constants DEF Holds, IntentHolds, GateHolds, JournalHolds
  <2>5. m \in runs' => inst'[m].has /\ ~inst'[m].done
    BY <1>1 DEF ActivationInv, PackageHolds
  <2> QED BY <1>1, <1>4, <2>1, <2>2, <2>3, <2>4, <2>5, LiveStep, TypeFacts
<1>5. CASE m \in reg.in /\ journal' = Marked(journal, op[m].id, "recovery") /\ Step(m, "errstop") /\ UNCHANGED reg
  <2>1. /\ journal' \in [OpIds -> JournalRows]
        /\ \A k \in OpIds : k # op[m].id => journal'[k] = journal[k]
        /\ journal'[op[m].id].of = journal[op[m].id].of /\ journal'[op[m].id].new = journal[op[m].id].new
        /\ JournalHolds(m)'
    BY <1>1, <1>2, <1>5, RecoveryMarked
  <2>2. /\ op' \in [Modules -> Operations] /\ \A n \in Modules \ {m} : op'[n] = op[n]
        /\ op'[m].pc = "errstop" /\ op'[m].id = op[m].id /\ PcHolds(m)' /\ RowHolds(m)'
    BY <1>3, <1>5, <2>1
  <2>3. IntentHolds(m)'
    <3>1. intent[m].by # 0 => intent[m].by \in OpIds
      BY Constants, TypeFacts DEF IntentRows
    <3> QED BY <1>1, <1>2, <2>1, <2>2, <3>1, Constants DEF Holds, IntentHolds
  <2>4. Holds(m)'
    BY <1>1, <1>2, <2>1, <2>2, <2>3 DEF Holds, GateHolds
  <2> QED BY <1>1, <1>2, <1>5, <2>1, <2>2, <2>4, DurableStep, TypeFacts DEF live
<1>6. CASE m \notin reg.in /\ Step(m, "applied") /\ UNCHANGED <<reg, journal>>
  <2>1. /\ op' \in [Modules -> Operations] /\ \A n \in Modules \ {m} : op'[n] = op[n]
        /\ op'[m].pc = "applied" /\ op'[m].id = op[m].id /\ PcHolds(m)' /\ RowHolds(m)'
    BY <1>3, <1>6, TypeFacts
  <2> QED BY <1>1, <1>6, <2>1, QuietStep DEF live, durable, ActivationInv, PackageHolds
<1> QED BY <1>4, <1>5, <1>6 DEF PublishDisable

LEMMA DisableErrorKeeps == ASSUME ActivationInv, NEW m \in Modules, DisableError(m) PROVE ActivationInv'
<1> DEFINE o == op[m].id
           happened == journal[o].ph = "committed" /\ intent[m].by = o /\ ~intent[m].on
<1>1. /\ Typed /\ Holds(m) /\ op[m] \in Operations /\ op[m].pc = "offerror"
      /\ UNCHANGED <<intent, gen, live, pkg, loose, lock, proc, todo, used>>
      /\ lock' \subseteq Modules /\ loose' \subseteq Modules /\ faults' \in Nat
  BY TypeFacts, FaultCounts DEF DisableError, Typed, HostTyped
<1>2. /\ ~op[m].on /\ op[m].id # 0 /\ proc \notin {"down", "closed"} /\ op[m].id \in OpIds /\ gate[m] = 0
      /\ op[m].prep /\ journal[o].ph \in {"prepared", "committed"} /\ journal[o].new = op[m].on
      /\ gate'[m] = 0
  BY <1>1 DEF Holds, PcHolds, RowHolds, DisablePcs, OwnPcs, ShutPcs, RowPcs, live
<1>3. ASSUME journal' \in [OpIds -> JournalRows],
             journal'[o].of = journal[o].of /\ journal'[o].new = journal[o].new
      PROVE  /\ op' \in [Modules -> Operations] /\ \A n \in Modules \ {m} : op'[n] = op[n]
             /\ op'[m] = Idle \/ (op'[m].pc # "idle" /\ op'[m].id = op[m].id)
             /\ PcHolds(m)' /\ RowHolds(m)' /\ op'[m].pc # "publish" /\ op'[m].id # Restore
  <2>1. CASE m \in reg.in
    <3>1. pkg.st = "built" /\ "errstop" \in OpPcs
      BY <1>1, <2>1, RegisteredBuilt DEF OpPcs, DisablePcs
    <3>2. /\ op' \in [Modules -> Operations]
          /\ op'[m].pc = "errstop" /\ op'[m].id = op[m].id /\ op'[m].on = op[m].on
          /\ op'[m].prep = op[m].prep /\ op'[m].lin = op[m].lin
          /\ \A n \in Modules \ {m} : op'[n] = op[n]
      BY <1>1, <2>1, <3>1, StepFields DEF DisableError
    <3>3. PcHolds(m)'
      BY <1>1, <1>2, <3>1, <3>2 DEF PcHolds, EnablePcs, DisablePcs, OwnPcs, BuiltPcs, ShutPcs, RunPcs
    <3>4. RowHolds(m)'
      BY <1>1, <1>2, <1>3, <3>2 DEF Holds, RowHolds, EarlyPcs, RowPcs
    <3> QED BY <1>2, <3>2, <3>3, <3>4, Constants
  <2>2. CASE m \notin reg.in
    <3>1. op' = [op EXCEPT ![m] = Idle]
      BY <2>2 DEF DisableError
    <3> QED BY <1>1, <3>1, OpSet, RecordsTyped, IdleHolds, Constants
  <2> QED BY <2>1, <2>2
<1>4. CASE UNCHANGED journal
  <2>1. /\ op' \in [Modules -> Operations] /\ \A n \in Modules \ {m} : op'[n] = op[n]
        /\ op'[m] = Idle \/ (op'[m].pc # "idle" /\ op'[m].id = op[m].id)
        /\ PcHolds(m)' /\ RowHolds(m)' /\ op'[m].pc # "publish"
    BY <1>3, <1>4, TypeFacts
  <2> QED BY <1>1, <1>4, <2>1, QuietStep DEF durable, ActivationInv, PackageHolds
<1>5. CASE journal' = Marked(journal, o, IF happened THEN "recovery" ELSE "compensated")
  <2>1. intent[m].by = o => happened
    BY <1>1, <1>2 DEF Holds, JournalHolds
  <2>2. /\ journal' \in [OpIds -> JournalRows]
        /\ \A k \in OpIds : k # o => journal'[k] = journal[k]
        /\ journal'[o].of = journal[o].of /\ journal'[o].new = journal[o].new
        /\ JournalHolds(m)'
    <3>1. CASE happened
      BY <1>1, <1>2, <1>5, <3>1, RecoveryMarked
    <3>2. CASE ~happened
      <4>1. "compensated" \in Phases /\ journal \in [OpIds -> JournalRows]
        BY TypeFacts DEF Phases
      <4>2. /\ journal' \in [OpIds -> JournalRows]
            /\ \A k \in OpIds : k # o => journal'[k] = journal[k]
            /\ journal'[o].of = journal[o].of /\ journal'[o].new = journal[o].new
        BY <1>2, <1>5, <3>2, <4>1, MarkedRow
      <4> QED BY <1>1, <2>1, <3>2, <4>2 DEF Holds, JournalHolds
    <3> QED BY <3>1, <3>2
  <2>3. /\ op' \in [Modules -> Operations] /\ \A n \in Modules \ {m} : op'[n] = op[n]
        /\ op'[m] = Idle \/ (op'[m].pc # "idle" /\ op'[m].id = op[m].id)
        /\ PcHolds(m)' /\ RowHolds(m)' /\ op'[m].pc # "publish" /\ op'[m].id # Restore
    BY <1>3, <2>2
  <2>4. IntentHolds(m)'
    <3>1. intent[m].by # 0 => intent[m].by \in OpIds
      BY Constants, TypeFacts DEF IntentRows
    <3> QED BY <1>1, <2>2, <2>3, <3>1 DEF Holds, IntentHolds
  <2>5. Holds(m)'
    BY <1>1, <1>2, <2>2, <2>3, <2>4 DEF Holds, GateHolds
  <2> QED BY <1>1, <1>2, <2>2, <2>3, <2>5, DurableStep, TypeFacts
<1> QED BY <1>4, <1>5 DEF DisableError

LEMMA DisableStopKeeps == ASSUME ActivationInv, NEW m \in Modules, DisableStop(m) PROVE ActivationInv'
<1>1. /\ Typed /\ Holds(m) /\ op[m] \in Operations /\ op[m].pc \in {"offstop", "errstop"}
      /\ UNCHANGED <<intent, gen, reg, epochs, pkg, loose, lock, proc, todo, used>>
      /\ lock' \subseteq Modules /\ loose' \subseteq Modules /\ faults' \in Nat
  BY TypeFacts, FaultCounts DEF DisableStop, Typed, HostTyped
<1>2. /\ ~op[m].on /\ op[m].id # 0 /\ proc \notin {"down", "closed"} /\ op[m].id \in OpIds /\ gate[m] = 0
      /\ (op[m].pc = "offstop" => op[m].prep) /\ pkg.st = "built" /\ op[m].id \in 0..Restore
  BY <1>1 DEF Holds, PcHolds, RowHolds, DisablePcs, OwnPcs, ShutPcs, BuiltPcs, Operations
<1>3. ASSUME op' = [op EXCEPT ![m] = Idle]
      PROVE  /\ op' \in [Modules -> Operations] /\ \A n \in Modules \ {m} : op'[n] = op[n]
             /\ op'[m] = Idle /\ PcHolds(m)' /\ RowHolds(m)' /\ op'[m].pc # "publish" /\ op'[m].id = 0
  BY <1>1, <1>3, OpSet, RecordsTyped, IdleHolds
<1>4. CASE /\ Stopped(m) /\ UNCHANGED <<gate, journal, faults>>
           /\ IF op[m].pc = "offstop" THEN Step(m, "applied") ELSE op' = [op EXCEPT ![m] = Idle]
  <2>1. /\ lc' \in [Modules -> LifecycleStates] /\ \A n \in Modules \ {m} : lc'[n] = lc[n]
        /\ inst' \in [Modules -> Instances] /\ \A n \in Modules \ {m} : inst'[n] = inst[n]
        /\ runs' = runs \ {m} /\ m \notin runs'
    BY <1>4, StoppedFields
  <2>2. /\ op' \in [Modules -> Operations] /\ \A n \in Modules \ {m} : op'[n] = op[n]
        /\ op'[m] = Idle \/ (op'[m].pc # "idle" /\ op'[m].id = op[m].id)
        /\ PcHolds(m)' /\ RowHolds(m)' /\ op'[m].pc # "publish" /\ op'[m].id # Restore
    <3>1. CASE op[m].pc = "offstop"
      <4>1. "applied" \in OpPcs /\ Step(m, "applied")
        BY <1>4, <3>1 DEF OpPcs
      <4>2. /\ op' \in [Modules -> Operations]
            /\ op'[m].pc = "applied" /\ op'[m].id = op[m].id /\ op'[m].on = op[m].on
            /\ op'[m].prep = op[m].prep /\ op'[m].lin = op[m].lin
            /\ \A n \in Modules \ {m} : op'[n] = op[n]
        BY <1>1, <4>1, StepFields
      <4>3. PcHolds(m)'
        BY <1>1, <1>2, <4>2 DEF PcHolds, EnablePcs, DisablePcs, OwnPcs, BuiltPcs, ShutPcs, RunPcs
      <4>4. RowHolds(m)'
        BY <1>1, <1>2, <1>4, <3>1, <4>2 DEF Holds, RowHolds, EarlyPcs, RowPcs
      <4> QED BY <1>2, <4>2, <4>3, <4>4, Constants
    <3>2. CASE op[m].pc = "errstop"
      <4>1. op' = [op EXCEPT ![m] = Idle]
        BY <1>4, <3>2
      <4> QED BY <1>3, <4>1, Constants
    <3> QED BY <1>1, <3>1, <3>2
  <2>3. Holds(m)'
    BY <1>1, <1>2, <1>4, <2>2 DEF Holds, IntentHolds, GateHolds, JournalHolds
  <2> QED BY <1>1, <1>2, <1>4, <2>1, <2>2, <2>3, LiveStep, TypeFacts
<1>5. CASE /\ StopFails(m, op[m].id) /\ op' = [op EXCEPT ![m] = Idle]
           /\ journal' = IF op[m].pc = "offstop" THEN Marked(journal, op[m].id, "recovery") ELSE journal
  <2>1. /\ lc' \in [Modules -> LifecycleStates] /\ \A n \in Modules \ {m} : lc'[n] = lc[n]
        /\ gate' \in [Modules -> Nat] /\ \A n \in Modules \ {m} : gate'[n] = gate[n]
        /\ gate'[m] = 0 /\ UNCHANGED <<inst, runs>>
        /\ m \in runs' => inst'[m].has /\ ~inst'[m].done
    BY <1>2, <1>5, StopFailsFields
  <2>2. /\ op' \in [Modules -> Operations] /\ \A n \in Modules \ {m} : op'[n] = op[n]
        /\ op'[m] = Idle /\ PcHolds(m)' /\ RowHolds(m)' /\ op'[m].pc # "publish" /\ op'[m].id = 0
    BY <1>3, <1>5
  <2>3. /\ journal' \in [OpIds -> JournalRows]
        /\ \A k \in OpIds : journal'[k] = journal[k] \/ (k = op[m].id /\ op[m].prep)
        /\ \A k \in OpIds : journal'[k].of = journal[k].of /\ journal'[k].new = journal[k].new
        /\ JournalHolds(m)'
    <3>1. CASE op[m].pc = "offstop"
      <4>1. /\ journal' \in [OpIds -> JournalRows]
            /\ \A k \in OpIds : k # op[m].id => journal'[k] = journal[k]
            /\ journal'[op[m].id].of = journal[op[m].id].of /\ journal'[op[m].id].new = journal[op[m].id].new
            /\ JournalHolds(m)'
        BY <1>1, <1>2, <1>5, <3>1, RecoveryMarked
      <4> QED BY <1>2, <3>1, <4>1
    <3>2. CASE op[m].pc # "offstop"
      BY <1>1, <1>5, <3>2, TypeFacts DEF Holds, JournalHolds
    <3> QED BY <3>1, <3>2
  <2>4. IntentHolds(m)'
    <3>1. intent[m].by # 0 => intent[m].by \in OpIds
      BY Constants, TypeFacts DEF IntentRows
    <3> QED BY <1>1, <2>2, <2>3, <3>1, Constants DEF Holds, IntentHolds
  <2>5. Holds(m)'
    BY <2>1, <2>2, <2>3, <2>4 DEF Holds, GateHolds
  <2> QED BY <1>1, <1>2, <2>1, <2>2, <2>3, <2>5, LiveStep, TypeFacts
<1> QED BY <1>4, <1>5 DEF DisableStop

\* Requests, and steps that are no operation's.

LEMMA CallerLeavesKeeps == ASSUME ActivationInv, NEW m \in Modules, CallerLeaves(m) PROVE ActivationInv'
<1>1. /\ Typed /\ Holds(m) /\ op[m] \in Operations /\ op[m].id \in OpIds /\ pkg \in Packages
      /\ UNCHANGED <<durable, live, loose, lock, proc, todo, used>> /\ faults' \in Nat
  BY TypeFacts, FaultCounts DEF CallerLeaves
<1> DEFINE r == [op[m] EXCEPT !.cancel = TRUE]
<1>2. /\ r \in Operations /\ r.pc = op[m].pc /\ r.id = op[m].id /\ r.on = op[m].on
      /\ r.prep = op[m].prep /\ r.lin = op[m].lin
  BY <1>1 DEF Operations
<1>3. op' = [op EXCEPT ![m] = r]
  BY DEF CallerLeaves
<1> HIDE DEF r
<1>4. op' \in [Modules -> Operations] /\ op'[m] = r /\ \A n \in Modules \ {m} : op'[n] = op[n]
  BY <1>1, <1>2, <1>3, OpSet
<1>5. op[m].pc # "idle"
  BY <1>1, Constants DEF Holds, PcHolds, Idle
<1>6. pkg' \in Packages /\ pkg'.st = pkg.st /\ pkg'.lease = pkg.lease
  BY <1>1 DEF CallerLeaves, Unwaited, Packages
<1>7. PcHolds(m)'
  BY <1>1, <1>2, <1>4, <1>5, <1>6 DEF live, Holds, PcHolds
<1>8. RowHolds(m)'
  BY <1>1, <1>2, <1>4 DEF durable, Holds, RowHolds, RowPcs
<1>9. Holds(m)'
  BY <1>1, <1>2, <1>4, <1>7, <1>8 DEF durable, live, Holds, IntentHolds, GateHolds, JournalHolds
<1>10. Typed'
  BY <1>1, <1>4, <1>6 DEF Typed, DurableTyped, LiveTyped, HostTyped, durable, live
<1>11. StepOf(m)
  BY <1>1, <1>2, <1>4, <1>5, <1>6 DEF StepOf, durable, live
<1>12. PackageHolds'
  BY <1>1, <1>6 DEF ActivationInv, PackageHolds, live
<1> QED BY <1>9, <1>10, <1>11, <1>12, StepKeeps

LEMMA SetEnabledKeeps ==
    ASSUME ActivationInv, NEW m \in Modules, NEW on \in BOOLEAN, SetEnabled(m, on) PROVE ActivationInv'
<1>1. /\ Typed /\ Holds(m) /\ op[m] = Idle /\ proc = "open" /\ used < MaxOps /\ used' = used + 1
      /\ UNCHANGED <<durable, live, pkg, loose, lock, proc, todo, faults>>
  BY TypeFacts DEF SetEnabled
<1>2. used \in 0..MaxOps /\ used + 1 \in OpIds /\ used + 1 \in 0..Restore /\ reg.rev \in Nat
      /\ intent[m].rev \in Nat /\ gen \in Nat /\ used' \in 0..MaxOps
  <2>1. used \in 0..MaxOps /\ used + 1 \in OpIds /\ used + 1 \in 0..Restore /\ used + 1 \in 0..MaxOps
    BY <1>1, Constants DEF Typed, DurableTyped, OpIds, Restore
  <2>2. intent[m].rev \in Nat /\ reg.rev \in Nat
    BY TypeFacts DEF IntentRows
  <2> QED BY <1>1, <2>1, <2>2 DEF Typed, DurableTyped
<1> DEFINE pc == IF on THEN "ensure" ELSE "quiesce"
           r == [Idle EXCEPT !.pc = pc, !.id = used + 1, !.on = on, !.exp = reg.rev,
                             !.irev = intent[m].rev, !.gen = gen]
<1>3. pc \in OpPcs /\ (on => pc = "ensure") /\ (~on => pc = "quiesce")
  BY DEF OpPcs, EnablePcs, DisablePcs
<1>4. op' = [op EXCEPT ![m] = r]
  BY DEF SetEnabled
<1> HIDE DEF pc
<1>5. r \in Operations /\ r.pc = pc /\ r.id = used + 1 /\ r.on = on /\ ~r.prep /\ ~r.lin
  BY <1>2, <1>3 DEF Operations, Idle
<1> HIDE DEF r
<1>6. op' \in [Modules -> Operations] /\ op'[m] = r /\ \A n \in Modules \ {m} : op'[n] = op[n]
  BY <1>1, <1>4, <1>5, OpSet
<1>7. \A n \in Modules : intent[n].by # used + 1 /\ intent[n].by <= used + 1 /\ intent[n].by \in 0..MaxOps
  <2> TAKE n \in Modules
  <2>1. Holds(n) /\ intent[n] \in IntentRows
    BY TypeFacts
  <2>2. intent[n].by \in Nat /\ intent[n].by <= used
    BY <2>1, Constants DEF Holds, IntentHolds, IntentRows
  <2> QED BY <1>2, <2>1, <2>2 DEF IntentRows
<1>8. Holds(m)'
  <2>1. PcHolds(m)'
    BY <1>1, <1>2, <1>3, <1>5, <1>6, Constants DEF PcHolds, EnablePcs, DisablePcs, OwnPcs, BuiltPcs, ShutPcs, RunPcs
  <2>2. RowHolds(m)'
    BY <1>1, <1>2, <1>3, <1>5, <1>6, <1>7 DEF RowHolds, RowPcs, EarlyPcs, durable
  <2>3. IntentHolds(m)'
    BY <1>1, <1>2, <1>3, <1>5, <1>6, <1>7, Constants DEF Holds, IntentHolds, durable
  <2> QED BY <1>1, <2>1, <2>2, <2>3 DEF Holds, GateHolds, JournalHolds, durable, live
<1>9. \A n \in Modules \ {m} : Holds(n)'
  <2> TAKE n \in Modules \ {m}
  <2>1. Holds(n) /\ op'[n] = op[n] /\ op[n].id \in 0..Restore
    BY <1>6, TypeFacts DEF Operations
  <2>2. PcHolds(n)'
    BY <1>1, <2>1 DEF Holds, PcHolds, live
  <2>3. RowHolds(n)'
    BY <1>1, <1>2, <2>1, Constants DEF Holds, RowHolds, durable, OpIds
  <2>4. IntentHolds(n)'
    BY <1>1, <1>7, <2>1 DEF Holds, IntentHolds, durable
  <2> QED BY <1>1, <2>1, <2>2, <2>3, <2>4 DEF Holds, GateHolds, JournalHolds, durable, live
<1>10. IdsDiffer'
  <2>1. \A n \in Modules : op[n].id \in OpIds => op[n].id # used + 1
    <3> TAKE n \in Modules
    <3>1. Holds(n)
      BY TypeFacts
    <3> QED BY <1>2, <3>1 DEF Holds, RowHolds, OpIds
  <2>2. \A n \in Modules : op'[n].id = IF n = m THEN used + 1 ELSE op[n].id
    BY <1>5, <1>6
  <2>3. \A k, l \in Modules : op[k].id \in OpIds /\ op[k].id = op[l].id => k = l
    BY DEF ActivationInv, IdsDiffer
  <2> QED BY <2>1, <2>2, <2>3 DEF IdsDiffer
<1>11. Typed'
  BY <1>1, <1>2, <1>6 DEF Typed, DurableTyped, LiveTyped, HostTyped, durable, live
<1>12. PackageHolds' /\ TodoHolds'
  BY <1>1 DEF ActivationInv, PackageHolds, TodoHolds, live
<1> QED BY <1>8, <1>9, <1>10, <1>11, <1>12 DEF ActivationInv

\* A step that leaves the operations alone, and the package too.
LEMMA WorldStep ==
    ASSUME ActivationInv, NEW m \in Modules, UNCHANGED <<durable, op, pkg, loose, lock, proc, todo, used>>,
           pkg.st = "built" \/ proc = "closed",
           reg' \in Registries, reg'.in = reg.in,
           \A n \in Modules \ {m} : reg'.on[n] = reg.on[n] /\ reg'.ep[n] = reg.ep[n],
           epochs' \in [Modules -> Nat],
           lc' \in [Modules -> LifecycleStates], \A n \in Modules \ {m} : lc'[n] = lc[n],
           inst' \in [Modules -> Instances], \A n \in Modules \ {m} : inst'[n] = inst[n],
           gate' \in [Modules -> Nat], \A n \in Modules \ {m} : gate'[n] = gate[n], gate'[m] = 0,
           runs' = runs \/ (runs' = runs \ {m} /\ op[m].pc \notin RunPcs),
           m \in runs' => inst'[m].has /\ ~inst'[m].done,
           op[m].pc = "install" => inst' = inst, faults' \in Nat
    PROVE  ActivationInv'
<1>1. Typed /\ runs \subseteq Modules
  BY TypeFacts
<1>2. Typed'
  BY <1>1 DEF Typed, DurableTyped, LiveTyped, HostTyped, durable
<1>3. \A n \in Modules \ {m} : Holds(n)'
  <2> TAKE n \in Modules \ {m}
  <2>1. Holds(n)
    BY TypeFacts
  <2>2. PcHolds(n)'
    BY <2>1 DEF Holds, PcHolds
  <2>3. RowHolds(n)' /\ IntentHolds(n)' /\ JournalHolds(n)'
    BY <2>1 DEF Holds, RowHolds, IntentHolds, JournalHolds, durable
  <2>4. GateHolds(n)'
    BY <2>1 DEF Holds, GateHolds, durable
  <2> QED BY <2>2, <2>3, <2>4 DEF Holds
<1>4. Holds(m)'
  <2>1. Holds(m)
    BY TypeFacts
  <2>2. PcHolds(m)'
    BY <2>1 DEF Holds, PcHolds
  <2>3. RowHolds(m)' /\ IntentHolds(m)' /\ JournalHolds(m)'
    BY <2>1 DEF Holds, RowHolds, IntentHolds, JournalHolds, durable
  <2> QED BY <2>2, <2>3 DEF Holds, GateHolds
<1>5. PackageHolds'
  BY <1>1 DEF ActivationInv, PackageHolds
<1> QED BY <1>2, <1>3, <1>4, <1>5 DEF ActivationInv, IdsDiffer, TodoHolds, durable

LEMMA IsolateRunKeeps == ASSUME ActivationInv, NEW m \in Modules, IsolateRun(m) PROVE ActivationInv'
<1> DEFINE epoch == Max2(epochs[m], reg.ep[m]) + 1
           r == [lc[m] EXCEPT !.st = "failed", !.id = epoch, !.pend = TRUE]
<1>1. /\ Typed /\ lc[m].st = "active" /\ faults' \in Nat
      /\ epochs' = [epochs EXCEPT ![m] = epoch] /\ reg' = Projected(m, reg.on[m], epoch)
      /\ lc' = [lc EXCEPT ![m] = r] /\ gate' = [gate EXCEPT ![m] = 0]
      /\ UNCHANGED <<durable, inst, runs, op, pkg, loose, lock, proc, todo, used>>
  BY TypeFacts, FaultCounts DEF IsolateRun
<1>2. pkg.st = "built" \/ proc = "closed"
  BY <1>1 DEF ActivationInv, PackageHolds
<1>3. epoch \in Nat
  BY TypeFacts DEF Max2
<1> HIDE DEF epoch
<1>4. r \in LifecycleStates /\ reg.on[m] \in BOOLEAN
  BY <1>3, TypeFacts DEF LifecycleStates
<1> HIDE DEF r
<1>5. /\ reg' \in Registries /\ reg'.in = reg.in
      /\ \A n \in Modules \ {m} : reg'.on[n] = reg.on[n] /\ reg'.ep[n] = reg.ep[n]
  BY <1>1, <1>3, <1>4, ProjectedReg
<1>6. /\ epochs' \in [Modules -> Nat]
      /\ lc' \in [Modules -> LifecycleStates] /\ \A n \in Modules \ {m} : lc'[n] = lc[n]
      /\ gate' \in [Modules -> Nat] /\ gate'[m] = 0 /\ \A n \in Modules \ {m} : gate'[n] = gate[n]
      /\ inst' \in [Modules -> Instances]
  BY <1>1, <1>3, <1>4, TypeFacts
<1>7. m \in runs' => inst'[m].has /\ ~inst'[m].done
  BY <1>1 DEF ActivationInv, PackageHolds
<1> QED BY <1>1, <1>2, <1>5, <1>6, <1>7, WorldStep

LEMMA CloseModuleKeeps == ASSUME ActivationInv, NEW m \in Modules, CloseModule(m) PROVE ActivationInv'
<1>1. /\ Typed /\ faults' \in Nat /\ proc = "closing" /\ op[m] = Idle /\ inst[m].has
      /\ UNCHANGED <<durable, op, pkg, loose, lock, proc, todo, used>>
  BY TypeFacts, FaultCounts DEF CloseModule, Quiet
<1>2. pkg.st = "built"
  BY <1>1 DEF ActivationInv, PackageHolds
<1>3. op[m].pc = "idle" /\ op[m].pc \notin RunPcs /\ Restore \in 0..Restore
  BY <1>1, Constants DEF Idle, RunPcs
<1>4. CASE /\ reg' = IF lc[m].st \in {"stopping", "failed"} /\ lc[m].id = reg.ep[m] THEN reg
                     ELSE Projected(m, reg.on[m], Max2(epochs[m], reg.ep[m]) + 1)
           /\ epochs' = [epochs EXCEPT ![m] = Max2(@, reg'.ep[m])]
           /\ Stopped(m)
           /\ gate' = [gate EXCEPT ![m] = 0]
  <2> DEFINE epoch == Max2(epochs[m], reg.ep[m]) + 1
  <2>1. epoch \in Nat /\ reg.on[m] \in BOOLEAN
    BY TypeFacts DEF Max2
  <2>2. reg' = reg \/ reg' = Projected(m, reg.on[m], epoch)
    BY <1>4
  <2> HIDE DEF epoch
  <2>3. /\ reg' \in Registries /\ reg'.in = reg.in
        /\ \A n \in Modules \ {m} : reg'.on[n] = reg.on[n] /\ reg'.ep[n] = reg.ep[n]
    BY <2>1, <2>2, ProjectedReg, TypeFacts
  <2>4. Max2(epochs[m], reg'.ep[m]) \in Nat
    BY <2>3, TypeFacts DEF Max2, Registries
  <2>5. /\ epochs' \in [Modules -> Nat]
        /\ gate' \in [Modules -> Nat] /\ gate'[m] = 0 /\ \A n \in Modules \ {m} : gate'[n] = gate[n]
    BY <1>4, <2>4, TypeFacts
  <2>6. /\ lc' \in [Modules -> LifecycleStates] /\ \A n \in Modules \ {m} : lc'[n] = lc[n]
        /\ inst' \in [Modules -> Instances] /\ \A n \in Modules \ {m} : inst'[n] = inst[n]
        /\ runs' = runs \ {m} /\ m \notin runs'
    BY <1>4, StoppedFields
  <2> QED BY <1>1, <1>2, <1>3, <2>3, <2>5, <2>6, WorldStep
<1>5. CASE StopFails(m, Restore) /\ UNCHANGED <<reg, epochs>>
  <2>1. /\ lc' \in [Modules -> LifecycleStates] /\ \A n \in Modules \ {m} : lc'[n] = lc[n]
        /\ gate' \in [Modules -> Nat] /\ \A n \in Modules \ {m} : gate'[n] = gate[n]
        /\ gate'[m] = 0 /\ UNCHANGED <<inst, runs>>
        /\ m \in runs' => inst'[m].has /\ ~inst'[m].done
    BY <1>3, <1>5, StopFailsFields
  <2> QED BY <1>1, <1>2, <1>5, <2>1, WorldStep, TypeFacts
<1> QED BY <1>4, <1>5 DEF CloseModule

\* Operations change only what their callers told them, and nothing durable does.
LEMMA PackageStep ==
    ASSUME ActivationInv, Typed', PackageHolds', UNCHANGED <<durable, used>>,
           \A n \in Modules : op'[n].id = op[n].id,
           \A n \in Modules : PcHolds(n)' /\ GateHolds(n)',
           \A n \in Modules : op'[n].on = op[n].on /\ op'[n].prep = op[n].prep /\ op'[n].lin = op[n].lin,
           \A n \in Modules : op'[n].pc = op[n].pc \/ (op[n].pc = "wait" /\ op'[n].pc \in {"built", "unbuilt"}),
           TodoHolds'
    PROVE  ActivationInv'
<1>1. \A n \in Modules : Holds(n)'
  <2> TAKE n \in Modules
  <2>1. Holds(n)
    BY TypeFacts
  <2>2. op'[n].pc \in RowPcs => op[n].pc = op'[n].pc
    BY DEF RowPcs
  <2>3. op'[n].pc \in EarlyPcs => op[n].pc \in EarlyPcs
    BY DEF EarlyPcs
  <2>4. RowHolds(n)'
    BY <2>1, <2>2, <2>3 DEF Holds, RowHolds, durable
  <2>5. IntentHolds(n)' /\ JournalHolds(n)'
    BY <2>1 DEF Holds, IntentHolds, JournalHolds, durable
  <2> QED BY <2>4, <2>5 DEF Holds
<1>2. IdsDiffer'
  BY DEF ActivationInv, IdsDiffer
<1> QED BY <1>1, <1>2 DEF ActivationInv

\* A flight answers those that wait for it.
LEMMA WaitersAnswered ==
    ASSUME ActivationInv, NEW pc \in {"built", "unbuilt"},
           op' = [m \in Modules |-> IF op[m].pc = "wait" THEN [op[m] EXCEPT !.pc = pc] ELSE op[m]]
    PROVE  /\ op' \in [Modules -> Operations]
           /\ \A n \in Modules :
                 /\ op'[n].id = op[n].id /\ op'[n].on = op[n].on
                 /\ op'[n].prep = op[n].prep /\ op'[n].lin = op[n].lin
                 /\ op'[n] = op[n] \/ (op[n].pc = "wait" /\ op'[n].pc = pc)
                 /\ op[n] = Idle => op'[n] = Idle
<1>1. pc \in OpPcs /\ op \in [Modules -> Operations]
  BY DEF OpPcs, EnablePcs, ActivationInv, Typed, HostTyped
<1>2. ASSUME NEW n \in Modules
      PROVE  LET r == [op[n] EXCEPT !.pc = pc]
             IN  r \in Operations /\ r.pc = pc /\ r.id = op[n].id /\ r.on = op[n].on
                 /\ r.prep = op[n].prep /\ r.lin = op[n].lin
  BY <1>1 DEF Operations
<1>3. ASSUME NEW n \in Modules
      PROVE  /\ op'[n] \in Operations
             /\ op'[n].id = op[n].id /\ op'[n].on = op[n].on
             /\ op'[n].prep = op[n].prep /\ op'[n].lin = op[n].lin
             /\ op'[n] = op[n] \/ (op[n].pc = "wait" /\ op'[n].pc = pc)
             /\ op[n] = Idle => op'[n] = Idle
  <2>1. CASE op[n].pc = "wait"
    <3>1. op'[n] = [op[n] EXCEPT !.pc = pc] /\ op[n] # Idle
      BY <2>1 DEF Idle
    <3> QED BY <1>2, <2>1, <3>1
  <2>2. CASE op[n].pc # "wait"
    BY <1>1, <2>2
  <2> QED BY <2>1, <2>2
<1>4. op' \in [Modules -> Operations]
  BY <1>3
<1> QED BY <1>3, <1>4

LEMMA WaitersHold ==
    ASSUME ActivationInv, NEW pc \in {"built", "unbuilt"}, NEW n \in Modules,
           op'[n].id = op[n].id, op'[n].on = op[n].on, op'[n].lin = op[n].lin,
           op'[n] = op[n] \/ (op[n].pc = "wait" /\ op'[n].pc = pc),
           pkg.st # "built", pc = "built" => pkg'.st = "built",
           UNCHANGED <<gate, proc, runs>>
    PROVE  PcHolds(n)'
<1>1. PcHolds(n)
  BY TypeFacts DEF Holds
<1>2. CASE op'[n] = op[n]
  BY <1>1, <1>2 DEF PcHolds, BuiltPcs
<1>3. CASE op[n].pc = "wait" /\ op'[n].pc = pc
  BY <1>1, <1>3 DEF PcHolds, EnablePcs, DisablePcs, OwnPcs, BuiltPcs, ShutPcs, RunPcs
<1> QED BY <1>2, <1>3

LEMMA BuildCaptureKeeps == ASSUME ActivationInv, BuildCapture PROVE ActivationInv'
<1>1. /\ Typed /\ pkg.st = "capture" /\ faults' \in Nat /\ pkg \in Packages
      /\ UNCHANGED <<durable, live, loose, lock, proc, todo, used>>
  BY FaultCounts DEF ActivationInv, BuildCapture, Typed, HostTyped
<1>2. \A n \in Modules : Holds(n) /\ PcHolds(n) /\ GateHolds(n) /\ GateHolds(n)'
  BY <1>1 DEF ActivationInv, Holds, GateHolds, durable, live
<1>3. CASE pkg' = [pkg EXCEPT !.st = "create", !.lease = TRUE] /\ UNCHANGED op
  <2>1. pkg' \in Packages /\ pkg'.st = "create" /\ pkg'.lease
    BY <1>1, <1>3 DEF Packages
  <2>2. Typed'
    BY <1>1, <1>3, <2>1 DEF Typed, DurableTyped, LiveTyped, HostTyped, durable, live
  <2>3. \A n \in Modules : PcHolds(n)'
    BY <1>1, <1>2, <1>3, <2>1 DEF PcHolds, live
  <2>4. PackageHolds' /\ TodoHolds'
    BY <1>1, <1>3, <2>1 DEF ActivationInv, PackageHolds, TodoHolds, live, durable
  <2> QED BY <1>1, <1>2, <1>3, <2>2, <2>3, <2>4, PackageStep
<1>4. CASE /\ pkg' = NoPackage
           /\ op' = [m \in Modules |-> IF op[m].pc = "wait" THEN [op[m] EXCEPT !.pc = "unbuilt"] ELSE op[m]]
  <2>1. pkg' \in Packages /\ pkg'.st = "none" /\ ~pkg'.lease
    BY <1>4, RecordsTyped DEF NoPackage
  <2>2. /\ op' \in [Modules -> Operations]
        /\ \A n \in Modules :
              /\ op'[n].id = op[n].id /\ op'[n].on = op[n].on
              /\ op'[n].prep = op[n].prep /\ op'[n].lin = op[n].lin
              /\ op'[n] = op[n] \/ (op[n].pc = "wait" /\ op'[n].pc = "unbuilt")
              /\ op[n] = Idle => op'[n] = Idle
    BY <1>4, WaitersAnswered
  <2>3. Typed'
    BY <1>1, <2>1, <2>2 DEF Typed, DurableTyped, LiveTyped, HostTyped, durable, live
  <2>4. \A n \in Modules : PcHolds(n)'
    BY <1>1, <2>2, WaitersHold DEF live
  <2>5. PackageHolds' /\ TodoHolds'
    BY <1>1, <2>1, <2>2 DEF ActivationInv, PackageHolds, TodoHolds, live, durable, Typed, HostTyped
  <2> QED BY <1>1, <1>2, <2>2, <2>3, <2>4, <2>5, PackageStep
<1> QED BY <1>3, <1>4 DEF BuildCapture

LEMMA BuildCreateKeeps == ASSUME ActivationInv, NEW m \in Modules, BuildCreate(m) PROVE ActivationInv'
<1>1. /\ Typed /\ pkg.st = "create" /\ pkg \in Packages /\ pkg' = [pkg EXCEPT !.left = @ \ {m}]
      /\ loose' = loose \cup {m}
      /\ UNCHANGED <<durable, live, op, lock, proc, todo, used, faults>>
  BY DEF ActivationInv, BuildCreate, Typed, HostTyped
<1>2. pkg' \in Packages /\ pkg'.st = "create" /\ pkg'.lease = pkg.lease
  BY <1>1 DEF Packages
<1>3. Typed'
  BY <1>1, <1>2 DEF Typed, DurableTyped, LiveTyped, HostTyped, durable, live
<1>4. \A n \in Modules : PcHolds(n)' /\ GateHolds(n)'
  BY <1>1, <1>2 DEF ActivationInv, Holds, PcHolds, GateHolds, durable, live
<1>5. PackageHolds' /\ TodoHolds'
  BY <1>1, <1>2 DEF ActivationInv, PackageHolds, TodoHolds, live, durable
<1> QED BY <1>1, <1>3, <1>4, <1>5, PackageStep

LEMMA BuildFailsKeeps == ASSUME ActivationInv, BuildFails PROVE ActivationInv'
<1>1. /\ Typed /\ pkg.st = "create" /\ pkg \in Packages /\ pkg' = [pkg EXCEPT !.st = "discard"]
      /\ UNCHANGED <<durable, live, op, loose, lock, proc, todo, used>> /\ faults' \in Nat
  BY FaultCounts DEF ActivationInv, BuildFails, Typed, HostTyped
<1>2. pkg' \in Packages /\ pkg'.st = "discard" /\ pkg'.lease = pkg.lease
  BY <1>1 DEF Packages
<1>3. Typed'
  BY <1>1, <1>2 DEF Typed, DurableTyped, LiveTyped, HostTyped, durable, live
<1>4. \A n \in Modules : PcHolds(n)' /\ GateHolds(n)'
  BY <1>1, <1>2 DEF ActivationInv, Holds, PcHolds, GateHolds, durable, live
<1>5. PackageHolds' /\ TodoHolds'
  BY <1>1, <1>2 DEF ActivationInv, PackageHolds, TodoHolds, live, durable
<1> QED BY <1>1, <1>3, <1>4, <1>5, PackageStep

LEMMA BuildDiscardKeeps == ASSUME ActivationInv, BuildDiscard PROVE ActivationInv'
<1>1. /\ Typed /\ pkg.st = "discard" /\ pkg \in Packages
      /\ op' = [m \in Modules |-> IF op[m].pc = "wait" THEN [op[m] EXCEPT !.pc = "unbuilt"] ELSE op[m]]
      /\ UNCHANGED <<durable, live, lock, proc, todo, used>> /\ faults' \in Nat
      /\ loose \subseteq Modules
  BY FaultCounts DEF ActivationInv, BuildDiscard, Typed, HostTyped
<1>2. /\ op' \in [Modules -> Operations]
      /\ \A n \in Modules :
            /\ op'[n].id = op[n].id /\ op'[n].on = op[n].on
            /\ op'[n].prep = op[n].prep /\ op'[n].lin = op[n].lin
            /\ op'[n] = op[n] \/ (op[n].pc = "wait" /\ op'[n].pc = "unbuilt")
            /\ op[n] = Idle => op'[n] = Idle
  BY <1>1, WaitersAnswered
<1>3. /\ pkg' \in Packages
      /\ \/ pkg'.st = "none" /\ ~pkg'.lease /\ loose' = {}
         \/ pkg'.st = "pending" /\ pkg'.lease /\ loose' = loose
  <2>1. CASE pkg' = NoPackage /\ Discarded(Modules)
    BY <1>1, <2>1, RecordsTyped DEF NoPackage, Discarded
  <2>2. CASE pkg' = [pkg EXCEPT !.st = "pending"] /\ UNCHANGED loose
    BY <1>1, <2>2 DEF Packages, ActivationInv, PackageHolds
  <2> QED BY <2>1, <2>2 DEF BuildDiscard
<1>4. Typed'
  BY <1>1, <1>2, <1>3 DEF Typed, DurableTyped, LiveTyped, HostTyped, durable, live
<1>5. \A n \in Modules : PcHolds(n)'
  BY <1>1, <1>2, WaitersHold DEF live
<1>6. \A n \in Modules : GateHolds(n)'
  BY <1>1 DEF ActivationInv, Holds, GateHolds, durable, live
<1>7. PackageHolds' /\ TodoHolds'
  BY <1>1, <1>2, <1>3 DEF ActivationInv, PackageHolds, TodoHolds, live, durable, Typed, HostTyped
<1> QED BY <1>1, <1>2, <1>4, <1>5, <1>6, <1>7, PackageStep

LEMMA BuildRegisterKeeps == ASSUME ActivationInv, BuildRegister PROVE ActivationInv'
<1>1. /\ Typed /\ pkg.st = "create" /\ pkg \in Packages /\ reg' = PackageRegistered
      /\ lc' = [m \in Modules |-> Dormant(m)] /\ inst' = [m \in Modules |-> NewInstance] /\ loose' = {}
      /\ pkg' = [pkg EXCEPT !.st = "built", !.fin = reg'.rev, !.wait = {}]
      /\ op' = [m \in Modules |-> IF op[m].pc = "wait" THEN [op[m] EXCEPT !.pc = "built"] ELSE op[m]]
      /\ UNCHANGED <<durable, epochs, runs, gate, lock, proc, todo, used, faults>>
  BY DEF ActivationInv, BuildRegister, Typed, HostTyped
<1>2. proc # "closed" /\ proc # "down" /\ runs = {} /\ \A n \in Modules : gate[n] = 0
  BY <1>1 DEF ActivationInv, PackageHolds
<1>3. /\ op' \in [Modules -> Operations]
      /\ \A n \in Modules :
            /\ op'[n].id = op[n].id /\ op'[n].on = op[n].on
            /\ op'[n].prep = op[n].prep /\ op'[n].lin = op[n].lin
            /\ op'[n] = op[n] \/ (op[n].pc = "wait" /\ op'[n].pc = "built")
            /\ op[n] = Idle => op'[n] = Idle
  BY <1>1, WaitersAnswered
<1>4. /\ reg' \in Registries /\ reg'.in = Modules
  <2>1. reg \in Registries /\ reg.rev + 1 + Cardinality(Modules) \in Nat
    <3>1. reg.rev \in Nat /\ Cardinality(Modules) \in Nat /\ reg \in Registries
      BY <1>1, Constants DEF Typed, LiveTyped, Registries
    <3> QED BY <3>1
  <2> DEFINE rev == reg.rev + 1 + Cardinality(Modules)
  <2>2. reg' = [reg EXCEPT !.rev = rev, !.in = Modules]
    BY <1>1 DEF PackageRegistered
  <2>3. rev \in Nat
    BY <2>1
  <2> HIDE DEF rev
  <2> QED BY <2>1, <2>2, <2>3 DEF Registries
<1>5. pkg' \in Packages /\ pkg'.st = "built" /\ pkg'.lease
  <2>1. reg'.rev \in Nat /\ pkg.lease
    BY <1>1, <1>4 DEF Registries, ActivationInv, PackageHolds
  <2>2. PICK fin \in Nat : fin = reg'.rev
    BY <2>1
  <2> QED BY <1>1, <2>1, <2>2 DEF Packages
<1>6. lc' \in [Modules -> LifecycleStates] /\ inst' \in [Modules -> Instances]
  BY <1>1, DormantTyped, RecordsTyped
<1>7. Typed'
  BY <1>1, <1>3, <1>4, <1>5, <1>6 DEF Typed, DurableTyped, LiveTyped, HostTyped, durable
<1>8. \A n \in Modules : PcHolds(n)'
  <2> TAKE n \in Modules
  <2>1. UNCHANGED <<gate, proc, runs>> /\ pkg.st # "built"
    BY <1>1
  <2>2. op[n].pc # "install"
    BY <1>1 DEF ActivationInv, Holds, PcHolds, BuiltPcs
  <2> QED BY <1>3, <1>5, <2>1, <2>2, WaitersHold
<1>9. \A n \in Modules : GateHolds(n)'
  BY <1>1, <1>2 DEF GateHolds
<1>10. PackageHolds' /\ TodoHolds'
  BY <1>1, <1>2, <1>3, <1>4, <1>5 DEF ActivationInv, PackageHolds, TodoHolds, durable, Typed, HostTyped
<1> QED BY <1>1, <1>3, <1>7, <1>8, <1>9, <1>10, PackageStep

\* Shutdown, crash and restart.

LEMMA StopAcceptingKeeps == ASSUME ActivationInv, StopAccepting PROVE ActivationInv'
<1>1. /\ Typed /\ proc \in {"restoring", "open"} /\ proc' = "closing" /\ pkg \in Packages
      /\ UNCHANGED <<durable, live, loose, lock, todo, used, faults>>
      /\ pkg' = [pkg EXCEPT !.cancel = pkg.st \in {"capture", "create"}, !.wait = {}]
      /\ op' = [m \in Modules |-> IF op[m] = Idle \/ op[m].lin THEN op[m]
                                  ELSE [op[m] EXCEPT !.cancel = TRUE]]
  BY DEF ActivationInv, StopAccepting, Typed, HostTyped
<1>2. ASSUME NEW n \in Modules
      PROVE  /\ op'[n] \in Operations
             /\ op'[n].pc = op[n].pc /\ op'[n].id = op[n].id /\ op'[n].on = op[n].on
             /\ op'[n].prep = op[n].prep /\ op'[n].lin = op[n].lin
             /\ op[n] = Idle => op'[n] = Idle
  <2>1. op[n] \in Operations
    BY TypeFacts
  <2>2. [op[n] EXCEPT !.cancel = TRUE] \in Operations
    BY <2>1 DEF Operations
  <2>3. CASE op[n] = Idle \/ op[n].lin
    BY <1>1, <2>1, <2>3
  <2>4. CASE ~(op[n] = Idle \/ op[n].lin)
    <3>1. op'[n] = [op[n] EXCEPT !.cancel = TRUE]
      BY <1>1, <2>4
    <3> QED BY <2>1, <2>2, <2>4, <3>1 DEF Operations
  <2> QED BY <2>3, <2>4
<1>3. op' \in [Modules -> Operations]
  BY <1>1, <1>2
<1>4. pkg' \in Packages /\ pkg'.st = pkg.st /\ pkg'.lease = pkg.lease
  <2> DEFINE c == pkg.st \in {"capture", "create"}
  <2>1. c \in BOOLEAN
    OBVIOUS
  <2>2. pkg' = [pkg EXCEPT !.cancel = c, !.wait = {}]
    BY <1>1
  <2> HIDE DEF c
  <2> QED BY <1>1, <2>1, <2>2 DEF Packages
<1>5. Typed'
  BY <1>1, <1>3, <1>4 DEF Typed, DurableTyped, LiveTyped, HostTyped, durable, live
<1>6. \A n \in Modules : PcHolds(n)'
  <2> TAKE n \in Modules
  <2>1. PcHolds(n)
    BY TypeFacts DEF Holds
  <2>2. op[n].pc = "idle" => op'[n] = Idle
    BY <1>2, <2>1 DEF PcHolds
  <2> QED BY <1>1, <1>2, <1>4, <2>1, <2>2 DEF PcHolds, live
<1>7. \A n \in Modules : GateHolds(n)'
  BY <1>1 DEF ActivationInv, Holds, GateHolds, durable, live
<1>8. PackageHolds' /\ TodoHolds'
  BY <1>1, <1>2, <1>4 DEF ActivationInv, PackageHolds, TodoHolds, live, durable, Typed, HostTyped
<1> QED BY <1>1, <1>2, <1>5, <1>6, <1>7, <1>8, PackageStep

LEMMA ShutGatesKeeps == ASSUME ActivationInv, ShutGates PROVE ActivationInv'
<1>1. /\ Typed /\ gate' = [m \in Modules |-> 0]
      /\ UNCHANGED <<durable, reg, epochs, lc, inst, runs, op, pkg, loose, lock, proc, todo, used, faults>>
  BY DEF ActivationInv, ShutGates
<1>2. Typed'
  BY <1>1 DEF Typed, DurableTyped, LiveTyped, HostTyped, durable
<1>3. \A n \in Modules : PcHolds(n)' /\ GateHolds(n)'
  BY <1>1 DEF ActivationInv, Holds, PcHolds, GateHolds
<1>4. PackageHolds' /\ TodoHolds'
  BY <1>1 DEF ActivationInv, PackageHolds, TodoHolds, durable
<1> QED BY <1>1, <1>2, <1>3, <1>4, PackageStep

LEMMA CloseDoneKeeps == ASSUME ActivationInv, CloseDone PROVE ActivationInv'
<1>1. /\ Typed /\ proc = "closing" /\ Quiet /\ UNCHANGED <<durable, live, op, lock, todo, used>> /\ faults' \in Nat
      /\ \A m \in Modules : inst[m].has => inst[m].done
  BY FaultCounts DEF ActivationInv, CloseDone
<1>2. \A n \in Modules : op[n] = Idle /\ op[n].pc = "idle" /\ op'[n].pc = "idle"
  BY <1>1 DEF Quiet, Idle
<1>3. runs = {}
  BY <1>1 DEF ActivationInv, PackageHolds, Typed, LiveTyped
<1>4. CASE Discarded(Modules) /\ pkg' = NoPackage /\ proc' = "closed"
  <2>1. loose' = {} /\ pkg' \in Packages /\ pkg'.st = "none" /\ ~pkg'.lease
    BY <1>1, <1>4, RecordsTyped DEF Discarded, NoPackage, Typed, HostTyped
  <2>2. Typed'
    BY <1>1, <1>4, <2>1 DEF Typed, DurableTyped, LiveTyped, HostTyped, durable, live
  <2>3. \A n \in Modules : PcHolds(n)'
    BY <1>1, <1>2 DEF PcHolds, EnablePcs, DisablePcs, OwnPcs, BuiltPcs, ShutPcs, RunPcs
  <2>4. \A n \in Modules : GateHolds(n)'
    BY <1>1 DEF ActivationInv, Holds, GateHolds, durable, live
  <2>5. PackageHolds' /\ TodoHolds'
    BY <1>1, <1>3, <1>4, <2>1 DEF ActivationInv, PackageHolds, TodoHolds, live, durable
  <2> QED BY <1>1, <2>2, <2>3, <2>4, <2>5, PackageStep
<1>5. CASE UNCHANGED <<loose, pkg, proc>>
  <2>1. Typed'
    BY <1>1, <1>5 DEF Typed, DurableTyped, LiveTyped, HostTyped, durable, live
  <2>2. \A n \in Modules : PcHolds(n)' /\ GateHolds(n)'
    BY <1>1, <1>5 DEF ActivationInv, Holds, PcHolds, GateHolds, live, durable
  <2>3. PackageHolds' /\ TodoHolds'
    BY <1>1, <1>5 DEF ActivationInv, PackageHolds, TodoHolds, live, durable
  <2> QED BY <1>1, <2>1, <2>2, <2>3, PackageStep
<1> QED BY <1>4, <1>5 DEF CloseDone

LEMMA ExitKeeps == ASSUME ActivationInv, Exit PROVE ActivationInv'
<1>1. /\ Typed /\ Cold /\ proc' = "down" /\ UNCHANGED <<durable, used>> /\ faults' \in Nat
  BY FaultCounts DEF ActivationInv, Exit
<1>2. \A m \in Modules : op'[m] = Idle /\ op'[m].pc = "idle" /\ op'[m].id = 0 /\ gate'[m] = 0
  BY <1>1 DEF Cold, Idle
<1>3. Typed'
  <2>1. reg' \in Registries
    BY <1>1 DEF Cold, Registries
  <2>2. LiveTyped'
    BY <1>1, <2>1, RecordsTyped DEF Cold, LiveTyped
  <2>3. HostTyped'
    BY <1>1, RecordsTyped DEF Cold, HostTyped
  <2> QED BY <1>1, <2>2, <2>3 DEF Typed, DurableTyped, durable
<1>4. ASSUME NEW n \in Modules PROVE Holds(n)'
  <2>1. Holds(n)
    BY TypeFacts
  <2>2. PcHolds(n)' /\ RowHolds(n)' /\ op'[n].id = 0 /\ op'[n].pc # "publish"
    BY <1>2, IdleHolds
  <2> QED
    BY <1>1, <1>2, <2>1, <2>2, Constants DEF Holds, IntentHolds, GateHolds, JournalHolds, durable
<1>5. IdsDiffer'
  BY <1>2, Constants DEF IdsDiffer
<1>6. PackageHolds' /\ TodoHolds'
  BY <1>1 DEF Cold, PackageHolds, TodoHolds, NoPackage, NoState, NoInstance
<1> QED BY <1>3, <1>4, <1>5, <1>6 DEF ActivationInv

\* Before a start nothing is under way.
LEMMA DownIsIdle ==
    ASSUME ActivationInv, proc = "down"
    PROVE  /\ \A m \in Modules : op[m] = Idle /\ op[m].pc = "idle" /\ op[m].id = 0 /\ gate[m] = 0
           /\ pkg.st = "none" /\ todo = {}
<1>1. pkg.st = "none" /\ todo = {} /\ \A m \in Modules : gate[m] = 0
  BY DEF ActivationInv, PackageHolds, TodoHolds
<1> QED BY <1>1 DEF ActivationInv, Holds, PcHolds, Idle

LEMMA SeedDefaultKeeps == ASSUME ActivationInv, NEW m \in Modules, SeedDefault(m) PROVE ActivationInv'
<1>1. /\ Typed /\ proc = "down" /\ used < MaxOps /\ used' = used + 1
      /\ UNCHANGED <<gen, live, op, pkg, loose, lock, proc, todo, faults>>
  BY DEF ActivationInv, SeedDefault, Seeds
<1> DEFINE o == used + 1
           rec == [ph |-> "committed", of |-> m, old |-> FALSE, new |-> TRUE, rev |-> 0, gen |-> 0]
           i == [on |-> TRUE, rev |-> 1, by |-> o]
<1>2. used \in Nat /\ o \in OpIds /\ o \in 0..MaxOps
  BY <1>1, Constants DEF Typed, DurableTyped, OpIds
<1>3. rec \in JournalRows /\ i \in IntentRows
  BY <1>2 DEF JournalRows, IntentRows, Phases
<1>4. journal' = [journal EXCEPT ![o] = rec] /\ intent' = [intent EXCEPT ![m] = i]
  BY DEF SeedDefault
<1>5. /\ journal' \in [OpIds -> JournalRows] /\ journal'[o].of = m /\ journal'[o].ph = "committed"
      /\ journal'[o].new = TRUE /\ \A k \in OpIds : k # o => journal'[k] = journal[k]
      /\ intent' \in [Modules -> IntentRows] /\ intent'[m].on = TRUE /\ intent'[m].by = o
      /\ \A n \in Modules \ {m} : intent'[n] = intent[n]
  BY <1>1, <1>2, <1>3, <1>4 DEF Typed, DurableTyped
<1> HIDE DEF rec, i
<1>6. \A n \in Modules : op[n] = Idle /\ op[n].pc = "idle" /\ op[n].id = 0 /\ gate[n] = 0
  BY <1>1, DownIsIdle
<1>7. Typed'
  BY <1>1, <1>2, <1>5 DEF Typed, DurableTyped, LiveTyped, HostTyped, live
<1>8. ASSUME NEW n \in Modules PROVE Holds(n)'
  <2>1. Holds(n) /\ intent[n].by \in 0..MaxOps
    BY TypeFacts DEF IntentRows
  <2>2. PcHolds(n)' /\ RowHolds(n)' /\ op'[n].id = 0 /\ op'[n].pc # "publish"
    BY <1>1, <1>6, IdleHolds
  <2>3. n # m => intent[n].by # o /\ intent[n].by <= o
    BY <1>2, <2>1 DEF Holds, IntentHolds
  <2>4. IntentHolds(n)'
    BY <1>1, <1>2, <1>5, <2>1, <2>2, <2>3, Constants DEF Holds, IntentHolds
  <2>5. JournalHolds(n)'
    <3>1. CASE n = m
      BY <1>5, <3>1 DEF JournalHolds
    <3>2. CASE n # m
      BY <1>5, <2>1, <2>3, <3>2 DEF Holds, JournalHolds
    <3> QED BY <3>1, <3>2
  <2>6. GateHolds(n)'
    BY <1>1, <1>6 DEF GateHolds, live
  <2> QED BY <2>2, <2>4, <2>5, <2>6 DEF Holds
<1>9. IdsDiffer'
  BY <1>1 DEF IdsDiffer, ActivationInv
<1>10. PackageHolds' /\ TodoHolds'
  BY <1>1, DownIsIdle DEF ActivationInv, PackageHolds, TodoHolds, live
<1> QED BY <1>7, <1>8, <1>9, <1>10 DEF ActivationInv

LEMMA StartKeeps == ASSUME ActivationInv, Start PROVE ActivationInv'
<1>1. /\ Typed /\ proc = "down" /\ proc' = "restoring" /\ journal' = [o \in OpIds |-> Recovered(o)]
      /\ todo' = {m \in Modules : intent[m].on}
      /\ UNCHANGED <<intent, gen, live, op, pkg, loose, lock, used, faults>>
  BY DEF ActivationInv, Start
<1>2. ASSUME NEW o \in OpIds
      PROVE  /\ journal'[o] \in JournalRows /\ journal'[o].of = journal[o].of
             /\ journal'[o].new = journal[o].new /\ journal'[o].old = journal[o].old
             /\ \/ journal'[o] = journal[o]
                \/ journal[o].ph = "prepared" /\ journal'[o].ph = "compensated"
                \/ journal[o].ph \in {"committed", "recovery"} /\ journal'[o].ph = "applied"
  <2>1. journal[o] \in JournalRows /\ journal'[o] = Recovered(o)
    BY <1>1 DEF Typed, DurableTyped
  <2>2. \A ph \in Phases :
          LET r == [journal[o] EXCEPT !.ph = ph]
          IN  r \in JournalRows /\ r.ph = ph /\ r.of = journal[o].of /\ r.new = journal[o].new
              /\ r.old = journal[o].old
    BY <2>1 DEF JournalRows
  <2>3. "compensated" \in Phases /\ "applied" \in Phases
    BY DEF Phases
  <2> QED BY <2>1, <2>2, <2>3 DEF Recovered
<1>3. \A n \in Modules : op[n] = Idle /\ op[n].pc = "idle" /\ op[n].id = 0 /\ gate[n] = 0
  BY <1>1, DownIsIdle
<1>4. Typed'
  <2>1. journal' \in [OpIds -> JournalRows]
    BY <1>1, <1>2
  <2> QED BY <1>1, <2>1 DEF Typed, DurableTyped, LiveTyped, HostTyped, live
<1>5. ASSUME NEW n \in Modules PROVE Holds(n)'
  <2>1. Holds(n) /\ (intent[n].by # 0 => intent[n].by \in OpIds)
    BY TypeFacts, Constants DEF IntentRows
  <2>2. PcHolds(n)' /\ RowHolds(n)' /\ op'[n].id = 0 /\ op'[n].pc # "publish"
    BY <1>1, <1>3, IdleHolds
  <2>3. IntentHolds(n)'
    BY <1>1, <1>2, <2>1, <2>2, Constants DEF Holds, IntentHolds
  <2>4. JournalHolds(n)' /\ GateHolds(n)'
    BY <1>1, <1>2, <1>3, <2>1 DEF Holds, JournalHolds, GateHolds, live
  <2> QED BY <2>2, <2>3, <2>4 DEF Holds
<1>6. IdsDiffer'
  BY <1>1 DEF IdsDiffer, ActivationInv
<1>7. PackageHolds' /\ TodoHolds'
  BY <1>1, <1>3, DownIsIdle DEF ActivationInv, PackageHolds, TodoHolds, live
<1> QED BY <1>4, <1>5, <1>6, <1>7 DEF ActivationInv

LEMMA RestoreIntentKeeps == ASSUME ActivationInv, NEW m \in Modules, RestoreIntent(m) PROVE ActivationInv'
<1>1. /\ Typed /\ Holds(m) /\ proc = "restoring" /\ m \in todo /\ \A x \in Modules : op[x] = Idle
      /\ todo' = todo \ {m} /\ UNCHANGED <<durable, live, pkg, loose, lock, proc, used, faults>>
  BY TypeFacts DEF RestoreIntent
<1>2. intent[m].on
  BY <1>1 DEF ActivationInv, TodoHolds
<1> DEFINE r == [Idle EXCEPT !.pc = "ensure", !.id = Restore, !.on = TRUE,
                             !.exp = reg.rev, !.irev = intent[m].rev]
<1>3. r \in Operations /\ r.pc = "ensure" /\ r.id = Restore /\ r.on
  <2>1. reg.rev \in Nat /\ intent[m].rev \in Nat /\ Restore \in 0..Restore /\ "ensure" \in OpPcs
    BY TypeFacts, Constants DEF IntentRows, OpPcs, EnablePcs
  <2> QED BY <2>1 DEF Operations, Idle
<1>4. op' = [op EXCEPT ![m] = r]
  BY DEF RestoreIntent
<1> HIDE DEF r
<1>5. op' \in [Modules -> Operations] /\ op'[m] = r /\ \A n \in Modules \ {m} : op'[n] = op[n]
  BY <1>1, <1>3, <1>4, OpSet
<1>6. Typed'
  BY <1>1, <1>5 DEF Typed, DurableTyped, LiveTyped, HostTyped, durable, live
<1>7. ASSUME NEW n \in Modules PROVE Holds(n)'
  <2>1. Holds(n)
    BY TypeFacts
  <2>2. CASE n = m
    <3>1. op'[n].pc = "ensure" /\ op'[n].id = Restore /\ op'[n].on /\ Restore \notin OpIds /\ Restore # 0
      BY <1>3, <1>5, <2>2, Constants
    <3>2. PcHolds(n)' /\ RowHolds(n)'
      BY <1>1, <3>1 DEF PcHolds, RowHolds, EnablePcs, DisablePcs, OwnPcs, BuiltPcs, ShutPcs, RunPcs
    <3>3. IntentHolds(n)'
      BY <1>1, <1>2, <2>1, <2>2, <3>1 DEF Holds, IntentHolds, durable
    <3> QED BY <1>1, <2>1, <3>2, <3>3 DEF Holds, GateHolds, JournalHolds, durable, live
  <2>3. CASE n # m
    BY <1>1, <1>5, <2>1, <2>3 DEF Holds, PcHolds, RowHolds, IntentHolds, GateHolds, JournalHolds, durable, live
  <2> QED BY <2>2, <2>3
<1>8. IdsDiffer'
  BY <1>1, <1>3, <1>5, Constants DEF IdsDiffer, Idle
<1>9. PackageHolds' /\ TodoHolds'
  BY <1>1, <1>5 DEF ActivationInv, PackageHolds, TodoHolds, live, durable, Typed, HostTyped
<1> QED BY <1>6, <1>7, <1>8, <1>9 DEF ActivationInv

LEMMA StartedKeeps == ASSUME ActivationInv, Started PROVE ActivationInv'
<1>1. /\ Typed /\ proc = "restoring" /\ todo = {} /\ proc' = "open"
      /\ UNCHANGED <<durable, live, op, pkg, loose, lock, todo, used, faults>>
  BY DEF ActivationInv, Started
<1>2. Typed'
  BY <1>1 DEF Typed, DurableTyped, LiveTyped, HostTyped, durable, live
<1>3. \A n \in Modules : PcHolds(n)' /\ GateHolds(n)'
  BY <1>1 DEF ActivationInv, Holds, PcHolds, GateHolds, durable, live
<1>4. PackageHolds' /\ TodoHolds'
  BY <1>1 DEF ActivationInv, PackageHolds, TodoHolds, live, durable
<1> QED BY <1>1, <1>2, <1>3, <1>4, PackageStep

LEMMA RotateCredentialKeeps == ASSUME ActivationInv, RotateCredential PROVE ActivationInv'
<1>1. /\ Typed /\ gen' = gen + 1
      /\ UNCHANGED <<intent, journal, live, op, pkg, loose, lock, proc, todo, used, faults>>
  BY DEF ActivationInv, RotateCredential
<1>2. Typed'
  BY <1>1 DEF Typed, DurableTyped, LiveTyped, HostTyped, live
<1>3. \A n \in Modules : Holds(n)'
  BY <1>1 DEF ActivationInv, Holds, PcHolds, RowHolds, IntentHolds, GateHolds, JournalHolds, live
<1> QED BY <1>1, <1>2, <1>3 DEF ActivationInv, IdsDiffer, PackageHolds, TodoHolds, live

LEMMA ActivationStutters == ASSUME ActivationInv, UNCHANGED vars PROVE ActivationInv'
<1>1. Typed'
  BY DEF ActivationInv, Typed, DurableTyped, LiveTyped, HostTyped, vars, durable, live
<1>2. \A n \in Modules : Holds(n)'
  BY DEF ActivationInv, Holds, PcHolds, RowHolds, IntentHolds, GateHolds, JournalHolds, vars, live, durable
<1> QED BY <1>1, <1>2 DEF ActivationInv, IdsDiffer, PackageHolds, TodoHolds, vars, durable, live

LEMMA OperationStepKeeps == ASSUME ActivationInv, NEW m \in Modules, OperationStep(m) PROVE ActivationInv'
BY EnsureBuiltKeeps, BuildJoinedKeeps, RepairModuleKeeps, RepairInstallKeeps, PrepareEnableKeeps,
   StartCandidateKeeps, StartAnswersKeeps, StartRaisesKeeps, CommitCheckedKeeps, CommitEnableKeeps,
   PublishEnableKeeps, RestorePublishKeeps, MarkAppliedKeeps, CompensateKeeps, AbortJournalKeeps,
   RollbackKeeps, AbortQuiesceKeeps, AbortStopKeeps, QuiesceDisableKeeps, CommitDisableKeeps,
   PublishDisableKeeps, DisableErrorKeeps, DisableStopKeeps DEF OperationStep

LEMMA ActivationStep == ActivationInv /\ [Next]_vars => ActivationInv'
<1> SUFFICES ASSUME ActivationInv, [Next]_vars PROVE ActivationInv'
  OBVIOUS
<1>1. ASSUME NEW m \in Modules, OperationStep(m) \/ CallerLeaves(m) \/ IsolateRun(m) \/ CloseModule(m)
      PROVE  ActivationInv'
  BY <1>1, OperationStepKeeps, CallerLeavesKeeps, IsolateRunKeeps, CloseModuleKeeps
<1>2. ASSUME NEW m \in Modules, NEW on \in BOOLEAN, SetEnabled(m, on)
      PROVE  ActivationInv'
  BY <1>2, SetEnabledKeeps
<1>3. CASE BuildStep
  BY <1>3, BuildCaptureKeeps, BuildRegisterKeeps, BuildFailsKeeps, BuildDiscardKeeps, BuildCreateKeeps DEF BuildStep
<1>4. CASE StartStep
  BY <1>4, StartKeeps, StartedKeeps, SeedDefaultKeeps, RestoreIntentKeeps DEF StartStep
<1>5. CASE StopAccepting \/ ShutGates \/ CloseDone \/ Exit \/ RotateCredential
  BY <1>5, StopAcceptingKeeps, ShutGatesKeeps, CloseDoneKeeps, ExitKeeps, RotateCredentialKeeps
<1>6. CASE UNCHANGED vars
  BY <1>6, ActivationStutters
<1> QED BY <1>1, <1>2, <1>3, <1>4, <1>5, <1>6 DEF Next

\* The theorems.

\* Whatever fails between the steps of set_enabled, of a restore and of a
\* close: an open gate follows a durable intent and a running module of its
\* epoch, code lives under the lease of its bundle, and the journal tells what
\* became of the operation an intent names (_enable, _disable, restore_startup).
THEOREM ActivationSound == Spec => []ActivationIsSound
<1>1. ActivationInv => ActivationIsSound
  <2> SUFFICES ASSUME ActivationInv PROVE ActivationIsSound
    OBVIOUS
  <2>1. GateFollowsIntent
    BY DEF ActivationInv, Holds, GateHolds, GateFollowsIntent
  <2>2. LeaseCoversCode
    BY DEF ActivationInv, PackageHolds, LeaseCoversCode, Typed, HostTyped, Packages
  <2>3. JournalTellsTruth
    BY DEF ActivationInv, Holds, JournalHolds, JournalTellsTruth
  <2> QED BY <2>1, <2>2, <2>3 DEF ActivationIsSound
<1> QED BY <1>1, ActivationInit, ActivationStep, PTL DEF Spec

\* Two steps publish a module, and neither does after stop_accepting.
LEMMA OperationOpensNothing ==
    ASSUME NEW m \in Modules, OperationStep(m), Closing, ActivationInv, NEW n \in Modules, gate[n] = 0
    PROVE  gate'[n] = 0
<1>1. gate \in [Modules -> Nat]
  BY TypeFacts
<1>2. CASE EnsureBuilt(m) \/ BuildJoined(m) \/ RepairModule(m) \/ RepairInstall(m)
           \/ PrepareEnable(m) \/ StartCandidate(m) \/ StartAnswers(m)
           \/ CommitChecked(m) \/ CommitEnable(m)
           \/ MarkApplied(m) \/ Compensate(m) \/ AbortJournal(m) \/ CommitDisable(m) \/ PublishDisable(m)
           \/ DisableError(m)
  <2>1. gate' = gate
    BY <1>2 DEF EnsureBuilt, BuildJoined, RepairModule, RepairInstall, PrepareEnable, StartCandidate,
       StartAnswers, CommitChecked, CommitEnable, MarkApplied, Compensate, AbortJournal, CommitDisable,
       PublishDisable, DisableError, live
  <2> QED BY <2>1
<1>3. CASE StartRaises(m)
  BY <1>1, <1>3 DEF StartRaises
<1>4. CASE PublishEnable(m) \/ RestorePublish(m)
  <2>1. gate' = gate
    BY <1>4 DEF PublishEnable, RestorePublish, live
  <2> QED BY <2>1
<1>5. CASE Rollback(m)
  BY <1>1, <1>5 DEF Rollback, live
<1>6. CASE AbortQuiesce(m)
  BY <1>1, <1>6 DEF AbortQuiesce, Quiesce
<1>7. CASE AbortStop(m) \/ DisableStop(m)
  BY <1>1, <1>7 DEF AbortStop, DisableStop, StopFails
<1>8. CASE QuiesceDisable(m)
  BY <1>1, <1>8 DEF QuiesceDisable, Quiesce
<1> QED BY <1>2, <1>3, <1>4, <1>5, <1>6, <1>7, <1>8 DEF OperationStep

\* Once stop_accepting has fenced the runtime no admission gate opens, not for
\* an enabling whose commit is done nor for a restore under way (_enable's
\* shutdown fence, _restore_intent's check).
THEOREM ShutdownOpensNothing == Spec => ClosingOpensNothing
<1>1. ActivationInv /\ [Next]_vars => [\A m \in Modules : Closing /\ gate[m] = 0 => gate'[m] = 0]_vars
  <2> SUFFICES ASSUME ActivationInv, Next, NEW n \in Modules, Closing, gate[n] = 0
               PROVE  gate'[n] = 0
    OBVIOUS
  <2>1. gate \in [Modules -> Nat] /\ proc \notin {"down", "restoring", "open"}
    BY TypeFacts DEF Closing
  <2>2. ASSUME NEW m \in Modules, OperationStep(m)
        PROVE  gate'[n] = 0
    BY <2>2, OperationOpensNothing
  <2>3. ASSUME NEW m \in Modules, CallerLeaves(m) \/ IsolateRun(m) \/ CloseModule(m)
        PROVE  gate'[n] = 0
    BY <2>1, <2>3 DEF CallerLeaves, IsolateRun, CloseModule, StopFails, live
  <2>4. ASSUME NEW m \in Modules, NEW on \in BOOLEAN, SetEnabled(m, on)
        PROVE  gate'[n] = 0
    BY <2>4 DEF SetEnabled, live
  <2>5. CASE BuildStep
    BY <2>5 DEF BuildStep, BuildCapture, BuildRegister, BuildFails, BuildDiscard, BuildCreate, live
  <2>6. CASE StartStep
    BY <2>6 DEF StartStep, Start, Started, SeedDefault, RestoreIntent, live
  <2>7. CASE StopAccepting \/ ShutGates \/ CloseDone \/ Exit \/ RotateCredential
    BY <2>7 DEF StopAccepting, ShutGates, CloseDone, Exit, RotateCredential, Cold, live
  <2> QED BY <2>2, <2>3, <2>4, <2>5, <2>6, <2>7 DEF Next
<1> QED BY <1>1, ActivationInit, ActivationStep, PTL DEF Spec, ClosingOpensNothing

\* The route of an answer.

RoutePcs == {"idle", "wait", "read", "claim", "refuse", "validate", "begin", "reconcile",
             "reread", "abort", "await", "again", "enqueue", "finish", "project", "over"}
Told == {"none", "sent", "failed", "unknown", "pending", "in_progress", "tool",
         "enqueued", "cancelled"}
Answers == {"accepted", "failed", "unknown"}
Prints == Payloads \cup {Nobody}
Rows == [state: {"none", "claimed", "sending", "completed", "unknown"},
         owner: RouteCalls \cup {Nobody}, gen: Nat, live: BOOLEAN, fp: Prints,
         outcome: {"none", "controlled", "accepted", "failed", "unknown", "tool", "enqueued"},
         grant: BOOLEAN]
Routings == [pc: RoutePcs, fp: Prints, gen: Nat, told: Told]
Images == [carried: BOOLEAN, on: BOOLEAN, retired: BOOLEAN, pin: BOOLEAN]

RouteTyped ==
    /\ kind \in AllRoutes
    /\ row \in Rows
    /\ claimGen \in Nat
    /\ routing \in [RouteCalls -> Routings]
    /\ send \in [RouteCalls -> {"none", "scheduled", "done"} \cup Answers]
    /\ image \in [RouteCalls -> Images]
    /\ routeGrant \in BOOLEAN /\ current \in BOOLEAN
    /\ host \in SUBSET (RouteCalls \X Answers)

\* What the durable row promises: an outcome is written once, and a claim that was
\* interrupted has run out.  A grant that stands stood when the claim was last written.
RowTells ==
    /\ row.outcome # "none" => row.state = "completed"
    /\ row.state = "unknown" => ~row.live
    /\ routeGrant => row.grant
    /\ row.outcome = "controlled" => host = {}
    /\ row.outcome = "accepted" => \E c \in RouteCalls : <<c, "accepted">> \in host
    /\ row.outcome = "enqueued" => event
    /\ \A x, y \in host : x = y

\* Whoever schedules a send, or has asked the host, is the owner of a claim that has
\* left CLAIMED for good and of which nobody has recorded that nothing was sent.
Claims(c) ==
    /\ row.owner = c
    /\ row.state \in {"sending", "unknown", "completed"}
    /\ row.outcome # "controlled"
    /\ kind = "granted" => row.grant

CallTells(c) ==
    /\ send[c] # "none" => Claims(c) /\ routing[c].pc \in {"await", "over"}
    /\ send[c] = "scheduled" => host = {}
    /\ send[c] = "accepted" => <<c, "accepted">> \in host
    /\ send[c] \in Answers => \A a \in Answers : <<c, a>> \in host => a = send[c]
    /\ \A a \in Answers : <<c, a>> \in host =>
            Claims(c) /\ routing[c].pc \in {"await", "over"}
    /\ routing[c].pc \in {"reread", "abort"} =>
            /\ row.owner = c
            /\ row.state \in {"sending", "unknown"}
    /\ routing[c].pc = "await" => send[c] # "none"
    /\ routing[c].pc = "finish" => kind = "tool" \/ event
    /\ routing[c].told # "none" => routing[c].pc \in {"await", "over"}
    /\ routing[c].told = "sent" => \E d \in RouteCalls : <<d, "accepted">> \in host
    /\ routing[c].told \in {"failed", "pending"} =>
            /\ send[c] # "scheduled"
            /\ <<c, "accepted">> \notin host /\ <<c, "unknown">> \notin host

\* The pages of a collage are pinned until the call, or the task that took them
\* over, ends; a PNG is pinned only by its task, and retired when the call ends.
ImageHolds(c) ==
    /\ routing[c].pc \in {"idle", "wait", "read"} => image[c] = NoImage
    /\ (image[c].on /\ image[c].retired) => image[c].pin
    /\ kind \notin {"png", "collage"} => image[c] = NoImage
    /\ (kind = "png" /\ image[c].on /\ image[c].pin) => send[c] \notin {"none", "done"}
    /\ (kind = "png" /\ image[c].on /\ routing[c].pc = "over") => image[c].retired
    /\ (kind = "collage" /\ image[c].carried /\ routing[c].pc # "over" /\ send[c] # "done")
            => image[c].on /\ image[c].pin
    /\ (kind = "collage" /\ image[c].carried /\ send[c] \notin {"none", "done"})
            => image[c].on /\ image[c].pin
    /\ (kind = "collage" /\ image[c].on) => image[c].carried
    /\ (kind = "collage" /\ send[c] = "done") => ~image[c].on
    /\ (kind = "collage" /\ send[c] = "none" /\ routing[c].pc = "over") => ~image[c].on

RouteInv ==
    /\ RouteTyped
    /\ RowTells
    /\ \A c \in RouteCalls : CallTells(c)
    /\ \A c \in RouteCalls : ImageHolds(c)

RoutePart(c) == CallTells(c) /\ ImageHolds(c)

Settling == {"sending", "unknown", "completed"}

\* What a step of one call leaves to every other: a claim that left CLAIMED stays its
\* owner's, and only the scheduled send of the call that moves reaches the host.
Leaves(c) ==
    /\ \A d \in RouteCalls \ {c} :
          /\ routing'[d] = routing[d] /\ send'[d] = send[d] /\ image'[d] = image[d]
          /\ (row.owner = d /\ row.state \in Settling) =>
                /\ row'.owner = d
                /\ row'.state \in Settling
                /\ row.state # "completed" => row'.state # "completed"
                /\ row.outcome # "controlled" => row'.outcome # "controlled"
                /\ row'.grant = row.grant
    /\ event => event'
    /\ host \subseteq host'
    /\ host' \subseteq host \cup ({c} \X Answers)
    /\ host' # host => send[c] = "scheduled"

\* A call that has a send owns the row, so no other call has one: whatever a step of
\* c does within Leaves, the others keep what they rely on.
LEMMA OthersKeep ==
    ASSUME RouteInv, NEW c \in RouteCalls, Leaves(c), kind' = kind,
           NEW d \in RouteCalls, d # c
    PROVE  RoutePart(d)'
<1>1. CallTells(d) /\ ImageHolds(d) /\ CallTells(c)
  BY DEF RouteInv
<1>2. routing'[d] = routing[d] /\ send'[d] = send[d] /\ image'[d] = image[d]
  BY DEF Leaves
<1>3. Claims(d) => Claims(d)'
  BY DEF Leaves, Claims, Settling
<1>4. \A a \in Answers : <<d, a>> \in host' <=> <<d, a>> \in host
  BY DEF Leaves
<1>5. host' # host => Claims(c)
  BY <1>1 DEF Leaves, CallTells
<1>6. Claims(d) => host' = host
  BY <1>5 DEF Claims
<1>7. CallTells(d)'
  <2>1. (\E e \in RouteCalls : <<e, "accepted">> \in host)
          => (\E e \in RouteCalls : <<e, "accepted">> \in host')
    BY DEF Leaves
  <2>2. (routing[d].pc \in {"reread", "abort"} /\ row.owner = d /\ row.state \in {"sending", "unknown"})
          => (row'.owner = d /\ row'.state \in {"sending", "unknown"})
    BY DEF Leaves, Settling
  <2>3. event => event'
    BY DEF Leaves
  <2> QED BY <1>1, <1>2, <1>3, <1>4, <1>6, <2>1, <2>2, <2>3 DEF CallTells, Answers
<1>8. ImageHolds(d)'
  BY <1>1, <1>2 DEF ImageHolds
<1> QED BY <1>7, <1>8 DEF RoutePart

\* A step of one call keeps the invariant when it keeps the part of that call.
LEMMA CallKeeps ==
    ASSUME RouteInv, NEW c \in RouteCalls, Leaves(c), kind' = kind,
           RouteTyped', RowTells', RoutePart(c)'
    PROVE  RouteInv'
BY OthersKeep DEF RouteInv, RoutePart

\* What the helpers do.

LEMMA RouteTypes ==
    ASSUME RouteTyped, NEW c \in RouteCalls
    PROVE  /\ routing[c] \in Routings
           /\ image[c] \in Images
           /\ send[c] \in {"none", "scheduled", "done"} \cup Answers
BY DEF RouteTyped

LEMMA NobodyCalls == Nobody \notin RouteCalls
BY RouteAssumption

\* Releasing an image never takes it into use, and frees one that is not pinned.
LEMMA Releases ==
    ASSUME NEW i \in Images
    PROVE  /\ Retire(i) \in Images /\ ReleasePin(i) \in Images /\ ReleaseCollage(i) \in Images
           /\ Retire(i).carried = i.carried /\ ReleasePin(i).carried = i.carried
           /\ ReleaseCollage(i).carried = i.carried
           /\ Retire(i).pin = i.pin
           /\ Retire(i).on <=> i.on /\ i.pin
           /\ Retire(i).on => Retire(i).retired
           /\ ReleasePin(i).on <=> i.on /\ ~i.retired
           /\ ReleasePin(i).on => ~ReleasePin(i).pin /\ ~ReleasePin(i).retired
           /\ ~ReleaseCollage(i).on
           /\ ~i.on => Retire(i) = i /\ ReleasePin(i) = i
BY DEF Images, Retire, ReleasePin, ReleaseCollage, Drop

LEMMA Moved ==
    ASSUME RouteTyped, NEW c \in RouteCalls, NEW p \in RoutePcs, MoveTo(c, p)
    PROVE  /\ routing' \in [RouteCalls -> Routings]
           /\ routing'[c].pc = p /\ routing'[c].told = routing[c].told
           /\ \A d \in RouteCalls \ {c} : routing'[d] = routing[d]
BY DEF MoveTo, RouteTyped, Routings

LEMMA FinallyTyped ==
    ASSUME RouteTyped, NEW c \in RouteCalls, NEW transferred \in BOOLEAN
    PROVE  Finally(c, transferred) \in Images
BY RouteTypes, Releases DEF Finally

LEMMA Returned ==
    ASSUME RouteTyped, NEW c \in RouteCalls, NEW told \in Told, NEW transferred \in BOOLEAN,
           RouteReturns(c, told, transferred)
    PROVE  /\ routing' \in [RouteCalls -> Routings]
           /\ image' \in [RouteCalls -> Images]
           /\ routing'[c].pc = "over" /\ routing'[c].told = told
           /\ image'[c] = Finally(c, transferred)
           /\ \A d \in RouteCalls \ {c} : routing'[d] = routing[d] /\ image'[d] = image[d]
<1>1. routing' \in [RouteCalls -> Routings] /\ routing'[c].pc = "over" /\ routing'[c].told = told
      /\ \A d \in RouteCalls \ {c} : routing'[d] = routing[d]
  BY DEF RouteReturns, RouteTyped, Routings, RoutePcs
<1>2. image' \in [RouteCalls -> Images] /\ image'[c] = Finally(c, transferred)
      /\ \A d \in RouteCalls \ {c} : image'[d] = image[d]
  BY FinallyTyped DEF RouteReturns, RouteTyped
<1> QED BY <1>1, <1>2

\* A call that returns leaves its image to its task, or to nobody.
LEMMA ImageReturned ==
    ASSUME RouteInv, NEW c \in RouteCalls, NEW told \in Told, NEW transferred \in BOOLEAN,
           RouteReturns(c, told, transferred), kind' = kind, send'[c] = send[c],
           routing[c].pc # "over", transferred <=> routing[c].pc = "await"
    PROVE  ImageHolds(c)'
<1>1. /\ routing'[c].pc = "over" /\ image'[c] = Finally(c, transferred)
      /\ image[c] \in Images
  BY Returned, RouteTypes DEF RouteInv
<1>2. ImageHolds(c) /\ CallTells(c)
  BY DEF RouteInv
<1>3. CASE kind = "png"
  BY <1>1, <1>2, <1>3, Releases DEF ImageHolds, Finally
<1>4. CASE kind = "collage" /\ ~transferred
  BY <1>1, <1>2, <1>4, Releases DEF ImageHolds, Finally, CallTells
<1>5. CASE kind = "collage" /\ transferred
  BY <1>1, <1>2, <1>5, Releases DEF ImageHolds, Finally, CallTells
<1>6. CASE kind \notin {"png", "collage"}
  BY <1>1, <1>2, <1>6, Releases DEF ImageHolds, Finally, NoImage
<1> QED BY <1>3, <1>4, <1>5, <1>6

\* What the transactions do.

\* What a transaction of one call leaves to the claims of the others.
KeepsClaims(c) ==
    \A d \in RouteCalls \ {c} :
       (row.owner = d /\ row.state \in Settling) =>
          /\ row'.owner = d
          /\ row'.state \in Settling
          /\ row.state # "completed" => row'.state # "completed"
          /\ row.outcome # "controlled" => row'.outcome # "controlled"
          /\ row'.grant = row.grant

RowStep(c) == row' \in Rows /\ RowTells' /\ KeepsClaims(c)

\* While nobody has begun to send, nobody sends.
LEMMA UnclaimedIsSilent ==
    ASSUME RouteInv, row.state \notin Settling
    PROVE  host = {} /\ \A c \in RouteCalls : send[c] = "none"
<1>1. ASSUME NEW c \in RouteCalls
      PROVE  CallTells(c)
  BY DEF RouteInv
<1>2. \A c \in RouteCalls : send[c] = "none"
  BY <1>1 DEF CallTells, Claims, Settling
<1>3. ASSUME NEW x \in host
      PROVE  FALSE
  <2>1. PICK c \in RouteCalls, a \in Answers : x = <<c, a>>
    BY <1>3 DEF RouteInv, RouteTyped
  <2> QED BY <1>1, <1>3, <2>1 DEF CallTells, Claims, Settling
<1> QED BY <1>2, <1>3

\* A call that has not scheduled its send has asked nobody.
LEMMA EarlyIsSilent ==
    ASSUME RouteInv, NEW c \in RouteCalls, routing[c].pc \notin {"await", "over"}
    PROVE  /\ send[c] = "none" /\ routing[c].told = "none"
           /\ \A a \in Answers : <<c, a>> \notin host
           /\ row.owner = c => host = {}
<1>1. CallTells(c)
  BY DEF RouteInv
<1>2. \A a \in Answers : <<c, a>> \notin host
  BY <1>1 DEF CallTells
<1>3. send[c] = "none" /\ routing[c].told = "none"
  BY <1>1 DEF CallTells
<1>4. ASSUME row.owner = c, NEW x \in host
      PROVE  FALSE
  <2>1. PICK d \in RouteCalls, a \in Answers : x = <<d, a>>
    BY <1>4 DEF RouteInv, RouteTyped
  <2>2. CallTells(d)
    BY DEF RouteInv
  <2> QED BY <1>2, <1>4, <2>1, <2>2 DEF CallTells, Claims
<1> QED BY <1>2, <1>3, <1>4

LEMMA RowUnchanged ==
    ASSUME RouteInv, NEW c \in RouteCalls, row' = row, host' = host, event => event',
           routeGrant' = routeGrant
    PROVE  RowStep(c)
<1>1. RowTells /\ row \in Rows
  BY DEF RouteInv, RouteTyped
<1>2. RowTells'
  BY <1>1 DEF RowTells
<1> QED BY <1>1, <1>2 DEF RowStep, KeepsClaims

\* Recording that nothing was sent, by a call that has sent nothing.
LEMMA RowControlled ==
    ASSUME RouteInv, NEW c \in RouteCalls, routing[c].pc \notin {"await", "over"},
           row' \in {row, Controlled(c), AbortBeforeDispatch(c)},
           host' = host, event' = event, routeGrant' = routeGrant
    PROVE  RowStep(c)
<1>1. RowTells /\ row \in Rows
  BY DEF RouteInv, RouteTyped
<1>2. CASE row' = row
  BY <1>2, RowUnchanged
<1>3. CASE row' # row
  <2>1. row' = [row EXCEPT !.state = "completed", !.outcome = "controlled"] /\ row.owner = c
    BY <1>3 DEF Controlled, AbortBeforeDispatch, Completed, Owns
  <2>2. host = {}
    BY <2>1, EarlyIsSilent
  <2>3. row' \in Rows /\ row'.state = "completed" /\ row'.outcome = "controlled"
        /\ row'.grant = row.grant
    BY <1>1, <2>1 DEF Rows
  <2>4. RowTells'
    BY <1>1, <2>2, <2>3 DEF RowTells
  <2>5. KeepsClaims(c)
    BY <2>1 DEF KeepsClaims
  <2> QED BY <2>3, <2>4, <2>5 DEF RowStep
<1> QED BY <1>2, <1>3

\* The row a claim leaves.
LEMMA RowClaimed ==
    ASSUME RouteInv, NEW c \in RouteCalls, NEW fp \in Prints, row' \in {row, ClaimRow(c, fp)},
           host' = host, event' = event, routeGrant' = routeGrant
    PROVE  RowStep(c)
<1>1. RowTells /\ row \in Rows /\ claimGen \in Nat
  BY DEF RouteInv, RouteTyped
<1>2. CASE row' = row
  BY <1>2, RowUnchanged
<1>3. CASE row' # row /\ row.state = "none"
  <2>1. row' = Inserted(c, fp)
    BY <1>3 DEF ClaimRow
  <2>2. row' = [state |-> "claimed", owner |-> c, gen |-> claimGen + 1, live |-> TRUE,
                fp |-> fp, outcome |-> "none", grant |-> TRUE]
    BY <2>1 DEF Inserted, NoClaim
  <2>3. row' \in Rows
    BY <1>1, <2>2 DEF Rows
  <2>4. host = {}
    BY <1>3, UnclaimedIsSilent DEF Settling
  <2>5. RowTells'
    BY <2>2, <2>4 DEF RowTells
  <2>6. KeepsClaims(c)
    BY <1>3 DEF KeepsClaims, Settling
  <2> QED BY <2>3, <2>5, <2>6 DEF RowStep
<1>4. CASE row' # row /\ row.state = "sending"
  <2>1. row' = [row EXCEPT !.state = "unknown"] /\ ~row.live
    BY <1>4 DEF ClaimRow, Interrupted
  <2>2. /\ row' \in Rows /\ row'.state = "unknown" /\ row'.outcome = row.outcome
        /\ row'.grant = row.grant /\ row'.owner = row.owner /\ ~row'.live
    BY <1>1, <2>1 DEF Rows
  <2>3. RowTells'
    BY <1>1, <1>4, <2>2 DEF RowTells
  <2>4. KeepsClaims(c)
    BY <2>2 DEF KeepsClaims, Settling
  <2> QED BY <2>2, <2>3, <2>4 DEF RowStep
<1>5. CASE row' # row /\ row.state = "claimed"
  <2>1. row' = [row EXCEPT !.owner = c, !.gen = claimGen + 1, !.live = TRUE]
    BY <1>5 DEF ClaimRow, Retaken
  <2>2. row' = [state |-> row.state, owner |-> c, gen |-> claimGen + 1, live |-> TRUE,
                fp |-> row.fp, outcome |-> row.outcome, grant |-> row.grant]
    BY <1>1, <2>1 DEF Rows
  <2>3. row' \in Rows /\ RowTells'
    <3>1. row' \in Rows
      BY <1>1, <2>2 DEF Rows
    <3>2. RowTells'
      BY <1>1, <1>5, <2>2 DEF RowTells
    <3> QED BY <3>1, <3>2
  <2>4. KeepsClaims(c)
    BY <1>5 DEF KeepsClaims, Settling
  <2> QED BY <2>3, <2>4 DEF RowStep
<1>6. CASE row.state \in {"completed", "unknown"}
  BY <1>2, <1>6 DEF ClaimRow, ClaimTerminal
<1> QED BY <1>1, <1>2, <1>3, <1>4, <1>5, <1>6 DEF Rows

\* A step that ends a call before its send, and one that moves it on.

\* What a step of a call that has not scheduled its send may do to the rest.
EarlyStep(c) ==
    /\ routing[c].pc \notin {"await", "over"}
    /\ RowStep(c)
    /\ claimGen' \in Nat
    /\ event => event'
    /\ UNCHANGED <<kind, send, host, routeGrant, current>>

LEMMA EarlyReturn ==
    ASSUME RouteInv, NEW c \in RouteCalls, NEW told \in Told, EarlyStep(c),
           RouteReturns(c, told, FALSE),
           told = "sent" => \E d \in RouteCalls : <<d, "accepted">> \in host
    PROVE  RouteInv'
<1>1. /\ routing' \in [RouteCalls -> Routings] /\ image' \in [RouteCalls -> Images]
      /\ routing'[c].pc = "over" /\ routing'[c].told = told
      /\ \A d \in RouteCalls \ {c} : routing'[d] = routing[d] /\ image'[d] = image[d]
  BY Returned DEF RouteInv
<1>2. RouteTyped' /\ RowTells'
  BY <1>1 DEF RouteInv, RouteTyped, EarlyStep, RowStep
<1>3. Leaves(c)
  BY <1>1 DEF Leaves, EarlyStep, RowStep, KeepsClaims
<1>4. CallTells(c)'
  <2>1. /\ send'[c] = "none" /\ host' = host
        /\ \A a \in Answers : <<c, a>> \notin host'
    BY EarlyIsSilent DEF EarlyStep
  <2> QED BY <1>1, <2>1 DEF CallTells, Answers
<1>5. ImageHolds(c)'
  BY ImageReturned DEF EarlyStep
<1> QED BY <1>2, <1>3, <1>4, <1>5, CallKeeps DEF RoutePart, EarlyStep

LEMMA EarlyMove ==
    ASSUME RouteInv, NEW c \in RouteCalls, NEW p \in RoutePcs, EarlyStep(c),
           routing' \in [RouteCalls -> Routings], routing'[c].pc = p,
           routing'[c].told = routing[c].told,
           \A d \in RouteCalls \ {c} : routing'[d] = routing[d],
           image' = image,
           p \in {"idle", "wait", "read"} => image[c] = NoImage,
           p \notin {"await", "over"},
           p \in {"reread", "abort"} => row'.owner = c /\ row'.state \in {"sending", "unknown"},
           p = "finish" => kind = "tool" \/ event'
    PROVE  RouteInv'
<1>1. RouteTyped' /\ RowTells'
  BY DEF RouteInv, RouteTyped, EarlyStep, RowStep
<1>2. Leaves(c)
  BY DEF Leaves, EarlyStep, RowStep, KeepsClaims
<1>3. CallTells(c)'
  <2>1. /\ send'[c] = "none" /\ routing[c].told = "none" /\ host' = host /\ kind' = kind
        /\ \A a \in Answers : <<c, a>> \notin host'
    BY EarlyIsSilent DEF EarlyStep
  <2> QED BY <2>1 DEF CallTells, Answers
<1>4. ImageHolds(c)'
  <2>1. ImageHolds(c) /\ kind' = kind /\ send' = send /\ routing[c].pc # "over"
    BY DEF RouteInv, EarlyStep
  <2> QED BY <2>1 DEF ImageHolds
<1> QED BY <1>1, <1>2, <1>3, <1>4, CallKeeps DEF RoutePart, EarlyStep

\* The steps.

LEMMA EarlyFrame ==
    ASSUME RouteInv, NEW c \in RouteCalls, routing[c].pc \notin {"await", "over"},
           UNCHANGED <<kind, row, claimGen, send, current, routeGrant, host>>, event => event'
    PROVE  EarlyStep(c)
BY RowUnchanged DEF EarlyStep, RouteInv, RouteTyped

LEMMA RouteCalledKeeps ==
    ASSUME RouteInv, NEW c \in RouteCalls, RouteCalled(c)
    PROVE  RouteInv'
<1>1. EarlyStep(c) /\ RouteTyped /\ ImageHolds(c)
  BY EarlyFrame DEF RouteCalled, At, RouteInv
<1>2. CASE current
  <2>1. PICK p \in {"wait", "read"} : MoveTo(c, p)
    BY <1>2 DEF RouteCalled
  <2>2. image' = image /\ image[c] = NoImage
    BY <1>1, <1>2 DEF RouteCalled, ImageHolds, At
  <2> QED BY <1>1, <2>1, <2>2, Moved, EarlyMove DEF RoutePcs
<1>3. CASE ~current
  BY <1>1, <1>3, EarlyReturn DEF RouteCalled, Told
<1> QED BY <1>2, <1>3

LEMMA EnterKeeps ==
    ASSUME RouteInv, NEW c \in RouteCalls, Enter(c)
    PROVE  RouteInv'
<1>1. EarlyStep(c) /\ RouteTyped /\ ImageHolds(c)
  BY EarlyFrame DEF Enter, At, RouteInv
<1>2. MoveTo(c, "read") /\ image' = image /\ image[c] = NoImage
  BY <1>1 DEF Enter, ImageHolds, At
<1> QED BY <1>1, <1>2, Moved, EarlyMove DEF RoutePcs

LEMMA RenderKeeps ==
    ASSUME RouteInv, NEW c \in RouteCalls, Render(c)
    PROVE  RouteInv'
<1>1. EarlyStep(c) /\ RouteTyped /\ ImageHolds(c) /\ CallTells(c)
  BY EarlyFrame DEF Render, At, RouteInv
<1>2. CASE RouteReturns(c, "failed", FALSE)
  BY <1>1, <1>2, EarlyReturn DEF Told
<1>3. CASE UNCHANGED <<image, routeLock>>
           /\ routing' = [routing EXCEPT ![c].pc = "claim", ![c].fp = Nobody]
  <2>1. /\ routing' \in [RouteCalls -> Routings] /\ routing'[c].pc = "claim"
        /\ routing'[c].told = routing[c].told
        /\ \A d \in RouteCalls \ {c} : routing'[d] = routing[d]
    BY ZenonT(30), <1>1, <1>3 DEF RouteTyped, Routings, RoutePcs, Prints
  <2> QED BY <1>1, <1>3, <2>1, EarlyMove DEF RoutePcs
<1>4. ASSUME NEW p \in Payloads, NEW i \in Rendered,
             routing' = [routing EXCEPT ![c].pc = "claim", ![c].fp = p],
             image' = [image EXCEPT ![c] = i]
      PROVE  RouteInv'
  <2>1. /\ routing' \in [RouteCalls -> Routings] /\ routing'[c].pc = "claim"
        /\ routing'[c].told = routing[c].told
        /\ \A d \in RouteCalls \ {c} : routing'[d] = routing[d]
    BY ZenonT(30), <1>1, <1>4 DEF RouteTyped, Routings, RoutePcs, Prints
  <2>2. i \in Images
    <3>1. NoImage \in Images
      BY DEF NoImage, Images
    <3>2. Registered(TRUE) \in Images /\ Registered(FALSE) \in Images
      BY DEF Registered, Images
    <3> QED BY <1>4, <3>1, <3>2 DEF Rendered, RenderCollage
  <2>3. /\ image' \in [RouteCalls -> Images] /\ image'[c] = i
        /\ \A d \in RouteCalls \ {c} : image'[d] = image[d]
    BY <1>1, <1>4, <2>2 DEF RouteTyped
  <2>4. RouteTyped' /\ RowTells'
    BY <1>1, <2>1, <2>3 DEF RouteTyped, EarlyStep, RowStep
  <2>5. Leaves(c)
    BY <1>1, <2>1, <2>3 DEF Leaves, EarlyStep, RowStep, KeepsClaims
  <2>6. send'[c] = "none" /\ routing[c].told = "none" /\ host' = host /\ kind' = kind
        /\ \A a \in Answers : <<c, a>> \notin host
    BY <1>1, EarlyIsSilent DEF EarlyStep
  <2>7. CallTells(c)'
    BY <2>1, <2>6 DEF CallTells, Answers
  <2>8. ImageHolds(c)'
    BY <1>4, <2>1, <2>3, <2>6 DEF ImageHolds, Rendered, RenderCollage, Registered, NoImage
  <2> QED BY <2>4, <2>5, <2>6, <2>7, <2>8, CallKeeps DEF RoutePart
<1> QED BY <1>2, <1>3, <1>4 DEF Render

LEMMA ClaimKeeps ==
    ASSUME RouteInv, NEW c \in RouteCalls, Claim(c)
    PROVE  RouteInv'
<1> DEFINE new == ClaimRow(c, routing[c].fp)
<1>1. RouteTyped /\ RowTells /\ ImageHolds(c) /\ CallTells(c) /\ routing[c].pc = "claim"
  BY DEF Claim, At, RouteInv
<1>2. routing[c].fp \in Prints /\ row \in Rows
  BY <1>1, RouteTypes DEF Routings, RouteTyped
<1>3. row' \in {row, new}
  BY DEF Claim
<1>4. RowStep(c)
  BY <1>2, <1>3, RowClaimed DEF Claim
<1>5. claimGen' \in Nat
  <2>1. claimGen' \in {claimGen, claimGen + 1}
    BY DEF Claim
  <2> QED BY <1>1, <2>1 DEF RouteTyped
<1>6. EarlyStep(c)
  BY <1>1, <1>4, <1>5 DEF EarlyStep, Claim
<1>7. ASSUME NEW told \in Told, RouteReturns(c, told, FALSE),
             told = "sent" => row.outcome = "accepted"
      PROVE  RouteInv'
  BY <1>1, <1>6, <1>7, EarlyReturn DEF RowTells
<1>8. CASE RouteReturns(c, "failed", FALSE)
  BY <1>7, <1>8 DEF Told
<1>9. CASE RouteReturns(c, IF new.state \in {"claimed", "sending"} THEN "in_progress"
                            ELSE IF kind = "tool" /\ ~Authorized THEN "failed"
                            ELSE IF new = row THEN Replay ELSE "unknown", FALSE)
  <2>1. Replay \in Told /\ (Replay = "sent" => row.outcome = "accepted")
    BY DEF Replay, Told
  <2> DEFINE told == IF new.state \in {"claimed", "sending"} THEN "in_progress"
                            ELSE IF kind = "tool" /\ ~Authorized THEN "failed"
                            ELSE IF new = row THEN Replay ELSE "unknown"
  <2>2. told \in Told /\ (told = "sent" => row.outcome = "accepted")
    BY <2>1 DEF Told
  <2>3. RouteReturns(c, told, FALSE)
    BY <1>9
  <2> HIDE DEF told
  <2> QED BY <1>7, <2>2, <2>3
<1>10. CASE /\ routing' = [routing EXCEPT ![c].pc = AfterClaim(c), ![c].gen = new.gen]
            /\ new = row'
            /\ UNCHANGED <<routeLock, image>>
  <2>1. row'.gen \in Nat
    BY <1>4 DEF RowStep, Rows
  <2>2. AfterClaim(c) \in {"refuse", "validate", "again"}
    BY DEF AfterClaim
  <2> DEFINE p == AfterClaim(c)
             g == row'.gen
  <2>3. routing' = [routing EXCEPT ![c].pc = p, ![c].gen = g]
    BY <1>10
  <2> HIDE DEF p, g, new
  <2>4. p \in {"refuse", "validate", "again"} /\ g \in Nat
    BY <2>1, <2>2 DEF p, g
  <2>5. /\ routing' \in [RouteCalls -> Routings] /\ routing'[c].pc = p
        /\ routing'[c].told = routing[c].told
        /\ \A d \in RouteCalls \ {c} : routing'[d] = routing[d]
    BY <1>1, <2>3, <2>4 DEF RouteTyped, Routings, RoutePcs
  <2> QED BY <1>6, <1>10, <2>4, <2>5, EarlyMove DEF RoutePcs
<1> QED BY <1>8, <1>9, <1>10 DEF Claim

LEMMA RefuseKeeps ==
    ASSUME RouteInv, NEW c \in RouteCalls, Refuse(c)
    PROVE  RouteInv'
<1>1. RouteTyped /\ routing[c].pc = "refuse"
  BY DEF Refuse, At, RouteInv
<1>2. RowStep(c)
  BY <1>1, RowControlled DEF Refuse
<1>3. EarlyStep(c)
  BY <1>1, <1>2 DEF EarlyStep, Refuse, RouteTyped
<1>4. PICK told \in {"failed", "pending"} : RouteReturns(c, told, FALSE)
  BY DEF Refuse
<1> QED BY <1>3, <1>4, EarlyReturn DEF Told

LEMMA ValidateKeeps ==
    ASSUME RouteInv, NEW c \in RouteCalls, Validate(c)
    PROVE  RouteInv'
<1>1. EarlyStep(c) /\ RouteTyped /\ ImageHolds(c)
  BY EarlyFrame DEF Validate, At, RouteInv
<1>2. PICK p \in {"begin", "refuse"} : MoveTo(c, p)
  BY DEF Validate
<1>3. image' = image
  BY DEF Validate
<1> QED BY <1>1, <1>2, <1>3, Moved, EarlyMove DEF RoutePcs

LEMMA AgainKeeps ==
    ASSUME RouteInv, NEW c \in RouteCalls, Again(c)
    PROVE  RouteInv'
<1>1. EarlyStep(c) /\ RouteTyped /\ ImageHolds(c)
  BY EarlyFrame DEF Again, At, RouteInv
<1>2. PICK p \in {"refuse", "finish", "enqueue"} : MoveTo(c, p) /\ (p = "finish" => kind = "tool")
  BY DEF Again
<1>3. image' = image
  BY DEF Again
<1> QED BY <1>1, <1>2, <1>3, Moved, EarlyMove DEF RoutePcs

\* CLAIMED becomes SENDING under the grant that is now.
LEMMA RowBegun ==
    ASSUME RouteInv, NEW c \in RouteCalls, MayBegin(c), row' = Begun, host' = host,
           event' = event, routeGrant' = routeGrant
    PROVE  RowStep(c) /\ row'.owner = c /\ row'.state = "sending"
<1>1. RowTells /\ row \in Rows /\ row.state = "claimed" /\ row.owner = c /\ routeGrant \in BOOLEAN
  BY DEF RouteInv, RouteTyped, MayBegin, Owns
<1>2. row' = [state |-> "sending", owner |-> c, gen |-> row.gen, live |-> TRUE,
              fp |-> row.fp, outcome |-> row.outcome, grant |-> routeGrant]
  BY <1>1 DEF Begun, Rows
<1>3. row' \in Rows
  BY <1>1, <1>2 DEF Rows
<1>4. RowTells'
  BY <1>1, <1>2 DEF RowTells
<1>5. KeepsClaims(c)
  BY <1>1 DEF KeepsClaims, Settling
<1> QED BY <1>2, <1>3, <1>4, <1>5 DEF RowStep

LEMMA BeginSendingKeeps ==
    ASSUME RouteInv, NEW c \in RouteCalls, BeginSending(c)
    PROVE  RouteInv'
<1>1. RouteTyped /\ routing[c].pc = "begin"
  BY DEF BeginSending, At, RouteInv
<1>2. UNCHANGED <<kind, claimGen, send, current, routeGrant, event, host>>
  BY DEF BeginSending
<1>3. ASSUME RowStep(c)
      PROVE  EarlyStep(c)
  BY <1>1, <1>2, <1>3 DEF EarlyStep, RouteTyped
<1>4. CASE row' = row /\ RouteReturns(c, "in_progress", FALSE)
  BY <1>1, <1>2, <1>3, <1>4, RowUnchanged, EarlyReturn DEF Told
<1>5. CASE MayBegin(c) /\ row' = Begun /\ MoveTo(c, "reread") /\ image' = image
  <2>1. RowStep(c) /\ row'.owner = c /\ row'.state = "sending"
    BY <1>2, <1>5, RowBegun
  <2> QED BY <1>1, <1>3, <1>5, <2>1, Moved, EarlyMove DEF RoutePcs
<1>6. CASE row' = row /\ MoveTo(c, "reconcile") /\ image' = image
  BY <1>1, <1>2, <1>3, <1>6, RowUnchanged, Moved, EarlyMove DEF RoutePcs
<1>7. CASE MayBegin(c) /\ row' = Begun /\ MoveTo(c, "reconcile") /\ image' = image
  BY <1>1, <1>2, <1>3, <1>7, RowBegun, Moved, EarlyMove DEF RoutePcs
<1> QED BY <1>4, <1>5, <1>6, <1>7 DEF BeginSending

LEMMA ReconcileKeeps ==
    ASSUME RouteInv, NEW c \in RouteCalls, Reconcile(c)
    PROVE  RouteInv'
<1>1. RouteTyped /\ routing[c].pc = "reconcile" /\ routing[c].fp \in Prints
  BY RouteTypes DEF Reconcile, At, RouteInv, Routings
<1>2. UNCHANGED <<kind, send, current, routeGrant, event, host>>
  BY DEF Reconcile
<1>3. RowStep(c)
  <2>1. row' \in {row, ClaimRow(c, routing[c].fp)} \/ row' \in {row, Controlled(c), AbortBeforeDispatch(c)}
    BY DEF Reconcile
  <2> QED BY <1>1, <1>2, <2>1, RowClaimed, RowControlled
<1>4. claimGen' \in Nat
  <2>1. claimGen' \in {claimGen, claimGen + 1}
    BY DEF Reconcile
  <2> QED BY <1>1, <2>1 DEF RouteTyped
<1>5. EarlyStep(c)
  BY <1>1, <1>2, <1>3, <1>4 DEF EarlyStep
<1> QED BY <1>5, EarlyReturn DEF Reconcile, Told

LEMMA AbortKeeps ==
    ASSUME RouteInv, NEW c \in RouteCalls, Abort(c)
    PROVE  RouteInv'
<1>1. RouteTyped /\ routing[c].pc = "abort"
  BY DEF Abort, At, RouteInv
<1>2. RowStep(c)
  BY <1>1, RowControlled DEF Abort
<1>3. EarlyStep(c)
  BY <1>1, <1>2 DEF EarlyStep, Abort, RouteTyped
<1> QED BY <1>3, EarlyReturn DEF Abort, Told

LEMMA EnqueueKeeps ==
    ASSUME RouteInv, NEW c \in RouteCalls, Enqueue(c)
    PROVE  RouteInv'
<1>1. RouteTyped /\ routing[c].pc = "enqueue"
  BY DEF Enqueue, At, RouteInv
<1>2. EarlyStep(c)
  <2>1. event => event'
    BY Zenon DEF Enqueue
  <2> QED BY <1>1, <2>1, EarlyFrame DEF Enqueue
<1>3. CASE event' = TRUE /\ MoveTo(c, "finish") /\ image' = image
  BY <1>1, <1>2, <1>3, Moved, EarlyMove DEF RoutePcs
<1>4. CASE RouteReturns(c, "in_progress", FALSE)
  BY <1>2, <1>4, EarlyReturn DEF Told
<1> QED BY <1>3, <1>4 DEF Enqueue

LEMMA RowFinished ==
    ASSUME RouteInv, NEW c \in RouteCalls, routing[c].pc = "finish", Owns(c, "claimed"),
           row' = Completed(Outcome), host' = host, event' = event, routeGrant' = routeGrant
    PROVE  RowStep(c)
<1>1. RowTells /\ row \in Rows /\ row.state = "claimed" /\ CallTells(c)
  BY DEF RouteInv, RouteTyped, Owns
<1>2. Outcome \in {"tool", "enqueued"} /\ (Outcome = "enqueued" => event)
  BY <1>1 DEF Outcome, CallTells
<1>3. row' = [row EXCEPT !.state = "completed", !.outcome = Outcome]
  BY DEF Completed
<1>4. /\ row' \in Rows /\ row'.state = "completed" /\ row'.outcome = Outcome
      /\ row'.grant = row.grant
  BY <1>1, <1>2, <1>3 DEF Rows
<1>5. RowTells'
  BY <1>1, <1>2, <1>4 DEF RowTells
<1>6. KeepsClaims(c)
  BY <1>1 DEF KeepsClaims, Settling
<1> QED BY <1>4, <1>5, <1>6 DEF RowStep

LEMMA FinishKeeps ==
    ASSUME RouteInv, NEW c \in RouteCalls, Finish(c)
    PROVE  RouteInv'
<1>1. RouteTyped /\ routing[c].pc = "finish"
  BY DEF Finish, At, RouteInv
<1>2. UNCHANGED <<kind, claimGen, send, current, routeGrant, event, host>>
  BY DEF Finish
<1>3. RowStep(c)
  <2>1. row' = row \/ (Owns(c, "claimed") /\ row' = Completed(Outcome))
    BY DEF Finish
  <2> QED BY <1>1, <1>2, <2>1, RowUnchanged, RowFinished
<1>4. EarlyStep(c)
  BY <1>1, <1>2, <1>3 DEF EarlyStep, RouteTyped
<1>5. (MoveTo(c, "project") /\ image' = image)
      \/ \E told \in {"in_progress", "enqueued", "failed"} : RouteReturns(c, told, FALSE)
  BY DEF Finish
<1>6. CASE MoveTo(c, "project") /\ image' = image
  BY <1>1, <1>4, <1>6, Moved, EarlyMove DEF RoutePcs
<1>7. ASSUME NEW told \in {"in_progress", "enqueued", "failed"}, RouteReturns(c, told, FALSE)
      PROVE  RouteInv'
  BY <1>4, <1>7, EarlyReturn DEF Told
<1> QED BY <1>5, <1>6, <1>7

LEMMA ProjectKeeps ==
    ASSUME RouteInv, NEW c \in RouteCalls, Project(c)
    PROVE  RouteInv'
<1>1. EarlyStep(c)
  BY EarlyFrame DEF Project, At
<1>2. PICK told \in {"tool", "failed"} : RouteReturns(c, told, FALSE)
  BY DEF Project
<1> QED BY <1>1, <1>2, EarlyReturn DEF Told

LEMMA ScheduleKeeps ==
    ASSUME RouteInv, NEW c \in RouteCalls, Schedule(c)
    PROVE  RouteInv'
<1>1. RouteTyped /\ RowTells /\ routing[c].pc = "reread" /\ CallTells(c) /\ ImageHolds(c)
  BY DEF Schedule, At, RouteInv
<1>2. UNCHANGED <<kind, row, claimGen, image, current, routeGrant, event, host>>
  BY DEF Schedule
<1>3. /\ send[c] = "none" /\ routing[c].told = "none" /\ host = {}
      /\ \A a \in Answers : <<c, a>> \notin host
  BY <1>1, EarlyIsSilent DEF CallTells
<1>4. CASE ~MaySchedule(c)
  <2>1. MoveTo(c, "abort") /\ send' = send
    BY <1>4 DEF Schedule
  <2>2. EarlyStep(c)
    BY <1>1, <1>2, <2>1, EarlyFrame
  <2> QED BY <1>1, <1>2, <2>1, <2>2, Moved, EarlyMove DEF RoutePcs, CallTells
<1>5. CASE MaySchedule(c)
  <2>1. MoveTo(c, "await") /\ send' = [send EXCEPT ![c] = "scheduled"]
    BY <1>5 DEF Schedule
  <2>2. /\ routing' \in [RouteCalls -> Routings]
        /\ routing'[c].pc = "await" /\ routing'[c].told = "none"
        /\ \A d \in RouteCalls \ {c} : routing'[d] = routing[d]
    BY <1>1, <1>3, <2>1, Moved DEF RoutePcs
  <2>3. send'[c] = "scheduled" /\ \A d \in RouteCalls \ {c} : send'[d] = send[d]
    BY <1>1, <2>1 DEF RouteTyped
  <2>4. send' \in [RouteCalls -> {"none", "scheduled", "done"} \cup Answers]
    BY <1>1, <2>1 DEF RouteTyped
  <2>5. RouteTyped' /\ RowTells'
    BY <1>1, <1>2, <2>2, <2>4 DEF RouteTyped, RowTells
  <2>6. Leaves(c)
    BY <1>2, <2>2, <2>3 DEF Leaves
  <2>7. Claims(c)
    <3>1. row.state = "sending" /\ row.owner = c /\ row.outcome = "none"
      BY <1>1, <1>5 DEF CallTells, MaySchedule, RowTells
    <3>2. kind = "granted" => row.grant
      BY <1>1, <1>5 DEF MaySchedule, Authorized, CheckResultAuthority, RowTells
    <3> QED BY <3>1, <3>2 DEF Claims
  <2>8. CallTells(c)'
    BY <1>2, <1>3, <2>2, <2>3, <2>7 DEF CallTells, Claims, Answers
  <2>9. ImageHolds(c)'
    BY <1>1, <1>2, <1>3, <2>2, <2>3 DEF ImageHolds
  <2> QED BY <1>2, <2>5, <2>6, <2>8, <2>9, CallKeeps DEF RoutePart
<1> QED BY <1>4, <1>5

\* An image changes hands: everything but one entry stays.
LEMMA ImageStep ==
    ASSUME RouteInv, NEW c \in RouteCalls, NEW i \in Images,
           image' = [image EXCEPT ![c] = i],
           UNCHANGED <<kind, row, claimGen, routing, send, current, routeGrant, event, host>>,
           ImageHolds(c)'
    PROVE  RouteInv'
<1>1. RouteTyped /\ RowTells /\ CallTells(c)
  BY DEF RouteInv
<1>2. image' \in [RouteCalls -> Images] /\ \A d \in RouteCalls \ {c} : image'[d] = image[d]
  BY <1>1 DEF RouteTyped
<1>3. RouteTyped' /\ RowTells' /\ CallTells(c)'
  <2>1. RouteTyped'
    BY <1>1, <1>2 DEF RouteTyped
  <2>2. RowTells'
    BY <1>1 DEF RowTells
  <2>3. CallTells(c)'
    BY <1>1 DEF CallTells, Claims
  <2> QED BY <2>1, <2>2, <2>3
<1>4. Leaves(c)
  BY <1>2 DEF Leaves
<1> QED BY <1>3, <1>4, CallKeeps DEF RoutePart

LEMMA PinImageKeeps ==
    ASSUME RouteInv, NEW c \in RouteCalls, PinImage(c)
    PROVE  RouteInv'
<1>1. RouteTyped /\ ImageHolds(c) /\ image[c] \in Images
  BY RouteTypes DEF RouteInv
<1> DEFINE i == [image[c] EXCEPT !.pin = TRUE]
<1>2. image' = [image EXCEPT ![c] = i]
  BY DEF PinImage
<1>3. i \in Images /\ i.on = image[c].on /\ i.pin /\ i.retired = image[c].retired
  BY <1>1 DEF Images
<1> HIDE DEF i
<1>4. image'[c] = i
  BY <1>1, <1>2 DEF RouteTyped
<1>5. ImageHolds(c)'
  BY <1>1, <1>3, <1>4 DEF ImageHolds, PinImage, Sending, NoImage, MayPin
<1> QED BY <1>2, <1>3, <1>5, ImageStep DEF PinImage

LEMMA ImageExpiresKeeps ==
    ASSUME RouteInv, NEW c \in RouteCalls, ImageExpires(c)
    PROVE  RouteInv'
<1>1. RouteTyped /\ ImageHolds(c) /\ image[c] \in Images
  BY RouteTypes DEF RouteInv
<1> DEFINE i == Retire(image[c])
<1>2. image' = [image EXCEPT ![c] = i]
  BY DEF ImageExpires
<1>3. /\ i \in Images /\ i.carried = image[c].carried /\ i.pin = image[c].pin
      /\ i.on <=> image[c].on /\ image[c].pin
      /\ i.on => i.retired
      /\ ~image[c].on => i = image[c]
  BY <1>1, Releases
<1> HIDE DEF i
<1>4. image'[c] = i
  BY <1>1, <1>2 DEF RouteTyped
<1>5. image[c].on
  BY DEF ImageExpires
<1>6. UNCHANGED <<kind, routing, send>>
  BY DEF ImageExpires
<1>7. ImageHolds(c)'
  BY <1>1, <1>3, <1>4, <1>5, <1>6 DEF ImageHolds, NoImage
<1> QED BY <1>2, <1>3, <1>7, ImageStep DEF ImageExpires

LEMMA DispatchKeeps ==
    ASSUME RouteInv, NEW c \in RouteCalls, Dispatch(c)
    PROVE  RouteInv'
<1>1. RouteTyped /\ RowTells /\ CallTells(c) /\ ImageHolds(c) /\ send[c] = "scheduled"
  BY DEF Dispatch, Sending, RouteInv
<1>2. UNCHANGED <<kind, row, claimGen, routing, image, current, routeGrant, event>>
  BY DEF Dispatch
<1>3. PICK answer \in Answers : send' = [send EXCEPT ![c] = answer]
                                /\ host' = host \cup {<<c, answer>>}
  BY DEF Dispatch, Answers
<1>4. host = {} /\ Claims(c) /\ host' = {<<c, answer>>}
  BY <1>1, <1>3 DEF CallTells
<1>5. /\ send' \in [RouteCalls -> {"none", "scheduled", "done"} \cup Answers]
      /\ send'[c] = answer
      /\ \A d \in RouteCalls \ {c} : send'[d] = send[d]
  BY <1>1, <1>3 DEF RouteTyped
<1>6. RouteTyped'
  BY <1>1, <1>2, <1>4, <1>5 DEF RouteTyped
<1>7. RowTells'
  BY <1>1, <1>2, <1>4 DEF RowTells, Claims
<1>8. Leaves(c)
  BY <1>1, <1>2, <1>4, <1>5 DEF Leaves
<1>9. CallTells(c)'
  <2>1. answer # "scheduled" /\ answer # "none"
    BY DEF Answers
  <2>2. routing[c].told # "sent"
    BY <1>1, <1>4 DEF CallTells
  <2>3. routing[c].told \notin {"failed", "pending"} /\ routing[c].pc \in {"await", "over"}
    BY <1>1 DEF CallTells
  <2>4. Claims(c)'
    BY <1>2, <1>4 DEF Claims
  <2>5. \A a \in Answers : <<c, a>> \in host' => a = answer
    BY <1>4
  <2> QED BY <1>2, <1>4, <1>5, <2>1, <2>2, <2>3, <2>4, <2>5 DEF CallTells, Answers
<1>10. ImageHolds(c)'
  BY <1>1, <1>2, <1>5 DEF ImageHolds, Answers
<1> QED BY <1>2, <1>6, <1>7, <1>8, <1>9, <1>10, CallKeeps DEF RoutePart

LEMMA WithheldKeeps ==
    ASSUME RouteInv, NEW c \in RouteCalls, Withheld(c)
    PROVE  RouteInv'
<1>1. RouteTyped /\ RowTells /\ CallTells(c) /\ ImageHolds(c) /\ send[c] = "scheduled"
  BY DEF Withheld, Sending, RouteInv
<1>2. UNCHANGED <<kind, row, claimGen, routing, image, current, routeGrant, event, host>>
  BY DEF Withheld
<1>3. PICK answer \in {"failed", "unknown"} : send' = [send EXCEPT ![c] = answer]
  BY DEF Withheld
<1>4. host = {} /\ Claims(c)
  BY <1>1 DEF CallTells
<1>5. /\ send' \in [RouteCalls -> {"none", "scheduled", "done"} \cup Answers]
      /\ send'[c] = answer
      /\ \A d \in RouteCalls \ {c} : send'[d] = send[d]
  BY <1>1, <1>3 DEF RouteTyped, Answers
<1>6. RouteTyped' /\ RowTells'
  BY <1>1, <1>2, <1>5 DEF RouteTyped, RowTells
<1>7. Leaves(c)
  BY <1>1, <1>2, <1>5 DEF Leaves
<1>8. CallTells(c)'
  <2>1. Claims(c)'
    BY <1>2, <1>4 DEF Claims
  <2> QED BY <1>1, <1>2, <1>3, <1>4, <1>5, <2>1 DEF CallTells, Answers
<1>9. ImageHolds(c)'
  BY <1>1, <1>2, <1>3, <1>5 DEF ImageHolds, Answers
<1> QED BY <1>2, <1>6, <1>7, <1>8, <1>9, CallKeeps DEF RoutePart

\* The end of a send task: what it records and what its caller is told is what the
\* host answered, or that nobody knows.
LEMMA SendDone ==
    ASSUME RouteInv, NEW c \in RouteCalls, send[c] \in {"scheduled"} \cup Answers, SendEnds(c),
           NEW receipt \in Answers, row' \in {row, Receipted(c, receipt)},
           receipt = "accepted" => send[c] = "accepted",
           NEW told \in {"sent", "failed", "unknown"},
           routing' = routing \/ Resolve(c, told),
           told = "sent" => send[c] = "accepted",
           told = "failed" => send[c] = "failed",
           UNCHANGED <<kind, claimGen, current, routeGrant, event, host>>
    PROVE  RouteInv'
<1>1. /\ RouteTyped /\ RowTells /\ CallTells(c) /\ ImageHolds(c) /\ image[c] \in Images
      /\ row \in Rows
  BY RouteTypes DEF RouteInv, RouteTyped
<1>2. Claims(c) /\ routing[c].pc \in {"await", "over"}
  BY <1>1 DEF CallTells, Answers
<1>3. RowStep(c) /\ Claims(c)'
  <2>1. CASE row' = row
    BY <1>2, <2>1, RowUnchanged DEF Claims
  <2>2. CASE row' # row
    <3>1. row' = [row EXCEPT !.state = "completed", !.outcome = receipt]
      BY <2>2 DEF Receipted, Completed
    <3>2. /\ row' \in Rows /\ row'.state = "completed" /\ row'.outcome = receipt
          /\ row'.grant = row.grant /\ row'.owner = row.owner
      BY <1>1, <3>1 DEF Rows, Answers
    <3>3. receipt # "controlled" /\ receipt # "enqueued"
      BY DEF Answers
    <3>4. receipt = "accepted" => <<c, "accepted">> \in host
      BY <1>1 DEF CallTells
    <3>5. RowTells'
      BY <1>1, <3>2, <3>3, <3>4 DEF RowTells
    <3>6. KeepsClaims(c)
      BY <1>2 DEF KeepsClaims, Claims
    <3>7. Claims(c)'
      BY <1>2, <3>2, <3>3 DEF Claims
    <3> QED BY <3>2, <3>5, <3>6, <3>7 DEF RowStep
  <2> QED BY <2>1, <2>2
<1>4. /\ routing' \in [RouteCalls -> Routings]
      /\ routing'[c].pc = routing[c].pc
      /\ routing'[c].told \in {routing[c].told, told}
      /\ \A d \in RouteCalls \ {c} : routing'[d] = routing[d]
  <2>1. CASE routing' = routing
    BY <1>1, <2>1 DEF RouteTyped
  <2>2. CASE routing' = [routing EXCEPT ![c].told = told]
    BY <1>1, <2>2 DEF RouteTyped, Routings, Told
  <2> QED BY <2>1, <2>2 DEF Resolve
<1>5. /\ send' \in [RouteCalls -> {"none", "scheduled", "done"} \cup Answers]
      /\ send'[c] = "done"
      /\ \A d \in RouteCalls \ {c} : send'[d] = send[d]
  BY <1>1 DEF RouteTyped, SendEnds
<1> DEFINE i == IF kind = "collage" THEN ReleaseCollage(image[c]) ELSE ReleasePin(image[c])
<1>6. i \in Images
  BY <1>1, Releases
<1>7. image' = [image EXCEPT ![c] = i]
  BY DEF SendEnds
<1>8. /\ kind = "collage" => ~i.on /\ i.carried = image[c].carried
      /\ kind # "collage" =>
            /\ i.on <=> image[c].on /\ ~image[c].retired
            /\ i.on => ~i.pin /\ ~i.retired
            /\ ~image[c].on => i = image[c]
  BY <1>1, Releases
<1> HIDE DEF i
<1>9. /\ image' \in [RouteCalls -> Images] /\ image'[c] = i
      /\ \A d \in RouteCalls \ {c} : image'[d] = image[d]
  BY <1>1, <1>6, <1>7 DEF RouteTyped
<1>10. RouteTyped' /\ RowTells'
  BY <1>1, <1>3, <1>4, <1>5, <1>9 DEF RouteTyped, RowStep
<1>11. Leaves(c)
  BY <1>3, <1>4, <1>5, <1>9 DEF Leaves, RowStep, KeepsClaims
<1>12. CallTells(c)'
  <2>1. told = "failed" => <<c, "accepted">> \notin host /\ <<c, "unknown">> \notin host
    BY <1>1 DEF CallTells, Answers
  <2>2. told = "sent" => <<c, "accepted">> \in host
    BY <1>1 DEF CallTells
  <2>3. routing[c].told \in {"failed", "pending"} =>
           <<c, "accepted">> \notin host /\ <<c, "unknown">> \notin host
    BY <1>1 DEF CallTells
  <2>4. routing[c].told = "sent" => \E d \in RouteCalls : <<d, "accepted">> \in host
    BY <1>1 DEF CallTells
  <2>5. routing'[c].told = "sent" => \E d \in RouteCalls : <<d, "accepted">> \in host'
    BY <1>4, <2>2, <2>4
  <2>6. routing'[c].told \in {"failed", "pending"} =>
           <<c, "accepted">> \notin host' /\ <<c, "unknown">> \notin host'
    BY <1>4, <2>1, <2>3
  <2> QED BY <1>2, <1>3, <1>4, <1>5, <2>5, <2>6 DEF CallTells, Answers
<1>13. ImageHolds(c)'
  <2>1. CASE kind = "collage"
    BY <1>1, <1>2, <1>4, <1>5, <1>8, <1>9, <2>1 DEF ImageHolds
  <2>2. CASE kind = "png"
    BY <1>1, <1>2, <1>4, <1>5, <1>8, <1>9, <2>2 DEF ImageHolds
  <2>3. CASE kind \notin {"png", "collage"}
    BY <1>1, <1>2, <1>4, <1>5, <1>8, <1>9, <2>3 DEF ImageHolds, NoImage
  <2> QED BY <2>1, <2>2, <2>3
<1> QED BY <1>10, <1>11, <1>12, <1>13, CallKeeps DEF RoutePart

LEMMA PersistKeeps ==
    ASSUME RouteInv, NEW c \in RouteCalls, Persist(c)
    PROVE  RouteInv'
<1>1. send[c] \in Answers /\ SendEnds(c) /\ Resolve(c, RootResult(send[c]))
      /\ UNCHANGED <<kind, claimGen, current, routeGrant, event, host>>
  BY DEF Persist, Answers
<1>2. row' \in {row, Receipted(c, send[c])}
  BY DEF Persist
<1> DEFINE told == RootResult(send[c])
           receipt == send[c]
<1>3. /\ told \in {"sent", "failed", "unknown"}
      /\ told = "sent" => send[c] = "accepted"
      /\ told = "failed" => send[c] = "failed"
  BY <1>1 DEF RootResult, Answers
<1>4. Resolve(c, told) /\ row' \in {row, Receipted(c, receipt)} /\ receipt \in Answers
      /\ (receipt = "accepted" => send[c] = "accepted")
  BY <1>1, <1>2
<1> HIDE DEF told, receipt
<1> QED BY <1>1, <1>3, <1>4, SendDone

LEMMA CancelSendKeeps ==
    ASSUME RouteInv, NEW c \in RouteCalls, CancelSend(c)
    PROVE  RouteInv'
<1>1. /\ send[c] \in {"scheduled"} \cup Answers /\ SendEnds(c)
      /\ row' \in {row, Receipted(c, "unknown")}
      /\ routing' = routing \/ Resolve(c, "unknown")
      /\ UNCHANGED <<kind, claimGen, current, routeGrant, event, host>>
  BY DEF CancelSend, Answers
<1>2. "unknown" \in Answers
  BY DEF Answers
<1> QED BY <1>1, <1>2, SendDone

\* A call that waited for its send returns: the image stays with the task.
LEMMA LateReturn ==
    ASSUME RouteInv, NEW c \in RouteCalls, NEW told \in {routing[c].told, "unknown", "cancelled"},
           routing[c].pc = "await", RouteReturns(c, told, TRUE),
           UNCHANGED <<kind, row, claimGen, send, current, routeGrant, event, host>>
    PROVE  RouteInv'
<1>1. RouteTyped /\ RowTells /\ CallTells(c) /\ ImageHolds(c) /\ routing[c] \in Routings
  BY RouteTypes DEF RouteInv
<1>2. told \in Told
  BY <1>1 DEF Routings, Told
<1>3. /\ routing' \in [RouteCalls -> Routings] /\ image' \in [RouteCalls -> Images]
      /\ routing'[c].pc = "over" /\ routing'[c].told = told
      /\ \A d \in RouteCalls \ {c} : routing'[d] = routing[d] /\ image'[d] = image[d]
  BY <1>1, <1>2, Returned
<1>4. RouteTyped' /\ RowTells'
  BY <1>1, <1>3 DEF RouteTyped, RowTells
<1>5. Leaves(c)
  BY <1>3 DEF Leaves
<1>6. CallTells(c)'
  <2>1. Claims(c)' <=> Claims(c)
    BY DEF Claims
  <2> QED BY <1>1, <1>3, <2>1 DEF CallTells
<1>7. ImageHolds(c)'
  BY <1>2, ImageReturned
<1> QED BY <1>4, <1>5, <1>6, <1>7, CallKeeps DEF RoutePart

LEMMA AnsweredKeeps ==
    ASSUME RouteInv, NEW c \in RouteCalls, Answered(c) \/ SendTimeout(c)
    PROVE  RouteInv'
BY LateReturn DEF Answered, SendTimeout, At

LEMMA CancelRouteKeeps ==
    ASSUME RouteInv, NEW c \in RouteCalls, CancelRoute(c)
    PROVE  RouteInv'
<1>1. RouteTyped /\ CallTells(c)
  BY DEF RouteInv
<1>2. UNCHANGED <<kind, row, claimGen, send, current, routeGrant, event, host>>
  BY DEF CancelRoute
<1>3. CASE routing[c].pc = "await" /\ RouteReturns(c, "cancelled", TRUE)
  BY <1>2, <1>3, LateReturn
<1>4. CASE routing[c].pc \in {"wait", "read", "claim", "refuse", "again", "enqueue",
                             "finish", "project"} /\ RouteReturns(c, "cancelled", FALSE)
  BY <1>2, <1>4, EarlyFrame, EarlyReturn DEF Told
<1>5. CASE routing[c].pc \in {"validate", "begin"} /\ MoveTo(c, "reconcile") /\ image' = image
  BY <1>1, <1>2, <1>5, EarlyFrame, Moved, EarlyMove DEF RoutePcs
<1>6. CASE routing[c].pc = "reread" /\ MoveTo(c, "abort") /\ image' = image
  BY <1>1, <1>2, <1>6, EarlyFrame, Moved, EarlyMove DEF RoutePcs, CallTells
<1>7. routing[c].pc = "await" => (routing[c].pc = "await") = TRUE
  OBVIOUS
<1>8. routing[c].pc # "await" => (routing[c].pc = "await") = FALSE
  OBVIOUS
<1> QED BY <1>3, <1>4, <1>5, <1>6, <1>7, <1>8 DEF CancelRoute

\* The steps of the world.

LEMMA LeaseExpiresKeeps ==
    ASSUME RouteInv, LeaseExpires
    PROVE  RouteInv'
<1>1. RouteTyped /\ RowTells /\ row \in Rows
  BY DEF RouteInv, RouteTyped
<1>2. row' = [row EXCEPT !.live = FALSE]
      /\ UNCHANGED <<kind, claimGen, routing, send, image, current, routeGrant, event, host>>
  BY DEF LeaseExpires
<1>3. /\ row' \in Rows /\ row'.state = row.state /\ row'.owner = row.owner
      /\ row'.outcome = row.outcome /\ row'.grant = row.grant /\ ~row'.live
  BY <1>1, <1>2 DEF Rows
<1>4. RouteTyped' /\ RowTells'
  BY <1>1, <1>2, <1>3 DEF RouteTyped, RowTells
<1>5. ASSUME NEW c \in RouteCalls
      PROVE  CallTells(c)' /\ ImageHolds(c)'
  <2>1. CallTells(c) /\ ImageHolds(c)
    BY DEF RouteInv
  <2>2. Claims(c) => Claims(c)'
    BY <1>2, <1>3 DEF Claims
  <2>3. CallTells(c)'
    BY <1>2, <1>3, <2>1, <2>2 DEF CallTells
  <2>4. ImageHolds(c)'
    BY <1>2, <2>1 DEF ImageHolds
  <2> QED BY <2>3, <2>4
<1> QED BY <1>4, <1>5 DEF RouteInv

LEMMA InvocationEndsKeeps ==
    ASSUME RouteInv, InvocationEnds
    PROVE  RouteInv'
<1>1. RouteTyped /\ RowTells
  BY DEF RouteInv
<1>2. UNCHANGED <<kind, row, claimGen, routing, send, routeGrant, event, host>>
      /\ current' = FALSE /\ image' = [c \in RouteCalls |-> Retire(image[c])]
  BY DEF InvocationEnds
<1>3. \A c \in RouteCalls : image[c] \in Images /\ Retire(image[c]) \in Images
  BY <1>1, RouteTypes, Releases
<1>4. image' \in [RouteCalls -> Images]
  BY <1>2, <1>3
<1>5. RouteTyped' /\ RowTells'
  BY <1>1, <1>2, <1>4 DEF RouteTyped, RowTells
<1>6. ASSUME NEW c \in RouteCalls
      PROVE  CallTells(c)' /\ ImageHolds(c)'
  <2>1. CallTells(c) /\ ImageHolds(c)
    BY DEF RouteInv
  <2>2. CallTells(c)'
    BY <1>2, <2>1 DEF CallTells, Claims
  <2> DEFINE i == Retire(image[c])
  <2>3. /\ i.carried = image[c].carried /\ i.pin = image[c].pin
        /\ i.on <=> image[c].on /\ image[c].pin
        /\ i.on => i.retired
        /\ ~image[c].on => i = image[c]
    BY <1>3, Releases
  <2>4. image'[c] = i
    BY <1>2
  <2> HIDE DEF i
  <2>5. ImageHolds(c)'
    BY <1>2, <2>1, <2>3, <2>4 DEF ImageHolds, NoImage
  <2> QED BY <2>2, <2>5
<1> QED BY <1>5, <1>6 DEF RouteInv

LEMMA GrantRevokedKeeps ==
    ASSUME RouteInv, GrantRevoked
    PROVE  RouteInv'
<1>1. RouteTyped /\ RowTells
  BY DEF RouteInv
<1>2. UNCHANGED <<kind, row, claimGen, routing, send, image, current, event, host>>
      /\ routeGrant' = FALSE
  BY DEF GrantRevoked
<1>3. RouteTyped' /\ RowTells'
  BY <1>1, <1>2 DEF RouteTyped, RowTells
<1>4. ASSUME NEW c \in RouteCalls
      PROVE  CallTells(c)' /\ ImageHolds(c)'
  BY <1>2 DEF RouteInv, CallTells, Claims, ImageHolds
<1> QED BY <1>3, <1>4 DEF RouteInv

LEMMA CrashKeeps ==
    ASSUME RouteInv, Crash
    PROVE  RouteInv'
<1>1. RouteTyped /\ RowTells
  BY DEF RouteInv
<1>2. /\ UNCHANGED <<kind, row, claimGen, routeGrant, event, host>> /\ current' = FALSE
      /\ send' = [c \in RouteCalls |-> "none"]
      /\ image' = [c \in RouteCalls |-> NoImage]
  BY DEF Crash
<1> DEFINE r(c) == [routing[c] EXCEPT !.pc = "over",
                  !.told = IF routing[c].pc = "over" THEN routing[c].told ELSE "cancelled"]
<1>3. routing' = [c \in RouteCalls |-> r(c)]
  BY DEF Crash
<1>4. ASSUME NEW c \in RouteCalls
      PROVE  /\ r(c) \in Routings /\ r(c).pc = "over"
             /\ r(c).told \in {routing[c].told, "cancelled"}
  BY <1>1, RouteTypes DEF Routings, RoutePcs, Told
<1> HIDE DEF r
<1>5. routing' \in [RouteCalls -> Routings]
  BY <1>3, <1>4
<1>6. NoImage \in Images
  BY DEF NoImage, Images
<1>7. RouteTyped' /\ RowTells'
  BY <1>1, <1>2, <1>5, <1>6 DEF RouteTyped, RowTells
<1>8. ASSUME NEW c \in RouteCalls
      PROVE  CallTells(c)' /\ ImageHolds(c)'
  <2>1. CallTells(c)
    BY DEF RouteInv
  <2>2. routing'[c].pc = "over" /\ routing'[c].told \in {routing[c].told, "cancelled"}
        /\ send'[c] = "none" /\ image'[c] = NoImage
    BY <1>2, <1>3, <1>4
  <2>3. Claims(c)' <=> Claims(c)
    BY <1>2 DEF Claims
  <2>4. CallTells(c)'
    BY <1>2, <2>1, <2>2, <2>3 DEF CallTells, Answers
  <2>5. ImageHolds(c)'
    BY <1>2, <2>2 DEF ImageHolds, NoImage
  <2> QED BY <2>4, <2>5
<1> QED BY <1>7, <1>8 DEF RouteInv

LEMMA RecoverExpiredKeeps ==
    ASSUME RouteInv, RecoverExpired
    PROVE  RouteInv'
<1>1. RouteTyped /\ RowTells /\ row \in Rows
  BY DEF RouteInv, RouteTyped
<1>2. UNCHANGED <<kind, claimGen, routing, send, image, current, routeGrant, event, host>>
      /\ row' = IF row.state = "sending" /\ ~row.live THEN Interrupted ELSE row
  BY DEF RecoverExpired
<1>3. /\ row' \in Rows /\ row'.owner = row.owner /\ row'.outcome = row.outcome
      /\ row'.grant = row.grant /\ row'.live = row.live
      /\ row'.state \in {row.state, "unknown"}
      /\ row'.state # row.state => row.state = "sending" /\ ~row.live
  BY <1>1, <1>2 DEF Rows, Interrupted
<1>4. RouteTyped' /\ RowTells'
  <2>1. RouteTyped'
    BY <1>1, <1>2, <1>3 DEF RouteTyped
  <2>2. RowTells'
    BY <1>1, <1>2, <1>3 DEF RowTells
  <2> QED BY <2>1, <2>2
<1>5. ASSUME NEW c \in RouteCalls
      PROVE  CallTells(c)' /\ ImageHolds(c)'
  <2>1. CallTells(c) /\ ImageHolds(c)
    BY DEF RouteInv
  <2>2. Claims(c) => Claims(c)'
    BY <1>2, <1>3 DEF Claims
  <2>3. CallTells(c)'
    BY <1>2, <1>3, <2>1, <2>2 DEF CallTells
  <2>4. ImageHolds(c)'
    BY <1>2, <2>1 DEF ImageHolds
  <2> QED BY <2>3, <2>4
<1> QED BY <1>4, <1>5 DEF RouteInv

LEMMA RouteNextKeeps ==
    ASSUME RouteInv, RouteNext
    PROVE  RouteInv'
<1>1. ASSUME NEW c \in RouteCalls, CallStep(c)
      PROVE  RouteInv'
  BY <1>1, EnterKeeps, RenderKeeps, ClaimKeeps, RefuseKeeps, ValidateKeeps, BeginSendingKeeps,
     ReconcileKeeps, ScheduleKeeps, AbortKeeps, AnsweredKeeps, AgainKeeps, EnqueueKeeps,
     FinishKeeps, ProjectKeeps DEF CallStep
<1>2. ASSUME NEW c \in RouteCalls, SendStep(c)
      PROVE  RouteInv'
  BY <1>2, PinImageKeeps, DispatchKeeps, WithheldKeeps, PersistKeeps DEF SendStep
<1>3. ASSUME NEW c \in RouteCalls,
             RouteCalled(c) \/ CancelSend(c) \/ CancelRoute(c) \/ ImageExpires(c)
      PROVE  RouteInv'
  BY <1>3, RouteCalledKeeps, CancelSendKeeps, CancelRouteKeeps, ImageExpiresKeeps
<1> QED
  BY <1>1, <1>2, <1>3, LeaseExpiresKeeps, InvocationEndsKeeps, GrantRevokedKeeps, CrashKeeps,
     RecoverExpiredKeeps DEF RouteNext

LEMMA RouteInitHolds ==
    ASSUME RouteInit
    PROVE  RouteInv
<1>1. NoRouting \in Routings
  BY DEF NoRouting, Routings, RoutePcs, Prints, Told
<1>2. NoImage \in Images
  BY DEF NoImage, Images
<1>3. NoClaim \in Rows
  BY DEF NoClaim, Rows, Prints
<1>4. RouteTyped
  BY <1>1, <1>2, <1>3, RouteAssumption DEF RouteInit, RouteTyped
<1>5. RowTells
  BY DEF RouteInit, RowTells, NoClaim
<1>6. ASSUME NEW c \in RouteCalls
      PROVE  CallTells(c) /\ ImageHolds(c)
  BY DEF RouteInit, CallTells, ImageHolds, NoRouting, NoImage, Answers
<1> QED BY <1>4, <1>5, <1>6 DEF RouteInv

LEMMA RouteInvIsEnough ==
    ASSUME RouteInv
    PROVE  OneDispatch /\ OutcomeTellsTruth /\ RevokedIsNotSent /\ ImageFollowsSend
<1>1. RouteTyped /\ RowTells /\ \A c \in RouteCalls : CallTells(c) /\ ImageHolds(c)
  BY DEF RouteInv
<1>2. OneDispatch
  <2>1. CASE host = {}
    BY <2>1, FS_EmptySet DEF OneDispatch
  <2>2. CASE host # {}
    <3>1. PICK x \in host : TRUE
      BY <2>2
    <3>2. host = {x}
      BY <1>1, <3>1 DEF RowTells
    <3>3. Cardinality(host) = 1
      BY <3>2, FS_Singleton
    <3> QED BY <3>3 DEF OneDispatch
  <2> QED BY <2>1, <2>2
<1>3. OutcomeTellsTruth
  BY <1>1 DEF OutcomeTellsTruth, RowTells, CallTells
<1>4. RevokedIsNotSent
  <2>1. ASSUME kind = "granted", NEW x \in host
        PROVE  row.grant
    <3>1. PICK c \in RouteCalls, a \in Answers : x = <<c, a>>
      BY <1>1, <2>1 DEF RouteTyped
    <3> QED BY <1>1, <2>1, <3>1 DEF CallTells, Claims
  <2> QED BY <2>1 DEF RevokedIsNotSent
<1>5. ImageFollowsSend
  <2>1. ASSUME NEW c \in RouteCalls, image[c].on, Finished(c)
        PROVE  send[c] \notin {"none", "done"}
    BY <1>1, <2>1 DEF ImageHolds, Finished, NoImage
  <2>2. ASSUME NEW c \in RouteCalls, kind = "collage", image[c].carried, send[c] = "scheduled"
        PROVE  image[c].on
    BY <1>1, <2>2 DEF ImageHolds
  <2> QED BY <2>1, <2>2 DEF ImageFollowsSend
<1> QED BY <1>2, <1>3, <1>4, <1>5

\* The authority of an invocation.

Pcs == {"idle", "ingress", "publish", "authorize", "granted", "spawn", "handler", "check",
        "reauthorize", "regranted", "webpublish", "webadmit", "cleanup", "route", "done"}
Outs == {"none", "ok", "error", "raised", "unsent"}
CallStates == [pc: Pcs, kind: AllKinds, epoch: Nat, seen: Nat, out: Outs,
               dep: {"none", "calling", "refused", "used"}, why: {"none", "deadline", "cancel"}]
Leases == [epoch: Nat, rev: Nat, depepoch: Nat, deprev: Nat]
Views == [on: BOOLEAN, expired: BOOLEAN, epoch: Nat, grant: Nat, lease: Leases,
          proof: BOOLEAN, ingress: BOOLEAN]
Children == [on: BOOLEAN, epoch: Nat, rev: Nat]
Live == {"spawned", "running", "cancelling", "orphan"}
Works == [st: {"none", "ok", "failed", "cancelled"} \cup Live, epoch: Nat]
Gates == [epoch: Nat, open: BOOLEAN, scope: {"open", "cancelled", "closed"}]

InvokeTyped ==
    /\ admission \in [CallModules -> Gates]
    /\ health \in [CallModules -> [rev: Nat, up: BOOLEAN]]
    /\ grant \in [rev: Nat, active: BOOLEAN]
    /\ call \in [Calls -> CallStates]
    /\ view \in [Calls -> Views]
    /\ child \in [Calls -> Children]
    /\ work \in [Calls -> Works]
    /\ depwork \in [Calls -> Works]

\* Authority is held between the issue of the view and the end of the request; an
\* outcome is decided last, and a web request has one only with its end.  A view
\* was issued under a revision of the grant that was.
CallHolds(c) ==
    /\ call[c].pc \in {"idle", "done"} => view[c] = NoView
    /\ child[c].on => view[c].on
    /\ call[c].pc \notin {"route", "done"} => call[c].out = "none"
    /\ (call[c].kind = "web" /\ call[c].pc = "route") => call[c].out = "error"
    /\ call[c].pc \in {"granted", "regranted"} => call[c].kind = "private"
    /\ view[c].grant <= grant.rev

\* A task that has not ended keeps its scope from closing, and belongs to the run
\* that serves, if one does.  A scope reopens only from closed.
Fits(w, m) ==
    w.st \in Live => /\ admission[m].scope # "closed"
                     /\ admission[m].open => w.epoch = admission[m].epoch
TaskHolds(c) == Fits(work[c], Home) /\ Fits(depwork[c], Dep)

InvokeInv ==
    /\ InvokeTyped
    /\ \A c \in Calls : CallHolds(c)
    /\ \A c \in Calls : TaskHolds(c)

\* What a step of one request leaves to every other.
CallFrame(c) == call' \in [Calls -> CallStates] /\ \A d \in Calls \ {c} : call'[d] = call[d]
ViewFrame(c) ==
    /\ view' \in [Calls -> Views] /\ child' \in [Calls -> Children]
    /\ \A d \in Calls \ {c} : view'[d] = view[d] /\ child'[d] = child[d]
WorkFrame(c) ==
    /\ work' \in [Calls -> Works] /\ depwork' \in [Calls -> Works]
    /\ \A d \in Calls \ {c} : work'[d] = work[d] /\ depwork'[d] = depwork[d]
\* A gate may close, and its scope stays as it is.
GateFrame ==
    /\ admission' \in [CallModules -> Gates]
    /\ \A m \in CallModules :
          /\ admission'[m].scope = admission[m].scope
          /\ admission'[m].open =>
                admission[m].open /\ admission'[m].epoch = admission[m].epoch

LEMMA RequestKeeps ==
    ASSUME InvokeInv, NEW c \in Calls, CallFrame(c), ViewFrame(c), WorkFrame(c), GateFrame,
           UNCHANGED <<health, grant>>, CallHolds(c)', TaskHolds(c)'
    PROVE  InvokeInv'
<1>1. InvokeTyped'
  BY DEF InvokeInv, InvokeTyped, CallFrame, ViewFrame, WorkFrame, GateFrame
<1>2. ASSUME NEW d \in Calls, d # c
      PROVE  CallHolds(d)' /\ TaskHolds(d)'
  <2>1. CallHolds(d)'
    BY <1>2 DEF InvokeInv, CallHolds, CallFrame, ViewFrame
  <2>2. TaskHolds(d)'
    BY <1>2 DEF InvokeInv, TaskHolds, Fits, WorkFrame, GateFrame, CallModules
  <2> QED BY <2>1, <2>2
<1> QED BY <1>1, <1>2 DEF InvokeInv

LEMMA InvokeTypes ==
    ASSUME InvokeTyped, NEW c \in Calls
    PROVE  /\ call[c] \in CallStates /\ view[c] \in Views /\ child[c] \in Children
           /\ work[c] \in Works /\ depwork[c] \in Works
           /\ admission[Home] \in Gates /\ admission[Dep] \in Gates
           /\ health[Home].rev \in Nat /\ health[Dep].rev \in Nat
           /\ grant.rev \in Nat
BY DEF InvokeTyped, CallModules

LEMMA Nothing ==
    NoView \in Views /\ NoChild \in Children /\ NoWork \in Works /\ NoCall \in CallStates
<1>1. NoLease \in Leases
  BY DEF NoLease, Leases
<1>2. NoView \in Views
  BY <1>1 DEF NoView, Views
<1>3. NoChild \in Children /\ NoWork \in Works
  BY DEF NoChild, Children, NoWork, Works
<1>4. NoCall \in CallStates
  BY DEF NoCall, CallStates, Pcs, AllKinds, Outs
<1> QED BY <1>2, <1>3, <1>4

LEMMA StillTasks ==
    ASSUME InvokeInv, NEW c \in Calls, UNCHANGED <<work, depwork, admission>>
    PROVE  WorkFrame(c) /\ GateFrame /\ TaskHolds(c)'
BY DEF InvokeInv, InvokeTyped, WorkFrame, GateFrame, TaskHolds, Fits

LEMMA StillViews ==
    ASSUME InvokeInv, NEW c \in Calls, UNCHANGED <<view, child>>
    PROVE  ViewFrame(c)
BY DEF InvokeInv, InvokeTyped, ViewFrame

\* The coroutine moves on.
LEMMA Goes ==
    ASSUME InvokeTyped, NEW c \in Calls, NEW p \in Pcs, Goto(c, p)
    PROVE  /\ CallFrame(c)
           /\ call'[c].pc = p /\ call'[c].kind = call[c].kind /\ call'[c].out = call[c].out
           /\ call'[c].seen = call[c].seen
BY ZenonT(30) DEF Goto, InvokeTyped, CallStates, CallFrame

LEMMA IsDenied ==
    ASSUME InvokeTyped, NEW c \in Calls, Denied(c)
    PROVE  /\ CallFrame(c)
           /\ call'[c].pc = "route" /\ call'[c].kind = call[c].kind /\ call'[c].out = "error"
<1> DEFINE r == [call[c] EXCEPT !.pc = "route", !.out = "error"]
<1>1. r \in CallStates /\ r.pc = "route" /\ r.kind = call[c].kind /\ r.out = "error"
  BY InvokeTypes DEF CallStates, Pcs, Outs
<1>2. call' = [call EXCEPT ![c] = r]
  BY DEF Denied
<1> HIDE DEF r
<1> QED BY <1>1, <1>2 DEF InvokeTyped, CallFrame

LEMMA IsOver ==
    ASSUME NEW r \in CallStates, NEW out \in Outs
    PROVE  /\ Over(r, out) \in CallStates
           /\ Over(r, out).pc = "done" /\ Over(r, out).kind = r.kind /\ Over(r, out).out = out
BY DEF Over, NoCall, CallStates, Pcs, AllKinds

LEMMA Released ==
    ASSUME InvokeTyped, NEW c \in Calls, Release(c)
    PROVE  ViewFrame(c) /\ view'[c] = NoView /\ child'[c] = NoChild
BY Nothing DEF Release, InvokeTyped, ViewFrame

\* A request that ends leaves nothing, whatever its outcome.
LEMMA EndHolds ==
    ASSUME InvokeInv, NEW c \in Calls, NEW out \in Outs,
           call' = [call EXCEPT ![c] = Over(call[c], out)], Release(c), grant' = grant
    PROVE  CallFrame(c) /\ ViewFrame(c) /\ CallHolds(c)'
<1>1. InvokeTyped
  BY DEF InvokeInv
<1> DEFINE r == Over(call[c], out)
<1>2. r \in CallStates /\ r.pc = "done"
  BY <1>1, InvokeTypes, IsOver
<1>3. call' = [call EXCEPT ![c] = r]
  OBVIOUS
<1> HIDE DEF r
<1>4. CallFrame(c) /\ call'[c] = r
  BY <1>1, <1>2, <1>3 DEF InvokeTyped, CallFrame
<1>5. ViewFrame(c) /\ view'[c] = NoView /\ child'[c] = NoChild
  BY <1>1, Released
<1>6. grant.rev \in Nat
  BY <1>1, InvokeTypes
<1>7. CallHolds(c)'
  BY <1>2, <1>4, <1>5, <1>6 DEF CallHolds, NoView, NoChild
<1> QED BY <1>4, <1>5, <1>7

LEMMA ReturnKeeps ==
    ASSUME InvokeInv, NEW c \in Calls, NEW out \in Outs, Return(c, out),
           UNCHANGED <<admission, health, grant, work, depwork>>
    PROVE  InvokeInv'
BY EndHolds, StillTasks, RequestKeeps DEF Return

LEMMA DeniedKeeps ==
    ASSUME InvokeInv, NEW c \in Calls, Denied(c), call[c].pc \notin {"idle", "done"},
           UNCHANGED <<admission, health, grant, view, child, work, depwork>>
    PROVE  InvokeInv'
<1>1. InvokeTyped /\ CallHolds(c)
  BY DEF InvokeInv
<1>2. CallHolds(c)'
  BY <1>1, IsDenied DEF CallHolds
<1> QED BY <1>1, <1>2, IsDenied, StillTasks, StillViews, RequestKeeps

LEMMA GoesKeeps ==
    ASSUME InvokeInv, NEW c \in Calls, NEW p \in Pcs, Goto(c, p),
           call[c].pc \notin {"idle", "done", "route"}, p \notin {"idle", "done", "route", "granted", "regranted"},
           UNCHANGED <<admission, health, grant, view, child, work, depwork>>
    PROVE  InvokeInv'
<1>1. InvokeTyped /\ CallHolds(c)
  BY DEF InvokeInv
<1>2. CallHolds(c)'
  BY <1>1, Goes DEF CallHolds
<1> QED BY <1>1, <1>2, Goes, StillTasks, StillViews, RequestKeeps

\* A request that moves on with something written in its own record.
LEMMA MovesKeep ==
    ASSUME InvokeInv, NEW c \in Calls, NEW r \in CallStates, call' = [call EXCEPT ![c] = r],
           r.pc \notin {"idle", "done"}, call[c].pc \notin {"idle", "done"} \/ ~child[c].on,
           r.kind = call[c].kind \/ call[c].pc = "idle",
           r.pc # "route" => r.out = "none",
           r.pc \in {"granted", "regranted"} => r.kind = "private",
           (r.kind = "web" /\ r.pc = "route") => r.out = "error",
           UNCHANGED <<admission, health, grant, view, child, work, depwork>>
    PROVE  InvokeInv'
<1>1. InvokeTyped /\ CallHolds(c)
  BY DEF InvokeInv
<1>2. CallFrame(c) /\ call'[c] = r
  BY <1>1 DEF InvokeTyped, CallFrame
<1>3. CallHolds(c)'
  BY <1>1, <1>2 DEF CallHolds
<1> QED BY <1>2, <1>3, StillTasks, StillViews, RequestKeeps

LEMMA ArriveKeeps ==
    ASSUME InvokeInv, NEW c \in Calls, NEW k \in Kinds, Arrive(c, k)
    PROVE  InvokeInv'
<1> DEFINE r == [NoCall EXCEPT !.pc = "ingress", !.kind = k]
<1>1. k \in AllKinds
  BY CallsAssumption
<1>2. r \in CallStates /\ r.pc = "ingress" /\ r.out = "none"
  BY <1>1, Nothing DEF CallStates, Pcs, NoCall
<1>3. call' = [call EXCEPT ![c] = r] /\ call[c].pc = "idle"
  BY DEF Arrive
<1> HIDE DEF r
<1>4. ~child[c].on
  BY <1>3 DEF InvokeInv, CallHolds, NoView
<1> QED BY <1>2, <1>3, <1>4, MovesKeep DEF Arrive

LEMMA IngressedKeeps ==
    ASSUME InvokeInv, NEW c \in Calls, Ingressed(c)
    PROVE  InvokeInv'
<1>1. InvokeTyped /\ call[c].pc = "ingress" /\ CallHolds(c)
  BY DEF InvokeInv, Ingressed
<1>2. CASE Return(c, "raised")
  BY <1>2, ReturnKeeps DEF Ingressed, Outs
<1>3. CASE /\ call' = [call EXCEPT ![c].pc = "publish", ![c].epoch = admission[Home].epoch]
           /\ UNCHANGED <<view, child>>
  <2> DEFINE r == [call[c] EXCEPT !.pc = "publish", !.epoch = admission[Home].epoch]
  <2>1. admission[Home].epoch \in Nat
    BY <1>1, InvokeTypes DEF Gates
  <2>2. r \in CallStates /\ r.pc = "publish" /\ r.kind = call[c].kind /\ r.out = call[c].out
    BY <1>1, <2>1, InvokeTypes DEF CallStates, Pcs
  <2>3. call' = [call EXCEPT ![c] = r]
    BY <1>3
  <2> HIDE DEF r
  <2> QED BY <1>1, <1>3, <2>2, <2>3, MovesKeep DEF Ingressed, CallHolds
<1> QED BY <1>2, <1>3 DEF Ingressed

LEMMA LeasedTyped ==
    ASSUME InvokeTyped
    PROVE  Leased \in Leases
BY DEF InvokeTyped, Leased, Leases, Gates, CallModules

\* A view that is written anew, by a request that holds or takes authority.
LEMMA ViewKeeps ==
    ASSUME InvokeInv, NEW c \in Calls, NEW p \in Pcs, Goto(c, p),
           call[c].pc \notin {"idle", "done", "route"}, p \notin {"idle", "done", "route", "granted", "regranted"},
           NEW v \in Views, view' = [view EXCEPT ![c] = v],
           view[c].on => v.on, v.grant <= grant.rev,
           UNCHANGED <<admission, health, grant, child, work, depwork>>
    PROVE  InvokeInv'
<1>1. InvokeTyped /\ CallHolds(c)
  BY DEF InvokeInv
<1>2. ViewFrame(c) /\ view'[c] = v
  BY <1>1 DEF InvokeTyped, ViewFrame
<1>3. CallHolds(c)'
  BY <1>1, <1>2, Goes DEF CallHolds
<1> QED BY <1>1, <1>2, <1>3, Goes, StillTasks, RequestKeeps

LEMMA IssueKeeps ==
    ASSUME InvokeInv, NEW c \in Calls, Issue(c)
    PROVE  InvokeInv'
<1>1. InvokeTyped /\ call[c].pc = "publish" /\ UNCHANGED <<admission, health, grant, work, depwork>>
  BY DEF InvokeInv, Issue
<1>2. CASE Return(c, "raised")
  BY <1>1, <1>2, ReturnKeeps DEF Outs
<1> DEFINE k == call[c].kind
           g == IF k = "private" THEN grant.rev ELSE 0
           b == (k # "tool")
           issued == [NoView EXCEPT !.on = TRUE, !.epoch = admission[Home].epoch,
                                    !.grant = g, !.ingress = b]
           v == [issued EXCEPT !.lease = Leased]
<1>3. CASE view' = [view EXCEPT ![c] = v] /\ Goto(c, FirstStep(k)) /\ UNCHANGED child
  <2>1. admission[Home].epoch \in Nat /\ grant.rev \in Nat /\ Leased \in Leases
    BY <1>1, InvokeTypes, LeasedTyped DEF Gates
  <2>2. g \in Nat /\ g <= grant.rev /\ b \in BOOLEAN
    BY <2>1
  <2>3. v \in Views /\ v.on /\ v.grant <= grant.rev
    <3> HIDE DEF g, b
    <3>1. issued \in Views /\ issued.on /\ issued.grant = g
      BY <2>1, <2>2, Nothing DEF Views, NoView
    <3> HIDE DEF issued
    <3> QED BY <2>1, <2>2, <3>1 DEF Views
  <2>4. FirstStep(k) \in {"authorize", "spawn"}
    BY DEF FirstStep
  <2> DEFINE p == FirstStep(k)
  <2>5. p \in {"authorize", "spawn"} /\ Goto(c, p) /\ view' = [view EXCEPT ![c] = v]
    BY <1>3, <2>4
  <2> HIDE DEF p, v
  <2> QED BY <1>1, <1>3, <2>3, <2>5, ViewKeeps DEF Pcs
<1> QED BY <1>2, <1>3 DEF Issue

LEMMA ReadGrantKeeps ==
    ASSUME InvokeInv, NEW c \in Calls, ReadGrant(c)
    PROVE  InvokeInv'
<1>1. InvokeTyped /\ call[c].pc \in {"authorize", "reauthorize"} /\ CallHolds(c)
  BY DEF InvokeInv, ReadGrant
<1>2. PICK p \in {"granted", "regranted"} : call' = [call EXCEPT ![c].seen = GrantRead, ![c].pc = p]
  <2>1. CASE call[c].pc = "authorize"
    <3>1. call' = [call EXCEPT ![c].seen = GrantRead, ![c].pc = "granted"]
      BY <1>1, <2>1 DEF ReadGrant, InvokeTyped, CallStates
    <3> QED BY <3>1
  <2>2. CASE call[c].pc = "reauthorize"
    <3>1. call' = [call EXCEPT ![c].seen = GrantRead, ![c].pc = "regranted"]
      BY <1>1, <2>2 DEF ReadGrant, InvokeTyped, CallStates
    <3> QED BY <3>1
  <2> QED BY <1>1, <2>1, <2>2
<1> DEFINE r == [call[c] EXCEPT !.seen = GrantRead, !.pc = p]
<1>3. GrantRead \in Nat
  BY <1>1, InvokeTypes DEF GrantRead
<1>4. r \in CallStates /\ r.pc = p /\ r.kind = call[c].kind /\ r.out = call[c].out
  BY <1>1, <1>3, InvokeTypes DEF CallStates, Pcs
<1>5. call' = [call EXCEPT ![c] = r]
  BY <1>2
<1> HIDE DEF r
<1> QED BY <1>1, <1>4, <1>5, MovesKeep DEF ReadGrant, CallHolds

LEMMA CaptureOwnerKeeps ==
    ASSUME InvokeInv, NEW c \in Calls, CaptureOwner(c)
    PROVE  InvokeInv'
<1>1. InvokeTyped /\ call[c].pc = "authorize" /\ CallHolds(c)
      /\ UNCHANGED <<admission, health, grant, child, work, depwork>>
  BY DEF InvokeInv, CaptureOwner
<1>2. CASE Denied(c) /\ UNCHANGED view
  BY <1>1, <1>2, DeniedKeeps
<1> DEFINE v == [view[c] EXCEPT !.proof = TRUE]
<1>3. CASE view' = [view EXCEPT ![c] = v] /\ Goto(c, "spawn")
  <2>1. v \in Views /\ v.on = view[c].on /\ v.grant = view[c].grant
    BY <1>1, InvokeTypes DEF Views
  <2>2. view' = [view EXCEPT ![c] = v]
    BY <1>3
  <2> HIDE DEF v
  <2> QED BY <1>1, <1>3, <2>1, <2>2, ViewKeeps DEF Pcs, CallHolds
<1> QED BY <1>2, <1>3 DEF CaptureOwner

LEMMA CheckMessageKeeps ==
    ASSUME InvokeInv, NEW c \in Calls, CheckMessage(c)
    PROVE  InvokeInv'
BY GoesKeeps, DeniedKeeps DEF CheckMessage, Pcs

\* A comparison that decides: the handler may start, or the answer be given.
LEMMA DecidesKeep ==
    ASSUME InvokeInv, NEW c \in Calls,
           Granted(c) \/ PostCheck(c) \/ Regranted(c) \/ OwnerStill(c)
    PROVE  InvokeInv'
<1>1. /\ InvokeTyped /\ CallHolds(c) /\ call[c] \in CallStates
      /\ call[c].pc \notin {"idle", "done", "route"}
      /\ UNCHANGED <<admission, health, grant, view, child, work, depwork>>
  BY InvokeTypes DEF InvokeInv, Granted, PostCheck, Regranted, OwnerStill
<1>2. CASE Denied(c)
  BY <1>1, <1>2, DeniedKeeps
<1>3. ASSUME NEW p \in {"reauthorize", "webpublish"}, Goto(c, p)
      PROVE  InvokeInv'
  BY <1>1, <1>3, GoesKeeps DEF Pcs
<1>4. CASE call' = [call EXCEPT ![c].pc = "spawn", ![c].seen = 0]
  <2> DEFINE r == [call[c] EXCEPT !.pc = "spawn", !.seen = 0]
  <2>1. r \in CallStates /\ r.pc = "spawn" /\ r.kind = call[c].kind /\ r.out = call[c].out
    BY <1>1 DEF CallStates, Pcs
  <2>2. call' = [call EXCEPT ![c] = r]
    BY <1>4
  <2> HIDE DEF r
  <2> QED BY <1>1, <2>1, <2>2, MovesKeep DEF CallHolds
<1>5. CASE call[c].kind # "web" /\ call' = [call EXCEPT ![c].pc = "route", ![c].out = "ok"]
  <2> DEFINE r == [call[c] EXCEPT !.pc = "route", !.out = "ok"]
  <2>1. r \in CallStates /\ r.pc = "route" /\ r.kind = call[c].kind
    BY <1>1 DEF CallStates, Pcs, Outs
  <2>2. call' = [call EXCEPT ![c] = r]
    BY <1>5
  <2> HIDE DEF r
  <2> QED BY <1>1, <1>5, <2>1, <2>2, MovesKeep
<1>6. CASE Granted(c)
  BY <1>2, <1>4, <1>6 DEF Granted
<1>7. CASE PostCheck(c)
  <2>1. call[c].kind \in {"public", "tool"} => call[c].kind # "web"
    OBVIOUS
  <2> QED BY <1>2, <1>3, <1>5, <1>7, <2>1 DEF PostCheck
<1>8. CASE OwnerStill(c)
  BY <1>2, <1>5, <1>8 DEF OwnerStill
<1>9. CASE Regranted(c)
  <2>1. call[c].kind # "web"
    BY <1>1, <1>9 DEF Regranted, CallHolds
  <2> QED BY <1>2, <1>5, <1>9, <2>1 DEF Regranted
<1> QED BY <1>6, <1>7, <1>8, <1>9

\* The steps of the handler tasks.

\* A cancelled task is not over.
LEMMA CancelledTask ==
    ASSUME NEW w \in Works
    PROVE  /\ Cancelled(w) \in Works /\ Cancelled(w).epoch = w.epoch
           /\ Cancelled(w).st \in Live <=> w.st \in Live
BY DEF Cancelled, Works, Live

\* Tasks that end, or go on as what they were, keep what is promised of them.
LEMMA TasksShrink ==
    ASSUME InvokeInv, NEW c \in Calls, GateFrame, NEW w \in Works, NEW dw \in Works,
           work' = [work EXCEPT ![c] = w], depwork' = [depwork EXCEPT ![c] = dw],
           w.st \in Live => work[c].st \in Live /\ w.epoch = work[c].epoch,
           dw.st \in Live => depwork[c].st \in Live /\ dw.epoch = depwork[c].epoch
    PROVE  WorkFrame(c) /\ TaskHolds(c)'
<1>1. InvokeTyped /\ TaskHolds(c)
  BY DEF InvokeInv
<1>2. WorkFrame(c) /\ work'[c] = w /\ depwork'[c] = dw
  BY <1>1 DEF InvokeTyped, WorkFrame
<1>3. TaskHolds(c)'
  BY <1>1, <1>2 DEF TaskHolds, Fits, GateFrame, CallModules
<1> QED BY <1>2, <1>3

LEMMA SameTask ==
    ASSUME InvokeTyped, NEW c \in Calls
    PROVE  /\ work' = work => work' = [work EXCEPT ![c] = work[c]]
           /\ depwork' = depwork => depwork' = [depwork EXCEPT ![c] = depwork[c]]
BY DEF InvokeTyped

LEMMA SameGates ==
    ASSUME InvokeTyped, admission' = admission
    PROVE  GateFrame
BY DEF InvokeTyped, GateFrame

\* A task that starts in a scope that is open and current.
LEMMA TaskStarts ==
    ASSUME InvokeInv, NEW c \in Calls, admission' = admission, NEW w \in Works, NEW dw \in Works,
           work' = [work EXCEPT ![c] = w], depwork' = [depwork EXCEPT ![c] = dw],
           w = work[c] \/ ScopeOpen(Home, w.epoch),
           dw = depwork[c] \/ ScopeOpen(Dep, dw.epoch)
    PROVE  WorkFrame(c) /\ TaskHolds(c)'
<1>1. InvokeTyped /\ TaskHolds(c)
  BY DEF InvokeInv
<1>2. WorkFrame(c) /\ work'[c] = w /\ depwork'[c] = dw
  BY <1>1 DEF InvokeTyped, WorkFrame
<1>3. TaskHolds(c)'
  BY <1>1, <1>2 DEF TaskHolds, Fits, ScopeOpen
<1> QED BY <1>2, <1>3

LEMMA SpawnKeeps ==
    ASSUME InvokeInv, NEW c \in Calls, Spawn(c)
    PROVE  InvokeInv'
<1>1. /\ InvokeTyped /\ CallHolds(c) /\ call[c].pc = "spawn"
      /\ UNCHANGED <<admission, health, grant, view, child, depwork>>
  BY DEF InvokeInv, Spawn
<1>2. CASE Denied(c) /\ UNCHANGED work
  BY <1>1, <1>2, DeniedKeeps
<1> DEFINE w == [st |-> "spawned", epoch |-> view[c].epoch]
<1>3. CASE /\ ScopeOpen(Home, view[c].epoch) /\ work' = [work EXCEPT ![c] = w]
           /\ Goto(c, "handler")
  <2>1. w \in Works /\ w.epoch = view[c].epoch
    BY <1>1, InvokeTypes DEF Works, Live, Views
  <2>2. work' = [work EXCEPT ![c] = w]
    BY <1>3
  <2> HIDE DEF w
  <2>3. WorkFrame(c) /\ TaskHolds(c)'
    BY <1>1, <1>3, <2>1, <2>2, SameTask, InvokeTypes, TaskStarts
  <2>4. CallFrame(c) /\ CallHolds(c)'
    BY <1>1, <1>3, Goes DEF Pcs, CallHolds
  <2> QED BY <1>1, <2>3, <2>4, StillViews, SameGates, RequestKeeps
<1> QED BY <1>2, <1>3 DEF Spawn

\* Steps of a handler task that leave its request alone.
LEMMA OnlyTasks ==
    ASSUME InvokeInv, NEW c \in Calls, NEW w \in Works, NEW dw \in Works,
           work' = [work EXCEPT ![c] = w], depwork' = [depwork EXCEPT ![c] = dw],
           w.st \in Live => work[c].st \in Live /\ w.epoch = work[c].epoch,
           dw.st \in Live => depwork[c].st \in Live /\ dw.epoch = depwork[c].epoch,
           UNCHANGED <<admission, health, grant, call, view, child>>
    PROVE  InvokeInv'
<1>1. InvokeTyped /\ CallHolds(c)
  BY DEF InvokeInv
<1>2. CallFrame(c) /\ CallHolds(c)'
  BY <1>1 DEF InvokeTyped, CallFrame, CallHolds
<1> QED BY <1>1, <1>2, SameGates, StillViews, TasksShrink, RequestKeeps

LEMMA HandlerStartsKeeps ==
    ASSUME InvokeInv, NEW c \in Calls, HandlerStarts(c) \/ HandlerReturns(c)
    PROVE  InvokeInv'
<1>1. InvokeTyped /\ work[c] \in Works /\ depwork[c] \in Works /\ work[c].st \in {"spawned", "running"}
      /\ UNCHANGED <<admission, health, grant, call, view, child, depwork>>
  BY InvokeTypes DEF InvokeInv, HandlerStarts, HandlerReturns
<1>2. PICK s \in {"running", "ok", "failed"} : work' = [work EXCEPT ![c].st = s]
  BY DEF HandlerStarts, HandlerReturns
<1> DEFINE w == [work[c] EXCEPT !.st = s]
<1>3. w \in Works /\ w.epoch = work[c].epoch
  BY <1>1 DEF Works, Live
<1>4. work' = [work EXCEPT ![c] = w]
  BY <1>2
<1> HIDE DEF w
<1>5. work[c].st \in Live
  BY <1>1 DEF Live
<1> QED BY <1>1, <1>3, <1>4, <1>5, SameTask, OnlyTasks

LEMMA TaskEndsKeeps ==
    ASSUME InvokeInv, NEW c \in Calls, TaskEnds(c)
    PROVE  InvokeInv'
<1>1. InvokeTyped /\ work[c] \in Works /\ depwork[c] \in Works
      /\ UNCHANGED <<admission, health, grant, call, view, child>>
  BY InvokeTypes DEF InvokeInv, TaskEnds
<1>2. NoWork \in Works /\ NoWork.st \notin Live
  BY Nothing DEF NoWork, Live
<1>3. CASE work' = [work EXCEPT ![c] = NoWork] /\ depwork' = depwork
  BY <1>1, <1>2, <1>3, SameTask, OnlyTasks
<1>4. CASE depwork' = [depwork EXCEPT ![c] = NoWork] /\ work' = work
  BY <1>1, <1>2, <1>4, SameTask, OnlyTasks
<1> QED BY <1>3, <1>4 DEF TaskEnds

\* A request whose task is over, and which goes on or ends.
LEMMA TaskOverKeeps ==
    ASSUME InvokeInv, NEW c \in Calls, work' = [work EXCEPT ![c] = NoWork],
           UNCHANGED <<admission, health, grant, depwork>>,
           CallFrame(c), ViewFrame(c), CallHolds(c)'
    PROVE  InvokeInv'
<1>1. InvokeTyped /\ depwork[c] \in Works
  BY InvokeTypes DEF InvokeInv
<1>2. NoWork \in Works /\ NoWork.st \notin Live
  BY Nothing DEF NoWork, Live
<1>3. WorkFrame(c) /\ TaskHolds(c)' /\ GateFrame
  BY <1>1, <1>2, SameTask, SameGates, TasksShrink
<1> QED BY <1>3, RequestKeeps

LEMMA JoinedKeeps ==
    ASSUME InvokeInv, NEW c \in Calls, Joined(c)
    PROVE  InvokeInv'
<1>1. /\ InvokeTyped /\ CallHolds(c) /\ call[c].pc = "handler"
      /\ work' = [work EXCEPT ![c] = NoWork]
      /\ UNCHANGED <<admission, health, grant, depwork>>
  BY DEF InvokeInv, Joined
<1>2. CASE Goto(c, "check") /\ UNCHANGED <<view, child>>
  <2>1. CallFrame(c) /\ CallHolds(c)'
    BY <1>1, <1>2, Goes DEF Pcs, CallHolds
  <2> QED BY <1>1, <1>2, <2>1, StillViews, TaskOverKeeps
<1>3. CASE Denied(c) /\ UNCHANGED <<view, child>>
  <2>1. CallFrame(c) /\ CallHolds(c)'
    BY <1>1, <1>3, IsDenied DEF CallHolds
  <2> QED BY <1>1, <1>3, <2>1, StillViews, TaskOverKeeps
<1>4. CASE Return(c, "raised")
  <2>1. "raised" \in Outs /\ grant' = grant
    BY <1>1 DEF Outs
  <2>2. CallFrame(c) /\ ViewFrame(c) /\ CallHolds(c)'
    BY <1>4, <2>1, EndHolds DEF Return
  <2> QED BY <1>1, <2>2, TaskOverKeeps
<1> QED BY <1>2, <1>3, <1>4 DEF Joined

LEMMA RouteKeeps ==
    ASSUME InvokeInv, NEW c \in Calls, Route(c)
    PROVE  InvokeInv'
<1>1. call[c].out \in Outs
  BY InvokeTypes DEF InvokeInv, CallStates
<1>2. UNCHANGED <<admission, health, grant, work, depwork>>
  BY DEF Route
<1>3. PICK out \in {"raised", "unsent", call[c].out} : Return(c, out)
  BY DEF Route
<1>4. out \in Outs
  BY <1>1, <1>3 DEF Outs
<1> QED BY <1>2, <1>3, <1>4, ReturnKeeps

\* Dependency calls, deadlines and cancellation.

\* Leaving the dependency takes its derived view away and nothing else.
LEMMA LeavesDependency ==
    ASSUME InvokeInv, NEW c \in Calls, NEW result \in {"none", "calling", "refused", "used"},
           LeaveDependency(c, result), view' = view, grant' = grant
    PROVE  CallFrame(c) /\ ViewFrame(c) /\ CallHolds(c)'
<1>1. InvokeTyped /\ CallHolds(c)
  BY DEF InvokeInv
<1>2. /\ CallFrame(c) /\ call'[c].pc = call[c].pc /\ call'[c].kind = call[c].kind
      /\ call'[c].out = call[c].out
  BY <1>1 DEF LeaveDependency, CallFrame, InvokeTyped, CallStates
<1>3. ViewFrame(c) /\ child'[c] = NoChild
  BY <1>1, Nothing DEF LeaveDependency, ViewFrame, InvokeTyped
<1>4. CallHolds(c)'
  BY <1>1, <1>2, <1>3 DEF CallHolds, NoChild
<1> QED BY <1>2, <1>3, <1>4

LEMMA DependencyEnterKeeps ==
    ASSUME InvokeInv, NEW c \in Calls, DependencyEnter(c)
    PROVE  InvokeInv'
<1>1. /\ InvokeTyped /\ CallHolds(c)
      /\ UNCHANGED <<admission, health, grant, view, work, depwork>>
  BY DEF InvokeInv, DependencyEnter
<1>2. PICK s \in {"calling", "refused"} : call' = [call EXCEPT ![c].dep = s]
  BY DEF DependencyEnter
<1>3. /\ CallFrame(c) /\ call'[c].pc = call[c].pc /\ call'[c].kind = call[c].kind
      /\ call'[c].out = call[c].out
  <2>1. call \in [Calls -> CallStates]
    BY <1>1 DEF InvokeTyped
  <2>2. call'[c] = [call[c] EXCEPT !.dep = s] /\ call[c] \in CallStates
    BY <1>2, <2>1
  <2>3. call'[c] \in CallStates
    BY <2>2 DEF CallStates
  <2>4. CallFrame(c)
    BY <1>2, <2>1, <2>3 DEF CallFrame
  <2> QED BY <2>2, <2>4 DEF CallStates
<1>4. CASE child' = child
  <2>1. CallHolds(c)'
    BY <1>1, <1>3, <1>4 DEF CallHolds
  <2> QED BY <1>1, <1>3, <1>4, <2>1, StillTasks, StillViews, RequestKeeps
<1> DEFINE h == [on |-> TRUE, epoch |-> admission[Dep].epoch, rev |-> health[Dep].rev]
<1>5. CASE child' = [child EXCEPT ![c] = h] /\ Checked(c)
  <2>1. h \in Children
    BY <1>1, InvokeTypes DEF Children, Gates
  <2>2. child' = [child EXCEPT ![c] = h]
    BY <1>5
  <2> HIDE DEF h
  <2>3. ViewFrame(c) /\ view'[c] = view[c]
    BY <1>1, <2>1, <2>2 DEF ViewFrame, InvokeTyped
  <2>4. view[c].on
    BY <1>5 DEF Checked, Required
  <2>5. CallHolds(c)'
    BY <1>1, <1>3, <2>4 DEF CallHolds
  <2> QED BY <1>1, <1>3, <2>3, <2>5, StillTasks, RequestKeeps
<1> QED BY <1>4, <1>5 DEF DependencyEnter

LEMMA DependencyRunsKeeps ==
    ASSUME InvokeInv, NEW c \in Calls, DependencyRuns(c)
    PROVE  InvokeInv'
<1>1. /\ InvokeTyped /\ CallHolds(c) /\ UNCHANGED <<admission, health, grant, view, work>>
      /\ work[c] \in Works /\ depwork[c] \in Works
  BY InvokeTypes DEF InvokeInv, DependencyRuns
<1>2. CASE LeaveDependency(c, "refused") /\ UNCHANGED depwork
  BY <1>1, <1>2, LeavesDependency, StillTasks, RequestKeeps
<1> DEFINE dw == [st |-> "running", epoch |-> child[c].epoch]
<1>3. CASE /\ ScopeOpen(Dep, child[c].epoch) /\ depwork' = [depwork EXCEPT ![c] = dw]
           /\ UNCHANGED <<call, child>>
  <2>1. dw \in Works /\ dw.epoch = child[c].epoch
    BY <1>1, InvokeTypes DEF Works, Live, Children
  <2>2. depwork' = [depwork EXCEPT ![c] = dw]
    BY <1>3
  <2> HIDE DEF dw
  <2>3. WorkFrame(c) /\ TaskHolds(c)'
    BY <1>1, <1>3, <2>1, <2>2, SameTask, TaskStarts
  <2>4. CallFrame(c) /\ CallHolds(c)'
    BY <1>1, <1>3 DEF CallFrame, InvokeTyped, CallHolds
  <2> QED BY <1>1, <1>3, <2>3, <2>4, StillViews, SameGates, RequestKeeps
<1> QED BY <1>2, <1>3 DEF DependencyRuns

LEMMA DependencyReturnsKeeps ==
    ASSUME InvokeInv, NEW c \in Calls, DependencyReturns(c)
    PROVE  InvokeInv'
<1>1. /\ InvokeTyped /\ UNCHANGED <<admission, health, grant, view, work>>
      /\ work[c] \in Works /\ depwork' = [depwork EXCEPT ![c] = NoWork]
  BY InvokeTypes DEF InvokeInv, DependencyReturns
<1>2. PICK result \in {"used", "refused"} : LeaveDependency(c, result)
  BY DEF DependencyReturns
<1>3. NoWork \in Works /\ NoWork.st \notin Live
  BY Nothing DEF NoWork, Live
<1>4. GateFrame /\ WorkFrame(c) /\ TaskHolds(c)'
  BY <1>1, <1>3, SameTask, SameGates, TasksShrink
<1> QED BY <1>1, <1>2, <1>4, LeavesDependency, RequestKeeps

LEMMA IsolateFrame ==
    ASSUME InvokeTyped, NEW m \in CallModules, NEW e \in Nat, Isolate(m, e)
    PROVE  GateFrame
<1>1. CASE admission' = admission
  BY <1>1, SameGates
<1>2. CASE admission' = [admission EXCEPT ![m].open = FALSE, ![m].epoch = admission[m].epoch + 1]
  <2> DEFINE n == admission[m].epoch + 1
             g == [admission[m] EXCEPT !.open = FALSE, !.epoch = n]
  <2>1. g \in Gates /\ g.open = FALSE /\ g.scope = admission[m].scope
    <3>1. admission[m] \in Gates
      BY DEF InvokeTyped
    <3>2. n \in Nat
      BY <3>1 DEF Gates
    <3> HIDE DEF n
    <3> QED BY <3>1, <3>2 DEF Gates
  <2>2. admission' = [admission EXCEPT ![m] = g]
    BY <1>2
  <2> HIDE DEF g
  <2> QED BY <2>1, <2>2 DEF InvokeTyped, GateFrame
<1> QED BY <1>1, <1>2 DEF Isolate, InvokeTyped, Gates

\* The caller of a cancelled dependency is cancelled in its turn.
LEMMA CallerCancelled ==
    ASSUME InvokeTyped, NEW c \in Calls,
           work' = [work EXCEPT ![c].st = IF @ = "running" THEN "cancelling" ELSE @]
    PROVE  \E w \in Works : /\ work' = [work EXCEPT ![c] = w] /\ w.epoch = work[c].epoch
                            /\ w.st \in Live => work[c].st \in Live
<1> DEFINE s == IF work[c].st = "running" THEN "cancelling" ELSE work[c].st
           w == [work[c] EXCEPT !.st = s]
<1>1. work[c] \in Works
  BY InvokeTypes
<1>2. w \in Works /\ w.epoch = work[c].epoch /\ w.st = s
  BY <1>1 DEF Works, Live
<1>3. s \in Live => work[c].st \in Live
  BY DEF Live
<1>4. work' = [work EXCEPT ![c] = w]
  <2>1. CASE work[c].st = "running"
    BY <2>1
  <2>2. CASE work[c].st # "running"
    BY <2>2
  <2> QED BY <2>1, <2>2
<1> HIDE DEF w
<1> QED BY <1>2, <1>3, <1>4

LEMMA DependencyCancelledKeeps ==
    ASSUME InvokeInv, NEW c \in Calls, DependencyCancelled(c)
    PROVE  InvokeInv'
<1>1. /\ InvokeTyped /\ UNCHANGED <<admission, health, grant, view>>
      /\ depwork' = [depwork EXCEPT ![c] = NoWork] /\ LeaveDependency(c, "refused")
  BY DEF InvokeInv, DependencyCancelled
<1>2. PICK w \in Works : /\ work' = [work EXCEPT ![c] = w] /\ w.epoch = work[c].epoch
                         /\ w.st \in Live => work[c].st \in Live
  BY <1>1, CallerCancelled DEF DependencyCancelled
<1>3. NoWork \in Works /\ NoWork.st \notin Live
  BY Nothing DEF NoWork, Live
<1>4. GateFrame /\ WorkFrame(c) /\ TaskHolds(c)'
  BY <1>1, <1>2, <1>3, SameGates, TasksShrink
<1> QED BY <1>1, <1>4, LeavesDependency, RequestKeeps

LEMMA DependencyTimeoutKeeps ==
    ASSUME InvokeInv, NEW c \in Calls, DependencyTimeout(c)
    PROVE  InvokeInv'
<1>1. /\ InvokeTyped /\ UNCHANGED <<health, grant, view>> /\ depwork[c] \in Works
      /\ LeaveDependency(c, "refused") /\ Isolate(Dep, depwork[c].epoch)
      /\ depwork[c].st = "cancelling" /\ depwork' = [depwork EXCEPT ![c].st = "orphan"]
  BY InvokeTypes DEF InvokeInv, DependencyTimeout
<1>2. PICK w \in Works : /\ work' = [work EXCEPT ![c] = w] /\ w.epoch = work[c].epoch
                         /\ w.st \in Live => work[c].st \in Live
  BY <1>1, CallerCancelled DEF DependencyTimeout
<1> DEFINE dw == [depwork[c] EXCEPT !.st = "orphan"]
<1>3. dw \in Works /\ dw.epoch = depwork[c].epoch /\ depwork[c].st \in Live
      /\ depwork[c].epoch \in Nat
  BY <1>1 DEF Works, Live
<1>4. depwork' = [depwork EXCEPT ![c] = dw]
  BY <1>1
<1> HIDE DEF dw
<1>5. GateFrame
  BY <1>1, <1>3, IsolateFrame DEF CallModules
<1>6. WorkFrame(c) /\ TaskHolds(c)'
  BY <1>2, <1>3, <1>4, <1>5, TasksShrink
<1> QED BY <1>1, <1>5, <1>6, LeavesDependency, RequestKeeps

LEMMA HandlerCancelledKeeps ==
    ASSUME InvokeInv, NEW c \in Calls, HandlerCancelled(c)
    PROVE  InvokeInv'
<1>1. /\ InvokeTyped /\ UNCHANGED <<admission, health, grant, view, depwork>>
      /\ work[c] \in Works /\ depwork[c] \in Works /\ work' = [work EXCEPT ![c].st = "cancelled"]
      /\ call[c] \in CallStates
  BY InvokeTypes DEF InvokeInv, HandlerCancelled
<1>2. PICK result \in {"none", "calling", "refused", "used"} : LeaveDependency(c, result)
  BY <1>1 DEF HandlerCancelled, CallStates
<1> DEFINE w == [work[c] EXCEPT !.st = "cancelled"]
<1>3. w \in Works /\ w.st \notin Live
  BY <1>1 DEF Works, Live
<1>4. work' = [work EXCEPT ![c] = w]
  BY <1>1
<1> HIDE DEF w
<1>5. GateFrame /\ WorkFrame(c) /\ TaskHolds(c)'
  BY <1>1, <1>3, <1>4, SameTask, SameGates, TasksShrink
<1> QED BY <1>1, <1>2, <1>5, LeavesDependency, RequestKeeps

\* Both tasks of a request are cancelled.
LEMMA BothCancelled ==
    ASSUME InvokeInv, NEW c \in Calls, admission' = admission,
           work' = [work EXCEPT ![c] = Cancelled(@)],
           depwork' = [depwork EXCEPT ![c] = Cancelled(@)]
    PROVE  GateFrame /\ WorkFrame(c) /\ TaskHolds(c)'
<1>1. InvokeTyped /\ work[c] \in Works /\ depwork[c] \in Works
  BY InvokeTypes DEF InvokeInv
<1> DEFINE w == Cancelled(work[c])
           dw == Cancelled(depwork[c])
<1>2. /\ w \in Works /\ w.epoch = work[c].epoch /\ (w.st \in Live <=> work[c].st \in Live)
      /\ dw \in Works /\ dw.epoch = depwork[c].epoch /\ (dw.st \in Live <=> depwork[c].st \in Live)
  BY <1>1, CancelledTask
<1>3. work' = [work EXCEPT ![c] = w] /\ depwork' = [depwork EXCEPT ![c] = dw]
  OBVIOUS
<1> HIDE DEF w, dw
<1> QED BY <1>1, <1>2, <1>3, SameGates, TasksShrink

LEMMA DeadlineKeeps ==
    ASSUME InvokeInv, NEW c \in Calls, Deadline(c)
    PROVE  InvokeInv'
<1>1. /\ InvokeTyped /\ CallHolds(c) /\ call[c].pc = "handler" /\ call[c] \in CallStates
      /\ view[c] \in Views /\ UNCHANGED <<admission, health, grant, child>>
  BY InvokeTypes DEF InvokeInv, Deadline
<1>2. GateFrame /\ WorkFrame(c) /\ TaskHolds(c)'
  BY <1>1, BothCancelled DEF Deadline
<1> DEFINE r == [call[c] EXCEPT !.pc = "cleanup", !.why = "deadline"]
           v == [view[c] EXCEPT !.expired = TRUE]
<1>3. r \in CallStates /\ r.pc = "cleanup" /\ r.out = call[c].out /\ r.kind = call[c].kind
  BY <1>1 DEF CallStates, Pcs
<1>4. v \in Views /\ v.on = view[c].on /\ v.grant = view[c].grant
  BY <1>1 DEF Views
<1>5. call' = [call EXCEPT ![c] = r] /\ view' = [view EXCEPT ![c] = v]
  BY DEF Deadline
<1> HIDE DEF r, v
<1>6. CallFrame(c) /\ ViewFrame(c) /\ call'[c] = r /\ view'[c] = v /\ child'[c] = child[c]
  BY <1>1, <1>3, <1>4, <1>5 DEF CallFrame, ViewFrame, InvokeTyped
<1>7. CallHolds(c)'
  BY <1>1, <1>3, <1>4, <1>6 DEF CallHolds
<1> QED BY <1>1, <1>2, <1>6, <1>7, RequestKeeps

LEMMA CancelCallKeeps ==
    ASSUME InvokeInv, NEW c \in Calls, CancelCall(c)
    PROVE  InvokeInv'
<1>1. /\ InvokeTyped /\ CallHolds(c) /\ call[c] \in CallStates
      /\ UNCHANGED <<admission, health, grant>>
  BY InvokeTypes DEF InvokeInv, CancelCall
<1>2. CASE Return(c, "raised") /\ UNCHANGED <<work, depwork>>
  BY <1>1, <1>2, ReturnKeeps DEF Outs
<1> DEFINE r == [call[c] EXCEPT !.pc = "cleanup", !.why = "cancel"]
<1>3. CASE /\ call[c].pc = "handler" /\ call' = [call EXCEPT ![c] = r]
           /\ work' = [work EXCEPT ![c] = Cancelled(@)]
           /\ depwork' = [depwork EXCEPT ![c] = Cancelled(@)]
           /\ UNCHANGED <<view, child>>
  <2>1. r \in CallStates /\ r.pc = "cleanup" /\ r.out = call[c].out /\ r.kind = call[c].kind
    BY <1>1 DEF CallStates, Pcs
  <2>2. call' = [call EXCEPT ![c] = r]
    BY <1>3
  <2> HIDE DEF r
  <2>3. CallFrame(c) /\ CallHolds(c)'
    BY <1>1, <1>3, <2>1, <2>2 DEF CallFrame, InvokeTyped, CallHolds
  <2> QED BY <1>1, <1>3, <2>3, BothCancelled, StillViews, RequestKeeps
<1> QED BY <1>2, <1>3 DEF CancelCall

\* What a request does when it has given up its task.
LEMMA Resumes ==
    ASSUME InvokeInv, NEW c \in Calls, call[c].pc = "cleanup", Resume(c), grant' = grant
    PROVE  CallFrame(c) /\ ViewFrame(c) /\ CallHolds(c)'
<1>1. InvokeTyped /\ CallHolds(c) /\ call[c] \in CallStates
  BY InvokeTypes DEF InvokeInv
<1>2. CASE Return(c, "raised")
  BY <1>2, EndHolds DEF Return, Outs
<1> DEFINE r == [call[c] EXCEPT !.pc = "route", !.out = "error"]
<1>3. CASE call' = [call EXCEPT ![c] = r] /\ UNCHANGED <<view, child>>
  <2>1. r \in CallStates /\ r.pc = "route" /\ r.out = "error" /\ r.kind = call[c].kind
    BY <1>1 DEF CallStates, Pcs, Outs
  <2>2. call' = [call EXCEPT ![c] = r]
    BY <1>3
  <2> HIDE DEF r
  <2> QED BY <1>1, <1>3, <2>1, <2>2, StillViews DEF CallFrame, InvokeTyped, CallHolds
<1> QED BY <1>2, <1>3 DEF Resume

LEMMA CleanedUpKeeps ==
    ASSUME InvokeInv, NEW c \in Calls, CleanedUp(c)
    PROVE  InvokeInv'
BY Resumes, TaskOverKeeps DEF CleanedUp

LEMMA CleanupTimeoutKeeps ==
    ASSUME InvokeInv, NEW c \in Calls, CleanupTimeout(c)
    PROVE  InvokeInv'
<1>1. /\ InvokeTyped /\ UNCHANGED <<health, grant, depwork>> /\ work[c] \in Works
      /\ depwork[c] \in Works /\ call[c].pc = "cleanup" /\ Resume(c)
      /\ Isolate(Home, work[c].epoch)
      /\ work[c].st = "cancelling" /\ work' = [work EXCEPT ![c].st = "orphan"]
  BY InvokeTypes DEF InvokeInv, CleanupTimeout
<1> DEFINE w == [work[c] EXCEPT !.st = "orphan"]
<1>2. w \in Works /\ w.epoch = work[c].epoch /\ work[c].st \in Live /\ work[c].epoch \in Nat
  BY <1>1 DEF Works, Live
<1>3. work' = [work EXCEPT ![c] = w]
  BY <1>1
<1> HIDE DEF w
<1>4. GateFrame
  BY <1>1, <1>2, IsolateFrame DEF CallModules
<1>5. WorkFrame(c) /\ TaskHolds(c)'
  BY <1>1, <1>2, <1>3, <1>4, SameTask, TasksShrink
<1> QED BY <1>1, <1>4, <1>5, Resumes, RequestKeeps

\* Public web requests.

LEMMA WebReturnKeeps ==
    ASSUME InvokeInv, NEW c \in Calls, NEW out \in Outs, WebReturn(c, out),
           UNCHANGED <<admission, health, grant>>
    PROVE  InvokeInv'
BY EndHolds, BothCancelled, RequestKeeps DEF WebReturn, Seal

LEMMA WebArriveKeeps ==
    ASSUME InvokeInv, NEW c \in Calls, WebArrive(c)
    PROVE  InvokeInv'
<1>1. /\ InvokeTyped /\ CallHolds(c) /\ call[c].pc = "idle"
      /\ UNCHANGED <<admission, health, grant, child, work, depwork>>
  BY DEF InvokeInv, WebArrive
<1>2. CASE view' = [view EXCEPT ![c] = IssueWeb]
           /\ call' = [call EXCEPT ![c] = [NoCall EXCEPT !.pc = "webadmit", !.kind = "web"]]
  <2> DEFINE r == [NoCall EXCEPT !.pc = "webadmit", !.kind = "web"]
             v == IssueWeb
  <2>1. r \in CallStates /\ r.pc = "webadmit" /\ r.out = "none"
    BY Nothing DEF CallStates, Pcs, AllKinds, NoCall
  <2>2. v \in Views /\ v.on /\ v.grant = 0
    BY <1>1, Nothing, InvokeTypes DEF IssueWeb, Views, Gates, NoView
  <2>3. call' = [call EXCEPT ![c] = r] /\ view' = [view EXCEPT ![c] = v]
    BY <1>2
  <2>4. grant.rev \in Nat
    BY <1>1, InvokeTypes
  <2> HIDE DEF r, v
  <2>5. CallFrame(c) /\ ViewFrame(c) /\ call'[c] = r /\ view'[c] = v
    BY <1>1, <2>1, <2>2, <2>3 DEF CallFrame, ViewFrame, InvokeTyped
  <2>6. CallHolds(c)'
    BY <1>1, <2>1, <2>2, <2>4, <2>5 DEF CallHolds
  <2> QED BY <1>1, <2>5, <2>6, StillTasks, RequestKeeps
<1>3. CASE call' = [call EXCEPT ![c] = [NoCall EXCEPT !.pc = "done", !.out = "error"]]
           /\ UNCHANGED view
  <2> DEFINE r == [NoCall EXCEPT !.pc = "done", !.out = "error"]
  <2>1. r \in CallStates /\ r.pc = "done"
    BY Nothing DEF CallStates, Pcs, Outs, NoCall
  <2>2. call' = [call EXCEPT ![c] = r]
    BY <1>3
  <2> HIDE DEF r
  <2>3. CallFrame(c) /\ CallHolds(c)'
    BY <1>1, <1>3, <2>1, <2>2 DEF CallFrame, InvokeTyped, CallHolds
  <2> QED BY <1>1, <1>3, <2>3, StillViews, StillTasks, RequestKeeps
<1> QED BY <1>2, <1>3 DEF WebArrive

LEMMA WebAdmitKeeps ==
    ASSUME InvokeInv, NEW c \in Calls, WebAdmit(c)
    PROVE  InvokeInv'
<1>1. /\ InvokeTyped /\ CallHolds(c) /\ call[c].pc = "webadmit"
      /\ UNCHANGED <<admission, health, grant>>
  BY DEF InvokeInv, WebAdmit
<1>2. CASE WebReturn(c, "error")
  BY <1>1, <1>2, WebReturnKeeps DEF Outs
<1> DEFINE v == [view[c] EXCEPT !.lease = Leased]
<1>3. CASE /\ view' = [view EXCEPT ![c] = v] /\ Goto(c, "spawn")
           /\ UNCHANGED <<child, work, depwork>>
  <2>1. v \in Views /\ v.on = view[c].on /\ v.grant = view[c].grant
    BY <1>1, InvokeTypes, LeasedTyped DEF Views
  <2>2. view' = [view EXCEPT ![c] = v]
    BY <1>3
  <2> HIDE DEF v
  <2> QED BY <1>1, <1>3, <2>1, <2>2, ViewKeeps DEF Pcs, CallHolds
<1> QED BY <1>2, <1>3 DEF WebAdmit

LEMMA WebEndsKeep ==
    ASSUME InvokeInv, NEW c \in Calls, WebPublish(c) \/ WebSealed(c) \/ WebError(c)
    PROVE  InvokeInv'
<1>1. call[c].out \in Outs
  BY InvokeTypes DEF InvokeInv, CallStates
<1>2. UNCHANGED <<admission, health, grant>>
  BY DEF WebPublish, WebSealed, WebError
<1>3. PICK out \in {"ok", "error", call[c].out} : WebReturn(c, out)
  BY DEF WebPublish, WebSealed, WebError
<1>4. out \in Outs
  BY <1>1, <1>3 DEF Outs
<1> QED BY <1>2, <1>3, <1>4, WebReturnKeeps

\* The gates, the scopes and the core.

\* Steps that touch no request.
LEMMA WorldKeeps ==
    ASSUME InvokeInv, InvokeTyped', UNCHANGED <<call, view, child>>, grant.rev <= grant'.rev,
           \A c \in Calls : TaskHolds(c)'
    PROVE  InvokeInv'
<1>1. InvokeTyped /\ grant.rev \in Nat /\ grant'.rev \in Nat
  BY DEF InvokeInv, InvokeTyped
<1>2. ASSUME NEW c \in Calls
      PROVE  CallHolds(c)'
  <2>1. CallHolds(c) /\ view[c].grant \in Nat
    BY <1>1, InvokeTypes DEF InvokeInv, Views
  <2> QED BY <1>1, <2>1 DEF CallHolds
<1> QED BY <1>2 DEF InvokeInv

\* Cancelling scopes ends no task and starts none.
LEMMA ScopesCancelled ==
    ASSUME InvokeTyped, NEW ms, CancelScopes(ms)
    PROVE  /\ work' \in [Calls -> Works] /\ depwork' \in [Calls -> Works]
           /\ \A c \in Calls :
                 /\ work'[c].epoch = work[c].epoch /\ (work'[c].st \in Live <=> work[c].st \in Live)
                 /\ depwork'[c].epoch = depwork[c].epoch
                 /\ depwork'[c].st \in Live <=> depwork[c].st \in Live
<1>1. ASSUME NEW c \in Calls
      PROVE  /\ work[c] \in Works /\ depwork[c] \in Works
             /\ Cancelled(work[c]) \in Works /\ Cancelled(work[c]).epoch = work[c].epoch
             /\ Cancelled(work[c]).st \in Live <=> work[c].st \in Live
             /\ Cancelled(depwork[c]) \in Works /\ Cancelled(depwork[c]).epoch = depwork[c].epoch
             /\ Cancelled(depwork[c]).st \in Live <=> depwork[c].st \in Live
  BY InvokeTypes, CancelledTask
<1>2. /\ work' = [c \in Calls |-> IF Home \in ms THEN Cancelled(work[c]) ELSE work[c]]
      /\ depwork' = [c \in Calls |-> IF Dep \in ms \/ work'[c].st = "cancelling"
                                   THEN Cancelled(depwork[c]) ELSE depwork[c]]
  BY DEF CancelScopes
<1>3. work' \in [Calls -> Works] /\ depwork' \in [Calls -> Works]
  BY <1>1, <1>2
<1>4. ASSUME NEW c \in Calls
      PROVE  /\ work'[c] \in {work[c], Cancelled(work[c])}
             /\ depwork'[c] \in {depwork[c], Cancelled(depwork[c])}
  BY <1>2
<1> QED BY <1>1, <1>3, <1>4

\* A gate that closes, or a scope that is cancelled, leaves no task without its scope.
LEMMA GateCloses ==
    ASSUME InvokeInv, NEW m \in CallModules, NEW g \in Gates, ~g.open, g.scope # "closed",
           admission' = [admission EXCEPT ![m] = g], CancelScopes({m}),
           UNCHANGED <<health, grant, call, view, child>>
    PROVE  InvokeInv'
<1>1. InvokeTyped
  BY DEF InvokeInv
<1>2. admission' \in [CallModules -> Gates] /\ admission'[m] = g
      /\ \A n \in CallModules \ {m} : admission'[n] = admission[n]
  BY <1>1 DEF InvokeTyped
<1>3. /\ work' \in [Calls -> Works] /\ depwork' \in [Calls -> Works]
      /\ \A c \in Calls :
            /\ work'[c].epoch = work[c].epoch /\ (work'[c].st \in Live <=> work[c].st \in Live)
            /\ depwork'[c].epoch = depwork[c].epoch
            /\ depwork'[c].st \in Live <=> depwork[c].st \in Live
  BY <1>1, ScopesCancelled
<1>4. InvokeTyped'
  BY <1>1, <1>2, <1>3 DEF InvokeTyped
<1>5. ASSUME NEW c \in Calls
      PROVE  TaskHolds(c)'
  <2>1. TaskHolds(c)
    BY DEF InvokeInv
  <2>2. \A n \in CallModules : admission'[n] = admission[n]
                               \/ (~admission'[n].open /\ admission'[n].scope # "closed")
    BY <1>2
  <2> QED BY <1>3, <2>1, <2>2 DEF TaskHolds, Fits, CallModules
<1>6. grant.rev <= grant'.rev
  BY <1>1 DEF InvokeTyped
<1> QED BY <1>4, <1>5, <1>6, WorldKeeps

LEMMA CloseGateKeeps ==
    ASSUME InvokeInv, NEW m \in CallModules, CloseGate(m)
    PROVE  InvokeInv'
<1> DEFINE g == [open |-> FALSE, epoch |-> admission[m].epoch + 1, scope |-> "cancelled"]
<1>1. admission[m] \in Gates
  BY DEF InvokeInv, InvokeTyped
<1>2. g \in Gates /\ ~g.open /\ g.scope # "closed"
  BY <1>1 DEF Gates
<1>3. admission' = [admission EXCEPT ![m] = g]
  BY DEF CloseGate
<1> HIDE DEF g
<1> QED BY <1>2, <1>3, GateCloses DEF CloseGate

LEMMA StopIsolatedKeeps ==
    ASSUME InvokeInv, NEW m \in CallModules, StopIsolated(m)
    PROVE  InvokeInv'
<1> DEFINE g == [admission[m] EXCEPT !.scope = "cancelled"]
<1>1. admission[m] \in Gates /\ ~admission[m].open
  BY DEF InvokeInv, InvokeTyped, StopIsolated
<1>2. g \in Gates /\ ~g.open /\ g.scope # "closed"
  BY <1>1 DEF Gates
<1>3. admission' = [admission EXCEPT ![m] = g]
  BY DEF StopIsolated
<1> HIDE DEF g
<1> QED BY <1>2, <1>3, GateCloses DEF StopIsolated

\* A scope closes when its last task has ended, and only a closed one opens again.
LEMMA ScopeChanges ==
    ASSUME InvokeInv, NEW m \in CallModules, NEW g \in Gates, Pending(m) = {},
           admission' = [admission EXCEPT ![m] = g],
           UNCHANGED <<health, grant, call, view, child, work, depwork>>
    PROVE  InvokeInv'
<1>1. InvokeTyped
  BY DEF InvokeInv
<1>2. admission' \in [CallModules -> Gates] /\ admission'[m] = g
      /\ \A n \in CallModules \ {m} : admission'[n] = admission[n]
  BY <1>1 DEF InvokeTyped
<1>3. InvokeTyped'
  BY <1>1, <1>2 DEF InvokeTyped
<1>4. ASSUME NEW c \in Calls
      PROVE  TaskHolds(c)'
  <2>1. TaskHolds(c)
    BY DEF InvokeInv
  <2>2. CASE m = Home
    <3>1. work[c].st \notin Live
      BY <2>2 DEF Pending, Live
    <3>2. admission'[Dep] = admission[Dep]
      BY <1>2, <2>2 DEF CallModules, Home, Dep
    <3> QED BY <2>1, <3>1, <3>2 DEF TaskHolds, Fits
  <2>3. CASE m = Dep
    <3>1. depwork[c].st \notin Live
      BY <2>3 DEF Pending, Live, Home, Dep
    <3>2. admission'[Home] = admission[Home]
      BY <1>2, <2>3 DEF CallModules, Home, Dep
    <3> QED BY <2>1, <3>1, <3>2 DEF TaskHolds, Fits
  <2> QED BY <2>2, <2>3 DEF CallModules
<1>5. grant.rev <= grant'.rev
  BY <1>1 DEF InvokeTyped
<1> QED BY <1>3, <1>4, <1>5, WorldKeeps

LEMMA ScopeStoppedKeeps ==
    ASSUME InvokeInv, NEW m \in CallModules, ScopeStopped(m)
    PROVE  InvokeInv'
<1> DEFINE g == [admission[m] EXCEPT !.scope = "closed"]
<1>1. admission[m] \in Gates
  BY DEF InvokeInv, InvokeTyped
<1>2. g \in Gates
  BY <1>1 DEF Gates
<1>3. admission' = [admission EXCEPT ![m] = g]
  BY DEF ScopeStopped
<1> HIDE DEF g
<1> QED BY <1>2, <1>3, ScopeChanges DEF ScopeStopped

LEMMA OpenGateKeeps ==
    ASSUME InvokeInv, NEW m \in CallModules, OpenGate(m)
    PROVE  InvokeInv'
<1> DEFINE g == [admission[m] EXCEPT !.open = TRUE, !.scope = "open"]
<1>1. admission[m] \in Gates /\ admission[m].scope = "closed"
  BY DEF InvokeInv, InvokeTyped, OpenGate
<1>2. g \in Gates
  BY <1>1 DEF Gates
<1>3. admission' = [admission EXCEPT ![m] = g]
  BY DEF OpenGate
<1> HIDE DEF g
<1>4. \A c \in Calls : TaskHolds(c)
  BY DEF InvokeInv
<1>5. Pending(m) = {}
  BY <1>1, <1>4 DEF Pending, TaskHolds, Fits, Live, CallModules
<1> QED BY <1>2, <1>3, <1>5, ScopeChanges DEF OpenGate

LEMMA QuietWorldKeeps ==
    ASSUME InvokeInv, \/ \E m \in CallModules : HealthReport(m)
                      \/ \E c \in Calls : SourceGone(c)
                      \/ CoreClosed
    PROVE  InvokeInv'
<1>1. InvokeTyped
  BY DEF InvokeInv
<1>2. UNCHANGED <<admission, grant, call, view, child, work, depwork>>
  BY DEF HealthReport, SourceGone, CoreClosed
<1>3. health' \in [CallModules -> [rev: Nat, up: BOOLEAN]]
  <2>1. CASE health' = health
    BY <1>1, <2>1 DEF InvokeTyped
  <2>2. ASSUME NEW m \in CallModules, NEW on \in BOOLEAN,
               health' = [health EXCEPT ![m] = [rev |-> @.rev + 1, up |-> on]]
        PROVE  health' \in [CallModules -> [rev: Nat, up: BOOLEAN]]
    <3> DEFINE n == health[m].rev + 1
               h == [rev |-> n, up |-> on]
    <3>1. n \in Nat
      BY <1>1 DEF InvokeTyped
    <3>2. health' = [health EXCEPT ![m] = h]
      BY <2>2
    <3>3. h \in [rev: Nat, up: BOOLEAN]
      BY <3>1
    <3> HIDE DEF h
    <3> QED BY <1>1, <3>2, <3>3 DEF InvokeTyped
  <2> QED BY <2>1, <2>2 DEF HealthReport, SourceGone, CoreClosed
<1>4. InvokeTyped'
  BY <1>1, <1>2, <1>3 DEF InvokeTyped
<1>5. \A c \in Calls : TaskHolds(c)'
  BY <1>2 DEF InvokeInv, TaskHolds, Fits
<1>6. grant.rev <= grant'.rev
  BY <1>1, <1>2 DEF InvokeTyped
<1> QED BY <1>2, <1>4, <1>5, <1>6, WorldKeeps

LEMMA GrantChangesKeeps ==
    ASSUME InvokeInv, GrantChanges
    PROVE  InvokeInv'
<1>1. InvokeTyped /\ grant.rev \in Nat
  BY DEF InvokeInv, InvokeTyped
<1>2. UNCHANGED <<admission, health, call, view, child, work, depwork>>
  BY DEF GrantChanges
<1>3. grant' \in [rev: Nat, active: BOOLEAN] /\ grant.rev <= grant'.rev
  <2>1. grant \in [rev: Nat, active: BOOLEAN]
    BY <1>1 DEF InvokeTyped
  <2>2. CASE grant' = [grant EXCEPT !.active = FALSE]
    <3>1. grant' = [rev |-> grant.rev, active |-> FALSE]
      BY <2>1, <2>2
    <3>2. grant'.rev = grant.rev
      BY <3>1
    <3>3. grant' \in [rev: Nat, active: BOOLEAN]
      BY <1>1, <3>1
    <3> QED BY <1>1, <3>2, <3>3
  <2>3. CASE grant' = [rev |-> grant.rev + 1, active |-> TRUE]
    <3> DEFINE n == grant.rev + 1
    <3>1. n \in Nat /\ grant.rev <= n
      BY <1>1
    <3>2. grant' = [rev |-> n, active |-> TRUE]
      BY <2>3
    <3> HIDE DEF n
    <3> QED BY <3>1, <3>2
  <2> QED BY <2>2, <2>3 DEF GrantChanges
<1>4. InvokeTyped'
  BY <1>1, <1>2, <1>3 DEF InvokeTyped
<1>5. \A c \in Calls : TaskHolds(c)'
  BY <1>2 DEF InvokeInv, TaskHolds, Fits
<1> QED BY <1>2, <1>3, <1>4, <1>5, WorldKeeps

\* A set of requests ends at once: each is over and leaves nothing.
LEMMA ManyEnd ==
    ASSUME InvokeInv, NEW S \in SUBSET Calls, NEW out \in Outs, NEW c \in Calls, grant' = grant,
           c \in S,
           call'[c] = Over(call[c], out), view'[c] = NoView, child'[c] = NoChild
    PROVE  call'[c] \in CallStates /\ view'[c] \in Views /\ child'[c] \in Children
           /\ CallHolds(c)'
<1>1. call[c] \in CallStates /\ grant.rev \in Nat
  BY InvokeTypes DEF InvokeInv
<1> DEFINE r == Over(call[c], out)
<1>2. r \in CallStates /\ r.pc = "done"
  BY <1>1, IsOver
<1>3. call'[c] = r
  OBVIOUS
<1> HIDE DEF r
<1> QED BY <1>1, <1>2, <1>3, Nothing DEF CallHolds, NoView, NoChild

LEMMA CoreFenceKeeps ==
    ASSUME InvokeInv, CoreFence
    PROVE  InvokeInv'
<1> DEFINE webs == Open("web")
<1>1. InvokeTyped /\ webs \in SUBSET Calls
  BY DEF InvokeInv, Open
<1>2. UNCHANGED <<admission, health, grant>>
  BY DEF CoreFence
<1>3. /\ call' = [c \in Calls |-> IF c \in webs THEN Over(call[c], "error") ELSE call[c]]
      /\ view' = [c \in Calls |-> IF c \in webs THEN NoView ELSE view[c]]
      /\ child' = [c \in Calls |-> IF c \in webs THEN NoChild ELSE child[c]]
      /\ work' = [c \in Calls |-> IF c \in webs THEN Cancelled(work[c]) ELSE work[c]]
      /\ depwork' = [c \in Calls |-> IF c \in webs THEN Cancelled(depwork[c]) ELSE depwork[c]]
  BY DEF CoreFence
<1> HIDE DEF webs
<1>4. ASSUME NEW c \in Calls
      PROVE  call'[c] \in CallStates /\ view'[c] \in Views /\ child'[c] \in Children
             /\ CallHolds(c)'
  <2>1. CASE c \in webs
    <3>1. call'[c] = Over(call[c], "error") /\ view'[c] = NoView /\ child'[c] = NoChild
      BY <1>3, <2>1
    <3> QED BY <1>1, <1>2, <2>1, <3>1, ManyEnd DEF Outs
  <2>2. CASE c \notin webs
    <3>1. call'[c] = call[c] /\ view'[c] = view[c] /\ child'[c] = child[c]
      BY <1>3, <2>2
    <3> QED BY <1>1, <1>2, <3>1, InvokeTypes DEF InvokeInv, CallHolds
  <2> QED BY <2>1, <2>2
<1>5. ASSUME NEW c \in Calls
      PROVE  work'[c] \in Works /\ depwork'[c] \in Works /\ TaskHolds(c)'
  <2>1. /\ work'[c] \in {work[c], Cancelled(work[c])}
        /\ depwork'[c] \in {depwork[c], Cancelled(depwork[c])}
    BY <1>3
  <2>2. work[c] \in Works /\ depwork[c] \in Works /\ TaskHolds(c)
    BY <1>1, InvokeTypes DEF InvokeInv
  <2>3. work'[c] \in Works /\ work'[c].epoch = work[c].epoch
        /\ (work'[c].st \in Live <=> work[c].st \in Live)
    BY <2>1, <2>2, CancelledTask
  <2>4. depwork'[c] \in Works /\ depwork'[c].epoch = depwork[c].epoch
        /\ (depwork'[c].st \in Live <=> depwork[c].st \in Live)
    BY <2>1, <2>2, CancelledTask
  <2> QED BY <1>2, <2>2, <2>3, <2>4 DEF TaskHolds, Fits
<1>6. InvokeTyped'
  <2>1. call' \in [Calls -> CallStates] /\ view' \in [Calls -> Views]
        /\ child' \in [Calls -> Children]
    BY <1>3, <1>4
  <2>2. work' \in [Calls -> Works] /\ depwork' \in [Calls -> Works]
    BY <1>3, <1>5
  <2> QED BY <1>1, <1>2, <2>1, <2>2 DEF InvokeTyped
<1> QED BY <1>4, <1>5, <1>6 DEF InvokeInv

LEMMA CoreDrainKeeps ==
    ASSUME InvokeInv, CoreDrain
    PROVE  InvokeInv'
<1> DEFINE waits == {c \in Open("host") : call[c].pc \in {"handler", "cleanup"}}
           gone == Open("host") \ waits
           r(c) == [call[c] EXCEPT !.pc = "cleanup", !.why = "cancel"]
<1>1. InvokeTyped /\ waits \in SUBSET Calls /\ gone \in SUBSET Calls
      /\ (\A c \in waits : call[c].pc \in {"handler", "cleanup"}) /\ waits \cap gone = {}
  BY DEF InvokeInv, Open
<1>2. UNCHANGED <<health, grant>>
  BY DEF CoreDrain
<1>3. /\ call' = [c \in Calls |-> IF c \in waits THEN r(c)
                                  ELSE IF c \in gone THEN Over(call[c], "raised") ELSE call[c]]
      /\ view' = [c \in Calls |-> IF c \in gone THEN NoView ELSE view[c]]
      /\ child' = [c \in Calls |-> IF c \in gone THEN NoChild ELSE child[c]]
      /\ CancelScopes(CallModules)
      /\ admission' = [m \in CallModules |-> [admission[m] EXCEPT !.open = FALSE,
                                                  !.scope = IF @ = "open" THEN "cancelled" ELSE @]]
  BY DEF CoreDrain
<1>4. ASSUME NEW c \in Calls
      PROVE  /\ r(c) \in CallStates /\ r(c).pc = "cleanup" /\ r(c).out = call[c].out
             /\ r(c).kind = call[c].kind
  BY <1>1, InvokeTypes DEF CallStates, Pcs
<1> HIDE DEF waits, gone, r
<1>5. ASSUME NEW c \in Calls
      PROVE  call'[c] \in CallStates /\ view'[c] \in Views /\ child'[c] \in Children
             /\ CallHolds(c)'
  <2>1. CASE c \in gone
    <3>1. call'[c] = Over(call[c], "raised") /\ view'[c] = NoView /\ child'[c] = NoChild
      BY <1>1, <1>3, <2>1
    <3> QED BY <1>1, <1>2, <2>1, <3>1, ManyEnd DEF Outs
  <2>2. CASE c \in waits
    <3>1. call'[c] = r(c) /\ view'[c] = view[c] /\ child'[c] = child[c]
      BY <1>1, <1>3, <2>2
    <3> QED BY <1>1, <1>2, <1>4, <2>2, <3>1, InvokeTypes DEF InvokeInv, CallHolds
  <2>3. CASE c \notin waits \cup gone
    <3>1. call'[c] = call[c] /\ view'[c] = view[c] /\ child'[c] = child[c]
      BY <1>3, <2>3
    <3> QED BY <1>1, <1>2, <3>1, InvokeTypes DEF InvokeInv, CallHolds
  <2> QED BY <2>1, <2>2, <2>3
<1>6. ASSUME NEW m \in CallModules
      PROVE  /\ admission'[m] \in Gates /\ ~admission'[m].open
             /\ admission'[m].scope = "closed" => admission[m].scope = "closed"
  <2> DEFINE s == IF admission[m].scope = "open" THEN "cancelled" ELSE admission[m].scope
             g == [admission[m] EXCEPT !.open = FALSE, !.scope = s]
  <2>1. admission[m] \in Gates
    BY <1>1 DEF InvokeTyped
  <2>2. s \in {"open", "cancelled", "closed"} /\ (s = "closed" => admission[m].scope = "closed")
    BY <2>1 DEF Gates
  <2>3. admission'[m] = g
    BY <1>3
  <2> HIDE DEF s
  <2>4. g \in Gates /\ ~g.open /\ g.scope = s
    BY <2>1, <2>2 DEF Gates
  <2> HIDE DEF g
  <2> QED BY <2>2, <2>3, <2>4
<1>7. /\ work' \in [Calls -> Works] /\ depwork' \in [Calls -> Works]
      /\ \A c \in Calls :
            /\ work'[c].epoch = work[c].epoch /\ (work'[c].st \in Live <=> work[c].st \in Live)
            /\ depwork'[c].epoch = depwork[c].epoch
            /\ depwork'[c].st \in Live <=> depwork[c].st \in Live
  BY <1>1, <1>3, ScopesCancelled
<1>8. InvokeTyped'
  <2>1. call' \in [Calls -> CallStates] /\ view' \in [Calls -> Views]
        /\ child' \in [Calls -> Children]
    BY <1>3, <1>5
  <2>2. admission' \in [CallModules -> Gates]
    BY <1>3, <1>6
  <2> QED BY <1>1, <1>2, <1>7, <2>1, <2>2 DEF InvokeTyped
<1>9. ASSUME NEW c \in Calls
      PROVE  TaskHolds(c)'
  <2>1. TaskHolds(c)
    BY DEF InvokeInv
  <2> QED BY <1>6, <1>7, <2>1 DEF TaskHolds, Fits, CallModules
<1> QED BY <1>5, <1>8, <1>9 DEF InvokeInv

LEMMA InvokeNextKeeps ==
    ASSUME InvokeInv, InvokeNext
    PROVE  InvokeInv'
<1>1. ASSUME NEW c \in Calls, CallProgress(c)
      PROVE  InvokeInv'
  BY <1>1, IngressedKeeps, IssueKeeps, ReadGrantKeeps, CaptureOwnerKeeps, CheckMessageKeeps,
     DecidesKeep, SpawnKeeps, JoinedKeeps, RouteKeeps, DeadlineKeeps, CleanedUpKeeps,
     WebAdmitKeeps, WebEndsKeep DEF CallProgress
<1>2. ASSUME NEW c \in Calls, TaskStep(c) \/ HandlerReturns(c) \/ TaskEnds(c)
      PROVE  InvokeInv'
  BY <1>2, HandlerStartsKeeps, HandlerCancelledKeeps, DependencyCancelledKeeps, TaskEndsKeeps
     DEF TaskStep
<1>3. ASSUME NEW c \in Calls,
             \/ DependencyEnter(c) \/ DependencyRuns(c) \/ DependencyReturns(c)
             \/ CancelCall(c) \/ CleanupTimeout(c) \/ DependencyTimeout(c)
      PROVE  InvokeInv'
  BY <1>3, DependencyEnterKeeps, DependencyRunsKeeps, DependencyReturnsKeeps, CancelCallKeeps,
     CleanupTimeoutKeeps, DependencyTimeoutKeeps
<1>4. ASSUME NEW c \in Calls, (\E k \in Kinds : Arrive(c, k)) \/ WebArrive(c)
      PROVE  InvokeInv'
  BY <1>4, ArriveKeeps, WebArriveKeeps
<1>5. ASSUME NEW m \in CallModules,
             CloseGate(m) \/ StopIsolated(m) \/ ScopeStopped(m) \/ OpenGate(m)
      PROVE  InvokeInv'
  BY <1>5, CloseGateKeeps, StopIsolatedKeeps, ScopeStoppedKeeps, OpenGateKeeps
<1>6. CASE \/ \E m \in CallModules : HealthReport(m)
           \/ \E c \in Calls : SourceGone(c)
           \/ CoreClosed
  BY <1>6, QuietWorldKeeps
<1>7. CASE GrantChanges \/ CoreFence \/ CoreDrain
  BY <1>7, GrantChangesKeeps, CoreFenceKeeps, CoreDrainKeeps
<1> QED BY <1>1, <1>2, <1>3, <1>4, <1>5, <1>6, <1>7 DEF InvokeNext

LEMMA InvokeInitHolds ==
    ASSUME InvokeInit
    PROVE  InvokeInv
<1>1. InvokeTyped
  BY Nothing DEF InvokeInit, InvokeTyped, Gates
<1>2. ASSUME NEW c \in Calls
      PROVE  CallHolds(c) /\ TaskHolds(c)
  BY DEF InvokeInit, CallHolds, TaskHolds, Fits, NoCall, NoView, NoChild, NoWork, Live
<1> QED BY <1>1, <1>2 DEF InvokeInv

LEMMA InvokeInvIsEnough ==
    ASSUME InvokeInv
    PROVE  AuthorityEndsWithCall /\ RunsDoNotOverlap
<1>1. AuthorityEndsWithCall
  BY DEF InvokeInv, CallHolds, AuthorityEndsWithCall
<1>2. RunsDoNotOverlap
  BY DEF InvokeInv, TaskHolds, Fits, Live, RunsDoNotOverlap
<1> QED BY <1>1, <1>2

\* The theorems: the run explores one component at a time.

PathInv ==
    /\ path = "invocation" => InvokeInv
    /\ path = "output" => RouteInv

LEMMA PathInitHolds == MCInit => PathInv
BY InvokeInitHolds, RouteInitHolds DEF MCInit, PathInv

LEMMA PathStepKeeps == PathInv /\ [MCNext]_<<path, invokeVars, routeVars>> => PathInv'
<1> SUFFICES ASSUME PathInv, [MCNext]_<<path, invokeVars, routeVars>>
             PROVE  PathInv'
  OBVIOUS
<1>1. path' = path
  BY DEF MCNext
<1>2. ASSUME path = "invocation"
      PROVE  InvokeInv'
  <2>1. InvokeInv
    BY <1>2 DEF PathInv
  <2>2. CASE InvokeNext
    BY <2>1, <2>2, InvokeNextKeeps
  <2>3. CASE UNCHANGED invokeVars
    BY <2>1, <2>3 DEF invokeVars, InvokeInv, InvokeTyped, CallHolds, TaskHolds, Fits
  <2> QED BY <1>2, <2>2, <2>3 DEF MCNext
<1>3. ASSUME path = "output"
      PROVE  RouteInv'
  <2>1. RouteInv
    BY <1>3 DEF PathInv
  <2>2. CASE RouteNext
    BY <2>1, <2>2, RouteNextKeeps
  <2>3. CASE UNCHANGED routeVars
    <3>1. UNCHANGED <<kind, row, claimGen, routing, send, image, current, routeGrant, event, host>>
      BY <2>3 DEF routeVars
    <3>2. RouteTyped' /\ RowTells'
      BY <2>1, <3>1 DEF RouteInv, RouteTyped, RowTells
    <3>3. ASSUME NEW c \in RouteCalls
          PROVE  CallTells(c)' /\ ImageHolds(c)'
      BY <2>1, <3>1 DEF RouteInv, CallTells, Claims, ImageHolds
    <3> QED BY <3>2, <3>3 DEF RouteInv
  <2> QED BY <1>3, <2>2, <2>3 DEF MCNext
<1> QED BY <1>1, <1>2, <1>3 DEF PathInv

LEMMA PathInvAlways == MCSpec => []PathInv
BY PathInitHolds, PathStepKeeps, PTL DEF MCSpec

\* However often route is called for an invocation, by however many callers and with
\* whatever faults, a restart among them: the host is asked at most once, the durable
\* outcome and every caller are told what happened, a revoked grant sends nothing, and
\* an image lives as long as its send task may use it (services/output.py, route).
THEOREM OutputTrue == MCSpec => []OutputTellsTruth
<1>1. PathInv => OutputTellsTruth
  BY RouteInvIsEnough DEF PathInv, OutputTellsTruth
<1> QED BY <1>1, PathInvAlways, PTL

\* For any requests, modules' epochs and handlers that ignore their cancellation: a
\* request that is over leaves no view, lease, proof or derived view behind, and no
\* handler of an earlier run executes while a run of its module serves
\* (ContextIssuer.release, TaskScope.stop).
THEOREM AuthorityBounded == MCSpec => []AuthorityIsBounded
<1>1. PathInv => AuthorityIsBounded
  BY InvokeInvIsEnough DEF PathInv, AuthorityIsBounded
<1> QED BY <1>1, PathInvAlways, PTL

\* What a step means for the answer of a request.

\* Where the answer is decided.
AnswerPcs == {"check", "reauthorize", "regranted", "route", "done"}

Untouched(c) ==
    /\ call'[c].pc = call[c].pc /\ call'[c].kind = call[c].kind
    /\ call'[c].out = call[c].out /\ call'[c].seen = call[c].seen
    /\ view'[c].grant = view[c].grant
Fails(c) == call'[c].pc = "done" /\ call'[c].out # "ok"
Denies(c) == call'[c].pc = "route" /\ call'[c].out = "error"
Onward(c) == call[c].pc \notin AnswerPcs /\ call'[c].pc # "done"
Harmless(c) == Untouched(c) \/ Fails(c) \/ Denies(c) \/ Onward(c)

\* The steps that decide it.
Decides(c) ==
    \/ ReadGrant(c) \/ PostCheck(c) \/ Regranted(c) \/ OwnerStill(c)
    \/ Route(c) \/ WebPublish(c) \/ WebError(c)

LEMMA Ending ==
    ASSUME InvokeTyped, NEW c \in Calls, NEW out \in Outs, out # "ok",
           call' = [call EXCEPT ![c] = Over(call[c], out)]
    PROVE  Fails(c)
<1> DEFINE r == Over(call[c], out)
<1>1. r \in CallStates /\ r.pc = "done" /\ r.kind = call[c].kind /\ r.out = out
  BY InvokeTypes, IsOver
<1>2. call' = [call EXCEPT ![c] = r]
  OBVIOUS
<1> HIDE DEF r
<1> QED BY <1>1, <1>2 DEF InvokeTyped, Fails

LEMMA Denying ==
    ASSUME InvokeTyped, NEW c \in Calls, Denied(c)
    PROVE  Denies(c)
BY IsDenied DEF Denies

LEMMA Leaving ==
    ASSUME InvokeTyped, NEW c \in Calls, NEW p \in Pcs \ {"done"}, Goto(c, p),
           call[c].pc \notin AnswerPcs
    PROVE  Onward(c)
BY Goes DEF Onward

\* A step of a request before its handler is over.
LEMMA EarlyAnswers ==
    ASSUME InvokeInv, NEW c \in Calls,
           \/ \E k \in Kinds : Arrive(c, k)
           \/ WebArrive(c) \/ Ingressed(c) \/ Issue(c) \/ CaptureOwner(c) \/ CheckMessage(c)
           \/ Granted(c) \/ Spawn(c) \/ Joined(c) \/ WebAdmit(c)
    PROVE  Harmless(c)
<1>1. InvokeTyped /\ call[c] \in CallStates
  BY InvokeTypes DEF InvokeInv
<1>2. /\ Fails(c) => Harmless(c)
      /\ Denies(c) => Harmless(c)
      /\ Onward(c) => Harmless(c)
  BY DEF Harmless
<1>3. "raised" \in Outs /\ "error" \in Outs
  BY DEF Outs
<1>4. ASSUME Return(c, "raised")
      PROVE  Harmless(c)
  BY <1>1, <1>2, <1>3, <1>4, Ending DEF Return
<1>5. ASSUME Denied(c)
      PROVE  Harmless(c)
  BY <1>1, <1>2, <1>5, Denying
<1>6. ASSUME NEW p \in Pcs \ {"done"}, Goto(c, p), call[c].pc \notin AnswerPcs
      PROVE  Harmless(c)
  BY <1>1, <1>2, <1>6, Leaving
<1>7. ASSUME NEW r, call' = [call EXCEPT ![c] = r], r.pc # "done", call[c].pc \notin AnswerPcs
      PROVE  Harmless(c)
  BY <1>1, <1>2, <1>7 DEF InvokeTyped, Onward
<1>8. ASSUME NEW k \in Kinds, Arrive(c, k)
      PROVE  Harmless(c)
  <2> DEFINE r == [NoCall EXCEPT !.pc = "ingress", !.kind = k]
  <2>1. r.pc = "ingress" /\ call' = [call EXCEPT ![c] = r] /\ call[c].pc \notin AnswerPcs
    BY <1>8 DEF Arrive, NoCall, AnswerPcs
  <2> HIDE DEF r
  <2> QED BY <1>7, <2>1
<1>9. CASE WebArrive(c)
  <2> DEFINE r == [NoCall EXCEPT !.pc = "webadmit", !.kind = "web"]
             e == [NoCall EXCEPT !.pc = "done", !.out = "error"]
  <2>1. CASE call' = [call EXCEPT ![c] = r]
    <3>1. r.pc = "webadmit" /\ call' = [call EXCEPT ![c] = r] /\ call[c].pc \notin AnswerPcs
      BY <1>9, <2>1 DEF WebArrive, NoCall, AnswerPcs
    <3> HIDE DEF r
    <3> QED BY <1>7, <3>1
  <2>2. CASE call' = [call EXCEPT ![c] = e]
    <3>1. e.pc = "done" /\ e.out = "error"
      BY DEF NoCall
    <3> HIDE DEF e
    <3>2. call'[c] = e
      BY <1>1, <2>2 DEF InvokeTyped
    <3> QED BY <1>2, <3>1, <3>2 DEF Fails
  <2> QED BY <1>9, <2>1, <2>2 DEF WebArrive
<1>10. CASE Ingressed(c)
  <2> DEFINE r == [call[c] EXCEPT !.pc = "publish", !.epoch = admission[Home].epoch]
  <2>1. CASE call' = [call EXCEPT ![c] = r]
    <3>1. r.pc = "publish" /\ call[c].pc \notin AnswerPcs
      BY <1>1, <1>10 DEF Ingressed, AnswerPcs, CallStates
    <3>2. call' = [call EXCEPT ![c] = r]
      BY <2>1
    <3> HIDE DEF r
    <3> QED BY <1>7, <3>1, <3>2
  <2> QED BY <1>4, <1>10, <2>1 DEF Ingressed
<1>11. CASE Issue(c)
  <2>1. FirstStep(call[c].kind) \in Pcs \ {"done"} /\ call[c].pc \notin AnswerPcs
    BY <1>11 DEF FirstStep, Pcs, AnswerPcs, Issue
  <2> QED BY <1>4, <1>6, <1>11, <2>1 DEF Issue
<1>12. CASE CaptureOwner(c) \/ CheckMessage(c)
  <2>1. "spawn" \in Pcs \ {"done"} /\ call[c].pc \notin AnswerPcs
    BY <1>12 DEF Pcs, AnswerPcs, CaptureOwner, CheckMessage
  <2> QED BY <1>5, <1>6, <1>12, <2>1 DEF CaptureOwner, CheckMessage
<1>13. CASE Granted(c)
  <2> DEFINE r == [call[c] EXCEPT !.pc = "spawn", !.seen = 0]
  <2>1. CASE call' = [call EXCEPT ![c] = r]
    <3>1. r.pc = "spawn" /\ call[c].pc \notin AnswerPcs
      BY <1>1, <1>13 DEF Granted, AnswerPcs, CallStates
    <3>2. call' = [call EXCEPT ![c] = r]
      BY <2>1
    <3> HIDE DEF r
    <3> QED BY <1>7, <3>1, <3>2
  <2>2. CASE Denied(c)
    BY <1>5, <2>2
  <2> QED BY <1>13, <2>1, <2>2 DEF Granted
<1>14. CASE Spawn(c)
  <2>1. "handler" \in Pcs \ {"done"} /\ call[c].pc \notin AnswerPcs
    BY <1>14 DEF Pcs, AnswerPcs, Spawn
  <2> QED BY <1>5, <1>6, <1>14, <2>1 DEF Spawn
<1>15. CASE Joined(c)
  <2>1. "check" \in Pcs \ {"done"} /\ call[c].pc \notin AnswerPcs
    BY <1>15 DEF Pcs, AnswerPcs, Joined
  <2> QED BY <1>4, <1>5, <1>6, <1>15, <2>1 DEF Joined
<1>16. CASE WebAdmit(c)
  <2>1. "spawn" \in Pcs \ {"done"} /\ call[c].pc \notin AnswerPcs
    BY <1>16 DEF Pcs, AnswerPcs, WebAdmit
  <2>2. WebReturn(c, "error") => Harmless(c)
    BY <1>1, <1>2, <1>3, Ending DEF WebReturn
  <2> QED BY <1>6, <1>16, <2>1, <2>2 DEF WebAdmit
<1> QED BY <1>8, <1>9, <1>10, <1>11, <1>12, <1>13, <1>14, <1>15, <1>16

LEMMA LeavingTouchesNothing ==
    ASSUME InvokeTyped, NEW c \in Calls, NEW result, view' = view,
           \/ LeaveDependency(c, result)
           \/ call' = [call EXCEPT ![c].dep = result]
    PROVE  Untouched(c)
BY DEF InvokeTyped, CallStates, LeaveDependency, Untouched

\* A step of the handler tasks, a deadline or a cancellation.
LEMMA TaskAnswers ==
    ASSUME InvokeInv, NEW c \in Calls,
           \/ TaskStep(c) \/ HandlerReturns(c) \/ DependencyEnter(c) \/ DependencyRuns(c)
           \/ DependencyReturns(c) \/ CancelCall(c) \/ CleanupTimeout(c) \/ DependencyTimeout(c)
           \/ TaskEnds(c) \/ SourceGone(c) \/ Deadline(c) \/ CleanedUp(c) \/ WebSealed(c)
    PROVE  Harmless(c)
<1>1. InvokeTyped /\ call[c] \in CallStates /\ view[c] \in Views
  BY InvokeTypes DEF InvokeInv
<1>2. "raised" \in Outs /\ "error" \in Outs
  BY DEF Outs
<1>3. ASSUME NEW out \in {"raised", "error"}, call' = [call EXCEPT ![c] = Over(call[c], out)]
      PROVE  Harmless(c)
  BY <1>1, <1>2, <1>3, Ending DEF Harmless
<1>4. ASSUME NEW r, call' = [call EXCEPT ![c] = r], r.pc # "done", call[c].pc \notin AnswerPcs
      PROVE  Harmless(c)
  BY <1>1, <1>4 DEF InvokeTyped, Onward, Harmless
<1>5. CASE HandlerStarts(c) \/ HandlerReturns(c) \/ TaskEnds(c) \/ SourceGone(c)
  <2>1. UNCHANGED <<call, view>>
    BY <1>5 DEF HandlerStarts, HandlerReturns, TaskEnds, SourceGone
  <2> QED BY <2>1 DEF Harmless, Untouched
<1>6. CASE \/ HandlerCancelled(c) \/ DependencyCancelled(c) \/ DependencyReturns(c)
           \/ DependencyTimeout(c)
  <2>1. view' = view /\ \E result : LeaveDependency(c, result)
    BY <1>6 DEF HandlerCancelled, DependencyCancelled, DependencyReturns, DependencyTimeout
  <2> QED BY <1>1, <2>1, LeavingTouchesNothing DEF Harmless
<1>7. CASE DependencyEnter(c)
  <2>1. view' = view /\ \E result : call' = [call EXCEPT ![c].dep = result]
    BY <1>7 DEF DependencyEnter
  <2> QED BY <1>1, <2>1, LeavingTouchesNothing DEF Harmless
<1>8. CASE DependencyRuns(c)
  <2>1. view' = view /\ (call' = call \/ LeaveDependency(c, "refused"))
    BY <1>8 DEF DependencyRuns
  <2>2. CASE call' = call
    BY <2>1, <2>2 DEF Harmless, Untouched
  <2> QED BY <1>1, <2>1, <2>2, LeavingTouchesNothing DEF Harmless
<1>9. CASE Deadline(c)
  <2> DEFINE r == [call[c] EXCEPT !.pc = "cleanup", !.why = "deadline"]
  <2>1. r.pc = "cleanup" /\ call[c].pc \notin AnswerPcs
    BY <1>1, <1>9 DEF Deadline, AnswerPcs, CallStates
  <2>2. call' = [call EXCEPT ![c] = r]
    BY <1>9 DEF Deadline
  <2> HIDE DEF r
  <2> QED BY <1>4, <2>1, <2>2
<1>10. CASE CancelCall(c)
  <2> DEFINE r == [call[c] EXCEPT !.pc = "cleanup", !.why = "cancel"]
  <2>1. CASE call' = [call EXCEPT ![c] = r] /\ call[c].pc = "handler"
    <3>1. r.pc = "cleanup" /\ call[c].pc \notin AnswerPcs
      BY <1>1, <2>1 DEF AnswerPcs, CallStates
    <3>2. call' = [call EXCEPT ![c] = r]
      BY <2>1
    <3> HIDE DEF r
    <3> QED BY <1>4, <3>1, <3>2
  <2>2. CASE Return(c, "raised")
    BY <1>3, <2>2 DEF Return
  <2> QED BY <1>10, <2>1, <2>2 DEF CancelCall
<1>11. CASE CleanedUp(c) \/ CleanupTimeout(c)
  <2>1. call[c].pc = "cleanup" /\ Resume(c)
    BY <1>11 DEF CleanedUp, CleanupTimeout
  <2> DEFINE r == [call[c] EXCEPT !.pc = "route", !.out = "error"]
  <2>2. CASE call' = [call EXCEPT ![c] = r]
    <3>1. r.pc = "route" /\ call[c].pc \notin AnswerPcs
      BY <1>1, <2>1 DEF AnswerPcs, CallStates
    <3>2. call' = [call EXCEPT ![c] = r]
      BY <2>2
    <3> HIDE DEF r
    <3> QED BY <1>4, <3>1, <3>2
  <2>3. CASE Return(c, "raised")
    BY <1>3, <2>3 DEF Return
  <2> QED BY <2>1, <2>2, <2>3 DEF Resume
<1>12. CASE WebSealed(c)
  BY <1>3, <1>12 DEF WebSealed, WebReturn
<1> QED BY <1>5, <1>6, <1>7, <1>8, <1>9, <1>10, <1>11, <1>12 DEF TaskStep

\* A step of one request is not a step of another.
RequestStep(c) ==
    \/ \E k \in Kinds : Arrive(c, k)
    \/ WebArrive(c) \/ CallProgress(c) \/ TaskStep(c) \/ HandlerReturns(c)
    \/ DependencyEnter(c) \/ DependencyRuns(c) \/ DependencyReturns(c)
    \/ CancelCall(c) \/ CleanupTimeout(c) \/ DependencyTimeout(c) \/ TaskEnds(c) \/ SourceGone(c)

LEMMA OthersUntouched ==
    ASSUME InvokeTyped, NEW c \in Calls, NEW d \in Calls, d # c, RequestStep(c)
    PROVE  Untouched(d) /\ grant' = grant
<1>1. ASSUME call'[d] = call[d], view'[d] = view[d]
      PROVE  Untouched(d)
  BY <1>1 DEF Untouched
<1>2. CASE (\E k \in Kinds : Arrive(c, k)) \/ WebArrive(c) \/ Ingressed(c) \/ Issue(c)
  <2>1. call'[d] = call[d] /\ view'[d] = view[d]
    BY <1>2 DEF Arrive, WebArrive, Ingressed, Issue, Return, Release, Goto, InvokeTyped
  <2> QED BY <1>1, <1>2, <2>1 DEF Arrive, WebArrive, Ingressed, Issue
<1>3. CASE ReadGrant(c) \/ CaptureOwner(c) \/ CheckMessage(c) \/ Granted(c) \/ Spawn(c)
  <2>1. call'[d] = call[d] /\ view'[d] = view[d]
    BY <1>3 DEF ReadGrant, CaptureOwner, CheckMessage, Granted, Spawn, Denied, Goto, InvokeTyped
  <2> QED BY <1>1, <1>3, <2>1 DEF ReadGrant, CaptureOwner, CheckMessage, Granted, Spawn
<1>4. CASE Joined(c) \/ PostCheck(c) \/ Regranted(c) \/ OwnerStill(c) \/ Route(c)
  <2>1. call'[d] = call[d] /\ view'[d] = view[d]
    BY <1>4 DEF Joined, PostCheck, Regranted, OwnerStill, Route, Denied, Goto, Return, Release,
                InvokeTyped
  <2> QED BY <1>1, <1>4, <2>1 DEF Joined, PostCheck, Regranted, OwnerStill, Route
<1>5. CASE Deadline(c) \/ CleanedUp(c) \/ CancelCall(c) \/ CleanupTimeout(c)
  <2>1. call'[d] = call[d] /\ view'[d] = view[d]
    BY <1>5 DEF Deadline, CleanedUp, CancelCall, CleanupTimeout, Resume, Return, Release, InvokeTyped
  <2> QED BY <1>1, <1>5, <2>1 DEF Deadline, CleanedUp, CancelCall, CleanupTimeout
<1>6. CASE WebAdmit(c) \/ WebPublish(c) \/ WebSealed(c) \/ WebError(c)
  <2>1. call'[d] = call[d] /\ view'[d] = view[d]
    BY <1>6 DEF WebAdmit, WebPublish, WebSealed, WebError, WebReturn, Seal, Release, Goto, InvokeTyped
  <2> QED BY <1>1, <1>6, <2>1 DEF WebAdmit, WebPublish, WebSealed, WebError
<1>7. CASE TaskStep(c) \/ HandlerReturns(c) \/ TaskEnds(c) \/ SourceGone(c)
  <2>1. call'[d] = call[d] /\ view'[d] = view[d]
    BY <1>7 DEF TaskStep, HandlerStarts, HandlerCancelled, DependencyCancelled, HandlerReturns,
                TaskEnds, SourceGone, LeaveDependency, InvokeTyped
  <2> QED
    BY <1>1, <1>7, <2>1 DEF TaskStep, HandlerStarts, HandlerCancelled, DependencyCancelled,
                            HandlerReturns, TaskEnds, SourceGone
<1>8. CASE DependencyEnter(c) \/ DependencyRuns(c) \/ DependencyReturns(c) \/ DependencyTimeout(c)
  <2>1. call'[d] = call[d] /\ view'[d] = view[d]
    BY <1>8 DEF DependencyEnter, DependencyRuns, DependencyReturns, DependencyTimeout,
                LeaveDependency, InvokeTyped
  <2> QED
    BY <1>1, <1>8, <2>1 DEF DependencyEnter, DependencyRuns, DependencyReturns, DependencyTimeout
<1> QED BY <1>2, <1>3, <1>4, <1>5, <1>6, <1>7, <1>8 DEF RequestStep, CallProgress

LEMMA OwnGrant ==
    ASSUME NEW c \in Calls, RequestStep(c)
    PROVE  grant' = grant
<1>1. CASE CallProgress(c)
  BY <1>1 DEF CallProgress, Ingressed, Issue, ReadGrant, CaptureOwner, CheckMessage, Granted, Spawn,
              Joined, PostCheck, Regranted, OwnerStill, Route, Deadline, CleanedUp, WebAdmit,
              WebPublish, WebSealed, WebError
<1>2. CASE ~CallProgress(c)
  BY <1>2 DEF RequestStep, Arrive, WebArrive, TaskStep, HandlerStarts, HandlerCancelled,
              DependencyCancelled, HandlerReturns, DependencyEnter, DependencyRuns,
              DependencyReturns, CancelCall, CleanupTimeout, DependencyTimeout, TaskEnds, SourceGone
<1> QED BY <1>1, <1>2

\* The runtime's own close: what it ends, it ends without an answer.
LEMMA CloseAnswers ==
    ASSUME InvokeInv, NEW c \in Calls, CoreFence \/ CoreDrain
    PROVE  Harmless(c) /\ grant' = grant
<1>1. InvokeTyped /\ call[c] \in CallStates
  BY InvokeTypes DEF InvokeInv
<1>2. /\ Over(call[c], "error").pc = "done" /\ Over(call[c], "error").out = "error"
      /\ Over(call[c], "raised").pc = "done" /\ Over(call[c], "raised").out = "raised"
  BY <1>1, IsOver DEF Outs
<1> DEFINE e == Over(call[c], "error")
           x == Over(call[c], "raised")
           r == [call[c] EXCEPT !.pc = "cleanup", !.why = "cancel"]
<1>3. grant' = grant
  BY DEF CoreFence, CoreDrain
<1>4. r.pc = "cleanup"
  BY <1>1 DEF CallStates
<1>5. CASE CoreFence
  <2>1. \/ call'[c] = e
        \/ call'[c] = call[c] /\ view'[c] = view[c]
    BY <1>5 DEF CoreFence
  <2> HIDE DEF e
  <2>2. CASE call'[c] = e
    BY <1>2, <1>3, <2>2 DEF e, Harmless, Fails
  <2>3. CASE call'[c] = call[c] /\ view'[c] = view[c]
    BY <1>3, <2>3 DEF Harmless, Untouched
  <2> QED BY <1>5, <2>1, <2>2, <2>3 DEF CoreFence
<1>6. CASE CoreDrain
  <2>1. \/ call'[c] = x
        \/ call'[c] = r /\ call[c].pc \in {"handler", "cleanup"}
        \/ call'[c] = call[c] /\ view'[c] = view[c]
    BY <1>6 DEF CoreDrain
  <2> HIDE DEF x, r
  <2>2. CASE call'[c] = x
    BY <1>2, <1>3, <2>2 DEF x, Harmless, Fails
  <2>3. CASE call'[c] = r /\ call[c].pc \in {"handler", "cleanup"}
    BY <1>4, <1>3, <2>3 DEF Harmless, Onward, AnswerPcs
  <2>4. CASE call'[c] = call[c] /\ view'[c] = view[c]
    BY <1>3, <2>4 DEF Harmless, Untouched
  <2> QED BY <1>6, <2>1, <2>2, <2>3, <2>4 DEF CoreDrain
<1> QED BY <1>5, <1>6

\* Every step: it does no harm to the answer, or it decides it, or it moves the grant.
LEMMA StepAnswers ==
    ASSUME InvokeInv, InvokeNext, NEW c \in Calls
    PROVE  \/ Harmless(c) /\ grant' = grant
           \/ Decides(c) /\ grant' = grant
           \/ GrantChanges
<1>1. InvokeTyped
  BY DEF InvokeInv
<1>2. ASSUME NEW d \in Calls, RequestStep(d)
      PROVE  (Harmless(c) \/ Decides(c)) /\ grant' = grant
  <2>1. CASE d # c
    BY <1>1, <1>2, <2>1, OthersUntouched DEF Harmless
  <2>2. CASE d = c
    <3>1. grant' = grant
      BY <1>2, OwnGrant
    <3>2. CASE Decides(c)
      BY <3>1, <3>2
    <3>3. CASE ~Decides(c)
      BY <1>2, <2>2, <3>1, <3>3, EarlyAnswers, TaskAnswers DEF RequestStep, CallProgress, Decides
    <3> QED BY <3>2, <3>3
  <2> QED BY <2>1, <2>2
<1>3. ASSUME NEW m \in CallModules,
             CloseGate(m) \/ StopIsolated(m) \/ ScopeStopped(m) \/ OpenGate(m) \/ HealthReport(m)
      PROVE  Harmless(c) /\ grant' = grant
  <2>1. UNCHANGED <<call, view, grant>>
    BY <1>3 DEF CloseGate, StopIsolated, ScopeStopped, OpenGate, HealthReport
  <2> QED BY <2>1 DEF Harmless, Untouched
<1>4. CASE CoreClosed
  <2>1. UNCHANGED <<call, view, grant>>
    BY <1>4 DEF CoreClosed
  <2> QED BY <2>1 DEF Harmless, Untouched
<1>5. CASE CoreFence \/ CoreDrain
  BY <1>5, CloseAnswers
<1> QED BY <1>2, <1>3, <1>4, <1>5 DEF InvokeNext, RequestStep

\* Once close has fenced the runtime a web or Tool request ends without an answer.
LEMMA FencedStep ==
    ASSUME InvokeInv, InvokeNext
    PROVE  FencedAnswersNothing
<1> SUFFICES ASSUME NEW c \in Calls, core # "open", call[c].kind \in {"web", "tool"},
                    call[c].pc # "done", call'[c].pc = "done"
             PROVE  call'[c].out # "ok"
  BY DEF FencedAnswersNothing
<1>1. InvokeTyped /\ CallHolds(c) /\ call[c] \in CallStates
  BY InvokeTypes DEF InvokeInv
<1>2. ASSUME NEW out \in Outs, out # "ok", call' = [call EXCEPT ![c] = Over(call[c], out)]
      PROVE  call'[c].out # "ok"
  BY <1>1, <1>2, Ending DEF Fails
<1>3. "raised" \in Outs /\ "error" \in Outs /\ "unsent" \in Outs
  BY DEF Outs
<1>4. CASE Harmless(c)
  BY <1>4 DEF Harmless, Untouched, Fails, Denies, Onward
<1>5. CASE GrantChanges
  BY <1>5 DEF GrantChanges
<1>6. CASE Decides(c)
  <2>1. CASE ReadGrant(c)
    BY <1>1, <2>1 DEF ReadGrant, InvokeTyped, CallStates
  <2>2. CASE PostCheck(c) \/ Regranted(c) \/ OwnerStill(c)
    BY <1>1, <2>2 DEF PostCheck, Regranted, OwnerStill, Goto, Denied, InvokeTyped, CallStates
  <2>3. CASE Route(c)
    <3>1. CASE call[c].kind = "tool"
      BY <1>2, <1>3, <2>3, <3>1 DEF Route, SourceCurrent, Accepting, Return
    <3>2. CASE call[c].kind = "web"
      <4>1. call[c].out = "error"
        BY <1>1, <2>3, <3>2 DEF Route, CallHolds
      <4> QED BY <1>2, <1>3, <2>3, <4>1 DEF Route, Return
    <3> QED BY <3>1, <3>2
  <2>4. CASE WebPublish(c)
    BY <1>2, <1>3, <2>4 DEF WebPublish, WebReturn, Accepting
  <2>5. CASE WebError(c)
    <3>1. call[c].out = "error"
      BY <1>1, <2>5 DEF WebError, CallHolds
    <3> QED BY <1>2, <1>3, <2>5, <3>1 DEF WebError, WebReturn
  <2> QED BY <1>6, <2>1, <2>2, <2>3, <2>4, <2>5 DEF Decides
<1> QED BY <1>4, <1>5, <1>6, StepAnswers

\* The grant a request was issued under is not the one that stands, and never will be.
Stale(c) == ~(grant.active /\ grant.rev = view[c].grant)

\* A private request that will not be answered: its grant is stale before it is read
\* again, or what was read does not fit, or its error is decided.
Doomed(c) ==
    \/ call[c].pc \in {"check", "reauthorize"} /\ call[c].kind = "private" /\ Stale(c)
    \/ call[c].pc = "regranted" /\ ~PrivateGrant(c)
    \/ call[c].pc = "route" /\ call[c].out = "error"
    \/ call[c].pc = "done" /\ call[c].out # "ok"

LEMMA DoomedStays ==
    ASSUME InvokeInv, InvokeNext, NEW c \in Calls, Doomed(c)
    PROVE  Doomed(c)'
<1>1. InvokeTyped /\ CallHolds(c) /\ call[c] \in CallStates /\ view[c] \in Views
  BY InvokeTypes DEF InvokeInv
<1>2. Fails(c) \/ Denies(c) => Doomed(c)'
  BY DEF Fails, Denies, Doomed
<1>3. CASE Harmless(c) /\ grant' = grant
  <2>1. CASE Untouched(c)
    BY <1>3, <2>1 DEF Untouched, Doomed, Stale, PrivateGrant
  <2>2. CASE Onward(c)
    BY <2>2 DEF Onward, Doomed, AnswerPcs
  <2> QED BY <1>2, <1>3, <2>1, <2>2 DEF Harmless
<1>4. CASE GrantChanges
  <2>1. UNCHANGED <<call, view>>
    BY <1>4 DEF GrantChanges
  <2>2. Stale(c)'
    <3>1. grant \in [rev: Nat, active: BOOLEAN] /\ view[c].grant <= grant.rev /\ view[c].grant \in Nat
      BY <1>1 DEF InvokeTyped, CallHolds, Views
    <3>2. CASE grant.active
      <4>1. grant'.active = FALSE
        BY <1>4, <3>1, <3>2 DEF GrantChanges
      <4> QED BY <4>1 DEF Stale
    <3>3. CASE ~grant.active
      <4>1. grant'.rev = grant.rev + 1
        BY <1>4, <3>3 DEF GrantChanges
      <4>2. grant'.rev # view'[c].grant
        BY <2>1, <3>1, <4>1
      <4> QED BY <4>2 DEF Stale
    <3> QED BY <3>2, <3>3
  <2> QED BY <2>1, <2>2 DEF Doomed, PrivateGrant
<1>5. CASE Decides(c) /\ grant' = grant
  <2>1. CASE ReadGrant(c)
    <3> DEFINE s == GrantRead
    <3>1. call' = [call EXCEPT ![c].seen = s, ![c].pc = "regranted"] /\ Stale(c)
      BY <1>1, <2>1 DEF ReadGrant, Doomed, InvokeTyped, CallStates
    <3>2. s # 0 => s # view[c].grant
      BY <3>1 DEF Stale, GrantRead
    <3>3. view' = view
      BY <2>1 DEF ReadGrant
    <3> HIDE DEF s
    <3>4. call'[c].seen = s /\ call'[c].pc = "regranted"
      BY <1>1, <3>1 DEF InvokeTyped, CallStates
    <3> QED BY <3>2, <3>3, <3>4 DEF Doomed, PrivateGrant
  <2>2. CASE PostCheck(c)
    <3>1. CASE Denied(c)
      BY <1>1, <1>2, <3>1, Denying
    <3>2. CASE Goto(c, "reauthorize")
      <4>1. call'[c].pc = "reauthorize" /\ call'[c].kind = call[c].kind
        BY <1>1, <3>2, Goes DEF Pcs
      <4> QED BY <1>5, <2>2, <4>1 DEF PostCheck, Doomed, Stale
    <3> QED BY <2>2, <3>1, <3>2 DEF PostCheck, Doomed
  <2>3. CASE Regranted(c)
    BY <1>1, <1>2, <2>3, Denying DEF Regranted, Doomed
  <2>4. CASE OwnerStill(c)
    BY <2>4 DEF OwnerStill, Doomed
  <2>5. CASE Route(c)
    <3>1. "raised" \in Outs /\ "error" \in Outs /\ "unsent" \in Outs /\ call[c].out = "error"
      BY <2>5 DEF Outs, Route, Doomed
    <3>2. PICK out \in {"raised", "error", "unsent"} : Return(c, out)
      BY <2>5, <3>1 DEF Route
    <3> QED BY <1>1, <1>2, <3>1, <3>2, Ending DEF Return
  <2>6. CASE WebPublish(c)
    BY <2>6 DEF WebPublish, Doomed
  <2>7. CASE WebError(c)
    <3>1. "error" \in Outs /\ call[c].out = "error" /\ WebReturn(c, "error")
      BY <2>7 DEF Outs, WebError, Doomed
    <3> QED BY <1>1, <1>2, <3>1, Ending DEF WebReturn
  <2> QED BY <1>5, <2>1, <2>2, <2>3, <2>4, <2>5, <2>6, <2>7 DEF Decides
<1> QED BY <1>3, <1>4, <1>5, StepAnswers

\* For any requests, kinds and moments of a revocation: a private request whose handler
\* ended after its grant had been revoked is never answered with data, and once close
\* has fenced the runtime no web or Tool request is (Gateway._require_private_grant
\* after the handler, _require_web_publication, _source_current).
THEOREM AnswersAuthorized == MCSpec => AnswersAreAuthorized
<1>1. MCSpec => [][path = "invocation" => FencedAnswersNothing]_invokeVars
  <2>1. PathInv /\ [MCNext]_<<path, invokeVars, routeVars>>
        => [path = "invocation" => FencedAnswersNothing]_invokeVars
    <3> SUFFICES ASSUME PathInv, [MCNext]_<<path, invokeVars, routeVars>>, path = "invocation",
                        ~UNCHANGED invokeVars
                 PROVE  FencedAnswersNothing
      OBVIOUS
    <3>1. InvokeInv /\ InvokeNext
      BY DEF PathInv, MCNext
    <3> QED BY <3>1, FencedStep
  <2> QED BY <2>1, PathInvAlways, PTL DEF MCSpec
<1>2. ASSUME NEW c \in Calls
      PROVE  MCSpec =>
               [](/\ path = "invocation" /\ call[c].pc = "check" /\ call[c].kind = "private"
                  /\ GrantRead # view[c].grant
                  => [](path = "invocation" => call[c].out # "ok"))
  <2> DEFINE Revoked == /\ path = "invocation" /\ call[c].pc = "check" /\ call[c].kind = "private"
                        /\ GrantRead # view[c].grant
             Ends == path = "invocation" /\ Doomed(c)
             Silent == path = "invocation" => call[c].out # "ok"
  <2>1. Revoked => Ends
    BY DEF Doomed, Stale, GrantRead
  <2>2. PathInv /\ Ends /\ [MCNext]_<<path, invokeVars, routeVars>> => Ends'
    <3> SUFFICES ASSUME PathInv, path = "invocation", Doomed(c),
                        [MCNext]_<<path, invokeVars, routeVars>>
                 PROVE  path' = "invocation" /\ Doomed(c)'
      OBVIOUS
    <3>1. InvokeInv /\ path' = path
      BY DEF PathInv, MCNext
    <3>2. CASE InvokeNext
      BY <3>1, <3>2, DoomedStays
    <3>3. CASE UNCHANGED invokeVars
      BY <3>1, <3>3 DEF invokeVars, Doomed, Stale, PrivateGrant
    <3> QED BY <3>1, <3>2, <3>3 DEF MCNext
  <2>3. PathInv /\ Ends => Silent
    BY DEF PathInv, InvokeInv, CallHolds, Doomed
  <2> HIDE DEF Revoked, Ends, Silent
  <2>4. MCSpec => [](Revoked => []Silent)
    BY <2>1, <2>2, <2>3, PathInvAlways, PTL DEF MCSpec
  <2> QED BY <2>4 DEF Revoked, Silent
<1> QED BY <1>1, <1>2 DEF AnswersAreAuthorized
=============================================================================
