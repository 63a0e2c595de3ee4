---------------------- MODULE CollectionScheduler_proofs ----------------------
(***************************************************************************)
(* Proofs about CollectionScheduler, for any modules, jobs, subscriptions  *)
(* and installations: an evaluation is never lost, an active subscription  *)
(* is always armed, and a commit rests on what is still true.              *)
(*                                                                         *)
(* The argument is about what a task has read.  A reading is a member of   *)
(* batch[j]: revisions and fences only grow, so a reading whose revision   *)
(* is still the current one has not been touched since it was taken.       *)
(***************************************************************************)
EXTENDS CollectionScheduler, TLAPS

\* The inductive invariant.

\* Where a task has read no subscription yet.
Early == {"none", "start", "global", "module", "claim", "admit", "collect"}

NothingReadEarly == \A j \in Jobs : pc[j] \in Early => batch[j] = {}

\* A fence only grows, so a lease never holds one from the future.
LeaseBehind == \A j \in Jobs : lease[j] <= fence[ModuleOf[j]]

\* What is known of a reading b of task j.
ReadingStands(j, b) ==
    /\ sub[b.sub] # "none"
    /\ b.rev <= rev[b.sub]
    /\ b.base <= state[b.sub].rev
    /\ (fence[ModuleOf[j]] = lease[j] /\ sub[b.sub] = "active" /\ rev[b.sub] = b.rev)
         => b.sub \in clean[j]
    /\ (JobOf[b.sub] # j /\ state[b.sub].rev = b.base)
         => state[b.sub].fence = lease[j]

Readings == \A j \in Jobs : \A b \in batch[j] : ReadingStands(j, b)

Inv ==
    /\ site \in Sites
    /\ TypeOK
    /\ LeaseHasTask
    /\ NoLostEvaluation
    /\ ActiveIsArmed
    /\ NothingReadEarly
    /\ LeaseBehind
    /\ Readings

\* Lemmas.

\* What the assumption on the constants says of the chosen installation.
LEMMA SiteFacts ==
    ASSUME site \in Sites
    PROVE  /\ ModuleOf \in [Jobs -> Modules]
           /\ JobOf \in [Subs -> Jobs]
           /\ Authorized \subseteq Jobs
BY SchedulerConstants DEF ModuleOf, JobOf, Authorized

\* An installation that does not change keeps what belongs together.
LEMMA SameSite ==
    ASSUME UNCHANGED site
    PROVE  /\ ModuleOf' = ModuleOf
           /\ JobOf' = JobOf
           /\ Authorized' = Authorized
BY DEF ModuleOf, JobOf, Authorized

\* A part of the invariant holds as long as nobody touches its variables.
LEMMA Frame ==
    ASSUME Inv, UNCHANGED site
    PROVE  /\ UNCHANGED <<due, later, before>> => JobsTyped'
           /\ UNCHANGED <<tok, old, grant, sub, rev, state, fence, intent, gate, mod,
                          moves, faults, commits>> => RowsTyped'
           /\ UNCHANGED <<up, pump, page, pc, result, cancelled, who, lease, todo, batch,
                          clean>> => TasksTyped'
           /\ UNCHANGED <<tok, pc>> => LeaseHasTask'
           /\ UNCHANGED <<state, commits>> => NoLostEvaluation'
           /\ UNCHANGED <<due, later, sub>> => ActiveIsArmed'
           /\ UNCHANGED <<pc, batch>> => NothingReadEarly'
           /\ UNCHANGED <<lease, fence>> => LeaseBehind'
           /\ UNCHANGED <<sub, rev, state, fence, lease, batch, clean>> => Readings'
<1> USE SameSite DEF Inv, TypeOK
<1>1. UNCHANGED <<due, later, before>> => JobsTyped'
  BY DEF JobsTyped
<1>2. UNCHANGED <<tok, old, grant, sub, rev, state, fence, intent, gate, mod, moves,
                  faults, commits>> => RowsTyped'
  BY DEF RowsTyped
<1>3. UNCHANGED <<up, pump, page, pc, result, cancelled, who, lease, todo, batch, clean>>
        => TasksTyped'
  BY DEF TasksTyped
<1>4. UNCHANGED <<tok, pc>> => LeaseHasTask'
  BY DEF LeaseHasTask
<1>5. UNCHANGED <<state, commits>> => NoLostEvaluation'
  BY DEF NoLostEvaluation
<1>6. UNCHANGED <<due, later, sub>> => ActiveIsArmed'
  BY DEF ActiveIsArmed
<1>7. UNCHANGED <<pc, batch>> => NothingReadEarly'
  BY DEF NothingReadEarly
<1>8. UNCHANGED <<lease, fence>> => LeaseBehind'
  BY DEF LeaseBehind
<1>9. UNCHANGED <<sub, rev, state, fence, lease, batch, clean>> => Readings'
  BY DEF Readings, ReadingStands
<1> QED BY <1>1, <1>2, <1>3, <1>4, <1>5, <1>6, <1>7, <1>8, <1>9

\* _principal_for answers a set of at most one subscription with its revision.
LEMMA PrincipalType ==
    ASSUME TypeOK, NEW j \in Jobs
    PROVE  Principal(j) \in SUBSET [sub: Subs, rev: Nat]
<1>1. LinkedTo(j) \subseteq Subs
  BY DEF LinkedTo
<1>2. CASE LinkedTo(j) = {}
  BY <1>2 DEF Principal
<1>3. CASE LinkedTo(j) # {}
  <2> DEFINE first == CHOOSE s \in LinkedTo(j) : TRUE
  <2>1. first \in Subs
    BY <1>1, <1>3
  <2>2. Principal(j) = {[sub |-> s, rev |-> rev[s]] : s \in {first}}
    BY <1>3 DEF Principal
  <2> HIDE DEF first
  <2>3. rev[first] \in Nat
    BY <2>1 DEF TypeOK, RowsTyped
  <2> QED BY <2>1, <2>2, <2>3
<1> QED BY <1>2, <1>3

\* Moving a due time keeps the order of the due jobs.
LEMMA Ordered ==
    ASSUME JobsTyped, NEW j \in Jobs
    PROVE  /\ Postpone(j) => JobsTyped'
           /\ Disarm(j) => JobsTyped'
           /\ Arm(j) => JobsTyped'
           /\ Rearm(j) /\ j \notin later => JobsTyped'
<1> USE DEF JobsTyped
<1>1. Postpone(j) => JobsTyped'
  BY DEF Postpone, Without
<1>2. Disarm(j) => JobsTyped'
  BY DEF Disarm, Without
<1>3. Arm(j) => JobsTyped'
  BY DEF Arm, jobvars
<1>4. ASSUME Rearm(j), j \notin later PROVE JobsTyped'
  <2>1. CASE j \in due
    BY <1>4, <2>1 DEF Rearm, jobvars
  <2>2. CASE j \notin due
    <3>1. PICK earlier \in SUBSET due :
              /\ due' = due \cup {j}
              /\ before' = before \cup (earlier \X {j}) \cup ({j} \X (due \ earlier))
              /\ UNCHANGED later
      BY <1>4, <2>2 DEF Rearm
    <3> QED BY <1>4, <2>2, <3>1
  <2> QED BY <2>1, <2>2
<1> QED BY <1>1, <1>2, <1>3, <1>4

\* A task that ends leaves no lease and no reading behind.
LEMMA EndStep ==
    ASSUME Inv, NEW j \in Jobs, NEW res \in {"ok", "raised"}, End(j, res),
           UNCHANGED <<site, up, pump, page, sub, rev, state, fence>>,
           \A k \in Jobs : tok'[k] = "run" => tok[k] = "run" /\ k # j
    PROVE  /\ TasksTyped'
           /\ LeaseHasTask' /\ NothingReadEarly' /\ LeaseBehind' /\ Readings'
<1> USE SiteFacts, SameSite DEF Inv, TypeOK, End, Goto
<1>1. TasksTyped'
  BY DEF TasksTyped, PCs
<1>2. LeaseHasTask'
  BY DEF LeaseHasTask, TasksTyped
<1>3. NothingReadEarly'
  BY DEF NothingReadEarly, TasksTyped
<1>4. ASSUME NEW k \in Jobs PROVE lease'[k] <= fence'[ModuleOf[k]]
  <2>1. ModuleOf[k] \in Modules /\ fence[ModuleOf[k]] \in Nat
    BY DEF RowsTyped
  <2>2. lease'[k] = IF k = j THEN 0 ELSE lease[k]
    BY DEF TasksTyped
  <2> QED BY <2>1, <2>2 DEF LeaseBehind
<1>5. ASSUME NEW k \in Jobs, NEW b \in batch'[k] PROVE ReadingStands(k, b)'
  <2>1. k # j /\ b \in batch[k]
    BY <1>5 DEF TasksTyped
  <2>2. lease'[k] = lease[k] /\ clean'[k] = clean[k]
    BY <2>1 DEF TasksTyped
  <2> QED BY <2>1, <2>2 DEF Readings, ReadingStands
<1>6. LeaseBehind' /\ Readings'
  BY <1>4, <1>5 DEF LeaseBehind, Readings
<1> QED BY <1>1, <1>2, <1>3, <1>6

\* A task that moves on keeps its lease while it is in the leased part, and has
\* read nothing as long as it is in the early part.
LEMMA GotoStep ==
    ASSUME Inv, NEW j \in Jobs, NEW to \in PCs, Goto(j, to), UNCHANGED batch,
           \A k \in Jobs : tok'[k] = "run" => tok[k] = "run" \/ k = j,
           tok'[j] = "run" => to \in Leased,
           to \in Early => batch[j] = {}
    PROVE  pc' \in [Jobs -> PCs] /\ LeaseHasTask' /\ NothingReadEarly'
<1> USE DEF Inv, TypeOK, Goto
<1>1. pc' \in [Jobs -> PCs]
  BY DEF TasksTyped
<1>2. LeaseHasTask'
  BY DEF LeaseHasTask, TasksTyped
<1>3. NothingReadEarly'
  BY DEF NothingReadEarly, TasksTyped
<1> QED BY <1>1, <1>2, <1>3

\* The finally clause: every path into it keeps what the task has read.
LEMMA UnwindStep ==
    ASSUME Inv, NEW j \in Jobs, NEW res \in {"ok", "raised"}, Unwind(j, res),
           UNCHANGED <<site, up, pump, page>>,
           \A k \in Jobs : tok'[k] = "run" => tok[k] = "run"
    PROVE  TasksTyped' /\ LeaseHasTask' /\ NothingReadEarly'
<1>1. Goto(j, "release") /\ UNCHANGED batch /\ "release" \in PCs /\ "release" \in Leased
      /\ "release" \notin Early
  BY DEF Unwind, PCs, Gated, Leased, Early
<1>2. pc' \in [Jobs -> PCs] /\ LeaseHasTask' /\ NothingReadEarly'
  BY <1>1, GotoStep
<1>3. TasksTyped'
  BY <1>2 DEF Inv, TypeOK, TasksTyped, Unwind
<1> QED BY <1>2, <1>3

\* When the fence of a module moves, the leases of its tasks are behind, and
\* their readings can no longer be committed.
LEMMA MoveFenceStep ==
    ASSUME Inv, NEW m \in Modules, MoveFence(m),
           UNCHANGED <<site, sub, rev, state, lease, batch>>
    PROVE  /\ fence' \in [Modules -> Nat]
           /\ clean' \in [Jobs -> SUBSET Subs]
           /\ LeaseBehind' /\ Readings'
<1> USE SiteFacts, SameSite DEF Inv, TypeOK, MoveFence
<1>1. fence' \in [Modules -> Nat] /\ clean' \in [Jobs -> SUBSET Subs]
  BY DEF RowsTyped, TasksTyped
<1>2. LeaseBehind'
  BY DEF LeaseBehind, RowsTyped, TasksTyped
<1>3. ASSUME NEW j \in Jobs, NEW b \in batch[j] PROVE ReadingStands(j, b)'
  <2>1. ReadingStands(j, b)
    BY DEF Readings
  <2>2. CASE ModuleOf[j] = m
    <3>1. fence'[ModuleOf[j]] # lease[j]
      BY <2>2 DEF LeaseBehind, RowsTyped, TasksTyped
    <3> QED BY <2>1, <3>1 DEF ReadingStands
  <2>3. CASE ModuleOf[j] # m
    <3>1. fence'[ModuleOf[j]] = fence[ModuleOf[j]] /\ clean'[j] = clean[j]
      BY <2>3 DEF RowsTyped, TasksTyped
    <3> QED BY <2>1, <3>1 DEF ReadingStands
  <2> QED BY <2>2, <2>3
<1>4. Readings'
  BY <1>3 DEF Readings
<1> QED BY <1>1, <1>2, <1>4

\* The empty installation satisfies the inductive invariant.
LEMMA InitInv == Init => Inv
<1> SUFFICES ASSUME Init PROVE Inv
  OBVIOUS
<1>1. site \in Sites
  BY DEF Init
<1> USE SiteFacts, <1>1 DEF Init
<1>2. TypeOK
  BY DEF TypeOK, JobsTyped, RowsTyped, TasksTyped, PCs
<1>3. LeaseHasTask /\ NoLostEvaluation /\ ActiveIsArmed
  BY DEF LeaseHasTask, NoLostEvaluation, ActiveIsArmed
<1>4. NothingReadEarly /\ LeaseBehind /\ Readings
  BY DEF NothingReadEarly, LeaseBehind, Readings
<1> QED BY <1>1, <1>2, <1>3, <1>4 DEF Inv

\* Every step of the pump, of a task, of a command and of the world keeps the
\* invariant.
LEMMA InvStep == Inv /\ [Next /\ UNCHANGED site]_<<site, vars>> => Inv'
<1> SUFFICES ASSUME Inv, [Next /\ UNCHANGED site]_<<site, vars>> PROVE Inv'
  OBVIOUS
<1>0. UNCHANGED site /\ site' \in Sites
  BY DEF Inv
<1> USE <1>0, SiteFacts, SameSite DEF Inv
<1>1. CASE PumpScan
  <2>1. JobsTyped' /\ RowsTyped' /\ LeaseHasTask' /\ NoLostEvaluation' /\ ActiveIsArmed'
         /\ NothingReadEarly' /\ LeaseBehind' /\ Readings'
    BY <1>1, Frame DEF PumpScan, jobvars, subvars, modvars, taskvars, history
  <2>2. TasksTyped'
    BY <1>1 DEF PumpScan, jobvars, subvars, modvars, taskvars, history, FirstPage,
       TasksTyped, PCs, Gated, Leased, TypeOK
  <2> QED BY <2>1, <2>2 DEF TypeOK
<1>2. CASE PumpStart
  <2>1. JobsTyped' /\ RowsTyped' /\ NoLostEvaluation' /\ ActiveIsArmed'
         /\ LeaseBehind' /\ Readings'
    BY <1>2, Frame DEF PumpStart, jobvars, subvars, modvars, history
  <2>2. TasksTyped'
    BY <1>2 DEF PumpStart, jobvars, subvars, modvars, history, TasksTyped, PCs, Gated,
       Leased, TypeOK
  <2>3. LeaseHasTask'
    BY <1>2 DEF PumpStart, jobvars, subvars, modvars, history, LeaseHasTask, Leased,
       TypeOK, RowsTyped, TasksTyped
  <2>4. NothingReadEarly'
    BY <1>2 DEF PumpStart, jobvars, subvars, modvars, history, NothingReadEarly, Early,
       TypeOK, RowsTyped, TasksTyped
  <2> QED BY <2>1, <2>2, <2>3, <2>4 DEF TypeOK
<1>3. CASE PumpJoin
  <2>1. JobsTyped' /\ RowsTyped' /\ LeaseHasTask' /\ NoLostEvaluation' /\ ActiveIsArmed'
         /\ NothingReadEarly' /\ LeaseBehind' /\ Readings'
    BY <1>3, Frame DEF PumpJoin, jobvars, subvars, modvars, taskvars, history
  <2>2. TasksTyped'
    BY <1>3 DEF PumpJoin, jobvars, subvars, modvars, taskvars, history, TasksTyped,
       PCs, Gated, Leased, TypeOK
  <2> QED BY <2>1, <2>2 DEF TypeOK
<1>4. CASE PumpFails
  <2>1. JobsTyped' /\ LeaseHasTask' /\ NoLostEvaluation' /\ ActiveIsArmed'
         /\ NothingReadEarly' /\ LeaseBehind' /\ Readings'
    BY <1>4, Frame DEF PumpFails, Fault, jobvars, subvars, modvars, taskvars, history
  <2>2. RowsTyped'
    BY <1>4 DEF PumpFails, Fault, jobvars, subvars, modvars, taskvars, history,
       RowsTyped, TypeOK
  <2>3. TasksTyped'
    BY <1>4 DEF PumpFails, Fault, jobvars, subvars, modvars, taskvars, history,
       TasksTyped, PCs, Gated, Leased, TypeOK
  <2> QED BY <2>1, <2>2, <2>3 DEF TypeOK
<1>5. ASSUME NEW j \in Jobs, Begin(j) PROVE Inv'
  <2>1. UNCHANGED <<tok, old, sub, rev, grant, state, fence, intent, gate, mod, up, pump,
                    page, moves, faults, commits, due, later, before>>
    BY <1>5 DEF Begin, jobvars, subvars, modvars
  <2>2. JobsTyped' /\ RowsTyped' /\ NoLostEvaluation' /\ ActiveIsArmed'
    BY <2>1, Frame
  <2>3. tok[j] # "run" /\ batch[j] = {}
    BY <1>5 DEF Begin, LeaseHasTask, Leased, NothingReadEarly, Early
  <2>4. CASE End(j, "ok")
    BY <2>1, <2>2, <2>3, <2>4, EndStep DEF TypeOK
  <2>5. CASE ~End(j, "ok")
    <3>1. Goto(j, "global") /\ who' = [who EXCEPT ![j] = Principal(j)]
          /\ UNCHANGED <<result, cancelled, lease, todo, batch, clean>>
      BY <1>5, <2>5 DEF Begin
    <3>2. pc' \in [Jobs -> PCs] /\ LeaseHasTask' /\ NothingReadEarly'
      BY <2>1, <2>3, <3>1, GotoStep DEF PCs
    <3>3. TasksTyped'
      BY <2>1, <3>1, <3>2, PrincipalType DEF TypeOK, TasksTyped
    <3> QED BY <2>1, <2>2, <3>1, <3>2, <3>3, Frame DEF TypeOK
  <2> QED BY <2>4, <2>5
<1>6. ASSUME NEW j \in Jobs, EnterGlobal(j) PROVE Inv'
  <2>1. JobsTyped' /\ RowsTyped' /\ NoLostEvaluation' /\ ActiveIsArmed'
         /\ LeaseBehind' /\ Readings'
    BY <1>6, Frame DEF EnterGlobal, Goto, jobvars, subvars, modvars, history
  <2>2. TasksTyped'
    BY <1>6 DEF EnterGlobal, Goto, jobvars, subvars, modvars, history, TasksTyped, PCs,
       Gated, Leased, TypeOK
  <2>3. LeaseHasTask'
    BY <1>6 DEF EnterGlobal, Goto, jobvars, subvars, modvars, history, LeaseHasTask,
       Leased, TypeOK, RowsTyped, TasksTyped
  <2>4. NothingReadEarly'
    BY <1>6 DEF EnterGlobal, Goto, jobvars, subvars, modvars, history,
       NothingReadEarly, Early, TypeOK, RowsTyped, TasksTyped
  <2> QED BY <2>1, <2>2, <2>3, <2>4 DEF TypeOK
<1>7. ASSUME NEW j \in Jobs, EnterModule(j) PROVE Inv'
  <2>1. UNCHANGED <<tok, old, sub, rev, grant, state, fence, intent, gate, mod, up, pump,
                    page, moves, faults, commits, due, later, before>>
    BY <1>7 DEF EnterModule, jobvars, subvars, modvars
  <2>2. JobsTyped' /\ RowsTyped' /\ NoLostEvaluation' /\ ActiveIsArmed'
    BY <2>1, Frame
  <2>3. tok[j] # "run" /\ batch[j] = {}
    BY <1>7 DEF EnterModule, LeaseHasTask, Leased, NothingReadEarly, Early
  <2>4. CASE End(j, "ok")
    BY <2>1, <2>2, <2>3, <2>4, EndStep DEF TypeOK
  <2>5. CASE ~End(j, "ok")
    <3>1. Goto(j, "claim")
          /\ UNCHANGED <<result, cancelled, who, lease, todo, batch, clean>>
      BY <1>7, <2>5 DEF EnterModule
    <3>2. pc' \in [Jobs -> PCs] /\ LeaseHasTask' /\ NothingReadEarly'
      BY <2>1, <2>3, <3>1, GotoStep DEF PCs, Gated
    <3>3. TasksTyped'
      BY <2>1, <3>1, <3>2 DEF TypeOK, TasksTyped
    <3> QED BY <2>1, <2>2, <3>1, <3>2, <3>3, Frame DEF TypeOK
  <2> QED BY <2>4, <2>5
<1>8. ASSUME NEW j \in Jobs, Claim(j) PROVE Inv'
  <2>1. UNCHANGED <<sub, rev, grant, state, fence, intent, gate, mod, up, pump, page,
                    moves, faults, commits>>
    BY <1>8 DEF Claim, subvars, modvars
  <2>2. NoLostEvaluation'
    BY <2>1, Frame
  <2>3. tok[j] # "run" /\ batch[j] = {}
    BY <1>8 DEF Claim, LeaseHasTask, Leased, NothingReadEarly, Early
  <2>4. JobsTyped' /\ due \cup later \subseteq due' \cup later'
    <3>1. CASE CanClaim(j)
      <4>1. Rearm(j) /\ j \notin later
        BY <1>8, <3>1 DEF Claim, CanClaim
      <4>2. due \subseteq due' /\ UNCHANGED later
        BY <4>1 DEF Rearm, jobvars
      <4> QED BY <4>1, <4>2, Ordered DEF TypeOK
    <3>2. CASE ~CanClaim(j)
      BY <1>8, <3>2, Frame DEF Claim, jobvars
    <3> QED BY <3>1, <3>2
  <2>5. ActiveIsArmed'
    BY <2>1, <2>4 DEF ActiveIsArmed
  <2>6. CASE j \in cancelled \/ ~CanClaim(j)
    <3>1. \E res \in {"ok", "raised"} : End(j, res)
      BY <1>8, <2>6 DEF Claim
    <3>2. (UNCHANGED <<tok, old>>) \/ SetTok(j, "orphan")
      BY <1>8, <2>6 DEF Claim
    <3>3. \A k \in Jobs : tok'[k] = "run" => tok[k] = "run" /\ k # j
      BY <2>3, <3>2 DEF SetTok, TypeOK, RowsTyped
    <3>4. RowsTyped'
      BY <2>1, <3>2 DEF SetTok, TypeOK, RowsTyped
    <3> QED BY <2>1, <2>2, <2>4, <2>5, <3>1, <3>3, <3>4, EndStep DEF TypeOK
  <2>7. CASE j \notin cancelled /\ CanClaim(j)
    <3>1. /\ SetTok(j, "run")
          /\ lease' = [lease EXCEPT ![j] = fence[ModuleOf[j]]]
          /\ Goto(j, "admit")
          /\ UNCHANGED <<result, cancelled, who, todo, batch, clean>>
      BY <1>8, <2>7 DEF Claim
    <3>2. /\ \A k \in Jobs : tok'[k] = "run" => tok[k] = "run" \/ k = j
          /\ RowsTyped'
      BY <2>1, <3>1 DEF SetTok, TypeOK, RowsTyped
    <3>3. pc' \in [Jobs -> PCs] /\ LeaseHasTask' /\ NothingReadEarly'
      BY <2>1, <2>3, <3>1, <3>2, GotoStep DEF PCs, Gated, Leased
    <3>4. fence[ModuleOf[j]] \in Nat
      BY DEF TypeOK, RowsTyped
    <3>5. TasksTyped'
      BY <2>1, <3>1, <3>3, <3>4 DEF TypeOK, TasksTyped
    <3>6. \A k \in Jobs : lease'[k] = IF k = j THEN fence[ModuleOf[j]] ELSE lease[k]
      BY <3>1 DEF TypeOK, TasksTyped
    <3>7. LeaseBehind'
      BY <2>1, <3>4, <3>6 DEF LeaseBehind
    <3>8. ASSUME NEW k \in Jobs, NEW b \in batch'[k] PROVE ReadingStands(k, b)'
      <4>1. k # j /\ b \in batch[k] /\ lease'[k] = lease[k]
        BY <2>3, <3>1, <3>6, <3>8
      <4> QED BY <2>1, <3>1, <4>1 DEF Readings, ReadingStands
    <3>9. Readings'
      BY <3>8 DEF Readings
    <3> QED BY <2>2, <2>4, <2>5, <3>2, <3>3, <3>5, <3>7, <3>9 DEF TypeOK
  <2> QED BY <2>6, <2>7
<1>9. ASSUME NEW j \in Jobs, Admit(j) PROVE Inv'
  <2>1. UNCHANGED <<tok, old, sub, rev, grant, state, fence, intent, gate, mod, up, pump,
                    page, moves, faults, commits, due, later, before, lease, batch, clean>>
    BY <1>9 DEF Admit, Unwind, jobvars, subvars, modvars
  <2>2. JobsTyped' /\ RowsTyped' /\ NoLostEvaluation' /\ ActiveIsArmed' /\ LeaseBehind'
         /\ Readings'
    BY <2>1, Frame
  <2>3. CASE Unwind(j, "ok")
    BY <2>1, <2>2, <2>3, UnwindStep DEF TypeOK
  <2>4. CASE ~Unwind(j, "ok")
    <3>1. Goto(j, "collect") /\ UNCHANGED <<result, cancelled, who, todo>>
      BY <1>9, <2>4 DEF Admit
    <3>2. batch[j] = {}
      BY <1>9 DEF Admit, NothingReadEarly, Early
    <3>3. pc' \in [Jobs -> PCs] /\ LeaseHasTask' /\ NothingReadEarly'
      BY <2>1, <3>1, <3>2, GotoStep DEF PCs, Gated, Leased
    <3>4. TasksTyped'
      BY <2>1, <3>1, <3>3 DEF TypeOK, TasksTyped
    <3> QED BY <2>2, <3>3, <3>4 DEF TypeOK
  <2> QED BY <2>3, <2>4
<1>10. ASSUME NEW j \in Jobs, Collect(j) PROVE Inv'
  <2>1. UNCHANGED <<tok, old, sub, rev, grant, state, fence, intent, gate, mod, up, pump,
                    page, moves, faults, commits, due, later, before, lease, batch, clean>>
    BY <1>10 DEF Collect, Unwind, jobvars, subvars, modvars
  <2>2. JobsTyped' /\ RowsTyped' /\ NoLostEvaluation' /\ ActiveIsArmed' /\ LeaseBehind'
         /\ Readings'
    BY <2>1, Frame
  <2>3. CASE Unwind(j, "ok")
    BY <2>1, <2>2, <2>3, UnwindStep DEF TypeOK
  <2>4. CASE ~Unwind(j, "ok")
    <3>1. /\ \E to \in {"evaluate", "fail", "defer"} : Goto(j, to)
          /\ UNCHANGED <<result, cancelled, who>>
      BY <1>10, <2>4 DEF Collect
    <3>2. pc' \in [Jobs -> PCs] /\ LeaseHasTask' /\ NothingReadEarly'
      BY <2>1, <3>1, GotoStep DEF PCs, Gated, Leased, Early
    <3>3. todo' \in [Jobs -> SUBSET Subs]
      BY <1>10, <2>4 DEF Collect, LinkedTo, Peers, TypeOK, TasksTyped
    <3>4. TasksTyped'
      BY <2>1, <3>1, <3>2, <3>3 DEF TypeOK, TasksTyped
    <3> QED BY <2>2, <3>2, <3>4 DEF TypeOK
  <2> QED BY <2>3, <2>4
<1>11. ASSUME NEW j \in Jobs, NEW s \in Subs, Evaluate(j, s) PROVE Inv'
  <2>1. UNCHANGED <<tok, old, sub, rev, grant, state, fence, intent, gate, mod, up, pump,
                    page, moves, faults, commits, due, later, before, lease, pc, result,
                    cancelled, who>>
    BY <1>11 DEF Evaluate, jobvars, subvars, modvars
  <2>2. JobsTyped' /\ RowsTyped' /\ LeaseHasTask' /\ NoLostEvaluation' /\ ActiveIsArmed'
         /\ LeaseBehind'
    BY <2>1, Frame
  <2> DEFINE new == [sub |-> s, rev |-> rev[s], base |-> state[s].rev]
  <2>3. new \in [sub: Subs, rev: Nat, base: Nat]
    BY DEF TypeOK, RowsTyped
  <2>4. todo' \in [Jobs -> SUBSET Subs]
    BY <1>11 DEF Evaluate, TypeOK, TasksTyped
  <2>5. CASE UNCHANGED <<batch, clean>>
    <3>1. TasksTyped'
      BY <2>1, <2>4, <2>5 DEF TypeOK, TasksTyped
    <3> QED BY <2>1, <2>2, <2>5, <3>1, Frame DEF TypeOK
  <2>6. CASE ~UNCHANGED <<batch, clean>>
    <3>1. /\ Takes(j, s)
          /\ batch' = [batch EXCEPT ![j] = @ \cup {new}]
          /\ clean' = [clean EXCEPT ![j] =
                         IF fence[ModuleOf[j]] = lease[j] THEN @ \cup {s} ELSE @]
      BY <1>11, <2>6 DEF Evaluate
    <3> HIDE DEF new
    <3>2. TasksTyped'
      BY <2>1, <2>3, <2>4, <3>1 DEF TypeOK, TasksTyped
    <3>3. NothingReadEarly'
      BY <1>11, <2>1, <3>1 DEF Evaluate, NothingReadEarly, Early, TypeOK, TasksTyped
    <3>4. ASSUME NEW k \in Jobs, NEW b \in batch'[k] PROVE ReadingStands(k, b)'
      <4>1. clean[k] \subseteq clean'[k]
        BY <3>1 DEF TypeOK, TasksTyped
      <4>2. CASE b \in batch[k]
        BY <2>1, <4>1, <4>2 DEF Readings, ReadingStands
      <4>3. CASE b \notin batch[k]
        <5>1. k = j /\ b = new
          BY <3>1, <3>4, <4>3 DEF TypeOK, TasksTyped
        <5>2. fence[ModuleOf[j]] = lease[j] => s \in clean'[j]
          BY <3>1 DEF TypeOK, TasksTyped
        <5>3. b.sub = s /\ b.rev = rev[s] /\ b.base = state[s].rev
              /\ rev[s] \in Nat /\ state[s].rev \in Nat
          BY <5>1 DEF new, TypeOK, RowsTyped
        <5> QED BY <2>1, <3>1, <5>1, <5>2, <5>3 DEF ReadingStands, Takes
      <4> QED BY <4>2, <4>3
    <3>5. Readings'
      BY <3>4 DEF Readings
    <3> QED BY <2>2, <3>2, <3>3, <3>5 DEF TypeOK
  <2> QED BY <2>5, <2>6
<1>12. ASSUME NEW j \in Jobs, Evaluated(j) PROVE Inv'
  <2>1. UNCHANGED <<tok, old, sub, rev, grant, state, fence, intent, gate, mod, up, pump,
                    page, moves, commits, due, later, before, lease, batch, clean>>
    BY <1>12 DEF Evaluated, Unwind, jobvars, subvars, modvars
  <2>2. JobsTyped' /\ NoLostEvaluation' /\ ActiveIsArmed' /\ LeaseBehind' /\ Readings'
    BY <2>1, Frame
  <2>3. faults' \in Nat
    BY <1>12 DEF Evaluated, Fault, TypeOK, RowsTyped
  <2>4. RowsTyped'
    BY <2>1, <2>3 DEF TypeOK, RowsTyped
  <2>5. CASE Unwind(j, "ok")
    BY <2>1, <2>2, <2>4, <2>5, UnwindStep DEF TypeOK
  <2>6. CASE ~Unwind(j, "ok")
    <3>1. /\ \E to \in {"commit", "fail"} : Goto(j, to)
          /\ UNCHANGED <<result, cancelled, who, todo>>
      BY <1>12, <2>6 DEF Evaluated
    <3>2. pc' \in [Jobs -> PCs] /\ LeaseHasTask' /\ NothingReadEarly'
      BY <2>1, <3>1, GotoStep DEF PCs, Gated, Leased, Early
    <3>3. TasksTyped'
      BY <2>1, <3>1, <3>2 DEF TypeOK, TasksTyped
    <3> QED BY <2>2, <2>4, <3>2, <3>3 DEF TypeOK
  <2> QED BY <2>5, <2>6
<1>13. ASSUME NEW j \in Jobs, Commit(j) PROVE Inv'
  <2>1. UNCHANGED <<sub, rev, grant, fence, intent, gate, mod, up, pump, page, moves,
                    faults, lease, batch, clean>>
    BY <1>13 DEF Commit, Unwind, subvars, modvars
  <2>2. LeaseBehind'
    BY <2>1, Frame
  <2>3. \E res \in {"ok", "raised"} : Unwind(j, res)
    BY <1>13 DEF Commit
  <2>4. CASE ~CanCommit(j)
    <3>1. UNCHANGED <<state, commits, due, later, before, tok, old>>
      BY <1>13, <2>4 DEF Commit, jobvars
    <3> QED BY <2>1, <2>2, <2>3, <3>1, Frame, UnwindStep DEF TypeOK
  <2>5. CASE CanCommit(j)
    <3> DEFINE wrote == {b.sub : b \in batch[j]}
               base(s) == (CHOOSE b \in batch[j] : b.sub = s).base
    <3>1. /\ state' = [s \in Subs |->
                 IF s \in wrote THEN [rev |-> base(s) + 1, fence |-> lease[j]]
                                ELSE state[s]]
          /\ commits' = [s \in Subs |-> IF s \in wrote THEN commits[s] + 1
                                                       ELSE commits[s]]
          /\ Postpone(j)
          /\ SetTok(j, "free")
      BY <1>13, <2>5 DEF Commit
    <3>2. ASSUME NEW s \in wrote PROVE base(s) = state[s].rev
      <4>1. PICK b \in batch[j] : b.sub = s
        OBVIOUS
      <4>2. (CHOOSE c \in batch[j] : c.sub = s) \in batch[j]
            /\ (CHOOSE c \in batch[j] : c.sub = s).sub = s
        BY <4>1
      <4> QED BY <2>5, <4>2 DEF CanCommit, Unchanged
    <3>3. wrote \subseteq Subs
      BY DEF TypeOK, TasksTyped
    <3> HIDE DEF wrote, base
    <3>4. lease[j] \in Nat /\ \A s \in Subs : state[s].rev \in Nat /\ commits[s] \in Nat
      BY DEF TypeOK, TasksTyped, RowsTyped
    <3>5. ASSUME NEW s \in Subs, s \in wrote
          PROVE  /\ state'[s] = [rev |-> state[s].rev + 1, fence |-> lease[j]]
                 /\ state'[s].rev = state[s].rev + 1
                 /\ state'[s] \in [rev: Nat, fence: Nat]
                 /\ commits'[s] = commits[s] + 1
      <4>1. state'[s] = [rev |-> state[s].rev + 1, fence |-> lease[j]]
            /\ commits'[s] = commits[s] + 1
        BY <3>1, <3>2, <3>5
      <4> QED BY <3>4, <4>1
    <3>6. /\ state' \in [Subs -> [rev: Nat, fence: Nat]]
          /\ commits' \in [Subs -> Nat]
          /\ \A s \in Subs \ wrote : state'[s] = state[s] /\ commits'[s] = commits[s]
      <4>1. \A s \in Subs \ wrote : state'[s] = state[s] /\ commits'[s] = commits[s]
        BY <3>1
      <4>2. ASSUME NEW s \in Subs
            PROVE  state'[s] \in [rev: Nat, fence: Nat] /\ commits'[s] \in Nat
        <5>1. CASE s \in wrote
          <6>1. state'[s] \in [rev: Nat, fence: Nat]
            BY <3>5, <5>1
          <6>2. commits'[s] = commits[s] + 1
            BY <3>5, <5>1
          <6> QED BY <3>4, <6>1, <6>2
        <5>2. CASE s \notin wrote
          BY <3>4, <4>1, <5>2 DEF TypeOK, RowsTyped
        <5> QED BY <5>1, <5>2
      <4> QED BY <3>1, <4>1, <4>2
    <3>7. /\ \A k \in Jobs : tok'[k] = "run" => tok[k] = "run"
          /\ RowsTyped'
      BY <2>1, <3>1, <3>6 DEF SetTok, TypeOK, RowsTyped
    <3>8. JobsTyped'
      BY <3>1, Ordered DEF TypeOK
    <3>9. ActiveIsArmed'
      BY <2>1, <3>1 DEF ActiveIsArmed, Postpone
    <3>10. NoLostEvaluation'
      BY <3>4, <3>5, <3>6 DEF NoLostEvaluation
    <3>11. ASSUME NEW k \in Jobs, NEW b \in batch'[k] PROVE ReadingStands(k, b)'
      <4>1. b \in batch[k] /\ ReadingStands(k, b) /\ b.sub \in Subs /\ b.base \in Nat
        BY <2>1, <3>11 DEF Readings, TypeOK, TasksTyped
      <4>2. CASE b.sub \in wrote
        <5>1. state'[b.sub].rev = state[b.sub].rev + 1
          BY <3>5, <4>1, <4>2
        <5>2. b.base < state'[b.sub].rev
          BY <3>4, <4>1, <5>1 DEF ReadingStands
        <5>3. b.base <= state'[b.sub].rev /\ state'[b.sub].rev # b.base
          BY <3>4, <4>1, <5>1, <5>2
        <5> QED BY <2>1, <4>1, <5>3 DEF ReadingStands
      <4>3. CASE b.sub \notin wrote
        BY <2>1, <3>6, <4>1, <4>3 DEF ReadingStands
      <4> QED BY <4>2, <4>3
    <3>12. Readings'
      BY <3>11 DEF Readings
    <3>13. TasksTyped' /\ LeaseHasTask' /\ NothingReadEarly'
      BY <2>1, <2>3, <3>7, UnwindStep
    <3> QED BY <2>2, <3>7, <3>8, <3>9, <3>10, <3>12, <3>13 DEF TypeOK
  <2> QED BY <2>4, <2>5
<1>14. ASSUME NEW j \in Jobs, CommitFailed(j) PROVE Inv'
  <2>1. UNCHANGED <<sub, rev, grant, state, fence, intent, gate, mod, up, pump, page,
                    moves, faults, commits, lease, batch, clean>>
    BY <1>14 DEF CommitFailed, Unwind, subvars, modvars
  <2>2. NoLostEvaluation' /\ LeaseBehind' /\ Readings'
    BY <2>1, Frame
  <2>3. \E res \in {"ok", "raised"} : Unwind(j, res)
    BY <1>14 DEF CommitFailed
  <2>4. (UNCHANGED <<due, later, before, tok, old>>) \/ (Postpone(j) /\ SetTok(j, "free"))
    BY <1>14 DEF CommitFailed, jobvars
  <2>5. JobsTyped' /\ ActiveIsArmed'
    BY <2>1, <2>4, Frame, Ordered DEF TypeOK, ActiveIsArmed, Postpone
  <2>6. RowsTyped' /\ \A k \in Jobs : tok'[k] = "run" => tok[k] = "run"
    BY <2>1, <2>4 DEF SetTok, TypeOK, RowsTyped
  <2> QED BY <2>1, <2>2, <2>3, <2>5, <2>6, UnwindStep DEF TypeOK
<1>15. ASSUME NEW j \in Jobs, Defer(j) PROVE Inv'
  <2>1. UNCHANGED <<sub, rev, grant, state, fence, intent, gate, mod, up, pump, page,
                    moves, faults, commits, lease, batch, clean>>
    BY <1>15 DEF Defer, Unwind, subvars, modvars
  <2>2. NoLostEvaluation' /\ LeaseBehind' /\ Readings'
    BY <2>1, Frame
  <2>3. \E res \in {"ok", "raised"} : Unwind(j, res)
    BY <1>15 DEF Defer
  <2>4. (UNCHANGED <<due, later, before, tok, old>>) \/ (Postpone(j) /\ SetTok(j, "free"))
    BY <1>15 DEF Defer, jobvars
  <2>5. JobsTyped' /\ ActiveIsArmed'
    BY <2>1, <2>4, Frame, Ordered DEF TypeOK, ActiveIsArmed, Postpone
  <2>6. RowsTyped' /\ \A k \in Jobs : tok'[k] = "run" => tok[k] = "run"
    BY <2>1, <2>4 DEF SetTok, TypeOK, RowsTyped
  <2> QED BY <2>1, <2>2, <2>3, <2>5, <2>6, UnwindStep DEF TypeOK
<1>16. ASSUME NEW j \in Jobs, Release(j) PROVE Inv'
  <2>1. UNCHANGED <<sub, rev, grant, state, fence, intent, gate, mod, up, pump, page,
                    moves, faults, commits, due, later, before>>
    BY <1>16 DEF Release, jobvars, subvars, modvars
  <2>2. JobsTyped' /\ NoLostEvaluation' /\ ActiveIsArmed'
    BY <2>1, Frame
  <2>3. RowsTyped' /\ \A k \in Jobs : tok'[k] = "run" => tok[k] = "run" /\ k # j
    BY <1>16, <2>1 DEF Release, SetTok, TypeOK, RowsTyped
  <2>4. End(j, result[j]) /\ result[j] \in {"ok", "raised"}
    BY <1>16 DEF Release, TypeOK, TasksTyped
  <2> QED BY <2>1, <2>2, <2>3, <2>4, EndStep DEF TypeOK
<1>17. ASSUME NEW j \in Jobs, ReleaseFails(j) PROVE Inv'
  <2>1. UNCHANGED <<old, sub, rev, grant, state, fence, intent, gate, mod, up, pump, page,
                    moves, commits, due, later, before>>
    BY <1>17 DEF ReleaseFails, jobvars, subvars, modvars
  <2>2. JobsTyped' /\ NoLostEvaluation' /\ ActiveIsArmed'
    BY <2>1, Frame
  <2>3. RowsTyped' /\ \A k \in Jobs : tok'[k] = "run" => tok[k] = "run" /\ k # j
    BY <1>17, <2>1 DEF ReleaseFails, Fault, TypeOK, RowsTyped
  <2>4. End(j, result[j]) /\ result[j] \in {"ok", "raised"}
    BY <1>17 DEF ReleaseFails, TypeOK, TasksTyped
  <2> QED BY <2>1, <2>2, <2>3, <2>4, EndStep DEF TypeOK
<1>18. ASSUME NEW j \in Jobs, Cancel(j) PROVE Inv'
  <2>1. UNCHANGED <<tok, old, sub, rev, grant, state, fence, intent, gate, mod, up, pump,
                    page, moves, faults, commits, due, later, before>>
    BY <1>18 DEF Cancel, jobvars, subvars, modvars
  <2>2. JobsTyped' /\ RowsTyped' /\ NoLostEvaluation' /\ ActiveIsArmed'
    BY <2>1, Frame
  <2>3. CASE pc[j] \in Leased
    <3>1. Unwind(j, "raised")
      BY <1>18, <2>3 DEF Cancel
    <3>2. LeaseBehind' /\ Readings'
      BY <2>1, <3>1, Frame DEF Unwind
    <3> QED BY <2>1, <2>2, <3>1, <3>2, UnwindStep DEF TypeOK
  <2>4. CASE pc[j] \notin Leased
    <3>1. End(j, "raised") /\ tok[j] # "run"
      BY <1>18, <2>4 DEF Cancel, LeaseHasTask
    <3> QED BY <2>1, <2>2, <3>1, EndStep DEF TypeOK
  <2> QED BY <2>3, <2>4
<1>19. ASSUME NEW s \in Subs, Create(s) PROVE Inv'
  <2>1. TasksTyped' /\ LeaseHasTask' /\ NoLostEvaluation'
         /\ NothingReadEarly' /\ LeaseBehind'
    BY <1>19, Frame DEF Create, Move, Arm, modvars, taskvars, history, jobvars
  <2>2. JobsTyped'
    BY <1>19, Ordered DEF Create, Move, Arm, modvars, taskvars, history, jobvars,
       JobsTyped, TypeOK
  <2>3. RowsTyped'
    BY <1>19 DEF Create, Move, Arm, modvars, taskvars, history, jobvars, RowsTyped,
       TypeOK
  <2>4. ActiveIsArmed'
    BY <1>19 DEF Create, Move, Arm, modvars, taskvars, history, jobvars, ActiveIsArmed,
       TypeOK, RowsTyped, TasksTyped
  <2>5. Readings'
    BY <1>19 DEF Create, Move, Arm, modvars, taskvars, history, jobvars, Readings,
       ReadingStands, TypeOK, RowsTyped, TasksTyped
  <2> QED BY <2>1, <2>2, <2>3, <2>4, <2>5 DEF TypeOK
<1>20. ASSUME NEW s \in Subs, Revise(s) PROVE Inv'
  <2>1. LeaseHasTask' /\ NoLostEvaluation' /\ NothingReadEarly' /\ LeaseBehind'
    BY <1>20, Frame DEF Revise, Move, Arm, Touch, modvars, taskvars, jobvars
  <2>2. JobsTyped'
    BY <1>20, Ordered DEF Revise, Move, Arm, Touch, modvars, taskvars, jobvars,
       JobsTyped, TypeOK
  <2>3. RowsTyped'
    BY <1>20 DEF Revise, Move, Arm, Touch, modvars, taskvars, jobvars, RowsTyped,
       TypeOK
  <2>4. TasksTyped'
    BY <1>20 DEF Revise, Move, Arm, Touch, modvars, taskvars, jobvars, TasksTyped, PCs,
       Gated, Leased, TypeOK
  <2>5. ActiveIsArmed'
    BY <1>20 DEF Revise, Move, Arm, Touch, modvars, taskvars, jobvars, ActiveIsArmed,
       TypeOK, RowsTyped, TasksTyped
  <2>6. Readings'
    BY <1>20 DEF Revise, Move, Arm, Touch, modvars, taskvars, jobvars, Readings,
       ReadingStands, TypeOK, RowsTyped, TasksTyped
  <2> QED BY <2>1, <2>2, <2>3, <2>4, <2>5, <2>6 DEF TypeOK
<1>21. ASSUME NEW s \in Subs, CancelSub(s) PROVE Inv'
  <2>1. JobsTyped' /\ LeaseHasTask' /\ NoLostEvaluation'
         /\ NothingReadEarly' /\ LeaseBehind'
    BY <1>21, Frame DEF CancelSub, Move, Touch, jobvars, modvars, taskvars
  <2>2. RowsTyped'
    BY <1>21 DEF CancelSub, Move, Touch, jobvars, modvars, taskvars, RowsTyped, TypeOK
  <2>3. TasksTyped'
    BY <1>21 DEF CancelSub, Move, Touch, jobvars, modvars, taskvars, TasksTyped, PCs,
       Gated, Leased, TypeOK
  <2>4. ActiveIsArmed'
    BY <1>21 DEF CancelSub, Move, Touch, jobvars, modvars, taskvars, ActiveIsArmed,
       TypeOK, RowsTyped, TasksTyped
  <2>5. Readings'
    BY <1>21 DEF CancelSub, Move, Touch, jobvars, modvars, taskvars, Readings,
       ReadingStands, TypeOK, RowsTyped, TasksTyped
  <2> QED BY <2>1, <2>2, <2>3, <2>4, <2>5 DEF TypeOK
<1>22. ASSUME NEW j \in Jobs, RevokeGrant(j) PROVE Inv'
  <2>1. NoLostEvaluation' /\ NothingReadEarly' /\ LeaseBehind'
    BY <1>22, Frame DEF RevokeGrant, Move, LinkedTo, Touch, Disarm, SetTok, modvars,
       taskvars, Without
  <2>2. JobsTyped'
    BY <1>22, Ordered DEF RevokeGrant, Move, LinkedTo, Touch, Disarm, SetTok, modvars,
       taskvars, Without, JobsTyped, TypeOK
  <2>3. RowsTyped'
    BY <1>22 DEF RevokeGrant, Move, LinkedTo, Touch, Disarm, SetTok, modvars, taskvars,
       Without, RowsTyped, TypeOK
  <2>4. TasksTyped'
    BY <1>22 DEF RevokeGrant, Move, LinkedTo, Touch, Disarm, SetTok, modvars, taskvars,
       Without, TasksTyped, PCs, Gated, Leased, TypeOK
  <2>5. LeaseHasTask'
    BY <1>22 DEF RevokeGrant, Move, LinkedTo, Touch, Disarm, SetTok, modvars, taskvars,
       Without, LeaseHasTask, Leased, TypeOK, RowsTyped, TasksTyped
  <2>6. ActiveIsArmed'
    BY <1>22 DEF RevokeGrant, Move, LinkedTo, Touch, Disarm, SetTok, modvars, taskvars,
       Without, ActiveIsArmed, TypeOK, RowsTyped, TasksTyped
  <2>7. Readings'
    BY <1>22 DEF RevokeGrant, Move, LinkedTo, Touch, Disarm, SetTok, modvars, taskvars,
       Without, Readings, ReadingStands, TypeOK, RowsTyped, TasksTyped
  <2> QED BY <2>1, <2>2, <2>3, <2>4, <2>5, <2>6, <2>7 DEF TypeOK
<1>23. ASSUME NEW j \in Jobs, ExpireGrant(j) PROVE Inv'
  <2>1. JobsTyped' /\ TasksTyped' /\ LeaseHasTask' /\ NoLostEvaluation' /\ ActiveIsArmed'
         /\ NothingReadEarly' /\ LeaseBehind' /\ Readings'
    BY <1>23, Frame DEF ExpireGrant, jobvars, modvars, taskvars, history
  <2>2. RowsTyped'
    BY <1>23 DEF ExpireGrant, jobvars, modvars, taskvars, history, RowsTyped, TypeOK
  <2> QED BY <2>1, <2>2 DEF TypeOK
<1>24. ASSUME NEW m \in Modules, SwitchGate(m) PROVE Inv'
  <2>1. JobsTyped' /\ LeaseHasTask' /\ NoLostEvaluation' /\ ActiveIsArmed'
         /\ NothingReadEarly'
    BY <1>24, Frame DEF SwitchGate, jobvars, subvars, taskvars
  <2>2. /\ fence' \in [Modules -> Nat] /\ clean' \in [Jobs -> SUBSET Subs]
        /\ LeaseBehind' /\ Readings'
    BY <1>24, MoveFenceStep DEF SwitchGate, subvars, taskvars
  <2>3. /\ gate' \in [Modules -> BOOLEAN]
        /\ intent' \in [Modules -> BOOLEAN]
        /\ mod' \in [Modules -> {"active", "stopping", "stopped"}]
    BY <1>24 DEF SwitchGate, TypeOK, RowsTyped
  <2>4. moves' \in Nat
    BY <1>24 DEF SwitchGate, Move, TypeOK, RowsTyped
  <2>5. RowsTyped'
    BY <1>24, <2>2, <2>3, <2>4 DEF SwitchGate, subvars, TypeOK, RowsTyped
  <2>6. TasksTyped'
    BY <1>24, <2>2 DEF SwitchGate, taskvars, TypeOK, TasksTyped
  <2> QED BY <2>1, <2>2, <2>5, <2>6 DEF TypeOK
<1>25. ASSUME NEW m \in Modules, Quiesce(m) PROVE Inv'
  <2>1. JobsTyped' /\ LeaseHasTask' /\ NoLostEvaluation' /\ ActiveIsArmed'
         /\ NothingReadEarly' /\ LeaseBehind' /\ Readings'
    BY <1>25, Frame DEF Quiesce, Move, jobvars, subvars, history
  <2>2. RowsTyped'
    BY <1>25 DEF Quiesce, Move, jobvars, subvars, history, RowsTyped, TypeOK
  <2>3. TasksTyped'
    BY <1>25 DEF Quiesce, Move, jobvars, subvars, history, TasksTyped, PCs, Gated,
       Leased, TypeOK
  <2> QED BY <2>1, <2>2, <2>3 DEF TypeOK
<1>26. ASSUME NEW m \in Modules, CommitDisable(m) PROVE Inv'
  <2>1. JobsTyped' /\ LeaseHasTask' /\ NoLostEvaluation' /\ ActiveIsArmed'
         /\ NothingReadEarly'
    BY <1>26, Frame DEF CommitDisable, jobvars, subvars, taskvars
  <2>2. /\ fence' \in [Modules -> Nat] /\ clean' \in [Jobs -> SUBSET Subs]
        /\ LeaseBehind' /\ Readings'
    BY <1>26, MoveFenceStep DEF CommitDisable, subvars, taskvars
  <2>3. /\ gate' \in [Modules -> BOOLEAN]
        /\ intent' \in [Modules -> BOOLEAN]
        /\ mod' \in [Modules -> {"active", "stopping", "stopped"}]
    BY <1>26 DEF CommitDisable, TypeOK, RowsTyped
  <2>4. moves' \in Nat
    BY <1>26 DEF CommitDisable, Move, TypeOK, RowsTyped
  <2>5. RowsTyped'
    BY <1>26, <2>2, <2>3, <2>4 DEF CommitDisable, subvars, TypeOK, RowsTyped
  <2>6. TasksTyped'
    BY <1>26, <2>2 DEF CommitDisable, taskvars, TypeOK, TasksTyped
  <2> QED BY <2>1, <2>2, <2>5, <2>6 DEF TypeOK
<1>27. ASSUME NEW m \in Modules, Enable(m) PROVE Inv'
  <2>1. JobsTyped' /\ LeaseHasTask' /\ NoLostEvaluation' /\ ActiveIsArmed'
         /\ NothingReadEarly'
    BY <1>27, Frame DEF Enable, jobvars, subvars, taskvars
  <2>2. /\ fence' \in [Modules -> Nat] /\ clean' \in [Jobs -> SUBSET Subs]
        /\ LeaseBehind' /\ Readings'
    BY <1>27, MoveFenceStep DEF Enable, subvars, taskvars
  <2>3. /\ gate' \in [Modules -> BOOLEAN]
        /\ intent' \in [Modules -> BOOLEAN]
        /\ mod' \in [Modules -> {"active", "stopping", "stopped"}]
    BY <1>27 DEF Enable, TypeOK, RowsTyped
  <2>4. moves' \in Nat
    BY <1>27 DEF Enable, Move, TypeOK, RowsTyped
  <2>5. RowsTyped'
    BY <1>27, <2>2, <2>3, <2>4 DEF Enable, subvars, TypeOK, RowsTyped
  <2>6. TasksTyped'
    BY <1>27, <2>2 DEF Enable, taskvars, TypeOK, TasksTyped
  <2> QED BY <2>1, <2>2, <2>5, <2>6 DEF TypeOK
<1>28. ASSUME NEW j \in Jobs, BecomeDue(j) PROVE Inv'
  <2>1. RowsTyped' /\ TasksTyped' /\ LeaseHasTask' /\ NoLostEvaluation'
         /\ NothingReadEarly' /\ LeaseBehind' /\ Readings'
    BY <1>28, Frame DEF BecomeDue, subvars, modvars, taskvars, history
  <2>2. JobsTyped'
    BY <1>28 DEF BecomeDue, subvars, modvars, taskvars, history, JobsTyped, TypeOK
  <2>3. ActiveIsArmed'
    BY <1>28 DEF BecomeDue, subvars, modvars, taskvars, history, ActiveIsArmed, TypeOK,
       RowsTyped, TasksTyped
  <2> QED BY <2>1, <2>2, <2>3 DEF TypeOK
<1>29. ASSUME NEW j \in Jobs, ExpireLease(j) PROVE Inv'
  <2>1. JobsTyped' /\ TasksTyped' /\ LeaseHasTask' /\ NoLostEvaluation' /\ ActiveIsArmed'
         /\ NothingReadEarly' /\ LeaseBehind' /\ Readings'
    BY <1>29, Frame DEF ExpireLease, Fault, jobvars, subvars, modvars, taskvars, history
  <2>2. RowsTyped'
    BY <1>29 DEF ExpireLease, Fault, jobvars, subvars, modvars, taskvars, history,
       RowsTyped, TypeOK
  <2> QED BY <2>1, <2>2 DEF TypeOK
<1>30. CASE Crash
  <2>1. JobsTyped' /\ NoLostEvaluation' /\ ActiveIsArmed'
    BY <1>30, Frame DEF Crash, Fault, jobvars, subvars
  <2>2. RowsTyped'
    BY <1>30 DEF Crash, Fault, jobvars, subvars, RowsTyped, TypeOK
  <2>3. TasksTyped'
    BY <1>30 DEF Crash, Fault, jobvars, subvars, TasksTyped, PCs, Gated, Leased, TypeOK
  <2>4. LeaseHasTask'
    BY <1>30 DEF Crash, Fault, jobvars, subvars, LeaseHasTask, Leased, TypeOK,
       RowsTyped, TasksTyped
  <2>5. NothingReadEarly'
    BY <1>30 DEF Crash, Fault, jobvars, subvars, NothingReadEarly, Early, TypeOK,
       RowsTyped, TasksTyped
  <2>6. LeaseBehind'
    BY <1>30 DEF Crash, Fault, jobvars, subvars, LeaseBehind, TypeOK, RowsTyped,
       TasksTyped
  <2>7. Readings'
    BY <1>30 DEF Crash, Fault, jobvars, subvars, Readings, ReadingStands, TypeOK,
       RowsTyped, TasksTyped
  <2> QED BY <2>1, <2>2, <2>3, <2>4, <2>5, <2>6, <2>7 DEF TypeOK
<1>31. CASE Restart
  <2>1. JobsTyped' /\ LeaseHasTask' /\ NoLostEvaluation' /\ ActiveIsArmed'
         /\ NothingReadEarly' /\ LeaseBehind' /\ Readings'
    BY <1>31, Frame DEF Restart, jobvars, subvars, taskvars, history
  <2>2. RowsTyped'
    BY <1>31 DEF Restart, jobvars, subvars, taskvars, history, RowsTyped, TypeOK
  <2>3. TasksTyped'
    BY <1>31 DEF Restart, jobvars, subvars, taskvars, history, TasksTyped, PCs, Gated,
       Leased, TypeOK
  <2> QED BY <2>1, <2>2, <2>3 DEF TypeOK
<1>32. CASE UNCHANGED <<site, vars>>
  BY <1>32, Frame DEF vars, jobvars, subvars, modvars, taskvars, history, TypeOK
<1> QED BY <1>1, <1>2, <1>3, <1>4, <1>5, <1>6, <1>7, <1>8, <1>9, <1>10, <1>11, <1>12, <1>13,
     <1>14, <1>15, <1>16, <1>17, <1>18, <1>19, <1>20, <1>21, <1>22, <1>23, <1>24, <1>25,
     <1>26, <1>27, <1>28, <1>29, <1>30, <1>31, <1>32 DEF Next, Pump, Step, Halted

\* Every reachable state of the scheduler satisfies the inductive invariant.
LEMMA Invariant == Spec => []Inv
BY InitInv, InvStep, PTL DEF Spec

\* No evaluation is lost, no active subscription is without a collection to
\* come and no lease without the task that releases it, for any installation:
\* run_due_page, _execute_due and commit_observation_with_evaluations.
THEOREM CollectionSafe == Spec => []CollectionIsSafe
<1>1. Inv => CollectionIsSafe
  BY DEF Inv, CollectionIsSafe
<1> QED BY <1>1, Invariant, PTL

\* Commits.

\* Only a commit writes evaluation states.
LEMMA OnlyCommitsWrite ==
    ASSUME Next
    PROVE  UNCHANGED <<state, commits>> \/ \E j \in Jobs : Commit(j)
<1> USE DEF history
<1>1. CASE Pump \/ PumpFails
  BY <1>1 DEF Pump, PumpScan, PumpStart, PumpJoin, PumpFails
<1>2. ASSUME NEW j \in Jobs, Step(j) PROVE UNCHANGED <<state, commits>> \/ Commit(j)
  BY <1>2 DEF Step, Begin, EnterGlobal, EnterModule, Claim, Admit, Collect, Evaluated,
     CommitFailed, Defer, Release, Cancel, Evaluate
<1>3. ASSUME NEW j \in Jobs,
             ReleaseFails(j) \/ BecomeDue(j) \/ ExpireLease(j) \/ RevokeGrant(j)
               \/ ExpireGrant(j)
      PROVE  UNCHANGED <<state, commits>>
  BY <1>3 DEF ReleaseFails, BecomeDue, ExpireLease, RevokeGrant, ExpireGrant
<1>4. ASSUME NEW s \in Subs, Create(s) \/ Revise(s) \/ CancelSub(s)
      PROVE  UNCHANGED <<state, commits>>
  BY <1>4 DEF Create, Revise, CancelSub
<1>5. ASSUME NEW m \in Modules,
             SwitchGate(m) \/ Quiesce(m) \/ CommitDisable(m) \/ Enable(m)
      PROVE  UNCHANGED <<state, commits>>
  BY <1>5 DEF SwitchGate, Quiesce, CommitDisable, Enable
<1>6. CASE Crash \/ Restart \/ Halted
  BY <1>6 DEF Crash, Restart, Halted, vars
<1> QED BY <1>1, <1>2, <1>3, <1>4, <1>5, <1>6 DEF Next

\* A commit includes a subscription only if the task has read it and nothing has
\* changed since.
LEMMA CommitReads ==
    ASSUME Inv, NEW j \in Jobs, Commit(j), NEW s \in Subs,
           ~ (state'[s] = state[s] /\ commits'[s] = commits[s])
    PROVE  /\ RowCurrent(j)
           /\ pc[j] = "commit" /\ pc'[j] = "release"
           /\ \E b \in batch[j] : b.sub = s /\ Unchanged(b)
           /\ state'[s].fence = lease[j]
<1>1. pc[j] = "commit" /\ pc'[j] = "release"
  BY DEF Inv, TypeOK, TasksTyped, Commit, Unwind, Goto
<1>2. CanCommit(j)
  BY DEF Commit
<1>3. s \in {b.sub : b \in batch[j]}
  BY <1>2 DEF Commit
<1>4. \E b \in batch[j] : b.sub = s /\ Unchanged(b)
  BY <1>2, <1>3 DEF CanCommit
<1>5. state'[s].fence = lease[j]
  BY <1>2, <1>3 DEF Commit
<1> QED BY <1>1, <1>2, <1>4, <1>5 DEF CanCommit

\* What commit_observation_with_evaluations writes was read by the task, under a
\* lease that still stands, and neither the subscription nor the fence of the
\* module has moved since; a projection onto another job's subscription never
\* writes its first state under a fence.
THEOREM CommitsAreSound == Spec => CommitsStand
<1> DEFINE Read(s) == \E j \in Jobs :
               /\ pc[j] = "commit" /\ pc'[j] = "release"
               /\ s \in clean[j]
               /\ tok[j] = "run"
               /\ j \notin old
           Own(s) == pc[JobOf[s]] = "commit" /\ pc'[JobOf[s]] = "release"
<1>1. ASSUME Inv, [Next /\ UNCHANGED site]_<<site, vars>>, NEW s \in Subs,
             ~ (state'[s] = state[s] /\ commits'[s] = commits[s])
      PROVE  Read(s) /\ (state'[s].fence # state[s].fence => Own(s))
  <2>1. PICK j \in Jobs : Commit(j)
    BY <1>1, OnlyCommitsWrite DEF vars, history
  <2>2. PICK b \in batch[j] : b.sub = s /\ Unchanged(b)
    BY <1>1, <2>1, CommitReads
  <2>3. RowCurrent(j) /\ pc[j] = "commit" /\ pc'[j] = "release"
        /\ state'[s].fence = lease[j]
    BY <1>1, <2>1, CommitReads
  <2>4. ReadingStands(j, b)
    BY <1>1, <2>2 DEF Inv, Readings
  <2>5. s \in clean[j]
    BY <2>2, <2>3, <2>4 DEF ReadingStands, Unchanged, RowCurrent
  <2>6. Read(s)
    BY <2>3, <2>5 DEF RowCurrent
  <2>7. CASE JobOf[s] = j
    BY <2>3, <2>6, <2>7
  <2>8. CASE JobOf[s] # j
    BY <2>2, <2>3, <2>4, <2>6, <2>8 DEF ReadingStands, Unchanged
  <2> QED BY <2>7, <2>8
<1>2. Inv /\ [Next /\ UNCHANGED site]_<<site, vars>>
        => [\A s \in Subs : commits'[s] # commits[s] => Read(s)]_vars
  BY <1>1
<1>3. Inv /\ [Next /\ UNCHANGED site]_<<site, vars>>
        => [\A s \in Subs : state'[s].fence # state[s].fence => Own(s)]_vars
  BY <1>1
<1>4. Spec => CommitsAreCurrent
  BY <1>2, Invariant, PTL DEF Spec, CommitsAreCurrent
<1>5. Spec => OwnBaseline
  BY <1>3, Invariant, PTL DEF Spec, OwnBaseline
<1> QED BY <1>4, <1>5 DEF CommitsStand
=============================================================================
