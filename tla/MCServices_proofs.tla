-------------------------- MODULE MCServices_proofs --------------------------
(***************************************************************************)
(* Proofs about the services a module's invocation may call, for every     *)
(* value of their constants.  Each service has an inductive invariant and  *)
(* two lemmas, that its initial states satisfy the invariant and that its  *)
(* steps keep it; the theorems carry them over to MCSpec, the              *)
(* specification of the run, where one service moves and the others have   *)
(* no state.                                                               *)
(***************************************************************************)
EXTENDS MCServices, FiniteSetTheorems, TLAPS

\* DurableJobs: one run per job.  A run that may still act on its job is
\* the one the tables of the service name for it, so a job that is not
\* busy has none; and a running row carries the token of such a run, of
\* its own attempt.

Statuses == {"none", "queued", "running", "succeeded", "failed", "cancelled", "interrupted"}
RunPcs == {"unborn", "created", "body", "cleanup", "settle", "done"}

JobsTyped ==
    /\ jobs \in [Jobs -> [status: Statuses, token: Nat, attempt: Nat, results: SUBSET Nat]]
    /\ \A t \in Runs : runs[t].pc \in {"created", "body", "cleanup", "settle"}
                         => runs[t].job \in Jobs
    /\ runs \in [Runs -> [job: Jobs \cup {"none"}, attempt: Nat, pc: RunPcs,
                          cancelled: BOOLEAN]]
    /\ tasks \in [Jobs -> Nat]
    /\ settling \in [Jobs -> Nat]

\* A run is the one the tables name, until it is done.
RunsTracked ==
    \A t \in Runs :
        /\ runs[t].pc \in {"created", "body", "cleanup"} => tasks[runs[t].job] = t
        /\ runs[t].pc = "settle" => settling[runs[t].job] = t

\* A running row has a live run, of its own attempt.
RunningIsOwned ==
    \A j \in Jobs : jobs[j].status = "running" /\ up # "down" =>
        /\ up # "recovered"
        /\ jobs[j].token \in Runs
        /\ runs[jobs[j].token].job = j
        /\ runs[jobs[j].token].pc \in {"created", "body", "settle"}
        /\ runs[jobs[j].token].attempt = jobs[j].attempt

JobsInv ==
    JobsTyped /\ RunsTracked /\ OneRunPerJob /\ RunningIsOwned /\ ResultsOfOneAttempt

\* The empty table satisfies the invariant.
LEMMA JobsInitInv == JobsInit => JobsInv
<1> SUFFICES ASSUME JobsInit PROVE JobsInv
  OBVIOUS
<1> USE DEF JobsInit, NoRow, NoRun, NoneOf
<1>1. JobsTyped
  BY DEF JobsTyped, Statuses, RunPcs
<1>2. RunsTracked /\ OneRunPerJob
  BY DEF RunsTracked, OneRunPerJob
<1>3. RunningIsOwned /\ ResultsOfOneAttempt
  BY DEF RunningIsOwned, ResultsOfOneAttempt
<1> QED BY <1>1, <1>2, <1>3 DEF JobsInv

\* A part of the invariant holds as long as nobody touches its variables.
LEMMA JobsFrame ==
    ASSUME JobsInv
    PROVE  /\ UNCHANGED <<jobs, runs, tasks, settling>> => JobsTyped'
           /\ UNCHANGED <<runs, tasks, settling>> => RunsTracked'
           /\ UNCHANGED runs => OneRunPerJob'
           /\ UNCHANGED <<jobs, runs, up>> => RunningIsOwned'
           /\ UNCHANGED jobs => ResultsOfOneAttempt'
<1> USE DEF JobsInv
<1>1. UNCHANGED <<jobs, runs, tasks, settling>> => JobsTyped'
  BY DEF JobsTyped
<1>2. UNCHANGED <<runs, tasks, settling>> => RunsTracked'
  BY DEF RunsTracked
<1>3. UNCHANGED runs => OneRunPerJob'
  BY DEF OneRunPerJob
<1>4. UNCHANGED <<jobs, runs, up>> => RunningIsOwned'
  BY DEF RunningIsOwned
<1>5. UNCHANGED jobs => ResultsOfOneAttempt'
  BY DEF ResultsOfOneAttempt
<1> QED BY <1>1, <1>2, <1>3, <1>4, <1>5

\* A row that changes its status and its token is a row.
LEMMA RowChanges ==
    ASSUME JobsTyped, NEW j \in Jobs, NEW s \in Statuses, NEW t \in Nat
    PROVE  [jobs EXCEPT ![j].status = s, ![j].token = t]
             \in [Jobs -> [status: Statuses, token: Nat, attempt: Nat, results: SUBSET Nat]]
BY ZenonT(60) DEF JobsTyped

\* What ends a run leaves every other row alone, and its own row is no longer
\* running.
LEMMA FinishedRows ==
    ASSUME JobsInv, NEW t \in Runs, runs[t].job \in Jobs,
           NEW status \in Statuses \ {"running"}
    PROVE  /\ Finished(t, status) \in
                [Jobs -> [status: Statuses, token: Nat, attempt: Nat, results: SUBSET Nat]]
           /\ \A j \in Jobs :
                /\ Finished(t, status)[j].attempt = jobs[j].attempt
                /\ Finished(t, status)[j].results = jobs[j].results
                /\ Finished(t, status)[j].status = "running" =>
                      /\ Finished(t, status)[j] = jobs[j]
                      /\ runs[t].job = j => jobs[j].token # t
<1> USE DEF JobsInv, JobsTyped
<1>1. CASE Owns(t)
  BY <1>1, SMTT(40) DEF Finished, Statuses
<1>2. CASE ~Owns(t)
  BY <1>2 DEF Finished, Owns
<1> QED BY <1>1, <1>2

\* Owners, the driver, the runs, close and restart keep the invariant.
LEMMA JobsStep == JobsInv /\ [JobsNext]_jobVars => JobsInv'
<1> SUFFICES ASSUME JobsInv, [JobsNext]_jobVars PROVE JobsInv'
  OBVIOUS
<1> USE DEF JobsInv
<1>1. ASSUME NEW j \in Jobs, Submit(j) \/ Retry(j) \/ Expire(j) PROVE JobsInv'
  <2>1. RunsTracked' /\ OneRunPerJob'
    BY <1>1, JobsFrame DEF Submit, Retry, Expire
  <2>2. UNCHANGED <<up, runs, tasks, settling>>
    BY <1>1 DEF Submit, Retry, Expire
  <2>3. PICK row \in [status: {"none", "queued"}, token: {0}, attempt: Nat, results: {{}}] :
           jobs' = [jobs EXCEPT ![j] = row]
    <3> DEFINE Rows == [status: {"none", "queued"}, token: {0}, attempt: Nat, results: {{}}]
    <3>1. jobs[j].attempt + 1 \in Nat
      BY DEF JobsTyped
    <3>2. ASSUME NEW n \in Nat
          PROVE  [NoRow EXCEPT !.status = "queued", !.attempt = n] \in Rows
      BY DEF NoRow
    <3>3. NoRow \in Rows
      BY DEF NoRow
    <3> SUFFICES \E row \in Rows : jobs' = [jobs EXCEPT ![j] = row]
      OBVIOUS
    <3> HIDE DEF Rows
    <3>4. CASE Submit(j)
      BY <3>2, <3>4 DEF Submit
    <3>5. CASE Retry(j)
      BY <3>1, <3>2, <3>5 DEF Retry
    <3>6. CASE Expire(j)
      BY <3>3, <3>6 DEF Expire
    <3> QED BY <1>1, <3>4, <3>5, <3>6
  <2>4. row \in [status: Statuses, token: Nat, attempt: Nat, results: SUBSET Nat]
    BY DEF Statuses
  <2>5. JobsTyped'
    BY <2>2, <2>3, <2>4 DEF JobsTyped
  <2>6. RunningIsOwned' /\ ResultsOfOneAttempt'
    BY <2>2, <2>3 DEF JobsTyped, RunningIsOwned, ResultsOfOneAttempt
  <2> QED BY <2>1, <2>5, <2>6
<1>2. ASSUME NEW j \in Jobs, Cancel(j) PROVE JobsInv'
  <2>1. \A t \in Runs : /\ runs'[t].job = runs[t].job /\ runs'[t].pc = runs[t].pc
                        /\ runs'[t].attempt = runs[t].attempt
    BY <1>2 DEF Cancel, JobsTyped
  <2>2. JobsTyped'
    <3>1. jobs' \in [Jobs -> [status: Statuses, token: Nat, attempt: Nat, results: SUBSET Nat]]
      BY <1>2, RowChanges DEF Cancel, Statuses
    <3>2. runs' \in [Runs -> [job: Jobs \cup {"none"}, attempt: Nat, pc: RunPcs,
                              cancelled: BOOLEAN]]
      <4>1. ASSUME NEW t \in Runs
            PROVE  runs'[t] \in [job: Jobs \cup {"none"}, attempt: Nat, pc: RunPcs,
                                 cancelled: BOOLEAN]
        <5>1. runs[t] \in [job: Jobs \cup {"none"}, attempt: Nat, pc: RunPcs, cancelled: BOOLEAN]
          BY DEF JobsTyped
        <5>2. runs'[t] \in {runs[t], [runs[t] EXCEPT !.cancelled = TRUE]}
          BY <1>2 DEF Cancel
        <5> QED BY <5>1, <5>2
      <4> QED BY <1>2, <4>1 DEF Cancel
    <3> QED BY <1>2, <2>1, <3>1, <3>2 DEF Cancel, JobsTyped
  <2>3. RunsTracked' /\ OneRunPerJob'
    BY <1>2, <2>1 DEF Cancel, RunsTracked, OneRunPerJob
  <2>4. RunningIsOwned'
    BY <1>2, <2>1 DEF Cancel, RunningIsOwned, JobsTyped
  <2>5. ResultsOfOneAttempt'
    BY <1>2 DEF Cancel, JobsTyped, ResultsOfOneAttempt
  <2> QED BY <2>2, <2>3, <2>4, <2>5
<1>3. CASE DriverLists \/ DriverEnds \/ ModuleSwitches
  BY <1>3, JobsFrame DEF DriverLists, DriverEnds, ModuleSwitches
<1>4. ASSUME NEW j \in Jobs, DriverTakes(j) PROVE JobsInv'
  <2>1. CASE UNCHANGED <<jobs, runs, tasks>>
    BY <1>4, <2>1, JobsFrame DEF DriverTakes
  <2>2. CASE jobs' = [jobs EXCEPT ![j].status = "failed"] /\ UNCHANGED <<runs, tasks>>
    <3>1. RunsTracked' /\ OneRunPerJob'
      BY <1>4, <2>2, JobsFrame DEF DriverTakes
    <3>2. UNCHANGED <<up, settling>>
      BY <1>4 DEF DriverTakes
    <3>3. JobsTyped'
      BY <2>2, <3>2, ZenonT(60) DEF JobsTyped, Statuses
    <3>4. RunningIsOwned' /\ ResultsOfOneAttempt'
      BY <2>2, <3>2 DEF JobsTyped, RunningIsOwned, ResultsOfOneAttempt
    <3> QED BY <3>1, <3>3, <3>4
  <2>3. ASSUME NEW t \in Runs, NextRun(t), j \notin Busy, jobs[j].status = "queued",
               jobs' = [jobs EXCEPT ![j].status = "running", ![j].token = t],
               runs' = [runs EXCEPT ![t] = [NoRun EXCEPT !.job = j, !.pc = "created",
                                                         !.attempt = jobs[j].attempt]],
               tasks' = [tasks EXCEPT ![j] = t]
        PROVE  JobsInv'
    <3>1. up = "up" /\ UNCHANGED <<up, settling>>
      BY <1>4 DEF DriverTakes
    <3>2. tasks[j] = 0 /\ settling[j] = 0 /\ t # 0 /\ 0 \notin Runs /\ t \in Nat
      BY <2>3 DEF Busy, Runs
    <3>3. \A u \in Runs : runs[u].pc \in {"created", "body", "cleanup", "settle"}
                             => runs[u].job # j /\ u # t
      BY <2>3, <3>2 DEF RunsTracked, NextRun
    <3>4. /\ runs'[t].job = j /\ runs'[t].pc = "created" /\ runs'[t].attempt = jobs[j].attempt
          /\ \A u \in Runs : u # t => runs'[u] = runs[u]
      BY <2>3 DEF JobsTyped, NoRun
    <3>5. JobsTyped'
      <4>1. jobs' \in [Jobs -> [status: Statuses, token: Nat, attempt: Nat,
                                results: SUBSET Nat]]
        BY <2>3, <3>2, RowChanges DEF Statuses
      <4>2. [NoRun EXCEPT !.job = j, !.pc = "created", !.attempt = jobs[j].attempt]
              \in [job: Jobs \cup {"none"}, attempt: Nat, pc: RunPcs, cancelled: BOOLEAN]
        BY DEF JobsTyped, NoRun, RunPcs
      <4>3. runs' \in [Runs -> [job: Jobs \cup {"none"}, attempt: Nat, pc: RunPcs,
                                cancelled: BOOLEAN]]
        BY <2>3, <4>2 DEF JobsTyped
      <4>4. tasks' \in [Jobs -> Nat]
        BY <2>3, <3>2 DEF JobsTyped
      <4> QED BY <3>1, <3>4, <4>1, <4>3, <4>4 DEF JobsTyped
    <3>6. RunsTracked'
      BY <2>3, <3>1, <3>3, <3>4 DEF RunsTracked, JobsTyped
    <3>7. OneRunPerJob'
      BY <3>3, <3>4 DEF OneRunPerJob
    <3>8. RunningIsOwned'
      BY <2>3, <3>1, <3>3, <3>4 DEF RunningIsOwned, JobsTyped
    <3>9. ResultsOfOneAttempt'
      BY <2>3 DEF JobsTyped, ResultsOfOneAttempt
    <3> QED BY <3>5, <3>6, <3>7, <3>8, <3>9
  <2> QED BY <1>4, <2>1, <2>2, <2>3 DEF DriverTakes, Skippable
<1>5. ASSUME NEW t \in Runs, RunStarts(t) PROVE JobsInv'
  <2>1. runs[t].job \in Jobs
    BY <1>5 DEF RunStarts, JobsTyped
  <2>2. UNCHANGED <<up, tasks, settling>>
    BY <1>5 DEF RunStarts
  <2>3. CASE runs' = [runs EXCEPT ![t].pc = "body"] /\ UNCHANGED jobs
    <3>1. JobsTyped'
      BY <2>1, <2>2, <2>3 DEF JobsTyped, RunPcs
    <3>2. RunsTracked' /\ OneRunPerJob'
      BY <1>5, <2>2, <2>3 DEF RunStarts, RunsTracked, OneRunPerJob, JobsTyped
    <3>3. RunningIsOwned' /\ ResultsOfOneAttempt'
      BY <1>5, <2>2, <2>3 DEF RunStarts, RunningIsOwned, ResultsOfOneAttempt, JobsTyped
    <3> QED BY <3>1, <3>2, <3>3
  <2>4. CASE runs' = [runs EXCEPT ![t].pc = "cleanup"] /\ jobs' = Finished(t, "failed")
    <3>1. JobsTyped'
      BY <2>1, <2>2, <2>4, FinishedRows DEF JobsTyped, RunPcs, Statuses
    <3>2. RunsTracked' /\ OneRunPerJob'
      BY <1>5, <2>2, <2>4 DEF RunStarts, RunsTracked, OneRunPerJob, JobsTyped
    <3>3. RunningIsOwned'
      BY <2>1, <2>2, <2>4, FinishedRows DEF RunningIsOwned, JobsTyped, Statuses
    <3>4. ResultsOfOneAttempt'
      BY <2>1, <2>4, FinishedRows DEF ResultsOfOneAttempt, Statuses
    <3> QED BY <3>1, <3>2, <3>3, <3>4
  <2> QED BY <1>5, <2>3, <2>4 DEF RunStarts
<1>6. ASSUME NEW t \in Runs, RunDropped(t) PROVE JobsInv'
  <2>1. runs[t].job \in Jobs /\ tasks[runs[t].job] = t /\ t \in Nat
    BY <1>6 DEF RunDropped, JobsTyped, RunsTracked, Runs
  <2>2. ASSUME NEW u \in Runs, u # t,
               runs[u].pc \in {"created", "body", "cleanup", "settle"}
        PROVE  runs[u].job # runs[t].job
    BY <1>6, <2>2 DEF RunDropped, OneRunPerJob
  <2>3. JobsTyped'
    BY <1>6, <2>1 DEF RunDropped, JobsTyped, RunPcs
  <2>4. RunsTracked' /\ OneRunPerJob'
    BY <1>6, <2>1, <2>2 DEF RunDropped, RunsTracked, OneRunPerJob, JobsTyped
  <2>5. RunningIsOwned' /\ ResultsOfOneAttempt'
    BY <1>6 DEF RunDropped, RunningIsOwned, ResultsOfOneAttempt, JobsTyped
  <2> QED BY <2>3, <2>4, <2>5
<1>7. ASSUME NEW t \in Runs, RunSettled(t) PROVE JobsInv'
  <2>1. runs[t].job \in Jobs
    BY <1>7 DEF RunSettled, JobsTyped
  <2>2. /\ jobs' = Finished(t, "interrupted") /\ runs' = [runs EXCEPT ![t].pc = "done"]
        /\ settling' = [settling EXCEPT ![runs[t].job] = IF @ = t THEN 0 ELSE @]
        /\ UNCHANGED <<up, tasks>>
    BY <1>7 DEF RunSettled
  <2>3. JobsTyped'
    <3>1. jobs' \in [Jobs -> [status: Statuses, token: Nat, attempt: Nat, results: SUBSET Nat]]
      BY <2>1, <2>2, FinishedRows DEF Statuses
    <3>2. settling' \in [Jobs -> Nat]
      BY <2>1, <2>2 DEF JobsTyped
    <3> QED BY <2>2, <3>1, <3>2 DEF JobsTyped, RunPcs
  <2>4. RunsTracked' /\ OneRunPerJob'
    BY <2>1, <2>2 DEF RunsTracked, OneRunPerJob, JobsTyped
  <2>5. RunningIsOwned'
    BY <2>1, <2>2, FinishedRows DEF RunningIsOwned, JobsTyped, Statuses
  <2>6. ResultsOfOneAttempt'
    BY <2>1, <2>2, FinishedRows DEF ResultsOfOneAttempt, Statuses
  <2> QED BY <2>3, <2>4, <2>5, <2>6
<1>8. ASSUME NEW t \in Runs, RunPublishes(t) PROVE JobsInv'
  <2>1. runs[t].job \in Jobs /\ runs[t].attempt \in Nat /\ Owns(t) /\ up = "up"
    BY <1>8 DEF RunPublishes, JobsTyped, Publishable
  <2>2. jobs[runs[t].job].attempt = runs[t].attempt
    BY <2>1 DEF Owns, RunningIsOwned
  <2>3. RunsTracked' /\ OneRunPerJob'
    BY <1>8, JobsFrame DEF RunPublishes
  <2>4. JobsTyped'
    BY <1>8, <2>1 DEF RunPublishes, JobsTyped
  <2>5. RunningIsOwned'
    BY <1>8, <2>1 DEF RunPublishes, RunningIsOwned, JobsTyped
  <2>6. ResultsOfOneAttempt'
    BY <1>8, <2>1, <2>2 DEF RunPublishes, ResultsOfOneAttempt, JobsTyped
  <2> QED BY <2>3, <2>4, <2>5, <2>6
<1>9. ASSUME NEW t \in Runs, RunEnds(t) PROVE JobsInv'
  <2>1. runs[t].job \in Jobs
    BY <1>9 DEF RunEnds, JobsTyped
  <2>2. runs' = [runs EXCEPT ![t].pc = "cleanup"] /\ UNCHANGED <<up, tasks, settling>>
    BY <1>9 DEF RunEnds
  <2>3. PICK status \in Statuses \ {"running"} : jobs' = Finished(t, status)
    BY <1>9 DEF RunEnds, Statuses
  <2>4. JobsTyped'
    BY <2>1, <2>2, <2>3, FinishedRows, SMTT(40) DEF JobsTyped, RunPcs
  <2>5. RunsTracked' /\ OneRunPerJob'
    BY <1>9, <2>2 DEF RunEnds, RunsTracked, OneRunPerJob, JobsTyped
  <2>6. RunningIsOwned'
    BY <2>1, <2>2, <2>3, FinishedRows DEF RunningIsOwned, JobsTyped
  <2>7. ResultsOfOneAttempt'
    BY <2>1, <2>3, FinishedRows DEF ResultsOfOneAttempt
  <2> QED BY <2>4, <2>5, <2>6, <2>7
<1>10. ASSUME NEW t \in Runs, RunLeaves(t) PROVE JobsInv'
  <2>1. runs[t].job \in Jobs
    BY <1>10 DEF RunLeaves, JobsTyped
  <2>2. JobsTyped'
    BY <1>10, <2>1 DEF RunLeaves, JobsTyped, RunPcs
  <2>3. RunsTracked' /\ OneRunPerJob'
    BY <1>10, <2>1 DEF RunLeaves, RunsTracked, OneRunPerJob, JobsTyped
  <2>4. RunningIsOwned' /\ ResultsOfOneAttempt'
    BY <1>10 DEF RunLeaves, RunningIsOwned, ResultsOfOneAttempt, JobsTyped
  <2> QED BY <2>2, <2>3, <2>4
<1>11. CASE StopAccepting
  <2>1. \A t \in Runs : /\ runs'[t].job = runs[t].job /\ runs'[t].pc = runs[t].pc
                        /\ runs'[t].attempt = runs[t].attempt
    BY <1>11 DEF StopAccepting, JobsTyped
  <2>2. JobsTyped'
    BY <1>11, ZenonT(60) DEF StopAccepting, JobsTyped
  <2>3. RunsTracked' /\ OneRunPerJob' /\ RunningIsOwned' /\ ResultsOfOneAttempt'
    BY <1>11, <2>1 DEF StopAccepting, RunsTracked, OneRunPerJob, RunningIsOwned,
       ResultsOfOneAttempt
  <2> QED BY <2>2, <2>3
<1>12. CASE CloseRecovers \/ JobsStart
  <2>1. jobs' = Recovered /\ UNCHANGED <<runs, tasks, settling>>
    BY <1>12 DEF CloseRecovers, JobsStart, AtStart
  <2>2. /\ \A j \in Jobs : Recovered[j].status # "running"
        /\ \A j \in Jobs : /\ Recovered[j].attempt = jobs[j].attempt
                           /\ Recovered[j].results = jobs[j].results
        /\ Recovered \in
             [Jobs -> [status: Statuses, token: Nat, attempt: Nat, results: SUBSET Nat]]
    BY ZenonT(60) DEF Recovered, JobsTyped, Statuses
  <2>3. JobsTyped' /\ RunsTracked' /\ OneRunPerJob'
    BY <2>1, <2>2, JobsFrame DEF JobsTyped
  <2>4. RunningIsOwned' /\ ResultsOfOneAttempt'
    BY <2>1, <2>2 DEF RunningIsOwned, ResultsOfOneAttempt
  <2> QED BY <2>3, <2>4
<1>13. CASE JobsCrash
  <2>1. JobsTyped'
    BY <1>13 DEF JobsCrash, JobsTyped, NoRun, NoneOf, RunPcs
  <2>2. RunsTracked' /\ OneRunPerJob'
    BY <1>13 DEF JobsCrash, RunsTracked, OneRunPerJob, NoRun
  <2>3. RunningIsOwned' /\ ResultsOfOneAttempt'
    BY <1>13 DEF JobsCrash, RunningIsOwned, ResultsOfOneAttempt
  <2> QED BY <2>1, <2>2, <2>3
<1>14. CASE UNCHANGED jobVars
  BY <1>14, JobsFrame DEF jobVars
<1> QED BY <1>1, <1>2, <1>3, <1>4, <1>5, <1>6, <1>7, <1>8, <1>9, <1>10, <1>11, <1>12, <1>13,
     <1>14 DEF JobsNext

\* SQLiteJobRepository and JobsService, for any number of jobs, runs and attempts:
\* one run per job, results of one attempt only, and no row left running.
THEOREM JobsOwned == MCSpec => []JobsAreOwned
<1> DEFINE Kept == service = "jobs" => JobsInv
<1>1. MCInit => Kept
  BY JobsInitInv DEF MCInit
<1>2. Kept /\ [MCNext]_<<service, bindVars, cacheVars, jobVars, serviceVars, migrationVars>>
        => Kept'
  BY JobsStep DEF MCNext
<1>3. Kept => JobsAreOwned
  BY DEF JobsAreOwned, JobsInv, RunningIsOwned, RunningHasRun
<1> QED BY <1>1, <1>2, <1>3, PTL DEF MCSpec

\* AccountBindings: one principal.  The row of an actor is written once,
\* so a command that has resolved its scope holds the principal that every
\* later command of the actor resolves to.

EarlyPcs == {"idle", "save", "raced", "publish", "scope"}
ScopedPcs == {"ready", "bind", "replace", "unbind", "bind_write", "replace_write",
              "unbind_write"}

CommandRow == [pc: EarlyPcs \cup ScopedPcs, who: BindTasks \cup {None},
               route: Routes \cup {None}, obj: Objects \cup {None},
               bid: Nat, rev: Nat, seen: Nat]

BindTyped ==
    /\ principals \in BindTasks \cup {None}
    /\ identities \in [Objects -> BindTasks \cup {None}]
    /\ \A b \in DOMAIN bindings :
          bindings[b] \in [owner: BindTasks, object: Objects \cup {None}, rev: Nat]
    /\ minted \in Nat
    /\ chosen \in [id: Nat, rev: Nat]
    /\ command \in [BindTasks -> CommandRow]

\* A command past its scope acts for the principal of the actor.
ScopedKnowsOwner ==
    \A t \in BindTasks :
        command[t].pc \in ScopedPcs => command[t].who = principals /\ principals # None

BindInv == BindTyped /\ ScopedKnowsOwner /\ OwnerKeepsBindings

USE DEF CommandRow

\* Before the first message nothing is stored.
LEMMA BindInitInv == BindInit => BindInv
<1> SUFFICES ASSUME BindInit PROVE BindInv
  OBVIOUS
<1> USE DEF BindInit, NoCommand, NoDefault
<1>1. DOMAIN bindings = {}
  OBVIOUS
<1>2. BindTyped
  BY <1>1 DEF BindTyped, EarlyPcs
<1>3. ScopedKnowsOwner /\ OwnerKeepsBindings
  BY <1>1 DEF ScopedKnowsOwner, OwnerKeepsBindings, ScopedPcs
<1> QED BY <1>2, <1>3 DEF BindInv

\* A command that ends knows nothing any more.
LEMMA CommandStops ==
    ASSUME BindInv, NEW t \in BindTasks, Stops(t), UNCHANGED principals
    PROVE  /\ command' \in [BindTasks -> CommandRow]
           /\ ScopedKnowsOwner'
<1> USE DEF BindInv, BindTyped, Stops
<1>1. NoCommand \in CommandRow
      /\ NoCommand.pc \notin ScopedPcs
  BY DEF NoCommand, EarlyPcs, ScopedPcs
<1>2. ScopedKnowsOwner'
  BY <1>1 DEF ScopedKnowsOwner
<1> QED BY <1>1, <1>2

\* A command past its scope goes on for the same principal.
LEMMA CommandGoes ==
    ASSUME BindInv, NEW t \in BindTasks, NEW c, UNCHANGED principals,
           command' = [command EXCEPT ![t] = c],
           c \in CommandRow,
           c.who = command[t].who, command[t].pc \in ScopedPcs
    PROVE  /\ command' \in [BindTasks -> CommandRow]
           /\ ScopedKnowsOwner'
<1>1. command \in [BindTasks -> CommandRow]
  BY DEF BindInv, BindTyped
<1>2. \A u \in BindTasks : command'[u] = IF u = t THEN c ELSE command[u]
  BY <1>1
<1>3. ScopedKnowsOwner'
  BY <1>2 DEF BindInv, ScopedKnowsOwner
<1> QED BY <1>1, <1>3

\* Ingress, identities and binding operations keep the invariant, however their
\* commands interleave.
LEMMA BindStep == BindInv /\ [BindNext]_bindVars => BindInv'
<1> SUFFICES ASSUME BindInv, [BindNext]_bindVars PROVE BindInv'
  OBVIOUS
<1> USE BindAssumption DEF BindInv
<1>1. ASSUME NEW t \in BindTasks, NEW r \in Routes, FindPrincipal(t, r) PROVE BindInv'
  <2>1. BindTyped' /\ ScopedKnowsOwner'
    BY <1>1 DEF FindPrincipal, BindTyped, ScopedKnowsOwner, EarlyPcs, ScopedPcs
  <2> QED BY <1>1, <2>1 DEF FindPrincipal, OwnerKeepsBindings
<1>2. ASSUME NEW t \in BindTasks, EnsurePrincipal(t) PROVE BindInv'
  <2>1. BindTyped' /\ ScopedKnowsOwner'
    BY <1>2 DEF EnsurePrincipal, SavePrincipal, BindGoes, BindTyped, ScopedKnowsOwner,
       EarlyPcs, ScopedPcs
  <2>2. OwnerKeepsBindings'
    BY <1>2 DEF EnsurePrincipal, SavePrincipal, BindTyped, OwnerKeepsBindings
  <2> QED BY <2>1, <2>2
<1>3. ASSUME NEW t \in BindTasks, FindRaced(t) PROVE BindInv'
  <2>1. OwnerKeepsBindings'
    BY <1>3 DEF FindRaced, OwnerKeepsBindings
  <2>2. CASE Stops(t)
    BY <1>3, <2>1, <2>2, CommandStops DEF FindRaced, BindTyped
  <2>3. CASE ~Stops(t)
    <3>1. BindTyped' /\ ScopedKnowsOwner'
      BY <1>3, <2>3 DEF FindRaced, BindTyped, ScopedKnowsOwner, EarlyPcs, ScopedPcs
    <3> QED BY <2>1, <3>1
  <2> QED BY <2>2, <2>3
<1>4. ASSUME NEW t \in BindTasks, PublishRoute(t) PROVE BindInv'
  <2>1. OwnerKeepsBindings'
    BY <1>4 DEF PublishRoute, OwnerKeepsBindings
  <2>2. CASE Stops(t)
    BY <1>4, <2>1, <2>2, CommandStops DEF PublishRoute, BindTyped
  <2>3. CASE ~Stops(t)
    <3>1. BindTyped' /\ ScopedKnowsOwner'
      BY <1>4, <2>3 DEF PublishRoute, BindGoes, BindTyped, ScopedKnowsOwner, EarlyPcs,
         ScopedPcs
    <3> QED BY <2>1, <3>1
  <2> QED BY <2>2, <2>3
<1>5. ASSUME NEW t \in BindTasks, NEW live \in BOOLEAN, ResolveScope(t, live) PROVE BindInv'
  <2>1. OwnerKeepsBindings'
    BY <1>5 DEF ResolveScope, OwnerKeepsBindings
  <2>2. CASE Stops(t)
    BY <1>5, <2>1, <2>2, CommandStops DEF ResolveScope, BindTyped
  <2>3. CASE ~Stops(t)
    <3>1. BindTyped' /\ ScopedKnowsOwner'
      BY <1>5, <2>3 DEF ResolveScope, BindTyped, ScopedKnowsOwner, EarlyPcs, ScopedPcs
    <3> QED BY <2>1, <3>1
  <2> QED BY <2>2, <2>3
<1>6. ASSUME NEW t \in BindTasks, NEW live \in BOOLEAN, Snapshot(t, live) PROVE BindInv'
  <2>1. OwnerKeepsBindings'
    BY <1>6 DEF Snapshot, OwnerKeepsBindings
  <2>2. CASE Stops(t)
    BY <1>6, <2>1, <2>2, CommandStops DEF Snapshot, BindTyped
  <2>3. CASE ~Stops(t)
    <3>1. /\ command[t].pc \in {"bind", "replace", "unbind"}
          /\ command' = [command EXCEPT ![t].pc = Writing[@], ![t].seen = chosen.rev]
      BY <1>6, <2>3 DEF Snapshot
    <3>2. Writing[command[t].pc] \in ScopedPcs
      BY <3>1 DEF Writing, ScopedPcs
    <3> DEFINE c == [command[t] EXCEPT !.pc = Writing[command[t].pc], !.seen = chosen.rev]
    <3>3. command' = [command EXCEPT ![t] = c] /\ UNCHANGED principals
      BY <1>6, <3>1 DEF Snapshot, BindTyped
    <3>4. /\ c \in CommandRow
          /\ c.who = command[t].who
      BY <3>2, ZenonT(60) DEF BindTyped
    <3>5. command[t].pc \in ScopedPcs
      BY <3>1 DEF ScopedPcs
    <3> HIDE DEF c
    <3>6. /\ command' \in [BindTasks -> CommandRow]
          /\ ScopedKnowsOwner'
      BY <3>3, <3>4, <3>5, CommandGoes
    <3> QED BY <1>6, <2>1, <3>6 DEF Snapshot, BindTyped
  <2> QED BY <2>2, <2>3
<1>7. ASSUME NEW t \in BindTasks, NEW o \in Objects, SaveIdentity(t, o) PROVE BindInv'
  <2>1. BindTyped' /\ ScopedKnowsOwner'
    BY <1>7 DEF SaveIdentity, BindTyped, ScopedKnowsOwner
  <2>2. OwnerKeepsBindings'
    BY <1>7 DEF SaveIdentity, BindTyped, OwnerKeepsBindings
  <2> QED BY <2>1, <2>2
<1>8. ASSUME NEW t \in BindTasks, NEW o \in Objects, BindChecked(t, o) PROVE BindInv'
  <2>1. OwnerKeepsBindings'
    BY <1>8 DEF BindChecked, OwnerKeepsBindings
  <2>2. CASE Stops(t)
    BY <1>8, <2>1, <2>2, CommandStops DEF BindChecked, BindTyped
  <2>3. CASE ~Stops(t)
    <3>1. BindTyped' /\ ScopedKnowsOwner'
      BY <1>8, <2>3 DEF BindChecked, BindTyped, ScopedKnowsOwner, EarlyPcs, ScopedPcs
    <3> QED BY <2>1, <3>1
  <2> QED BY <2>2, <2>3
<1>9. ASSUME NEW t \in BindTasks, ReadBindings(t) PROVE BindInv'
  BY <1>9, CommandStops DEF ReadBindings, BindTyped, OwnerKeepsBindings
<1>10. ASSUME NEW t \in BindTasks, NEW op \in {"replace", "unbind"}, NEW b \in 1..MaxBindings,
              Named(t, op, b)
       PROVE  BindInv'
  <2> DEFINE c == [command[t] EXCEPT !.pc = op, !.bid = b, !.rev = bindings[b].rev]
  <2>1. command' = [command EXCEPT ![t] = c] /\ UNCHANGED principals
    BY <1>10 DEF Named, BindTyped
  <2>2. /\ c \in CommandRow
        /\ c.pc = op /\ c.who = command[t].who
    <3>1. op \in ScopedPcs /\ b \in Nat
      BY DEF ScopedPcs
    <3>2. b \in DOMAIN bindings
      BY <1>10 DEF Named
    <3>3. bindings[b].rev \in Nat
      BY <3>2 DEF BindTyped
    <3>4. command[t] \in CommandRow
      BY DEF BindTyped
    <3> QED BY <3>1, <3>3, <3>4
  <2>3. command[t].pc \in ScopedPcs
    BY <1>10 DEF Named, ScopedPcs
  <2> HIDE DEF c
  <2>4. /\ command' \in [BindTasks -> CommandRow]
        /\ ScopedKnowsOwner'
    BY <2>1, <2>2, <2>3, CommandGoes
  <2> QED BY <1>10, <2>4 DEF Named, BindTyped, OwnerKeepsBindings
<1>11. ASSUME NEW t \in BindTasks, BindWrite(t) PROVE BindInv'
  <2>1. Stops(t) /\ UNCHANGED <<principals, identities>>
    BY <1>11 DEF BindWrite
  <2>2. ScopedKnowsOwner'
    BY <2>1, CommandStops
  <2>3. CASE UNCHANGED <<bindings, minted, chosen>>
    BY <2>1, <2>2, <2>3, CommandStops DEF BindTyped, OwnerKeepsBindings
  <2>4. CASE ~UNCHANGED <<bindings, minted, chosen>>
    <3> DEFINE b == minted + 1
               row == [owner |-> command[t].who, object |-> command[t].obj, rev |-> 1]
    <3>1. /\ bindings' = [x \in DOMAIN bindings \cup {b} |-> IF x = b THEN row ELSE bindings[x]]
          /\ minted' = b
          /\ chosen' = [id |-> b, rev |-> chosen.rev + 1]
      BY <1>11, <2>4 DEF BindWrite
    <3>2. b \in Nat /\ b # 0 /\ chosen.rev + 1 \in Nat
      BY DEF BindTyped
    <3>4. command[t].who = principals /\ principals # None
      BY <1>11 DEF BindWrite, ScopedKnowsOwner, ScopedPcs
    <3>3. row \in [owner: BindTasks, object: Objects \cup {None}, rev: Nat]
          /\ row.owner = command[t].who
      BY <3>4 DEF BindTyped
    <3> HIDE DEF b, row
    <3>5. BindTyped'
      BY <2>1, <3>1, <3>2, <3>3, CommandStops DEF BindTyped
    <3>6. OwnerKeepsBindings'
      BY <2>1, <3>1, <3>3, <3>4 DEF OwnerKeepsBindings
    <3> QED BY <2>2, <3>5, <3>6
  <2> QED BY <2>3, <2>4
<1>12. ASSUME NEW t \in BindTasks, ReplaceWrite(t) PROVE BindInv'
  <2>1. Stops(t) /\ UNCHANGED <<principals, identities, bindings, minted>>
    BY <1>12 DEF ReplaceWrite
  <2>2. ScopedKnowsOwner'
    BY <2>1, CommandStops
  <2>3. chosen' \in [id: Nat, rev: Nat] /\ (chosen'.id # 0 => chosen'.id \in DOMAIN bindings)
    BY <1>12 DEF ReplaceWrite, BindTyped, OwnerKeepsBindings
  <2> QED BY <2>1, <2>2, <2>3, CommandStops DEF BindTyped, OwnerKeepsBindings
<1>13. ASSUME NEW t \in BindTasks, UnbindWrite(t) PROVE BindInv'
  <2>1. Stops(t) /\ UNCHANGED <<principals, identities, minted>>
    BY <1>13 DEF UnbindWrite
  <2>2. ScopedKnowsOwner'
    BY <2>1, CommandStops
  <2>3. \/ UNCHANGED <<bindings, chosen>>
        \/ /\ bindings' = [x \in DOMAIN bindings \ {command[t].bid} |-> bindings[x]]
           /\ chosen' = IF chosen.id = command[t].bid THEN NoDefault ELSE chosen
    BY <1>13 DEF UnbindWrite
  <2>4. NoDefault \in [id: Nat, rev: Nat] /\ NoDefault.id = 0
    BY DEF NoDefault
  <2>5. BindTyped'
    BY <2>1, <2>3, <2>4, CommandStops DEF BindTyped
  <2>6. OwnerKeepsBindings'
    BY <2>1, <2>3, <2>4 DEF OwnerKeepsBindings
  <2> QED BY <2>2, <2>5, <2>6
<1>14. CASE UNCHANGED bindVars
  BY <1>14 DEF bindVars, BindTyped, ScopedKnowsOwner, OwnerKeepsBindings
<1> QED BY <1>1, <1>2, <1>3, <1>4, <1>5, <1>6, <1>7, <1>8, <1>9, <1>10, <1>11, <1>12, <1>13,
     <1>14 DEF BindNext

\* TrustedIngress.ensure, identities and bindings, for any number of commands and
\* objects: what an actor has stored belongs to the principal it resolves to.
THEOREM BindingsKept == MCSpec => []BindingsAreKept
<1> DEFINE Kept == service = "bindings" => BindInv
<1>1. MCInit => Kept
  BY BindInitInv DEF MCInit
<1>2. Kept /\ [MCNext]_<<service, bindVars, cacheVars, jobVars, serviceVars, migrationVars>>
        => Kept'
  BY BindStep DEF MCNext
<1>3. Kept => BindingsAreKept
  BY DEF BindingsAreKept, BindInv
<1> QED BY <1>1, <1>2, <1>3, PTL DEF MCSpec

HIDE DEF CommandRow

\* StorageMigration: the source stands still from the moment the window
\* opens, so what an attempt copied is what the source still holds when
\* the selector is published; the entries of an attempt are made in one
\* order, and the entries after the current one are untouched.

WorkPcs == {"intend", "create", "identify", "fill", "activate", "prepare", "publish"}
Later == [root |-> {"db", "file", "manifest"}, db |-> {"file", "manifest"},
          file |-> {"manifest"}, manifest |-> {}]
TryRow == [state: {"none", "allocated", "preparing", "prepared", "abandoned"},
           journal: [Entries -> {"no", "intent", "identity"}],
           disk: [Entries -> {"no", "empty", "full"}],
           data: Nat, files: Nat, activated: BOOLEAN]

MigrationTyped ==
    /\ source \in [data: Nat, files: Nat, fenced: BOOLEAN]
    /\ tries \in [Tries -> TryRow]
    /\ selector \in Tries \cup {0}
    /\ writer \in [Writers -> {"none", "running", "stopped", "failed"}]
    /\ supervisor \in [coverage: BOOLEAN, maintenance: BOOLEAN, closed: BOOLEAN, lease: BOOLEAN]
    /\ plan \in [data: Nat, files: Nat, fenced: BOOLEAN, made: BOOLEAN]
    /\ mover \in [pc: {"idle", "start", "fence", "attempt", "verify"} \cup WorkPcs,
                  try: Tries \cup {0}, file: Entries \cup {"none"}]

\* Nobody writes the source while the window is open or after the commit.
SourceStill ==
    supervisor.maintenance \/ selector # 0 => \A w \in Writers : writer[w] # "running"

MoverInWindow == mover.pc # "idle" => supervisor.maintenance

\* A row of the journal that the disk agrees with.
RowExplained(r) ==
    \A e \in Entries :
        /\ r.disk[e] # "no" => r.journal[e] # "no"
        /\ r.journal[e] = "identity" => r.disk[e] # "no"
        /\ r.journal[e] = "intent" => r.disk[e] # "full"

\* How far the attempt r has come at step pc of entry f.
RowCurrent(r, pc, f) ==
    /\ pc = "intend" => r.journal[f] = "no" /\ r.disk[f] = "no"
    /\ pc = "create" => r.journal[f] = "intent" /\ r.disk[f] = "no"
    /\ pc = "identify" => r.journal[f] = "intent" /\ r.disk[f] = "empty"
    /\ pc = "fill" => r.journal[f] = "identity" /\ r.disk[f] = "empty"
    /\ pc = "activate" => f = "file"
    /\ pc \in {"prepare", "publish"} => f = "manifest" /\ r.disk["manifest"] = "full"
    /\ \A e \in Later[f] : r.journal[e] = "no" /\ r.disk[e] = "no"
    /\ f \in {"file", "manifest"} => r.data = source.data
    /\ f = "manifest" \/ pc = "activate" => r.files = source.files
    /\ f = "manifest" => r.activated

AttemptCurrent ==
    mover.pc \in WorkPcs =>
        /\ mover.try \in Tries /\ mover.file \in Entries
        /\ RowCurrent(tries[mover.try], mover.pc, mover.file)

FencedFirst == mover.pc \in WorkPcs \cup {"attempt"} => source.fenced

\* After the commit no pipeline runs and none can start from an older plan.
CommitIsLast ==
    selector # 0 => /\ mover.pc \in {"idle", "verify"}
                    /\ plan.made => supervisor.maintenance

MigrationInv ==
    /\ MigrationTyped /\ SourceStill /\ MoverInWindow /\ AttemptCurrent /\ FencedFirst
    /\ CommitIsLast /\ CommittedVerifies /\ AttemptsExplained

\* The journal is begun from a plan that agrees with the source, and while an
\* attempt is worked on it agrees in the files too.
JournalInv ==
    /\ header \in [made: BOOLEAN, data: Nat, files: Nat]
    /\ header.made => source.fenced /\ header.data = source.data
    /\ mover.pc \in {"fence", "attempt"} => plan.files = source.files
    /\ mover.pc = "attempt" => plan.data = source.data
    /\ mover.pc \in WorkPcs \/ selector # 0 => header.files = source.files

\* Explained speaks of one row.
LEMMA ExplainedIsOfRow == \A t : Explained(t) <=> RowExplained(tries[t])
  BY DEF Explained, RowExplained

\* Nothing has been moved yet.
LEMMA MigrationInitInv == MigrationInit => MigrationInv
<1> SUFFICES ASSUME MigrationInit PROVE MigrationInv
  OBVIOUS
<1> USE StorageMigrationAssumption DEF MigrationInit, NoSupervisor, NoPlan, Idle
<1>1. NoTry \in TryRow /\ RowExplained(NoTry)
  BY DEF NoTry, TryRow, RowExplained, Entries
<1>2. MigrationTyped
  BY <1>1 DEF MigrationTyped
<1>3. AttemptsExplained
  BY <1>1, ExplainedIsOfRow DEF AttemptsExplained
<1> QED
  BY <1>2, <1>3 DEF MigrationInv, SourceStill, MoverInWindow, AttemptCurrent, FencedFirst,
     CommitIsLast, CommittedVerifies, WorkPcs

\* A step that leaves the attempts, the selector and a source nobody may write
\* alone, and starts no work, keeps what the invariant says of them.
LEMMA AttemptsStand ==
    ASSUME MigrationInv, UNCHANGED <<tries, selector>>,
           selector # 0 \/ mover'.pc \in WorkPcs => UNCHANGED source,
           mover'.pc \in WorkPcs => UNCHANGED mover
    PROVE  CommittedVerifies' /\ AttemptsExplained' /\ AttemptCurrent'
<1> USE DEF MigrationInv
<1>1. AttemptsExplained'
  BY DEF AttemptsExplained, Explained
<1>2. CommittedVerifies'
  BY DEF CommittedVerifies, Verified
<1>3. AttemptCurrent'
  BY DEF AttemptCurrent, RowCurrent
<1> QED BY <1>1, <1>2, <1>3

\* The pipeline puts row r for attempt t and goes on to step pc of entry f.
LEMMA AttemptMoves ==
    ASSUME MigrationInv, selector = 0, UNCHANGED <<source, selector, supervisor, plan, writer>>,
           NEW t \in Tries, NEW r \in TryRow, NEW pc \in WorkPcs, NEW f \in Entries,
           tries' = [tries EXCEPT ![t] = r],
           mover' = [pc |-> pc, try |-> t, file |-> f],
           RowExplained(r), RowCurrent(r, pc, f), source.fenced, supervisor.maintenance
    PROVE  MigrationInv'
<1> USE DEF MigrationInv
<1>1. tries'[t] = r /\ \A u \in Tries : tries'[u] \in {tries[u], r}
  BY DEF MigrationTyped
<1>2. MigrationTyped'
  BY DEF MigrationTyped
<1>3. AttemptsExplained'
  <2> SUFFICES ASSUME NEW u \in Tries PROVE Explained(u)'
    BY DEF AttemptsExplained
  <2>1. RowExplained(tries'[u])
    BY <1>1, ExplainedIsOfRow DEF AttemptsExplained
  <2> QED BY <2>1 DEF Explained, RowExplained
<1>4. AttemptCurrent'
  BY <1>1 DEF AttemptCurrent, RowCurrent
<1> QED
  BY <1>2, <1>3, <1>4 DEF SourceStill, MoverInWindow, FencedFirst, CommitIsLast,
     CommittedVerifies

\* Wherever the pipeline gives up, the window is left and the attempts stay.
LEMMA MoveEnds ==
    ASSUME MigrationInv, MoveFails, UNCHANGED <<source, tries, selector, writer, plan>>
    PROVE  MigrationInv'
<1> USE DEF MigrationInv, MoveFails, WindowLeft, Idle
<1>1. MigrationTyped'
  BY DEF MigrationTyped
<1>2. CommittedVerifies' /\ AttemptsExplained' /\ AttemptCurrent'
  BY AttemptsStand DEF WorkPcs
<1>3. supervisor'.maintenance = supervisor.maintenance
  BY DEF MigrationTyped
<1> QED BY <1>1, <1>2, <1>3 DEF SourceStill, MoverInWindow, FencedFirst, CommitIsLast, WorkPcs

\* Consumers, the supervisor and the plan.
LEMMA OutsideStep ==
    ASSUME MigrationInv,
           \/ \E w \in Writers : WriterStarts(w) \/ WriterWrites(w) \/ WriterStops(w)
           \/ CoverageLost \/ PlanMade \/ WindowOpens
    PROVE  MigrationInv'
<1> USE DEF MigrationInv
<1>1. ASSUME NEW w \in Writers, WriterStarts(w) PROVE MigrationInv'
  <2>1. CommittedVerifies' /\ AttemptsExplained' /\ AttemptCurrent'
    BY <1>1, AttemptsStand DEF WriterStarts
  <2> QED
    BY <1>1, <2>1 DEF WriterStarts, MigrationTyped, SourceStill, MoverInWindow, FencedFirst,
       CommitIsLast
<1>2. ASSUME NEW w \in Writers, WriterWrites(w) PROVE MigrationInv'
  <2>1. selector = 0 /\ ~supervisor.maintenance /\ mover.pc = "idle"
    BY <1>2 DEF WriterWrites, SourceStill, MoverInWindow
  <2>2. /\ UNCHANGED <<tries, selector, writer, supervisor, plan, mover>>
        /\ source' \in [data: Nat, files: Nat, fenced: BOOLEAN]
    BY <1>2 DEF WriterWrites, MigrationTyped
  <2>3. CommittedVerifies' /\ AttemptsExplained' /\ AttemptCurrent'
    BY <2>1, <2>2, AttemptsStand DEF WorkPcs
  <2> QED
    BY <2>1, <2>2, <2>3 DEF MigrationTyped, SourceStill, MoverInWindow, FencedFirst,
       CommitIsLast, WorkPcs
<1>3. ASSUME NEW w \in Writers, WriterStops(w) PROVE MigrationInv'
  <2>1. CommittedVerifies' /\ AttemptsExplained' /\ AttemptCurrent'
    BY <1>3, AttemptsStand DEF WriterStops
  <2>2. supervisor'.maintenance = supervisor.maintenance
    BY <1>3 DEF WriterStops, Unknown, MigrationTyped
  <2>3. MigrationTyped'
    BY <1>3 DEF WriterStops, Unknown, MigrationTyped
  <2> QED
    BY <1>3, <2>1, <2>2, <2>3 DEF WriterStops, SourceStill, MoverInWindow, FencedFirst,
       CommitIsLast, MigrationTyped
<1>4. CASE CoverageLost
  <2>1. CommittedVerifies' /\ AttemptsExplained' /\ AttemptCurrent'
    BY <1>4, AttemptsStand DEF CoverageLost
  <2>2. supervisor'.maintenance = supervisor.maintenance
    BY <1>4 DEF CoverageLost, Unknown, MigrationTyped
  <2>3. MigrationTyped'
    BY <1>4 DEF CoverageLost, Unknown, MigrationTyped
  <2> QED
    BY <1>4, <2>1, <2>2, <2>3 DEF CoverageLost, SourceStill, MoverInWindow, FencedFirst,
       CommitIsLast
<1>5. CASE PlanMade
  <2>1. CommittedVerifies' /\ AttemptsExplained' /\ AttemptCurrent'
    BY <1>5, AttemptsStand DEF PlanMade
  <2> QED
    BY <1>5, <2>1 DEF PlanMade, MigrationTyped, SourceStill, MoverInWindow, FencedFirst,
       CommitIsLast
<1>6. CASE WindowOpens
  <2>1. /\ mover' = [pc |-> "start", try |-> 0, file |-> "none"]
        /\ UNCHANGED <<source, tries, selector, writer, plan>>
        /\ plan.made /\ ~supervisor.maintenance /\ ConsumersStopped
    BY <1>6 DEF WindowOpens, Idle
  <2>2. MigrationTyped' /\ supervisor'.maintenance
    <3>1. supervisor' = [coverage |-> TRUE, maintenance |-> TRUE, closed |-> FALSE, lease |-> TRUE]
      BY <1>6 DEF WindowOpens, MigrationTyped
    <3> QED BY <2>1, <3>1 DEF MigrationTyped
  <2>3. selector = 0
    BY <2>1 DEF CommitIsLast
  <2>4. CommittedVerifies' /\ AttemptsExplained' /\ AttemptCurrent'
    BY <2>1, AttemptsStand DEF WorkPcs
  <2> QED
    BY <2>1, <2>2, <2>3, <2>4 DEF SourceStill, MoverInWindow, FencedFirst, CommitIsLast,
       WorkPcs, ConsumersStopped
<1> QED BY <1>1, <1>2, <1>3, <1>4, <1>5, <1>6

\* Before an attempt exists: the start of the pipeline and the fence.
LEMMA FenceStep == ASSUME MigrationInv, PipelineStarts \/ SourceFenced PROVE MigrationInv'
<1> USE DEF MigrationInv
<1>1. CASE MoveFails /\ UNCHANGED source
  BY <1>1, MoveEnds DEF PipelineStarts, SourceFenced
<1>2. CASE ~(MoveFails /\ UNCHANGED source)
  <2>1. /\ UNCHANGED <<tries, selector, writer, supervisor, plan>>
        /\ mover.pc \in {"start", "fence"}
        /\ \/ mover' = [mover EXCEPT !.pc = "fence"] /\ UNCHANGED source
           \/ mover' = [mover EXCEPT !.pc = "attempt"] /\ source' = [source EXCEPT !.fenced = TRUE]
    BY <1>2 DEF PipelineStarts, SourceFenced, Goes
  <2>2. selector = 0 /\ supervisor.maintenance
    BY <2>1 DEF CommitIsLast, MoverInWindow
  <2>3. /\ MigrationTyped'
        /\ mover'.pc \in {"fence", "attempt"}
        /\ mover'.pc = "attempt" => source'.fenced
    BY <2>1, ZenonT(60) DEF MigrationTyped
  <2>4. CommittedVerifies' /\ AttemptsExplained' /\ AttemptCurrent'
    BY <2>1, <2>2, <2>3, AttemptsStand DEF WorkPcs
  <2> QED
    BY <2>1, <2>2, <2>3, <2>4 DEF SourceStill, MoverInWindow, FencedFirst, CommitIsLast, WorkPcs
<1> QED BY <1>1, <1>2

\* _new_attempt: there is room for the name, and its row starts empty.
LEMMA AllocateStep == ASSUME MigrationInv, AttemptAllocated PROVE MigrationInv'
<1> USE DEF MigrationInv
<1>1. CASE MoveFails /\ UNCHANGED tries
  BY <1>1, MoveEnds DEF AttemptAllocated
<1>2. CASE ~(MoveFails /\ UNCHANGED tries)
  <2> DEFINE t == Cardinality(Used) + 1
             r == [NoTry EXCEPT !.state = "allocated", !.journal["root"] = "intent"]
  <2>1. /\ UNCHANGED <<source, selector, writer, supervisor, plan>>
        /\ mover.pc = "attempt" /\ Used # Tries
        /\ mover' = [pc |-> "create", try |-> t, file |-> "root"]
        /\ tries' = [u \in Tries |-> IF u = t THEN r
                        ELSE IF u \in Used THEN [tries[u] EXCEPT !.state = "abandoned"]
                        ELSE tries[u]]
    BY <1>2 DEF AttemptAllocated
  <2>2. selector = 0 /\ supervisor.maintenance /\ source.fenced
    BY <2>1 DEF CommitIsLast, MoverInWindow, FencedFirst
  <2>3. t \in Tries
    <3>1. IsFiniteSet(Tries) /\ Cardinality(Tries) = MaxTries
      BY StorageMigrationAssumption, FS_Interval DEF Tries
    <3>2. Used \in SUBSET Tries
      BY DEF Used
    <3>3. /\ IsFiniteSet(Used) /\ Cardinality(Used) <= MaxTries /\ Cardinality(Used) # MaxTries
      BY <2>1, <3>1, <3>2, FS_Subset
    <3>4. Cardinality(Used) \in Nat
      BY <3>3, FS_CardinalityType
    <3> QED BY <3>3, <3>4, StorageMigrationAssumption DEF Tries
  <2>4. /\ r \in TryRow
        /\ r.journal = [e \in Entries |-> IF e = "root" THEN "intent" ELSE "no"]
        /\ r.disk = [e \in Entries |-> "no"]
    <3>1. [NoTry.journal EXCEPT !["root"] = "intent"]
            = [e \in Entries |-> IF e = "root" THEN "intent" ELSE "no"]
      BY DEF NoTry
    <3>2. NoTry \in TryRow /\ NoTry.disk = [e \in Entries |-> "no"]
      BY DEF NoTry, TryRow
    <3> QED BY <3>1, <3>2 DEF TryRow
  <2> HIDE DEF r
  <2>5. r \in TryRow /\ RowExplained(r) /\ RowCurrent(r, "create", "root")
    <3>2. RowExplained(r)
      BY <2>4 DEF RowExplained
    <3>3. RowCurrent(r, "create", "root")
      BY <2>4 DEF RowCurrent, Entries, Later
    <3> QED BY <2>4, <3>2, <3>3
  <2> HIDE DEF t
  <2>6. /\ tries'[t] = r
        /\ \A u \in Tries \ {t} : /\ tries'[u] \in TryRow
                                  /\ tries'[u].journal = tries[u].journal
                                  /\ tries'[u].disk = tries[u].disk
    <3>1. ASSUME NEW u \in Tries \ {t}
          PROVE  /\ tries'[u] \in TryRow
                 /\ tries'[u].journal = tries[u].journal
                 /\ tries'[u].disk = tries[u].disk
      <4>1. tries[u] \in TryRow
        BY DEF MigrationTyped
      <4>2. tries'[u] \in {[tries[u] EXCEPT !.state = "abandoned"], tries[u]}
        BY <2>1
      <4> QED BY <4>1, <4>2 DEF TryRow
    <3> QED BY <2>1, <2>3, <3>1
  <2>7. MigrationTyped'
    BY <2>1, <2>3, <2>5, <2>6 DEF MigrationTyped, WorkPcs, Entries
  <2>8. AttemptsExplained'
    BY <2>1, <2>5, <2>6 DEF AttemptsExplained, Explained, RowExplained
  <2>9. AttemptCurrent'
    BY <2>1, <2>3, <2>5, <2>6 DEF AttemptCurrent, RowCurrent, Entries
  <2> QED
    BY <2>1, <2>2, <2>7, <2>8, <2>9 DEF SourceStill, MoverInWindow, FencedFirst, CommitIsLast,
       CommittedVerifies
<1> QED BY <1>1, <1>2

\* The entries of an attempt, one durable step after the other.
LEMMA EntryStep ==
    ASSUME MigrationInv, EntryIntended \/ EntryCreated \/ EntryIdentified \/ EntryFilled
                         \/ TargetActivated \/ AttemptPrepared
    PROVE  MigrationInv'
<1> USE DEF MigrationInv
<1> DEFINE t == mover.try
           f == mover.file
           old == tries[t]
<1>1. /\ mover.pc \in WorkPcs /\ t \in Tries /\ f \in Entries
      /\ RowCurrent(old, mover.pc, f) /\ RowExplained(old) /\ old \in TryRow
      /\ selector = 0 /\ supervisor.maintenance /\ source.fenced
      /\ mover = [pc |-> mover.pc, try |-> t, file |-> f]
  <2>1. mover.pc \in WorkPcs
    BY DEF EntryIntended, EntryCreated, EntryIdentified, EntryFilled, TargetActivated,
       AttemptPrepared, WorkPcs
  <2>2. t \in Tries /\ f \in Entries /\ RowCurrent(old, mover.pc, f)
    BY <2>1 DEF AttemptCurrent
  <2>3. old \in TryRow /\ RowExplained(old)
    BY <2>2, ExplainedIsOfRow DEF AttemptsExplained, MigrationTyped
  <2>4. selector = 0 /\ supervisor.maintenance /\ source.fenced
    BY <2>1 DEF CommitIsLast, MoverInWindow, FencedFirst, WorkPcs
  <2>5. mover = [pc |-> mover.pc, try |-> t, file |-> f]
    BY DEF MigrationTyped
  <2> QED BY <2>1, <2>2, <2>3, <2>4, <2>5
<1>2. ASSUME NEW r, NEW pc, NEW g,
             UNCHANGED <<source, selector, supervisor, plan, writer>>,
             tries' = [tries EXCEPT ![t] = r], mover' = [pc |-> pc, try |-> t, file |-> g],
             r \in TryRow, pc \in WorkPcs, g \in Entries, RowExplained(r), RowCurrent(r, pc, g)
      PROVE  MigrationInv'
  BY <1>1, <1>2, AttemptMoves
<1>3. CASE EntryIntended
  <2> DEFINE r == [old EXCEPT !.journal = [old.journal EXCEPT ![f] = "intent"]]
  <2>1. /\ UNCHANGED <<source, selector, supervisor, plan, writer>>
        /\ tries' = [tries EXCEPT ![t] = r] /\ mover' = [pc |-> "create", try |-> t, file |-> f]
    BY <1>1, <1>3 DEF EntryIntended, Goes, MigrationTyped, TryRow
  <2>2. mover.pc = "intend"
    BY <1>3 DEF EntryIntended
  <2>3. r \in TryRow /\ RowExplained(r) /\ RowCurrent(r, "create", f)
    BY <1>1, <2>2 DEF TryRow, RowExplained, RowCurrent, Later, Entries
  <2> QED BY <1>1, <1>2, <2>1, <2>3 DEF WorkPcs
<1>4. CASE EntryCreated
  <2> DEFINE r == [old EXCEPT !.disk = [old.disk EXCEPT ![f] = "empty"]]
  <2>1. /\ UNCHANGED <<source, selector, supervisor, plan, writer>>
        /\ tries' = [tries EXCEPT ![t] = r] /\ mover' = [pc |-> "identify", try |-> t, file |-> f]
    BY <1>1, <1>4 DEF EntryCreated, Goes, MigrationTyped, TryRow
  <2>2. mover.pc = "create"
    BY <1>4 DEF EntryCreated
  <2>3. r \in TryRow /\ RowExplained(r) /\ RowCurrent(r, "identify", f)
    BY <1>1, <2>2 DEF TryRow, RowExplained, RowCurrent, Later, Entries
  <2> QED BY <1>1, <1>2, <2>1, <2>3 DEF WorkPcs
<1>5. CASE EntryIdentified
  <2> DEFINE r == [old EXCEPT !.journal = [old.journal EXCEPT ![f] = "identity"],
                              !.state = "preparing"]
  <2>1. /\ UNCHANGED <<source, selector, supervisor, plan, writer>>
        /\ tries' = [tries EXCEPT ![t] = r] /\ mover' = [pc |-> "fill", try |-> t, file |-> f]
    BY <1>1, <1>5 DEF EntryIdentified, Goes, MigrationTyped, TryRow
  <2>2. mover.pc = "identify"
    BY <1>5 DEF EntryIdentified
  <2>3. r \in TryRow /\ RowExplained(r) /\ RowCurrent(r, "fill", f)
    <3>1. r \in TryRow
      BY <1>1 DEF TryRow
    <3>2. RowExplained(r)
      BY <1>1, <2>2 DEF TryRow, RowExplained, RowCurrent
    <3>3. RowCurrent(r, "fill", f)
      BY <1>1, <2>2 DEF TryRow, RowCurrent, Later, Entries
    <3> QED BY <3>1, <3>2, <3>3
  <2> QED BY <1>1, <1>2, <2>1, <2>3 DEF WorkPcs
<1>6. CASE EntryFilled
  <2>1. CASE MoveFails /\ UNCHANGED tries
    BY <1>6, <2>1, MoveEnds DEF EntryFilled
  <2>2. CASE ~(MoveFails /\ UNCHANGED tries)
    <3> DEFINE r == [old EXCEPT !.disk = [old.disk EXCEPT ![f] = "full"],
                                !.data = IF f = "db" THEN source.data ELSE old.data,
                                !.files = IF f = "file" THEN source.files ELSE old.files]
               pc == IF After[f] \in Entries THEN "intend" ELSE After[f]
               g == IF After[f] \in Entries THEN After[f] ELSE f
    <3>1. /\ UNCHANGED <<source, selector, supervisor, plan, writer>>
          /\ tries' = [tries EXCEPT ![t] = r]
      BY <1>1, <1>6, <2>2 DEF EntryFilled, MigrationTyped, TryRow
    <3>2. mover.pc = "fill" /\ mover' = [pc |-> pc, try |-> t, file |-> g]
      BY <1>1, <1>6, <2>2 DEF EntryFilled, FirstStep
    <3>3. source.data \in Nat /\ source.files \in Nat
      BY DEF MigrationTyped
    <3>4. r \in TryRow /\ RowExplained(r)
      BY <1>1, <3>2, <3>3, ZenonT(60) DEF TryRow, RowExplained, RowCurrent
    <3>5. pc \in WorkPcs /\ g \in Entries /\ RowCurrent(r, pc, g)
      <4>1. CASE f = "root"
        BY <1>1, <3>2, <4>1 DEF RowCurrent, Later, After, Entries, WorkPcs, TryRow
      <4>2. CASE f = "db"
        BY <1>1, <3>2, <4>2 DEF RowCurrent, Later, After, Entries, WorkPcs, TryRow
      <4>3. CASE f = "file"
        BY <1>1, <3>2, <4>3 DEF RowCurrent, Later, After, Entries, WorkPcs, TryRow
      <4>4. CASE f = "manifest"
        BY <1>1, <3>2, <4>4 DEF RowCurrent, Later, After, Entries, WorkPcs, TryRow
      <4> QED BY <1>1, <4>1, <4>2, <4>3, <4>4 DEF Entries
    <3> QED BY <1>2, <3>1, <3>2, <3>4, <3>5
  <2> QED BY <2>1, <2>2
<1>7. CASE TargetActivated
  <2> DEFINE r == [old EXCEPT !.activated = TRUE]
  <2>1. /\ UNCHANGED <<source, selector, supervisor, plan, writer>>
        /\ tries' = [tries EXCEPT ![t] = r]
        /\ mover' = [pc |-> "intend", try |-> t, file |-> "manifest"]
    BY <1>1, <1>7 DEF TargetActivated, FirstStep, MigrationTyped, TryRow
  <2>2. mover.pc = "activate"
    BY <1>7 DEF TargetActivated
  <2>3. r \in TryRow /\ RowExplained(r) /\ RowCurrent(r, "intend", "manifest")
    <3>1. r \in TryRow
      BY <1>1 DEF TryRow
    <3>2. RowExplained(r)
      BY <1>1, <2>2 DEF TryRow, RowExplained, RowCurrent
    <3>3. RowCurrent(r, "intend", "manifest")
      BY <1>1, <2>2 DEF TryRow, RowCurrent, Later, Entries
    <3> QED BY <3>1, <3>2, <3>3
  <2> QED BY <1>2, <2>1, <2>3 DEF WorkPcs, Entries
<1>8. CASE AttemptPrepared
  <2> DEFINE r == [old EXCEPT !.state = "prepared"]
  <2>1. /\ UNCHANGED <<source, selector, supervisor, plan, writer>>
        /\ tries' = [tries EXCEPT ![t] = r] /\ mover' = [pc |-> "publish", try |-> t, file |-> f]
    BY <1>1, <1>8 DEF AttemptPrepared, Goes, MigrationTyped, TryRow
  <2>2. mover.pc = "prepare"
    BY <1>8 DEF AttemptPrepared
  <2>3. r \in TryRow /\ RowExplained(r) /\ RowCurrent(r, "publish", f)
    BY <1>1, <2>2 DEF TryRow, RowExplained, RowCurrent
  <2> QED BY <1>1, <1>2, <2>1, <2>3 DEF WorkPcs
<1> QED BY <1>3, <1>4, <1>5, <1>6, <1>7, <1>8

\* The commit, the end of the pipeline, and the end of the process anywhere.
LEMMA CommitStep ==
    ASSUME MigrationInv, SelectorPublished \/ PipelineEnds \/ MigrationCrash
    PROVE  MigrationInv'
<1> USE DEF MigrationInv
<1>1. CASE (SelectorPublished \/ PipelineEnds) /\ MoveFails /\ UNCHANGED selector
  BY <1>1, MoveEnds DEF SelectorPublished, PipelineEnds
<1>2. CASE SelectorPublished /\ ~(MoveFails /\ UNCHANGED selector)
  <2>1. /\ UNCHANGED <<source, tries, writer, supervisor, plan>>
        /\ mover.pc = "publish" /\ selector' = mover.try
        /\ mover' = [mover EXCEPT !.pc = "verify"]
    BY <1>2 DEF SelectorPublished, Goes
  <2>2. /\ mover.try \in Tries /\ RowCurrent(tries[mover.try], "publish", mover.file)
        /\ source.fenced /\ supervisor.maintenance
    BY <2>1 DEF AttemptCurrent, FencedFirst, MoverInWindow, WorkPcs
  <2>3. MigrationTyped' /\ mover'.pc = "verify"
    BY <2>1, <2>2 DEF MigrationTyped
  <2>4. CommittedVerifies'
    BY <2>1, <2>2 DEF CommittedVerifies, Verified, RowCurrent
  <2>5. AttemptsExplained'
    BY <2>1 DEF AttemptsExplained, Explained
  <2> QED
    BY <2>1, <2>2, <2>3, <2>4, <2>5 DEF SourceStill, MoverInWindow, FencedFirst, CommitIsLast,
       AttemptCurrent, WorkPcs
<1>3. CASE MigrationCrash
  <2>1. CommittedVerifies' /\ AttemptsExplained' /\ AttemptCurrent'
    BY <1>3, AttemptsStand DEF MigrationCrash, Idle, WorkPcs
  <2> QED
    BY <1>3, <2>1 DEF MigrationCrash, MigrationTyped, SourceStill, MoverInWindow, FencedFirst,
       CommitIsLast, NoSupervisor, NoPlan, Idle, WorkPcs
<1> QED BY <1>1, <1>2, <1>3 DEF PipelineEnds

\* Every step of the supervisor, the consumers and the pipeline.
LEMMA MigrationStep == MigrationInv /\ [MigrationNext]_migrationVars => MigrationInv'
<1> SUFFICES ASSUME MigrationInv, [MigrationNext]_migrationVars PROVE MigrationInv'
  OBVIOUS
<1>1. CASE UNCHANGED migrationVars
  <2> USE <1>1 DEF MigrationInv, migrationVars
  <2>1. CommittedVerifies' /\ AttemptsExplained' /\ AttemptCurrent'
    BY AttemptsStand
  <2> QED BY <2>1 DEF MigrationTyped, SourceStill, MoverInWindow, FencedFirst, CommitIsLast
<1> QED BY <1>1, OutsideStep, FenceStep, AllocateStep, EntryStep, CommitStep DEF MigrationNext

\* Every step keeps what the journal says: it is begun after the fence, whose
\* transaction compared the plan, and what it describes stands still from then on,
\* but for the files between two windows.
LEMMA JournalStep ==
    MigrationInv /\ JournalInv /\ [MigrationNext]_migrationVars => JournalInv'
<1> SUFFICES ASSUME MigrationInv, JournalInv, [MigrationNext]_migrationVars PROVE JournalInv'
  OBVIOUS
<1> USE DEF MigrationInv, JournalInv
<1>1. CASE UNCHANGED <<source, header, selector, plan>> /\ (mover' = Idle \/ UNCHANGED mover)
  BY <1>1 DEF Idle, WorkPcs
<1>2. ASSUME NEW w \in Writers, WriterWrites(w) PROVE JournalInv'
  <2>1. selector = 0 /\ mover.pc = "idle" /\ UNCHANGED <<header, selector, mover>>
    BY <1>2 DEF WriterWrites, SourceStill, MoverInWindow
  <2>2. source.fenced => source'.fenced /\ source'.data = source.data
    BY <1>2 DEF WriterWrites, MigrationTyped
  <2> QED BY <2>1, <2>2 DEF WorkPcs
<1>3. CASE PlanMade \/ WindowOpens
  <2>1. /\ UNCHANGED <<source, header, selector>> /\ mover'.pc \in {"idle", "start"}
    BY <1>3 DEF PlanMade, WindowOpens, Idle
  <2> QED BY <2>1 DEF WorkPcs
<1>4. CASE PipelineStarts
  <2>1. CASE MoveFails
    BY <1>1, <1>4, <2>1 DEF PipelineStarts, MoveFails
  <2>2. CASE ~MoveFails
    <3>1. /\ UNCHANGED <<source, header, selector, plan>> /\ plan.files = source.files
          /\ mover'.pc = "fence"
      BY <1>4, <2>2 DEF PipelineStarts, Goes, MigrationTyped
    <3> QED BY <3>1 DEF WorkPcs
  <2> QED BY <2>1, <2>2
<1>5. CASE SourceFenced
  <2>1. CASE MoveFails /\ UNCHANGED source
    BY <1>1, <1>5, <2>1 DEF SourceFenced, MoveFails
  <2>2. CASE ~(MoveFails /\ UNCHANGED source)
    <3>1. /\ UNCHANGED <<header, selector, plan>> /\ mover.pc = "fence"
          /\ plan.data = source.data /\ source' = [source EXCEPT !.fenced = TRUE]
          /\ mover'.pc = "attempt"
      BY <1>5, <2>2 DEF SourceFenced, Goes, MigrationTyped
    <3>2. source'.fenced /\ source'.data = source.data /\ source'.files = source.files
      BY <3>1 DEF MigrationTyped
    <3> QED BY <3>1, <3>2 DEF WorkPcs
  <2> QED BY <2>1, <2>2
<1>6. CASE AttemptAllocated
  <2>1. CASE MoveFails /\ UNCHANGED header
    BY <1>1, <1>6, <2>1 DEF AttemptAllocated, MoveFails
  <2>2. CASE ~(MoveFails /\ UNCHANGED header)
    <3>1. /\ UNCHANGED <<source, selector, plan>> /\ Resumable /\ mover.pc = "attempt"
          /\ mover'.pc = "create"
          /\ header' = IF header.made THEN header
                       ELSE [made |-> TRUE, data |-> plan.data, files |-> plan.files]
      BY <1>6, <2>2 DEF AttemptAllocated
    <3>2. source.fenced /\ selector = 0
      BY <3>1 DEF FencedFirst, CommitIsLast
    <3>3. plan.data \in Nat /\ plan.files \in Nat
      BY DEF MigrationTyped
    <3>4. header' \in [made: BOOLEAN, data: Nat, files: Nat]
      BY <3>1, <3>3
    <3>5. header'.data = source.data /\ header'.files = source.files
      BY <3>1 DEF Resumable
    <3> QED BY <3>1, <3>2, <3>4, <3>5 DEF WorkPcs
  <2> QED BY <2>1, <2>2
<1>7. CASE EntryIntended \/ EntryCreated \/ EntryIdentified \/ EntryFilled
           \/ TargetActivated \/ AttemptPrepared
  <2>1. mover.pc \in WorkPcs /\ UNCHANGED <<source, header, selector, plan>>
    BY <1>7 DEF EntryIntended, EntryCreated, EntryIdentified, EntryFilled, TargetActivated,
       AttemptPrepared, WorkPcs
  <2>2. mover.file \in Entries
    BY <2>1 DEF AttemptCurrent
  <2>3. mover' = Idle \/ mover'.pc \in WorkPcs
    <3>1. \A pc : [mover EXCEPT !.pc = pc].pc = pc
      BY DEF MigrationTyped
    <3>2. ASSUME NEW pc \in WorkPcs, Goes(pc) PROVE mover'.pc \in WorkPcs
      BY <3>1, <3>2 DEF Goes
    <3>3. CASE EntryIntended \/ EntryCreated \/ EntryIdentified \/ AttemptPrepared
      BY <3>2, <3>3 DEF EntryIntended, EntryCreated, EntryIdentified, AttemptPrepared, WorkPcs
    <3>4. CASE TargetActivated
      BY <3>4 DEF TargetActivated, MigrationTyped, FirstStep, WorkPcs
    <3>5. CASE EntryFilled
      <4>1. \/ mover' = Idle
            \/ mover' = [mover EXCEPT !.pc = "intend", !.file = After[mover.file]]
            \/ /\ After[mover.file] \notin Entries
               /\ mover' = [mover EXCEPT !.pc = After[mover.file]]
        BY <3>5 DEF EntryFilled, MoveFails, FirstStep
      <4>2. After[mover.file] \in Entries \/ After[mover.file] \in WorkPcs
        BY <2>2 DEF After, Entries, WorkPcs
      <4>3. [mover EXCEPT !.pc = "intend", !.file = After[mover.file]].pc = "intend"
        BY DEF MigrationTyped
      <4>4. CASE mover' = [mover EXCEPT !.pc = "intend", !.file = After[mover.file]]
        <5>1. mover'.pc = "intend"
          BY <4>3, <4>4
        <5> QED BY <5>1 DEF WorkPcs
      <4>5. CASE After[mover.file] \notin Entries /\ mover' = [mover EXCEPT !.pc = After[mover.file]]
        <5>1. mover'.pc = After[mover.file]
          BY <3>1, <4>5
        <5> QED BY <4>2, <4>5, <5>1
      <4> QED BY <4>1, <4>4, <4>5
    <3> QED BY <1>7, <3>3, <3>4, <3>5
  <2> QED BY <2>1, <2>3 DEF WorkPcs, Idle
<1>8. CASE SelectorPublished
  <2>1. CASE MoveFails /\ UNCHANGED selector
    BY <1>1, <1>8, <2>1 DEF SelectorPublished, MoveFails
  <2>2. CASE ~(MoveFails /\ UNCHANGED selector)
    <3>1. /\ UNCHANGED <<source, header, plan>> /\ mover.pc = "publish" /\ mover'.pc = "verify"
      BY <1>8, <2>2 DEF SelectorPublished, Goes, MigrationTyped
    <3> QED BY <3>1 DEF WorkPcs
  <2> QED BY <2>1, <2>2
<1>9. CASE PipelineEnds
  BY <1>1, <1>9 DEF PipelineEnds, MoveFails
<1>10. CASE MigrationCrash
  BY <1>10 DEF MigrationCrash, Idle, WorkPcs
<1>11. ASSUME NEW w \in Writers, WriterStarts(w) \/ WriterStops(w) PROVE JournalInv'
  BY <1>1, <1>11 DEF WriterStarts, WriterStops
<1>12. CASE CoverageLost
  BY <1>1, <1>12 DEF CoverageLost
<1>13. CASE UNCHANGED migrationVars
  BY <1>1, <1>13 DEF migrationVars
<1> QED BY <1>2, <1>3, <1>4, <1>5, <1>6, <1>7, <1>8, <1>9, <1>10, <1>11, <1>12, <1>13 DEF MigrationNext

\* execute_pipeline and resolve_private_storage, for any number of consumers and
\* attempts: wherever the process stops, a committed target verifies, every
\* attempt is told from foreign data, and the journal describes the fenced source.
THEOREM MigrationRecovered == MCSpec => []MigrationRecovers
<1> DEFINE Kept == service = "migration" => MigrationInv /\ JournalInv
<1>1. MCInit => Kept
  <2>1. MigrationInit => JournalInv
    BY DEF MigrationInit, NoHeader, Idle, JournalInv, WorkPcs
  <2> QED BY <2>1, MigrationInitInv DEF MCInit
<1>2. Kept /\ [MCNext]_<<service, bindVars, cacheVars, jobVars, serviceVars, migrationVars>>
        => Kept'
  BY MigrationStep, JournalStep DEF MCNext
<1>3. Kept => MigrationRecovers
  BY DEF MigrationRecovers, MigrationInv, JournalInv, JournalStands
<1> QED BY <1>1, <1>2, <1>3, PTL DEF MCSpec

\* BoundServices: what an invocation holds between two of its waits.  From
\* the check under the mutation gate to the commit the gate stays its own,
\* and a revocation takes the gate, so the grant it was checked against is
\* not revoked before the write.

ScopeNexts == {"none", "bound", "lock", "collection", "revision", "start", "return"}
ScopePcs == {"idle", "gone", "admit", "check", "auth", "delegate", "answered", "worker", "commit",
             "gate", "assert", "put", "after", "task"} \cup ScopeNexts
ScopeRow == [kind: AllScopeKinds \cup {"none"}, pc: ScopePcs, next: ScopeNexts, epoch: Nat,
             open: BOOLEAN, caller: BOOLEAN, expected: Nat, work: {"none", "pending"}]

BoundTyped ==
    /\ registered \in [on: BOOLEAN, epoch: Nat]
    /\ grant \in {"active", "revoked", "expired"}
    /\ record \in Nat /\ cached \in Nat
    /\ scope \in [BoundScopes -> ScopeRow]

\* The coroutine r is between taking the gate and leaving it.
RowHolds(r) ==
    \/ r.pc \in {"check", "auth"} /\ r.next = "collection"
    \/ r.pc \in {"collection", "worker", "commit"}
    \/ r.kind \in {"private", "scheduled"} /\ r.pc \in {"assert", "put", "after"}

\* Its grant was active under the gate.
RowGranted(r) ==
    r.kind \in {"private", "scheduled"} /\ r.pc \in {"collection", "worker", "commit", "put"}
        => grant # "revoked"

\* Work that waits is on its way to its first step.
RowSettled(r) ==
    r.work = "pending" => \/ r.pc \in {"task", "start"}
                          \/ r.pc \in {"check", "auth"} /\ r.next = "start"

BoundInv ==
    /\ BoundTyped
    /\ \A s \in BoundScopes : /\ RowHolds(scope[s]) => mutex = s
                              /\ RowGranted(scope[s])
                              /\ RowSettled(scope[s])

\* No invocation has been bound.
LEMMA BoundInitInv == ServicesInit => BoundInv
<1> SUFFICES ASSUME ServicesInit PROVE BoundInv
  OBVIOUS
<1>1. NoScope \in ScopeRow /\ ~RowHolds(NoScope) /\ RowGranted(NoScope) /\ RowSettled(NoScope)
  BY DEF NoScope, ScopeRow, ScopePcs, ScopeNexts, RowHolds, RowGranted, RowSettled
<1> QED BY <1>1 DEF ServicesInit, BoundInv, BoundTyped

\* Invocation s goes on as row r; it takes the gate only when it is free and
\* gives back only its own.
LEMMA ScopeGoes ==
    ASSUME BoundInv, NEW s \in BoundScopes, NEW r \in ScopeRow,
           scope' = [scope EXCEPT ![s] = r], UNCHANGED <<registered, grant>>,
           record' \in Nat, cached' \in Nat,
           mutex' = mutex \/ (mutex = "free" /\ mutex' = s) \/ ScopeLeaves(s),
           RowHolds(r) => mutex' = s, RowGranted(r), RowSettled(r)
    PROVE  BoundInv'
<1> USE DEF BoundInv
<1>1. BoundTyped'
  BY DEF BoundTyped
<1>2. ASSUME NEW u \in BoundScopes
      PROVE  (RowHolds(scope[u]) => mutex = u)' /\ RowGranted(scope[u])' /\ RowSettled(scope[u])'
  <2>1. CASE u = s
    <3>1. scope'[u] = r
      BY <2>1 DEF BoundTyped
    <3>2. RowGranted(r)' /\ RowSettled(r)' /\ (RowHolds(r)' <=> RowHolds(r))
      BY DEF RowGranted, RowSettled, RowHolds
    <3> QED BY <2>1, <3>1, <3>2 DEF RowGranted, RowSettled, RowHolds
  <2>2. CASE u # s
    <3>1. scope'[u] = scope[u]
      BY <2>2 DEF BoundTyped
    <3>2. mutex = u => mutex' = u
      BY <2>2, BoundServicesAssumption DEF ScopeLeaves
    <3> QED BY <3>1, <3>2 DEF RowGranted, RowSettled, RowHolds
  <2> QED BY <2>1, <2>2
<1> QED BY <1>1, <1>2

\* Invocation s ends, in failure or not.
LEMMA ScopeEnds ==
    ASSUME BoundInv, NEW s \in BoundScopes, scope' = [scope EXCEPT ![s] = Gone],
           UNCHANGED <<registered, grant>>, record' \in Nat, cached' \in Nat,
           mutex' = mutex \/ ScopeLeaves(s)
    PROVE  BoundInv'
<1>1. /\ Gone \in ScopeRow /\ ~RowHolds(Gone) /\ RowGranted(Gone) /\ RowSettled(Gone)
  BY DEF Gone, NoScope, ScopeRow, ScopePcs, ScopeNexts, RowHolds, RowGranted, RowSettled
<1> QED BY <1>1, ScopeGoes

\* One step of an invocation.
LEMMA ScopeStep ==
    ASSUME BoundInv, NEW s \in BoundScopes,
           \/ \E k \in ScopeKinds : BindStarts(s, k)
           \/ BindIssues(s) \/ CheckEnters(s) \/ CheckPasses(s) \/ HandlerReturns(s)
           \/ PortCalled(s) \/ PortAnswers(s)
           \/ RecordCalled(s) \/ RecordLocks(s) \/ CollectionOpened(s) \/ WorkerWrites(s)
           \/ WorkerCommits(s)
           \/ CacheCalled(s) \/ CacheRevisionRead(s) \/ CacheLocks(s) \/ CacheAsserted(s)
           \/ CachePuts(s) \/ CacheReturns(s)
           \/ TaskCreated(s) \/ TaskGuards(s) \/ TaskRuns(s) \/ TaskCancelled(s)
           \/ InvocationReleased(s)
    PROVE  BoundInv'
<1> USE DEF BoundInv
<1> DEFINE old == scope[s]
<1>1. /\ old \in ScopeRow /\ (RowHolds(old) => mutex = s) /\ RowGranted(old) /\ RowSettled(old)
      /\ scope \in [BoundScopes -> ScopeRow]
  BY DEF BoundTyped
<1>2. record \in Nat /\ cached \in Nat /\ registered.epoch \in Nat
  BY DEF BoundTyped
<1> DEFINE Settles(r) == /\ r \in ScopeRow /\ (RowHolds(r) => mutex' = s)
                         /\ RowGranted(r) /\ RowSettled(r)
           Ends == scope' = [scope EXCEPT ![s] = Gone] /\ (mutex' = mutex \/ ScopeLeaves(s))
<1>3. ASSUME Ends, UNCHANGED <<registered, grant>>, record' \in Nat, cached' \in Nat
      PROVE  BoundInv'
  BY <1>3, ScopeEnds
<1>4. ASSUME NEW r, Settles(r), scope' = [scope EXCEPT ![s] = r], UNCHANGED <<registered, grant>>,
             record' \in Nat, cached' \in Nat,
             mutex' = mutex \/ (mutex = "free" /\ mutex' = s) \/ ScopeLeaves(s)
      PROVE  BoundInv'
  BY <1>4, ScopeGoes
<1>5. CASE BindIssues(s)
  <2>1. /\ old.pc = "admit" /\ UNCHANGED <<registered, grant>>
        /\ record' \in Nat /\ cached' \in Nat
    BY <1>2, <1>5 DEF BindIssues, outside
  <2>2. CASE Ends
    BY <1>3, <2>1, <2>2
  <2>3. CASE ~Ends
    <3> DEFINE r == [old EXCEPT !.caller = HasCaller(s), !.pc = "check", !.next = "bound"]
    <3>1. scope' = [scope EXCEPT ![s] = r] /\ mutex' = mutex
      BY <1>1, <1>5, <2>3 DEF BindIssues, HasCaller, ScopeRow
    <3>2. /\ r \in ScopeRow
         /\ r.kind = old.kind /\ r.pc = "check" /\ r.next = "bound" /\ r.work = old.work
      <4>1. ASSUME NEW b \in BOOLEAN
            PROVE  /\ [old EXCEPT !.caller = b, !.pc = "check", !.next = "bound"] \in ScopeRow
                   /\ [old EXCEPT !.caller = b, !.pc = "check", !.next = "bound"].kind = old.kind
                   /\ [old EXCEPT !.caller = b, !.pc = "check", !.next = "bound"].work = old.work
        BY <1>1 DEF ScopeRow, ScopePcs, ScopeNexts
      <4>2. HasCaller(s) \in BOOLEAN
        BY DEF HasCaller
      <4>3. r.pc = "check" /\ r.next = "bound"
        BY <1>1 DEF ScopeRow
      <4> QED BY <4>1, <4>2, <4>3
    <3> HIDE DEF r
    <3>3. Settles(r)
      BY <1>1, <2>1, <3>1, <3>2 DEF RowHolds, RowGranted, RowSettled, NeedsGrant
    <3> QED BY <1>4, <2>1, <3>1, <3>3
  <2> QED BY <2>2, <2>3
<1>6. CASE CheckEnters(s)
  <2>1. /\ old.pc = "check" /\ UNCHANGED <<registered, grant>>
        /\ record' \in Nat /\ cached' \in Nat
    BY <1>2, <1>6 DEF CheckEnters, outside
  <2>2. CASE Ends
    BY <1>3, <2>1, <2>2
  <2>3. CASE ~Ends
    <3> DEFINE r == [old EXCEPT !.pc = "auth"]
    <3>1. scope' = [scope EXCEPT ![s] = r] /\ mutex' = mutex
      BY <1>1, <1>6, <2>3 DEF CheckEnters, Step, Fails, ScopeRow
    <3>2. /\ r \in ScopeRow
         /\ r.kind = old.kind /\ r.pc = "auth" /\ r.next = old.next /\ r.work = old.work
      BY <1>1, <1>2 DEF ScopeRow, ScopePcs, ScopeNexts
    <3> HIDE DEF r
    <3>3. Settles(r)
      BY <1>1, <2>1, <3>1, <3>2 DEF RowHolds, RowGranted, RowSettled, NeedsGrant
    <3> QED BY <1>4, <2>1, <3>1, <3>3
  <2> QED BY <2>2, <2>3
<1>7. CASE CheckPasses(s)
  <2>1. /\ old.pc = "auth" /\ UNCHANGED <<registered, grant>>
        /\ record' \in Nat /\ cached' \in Nat
    BY <1>2, <1>7 DEF CheckPasses, outside
  <2>2. CASE Ends
    BY <1>3, <2>1, <2>2
  <2>3. CASE ~Ends
    <3> DEFINE r == [old EXCEPT !.pc = old.next, !.next = "none"]
    <3>1. scope' = [scope EXCEPT ![s] = r] /\ mutex' = mutex /\ Authorized(s)
      BY <1>1, <1>7, <2>3 DEF CheckPasses, Fails, ScopeRow
    <3>2. /\ r \in ScopeRow
         /\ r.kind = old.kind /\ r.pc = old.next /\ r.next = "none" /\ r.work = old.work
      BY <1>1, <1>2 DEF ScopeRow, ScopePcs, ScopeNexts
    <3> HIDE DEF r
    <3>3. Settles(r)
      BY <1>1, <2>1, <3>1, <3>2 DEF RowHolds, RowGranted, RowSettled, NeedsGrant, Authorized, ScopeRow, ScopeNexts
    <3> QED BY <1>4, <2>1, <3>1, <3>3
  <2> QED BY <2>2, <2>3
<1>8. CASE HandlerReturns(s)
  <2>1. /\ old.pc = "bound" /\ UNCHANGED <<registered, grant>>
        /\ record' \in Nat /\ cached' \in Nat
    BY <1>2, <1>8 DEF HandlerReturns, outside
  <2>2. Ends
    BY <1>8 DEF HandlerReturns
  <2> QED BY <1>3, <2>1, <2>2
<1>9. CASE PortCalled(s)
  <2>1. /\ old.pc = "bound" /\ UNCHANGED <<registered, grant>>
        /\ record' \in Nat /\ cached' \in Nat
    BY <1>2, <1>9 DEF PortCalled, outside
  <2> DEFINE r == [old EXCEPT !.pc = "delegate"]
  <2>2. scope' = [scope EXCEPT ![s] = r] /\ mutex' = mutex
    BY <1>1, <1>9 DEF PortCalled, Step, ScopeRow
  <2>3. /\ r \in ScopeRow
       /\ r.kind = old.kind /\ r.pc = "delegate" /\ r.next = old.next /\ r.work = old.work
    BY <1>1, <1>2 DEF ScopeRow, ScopePcs, ScopeNexts
  <2> HIDE DEF r
  <2>4. Settles(r)
    BY <1>1, <2>1, <2>2, <2>3 DEF RowHolds, RowGranted, RowSettled, NeedsGrant
  <2> QED BY <1>4, <2>1, <2>2, <2>4
<1>10. CASE PortAnswers(s)
  <2>1. /\ old.pc = "delegate" /\ UNCHANGED <<registered, grant>>
        /\ record' \in Nat /\ cached' \in Nat
    BY <1>2, <1>10 DEF PortAnswers, outside
  <2>2. CASE Ends
    BY <1>3, <2>1, <2>2
  <2>3. CASE ~Ends
    <3> DEFINE r == [NoScope EXCEPT !.pc = "answered"]
    <3>1. scope' = [scope EXCEPT ![s] = r] /\ mutex' = mutex
      BY <1>1, <1>10, <2>3 DEF PortAnswers, Fails, ScopeRow
    <3>2. /\ r \in ScopeRow
         /\ r.kind = NoScope.kind /\ r.pc = "answered" /\ r.next = NoScope.next /\ r.work = NoScope.work
      BY <1>1, <1>2 DEF ScopeRow, ScopePcs, ScopeNexts, NoScope
    <3> HIDE DEF r
    <3>3. Settles(r)
      BY <1>1, <2>1, <3>1, <3>2 DEF RowHolds, RowGranted, RowSettled, NeedsGrant, NoScope
    <3> QED BY <1>4, <2>1, <3>1, <3>3
  <2> QED BY <2>2, <2>3
<1>11. CASE RecordLocks(s)
  <2>1. /\ old.pc = "lock" /\ UNCHANGED <<registered, grant>>
        /\ record' \in Nat /\ cached' \in Nat
    BY <1>2, <1>11 DEF RecordLocks, outside
  <2> DEFINE r == [old EXCEPT !.pc = "check", !.next = "collection"]
  <2>2. scope' = [scope EXCEPT ![s] = r] /\ mutex = "free" /\ mutex' = s
    BY <1>1, <1>11 DEF RecordLocks, UnderGate, CheckThen, ScopeRow
  <2>3. /\ r \in ScopeRow
       /\ r.kind = old.kind /\ r.pc = "check" /\ r.next = "collection" /\ r.work = old.work
    BY <1>1, <1>2 DEF ScopeRow, ScopePcs, ScopeNexts
  <2> HIDE DEF r
  <2>4. Settles(r)
    BY <1>1, <2>1, <2>2, <2>3 DEF RowHolds, RowGranted, RowSettled, NeedsGrant
  <2> QED BY <1>4, <2>1, <2>2, <2>4
<1>12. CASE CollectionOpened(s)
  <2>1. /\ old.pc = "collection" /\ UNCHANGED <<registered, grant>>
        /\ record' \in Nat /\ cached' \in Nat
    BY <1>2, <1>12 DEF CollectionOpened, outside
  <2>2. CASE Ends
    BY <1>3, <2>1, <2>2
  <2>3. CASE ~Ends
    <3> DEFINE r == [old EXCEPT !.pc = "worker"]
    <3>1. scope' = [scope EXCEPT ![s] = r] /\ mutex' = mutex
      BY <1>1, <1>12, <2>3 DEF CollectionOpened, Step, Fails, ScopeRow
    <3>2. /\ r \in ScopeRow
         /\ r.kind = old.kind /\ r.pc = "worker" /\ r.next = old.next /\ r.work = old.work
      BY <1>1, <1>2 DEF ScopeRow, ScopePcs, ScopeNexts
    <3> HIDE DEF r
    <3>3. Settles(r)
      BY <1>1, <2>1, <3>1, <3>2 DEF RowHolds, RowGranted, RowSettled, NeedsGrant
    <3> QED BY <1>4, <2>1, <3>1, <3>3
  <2> QED BY <2>2, <2>3
<1>13. CASE WorkerWrites(s)
  <2>1. /\ old.pc = "worker" /\ UNCHANGED <<registered, grant>>
        /\ record' \in Nat /\ cached' \in Nat
    BY <1>2, <1>13 DEF WorkerWrites, outside
  <2>2. CASE Ends
    BY <1>3, <2>1, <2>2
  <2>3. CASE ~Ends
    <3> DEFINE r == [old EXCEPT !.pc = "commit"]
    <3>1. scope' = [scope EXCEPT ![s] = r] /\ mutex' = mutex
      BY <1>1, <1>13, <2>3 DEF WorkerWrites, Step, Fails, ScopeRow
    <3>2. /\ r \in ScopeRow
         /\ r.kind = old.kind /\ r.pc = "commit" /\ r.next = old.next /\ r.work = old.work
      BY <1>1, <1>2 DEF ScopeRow, ScopePcs, ScopeNexts
    <3> HIDE DEF r
    <3>3. Settles(r)
      BY <1>1, <2>1, <3>1, <3>2 DEF RowHolds, RowGranted, RowSettled, NeedsGrant
    <3> QED BY <1>4, <2>1, <3>1, <3>3
  <2> QED BY <2>2, <2>3
<1>14. CASE WorkerCommits(s)
  <2>1. /\ old.pc = "commit" /\ UNCHANGED <<registered, grant>>
        /\ record' \in Nat /\ cached' \in Nat
    BY <1>2, <1>14 DEF WorkerCommits, outside
  <2>2. CASE Ends
    BY <1>3, <2>1, <2>2
  <2>3. CASE ~Ends
    <3> DEFINE r == [old EXCEPT !.pc = "check", !.next = "return"]
    <3>1. scope' = [scope EXCEPT ![s] = r] /\ ScopeLeaves(s)
      BY <1>1, <1>14, <2>3 DEF WorkerCommits, CheckThen, Fails, ScopeRow
    <3>2. /\ r \in ScopeRow
         /\ r.kind = old.kind /\ r.pc = "check" /\ r.next = "return" /\ r.work = old.work
      BY <1>1, <1>2 DEF ScopeRow, ScopePcs, ScopeNexts
    <3> HIDE DEF r
    <3>3. Settles(r)
      BY <1>1, <2>1, <3>1, <3>2 DEF RowHolds, RowGranted, RowSettled, NeedsGrant
    <3> QED BY <1>4, <2>1, <3>1, <3>3
  <2> QED BY <2>2, <2>3
<1>15. CASE CacheCalled(s)
  <2>1. /\ old.pc = "bound" /\ UNCHANGED <<registered, grant>>
        /\ record' \in Nat /\ cached' \in Nat
    BY <1>2, <1>15 DEF CacheCalled, outside
  <2> DEFINE r == [old EXCEPT !.pc = "check", !.next = "revision"]
  <2>2. scope' = [scope EXCEPT ![s] = r] /\ mutex' = mutex
    BY <1>1, <1>15 DEF CacheCalled, CheckThen, ScopeRow
  <2>3. /\ r \in ScopeRow
       /\ r.kind = old.kind /\ r.pc = "check" /\ r.next = "revision" /\ r.work = old.work
    BY <1>1, <1>2 DEF ScopeRow, ScopePcs, ScopeNexts
  <2> HIDE DEF r
  <2>4. Settles(r)
    BY <1>1, <2>1, <2>2, <2>3 DEF RowHolds, RowGranted, RowSettled, NeedsGrant
  <2> QED BY <1>4, <2>1, <2>2, <2>4
<1>16. CASE CacheRevisionRead(s)
  <2>1. /\ old.pc = "revision" /\ UNCHANGED <<registered, grant>>
        /\ record' \in Nat /\ cached' \in Nat
    BY <1>2, <1>16 DEF CacheRevisionRead, outside
  <2>2. CASE Ends
    BY <1>3, <2>1, <2>2
  <2>3. CASE ~Ends
    <3> DEFINE r == [old EXCEPT !.pc = "gate", !.expected = cached]
    <3>1. scope' = [scope EXCEPT ![s] = r] /\ mutex' = mutex
      BY <1>1, <1>16, <2>3 DEF CacheRevisionRead, Fails, ScopeRow
    <3>2. /\ r \in ScopeRow
         /\ r.kind = old.kind /\ r.pc = "gate" /\ r.next = old.next /\ r.work = old.work
      BY <1>1, <1>2 DEF ScopeRow, ScopePcs, ScopeNexts
    <3> HIDE DEF r
    <3>3. Settles(r)
      BY <1>1, <2>1, <3>1, <3>2 DEF RowHolds, RowGranted, RowSettled, NeedsGrant
    <3> QED BY <1>4, <2>1, <3>1, <3>3
  <2> QED BY <2>2, <2>3
<1>17. CASE CacheLocks(s)
  <2>1. /\ old.pc = "gate" /\ UNCHANGED <<registered, grant>>
        /\ record' \in Nat /\ cached' \in Nat
    BY <1>2, <1>17 DEF CacheLocks, outside
  <2> DEFINE r == [old EXCEPT !.pc = "assert"]
  <2>2. scope' = [scope EXCEPT ![s] = r] /\ (IF NeedsGrant(s) THEN mutex = "free" /\ mutex' = s ELSE mutex' = mutex)
    BY <1>1, <1>17 DEF CacheLocks, Step, ScopeRow
  <2>3. /\ r \in ScopeRow
       /\ r.kind = old.kind /\ r.pc = "assert" /\ r.next = old.next /\ r.work = old.work
    BY <1>1, <1>2 DEF ScopeRow, ScopePcs, ScopeNexts
  <2> HIDE DEF r
  <2>4. Settles(r)
    BY <1>1, <2>1, <2>2, <2>3 DEF RowHolds, RowGranted, RowSettled, NeedsGrant
  <2> QED BY <1>4, <2>1, <2>2, <2>4
<1>18. CASE CacheAsserted(s)
  <2>1. /\ old.pc = "assert" /\ UNCHANGED <<registered, grant>>
        /\ record' \in Nat /\ cached' \in Nat
    BY <1>2, <1>18 DEF CacheAsserted, outside
  <2>2. CASE Ends
    BY <1>3, <2>1, <2>2
  <2>3. CASE ~Ends
    <3> DEFINE r == [old EXCEPT !.pc = "put"]
    <3>1. scope' = [scope EXCEPT ![s] = r] /\ mutex' = mutex /\ CacheAdmitted(s)
      BY <1>1, <1>18, <2>3 DEF CacheAsserted, Step, Fails, ScopeRow
    <3>2. /\ r \in ScopeRow
         /\ r.kind = old.kind /\ r.pc = "put" /\ r.next = old.next /\ r.work = old.work
      BY <1>1, <1>2 DEF ScopeRow, ScopePcs, ScopeNexts
    <3> HIDE DEF r
    <3>3. Settles(r)
      BY <1>1, <2>1, <3>1, <3>2 DEF RowHolds, RowGranted, RowSettled, NeedsGrant, CacheAdmitted
    <3> QED BY <1>4, <2>1, <3>1, <3>3
  <2> QED BY <2>2, <2>3
<1>19. CASE CachePuts(s)
  <2>1. /\ old.pc = "put" /\ UNCHANGED <<registered, grant>>
        /\ record' \in Nat /\ cached' \in Nat
    BY <1>2, <1>19 DEF CachePuts, outside
  <2>2. CASE Ends
    BY <1>3, <2>1, <2>2
  <2>3. CASE ~Ends
    <3> DEFINE r == [old EXCEPT !.pc = "after"]
    <3>1. scope' = [scope EXCEPT ![s] = r] /\ mutex' = mutex
      BY <1>1, <1>19, <2>3 DEF CachePuts, Step, Fails, ScopeRow
    <3>2. /\ r \in ScopeRow
         /\ r.kind = old.kind /\ r.pc = "after" /\ r.next = old.next /\ r.work = old.work
      BY <1>1, <1>2 DEF ScopeRow, ScopePcs, ScopeNexts
    <3> HIDE DEF r
    <3>3. Settles(r)
      BY <1>1, <2>1, <3>1, <3>2 DEF RowHolds, RowGranted, RowSettled, NeedsGrant
    <3> QED BY <1>4, <2>1, <3>1, <3>3
  <2> QED BY <2>2, <2>3
<1>20. CASE CacheReturns(s)
  <2>1. /\ old.pc = "after" /\ UNCHANGED <<registered, grant>>
        /\ record' \in Nat /\ cached' \in Nat
    BY <1>2, <1>20 DEF CacheReturns, outside
  <2>2. CASE Ends
    BY <1>3, <2>1, <2>2
  <2>3. CASE ~Ends
    <3> DEFINE r == [old EXCEPT !.pc = "check", !.next = "return"]
    <3>1. scope' = [scope EXCEPT ![s] = r] /\ ScopeLeaves(s)
      BY <1>1, <1>20, <2>3 DEF CacheReturns, CheckThen, Fails, ScopeRow
    <3>2. /\ r \in ScopeRow
         /\ r.kind = old.kind /\ r.pc = "check" /\ r.next = "return" /\ r.work = old.work
      BY <1>1, <1>2 DEF ScopeRow, ScopePcs, ScopeNexts
    <3> HIDE DEF r
    <3>3. Settles(r)
      BY <1>1, <2>1, <3>1, <3>2 DEF RowHolds, RowGranted, RowSettled, NeedsGrant
    <3> QED BY <1>4, <2>1, <3>1, <3>3
  <2> QED BY <2>2, <2>3
<1>21. CASE TaskCreated(s)
  <2>1. /\ old.pc = "bound" /\ UNCHANGED <<registered, grant>>
        /\ record' \in Nat /\ cached' \in Nat
    BY <1>2, <1>21 DEF TaskCreated, outside
  <2>2. CASE Ends
    BY <1>3, <2>1, <2>2
  <2>3. CASE ~Ends
    <3> DEFINE r == [old EXCEPT !.work = "pending", !.pc = "task"]
    <3>1. scope' = [scope EXCEPT ![s] = r] /\ mutex' = mutex
      BY <1>1, <1>21, <2>3 DEF TaskCreated, ScopeRow
    <3>2. /\ r \in ScopeRow
         /\ r.kind = old.kind /\ r.pc = "task" /\ r.next = old.next /\ r.work = "pending"
      BY <1>1, <1>2 DEF ScopeRow, ScopePcs, ScopeNexts
    <3> HIDE DEF r
    <3>3. Settles(r)
      BY <1>1, <2>1, <3>1, <3>2 DEF RowHolds, RowGranted, RowSettled, NeedsGrant
    <3> QED BY <1>4, <2>1, <3>1, <3>3
  <2> QED BY <2>2, <2>3
<1>22. CASE TaskGuards(s)
  <2>1. /\ old.pc = "task" /\ UNCHANGED <<registered, grant>>
        /\ record' \in Nat /\ cached' \in Nat
    BY <1>2, <1>22 DEF TaskGuards, outside
  <2> DEFINE r == [old EXCEPT !.pc = "check", !.next = "start"]
  <2>2. scope' = [scope EXCEPT ![s] = r] /\ mutex' = mutex
    BY <1>1, <1>22 DEF TaskGuards, CheckThen, ScopeRow
  <2>3. /\ r \in ScopeRow
       /\ r.kind = old.kind /\ r.pc = "check" /\ r.next = "start" /\ r.work = old.work
    BY <1>1, <1>2 DEF ScopeRow, ScopePcs, ScopeNexts
  <2> HIDE DEF r
  <2>4. Settles(r)
    BY <1>1, <2>1, <2>2, <2>3 DEF RowHolds, RowGranted, RowSettled, NeedsGrant
  <2> QED BY <1>4, <2>1, <2>2, <2>4
<1>23. CASE TaskRuns(s)
  <2>1. /\ old.pc = "start" /\ UNCHANGED <<registered, grant>>
        /\ record' \in Nat /\ cached' \in Nat
    BY <1>2, <1>23 DEF TaskRuns, outside
  <2> DEFINE r == [old EXCEPT !.work = "none", !.pc = "check", !.next = "return"]
  <2>2. scope' = [scope EXCEPT ![s] = r] /\ mutex' = mutex
    BY <1>1, <1>23 DEF TaskRuns, ScopeRow
  <2>3. /\ r \in ScopeRow
       /\ r.kind = old.kind /\ r.pc = "check" /\ r.next = "return" /\ r.work = "none"
    BY <1>1, <1>2 DEF ScopeRow, ScopePcs, ScopeNexts
  <2> HIDE DEF r
  <2>4. Settles(r)
    BY <1>1, <2>1, <2>2, <2>3 DEF RowHolds, RowGranted, RowSettled, NeedsGrant
  <2> QED BY <1>4, <2>1, <2>2, <2>4
<1>24. ASSUME NEW k \in ScopeKinds, BindStarts(s, k) PROVE BoundInv'
  <2> DEFINE r == [NoScope EXCEPT !.kind = k, !.pc = "admit", !.open = TRUE,
                                  !.epoch = registered.epoch]
  <2>1. /\ UNCHANGED <<registered, grant>> /\ record' \in Nat /\ cached' \in Nat
        /\ scope' = [scope EXCEPT ![s] = r] /\ mutex' = mutex
    BY <1>2, <1>24 DEF BindStarts, outside
  <2>2. r \in ScopeRow /\ r.pc = "admit" /\ r.work = "none"
    BY <1>2, BoundServicesAssumption DEF ScopeRow, ScopePcs, ScopeNexts, NoScope
  <2> HIDE DEF r
  <2>3. Settles(r)
    BY <2>2 DEF RowHolds, RowGranted, RowSettled
  <2> QED BY <1>4, <2>1, <2>3
<1>25. CASE RecordCalled(s)
  <2>1. PICK e \in {record, 0} :
          scope' = [scope EXCEPT ![s].pc = "check", ![s].next = "lock", ![s].expected = e]
    BY <1>25 DEF RecordCalled
  <2> DEFINE r == [old EXCEPT !.pc = "check", !.next = "lock", !.expected = e]
  <2>2. /\ UNCHANGED <<registered, grant>> /\ record' \in Nat /\ cached' \in Nat
        /\ mutex' = mutex /\ old.pc = "bound"
    BY <1>2, <1>25 DEF RecordCalled, outside
  <2>3. scope' = [scope EXCEPT ![s] = r]
    BY <1>1, <2>1 DEF ScopeRow
  <2>4. /\ r \in ScopeRow
        /\ r.pc = "check" /\ r.next = "lock" /\ r.work = old.work
    <3>1. e \in Nat /\ "check" \in ScopePcs /\ "lock" \in ScopeNexts
      BY <1>2 DEF ScopePcs, ScopeNexts
    <3> QED BY <1>1, <3>1 DEF ScopeRow
  <2> HIDE DEF r
  <2>5. Settles(r)
    BY <1>1, <2>2, <2>4 DEF RowHolds, RowGranted, RowSettled
  <2> QED BY <1>4, <2>2, <2>3, <2>5
<1>26. CASE TaskCancelled(s)
  <2>1. [Gone EXCEPT !.work = CloseUnstarted(old.work)] = Gone
    <3>1. Gone \in ScopeRow /\ Gone.work = "none"
      BY DEF Gone, NoScope, ScopeRow, ScopePcs, ScopeNexts
    <3> QED BY <3>1 DEF CloseUnstarted, ScopeRow
  <2>2. /\ UNCHANGED <<registered, grant>> /\ record' \in Nat /\ cached' \in Nat
        /\ Ends
    BY <1>2, <1>26, <2>1 DEF TaskCancelled, outside
  <2> QED BY <1>3, <2>2
<1>27. CASE InvocationReleased(s)
  <2> DEFINE r == [old EXCEPT !.open = FALSE, !.caller = FALSE]
  <2>1. /\ UNCHANGED <<registered, grant>> /\ record' \in Nat /\ cached' \in Nat
        /\ mutex' = mutex
    BY <1>2, <1>27 DEF InvocationReleased, outside
  <2>2. scope' = [scope EXCEPT ![s] = r]
    BY <1>1, <1>27 DEF InvocationReleased, ScopeRow
  <2>3. /\ r \in ScopeRow
        /\ r.kind = old.kind /\ r.pc = old.pc /\ r.next = old.next /\ r.work = old.work
    BY <1>1 DEF ScopeRow
  <2> HIDE DEF r
  <2>4. Settles(r)
    BY <1>1, <2>1, <2>3 DEF RowHolds, RowGranted, RowSettled
  <2> QED BY <1>4, <2>1, <2>2, <2>4
<1> QED
  BY <1>5, <1>6, <1>7, <1>8, <1>9, <1>10, <1>11, <1>12, <1>13, <1>14, <1>15, <1>16, <1>17, <1>18, <1>19, <1>20, <1>21, <1>22, <1>23, <1>24, <1>25, <1>26, <1>27

\* What moves meanwhile: a grant is revoked under the gate only.
LEMMA BoundStep == BoundInv /\ [ServicesNext]_serviceVars => BoundInv'
<1> SUFFICES ASSUME BoundInv, [ServicesNext]_serviceVars PROVE BoundInv'
  OBVIOUS
<1> USE DEF BoundInv
<1>1. ASSUME NEW s \in BoundScopes, RowHolds(scope[s]) PROVE mutex # "free"
  BY <1>1, BoundServicesAssumption
<1>2. CASE GrantRevoked
  <2>1. ASSUME NEW s \in BoundScopes PROVE RowGranted(scope[s])'
    BY <1>1, <1>2 DEF GrantRevoked, RowGranted, RowHolds
  <2> QED BY <1>2, <2>1 DEF GrantRevoked, BoundTyped, RowHolds, RowSettled
<1>3. CASE GrantExpires
  BY <1>3 DEF GrantExpires, BoundTyped, RowHolds, RowGranted, RowSettled
<1>4. ASSUME UNCHANGED <<grant, mutex, record, cached, scope>>,
             registered' \in [on: BOOLEAN, epoch: Nat]
      PROVE  BoundInv'
  BY <1>4 DEF BoundTyped, RowHolds, RowGranted, RowSettled
<1>5. CASE \/ ModuleDisabled \/ ModuleEnabled \/ ServicesBuilt \/ LifetimeRevoked \/ ServicesClosed
           \/ OwnerWithdrawn \/ UNCHANGED serviceVars
  <2>1. UNCHANGED <<grant, mutex, record, cached, scope>>
    BY <1>5 DEF ModuleDisabled, ModuleEnabled, ServicesBuilt, LifetimeRevoked, ServicesClosed,
       OwnerWithdrawn, serviceVars
  <2>2. registered \in [on: BOOLEAN, epoch: Nat]
    BY DEF BoundTyped
  <2>3. \/ UNCHANGED registered
        \/ registered' = [registered EXCEPT !.on = FALSE]
        \/ registered' = [on |-> TRUE, epoch |-> registered.epoch + 1]
    BY <1>5 DEF ModuleDisabled, ModuleEnabled, ServicesBuilt, LifetimeRevoked, ServicesClosed,
       OwnerWithdrawn, serviceVars
  <2>4. registered' \in [on: BOOLEAN, epoch: Nat]
    <3>1. CASE registered' = [registered EXCEPT !.on = FALSE]
      BY <2>2, <3>1
    <3>2. CASE registered' = [on |-> TRUE, epoch |-> registered.epoch + 1]
      <4>1. registered.epoch + 1 \in Nat
        BY <2>2
      <4> QED BY <3>2, <4>1
    <3> QED BY <2>2, <2>3, <3>1, <3>2
  <2> QED BY <1>4, <2>1, <2>4
<1> QED BY <1>2, <1>3, <1>5, ScopeStep DEF ServicesNext

\* A record changes in WorkerCommits only, a cache row in CachePuts only, and
\* both under the gate wherever the invocation acts under a grant.
LEMMA BoundWrites ==
    ASSUME BoundInv, ServicesNext PROVE RecordWriteIsCurrent /\ CacheWriteIsGranted
<1> USE DEF BoundInv
<1>1. CASE record' = record /\ cached' = cached
  BY <1>1 DEF RecordWriteIsCurrent, CacheWriteIsGranted
<1>2. CASE ~(record' = record /\ cached' = cached)
  <2>1. \E s \in BoundScopes : WorkerCommits(s) \/ CachePuts(s)
    BY <1>2 DEF ServicesNext, outside, BindStarts, BindIssues, CheckEnters, CheckPasses,
       HandlerReturns, PortCalled, PortAnswers, RecordCalled, RecordLocks, CollectionOpened,
       WorkerWrites, CacheCalled, CacheRevisionRead, CacheLocks, CacheAsserted, CacheReturns,
       TaskCreated, TaskGuards, TaskRuns, TaskCancelled, InvocationReleased, ModuleDisabled,
       ModuleEnabled, ServicesBuilt, LifetimeRevoked, ServicesClosed, OwnerWithdrawn,
       GrantRevoked, GrantExpires
  <2>2. PICK s \in BoundScopes : WorkerCommits(s) \/ CachePuts(s)
    BY <2>1
  <2>3. CASE WorkerCommits(s)
    <3>1. scope[s].pc = "commit" /\ cached' = cached /\ (record' # record => CommitGuard(s))
      BY <2>3 DEF WorkerCommits
    <3> QED
      BY <3>1 DEF CommitGuard, WriteFence, RecordWriteIsCurrent, CacheWriteIsGranted, RowGranted,
         NeedsGrant
  <2>4. CASE CachePuts(s)
    <3>1. scope[s].pc = "put" /\ record' = record /\ (cached' # cached => Deadline(s))
      BY <2>4 DEF CachePuts
    <3>2. grant \in {"active", "revoked", "expired"}
      BY DEF BoundTyped
    <3> QED
      BY <3>1, <3>2 DEF Deadline, RecordWriteIsCurrent, CacheWriteIsGranted, RowGranted, NeedsGrant
  <2> QED BY <2>2, <2>3, <2>4
<1> QED BY <1>1, <1>2

\* RecordCollection, _ScopedCache and _OwnedTasks, for any number of invocations
\* of every kind: no write without its authority, no work lost.
THEOREM ServicesBound == MCSpec => ServicesStayBound
<1> DEFINE Kept == service = "bound" => BoundInv
           Bound == service = "bound" => WorkIsSettled' /\ RecordWriteIsCurrent /\ CacheWriteIsGranted
<1>1. MCInit => Kept
  BY BoundInitInv DEF MCInit
<1>2. Kept /\ [MCNext]_<<service, bindVars, cacheVars, jobVars, serviceVars, migrationVars>>
        => Kept'
  BY BoundStep DEF MCNext
<1>3. ASSUME Kept, MCNext, serviceVars' # serviceVars PROVE Bound
  <2> SUFFICES ASSUME service = "bound" PROVE WorkIsSettled' /\ RecordWriteIsCurrent /\ CacheWriteIsGranted
    OBVIOUS
  <2>1. ServicesNext /\ BoundInv
    BY <1>3 DEF MCNext
  <2>2. BoundInv'
    BY <2>1, BoundStep
  <2> QED BY <2>1, <2>2, BoundWrites DEF BoundInv, RowSettled, WorkIsSettled
<1>4. Kept /\ [MCNext]_<<service, bindVars, cacheVars, jobVars, serviceVars, migrationVars>>
        => [Bound]_serviceVars
  BY <1>3 DEF serviceVars
<1> QED BY <1>1, <1>2, <1>4, PTL DEF MCSpec, ServicesStayBound

\* ResourceCache: whoever is between the inspection and the registration
\* of a store holds the manager's lock; leases and pins are taken while
\* the lock is free.  So the victim that was found neither leased nor
\* pinned when its tombstone was written is so when its file is removed.

LockPcs == {"inspect", "expired", "lru", "mark expired", "mark lru", "remove expired",
            "remove lru", "finish expired", "finish lru", "write", "register", "remember"}
MarkPcs == {"mark expired", "mark lru"}
RemovePcs == {"remove expired", "remove lru"}
CachePcs == {"idle", "store", "plain", "look", "read", "snapshot", "resolve", "confirm",
             "page", "put"} \cup LockPcs
JobRow == [pc: CachePcs, asset: Assets \cup {"none"}, victim: Assets \cup {"none"},
           visited: SUBSET Assets, had: BOOLEAN, managed: BOOLEAN, same: BOOLEAN, page: BOOLEAN]

CacheTyped ==
    /\ entry \in [Assets -> {"none", "live", "evicting"}]
    /\ readers \in [CacheTasks -> SUBSET Assets]
    /\ job \in [CacheTasks -> JobRow]
    /\ PinnedAssets \subseteq Assets

\* What task t may rely on in its coroutine r.
RowHeld(t, r) ==
    /\ r.pc # "idle" => r.asset \in Assets
    /\ r.pc \in LockPcs => cacheLock = t
    /\ r.pc \in MarkPcs => r.victim \in Assets
    /\ r.pc = "register" => r.asset \in files
    /\ r.pc \in RemovePcs => /\ r.victim \in Assets /\ r.victim \notin Leased
                             /\ entry[r.victim] = "evicting"

CacheInv == CacheTyped /\ ManagedHasFile /\ \A t \in CacheTasks : RowHeld(t, job[t])

\* A step of task t meets no other task that holds the lock, or leaves alone what
\* the holder relies on.
Apart(t) ==
    \/ cacheLock \in {"free", t}
    \/ UNCHANGED <<entry, cacheLock>> /\ files \subseteq files' /\ Leased' \subseteq Leased

\* Same step of the same asset and victim.
Alike(q, r) == q.pc = r.pc /\ q.asset = r.asset /\ q.victim = r.victim

\* An empty cache that nobody uses.
LEMMA CacheInitInv == CacheInit => CacheInv
<1> SUFFICES ASSUME CacheInit PROVE CacheInv
  OBVIOUS
<1>1. NoJob \in JobRow /\ NoJob.pc = "idle"
  BY DEF NoJob, JobRow, CachePcs
<1>2. CacheTyped
  BY <1>1 DEF CacheInit, CacheTyped, PinnedAssets
<1>3. ManagedHasFile
  BY DEF CacheInit, ManagedHasFile, PinnedAssets
<1>4. \A t \in CacheTasks : RowHeld(t, job[t])
  BY <1>1 DEF CacheInit, RowHeld, LockPcs, MarkPcs, RemovePcs
<1> QED BY <1>2, <1>3, <1>4 DEF CacheInv

\* A new revision only makes snapshots differ.
LEMMA RevisionsOnly ==
    ASSUME NEW j \in [CacheTasks -> JobRow], NEW a
    PROVE  /\ Changed(j, a) \in [CacheTasks -> JobRow] /\ Repaged(j) \in [CacheTasks -> JobRow]
           /\ \A u \in CacheTasks : Alike(Changed(j, a)[u], j[u]) /\ Alike(Repaged(j)[u], j[u])
<1>1. ASSUME NEW u \in CacheTasks
      PROVE  [j[u] EXCEPT !.same = FALSE] \in JobRow /\ Alike([j[u] EXCEPT !.same = FALSE], j[u])
  BY DEF JobRow, Alike
<1>2. ASSUME NEW u \in CacheTasks
      PROVE  /\ Changed(j, a)[u] \in {j[u], [j[u] EXCEPT !.same = FALSE]}
             /\ Repaged(j)[u] \in {j[u], [j[u] EXCEPT !.same = FALSE]}
  BY DEF Changed, Repaged
<1>3. ASSUME NEW u \in CacheTasks
      PROVE  /\ Changed(j, a)[u] \in JobRow /\ Repaged(j)[u] \in JobRow
             /\ Alike(Changed(j, a)[u], j[u]) /\ Alike(Repaged(j)[u], j[u])
  BY <1>1, <1>2 DEF Alike
<1> QED BY <1>3 DEF Changed, Repaged

\* What task t makes of the coroutines: its own becomes r.
Becomes(t, r) ==
    /\ job' \in [CacheTasks -> JobRow]
    /\ \A u \in CacheTasks : Alike(job'[u], IF u = t THEN r ELSE job[u])

LEMMA BecomesRow ==
    ASSUME CacheInv, NEW t \in CacheTasks, NEW r \in JobRow, NEW a,
           \/ job' = [job EXCEPT ![t] = r]
           \/ job' = Changed([job EXCEPT ![t] = r], a)
           \/ job' = Repaged([job EXCEPT ![t] = r])
    PROVE  Becomes(t, r)
<1> DEFINE j == [job EXCEPT ![t] = r]
<1>1. j \in [CacheTasks -> JobRow] /\ \A u \in CacheTasks : j[u] = IF u = t THEN r ELSE job[u]
  BY DEF CacheInv, CacheTyped
<1>2. job' = j \/ job' = Changed(j, a) \/ job' = Repaged(j)
  OBVIOUS
<1> HIDE DEF j
<1>3. job' \in [CacheTasks -> JobRow] /\ \A u \in CacheTasks : Alike(job'[u], j[u])
  BY <1>1, <1>2, RevisionsOnly DEF Alike
<1> QED BY <1>1, <1>3 DEF Becomes, Alike

\* A step of task t that turns its coroutine into one that may rely on the new
\* state keeps the invariant.
LEMMA TaskGoes ==
    ASSUME CacheInv, NEW t \in CacheTasks, NEW r \in JobRow, Becomes(t, r), Apart(t),
           entry' \in [Assets -> {"none", "live", "evicting"}],
           readers' \in [CacheTasks -> SUBSET Assets],
           ManagedHasFile', PinnedAssets' \subseteq Assets,
           r.pc # "idle" => r.asset \in Assets,
           r.pc \in LockPcs => cacheLock' = t,
           r.pc \in MarkPcs => r.victim \in Assets,
           r.pc = "register" => r.asset \in files',
           r.pc \in RemovePcs => /\ r.victim \in Assets /\ r.victim \notin Leased'
                                 /\ entry'[r.victim] = "evicting"
    PROVE  CacheInv'
<1>1. CacheTyped'
  BY DEF CacheTyped, Becomes
<1>2. ASSUME NEW u \in CacheTasks PROVE RowHeld(u, job[u])'
  <2>1. CASE u = t
    BY <2>1 DEF Becomes, Alike, RowHeld
  <2>2. CASE u # t
    <3>1. Alike(job'[u], job[u]) /\ RowHeld(u, job[u])
      BY <2>2 DEF Becomes, CacheInv
    <3>2. job[u].pc \in LockPcs => cacheLock \notin {"free", t}
      BY <2>2, <3>1, CacheAssumption DEF RowHeld
    <3>3. job[u].pc \in {"register"} \cup RemovePcs => job[u].pc \in LockPcs
      BY DEF LockPcs, RemovePcs
    <3> QED BY <3>1, <3>2, <3>3 DEF RowHeld, Alike, Apart
  <2> QED BY <2>1, <2>2
<1> QED BY <1>1, <1>2 DEF CacheInv

\* A step that takes no bytes and writes no tombstone, and goes on as r.
LEMMA TaskMoves ==
    ASSUME CacheInv, NEW t \in CacheTasks, NEW r \in JobRow, Becomes(t, r), UNCHANGED entry,
           files \subseteq files', pins' \subseteq pins,
           cacheLock' = cacheLock \/ cacheLock \in {"free", t},
           \/ UNCHANGED readers
           \/ readers' = [readers EXCEPT ![t] = {}]
           \/ cacheLock = "free" /\ readers' \in [CacheTasks -> SUBSET Assets],
           r.pc \notin RemovePcs,
           r.pc # "idle" => r.asset \in Assets,
           r.pc \in LockPcs => cacheLock' = t,
           r.pc \in MarkPcs => r.victim \in Assets,
           r.pc = "register" => r.asset \in files'
    PROVE  CacheInv'
<1>1. readers' \in [CacheTasks -> SUBSET Assets]
  BY DEF CacheInv, CacheTyped
<1>2. cacheLock = "free" \/ Leased' \subseteq Leased
  <2>1. CASE UNCHANGED readers
    BY <2>1 DEF Leased
  <2>2. CASE readers' = [readers EXCEPT ![t] = {}]
    <3>1. \A u \in CacheTasks : readers'[u] \subseteq readers[u]
      BY <2>2 DEF CacheInv, CacheTyped
    <3> QED BY <3>1 DEF Leased
  <2> QED BY <2>1, <2>2
<1>3. Apart(t)
  BY <1>2 DEF Apart
<1>4. ManagedHasFile' /\ PinnedAssets' \subseteq Assets
  BY DEF CacheInv, CacheTyped, ManagedHasFile, PinnedAssets
<1>5. entry' \in [Assets -> {"none", "live", "evicting"}]
  BY DEF CacheInv, CacheTyped
<1> QED BY <1>1, <1>3, <1>4, <1>5, TaskGoes

\* The coroutine of t ends.
LEMMA TaskEnds ==
    ASSUME CacheInv, NEW t \in CacheTasks, EndsJob(t), UNCHANGED entry,
           files \subseteq files', pins' \subseteq pins,
           cacheLock' = cacheLock \/ cacheLock \in {"free", t},
           UNCHANGED readers \/ readers' = [readers EXCEPT ![t] = {}]
    PROVE  CacheInv'
<1>1. NoJob \in JobRow /\ NoJob.pc = "idle"
  BY DEF NoJob, JobRow, CachePcs
<1>2. NoJob.pc \notin LockPcs \cup RemovePcs \cup MarkPcs \cup {"register"}
  BY <1>1 DEF LockPcs, RemovePcs, MarkPcs
<1>3. Becomes(t, NoJob)
  BY <1>1, BecomesRow DEF EndsJob
<1> QED BY <1>1, <1>2, <1>3, TaskMoves

\* The coroutine of t goes on to step p, its asset and victim as they are.
LEMMA TaskMovesOn ==
    ASSUME CacheInv, NEW t \in CacheTasks, NEW p \in CachePcs, Moves(t, p), UNCHANGED entry,
           files \subseteq files', pins' \subseteq pins,
           cacheLock' = cacheLock \/ cacheLock \in {"free", t},
           \/ UNCHANGED readers
           \/ readers' = [readers EXCEPT ![t] = {}]
           \/ cacheLock = "free" /\ readers' \in [CacheTasks -> SUBSET Assets],
           p \notin RemovePcs \cup MarkPcs \cup {"register"}, job[t].pc # "idle",
           p \in LockPcs => cacheLock' = t
    PROVE  CacheInv'
<1> DEFINE r == [job[t] EXCEPT !.pc = p]
<1>1. job[t] \in JobRow /\ job \in [CacheTasks -> JobRow] /\ job[t].asset \in Assets
  BY DEF CacheInv, CacheTyped, RowHeld
<1>2. job' = [job EXCEPT ![t] = r]
  BY <1>1 DEF Moves, JobRow
<1>3. r \in JobRow /\ r.pc = p /\ r.asset \in Assets
  BY <1>1 DEF JobRow
<1> HIDE DEF r
<1>4. Becomes(t, r)
  BY <1>2, <1>3, BecomesRow
<1> QED BY <1>3, <1>4, TaskMoves

\* A coroutine of t begins with step p for asset a.
LEMMA TaskBegins ==
    ASSUME CacheInv, NEW t \in CacheTasks, NEW a \in Assets, NEW p \in CachePcs \ LockPcs,
           NEW g \in BOOLEAN,
           job' = [job EXCEPT ![t] = [NoJob EXCEPT !.pc = p, !.asset = a, !.page = g]],
           UNCHANGED <<entry, pins, cacheLock>>, files \subseteq files',
           \/ UNCHANGED readers
           \/ readers' = [readers EXCEPT ![t] = {}]
           \/ cacheLock = "free" /\ readers' \in [CacheTasks -> SUBSET Assets]
    PROVE  CacheInv'
<1> DEFINE r == [NoJob EXCEPT !.pc = p, !.asset = a, !.page = g]
<1>1. NoJob \in JobRow
  BY DEF NoJob, JobRow, CachePcs
<1>2. r \in JobRow /\ r.pc = p /\ r.asset \in Assets
  BY <1>1 DEF JobRow
<1> HIDE DEF r
<1>3. Becomes(t, r)
  BY <1>2, BecomesRow DEF r
<1> QED BY <1>2, <1>3, TaskMoves DEF LockPcs, MarkPcs, RemovePcs

\* store, up to the room it makes and the file it writes.
LEMMA StoreStep ==
    ASSUME CacheInv, NEW t \in CacheTasks,
           \/ StoreEnters(t) \/ StoreInspects(t) \/ RoomPicks(t) \/ RoomPassEnds(t)
           \/ StoreWrites(t) \/ StoreRemembers(t) \/ StoreRefused(t)
    PROVE  CacheInv'
<1> DEFINE old == job[t]
<1>1. old \in JobRow /\ RowHeld(t, old) /\ job \in [CacheTasks -> JobRow]
  BY DEF CacheInv, CacheTyped
<1>2. CASE StoreEnters(t)
  <2> DEFINE r == [old EXCEPT !.pc = "inspect"]
  <2>1. UNCHANGED <<entry, files, pins, readers>> /\ old.pc = "store" /\ cacheLock = "free" /\ cacheLock' = t
    BY <1>1, <1>2 DEF StoreEnters, Moves
  <2>2. /\ r \in JobRow
        /\ r.pc = "inspect" /\ r.asset = old.asset /\ old.pc # "idle"
    BY <1>1, <2>1 DEF JobRow, CachePcs, LockPcs
  <2>3. Becomes(t, r)
    BY <1>1, <2>1, <2>2, <1>2, BecomesRow DEF StoreEnters, Moves, JobRow
  <2> HIDE DEF r
  <2> QED BY <1>1, <2>1, <2>2, <2>3, <1>2, TaskMoves DEF RowHeld, LockPcs, MarkPcs, RemovePcs
<1>3. CASE StoreInspects(t)
  <2>1. UNCHANGED <<entry, files, pins, readers>> /\ old.pc = "inspect"
    BY <1>3 DEF StoreInspects
  <2>2. cacheLock = t
    BY <1>1, <2>1 DEF RowHeld, LockPcs
  <2>3. CASE Unlocks(t)
    BY <2>1, <2>2, <2>3, TaskEnds DEF Unlocks
  <2>4. CASE ~Unlocks(t)
    <3> DEFINE p == IF Indexed(old.asset) /\ entry[old.asset] = "none" THEN "write" ELSE "expired"
               r == [old EXCEPT !.pc = p, !.had = Indexed(old.asset), !.managed = entry[old.asset] # "none"]
    <3>1. job' = [job EXCEPT ![t] = r] /\ UNCHANGED cacheLock
      BY <1>1, <2>4, <1>3 DEF StoreInspects, JobRow
    <3>2. p \in {"write", "expired"} /\ Indexed(old.asset) \in BOOLEAN
          /\ (entry[old.asset] # "none") \in BOOLEAN
      BY DEF Indexed
    <3>3. ASSUME NEW h \in BOOLEAN, NEW g \in BOOLEAN, NEW q \in {"write", "expired"}
          PROVE  /\ [old EXCEPT !.pc = q, !.had = h, !.managed = g] \in JobRow
                 /\ [old EXCEPT !.pc = q, !.had = h, !.managed = g].pc = q
                 /\ [old EXCEPT !.pc = q, !.had = h, !.managed = g].asset = old.asset
      BY <1>1 DEF JobRow, CachePcs, LockPcs
    <3>4. r \in JobRow /\ r.pc \in {"write", "expired"} /\ r.asset = old.asset
      BY <3>2, <3>3, ZenonT(60)
    <3>6. old.asset \in Assets
      BY <1>1, <2>1 DEF RowHeld
    <3> HIDE DEF r
    <3>5. Becomes(t, r)
      BY <3>1, <3>4, BecomesRow
    <3> QED BY <2>1, <2>2, <3>1, <3>4, <3>5, <3>6, TaskMoves DEF LockPcs, MarkPcs, RemovePcs
  <2> QED BY <2>3, <2>4
<1>4. CASE RoomPicks(t)
  <2>1. PICK a \in Candidates(t, job[t].pc = "expired") :
          job' = [job EXCEPT ![t].victim = a, ![t].visited = @ \cup {a},
                     ![t].pc = IF job[t].pc = "expired" THEN "mark expired" ELSE "mark lru"]
    BY <1>4 DEF RoomPicks
  <2>2. a \in Assets
    BY DEF Candidates
  <2> DEFINE p == IF old.pc = "expired" THEN "mark expired" ELSE "mark lru"
             r == [old EXCEPT !.victim = a, !.visited = old.visited \cup {a}, !.pc = p]
  <2>3. UNCHANGED <<entry, files, pins, readers, cacheLock>> /\ old.pc \in {"expired", "lru"}
    BY <1>4 DEF RoomPicks
  <2>4. job' = [job EXCEPT ![t] = r]
    BY <1>1, <2>1 DEF JobRow
  <2>5. r \in JobRow /\ r.pc \in MarkPcs /\ r.victim = a /\ r.asset = old.asset
    BY <1>1, <2>2 DEF JobRow, CachePcs, LockPcs, MarkPcs
  <2> HIDE DEF r, p
  <2>6. Becomes(t, r)
    BY <2>4, <2>5, BecomesRow
  <2>7. cacheLock = t /\ old.asset \in Assets
    BY <1>1, <2>3 DEF RowHeld, LockPcs
  <2> QED BY <2>2, <2>3, <2>5, <2>6, <2>7, TaskMoves DEF MarkPcs, RemovePcs
<1>5. CASE RoomPassEnds(t)
  <2>1. UNCHANGED <<entry, files, pins, readers>> /\ old.pc \in {"expired", "lru"}
    BY <1>5 DEF RoomPassEnds
  <2>2. cacheLock = t
    BY <1>1, <2>1 DEF RowHeld, LockPcs
  <2>3. CASE Unlocks(t)
    BY <2>1, <2>2, <2>3, TaskEnds DEF Unlocks
  <2>4. CASE ~Unlocks(t)
    <3>1. PICK p \in {"write", "lru"} : Moves(t, p) /\ UNCHANGED cacheLock
      BY <2>4, <1>5 DEF RoomPassEnds
    <3> QED BY <1>1, <2>1, <2>2, <3>1, TaskMovesOn DEF LockPcs, MarkPcs, RemovePcs, CachePcs
  <2> QED BY <2>3, <2>4
<1>6. CASE StoreWrites(t)
  <2> DEFINE p == IF old.had /\ ~old.managed THEN "remember" ELSE "register"
             r == [old EXCEPT !.pc = p]
  <2>1. /\ UNCHANGED <<entry, pins, readers, cacheLock>> /\ old.pc = "write"
        /\ files' = files \cup {old.asset}
    BY <1>6 DEF StoreWrites
  <2>2. job' = [job EXCEPT ![t] = r] \/ job' = Changed([job EXCEPT ![t] = r], old.asset)
    BY <1>6 DEF StoreWrites
  <2>3. r \in JobRow /\ r.pc \in {"remember", "register"} /\ r.asset = old.asset
    BY <1>1 DEF JobRow, CachePcs, LockPcs
  <2> HIDE DEF r, p
  <2>4. Becomes(t, r)
    BY <2>2, <2>3, BecomesRow
  <2>5. cacheLock = t /\ old.asset \in Assets
    BY <1>1, <2>1 DEF RowHeld, LockPcs
  <2> QED BY <2>1, <2>3, <2>4, <2>5, TaskMoves DEF LockPcs, MarkPcs, RemovePcs
<1>7. CASE StoreRemembers(t)
  <2>1. UNCHANGED <<entry, files, pins, readers>> /\ old.pc = "remember"
    BY <1>7 DEF StoreRemembers
  <2>2. cacheLock = t
    BY <1>1, <2>1 DEF RowHeld, LockPcs
  <2>3. CASE EndsJob(t)
    BY <2>1, <2>2, <2>3, TaskEnds
  <2>4. CASE ~EndsJob(t)
    <3> DEFINE r == [NoJob EXCEPT !.pc = "page", !.asset = old.asset]
    <3>1. job' = [job EXCEPT ![t] = r]
      BY <2>4, <1>7 DEF StoreRemembers
    <3>2. old.asset \in Assets
      BY <1>1, <2>1 DEF RowHeld
    <3>3. r \in JobRow /\ r.pc = "page" /\ r.asset \in Assets
      BY <3>2 DEF NoJob, JobRow, CachePcs
    <3> HIDE DEF r
    <3>4. Becomes(t, r)
      BY <3>1, <3>3, BecomesRow
    <3> QED BY <2>1, <2>2, <3>3, <3>4, TaskMoves DEF LockPcs, MarkPcs, RemovePcs
  <2> QED BY <2>3, <2>4
<1>8. CASE StoreRefused(t)
  <2>1. UNCHANGED <<entry, files, pins, readers>> /\ old.pc \in LockPcs /\ Unlocks(t)
    BY <1>8 DEF StoreRefused, LockPcs
  <2>2. cacheLock = t
    BY <1>1, <2>1 DEF RowHeld
  <2> QED BY <2>1, <2>2, TaskEnds DEF Unlocks
<1> QED BY <1>2, <1>3, <1>4, <1>5, <1>6, <1>7, <1>8

\* _evict and register_managed: tombstones, files and entries, under the lock.
LEMMA EvictStep ==
    ASSUME CacheInv, NEW t \in CacheTasks,
           EvictMarks(t) \/ EvictRemoves(t) \/ EvictFinishes(t) \/ RegisterManaged(t)
    PROVE  CacheInv'
<1> DEFINE old == job[t]
<1>1. old \in JobRow /\ RowHeld(t, old) /\ job \in [CacheTasks -> JobRow]
  BY DEF CacheInv, CacheTyped
<1>2. CASE EvictMarks(t)
  <2>1. UNCHANGED <<files, pins, readers, cacheLock>> /\ old.pc \in MarkPcs
    BY <1>2 DEF EvictMarks, MarkPcs
  <2>2. cacheLock = t /\ old.victim \in Assets /\ old.asset \in Assets
    BY <1>1, <2>1 DEF RowHeld, LockPcs, MarkPcs
  <2>3. CASE Markable(t)
    <3>1. PICK p \in RemovePcs : Moves(t, p)
      BY <2>3, <1>2 DEF EvictMarks, RemovePcs
    <3> DEFINE r == [old EXCEPT !.pc = p]
    <3>2. entry' = [entry EXCEPT ![old.victim] = "evicting"]
      BY <2>3, <1>2 DEF EvictMarks, Tombstoned
    <3>3. r \in JobRow /\ r.pc = p /\ r.victim = old.victim /\ r.asset = old.asset
      BY <1>1 DEF JobRow, CachePcs, LockPcs, RemovePcs
    <3>4. job' = [job EXCEPT ![t] = r]
      BY <1>1, <3>1 DEF Moves, JobRow
    <3> HIDE DEF r
    <3>5. Becomes(t, r)
      BY <3>3, <3>4, BecomesRow
    <3>6. entry' \in [Assets -> {"none", "live", "evicting"}] /\ entry'[old.victim] = "evicting"
      BY <2>2, <3>2 DEF CacheInv, CacheTyped
    <3>7. \A a \in Assets \ {old.victim} : entry'[a] = entry[a]
      BY <3>2 DEF CacheInv, CacheTyped
    <3>8. old.victim \notin Leased' /\ old.victim \notin PinnedAssets
      BY <2>1, <2>3 DEF Markable, Leased
    <3>9. ManagedHasFile' /\ PinnedAssets' \subseteq Assets
      <4>1. \A a \in Assets : entry'[a] = "live" => a \in files'
        BY <2>1, <3>6, <3>7 DEF CacheInv, ManagedHasFile
      <4>2. \A a \in PinnedAssets' : entry'[a] # "evicting"
        BY <2>1, <3>2, <3>8 DEF CacheInv, CacheTyped, ManagedHasFile, PinnedAssets
      <4> QED BY <2>1, <4>1, <4>2 DEF ManagedHasFile, CacheInv, CacheTyped, PinnedAssets
    <3>10. readers' \in [CacheTasks -> SUBSET Assets]
      BY <2>1 DEF CacheInv, CacheTyped
    <3>11. Apart(t)
      BY <2>2 DEF Apart
    <3> QED
      BY <2>1, <2>2, <3>3, <3>5, <3>6, <3>8, <3>9, <3>10, <3>11, TaskGoes DEF LockPcs, MarkPcs, RemovePcs
  <2>4. CASE ~Markable(t)
    <3>1. PICK p \in {"write", "expired", "lru"} : Moves(t, p) /\ UNCHANGED entry
      BY <2>4, <1>2 DEF EvictMarks
    <3> QED BY <2>1, <2>2, <3>1, TaskMovesOn DEF LockPcs, MarkPcs, RemovePcs, CachePcs
  <2> QED BY <2>3, <2>4
<1>3. CASE EvictRemoves(t)
  <2>1. /\ UNCHANGED <<entry, pins, readers, cacheLock>> /\ old.pc \in RemovePcs
        /\ files' = files \ {old.victim}
    BY <1>3 DEF EvictRemoves, Removed, RemovePcs
  <2>2. /\ cacheLock = t /\ old.asset \in Assets
        /\ old.victim \in Assets /\ entry[old.victim] = "evicting"
    BY <1>1, <2>1 DEF RowHeld, LockPcs, RemovePcs
  <2> DEFINE p == IF old.pc = "remove expired" THEN "finish expired" ELSE "finish lru"
             r == [old EXCEPT !.pc = p]
  <2>3. r \in JobRow /\ r.pc \in {"finish expired", "finish lru"} /\ r.asset = old.asset
    BY <1>1 DEF JobRow, CachePcs, LockPcs
  <2>4. [job EXCEPT ![t].pc = IF @ = "remove expired" THEN "finish expired" ELSE "finish lru"]
          = [job EXCEPT ![t] = r]
    BY <1>1 DEF JobRow
  <2>5. job' = Changed([job EXCEPT ![t] = r], old.victim)
    BY <2>4, <1>3 DEF EvictRemoves
  <2> HIDE DEF r, p
  <2>6. Becomes(t, r)
    BY <2>3, <2>5, BecomesRow
  <2>7. ManagedHasFile' /\ PinnedAssets' \subseteq Assets
    BY <2>1, <2>2 DEF CacheInv, CacheTyped, ManagedHasFile, PinnedAssets
  <2>8. /\ Apart(t)
        /\ entry' \in [Assets -> {"none", "live", "evicting"}]
        /\ readers' \in [CacheTasks -> SUBSET Assets]
    BY <2>1, <2>2 DEF Apart, CacheInv, CacheTyped
  <2> QED BY <2>1, <2>2, <2>3, <2>6, <2>7, <2>8, TaskGoes DEF LockPcs, MarkPcs, RemovePcs
<1>4. CASE EvictFinishes(t)
  <2>1. /\ UNCHANGED <<files, pins, readers, cacheLock>>
        /\ old.pc \in {"finish expired", "finish lru"} /\ Forgotten(old.victim)
    BY <1>4 DEF EvictFinishes
  <2>2. cacheLock = t /\ old.asset \in Assets
    BY <1>1, <2>1 DEF RowHeld, LockPcs
  <2>3. PICK p \in {"write", "expired", "lru"} :
          job' = Changed([job EXCEPT ![t].victim = "none", ![t].pc = p], old.victim)
    BY <1>4 DEF EvictFinishes
  <2> DEFINE r == [old EXCEPT !.victim = "none", !.pc = p]
  <2>4. r \in JobRow /\ r.pc = p /\ r.asset = old.asset
    BY <1>1 DEF JobRow, CachePcs, LockPcs
  <2>5. job' = Changed([job EXCEPT ![t] = r], old.victim)
    BY <1>1, <2>3 DEF JobRow
  <2> HIDE DEF r
  <2>6. Becomes(t, r)
    BY <2>4, <2>5, BecomesRow
  <2>7. entry' \in [Assets -> {"none", "live", "evicting"}]
    BY <2>1 DEF Forgotten, CacheInv, CacheTyped
  <2>8. \A a \in Assets : entry'[a] \in {entry[a], "none"}
    BY <2>1 DEF Forgotten, CacheInv, CacheTyped
  <2>9. ManagedHasFile' /\ PinnedAssets' \subseteq Assets
    BY <2>1, <2>8 DEF CacheInv, CacheTyped, ManagedHasFile, PinnedAssets
  <2>10. Apart(t) /\ readers' \in [CacheTasks -> SUBSET Assets]
    BY <2>1, <2>2 DEF Apart, CacheInv, CacheTyped
  <2> QED BY <2>1, <2>2, <2>4, <2>6, <2>7, <2>9, <2>10, TaskGoes DEF LockPcs, MarkPcs, RemovePcs
<1>5. CASE RegisterManaged(t)
  <2>1. /\ UNCHANGED <<files, pins, readers, cacheLock>> /\ old.pc = "register"
        /\ entry' = [entry EXCEPT ![old.asset] = IF Indexed(old.asset) /\ entry[old.asset] = "none"
                                                 THEN entry[old.asset] ELSE "live"]
    BY <1>5 DEF RegisterManaged, Upserted
  <2>2. cacheLock = t /\ old.asset \in files /\ old.asset \in Assets
    BY <1>1, <2>1 DEF RowHeld, LockPcs
  <2> DEFINE r == [old EXCEPT !.pc = "remember"]
  <2>3. r \in JobRow /\ r.pc = "remember" /\ r.asset = old.asset
    BY <1>1 DEF JobRow, CachePcs, LockPcs
  <2>4. job' = Changed([job EXCEPT ![t] = r], old.asset)
    BY <1>1, <1>5 DEF RegisterManaged, JobRow
  <2> HIDE DEF r
  <2>5. Becomes(t, r)
    BY <2>3, <2>4, BecomesRow
  <2>6. /\ entry' \in [Assets -> {"none", "live", "evicting"}]
        /\ \A a \in Assets \ {old.asset} : entry'[a] = entry[a]
        /\ entry'[old.asset] \in {"none", "live"}
    BY <2>1, <2>2 DEF CacheInv, CacheTyped
  <2>7. ManagedHasFile' /\ PinnedAssets' \subseteq Assets
    BY <2>1, <2>2, <2>6 DEF CacheInv, CacheTyped, ManagedHasFile, PinnedAssets
  <2>8. Apart(t) /\ readers' \in [CacheTasks -> SUBSET Assets]
    BY <2>1, <2>2 DEF Apart, CacheInv, CacheTyped
  <2> QED BY <2>1, <2>2, <2>3, <2>5, <2>6, <2>7, <2>8, TaskGoes DEF LockPcs, MarkPcs, RemovePcs
<1> QED BY <1>2, <1>3, <1>4, <1>5

\* ... without a page of its own.
LEMMA TaskStarts ==
    ASSUME CacheInv, NEW t \in CacheTasks, NEW a \in Assets, NEW p \in CachePcs \ LockPcs,
           job' = [job EXCEPT ![t] = [NoJob EXCEPT !.pc = p, !.asset = a]],
           UNCHANGED <<entry, pins, cacheLock>>, files \subseteq files',
           \/ UNCHANGED readers
           \/ readers' = [readers EXCEPT ![t] = {}]
           \/ cacheLock = "free" /\ readers' \in [CacheTasks -> SUBSET Assets]
    PROVE  CacheInv'
<1> DEFINE r == [NoJob EXCEPT !.pc = p, !.asset = a]
<1>1. NoJob \in JobRow
  BY DEF NoJob, JobRow, CachePcs
<1>2. r \in JobRow /\ r.pc = p /\ r.asset = a
  BY <1>1 DEF JobRow
<1> HIDE DEF r
<1>3. Becomes(t, r)
  BY <1>2, BecomesRow DEF r
<1> QED BY <1>2, <1>3, TaskMoves DEF LockPcs, MarkPcs, RemovePcs

\* The coroutine of t goes on with what it found in the file.
LEMMA TaskSnaps ==
    ASSUME CacheInv, NEW t \in CacheTasks, NEW p \in CachePcs \ LockPcs, NEW b \in BOOLEAN,
           job' = [job EXCEPT ![t].pc = p, ![t].same = b], job[t].pc # "idle",
           UNCHANGED <<entry, files, pins, cacheLock, readers>>
    PROVE  CacheInv'
<1> DEFINE r == [job[t] EXCEPT !.pc = p, !.same = b]
<1>1. job[t] \in JobRow /\ job \in [CacheTasks -> JobRow] /\ job[t].asset \in Assets
  BY DEF CacheInv, CacheTyped, RowHeld
<1>2. job' = [job EXCEPT ![t] = r]
  BY <1>1 DEF JobRow
<1>3. r \in JobRow /\ r.pc = p /\ r.asset \in Assets
  BY <1>1 DEF JobRow
<1> HIDE DEF r
<1>4. Becomes(t, r)
  BY <1>2, <1>3, BecomesRow
<1> QED BY <1>3, <1>4, TaskMoves DEF LockPcs, MarkPcs, RemovePcs

\* Plain resources, readers, pins and pages.
LEMMA UseStep ==
    ASSUME CacheInv, NEW t \in CacheTasks,
           \/ \E a \in Assets : StoreCalled(t, a) \/ PlainCommits(t, a) \/ ReadLeases(t, a)
           \/ PlainIndexes(t) \/ PlainRefused(t) \/ ReadLooks(t) \/ ReadContent(t)
           \/ SnapshotTaken(t) \/ PinRows(t) \/ CollageLeases(t) \/ CollageResolves(t)
           \/ CollageConfirms(t) \/ PutReads(t) \/ PutPage(t) \/ LoadPage(t)
    PROVE  CacheInv'
<1> DEFINE old == job[t]
<1>1. old \in JobRow /\ RowHeld(t, old) /\ job \in [CacheTasks -> JobRow]
  BY DEF CacheInv, CacheTyped
<1>2. ASSUME NEW a \in Assets, StoreCalled(t, a) \/ PlainCommits(t, a) PROVE CacheInv'
  <2>1. PICK p \in {"store", "plain"} : job' = [job EXCEPT ![t] = [NoJob EXCEPT !.pc = p, !.asset = a]]
    BY <1>2 DEF StoreCalled, PlainCommits
  <2>2. UNCHANGED <<entry, pins, cacheLock, readers>> /\ files \subseteq files'
    BY <1>2 DEF StoreCalled, PlainCommits, Committed
  <2>3. p \in CachePcs \ LockPcs
    BY DEF CachePcs, LockPcs
  <2> QED BY <2>1, <2>2, <2>3, TaskStarts
<1>3. ASSUME NEW a \in Assets, ReadLeases(t, a) PROVE CacheInv'
  <2>1. /\ UNCHANGED <<entry, files, pins, cacheLock>> /\ cacheLock = "free"
        /\ job' = [job EXCEPT ![t] = [NoJob EXCEPT !.pc = "look", !.asset = a]]
        /\ readers' = [readers EXCEPT ![t] = {a}]
    BY <1>3 DEF ReadLeases
  <2>2. readers' \in [CacheTasks -> SUBSET Assets] /\ "look" \in CachePcs \ LockPcs
    BY <2>1 DEF CacheInv, CacheTyped, CachePcs, LockPcs
  <2> QED BY <2>1, <2>2, TaskStarts
<1>4. CASE PlainIndexes(t) \/ PlainRefused(t) \/ ReadContent(t)
  <2>1. EndsJob(t) /\ UNCHANGED <<entry, files, pins, cacheLock>>
    BY <1>4 DEF PlainIndexes, PlainRefused, ReadContent, Releases
  <2>2. UNCHANGED readers \/ readers' = [readers EXCEPT ![t] = {}]
    BY <1>4 DEF PlainIndexes, PlainRefused, ReadContent, Releases
  <2> QED BY <2>1, <2>2, TaskEnds
<1>5. CASE ReadLooks(t)
  <2>1. UNCHANGED <<entry, files, pins, cacheLock>> /\ old.pc = "look"
    BY <1>5 DEF ReadLooks
  <2>2. CASE Releases(t)
    BY <2>1, <2>2, TaskEnds DEF Releases
  <2>3. CASE ~Releases(t)
    <3>1. /\ job' = [job EXCEPT ![t].pc = "read", ![t].same = old.asset \in files]
          /\ UNCHANGED readers
      BY <2>3, <1>5 DEF ReadLooks
    <3>2. (old.asset \in files) = TRUE \/ (old.asset \in files) = FALSE
      OBVIOUS
    <3>3. \/ job' = [job EXCEPT ![t].pc = "read", ![t].same = TRUE]
          \/ job' = [job EXCEPT ![t].pc = "read", ![t].same = FALSE]
      BY <3>1, <3>2, Zenon
    <3> QED BY <2>1, <3>1, <3>3, TaskSnaps DEF CachePcs, LockPcs
  <2> QED BY <2>2, <2>3
<1>6. CASE SnapshotTaken(t)
  <2>1. UNCHANGED <<entry, files, pins, cacheLock>> /\ old.pc = "read"
        /\ readers' = [readers EXCEPT ![t] = {}]
    BY <1>6 DEF SnapshotTaken
  <2>2. EndsJob(t) \/ Moves(t, "snapshot")
    BY <1>6 DEF SnapshotTaken
  <2> QED BY <2>1, <2>2, TaskEnds, TaskMovesOn DEF LockPcs, MarkPcs, RemovePcs, CachePcs
<1>7. CASE PinRows(t)
  <2>1. /\ UNCHANGED <<entry, files, readers, cacheLock>> /\ EndsJob(t) /\ old.pc = "snapshot"
        /\ pins' = IF Pinnable(old.asset) THEN pins \cup {<<t, old.asset>>} ELSE pins
    BY <1>7 DEF PinRows
  <2>2. NoJob \in JobRow /\ NoJob.pc = "idle"
    BY DEF NoJob, JobRow, CachePcs
  <2>3. Becomes(t, NoJob)
    BY <2>1, <2>2, BecomesRow DEF EndsJob
  <2>4. old.asset \in Assets
    BY <1>1, <2>1 DEF RowHeld
  <2>5. ManagedHasFile' /\ PinnedAssets' \subseteq Assets
    <3>1. CASE pins' = pins
      BY <2>1, <3>1 DEF CacheInv, CacheTyped, ManagedHasFile, PinnedAssets
    <3>2. CASE pins' # pins
      <4>1. PinnedAssets' = PinnedAssets \cup {old.asset}
        BY <2>1, <3>2 DEF PinnedAssets
      <4>2. entry[old.asset] # "evicting"
        BY <2>1, <3>2 DEF Pinnable
      <4> QED BY <2>1, <2>4, <4>1, <4>2 DEF CacheInv, CacheTyped, ManagedHasFile
    <3> QED BY <3>1, <3>2
  <2>6. /\ Apart(t)
        /\ entry' \in [Assets -> {"none", "live", "evicting"}]
        /\ readers' \in [CacheTasks -> SUBSET Assets]
    BY <2>1 DEF Apart, Leased, CacheInv, CacheTyped
  <2> QED BY <2>2, <2>3, <2>5, <2>6, TaskGoes DEF LockPcs, MarkPcs, RemovePcs
<1>8. CASE CollageLeases(t)
  <2>1. /\ UNCHANGED <<entry, files, pins, cacheLock>> /\ old.pc = "snapshot" /\ cacheLock = "free"
        /\ readers' = [readers EXCEPT ![t] = {old.asset}] /\ Moves(t, "resolve")
    BY <1>8 DEF CollageLeases
  <2>2. old.asset \in Assets
    BY <1>1, <2>1 DEF RowHeld
  <2>3. readers' \in [CacheTasks -> SUBSET Assets]
    BY <2>1, <2>2 DEF CacheInv, CacheTyped
  <2> QED BY <2>1, <2>3, TaskMovesOn DEF LockPcs, MarkPcs, RemovePcs, CachePcs
<1>9. CASE CollageResolves(t)
  <2>1. UNCHANGED <<entry, files, pins, cacheLock>> /\ old.pc = "resolve"
    BY <1>9 DEF CollageResolves
  <2>2. (Moves(t, "confirm") /\ UNCHANGED readers) \/ Releases(t)
    BY <1>9 DEF CollageResolves
  <2> QED BY <2>1, <2>2, TaskEnds, TaskMovesOn DEF LockPcs, MarkPcs, RemovePcs, CachePcs, Releases
<1>10. CASE CollageConfirms(t)
  <2>1. UNCHANGED <<entry, files, pins, cacheLock>> /\ readers' = [readers EXCEPT ![t] = {}]
    BY <1>10 DEF CollageConfirms
  <2>2. CASE EndsJob(t)
    BY <2>1, <2>2, TaskEnds
  <2>3. CASE ~EndsJob(t)
    <3>1. PICK a \in Assets :
            job' = [job EXCEPT ![t] = [NoJob EXCEPT !.pc = "store", !.asset = a, !.page = TRUE]]
      BY <2>3, <1>10 DEF CollageConfirms
    <3>2. "store" \in CachePcs \ LockPcs
      BY DEF CachePcs, LockPcs
    <3> QED BY <2>1, <3>1, <3>2, TaskBegins
  <2> QED BY <2>2, <2>3
<1>11. CASE PutReads(t)
  <2>1. /\ UNCHANGED <<entry, files, pins, cacheLock, readers>> /\ old.pc = "page"
        /\ job' = [job EXCEPT ![t].pc = "put", ![t].same = TRUE]
    BY <1>11 DEF PutReads
  <2> QED BY <2>1, TaskSnaps DEF CachePcs, LockPcs
<1>12. CASE PutPage(t)
  <2>1. UNCHANGED <<entry, files, pins, cacheLock, readers>>
    BY <1>12 DEF PutPage
  <2>2. CASE EndsJob(t)
    BY <2>1, <2>2, TaskEnds
  <2>3. CASE ~EndsJob(t)
    <3>1. job' = Repaged([job EXCEPT ![t] = NoJob])
      BY <2>3, <1>12 DEF PutPage
    <3>2. NoJob \in JobRow /\ NoJob.pc = "idle"
      BY DEF NoJob, JobRow, CachePcs
    <3>3. Becomes(t, NoJob)
      BY <3>1, <3>2, BecomesRow
    <3> QED BY <2>1, <3>2, <3>3, TaskMoves DEF LockPcs, MarkPcs, RemovePcs
  <2> QED BY <2>2, <2>3
<1>13. CASE LoadPage(t)
  BY <1>13, <1>3 DEF LoadPage
<1> QED BY <1>2, <1>3, <1>4, <1>5, <1>6, <1>7, <1>8, <1>9, <1>10, <1>11, <1>12, <1>13

\* Steps of nobody's coroutine: rows that are deleted or expire, pins that end,
\* a page that is invalidated.
LEMMA QuietStep ==
    ASSUME CacheInv, UNCHANGED <<entry, files, cacheLock, readers>>, pins' \subseteq pins,
           NEW a, job' = job \/ job' = Changed(job, a) \/ job' = Repaged(job)
    PROVE  CacheInv'
<1>1. job' \in [CacheTasks -> JobRow] /\ \A u \in CacheTasks : Alike(job'[u], job[u])
  BY RevisionsOnly DEF CacheInv, CacheTyped, Alike
<1>2. CacheTyped' /\ ManagedHasFile'
  BY <1>1 DEF CacheInv, CacheTyped, ManagedHasFile, PinnedAssets
<1>3. Leased' = Leased
  BY DEF Leased
<1>4. \A u \in CacheTasks : RowHeld(u, job[u])'
  BY <1>1, <1>3 DEF CacheInv, RowHeld, Alike
<1> QED BY <1>2, <1>4 DEF CacheInv

\* Every step of the cache.
LEMMA CacheStep == CacheInv /\ [CacheNext]_cacheVars => CacheInv'
<1> SUFFICES ASSUME CacheInv, [CacheNext]_cacheVars PROVE CacheInv'
  OBVIOUS
<1>1. CASE UNCHANGED cacheVars
  BY <1>1, QuietStep DEF cacheVars
<1>2. ASSUME NEW t \in CacheTasks, NEW a \in Assets, UnpinRows(t, a) PROVE CacheInv'
  BY <1>2, QuietStep DEF UnpinRows
<1>3. ASSUME NEW t \in CacheTasks, ReleasePins(t) PROVE CacheInv'
  BY <1>3, QuietStep DEF ReleasePins
<1>4. ASSUME NEW a \in Assets, DeleteResource(a) \/ RowExpires(a) PROVE CacheInv'
  <2>1. /\ UNCHANGED <<entry, files, cacheLock, readers>> /\ pins' \subseteq pins
        /\ job' = job \/ job' = Changed(job, a)
    BY <1>4 DEF DeleteResource, RowExpires
  <2> QED BY <2>1, QuietStep
<1>5. CASE InvalidatePage
  BY <1>5, QuietStep DEF InvalidatePage
<1>6. CASE CacheCrash
  <2>1. NoJob \in JobRow /\ NoJob.pc = "idle"
    BY DEF NoJob, JobRow, CachePcs
  <2>2. CacheTyped' /\ ManagedHasFile'
    BY <1>6, <2>1 DEF CacheCrash, CacheInv, CacheTyped, ManagedHasFile, PinnedAssets
  <2>3. \A u \in CacheTasks : job'[u] = NoJob
    BY <1>6 DEF CacheCrash
  <2>4. \A u \in CacheTasks : RowHeld(u, job[u])'
    BY <2>1, <2>3 DEF RowHeld, LockPcs, MarkPcs, RemovePcs
  <2> QED BY <2>2, <2>4 DEF CacheInv
<1> QED BY <1>1, <1>2, <1>3, <1>4, <1>5, <1>6, StoreStep, EvictStep, UseStep DEF CacheNext

\* Only _evict takes bytes away, and not those of a reader or a pin.
LEMMA BytesLeave == CacheInv /\ CacheNext => LeasedFileStays
<1> SUFFICES ASSUME CacheInv, CacheNext, NEW a \in Assets, a \in files, a \notin files'
             PROVE  a \notin Leased /\ a \notin PinnedAssets
  BY DEF LeasedFileStays
<1>1. \E t \in CacheTasks : EvictRemoves(t)
  BY ZenonT(60) DEF CacheNext, StoreCalled, PlainCommits, ReadLeases, UnpinRows, StoreEnters, StoreInspects,
     RoomPicks, RoomPassEnds, EvictMarks, EvictFinishes, StoreWrites, RegisterManaged,
     StoreRemembers, StoreRefused, PlainIndexes, PlainRefused, ReadLooks, ReadContent,
     SnapshotTaken, PinRows, ReleasePins, CollageLeases, CollageResolves, CollageConfirms,
     PutReads, PutPage, LoadPage, DeleteResource, RowExpires, InvalidatePage, CacheCrash, Committed
<1>2. PICK t \in CacheTasks : EvictRemoves(t)
  BY <1>1
<1>3. a = job[t].victim /\ job[t].pc \in RemovePcs
  BY <1>2 DEF EvictRemoves, Removed, RemovePcs
<1>4. a \notin Leased /\ entry[a] = "evicting"
  BY <1>3 DEF CacheInv, RowHeld
<1> QED BY <1>4 DEF CacheInv, ManagedHasFile

\* ManagedResourceCache and ResourceAccessCoordinator, for any number of invocations
\* and contents: a live entry has its bytes, and nobody's bytes are taken.
THEOREM BytesPromised == MCSpec => BytesArePromised
<1> DEFINE Kept == service = "cache" => CacheInv
           Promised == service = "cache" => ManagedHasFile' /\ LeasedFileStays
<1>1. MCInit => Kept
  BY CacheInitInv DEF MCInit
<1>2. Kept /\ [MCNext]_<<service, bindVars, cacheVars, jobVars, serviceVars, migrationVars>>
        => Kept'
  BY CacheStep DEF MCNext
<1>3. ASSUME Kept, MCNext, service = "cache" PROVE ManagedHasFile' /\ LeasedFileStays
  <2>1. CacheNext /\ CacheInv
    BY <1>3 DEF MCNext
  <2>2. CacheInv'
    BY <2>1, CacheStep
  <2> QED BY <2>1, <2>2, BytesLeave DEF CacheInv
<1>4. Kept /\ [MCNext]_<<service, bindVars, cacheVars, jobVars, serviceVars, migrationVars>>
        => [Promised]_cacheVars
  BY <1>3 DEF cacheVars
<1> QED BY <1>1, <1>2, <1>4, PTL DEF MCSpec, BytesArePromised

=============================================================================
