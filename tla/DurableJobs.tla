---------------------------- MODULE DurableJobs ----------------------------
(***************************************************************************)
(* Durable jobs of modules: the table kept by SQLiteJobRepository, the     *)
(* driver of JobsService that claims queued rows, the run of each claimed  *)
(* job, cancellation and retry by the owner, closing, and a crash of the   *)
(* process with the recovery at the next start.                            *)
(*                                                                         *)
(* A database call and the code up to the coroutine's next wait are one    *)
(* step: the executor runs transactions one after the other and hands      *)
(* their results back in that order.                                       *)
(***************************************************************************)
EXTENDS Naturals, FiniteSets

CONSTANTS
    Jobs,           \* rows of durable_jobs
    MaxRunning,     \* max_running
    MaxQueued,      \* max_queued
    MaxRuns,        \* bound on claims
    MaxAttempts     \* bound on attempts of one row

ASSUME JobsAssumption ==
    /\ IsFiniteSet(Jobs) /\ MaxRunning \in Nat \ {0} /\ MaxQueued \in Nat \ {0}
    /\ MaxRuns \in Nat /\ MaxAttempts \in Nat \ {0}

VARIABLES
    jobs,       \* job -> row: [status, token, attempt, results]
    moduleOn,   \* the module is active with the declared handlers
    up,         \* "up", "closing" (_closed), "recovered" (_close_recovered), "down"
    wake,       \* _wake
    queue,      \* candidates the driver still looks at
    driver,     \* "wait" or "list"
    runs,       \* run token -> task
    tasks,      \* _tasks: job -> run token, 0 for none
    running,    \* _runs
    settling    \* _settling

jobVars == <<jobs, moduleOn, up, wake, queue, driver, runs, tasks, running, settling>>

NoRow == [status |-> "none", token |-> 0, attempt |-> 0, results |-> {}]
NoRun == [job |-> "none", attempt |-> 0, pc |-> "unborn", cancelled |-> FALSE]
NoneOf == [j \in Jobs |-> 0]
Runs == 1..MaxRuns

JobsInit ==
    /\ jobs = [j \in Jobs |-> NoRow]
    /\ moduleOn = TRUE /\ up = "up" /\ wake = TRUE
    /\ queue = {} /\ driver = "wait"
    /\ runs = [t \in Runs |-> NoRun]
    /\ tasks = NoneOf /\ running = NoneOf /\ settling = NoneOf

Active == {j \in Jobs : jobs[j].status \in {"queued", "running"}}

\* _module and _Check: the service is open and the module active.
Allowed == up = "up" /\ moduleOn

-----------------------------------------------------------------------------
\* Owner operations.

\* submit: the same input that is queued or running is that job again.
Submit(j) ==
    /\ Allowed
    /\ jobs[j].status = "none" /\ Cardinality(Active) < MaxQueued
    /\ jobs' = [jobs EXCEPT ![j] = [NoRow EXCEPT !.status = "queued", !.attempt = 1]]
    /\ wake' = TRUE
    /\ UNCHANGED <<moduleOn, up, queue, driver, runs, tasks, running, settling>>

\* change without retry: the row, then the run and its task.
Cancel(j) ==
    /\ Allowed /\ jobs[j].status \in {"queued", "running"}
    /\ jobs' = [jobs EXCEPT ![j].status = "cancelled", ![j].token = 0]
    /\ runs' = [t \in Runs |-> IF t = tasks[j] \/ t = running[j]
                               THEN [runs[t] EXCEPT !.cancelled = TRUE] ELSE runs[t]]
    /\ wake' = TRUE
    /\ UNCHANGED <<moduleOn, up, queue, driver, tasks, running, settling>>

\* change with retry: a new attempt without results.
Retry(j) ==
    /\ Allowed
    /\ jobs[j].status \in {"interrupted", "failed", "cancelled"}
    /\ jobs[j].attempt < MaxAttempts
    /\ Cardinality(Active) < MaxQueued
    /\ jobs' = [jobs EXCEPT ![j] = [NoRow EXCEPT !.status = "queued", !.attempt = jobs[j].attempt + 1]]
    /\ wake' = TRUE
    /\ UNCHANGED <<moduleOn, up, queue, driver, runs, tasks, running, settling>>

\* expire: rows past their retention, never a running one.
Expire(j) ==
    /\ up = "up" /\ jobs[j].status \notin {"none", "running"}
    /\ jobs' = [jobs EXCEPT ![j] = NoRow]
    /\ UNCHANGED <<moduleOn, up, wake, queue, driver, runs, tasks, running, settling>>

-----------------------------------------------------------------------------
\* _drive.

DriverLists ==
    /\ up = "up" /\ driver = "wait" /\ wake
    /\ wake' = FALSE
    /\ \E L \in SUBSET {j \in Jobs : jobs[j].status = "queued"} :
         /\ Cardinality(L) <= MaxRunning
         /\ Cardinality(L) < MaxRunning => L = {j \in Jobs : jobs[j].status = "queued"}
         /\ queue' = L
    /\ driver' = "list"
    /\ UNCHANGED <<jobs, moduleOn, up, runs, tasks, running, settling>>

\* _busy_jobs
Busy == {j \in Jobs : tasks[j] # 0 \/ running[j] # 0 \/ settling[j] # 0}

Skippable_Never(j) == FALSE
Skippable(j) == j \in Busy

NextRun(t) == runs[t].pc = "unborn" /\ \A u \in Runs : u < t => runs[u].pc # "unborn"

\* One candidate: the bound, a busy job, a handler that is gone, the claim.
DriverTakes(j) ==
    /\ up = "up" /\ driver = "list" /\ j \in queue
    /\ IF Cardinality(Busy) >= MaxRunning
       THEN queue' = {} /\ UNCHANGED <<jobs, runs, tasks>>
       ELSE /\ queue' = queue \ {j}
            /\ IF Skippable(j) \/ jobs[j].status # "queued"
               THEN UNCHANGED <<jobs, runs, tasks>>
               ELSE IF ~moduleOn
               THEN /\ jobs' = [jobs EXCEPT ![j].status = "failed"]
                    /\ UNCHANGED <<runs, tasks>>
               ELSE \E t \in Runs :
                      /\ NextRun(t)
                      /\ jobs' = [jobs EXCEPT ![j].status = "running", ![j].token = t]
                      /\ runs' = [runs EXCEPT ![t] = [NoRun EXCEPT !.job = j, !.pc = "created",
                                                            !.attempt = jobs[j].attempt]]
                      /\ tasks' = [tasks EXCEPT ![j] = t]
    /\ UNCHANGED <<moduleOn, up, wake, driver, running, settling>>

DriverEnds ==
    /\ up = "up" /\ driver = "list" /\ queue = {}
    /\ driver' = "wait"
    /\ UNCHANGED <<jobs, moduleOn, up, wake, queue, runs, tasks, running, settling>>

-----------------------------------------------------------------------------
\* _run and _done.

\* running(): the row still carries this run's token.
Owns(t) == jobs[runs[t].job].status = "running" /\ jobs[runs[t].job].token = t

Finished(t, status) ==
    IF Owns(t) THEN [jobs EXCEPT ![runs[t].job].status = status, ![runs[t].job].token = 0]
    ELSE jobs

\* The proof, the invocation and the lease; a refusal ends the run as failed.
RunStarts(t) ==
    /\ up # "down" /\ runs[t].pc = "created" /\ ~runs[t].cancelled
    /\ running' = [running EXCEPT ![runs[t].job] = t]
    /\ \/ Allowed /\ runs' = [runs EXCEPT ![t].pc = "body"] /\ UNCHANGED jobs
       \/ runs' = [runs EXCEPT ![t].pc = "cleanup"] /\ jobs' = Finished(t, "failed")
    /\ UNCHANGED <<moduleOn, up, wake, queue, driver, tasks, settling>>

\* Cancelled before its first step: _done settles the row in a task of its own.
RunDropped(t) ==
    /\ up # "down" /\ runs[t].pc = "created" /\ runs[t].cancelled
    /\ runs' = [runs EXCEPT ![t].pc = "settle"]
    /\ tasks' = [tasks EXCEPT ![runs[t].job] = IF @ = t THEN 0 ELSE @]
    /\ settling' = [settling EXCEPT ![runs[t].job] = t]
    /\ wake' = TRUE
    /\ UNCHANGED <<jobs, moduleOn, up, queue, driver, running>>

RunSettled(t) ==
    /\ up # "down" /\ runs[t].pc = "settle"
    /\ jobs' = Finished(t, "interrupted")
    /\ runs' = [runs EXCEPT ![t].pc = "done"]
    /\ settling' = [settling EXCEPT ![runs[t].job] = IF @ = t THEN 0 ELSE @]
    /\ wake' = TRUE
    /\ UNCHANGED <<moduleOn, up, queue, driver, tasks, running>>

\* publish of the control: check, row and commit guard.
Publishable_Unread(t) == up = "up"
Publishable(t) == up = "up" /\ Owns(t)
RunPublishes(t) ==
    /\ up # "down" /\ runs[t].pc = "body" /\ Publishable(t)
    /\ jobs' = [jobs EXCEPT ![runs[t].job].results = @ \cup {runs[t].attempt}]
    /\ UNCHANGED <<moduleOn, up, wake, queue, driver, runs, tasks, running, settling>>

\* The handler returns, fails, runs out of time or is cancelled; a summary is
\* only stored while the run is current.
RunEnds(t) ==
    /\ up # "down" /\ runs[t].pc = "body"
    /\ \/ up = "up" /\ ~runs[t].cancelled /\ jobs' = Finished(t, "succeeded")
       \/ jobs' = Finished(t, "failed")
       \/ runs[t].cancelled /\ jobs' = Finished(t, "interrupted")
    /\ runs' = [runs EXCEPT ![t].pc = "cleanup"]
    /\ UNCHANGED <<moduleOn, up, wake, queue, driver, tasks, running, settling>>

\* The scope stops, pins and invocation are released, the tables are cleared.
RunLeaves(t) ==
    /\ up # "down" /\ runs[t].pc = "cleanup"
    /\ runs' = [runs EXCEPT ![t].pc = "done"]
    /\ running' = [running EXCEPT ![runs[t].job] = IF @ = t THEN 0 ELSE @]
    /\ tasks' = [tasks EXCEPT ![runs[t].job] = IF @ = t THEN 0 ELSE @]
    /\ wake' = TRUE
    /\ UNCHANGED <<jobs, moduleOn, up, queue, driver, settling>>

-----------------------------------------------------------------------------
\* Lifecycle.

ModuleSwitches ==
    /\ moduleOn' = ~moduleOn
    /\ UNCHANGED <<jobs, up, wake, queue, driver, runs, tasks, running, settling>>

\* stop_accepting: runs revoked and tasks cancelled, the driver ends.
StopAccepting ==
    /\ up = "up"
    /\ up' = "closing"
    /\ runs' = [t \in Runs |-> IF runs[t].pc \in {"unborn", "done"} THEN runs[t]
                               ELSE [runs[t] EXCEPT !.cancelled = TRUE]]
    /\ queue' = {} /\ driver' = "wait" /\ wake' = TRUE
    /\ UNCHANGED <<jobs, moduleOn, tasks, running, settling>>

Recovered == [j \in Jobs |-> IF jobs[j].status = "running"
                             THEN [jobs[j] EXCEPT !.status = "interrupted", !.token = 0]
                             ELSE jobs[j]]

\* close: a bounded wait for the tasks, then recover; stuck tasks stay owned.
CloseRecovers ==
    /\ up = "closing"
    /\ up' = "recovered"
    /\ jobs' = Recovered
    /\ UNCHANGED <<moduleOn, wake, queue, driver, runs, tasks, running, settling>>

\* The process ends at any point; only the table is left.
JobsCrash ==
    /\ up # "down"
    /\ up' = "down"
    /\ runs' = [t \in Runs |-> IF runs[t].pc = "unborn" THEN runs[t] ELSE [NoRun EXCEPT !.pc = "done"]]
    /\ queue' = {} /\ driver' = "wait" /\ wake' = FALSE
    /\ tasks' = NoneOf /\ running' = NoneOf /\ settling' = NoneOf
    /\ UNCHANGED <<jobs, moduleOn>>

\* start: recover, expire, the driver.
AtStart_Kept == jobs
AtStart == Recovered
JobsStart ==
    /\ up = "down"
    /\ up' = "up"
    /\ jobs' = AtStart
    /\ wake' = TRUE
    /\ UNCHANGED <<moduleOn, queue, driver, runs, tasks, running, settling>>

JobsNext ==
    \/ \E j \in Jobs : Submit(j) \/ Cancel(j) \/ Retry(j) \/ Expire(j) \/ DriverTakes(j)
    \/ DriverLists \/ DriverEnds
    \/ \E t \in Runs : RunStarts(t) \/ RunDropped(t) \/ RunSettled(t) \/ RunPublishes(t)
                       \/ RunEnds(t) \/ RunLeaves(t)
    \/ ModuleSwitches \/ StopAccepting \/ CloseRecovers \/ JobsCrash \/ JobsStart

JobsSpec == JobsInit /\ [][JobsNext]_jobVars

-----------------------------------------------------------------------------
\* The results of a job are those of its current attempt: a run that was
\* cancelled, timed out or survived close() adds nothing to the attempt that
\* replaced it.
ResultsOfOneAttempt ==
    \A j \in Jobs : jobs[j].results \subseteq {jobs[j].attempt}

\* A job is worked on by one run at a time, although a retried row may be queued
\* again while its cancelled run is still cleaning up.
OneRunPerJob ==
    \A t, u \in Runs : t # u /\ {runs[t].pc, runs[u].pc} \subseteq {"created", "body", "cleanup", "settle"}
                         => runs[t].job # runs[u].job

\* A row says "running" only while its run is alive in this process; once the
\* service has closed or started again, no row is left running without one.
RunningHasRun ==
    \A j \in Jobs : jobs[j].status = "running" /\ up # "down" =>
        /\ up # "recovered"
        /\ runs[jobs[j].token].job = j
        /\ runs[jobs[j].token].pc \in {"created", "body", "settle"}
=============================================================================
