------------------------ MODULE CollectionScheduler ------------------------
(***************************************************************************)
(* Shared collection: the pump scans the due jobs, runs one task per job,  *)
(* and each task claims its job, collects, evaluates the subscriptions and *)
(* commits the observation, their next states and their events at once.    *)
(*                                                                         *)
(* Sources: SharedCollectionScheduler in services/scheduler.py, the pump   *)
(* of services/core_runtime.py, prepare_evaluations in                     *)
(* services/subscriptions.py, and the job, lifecycle and scheduler         *)
(* repositories in infrastructure/sqlite/repositories_subscriptions.py.    *)
(*                                                                         *)
(* Jobs are the ones subscriptions arm; background jobs of a manifest are  *)
(* left out.  A subscription keeps its job.  The due time of a job is kept *)
(* as an order: among the due jobs, before says which due_at is earlier.   *)
(*                                                                         *)
(* A definition X_Y is X with the bug that Y names.                        *)
(***************************************************************************)
EXTENDS Naturals, FiniteSets

CONSTANTS
    Modules, Jobs, Subs,
    Sites           \* installations: what belongs together, limits and bounds

ASSUME SchedulerConstants ==
    Sites \subseteq
        [module     : [Jobs -> Modules],    \* the module of each job
         job        : [Subs -> Jobs],       \* the job of each subscription
         authorized : SUBSET Jobs,          \* jobs whose scope is a Grant, one Grant each
         pausable   : SUBSET Modules,       \* modules whose subscription gate is switched
         stoppable  : SUBSET Modules,       \* modules an administrator disables and enables
         page       : Nat \ {0},            \* quotas.max_scan_page
         global     : Nat \ {0},            \* quotas.max_global
         perModule  : Nat \ {0},            \* quotas.max_per_module
         moves      : Nat,                  \* bound on commands
         commits    : Nat,                  \* commits after which a job is no longer due again
         faults     : Nat]                  \* bound on crashes, storage errors and overlong runs

VARIABLES
    site,       \* the installation; it never changes
    due,        \* jobs whose due_at has passed
    later,      \* jobs whose due_at is in the future; the others are unarmed
    before,     \* order of due_at among the due jobs
    tok,        \* lease_token: free, of the live task, or of nobody alive
    old,        \* jobs whose lease_expires_at has passed
    grant,      \* the Grant of each authorized job
    sub,        \* status of each subscription
    rev,        \* its revision
    state,      \* evaluation states: revision, and fence it was written under
    fence,      \* fence of each module: gate and intent revisions together
    intent,     \* module_runtime_intents.desired_enabled
    gate,       \* the module's subscription gate
    mod,        \* lifecycle of each module
    up,         \* the process runs
    pump,       \* where _pump_loop stands
    page,       \* jobs of the page it processes
    pc,         \* where the task of each job stands
    result,     \* how the latest task of each job ended
    cancelled,  \* tasks whose module scope was cancelled
    who,        \* principal each task runs for
    lease,      \* fence in the ExecutionLease of each task
    todo,       \* subscriptions the task still has to evaluate
    batch,      \* SubscriptionEvaluationCommits the task has prepared
    moves, faults,
    commits,    \* history: commits that included each subscription
    clean       \* history: subscriptions unchanged since the task read them,
                \* in a module whose fence is unchanged since the claim

ModuleOf     == site.module
JobOf        == site.job
Authorized   == site.authorized
Pausable     == site.pausable
Stoppable    == site.stoppable
PageLimit    == site.page
MaxGlobal    == site.global
MaxPerModule == site.perModule
MaxMoves     == site.moves
MaxCommits   == site.commits
MaxFaults    == site.faults

jobvars  == <<due, later, before>>
subvars  == <<sub, rev, grant>>
modvars  == <<fence, intent, gate, mod>>
taskvars == <<pc, result, cancelled, who, lease, todo, batch>>
history  == <<commits, clean>>
vars == <<jobvars, tok, old, subvars, state, modvars, up, pump, page, taskvars,
          moves, faults, history>>

Leased == {"admit", "collect", "evaluate", "commit", "fail", "defer", "release"}
Gated == Leased \cup {"claim"}
PCs == {"none", "start", "global", "module"} \cup Gated

\* A job is due or later, never both, and before totally orders the due jobs.
JobsTyped ==
    /\ due \subseteq Jobs
    /\ later \subseteq Jobs
    /\ due \cap later = {}
    /\ before \subseteq due \X due
    /\ \A j, k \in due : j # k => (<<j, k>> \in before <=> <<k, j>> \notin before)

RowsTyped ==
    /\ tok \in [Jobs -> {"free", "run", "orphan"}]
    /\ old \subseteq Jobs
    /\ grant \in [Authorized -> {"active", "expired", "revoked"}]
    /\ sub \in [Subs -> {"none", "active", "cancelled"}]
    /\ rev \in [Subs -> Nat]
    /\ state \in [Subs -> [rev: Nat, fence: Nat]]
    /\ fence \in [Modules -> Nat]
    /\ intent \in [Modules -> BOOLEAN]
    /\ gate \in [Modules -> BOOLEAN]
    /\ mod \in [Modules -> {"active", "stopping", "stopped"}]
    /\ moves \in Nat
    /\ faults \in Nat
    /\ commits \in [Subs -> Nat]

TasksTyped ==
    /\ up \in BOOLEAN
    /\ pump \in {"scan", "start", "run", "dead"}
    /\ page \subseteq Jobs
    /\ pc \in [Jobs -> PCs]
    /\ result \in [Jobs -> {"ok", "raised"}]
    /\ cancelled \subseteq Jobs
    /\ who \in [Jobs -> SUBSET [sub: Subs, rev: Nat]]
    /\ lease \in [Jobs -> Nat]
    /\ todo \in [Jobs -> SUBSET Subs]
    /\ batch \in [Jobs -> SUBSET [sub: Subs, rev: Nat, base: Nat]]
    /\ clean \in [Jobs -> SUBSET Subs]

\* Every variable stays in its type, and the due times stay an order.
TypeOK == JobsTyped /\ RowsTyped /\ TasksTyped

(***************************************************************************)
(* What the transactions read.                                             *)
(***************************************************************************)
LinkedTo(j) == {s \in Subs : JobOf[s] = j /\ sub[s] = "active"}

\* _grant_is_current for the Grant of the job, if it has one.
GrantCurrent(j) == j \in Authorized => grant[j] = "active"

\* _principal_for: the first active subscription of the job, with its revision.
Principal(j) ==
    {[sub |-> s, rev |-> rev[s]] :
        s \in IF LinkedTo(j) = {} THEN {} ELSE {CHOOSE s \in LinkedTo(j) : TRUE}}

\* _read_subscription_fence answers a fence at all.
Admitted(m) == gate[m] /\ intent[m]

LeaseFree(j) == tok[j] = "free" \/ j \in old

\* The rows list_due_jobs selects.
Listed(j) == j \in due /\ LeaseFree(j) /\ LinkedTo(j) # {}

\* is_current, defer and commit: token, expiry and fence of the lease.
RowCurrent(j) ==
    /\ tok[j] = "run"
    /\ j \notin old
    /\ Admitted(ModuleOf[j])
    /\ fence[ModuleOf[j]] = lease[j]

\* _require_current_execution.
Current(j) ==
    /\ RowCurrent(j)
    /\ mod[ModuleOf[j]] = "active"
    /\ GrantCurrent(j)
    /\ Principal(j) = who[j]

\* public_event_candidates: subscriptions of other jobs of the module, which a
\* public event of this run may also change.
Peers(j) ==
    {s \in Subs : JobOf[s] \notin Authorized \cup {j}
                    /\ ModuleOf[JobOf[s]] = ModuleOf[j]}

(***************************************************************************)
(* Writes of the job rows.                                                 *)
(***************************************************************************)
Without(S) == {p \in before : p[1] \notin S /\ p[2] \notin S}

\* due_at moves into the future.
Postpone(j) ==
    /\ due' = due \ {j}
    /\ later' = later \cup {j}
    /\ before' = Without({j})

\* due_at, cadence and revisions become NULL.
Disarm(j) ==
    /\ due' = due \ {j}
    /\ later' = later \ {j}
    /\ before' = Without({j})

\* _put_job with an initial run: only an unarmed job is armed, due now.
Arm(j) ==
    IF j \in due \cup later
    THEN UNCHANGED jobvars
    ELSE /\ due' = due \cup {j}
         /\ before' = before \cup (due \X {j})
         /\ UNCHANGED later

SetTok(j, t) == tok' = [tok EXCEPT ![j] = t] /\ old' = old \ {j}
Goto(j, to) == pc' = [pc EXCEPT ![j] = to]
Move == moves < MaxMoves /\ moves' = moves + 1
Fault == faults < MaxFaults /\ faults' = faults + 1

\* The task ends: res says whether run_due_job returns or raises.
End(j, res) ==
    /\ Goto(j, "none")
    /\ result' = [result EXCEPT ![j] = res]
    /\ cancelled' = cancelled \ {j}
    /\ who' = [who EXCEPT ![j] = {}]
    /\ lease' = [lease EXCEPT ![j] = 0]
    /\ todo' = [todo EXCEPT ![j] = {}]
    /\ batch' = [batch EXCEPT ![j] = {}]
    /\ clean' = [clean EXCEPT ![j] = {}]

\* The task unwinds into its finally clause.
Unwind(j, res) ==
    /\ Goto(j, "release")
    /\ result' = [result EXCEPT ![j] = res]
    /\ UNCHANGED <<cancelled, who, lease, todo, batch, clean>>

\* A command on the subscriptions S: no task's reading of them is clean now.
Touch(S) == clean' = [j \in Jobs |-> clean[j] \ S]

\* The fence of module m moves.
MoveFence(m) ==
    /\ fence' = [fence EXCEPT ![m] = @ + 1]
    /\ clean' = [j \in Jobs |-> IF ModuleOf[j] = m THEN {} ELSE clean[j]]

Init ==
    /\ site \in Sites
    /\ due = {} /\ later = {} /\ before = {}
    /\ tok = [j \in Jobs |-> "free"]
    /\ old = {}
    /\ grant = [j \in Authorized |-> "active"]
    /\ sub = [s \in Subs |-> "none"]
    /\ rev = [s \in Subs |-> 0]
    /\ state = [s \in Subs |-> [rev |-> 0, fence |-> 0]]
    /\ fence = [m \in Modules |-> 1]
    /\ intent = [m \in Modules |-> TRUE]
    /\ gate = [m \in Modules |-> TRUE]
    /\ mod = [m \in Modules |-> "active"]
    /\ up = TRUE
    /\ pump = "scan"
    /\ page = {}
    /\ pc = [j \in Jobs |-> "none"]
    /\ result = [j \in Jobs |-> "ok"]
    /\ cancelled = {}
    /\ who = [j \in Jobs |-> {}]
    /\ lease = [j \in Jobs |-> 0]
    /\ todo = [j \in Jobs |-> {}]
    /\ batch = [j \in Jobs |-> {}]
    /\ moves = 0
    /\ faults = 0
    /\ commits = [s \in Subs |-> 0]
    /\ clean = [j \in Jobs |-> {}]

(***************************************************************************)
(* The pump.                                                               *)
(***************************************************************************)

\* list_due_jobs from the first row: the PageLimit oldest listed jobs.
FirstPage(P) ==
    LET listed == {j \in Jobs : Listed(j)} IN
    /\ P \subseteq listed
    /\ Cardinality(P) = IF Cardinality(listed) < PageLimit
                          THEN Cardinality(listed) ELSE PageLimit
    /\ \A j \in P, k \in listed \ P : <<j, k>> \in before

PumpScan ==
    /\ up
    /\ pump = "scan"
    /\ page' \in {P \in SUBSET Jobs : FirstPage(P)}
    /\ pump' = "start"
    /\ UNCHANGED <<jobvars, tok, old, subvars, state, modvars, up, taskvars, moves,
                   faults, history>>

\* gather of run_due_job: a job without a task needs its module's scope, which
\* raises when the module is not active; the other tasks start all the same.
PumpStart ==
    /\ up
    /\ pump = "start"
    /\ LET new == {j \in page : pc[j] = "none"}
           good == {j \in new : mod[ModuleOf[j]] = "active"}
       IN  /\ pc' = [j \in Jobs |-> IF j \in good THEN "start" ELSE pc[j]]
           /\ result' = [j \in Jobs |-> IF j \in good THEN "ok" ELSE result[j]]
           /\ pump' = IF new = good THEN "run" ELSE "dead"
    /\ UNCHANGED <<jobvars, tok, old, subvars, state, modvars, up, page, cancelled,
                   who, lease, todo, batch, moves, faults, history>>

\* gather returns when every task has, or raises with the first that raises;
\* _pump_loop ends on any exception, CancelledError included.
PumpJoin_NonEmpty ==
    /\ up
    /\ pump = "run"
    /\ \A j \in page : pc[j] = "none"
    /\ pump' = IF page = {} THEN "run" ELSE "scan"
    /\ UNCHANGED <<jobvars, tok, old, subvars, state, modvars, up, page, taskvars,
                   moves, faults, history>>
PumpJoin ==
    /\ up
    /\ pump = "run"
    /\ \/ /\ \A j \in page : pc[j] = "none" /\ result[j] = "ok"
          /\ pump' = "scan"
       \/ /\ \E j \in page : pc[j] = "none" /\ result[j] = "raised"
          /\ pump' = "dead"
    /\ UNCHANGED <<jobvars, tok, old, subvars, state, modvars, up, page, taskvars,
                   moves, faults, history>>

\* A storage error of the scan itself.
PumpFails ==
    /\ up
    /\ pump = "scan"
    /\ Fault
    /\ pump' = "dead"
    /\ UNCHANGED <<jobvars, tok, old, subvars, state, modvars, up, page, taskvars,
                   moves, history>>

(***************************************************************************)
(* One task, _execute_due.  A cancelled task only finishes a transaction   *)
(* that it has submitted, and unwinds.                                     *)
(***************************************************************************)

\* _registered_schedule and _principal_for.
Begin(j) ==
    /\ pc[j] = "start"
    /\ j \notin cancelled
    /\ IF mod[ModuleOf[j]] = "active" /\ LinkedTo(j) # {} /\ GrantCurrent(j)
       THEN /\ Goto(j, "global")
            /\ who' = [who EXCEPT ![j] = Principal(j)]
            /\ UNCHANGED <<result, cancelled, lease, todo, batch, clean>>
       ELSE End(j, "ok")
    /\ UNCHANGED <<jobvars, tok, old, subvars, state, modvars, up, pump, page, moves,
                   faults, commits>>

\* The global semaphore first, then the ones of the module and its source.
EnterGlobal(j) ==
    /\ pc[j] = "global"
    /\ j \notin cancelled
    /\ Cardinality({k \in Jobs : pc[k] \in Gated \cup {"module"}}) < MaxGlobal
    /\ Goto(j, "module")
    /\ UNCHANGED <<jobvars, tok, old, subvars, state, modvars, up, pump, page, result,
                   cancelled, who, lease, todo, batch, moves, faults, history>>

EnterModule_CountsItself(j) ==
    /\ pc[j] = "module"
    /\ j \notin cancelled
    /\ LET inside == {k \in Jobs : ModuleOf[k] = ModuleOf[j]
                                     /\ pc[k] \in Gated \cup {"module"}}
       IN  Goto(j, IF Cardinality(inside) < MaxPerModule THEN "claim" ELSE "global")
    /\ UNCHANGED <<jobvars, tok, old, subvars, state, modvars, up, pump, page, result,
                   cancelled, who, lease, todo, batch, moves, faults, history>>
EnterModule(j) ==
    /\ pc[j] = "module"
    /\ j \notin cancelled
    /\ Cardinality({k \in Jobs : ModuleOf[k] = ModuleOf[j] /\ pc[k] \in Gated})
           < MaxPerModule
    /\ IF mod[ModuleOf[j]] = "active"
       THEN Goto(j, "claim")
            /\ UNCHANGED <<result, cancelled, who, lease, todo, batch, clean>>
       ELSE End(j, "ok")
    /\ UNCHANGED <<jobvars, tok, old, subvars, state, modvars, up, pump, page, moves,
                   faults, commits>>

\* claim_due writes the due_at the page was read with: a job that a revocation
\* disarmed meanwhile is armed again, at its old place.
Rearm(j) ==
    IF j \in due
    THEN UNCHANGED jobvars
    ELSE \E earlier \in SUBSET due :
            /\ \A p \in before : p[2] \in earlier => p[1] \in earlier
            /\ due' = due \cup {j}
            /\ before' = before \cup (earlier \X {j}) \cup ({j} \X (due \ earlier))
            /\ UNCHANGED later

CanClaim(j) == Admitted(ModuleOf[j]) /\ j \notin later /\ LeaseFree(j)

\* claim_due.  A task cancelled meanwhile never learns the token: its finally
\* clause has no lease to release.
Claim(j) ==
    /\ pc[j] = "claim"
    /\ IF CanClaim(j)
       THEN /\ Rearm(j)
            /\ IF j \in cancelled
               THEN SetTok(j, "orphan") /\ End(j, "raised")
               ELSE /\ SetTok(j, "run")
                    /\ lease' = [lease EXCEPT ![j] = fence[ModuleOf[j]]]
                    /\ Goto(j, "admit")
                    /\ UNCHANGED <<result, cancelled, who, todo, batch, clean>>
       ELSE /\ End(j, IF j \in cancelled THEN "raised" ELSE "ok")
            /\ UNCHANGED <<tok, old, jobvars>>
    /\ UNCHANGED <<subvars, state, modvars, up, pump, page, moves, faults,
                   commits>>

\* is_current, then admit_schedule without an await in between.
Admit(j) ==
    /\ pc[j] = "admit"
    /\ j \notin cancelled
    /\ IF RowCurrent(j) /\ mod[ModuleOf[j]] = "active"
       THEN /\ Goto(j, "collect")
            /\ UNCHANGED <<result, cancelled, who, lease, todo, batch, clean>>
       ELSE Unwind(j, "ok")
    /\ UNCHANGED <<jobvars, tok, old, subvars, state, modvars, up, pump, page, moves,
                   faults, commits>>

\* The collector answers, fails or times out, or is told to come back later.
Collect(j) ==
    /\ pc[j] = "collect"
    /\ j \notin cancelled
    /\ IF Current(j)
       THEN /\ \/ /\ Goto(j, "evaluate")
                  /\ todo' = [todo EXCEPT ![j] = LinkedTo(j) \cup Peers(j)]
               \/ Goto(j, "fail") /\ UNCHANGED todo
               \/ Goto(j, "defer") /\ UNCHANGED todo
            /\ UNCHANGED <<result, cancelled, who, lease, batch, clean>>
       ELSE Unwind(j, "ok")
    /\ UNCHANGED <<jobvars, tok, old, subvars, state, modvars, up, pump, page, moves,
                   faults, commits>>

\* current_checkpoint of one subscription and its evaluation.  A peer takes part
\* only with a state of the run's own fence, and only if its projector wants it.
Takes_AnyState(j, s) == sub[s] = "active"
Takes(j, s) ==
    /\ sub[s] = "active"
    /\ JobOf[s] # j => state[s].rev > 0 /\ state[s].fence = lease[j]

Evaluate(j, s) ==
    /\ pc[j] = "evaluate"
    /\ j \notin cancelled
    /\ s \in todo[j]
    /\ todo' = [todo EXCEPT ![j] = @ \ {s}]
    /\ \/ /\ Takes(j, s)
          /\ batch' = [batch EXCEPT ![j] =
                         @ \cup {[sub |-> s, rev |-> rev[s], base |-> state[s].rev]}]
          /\ clean' = [clean EXCEPT ![j] =
                         IF fence[ModuleOf[j]] = lease[j] THEN @ \cup {s} ELSE @]
       \/ /\ ~Takes(j, s) \/ JobOf[s] # j \/ ~GrantCurrent(j)
          /\ UNCHANGED <<batch, clean>>
    /\ UNCHANGED <<jobvars, tok, old, subvars, state, modvars, up, pump, page, pc,
                   result, cancelled, who, lease, moves, faults, commits>>

\* The checks of _require_current_execution after the evaluation.  An evaluator
\* that raises is a failed collection; a registry that another module's change
\* has moved on makes prepare_evaluations refuse the run.
Evaluated(j) ==
    /\ pc[j] = "evaluate"
    /\ j \notin cancelled
    /\ todo[j] = {}
    /\ \/ /\ Current(j)
          /\ \E to \in {"commit", "fail"} : Goto(j, to)
          /\ UNCHANGED <<result, cancelled, who, lease, todo, batch, clean, faults>>
       \/ ~Current(j) /\ Unwind(j, "ok") /\ UNCHANGED faults
       \/ Current(j) /\ Unwind(j, "ok") /\ Fault
    /\ UNCHANGED <<jobvars, tok, old, subvars, state, modvars, up, pump, page, moves,
                   commits>>

\* Every subscription of the batch is as it was read.
Unchanged_NoState(b) == sub[b.sub] = "active" /\ rev[b.sub] = b.rev
Unchanged_NoRevision(b) == sub[b.sub] = "active" /\ state[b.sub].rev = b.base
Unchanged(b) ==
    /\ sub[b.sub] = "active"
    /\ rev[b.sub] = b.rev
    /\ state[b.sub].rev = b.base

CanCommit_NoFence(j) ==
    tok[j] = "run" /\ j \notin old /\ \A b \in batch[j] : Unchanged(b)
CanCommit(j) == RowCurrent(j) /\ \A b \in batch[j] : Unchanged(b)

\* commit_observation_with_evaluations: all of it, or nothing.
Commit(j) ==
    /\ pc[j] = "commit"
    /\ IF CanCommit(j)
       THEN LET wrote == {b.sub : b \in batch[j]}
                base(s) == (CHOOSE b \in batch[j] : b.sub = s).base
            IN  /\ state' = [s \in Subs |->
                       IF s \in wrote THEN [rev |-> base(s) + 1, fence |-> lease[j]]
                                      ELSE state[s]]
                /\ commits' = [s \in Subs |-> IF s \in wrote THEN commits[s] + 1
                                                             ELSE commits[s]]
                /\ Postpone(j)
                /\ SetTok(j, "free")
       ELSE UNCHANGED <<state, commits, jobvars, tok, old>>
    /\ Unwind(j, IF j \in cancelled THEN "raised" ELSE "ok")
    /\ UNCHANGED <<subvars, modvars, up, pump, page, moves, faults>>

\* _commit_failed_outcome: the FAILED observation carries no evaluations.
CommitFailed(j) ==
    /\ pc[j] = "fail"
    /\ IF RowCurrent(j) /\ (j \in cancelled \/ Current(j))
       THEN Postpone(j) /\ SetTok(j, "free")
       ELSE UNCHANGED <<jobvars, tok, old>>
    /\ Unwind(j, IF j \in cancelled THEN "raised" ELSE "ok")
    /\ UNCHANGED <<subvars, state, modvars, up, pump, page, moves, faults, commits>>

\* SourceHttpError with a time: the check that precedes defer raises out of the
\* except clause.
Defer(j) ==
    /\ pc[j] = "defer"
    /\ IF RowCurrent(j) /\ (j \in cancelled \/ Current(j))
       THEN Postpone(j) /\ SetTok(j, "free")
       ELSE UNCHANGED <<jobvars, tok, old>>
    /\ Unwind(j, IF j \in cancelled \/ ~Current(j) THEN "raised" ELSE "ok")
    /\ UNCHANGED <<subvars, state, modvars, up, pump, page, moves, faults, commits>>

\* The finally clause releases the lease if the row still has it.
Release_Skip(j) ==
    /\ pc[j] = "release"
    /\ End(j, result[j])
    /\ UNCHANGED <<jobvars, tok, old, subvars, state, modvars, up, pump, page, moves,
                   faults, commits>>
Release(j) ==
    /\ pc[j] = "release"
    /\ IF tok[j] = "run" THEN SetTok(j, "free") ELSE UNCHANGED <<tok, old>>
    /\ End(j, result[j])
    /\ UNCHANGED <<jobvars, subvars, state, modvars, up, pump, page, moves, faults,
                   commits>>

\* The release transaction raises, which the clause swallows.
ReleaseFails(j) ==
    /\ pc[j] = "release"
    /\ tok[j] = "run"
    /\ Fault
    /\ tok' = [tok EXCEPT ![j] = "orphan"]
    /\ End(j, result[j])
    /\ UNCHANGED <<jobvars, old, subvars, state, modvars, up, pump, page, moves,
                   commits>>

\* CancelledError reaches the task.
Cancel(j) ==
    /\ j \in cancelled
    /\ pc[j] \notin {"none", "release"}
    /\ IF pc[j] \in Leased THEN Unwind(j, "raised") ELSE End(j, "raised")
    /\ UNCHANGED <<jobvars, tok, old, subvars, state, modvars, up, pump, page, moves,
                   faults, commits>>

(***************************************************************************)
(* Commands, time and crashes.                                             *)
(***************************************************************************)

\* create: the job is armed in the same transaction.
Create(s) ==
    /\ up /\ Move
    /\ sub[s] = "none"
    /\ GrantCurrent(JobOf[s])
    /\ Admitted(ModuleOf[JobOf[s]])
    /\ sub' = [sub EXCEPT ![s] = "active"]
    /\ rev' = [rev EXCEPT ![s] = 1]
    /\ Arm(JobOf[s])
    /\ UNCHANGED <<tok, old, grant, state, modvars, up, pump, page, taskvars, faults,
                   history>>

Revise(s) ==
    /\ up /\ Move
    /\ sub[s] = "active"
    /\ GrantCurrent(JobOf[s])
    /\ rev' = [rev EXCEPT ![s] = @ + 1]
    /\ Arm(JobOf[s])
    /\ Touch({s})
    /\ UNCHANGED <<tok, old, sub, grant, state, modvars, up, pump, page, taskvars,
                   faults, commits>>

\* The job goes with the subscription, whoever else uses it.
CancelSub_Disarms(s) ==
    /\ up /\ Move
    /\ sub[s] = "active"
    /\ sub' = [sub EXCEPT ![s] = "cancelled"]
    /\ rev' = [rev EXCEPT ![s] = @ + 1]
    /\ Touch({s})
    /\ Disarm(JobOf[s])
    /\ UNCHANGED <<tok, old, grant, state, modvars, up, pump, page, taskvars, faults,
                   commits>>

\* cancel: only the link goes; the job row stays armed, and unlisted without links.
CancelSub(s) ==
    /\ up /\ Move
    /\ sub[s] = "active"
    /\ sub' = [sub EXCEPT ![s] = "cancelled"]
    /\ rev' = [rev EXCEPT ![s] = @ + 1]
    /\ Touch({s})
    /\ UNCHANGED <<jobvars, tok, old, grant, state, modvars, up, pump, page, taskvars,
                   faults, commits>>

\* revoke_grant_with_invalidation: every subscription of the Grant is cancelled,
\* its job disarmed and the job's lease taken away, under the feet of a task.
RevokeGrant(j) ==
    /\ up /\ Move
    /\ j \in Authorized
    /\ grant[j] # "revoked"
    /\ grant' = [grant EXCEPT ![j] = "revoked"]
    /\ LET used == LinkedTo(j) IN
       /\ sub' = [s \in Subs |-> IF s \in used THEN "cancelled" ELSE sub[s]]
       /\ rev' = [s \in Subs |-> IF s \in used THEN rev[s] + 1 ELSE rev[s]]
       /\ Touch(used)
    /\ Disarm(j)
    /\ SetTok(j, "free")
    /\ UNCHANGED <<state, modvars, up, pump, page, taskvars, faults, commits>>

\* The clock passes the Grant's expires_at.
ExpireGrant(j) ==
    /\ j \in Authorized
    /\ grant[j] = "active"
    /\ grant' = [grant EXCEPT ![j] = "expired"]
    /\ UNCHANGED <<jobvars, tok, old, sub, rev, state, modvars, up, pump, page,
                   taskvars, moves, faults, history>>

\* The module's subscription gate is switched.
SwitchGate(m) ==
    /\ up /\ Move
    /\ m \in Pausable
    /\ gate' = [gate EXCEPT ![m] = ~@]
    /\ MoveFence(m)
    /\ UNCHANGED <<jobvars, tok, old, subvars, state, intent, mod, up, pump, page,
                   taskvars, faults, commits>>

\* quiesce closes the module and cancels its scope ...
Quiesce(m) ==
    /\ up /\ Move
    /\ m \in Stoppable
    /\ mod[m] = "active"
    /\ mod' = [mod EXCEPT ![m] = "stopping"]
    /\ cancelled' = cancelled \cup {j \in Jobs : ModuleOf[j] = m /\ pc[j] # "none"}
    /\ UNCHANGED <<jobvars, tok, old, subvars, state, fence, intent, gate, up, pump,
                   page, pc, result, who, lease, todo, batch, faults, history>>

\* ... then commit_intent writes the durable intent, and the scope drains.
CommitDisable(m) ==
    /\ up
    /\ mod[m] = "stopping"
    /\ mod' = [mod EXCEPT ![m] = "stopped"]
    /\ intent' = [intent EXCEPT ![m] = FALSE]
    /\ MoveFence(m)
    /\ UNCHANGED <<jobvars, tok, old, subvars, state, gate, up, pump, page, taskvars,
                   moves, faults, commits>>

Enable(m) ==
    /\ up /\ Move
    /\ mod[m] = "stopped"
    /\ \A j \in Jobs : ModuleOf[j] = m => pc[j] = "none"
    /\ mod' = [mod EXCEPT ![m] = "active"]
    /\ intent' = [intent EXCEPT ![m] = TRUE]
    /\ MoveFence(m)
    /\ UNCHANGED <<jobvars, tok, old, subvars, state, gate, up, pump, page, taskvars,
                   faults, commits>>

\* The cadence of a job elapses.
BecomeDue(j) ==
    /\ j \in later
    /\ \A s \in Subs : commits[s] < MaxCommits
    /\ later' = later \ {j}
    /\ due' = due \cup {j}
    /\ before' = before \cup (due \X {j})
    /\ UNCHANGED <<tok, old, subvars, state, modvars, up, pump, page, taskvars, moves,
                   faults, history>>

\* A lease expires: nobody releases it, or its task runs longer than the lease.
ExpireLease(j) ==
    /\ tok[j] # "free"
    /\ j \notin old
    /\ IF tok[j] = "run" THEN Fault ELSE UNCHANGED faults
    /\ old' = old \cup {j}
    /\ UNCHANGED <<jobvars, tok, subvars, state, modvars, up, pump, page, taskvars,
                   moves, history>>

Crash ==
    /\ up
    /\ Fault
    /\ up' = FALSE
    /\ tok' = [j \in Jobs |-> IF tok[j] = "run" THEN "orphan" ELSE tok[j]]
    /\ pump' = "scan"
    /\ page' = {}
    /\ pc' = [j \in Jobs |-> "none"]
    /\ result' = [j \in Jobs |-> "ok"]
    /\ cancelled' = {}
    /\ who' = [j \in Jobs |-> {}]
    /\ lease' = [j \in Jobs |-> 0]
    /\ todo' = [j \in Jobs |-> {}]
    /\ batch' = [j \in Jobs |-> {}]
    /\ clean' = [j \in Jobs |-> {}]
    /\ mod' = [m \in Modules |-> "stopped"]
    /\ UNCHANGED <<jobvars, old, subvars, state, fence, intent, gate, moves, commits>>

\* restore_startup starts the modules whose durable intent is true.
Restart ==
    /\ ~up
    /\ up' = TRUE
    /\ mod' = [m \in Modules |-> IF intent[m] THEN "active" ELSE "stopped"]
    /\ UNCHANGED <<jobvars, tok, old, subvars, state, fence, intent, gate, pump, page,
                   taskvars, moves, faults, history>>

\* Once the pump has ended nothing starts it again in this process.
Halted == up /\ pump = "dead" /\ UNCHANGED vars

Pump == PumpScan \/ PumpStart \/ PumpJoin

Step(j) ==
    \/ Begin(j) \/ EnterGlobal(j) \/ EnterModule(j) \/ Claim(j) \/ Admit(j)
    \/ Collect(j) \/ Evaluated(j) \/ Commit(j) \/ CommitFailed(j) \/ Defer(j)
    \/ Release(j) \/ Cancel(j)
    \/ \E s \in Subs : Evaluate(j, s)

Next ==
    \/ Pump \/ PumpFails
    \/ \E j \in Jobs : \/ Step(j) \/ ReleaseFails(j) \/ BecomeDue(j) \/ ExpireLease(j)
                     \/ RevokeGrant(j) \/ ExpireGrant(j)
    \/ \E s \in Subs : Create(s) \/ Revise(s) \/ CancelSub(s)
    \/ \E m \in Modules : SwitchGate(m) \/ Quiesce(m) \/ CommitDisable(m) \/ Enable(m)
    \/ Crash \/ Restart
    \/ Halted

Spec == Init /\ [][Next /\ UNCHANGED site]_<<site, vars>>

\* The event loop runs what can run, asyncio semaphores are first come first
\* served, orphaned leases expire, and the process is started again.
Fairness ==
    /\ WF_vars(Pump)
    /\ WF_vars(Restart)
    /\ \A j \in Jobs :
          /\ SF_vars(Step(j))
          /\ WF_vars(tok[j] = "orphan" /\ ExpireLease(j))

FairSpec == Spec /\ Fairness

(***************************************************************************)
(* Properties.                                                             *)
(***************************************************************************)

\* The state revision of a subscription counts the commits that included it:
\* two runs that project onto each other's subscriptions never both build on
\* the same state, so no evaluation is lost.
NoLostEvaluation == \A s \in Subs : state[s].rev = commits[s]

\* What is committed was read after the claim and has not changed since: the
\* subscription was neither revised nor cancelled, its Grant not revoked, the
\* module neither paused nor disabled, and the lease neither lost nor expired.
CommitsAreCurrent ==
    [][\A s \in Subs :
         commits'[s] # commits[s] =>
             \E j \in Jobs :
                 /\ pc[j] = "commit" /\ pc'[j] = "release"
                 /\ s \in clean[j]
                 /\ tok[j] = "run"
                 /\ j \notin old]_vars

\* _project_public_members: "Projection must not establish a new subscriber's
\* baseline."  The first state under a fence comes from the own job.
OwnBaseline ==
    [][\A s \in Subs :
         state'[s].fence # state[s].fence =>
             pc[JobOf[s]] = "commit" /\ pc'[JobOf[s]] = "release"]_vars

\* An active subscription always has an armed job: no cancellation, revocation,
\* failure or crash leaves it without a collection to come.
ActiveIsArmed == \A s \in Subs : sub[s] = "active" => JobOf[s] \in due \cup later

\* A lease without a task that will release it is one that a crash, a storage
\* error or a cancelled claim left behind; a task's own lease is released.
LeaseHasTask ==
    \A j \in Jobs : tok[j] = "run" => pc[j] \in Leased

\* docs/requirements.md: every game module is independent, with its own switch.
\* Without a fault the pump that all modules share goes on.
PumpGoesOn == up /\ faults = 0 => pump # "dead"

Waits(j) ==
    /\ up
    /\ Listed(j)
    /\ GrantCurrent(j)
    /\ mod[ModuleOf[j]] = "active"
    /\ Admitted(ModuleOf[j])

\* run_due_page: "Process one fair page."  Every due job of an active module is
\* claimed in the end, unless the pump dies.
EveryDueJobIsServed ==
    \A j \in Jobs : Waits(j) ~> (~Waits(j) \/ pump = "dead")

\* Every task ends: no semaphore is held for ever.
TasksEnd == \A j \in Jobs : pc[j] # "none" ~> pc[j] = "none"

\* No evaluation is lost, no active subscription is without a collection to
\* come, and no lease without the task that releases it.
CollectionIsSafe == TypeOK /\ NoLostEvaluation /\ ActiveIsArmed /\ LeaseHasTask

\* No commit of a collection rests on something that has changed since its
\* claim, and none establishes the baseline of another job's subscription.
CommitsStand == CommitsAreCurrent /\ OwnBaseline

\* Every due job is served, and every collection task ends.
CollectionProgresses == EveryDueJobIsServed /\ TasksEnd
=============================================================================
