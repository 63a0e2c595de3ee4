# Verification of the YomiHime game link

TLA+ models of the YomiHime game link, an AstrBot plugin that collects game
data for subscribers, answers their commands and sends them notifications, with
TLC runs on small instances and TLAPS proofs. Paths are relative to the
repository.

The program can go wrong in ways a test hardly reaches: one event loop with
many coroutines, one database thread, a database and files that survive
crashes, an outside Host and outside sources whose answer may never come, and
commands that withdraw authority while work is on its way. The models cover the
code that has to get this right, and leave out what only transforms data.

1. Inventory
2. Modules and how they correspond to the code
3. Runs
4. Proofs
5. Where code and documents disagree
6. Observations
7. Not modelled
8. Plan

## 1. Inventory

### Execution model of the program

- One process, one asyncio event loop. Code between two awaits is not
  interrupted; every await is a point where another coroutine may run.
- One SQLite worker thread (`infrastructure/sqlite/executor.py`). A repository
  call is one job, one `BEGIN IMMEDIATE` transaction that commits or rolls back.
- One pump (`_pump_loop` in `services/core_runtime.py`), strictly sequential:
  `run_due_page`, `create_digest_windows_page`, `dispatch_due_events`,
  `dispatch_due_digests`, sleep, again. `run_due_page` starts one task per due
  job; the dispatchers of the other stages run one after the other.
- One mutation gate (`AdmissionController._mutation_lock` in
  `core/admission.py`), not reentrant. A send takes it to persist its attempt
  and again to enter the Host; subscription commands, authorization, the
  configuration, the extension runtime, bindings and others take it around
  their writes.
- Authority is versioned: module epochs, gate and intent revisions (the fence),
  subscription revisions, Grant status. The program saves the versions with its
  work and compares them again before it acts.

### Components

| Component | State it keeps | Hard behaviour | Modelled in |
|---|---|---|---|
| Event delivery | outbox row, attempt, retry time | crash between claim and receipt, late answer, withdrawn authority | `EventDelivery`, `DeliveryContract` |
| Digest delivery | envelope, members, claim, member events | expired claims, members that vanish while rendering | `DigestDelivery` |
| Collection scheduler, pump | jobs, leases, tasks, semaphores | lease expiry, shared subscriptions, cancellation, a stage that ends the loop | `CollectionScheduler`, `PumpPlanning`, `DigestWindows` |
| Subscription operations | subscription rows, links, creation keys | checks before the gate, writes inside it | `SubscriptionCommands` |
| SQLite executor | queue, permits, worker | idle exit, cancellation, a loop torn down | `SqliteExecutor` |
| Admission, invocation path | gates, leases, views, handler tasks | authority checked, then used after an await; handlers that ignore cancellation | `InvocationGateway` |
| Output | durable claim, send task, image lease | at most one host send across restarts | `RootOutput` |
| Module lifecycle, extension runtime | intent, journal, registry, instances | a crash between the journal and the effect | `ModuleActivation` |
| External packages | attachment, grants, known sources | files that change under registration | `ExternalPackages` |
| Credentials and keys | receipts, blobs, key files | a crash between file and row | `SecretVault` |
| Authorization, identity, bindings | login sessions, grants, principals, bindings | superseded logins, racing first messages | `AccountLogin`, `AccountBindings` |
| HTTP sources | token, budget, cooldown | rotation during an exchange, a budget read before its write | `SourceRequests` |
| Durable jobs | job rows, run tokens | cancel, retry and restart against a run | `DurableJobs` |
| Module services | facades bound to one invocation | authority lost between check and write | `BoundServices` |
| Cache and resources | index, files, pins, leases | eviction against readers, crashes | `ResourceCache` |
| Storage migration | attempt, fence, entries | cut off at every step | `StorageMigration` |
| AstrBot adapter | generation, published tools, pages | overlapping initialize and terminate, edits of the Host | `HostLifecycle`, `ToolCalls`, `ModulePages` |
| Administration, health | requests, published readiness | session ends during a request, probes out of order | `AdminRequests`, `ModuleHealth` |
| Calendar | snapshots, series, reminders | two instances, revisions of events, local time | `CalendarSeries`, `CalendarSnapshots`, `CalendarReminders` |
| Chats of the FF14 module | candidate batches | calls that overlap a selection | `ChatSelections` |
| Logs history | queries, workers, packs | two queries and a close | `LogsHistory` |
| Rendering, parsing, discovery, contracts, command bridge | none shared | none a model adds to | no |

`PROJECT.json` lists each component with its sources, what of it is modelled or
why it is not, and the hazards with the line at which each bites.

### What makes the parts correct

- *Delivery*: a subscriber gets a message at most once, also across crashes; a
  row never claims a delivery that did not happen; nothing is sent on withdrawn
  authority; a digest has the content of members still entitled to it.
- *Collection*: what is committed was evaluated from the current state of a
  current subscription; two jobs do not overwrite each other; an active
  subscription has an armed job; every due job is served.
- *Executor*: one worker, no stranded job, no call that returns before its
  transaction is settled, nothing behind a closed executor.
- *Activation*: gates follow durable intents, code runs under a lease, the
  journal tells what happened, and a restart restores what was on.
- *Invocation and output*: authority ends with the call; the answer of a
  revoked grant is not given; the Host is asked at most once per invocation.
- *Secrets and grants*: a live secret can be opened; no superseded login makes
  a grant active; a request carries a current credential within its budget.
- *Services*: one run per job, results of one attempt; bytes that are promised
  are there; no write without the authority present at its commit; a migration
  is recoverable at every step.
- *Host*: one core owns the storage; no stale tool is callable; pages are
  fenced; packages keep an owner and are approved as shown.
- *Management*: quotas, planning, windows, snapshots, reminders, selections,
  administrator requests and health are what they say, in every interleaving.

## 2. Modules and how they correspond to the code

A repository call is one step, the code between two awaits is one step, and the
guards that such code evaluates are conjuncts of the step. A variable's comment
names the field or column it stands for. A definition `X_Y` is `X` with the bug
`Y` names; no specification uses it. `map` in `PROJECT.json` gives the source
lines of each definition; a helper or step whose lines lie inside those of another
mapped definition has no entry of its own.

### Delivery chain

**EventDelivery.** `ev` is the table `b04_delivery_events`; `sub`, `fence`, `grant`,
`open`, `epoch` are the authority the event depends on; `gate` is the mutation
lock. `pc`, `job`, `seen`, `num`, `lease`, `stop` and `receipt` are the locals
of one `dispatch_event` coroutine. The actions follow it (read, eligibility,
render, approve, claim under the gate, schedule the sender, enter the Host,
settle), the timeout and cancellation of its waiter, the failure of each write,
`recover_stale_sending`, and the commands that withdraw authority. A positive
eligibility check is one step: revisions and epochs only grow and are compared
again, so there was one instant at which all it read held together. External:
the Host. `ACCEPTED` means the platform delivered, `FAILED` that it did not,
anything else may be either. An exception that leaves `dispatch_event` (a refused
proof, a failed write), or one from another stage (`PumpFails`), ends `pump`; only a
restart brings it back.

**DeliveryContract.** What delivery promises of each event: at most one delivery,
only during an attempt; SENT only after it, FAILED and CANCELLED only without
it, UNKNOWN whenever nobody can tell. `ImplementsContract` says every step of
the pipeline is a step of the contract or none.

**DigestDelivery.** One envelope, its members, and the dispatchers that process
it. `env`, `joined`, `evst` are the three tables. The claim token and the revision
are one variable, `holder`: every write raises the revision, and each write that
is not the claimant's replaces or clears the token, so a claimant finds both
unchanged exactly while it is the holder. `round`, `todo`, `ok`, `prior`, `batch`
are the locals of `dispatch_digest`: it checks each member, renders, checks
again, checks a third time under the gate, and starts over, up to `Rebuilds`
times, when the membership shrank. `Digests` chooses the kind of digest, which
members' events stand, and which callers there are.

**CollectionScheduler.** Jobs with their due times and leases, subscriptions with
their evaluation states, Grants, the pump with its page, and one task per due
job: scope, semaphores, claim, admission, collection, evaluation subscription
by subscription, one commit, release. Commands, revocation and expiry, the
subscription gate, disabling and enabling of a module, crashes and lost
releases interleave with every step. `Sites` is the set of installations a
behaviour may be about: which job belongs to which module, which subscription
to which job, the limits.

**SqliteExecutor.** Callers of `execute`, worker threads, queue, permits,
`_initialize` with its lock, `close`, and the loss of the event loop. The
worker's idle timeout and the critical section in which it looks again are
separate steps, as they are in the code.

**SubscriptionCommands**, **PumpPlanning**, **DigestWindows.** The commands of one
owner with the gate, the links and the creation keys; the gates and background
jobs the pump registers under a remembered signature; the windows it plans from
wall-clock profiles, where UTC is a sequence of ticks and a zone maps a tick to
its local reading, with folds and gaps.

### Modules and invocations

**ModuleActivation.** Durable intents and journal, registry, lifecycle states,
instances, gates, the build of the package and its lease. Enable, disable,
restore and close step by step, with compensation and the fence of
`stop_accepting`.

**InvocationGateway.** One host request from ingress to answer: views of
`ContextIssuer`, leases of `AdmissionController`, the handler in the module's
`TaskScope` with deadline and cleanup bound, a dependency in a second module,
the checks after the handler, the close of the runtime.

**RootOutput.** `route` with its per-invocation lock, durable claim, grant
re-check, send task, timeout, image lease, and the recovery of claims a dead
process left.

**ExternalPackages.** Registration, withdrawal, planning and approval of one
package of one plugin; a later manifest version asks for more, edits are never
undone (a capture compares inode and times).

### Secrets, grants and sources

**SecretVault.** Receipts, blobs, key files and the journal of key operations; one
sensitive field and one grant; a configuration update that stages, claims,
commits and cleans up; start-up recovery. Administrators act after start-up,
each submits once.

**AccountLogin.** Login sessions by generation, the grant row by revision, the
session memory of each build of the module's services. Time is a choice: a read
may find a session or the grant past its expiry.

**SourceRequests.** Permits, the lease of a credential (cached OAuth token or
static), the exchange, the persisted budget, redirects, 401 and 429.

### Services

**AccountBindings**, **DurableJobs**, **BoundServices**, **ResourceCache**,
**StorageMigration.** One actor, module and conversation with its principal,
identities and bindings; the job table with driver, runs, cancellation and
restart; the ports bound to one invocation, with `check()` around every await;
content-addressed resources of one scope with eviction, pins and leases; the
move of private storage with every place it can be cut off. `header` is the head of
its journal: a later plan resumes only if the source's inventory and files are those
it was written for. `DriverTakes` joins the claim's commit with the creation of the
run's task; a crash in between leaves what a crash just after leaves.

### Host, management, calendar, chats

**HostLifecycle**, **ToolCalls**, **ModulePages**, **LogsHistory**: initialize,
terminate and recover by generation (the text of a failed start's error is left
out); publication and scoping of tools and their receipts; page sessions and device
flows; the log queries with shared workers, where a scope may be echo-only
(`excluded_echo`) and a pack that could not be saved is a warning only.
**AdminRequests**, **ModuleHealth**: requests with the grant they work under, and
the readiness admission reads. **CalendarSeries**, **CalendarSnapshots**,
**CalendarReminders**: `parse_ics` against a definition of what a source announces;
stored snapshots of two sources and two instances, parsed again when read, where
reminders refuse floating times (`floating`, `StatusOf`); daily summaries over local
dates. **ChatSelections**: candidate batches of the market, item and logs handlers.

### Composition for TLC

`MCCredentials`, `MCPaths`, `MCServices`, `MCHost` and `MCManagement` each put
several components into one specification. Those components share no state, so
one variable (`keeper`, `path`, `service`, `entrance`, `part`) says which of
them a behaviour is about, and the others are off. The other modules are
checked through `MCEventDelivery`, `MCDigestDelivery`, `MCCollectionScheduler`,
or directly.

## 3. Runs

| Run | Shows | Instance |
|---|---|---|
| `delivery` | at most once, honest SENT, one owner per attempt, current authority, implementation of `DeliveryContract`; every dispatch returns and due events settle | 1 event, 2 dispatchers, 2 attempts, 3 epochs, 1 fault, a clock that may be set back |
| `executor` | one worker, no stranded job, balanced permits, closed means drained; calls return, the worker leaves | 2 callers, 2 threads, capacity 1 |
| `digest` | one message, requeued means unsent, member events follow; content and authority current on entry, membership sealed | 2 members and 2 dispatchers (public), 2 members or 2 dispatchers (private), 2 rebuilds, 2 attempts, 1 fault |
| `collection` | no lost evaluation, active is armed, a lease has a task, commits rest on what stands; due jobs are served, tasks end | three installations of 2 jobs and 2 subscriptions: racing, sharing a Grant, one paused module |
| `activation` | gates follow intents, code its lease, the journal the truth; no gate opens after the fence; a restart restores | 2 modules, 3 operations, 2 credential generations, 1 fault |
| `credentials` | secrets stay openable; no superseded login or revoked grant is used; requests carry current credentials within budget | 2 administrators, 2 tokens, 2 keys, 1 crash; 2 logins, 2 service builds; 2 fetches, window of 2 ticks |
| `paths` | authority ends with the call, the output tells the truth, no answer from a revoked grant; every call returns | 1 call of each of 5 kinds; 2 calls of `route`, 6 routes, 2 faults |
| `services` | one run per job, bindings keep their owner, migrations recover; promised bytes stay, writes are authorized | 2 tasks, 2 objects or assets, 2 jobs with 2 attempts, 2 scopes, 2 writers |
| `host` | one core owns the storage, logs tell the truth; no stale tool, fenced pages, trusted packages | 2 starters, 1 stopper, 1 recoverer; 1 call; 2 pages; 2 queries over 3 scopes, one of them echo-only; 2 plugin objects |
| `management` | the nine parts of section 1 | 2 commands, 2 requests, 2 tasks each; 3 chat calls; two profiles and a zone with a fold and a gap; 6 instants |

`collection_stop` and `vault_stuck` end in a violation, see section 5.

**Why the bounds are enough.** Two coroutines are the smallest number that
interferes; a third repeats a role one of the two has, except in the chats,
where a third call can meet a batch two others changed. Two attempts
reach the retry of a failed attempt; one fault together with a crash reaches the
repair of a first fault; two or three epochs let a module be closed and opened
under one operation. Limits of the code (100 members, 4 rebuilds, permits,
budgets) are set so low that the instance reaches them. Bounds on counters
(`MaxAttempts`, `MaxEpoch`, `MaxFaults`, `MaxMoves` and the like) stop new
work; what has begun is never cut off by one. What is proved (section 4) holds for all values.

**Symmetry** is used in `digest`, `credentials`, `services`, `host` and
`management`, none of which checks liveness.

**Deadlock** is checked in the runs of single components, whose last states stutter
through an action of their own. The five composed runs and `vault_stuck` end when
every task of a bounded instance is over, which is where the program would wait
for its next request; they say `CHECK_DEADLOCK FALSE`.

**Fairness.** Strong fairness for the steps of a dispatcher or task and for the
executor's steps that wait for a lock or a permit: asyncio's `Lock` and
`Semaphore` serve their waiters in order. Strong fairness for picking up a *due*
event while the pump has not returned, since it scans again in every cycle; nothing
brings a pump back that has returned in a living process, and `DeliveryProgresses`
promises nothing then but that the dispatches under way return. Weak fairness for the
pump, recovery, the restart after a crash, the expiry of a claim and the worker
thread. In `paths`, weak fairness for the steps of a request and its deadline, the
start of its handler's task, the timers that bound the cleanup of handler and
dependency, and the steps of a call of `route`; none for how a foreign handler ends
or whether it honours its cancellation. The Host, the renderer and the
storage are assumed to return in `delivery`; in `paths` they are not, the timeout
ends the wait. No fairness is assumed of commands, faults or users.

## 4. Proofs

Every theorem is for all values of the constants, from the module's named
assumptions alone. Each rests on an inductive invariant that TLC checked first.

**EventDelivery_proofs**: `DeliverySafe` (`Spec => []DeliveryIsSafe`, with its parts
`TypeCorrect`, `DeliversAtMostOnce`, `SentMeansDelivered`, `AttemptsAreOwned`),
`SendsOnlyWhileCurrent` and `Refinement` (`Spec` implements `DeliveryContract`).
At-most-once is not inductive: what keeps a second message out is that the row
of a delivered event is not waiting, so `DeliveryInv` adds who may still write
that row: one dispatcher owns an attempt (`OneOwner`) and knows its number
(`OwnerKnows`); one that has only read the row saw a state from which the
compare-and-set still works or fails (`SeenWaiting`); approval and claim happen
under the gate (`GateHeld`), which is why what was checked is still true
(`ProofHolds`); a crash leaves nobody in the middle (`DownIsIdle`).

**CollectionScheduler_proofs**: `CollectionSafe` (`Spec => []CollectionIsSafe`) and
`CommitsAreSound` (`Spec => CommitsStand`), for any installation in `Sites`. The
invariant relates each task to the job it leases and to what it has read: while the
token is its own, the revisions it collected are those of the rows, or the
commit's comparison fails.

**DigestDelivery_proofs**: `DigestSafe` (`Spec => []DigestIsSafe`) and
`DigestStepsCurrent` (`Spec => DigestStepsAreCurrent`). `OneMessage` needs to
know who may have sent: a dispatcher whose attempt is persisted holds the
envelope or has lost it to the recovery of an expired claim, which leaves the
envelope UNKNOWN for good (`OwnsOrLost`); while it holds it, what it goes
through and has rendered is the envelope's (`PassIsCurrent`), the last proof is
made and used under the gate (`ProofStands`), and it knows whether the message
left (`KnowsDelivery`). `Spares(e)` says what a step leaves to any other dispatcher,
and one lemma (`SparedIsOk`) turns that into the invariant; each action
is then a step of one dispatcher that writes nothing (`QuietStep`), a write of
the holder (`HolderStep`), a write of an envelope nobody holds (`FreeStep`) or a
step of the world (`WorldStep`).

**MCServices_proofs**: all five properties of the `services` run.
- `JobsOwned`: a run in flight carries the token of its row, the table of tasks
  names it, and a row that is running has a run or the process is down.
- `BindingsKept`: whoever has resolved the actor resolved it to the stored
  principal (`ScopedKnowsOwner`), and a write happens under the gate on what its
  snapshot saw.
- `MigrationRecovered`: the source stands still while it is fenced, the mover
  writes only in the window of its attempt, and the commit is last
  (`SourceStill`, `MoverInWindow`, `FencedFirst`, `CommitIsLast`); a journal, once made,
  keeps its head and only a plan for the same files goes on with it (`JournalInv`).
- `ServicesBound`: per invocation, what a coroutine has checked is still what
  the row says, or the next check fails (`RowHolds`, `RowGranted`, `RowSettled`).
- `BytesPromised`: per task, what it leases or is about to promise has its file
  (`RowHeld`, `ManagedHasFile`).

The specification composes five components that share no state; the invariant
of each is guarded by the choice of the component.

**MCManagement_proofs**: all nine properties of the `management` run, and the
executor under every repository. Per component one inductive invariant, that its
initial states satisfy it and its steps keep it; as in the services, the theorems
carry it to the run's specification.
- `CommandsKept`: what a command demanded inside the gate still stands when it
  writes, because rows, links and the Grant move only under the gate; the creation
  table knows the active row of every creation key (`SubInv`).
- `PlanCurrent`: every job that was planned or remembered is of an epoch that is
  over or is the live one, and a remembered job that still fits its module has
  its row, so a signature that matches hides nothing (`JobsPast`,
  `SignedHaveRows`, `LeaseFits`).
- `WindowsFound`: a pass over the schedules that is under way has, for each date it
  is done with, the window or proof that there is none (`PassPlanned`), and so has
  the last finished pass of every schedule (`DonePlanned`). The first and the last
  reading of an hour are chosen by `CHOOSE`: that they exist comes from the
  well-foundedness of the naturals (`FirstNatural`). The zone data of the constants
  must reach past the boundaries of the dates looked at.
- `CalendarFaithful`: a group that is interpreted yields the occurrences its source
  announces, neither more nor fewer (`ExpandedIs`), because the newest revisions are
  what the source says and the rule is followed up to the last slot an override
  names. So `reading.out` is announced by the groups done, and without a warning is all
  of it (`SeriesInv`). For a sound source within the budgets, what was spent
  is at most the cardinality of `LookedAt` of the groups done: a bound by finite sets,
  not by induction over them.
- `SnapshotsServed`: what a task read from the row before its fetches is the row, or
  the revision has moved and its write fails; a reader's status is that of its own
  parse (`FreshIsFound`).
- `HealthCurrent`: what the health service knows is the stored row, or a
  publication that will tell it is under way.
- `ChatConsistent`: an entry's batch is selected from once because the selection,
  the ticket and the resolution stand in one place at a time (`OneResolves`,
  `LeftAlone`, `ScopeOpen`). The proof showed that `picks` had counted a
  selection whose ticket was refused, which the calls of the run are too few to
  tell apart; it now counts what the code lets select.
- `AdminFenced`: a request in the gate is alone there; what a request has seen of
  the configuration still stands, what it has seen of the registry stands while
  its snapshot is the published one, and a proof ends with the pages
  (`RequestHolds`). `Weaker` says what a change of the registry, a lost session or a closed
  page leaves to a request.
- `SummariesDue`: a date that was sent is over under every offset a subscription may
  have, or is among the remembered ones (`SentAreKnown`). A remembered date lies
  close to the first date that is not over (`DatesNear`), so one that is pushed out
  of the list is over by the pigeonhole principle (`TooManyDates`). The offsets may
  be up to two days apart, for which five remembered dates are enough; the code
  keeps 32 (`calendar_evaluator.py:43`). The proof showed that the two of an
  earlier instance are not: five revisions that move the offset back and forth send a
  date twice. The run now has three, enough for its offsets of one day.
- `ExecutorSafe`, with its eight parts as theorems of their own: `ExecutorInv`
  follows a job. The registered worker is the one living thread (`LiveIsWorker`), a
  job is in one place (`QueueServed`, `JobPlaces`), a caller that may submit has seen
  an initialization succeed (`SchemaKnown`). `CountsAgree` counts these places; when
  the loop is gone the equation becomes a bound, which is still enough for the
  worker not to count below zero.

**MCHost_proofs**: all five properties of the `host` run.
- `HostOwned`: one coroutine is inside the lock; what stands at each of its places, of
  the core, the guard and the lease, is `StepReady`; a blocked core is of the
  generation that is, unless the host is closing.
- `ToolsCurrent`: an open handle is listed and of the epoch that is published, and
  what scoping proposed never holds the unscoped tool.
- `LogsTrue`: a query that saves has seen no hidden character (`LookSound`), and what a
  cache holds was stored in the lifecycle that is.
- `PackagesTrusted`: a request captures only while there is no lease, a lease that is
  connected holds the runtime, and one whose cleanup is done holds it no more
  (`LeaseOwns`, `PackagerFits`); a plan that commits writes what it showed.
- `PagesFenced`: a lineage of pages has one open session and never comes back
  (`OneSessionPerLine`), a commit holds the lock of its flow, and a flow that was
  stored and then cancelled has lost its lineage, so nobody can be told of it
  (`FlowFits`, `PageTaskFits`).

**ModuleRuntime_proofs**: activation, requests and routes; they share no state.

*Activation.* `ActivationSound` (`Spec => []ActivationIsSound`) and
`ShutdownOpensNothing` (`Spec => ClosingOpensNothing`). The properties speak of gates,
intents and leases after any step; what makes them hold is what an operation has
left behind at the place it has reached. `ActivationInv` says so per place: the
lifecycle row and the instance (`PcHolds`, `RowHolds`), the intent (`IntentHolds`),
the gate (`GateHolds`) and the journal (`JournalHolds`), with one operation per id
(`IdsDiffer`). `PackageHolds` and `TodoHolds` do it for the build and for start-up
and close. A step of one module's operation leaves all of this to the other
modules (`StepOf`, `OthersHold`), so a proof of a step is about one module.
The fence: a gate opens only in a publication, which demands that the runtime accepts.

*Requests and routes:* the three safety properties of the `paths` run.
- `OutputTrue`: whoever has a scheduled send owns a claim that left CLAIMED for good
  and of which nobody recorded that nothing was sent (`Claims`). As only one call can,
  the host is asked once; what each call knows at its place agrees with the row
  (`CallTells`, `RowTells`), also of the call that was cancelled while its send
  went on, and the image is kept while that send may use it (`ImageHolds`).
- `AuthorityBounded`: an outcome is decided last (`CallHolds`), and a task that has not
  ended keeps its scope from closing and is of the run that serves, if one does
  (`Fits`): a scope reopens only from closed, so no task of an earlier run is left.
- `AnswersAuthorized`: a step that decides an answer reads what stands
  (`StepAnswers`); a private request whose grant is stale after its handler stays so,
  because a grant that returns has a new revision (`Doomed`, `DoomedStays`), which
  gives the nested temporal formula.

**MCCredentials_proofs**: the three properties of the `credentials` run.
- `VaultSound`: what a token's receipt says is fitted to the selection (`Opens`): none is of a
  later generation, a blob of the selected generation is under the selected key, and
  with nothing selected there are only unused or active rows. The journal and the
  pending request keep what was checked when the request was made (`RequestInv`), so
  that what a commit installs has its file. `UpdateFits` says per place what a
  configuration update holds: a token of its own, the mutation where the code
  holds it, and that the configuration names its token only once it is committed.
  Two updates never hold one token; a step of a key operation, of an update and of a
  start are three groups, and each keeps the parts of the others by what it leaves alone.
- `AccountCurrent`: a task's reference is of a revision not later than the row's, and of
  an earlier one if a revocation came in between (`Known`). As the row's revision
  never goes back and a settled session stays settled (`Moves`, `Settles`), a late
  completion finds its comparison false.
- `RequestsCovered`: what a fetch has read, and so its lease, is of no earlier credential
  than the one configured when its call began; while it holds the lock, the cached
  token is not older than what it read (`Fits`). The budget is an
  invariant of its own: the rows of a window are a recursive function of the
  instant, and that a reservation adds one to a window at most is shown at the least
  instant at which it could fail (`WFMin`), not by induction.

**Only model-checked.** Liveness (`DeliveryProgresses`, `ExecutorServes`,
`CollectionProgresses`, `RestoreServes`, `EveryCallReturns`): the prover handles
neither liveness under fairness nor `ENABLED`. Every invariant and action property
of the passing runs is stated by a theorem.

**Assumptions.** Sets of actors, tokens and keys are finite; the names a model uses for
"nobody" or "nothing" (`"none"`, `"key"`, `"free"`, `NoTask`) are not ids, as the
code's `None` is not; limits are naturals, at least one where the code demands it.

## 5. Where code and documents disagree

- `collection_stop`: disabling one module ends the pump for all, by the
  cancellation of its running task or by the scope lookup of its due job.
- `vault_stuck`: a crash between reserving a receipt and writing its blob leaves
  the vault's recovery unfinished at every later start.

The quotations and lines are in `PROJECT.json` under `findings`.

## 6. Observations

Made while modelling; the models contain them, no run is devoted to them.

- *Delivery.* `recover_stale_sending` selects by `started_at <= now`: a clock
  set back across a restart leaves a row SENDING for the life of the process
  (`ClockSteps`). An event whose fence moved stays PENDING and is rendered in
  every cycle (`repositories_subscriptions.py:3362`). A Host call that ignores
  its cancellation keeps the pump (`delivery.py:2150`). A transient read error
  drops a digest member for good (`delivery.py:1161`). A revocation that prunes
  a claimed envelope makes the next reconciliation raise, which ends the pump,
  where the comment at `delivery.py:696` promises to render the survivors.
  `recover_expired_envelope_claims` does not project onto member events
  (`MembersFollow` states the exception).
- *Collection.* The pump scans without a cursor, so a page full of jobs of a
  paused module starves all others. `prepare_evaluations` compares the registry
  revision, so any other module's switch refuses it (`subscriptions.py:1056`).
  A 25-hour local day leaves an hour without a window (`scheduler.py:436`), and an
  event there fails its whole commit. `run_due_page` runs before the windows are
  planned. A renewed Grant strands subscriptions of the old revision.
- *Activation.* Enable, disable and a refused re-enable leave a module STARTING:
  `_abort_enable` calls `stop_candidate`, which refuses STARTING
  (`lifecycle.py:466`). `detach_host_package` after a clean rollback raises "module
  has no Lifecycle state".
- *Invocation.* `DependencyInvoker.invoke` lets `AdmissionError` through against its
  docstring (`dependency_calls.py:145`).
- *Credentials.* A Grant that expires in place while a key operation is pending
  wedges the operation (`repositories_auth.py:184`). An EXPIRED grant can never
  be authorized again (`authorization.py:942`). `reserve` reads the clock before
  its transaction; a waiting source holds a global permit.
- *Services.* `_drive` of the jobs is unguarded around `expire` and `queued`
  (`jobs.py:477`). Plain `register` of a resource takes no manager lock. Records may be
  written just after a grant expired, and `cache.put` has no registry fence at its
  commit. Sixteen cut-off attempts reach the limit of a migration while its source is
  fenced, and a file that changed at the source before a resumption refuses every
  later plan (`target_inventory_conflict`, `private_storage_transfer.py:102`).
- *Host.* `initialize` after a failed `terminate` erases the fence
  (`runtime.py:1816`), and `_config_error` survives `terminate`. Two log queries overwrite each
  other's additions to a pack.
- *Management.* A command or an administrator's request may be refused after its
  write committed. A legacy copy and a failed read-back never publish to health
  (`unpublished`). `clarify` releases another flight's pending entry
  (`query_resolution.py:682`). A crash keeps a snapshot's `next_due`; concurrent claims of
  two instances end in a revision conflict for one. "Complete data always wins"
  (`calendar_snapshots.py:332`) is not so for reminders when the newest complete text
  has floating times. `reconcile_background_jobs`
  raises when a background key also has a link.

## 7. Not modelled

- Rendering, formatting, encoding, validation of requests and manifests: sequential
  transformations. A failure of one is an outcome of the step that calls it.
- Package discovery and assembly, the command bridge and public pages, the SDK's
  contracts, item, market and log sources: no state of their own.
- Help images, diagnostics and log evidence, `choose` from a command, the in-memory
  quota of `http.py`, retention of finished jobs, several fields of one credential.
- Several envelopes at once: they share only the gate. In runs: more than one owned
  subscription (the theorem covers any), the expiry of consumed chat fences, the steps
  in which a restored package's code starts.
- Several processes on one database, other than the two snapshot instances.
- Corrupted rows and a full disk, other than as a transaction that raises.

## 8. Plan

Done: all modules of section 2, their runs, and the proofs of section 4. What is left
is breadth: the parts section 7 lists.
