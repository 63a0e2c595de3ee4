--------------------------- MODULE SqliteExecutor ---------------------------
(***************************************************************************)
(* The executor every repository call goes through: coroutines of one      *)
(* event loop submit complete SQLite jobs to one dedicated worker thread,  *)
(* which leaves when it is idle and is started again on demand.            *)
(*                                                                         *)
(* Source: infrastructure/sqlite/executor.py, class SQLiteExecutor.        *)
(*                                                                         *)
(* A step is what runs between two awaits (the loop), one critical section *)
(* of _state_lock, or one blocking call of the worker thread.  A caller    *)
(* has one call in progress, so a job is named by its caller.              *)
(*                                                                         *)
(* A definition X_Y is X with the bug that Y names.                        *)
(***************************************************************************)
EXTENDS Naturals, Sequences, FiniteSets

CONSTANTS
    Callers,    \* coroutines that use the executor
    Threads,    \* identities for worker threads
    Nobody,     \* no caller, no thread
    Capacity    \* _CAPACITY: slots of the semaphore and size of the queue

ASSUME ExecutorConstants ==
    /\ IsFiniteSet(Callers)
    /\ Nobody \notin Callers \cup Threads
    /\ Capacity \in Nat \ {0}

VARIABLES
    state,       \* _state
    worker,      \* _worker
    outstanding, \* _outstanding
    slots,       \* free permits of _slots
    queue,       \* _queue
    thread,      \* where each worker thread stands in _work
    running,     \* the job each thread took off the queue
    pc,          \* where each caller stands
    kind,        \* the job it submits: "initialize" or "operation"
    cancelled,   \* its task was cancelled while it awaits the job
    job,         \* what SQLite did for its job
    answer,      \* what the worker has to say about the job
    posted,      \* jobs whose finish() waits on the loop
    resolved,    \* jobs whose future is done
    initLock,    \* holder of _initialize_lock
    initialized, \* _initialized
    migrated,    \* external: the database file has the current schema
    closer,      \* close() is polling
    loop         \* the event loop runs

admission == <<state, outstanding, slots, closer>>
workers   == <<worker, thread, running>>
results   == <<job, answer, posted, resolved>>
calls     == <<pc, kind, cancelled>>
schema    == <<initLock, initialized, migrated>>
vars      == <<state, worker, outstanding, slots, queue, thread, running, pc,
               kind, cancelled, job, answer, posted, resolved, initLock,
               initialized, migrated, closer, loop>>

\* Every variable stays in its type; outstanding in particular never falls
\* below zero, whichever of finish() and the torn-down loop counts a job out.
TypeOK ==
    /\ state \in {"OPEN", "CLOSING", "CLOSED"}
    /\ worker \in Threads \cup {Nobody}
    /\ outstanding \in Nat
    /\ slots \in 0..Capacity
    /\ queue \in Seq(Callers)
    /\ thread \in [Threads -> {"dead", "get", "empty", "run", "complete"}]
    /\ running \in [Threads -> Callers \cup {Nobody}]
    /\ pc \in [Callers -> {"idle", "lock", "slot", "wait", "gone"}]
    /\ kind \in [Callers -> {"initialize", "operation"}]
    /\ cancelled \in [Callers -> BOOLEAN]
    /\ job \in [Callers -> {"none", "queued", "open", "committed", "rolledback"}]
    /\ answer \in [Callers -> {"none", "result", "error"}]
    /\ posted \subseteq Callers
    /\ resolved \subseteq Callers
    /\ initLock \in Callers \cup {Nobody}
    /\ initialized \in BOOLEAN
    /\ migrated \in BOOLEAN
    /\ closer \in BOOLEAN
    /\ loop \in BOOLEAN

Init ==
    /\ state = "OPEN"
    /\ worker = Nobody
    /\ outstanding = 0
    /\ slots = Capacity
    /\ queue = <<>>
    /\ thread = [t \in Threads |-> "dead"]
    /\ running = [t \in Threads |-> Nobody]
    /\ pc = [c \in Callers |-> "idle"]
    /\ kind = [c \in Callers |-> "operation"]
    /\ cancelled = [c \in Callers |-> FALSE]
    /\ job = [c \in Callers |-> "none"]
    /\ answer = [c \in Callers |-> "none"]
    /\ posted = {}
    /\ resolved = {}
    /\ initLock = Nobody
    /\ initialized = FALSE
    /\ migrated \in BOOLEAN
    /\ closer = FALSE
    /\ loop = TRUE

(***************************************************************************)
(* Callers.                                                                *)
(***************************************************************************)

\* The caller leaves _ensure_initialized: initialize() returns, the other
\* operations go on to submit their own job.
Proceed(c) ==
    /\ \E p \in {"idle", "slot"} : pc' = [pc EXCEPT ![c] = p]
    /\ kind' = [kind EXCEPT ![c] = "operation"]

ReleaseInit(c) == initLock' = IF initLock = c THEN Nobody ELSE initLock

\* initialize, verify_integrity, run_transaction, run_read.
Call(c) ==
    /\ loop
    /\ pc[c] = "idle"
    /\ IF initialized
       THEN Proceed(c)
       ELSE pc' = [pc EXCEPT ![c] = "lock"] /\ UNCHANGED kind
    /\ UNCHANGED <<admission, workers, results, schema, queue, cancelled, loop>>

\* Under _initialize_lock the flag is read again.
EnterInit(c) ==
    /\ loop
    /\ pc[c] = "lock"
    /\ initLock = Nobody
    /\ IF initialized
       THEN Proceed(c) /\ UNCHANGED initLock
       ELSE /\ initLock' = c
            /\ pc' = [pc EXCEPT ![c] = "slot"]
            /\ kind' = [kind EXCEPT ![c] = "initialize"]
    /\ UNCHANGED <<admission, workers, results, queue, cancelled, initialized,
                   migrated, loop>>

\* The job is counted and put in the queue; where no worker thread is
\* registered, absent says so, one is started.
Submit(c, permits, absent) ==
    /\ outstanding' = outstanding + 1
    /\ slots' = slots - permits
    /\ queue' = Append(queue, c)
    /\ job' = [job EXCEPT ![c] = "queued"]
    /\ pc' = [pc EXCEPT ![c] = "wait"]
    /\ IF absent
       THEN \E t \in {u \in Threads : thread[u] = "dead"} :
               worker' = t /\ thread' = [thread EXCEPT ![t] = "get"]
       ELSE UNCHANGED <<worker, thread>>
    /\ UNCHANGED <<state, closer, running, kind, cancelled, answer, posted,
                   resolved, schema, loop>>

\* A job without a permit of its own.
Accept_NoPermit(c) ==
    /\ loop /\ pc[c] = "slot" /\ slots > 0 /\ state = "OPEN"
    /\ Submit(c, 0, worker = Nobody)

\* The second half of _submit: with a permit, under _state_lock.
Accept(c) ==
    /\ loop
    /\ pc[c] = "slot"
    /\ slots > 0
    /\ state = "OPEN"
    /\ Submit(c, 1, worker = Nobody)

\* The caller leaves without a job, and out of _initialize_lock.
Leave(c) ==
    /\ pc' = [pc EXCEPT ![c] = "idle"]
    /\ ReleaseInit(c)
    /\ UNCHANGED <<state, outstanding, closer, workers, results, queue, kind,
                   cancelled, initialized, migrated, loop>>

\* A refusal that forgets the permit it had taken.
Refuse_KeepPermit(c) ==
    /\ loop /\ pc[c] = "slot" /\ slots > 0 /\ state # "OPEN"
    /\ slots' = slots - 1
    /\ Leave(c)

\* SQLiteExecutorClosedError: the permit goes back, nothing is queued.
Refuse(c) ==
    /\ loop
    /\ pc[c] = "slot"
    /\ slots > 0
    /\ state # "OPEN"
    /\ Leave(c)
    /\ UNCHANGED slots

\* A cancelled initialization keeps the lock.
CancelEarly_KeepLock(c) ==
    /\ loop
    /\ pc[c] \in {"lock", "slot"}
    /\ pc' = [pc EXCEPT ![c] = "idle"]
    /\ UNCHANGED <<admission, workers, results, queue, kind, cancelled, schema,
                   loop>>

\* The task is cancelled before its job exists.
CancelEarly(c) ==
    /\ loop
    /\ pc[c] \in {"lock", "slot"}
    /\ Leave(c)
    /\ UNCHANGED slots

\* The task is cancelled while it awaits the shielded future: it drains it.
CancelWaiting(c) ==
    /\ loop
    /\ pc[c] = "wait"
    /\ ~cancelled[c]
    /\ cancelled' = [cancelled EXCEPT ![c] = TRUE]
    /\ UNCHANGED <<admission, workers, results, queue, pc, kind, schema, loop>>

\* The caller takes the answer of its job; a successful initialization lets
\* it go on, everything else takes it out of the executor.
Resume(c, ok) ==
    /\ IF kind[c] = "initialize" /\ ok
       THEN Proceed(c) /\ initialized' = TRUE
       ELSE pc' = [pc EXCEPT ![c] = "idle"] /\ UNCHANGED <<kind, initialized>>
    /\ ReleaseInit(c)
    /\ cancelled' = [cancelled EXCEPT ![c] = FALSE]
    /\ job' = [job EXCEPT ![c] = "none"]
    /\ answer' = [answer EXCEPT ![c] = "none"]
    /\ resolved' = resolved \ {c}
    /\ UNCHANGED <<admission, workers, queue, posted, migrated, loop>>

\* An initialization counts as done whatever its job answered.
Return_AnyAnswer(c) == loop /\ pc[c] = "wait" /\ c \in resolved /\ Resume(c, TRUE)

\* Cancellation propagates without waiting for the job.
Return_AtOnce(c) ==
    /\ loop
    /\ pc[c] = "wait"
    /\ c \in resolved \/ cancelled[c]
    /\ Resume(c, answer[c] = "result" /\ ~cancelled[c])

\* The future is done: the result, the job's error or the cancellation goes
\* to the caller.
Return(c) ==
    /\ loop
    /\ pc[c] = "wait"
    /\ c \in resolved
    /\ Resume(c, answer[c] = "result" /\ ~cancelled[c])

(***************************************************************************)
(* The worker thread.                                                      *)
(***************************************************************************)

Get(t) ==
    /\ thread[t] = "get"
    /\ queue # <<>>
    /\ queue' = Tail(queue)
    /\ running' = [running EXCEPT ![t] = Head(queue)]
    /\ job' = [job EXCEPT ![Head(queue)] = "open"]
    /\ thread' = [thread EXCEPT ![t] = "run"]
    /\ UNCHANGED <<admission, worker, answer, posted, resolved, calls, schema,
                   loop>>

\* queue.Empty after _IDLE_EXIT_SECONDS, raised outside _state_lock.
GetTimesOut(t) ==
    /\ thread[t] = "get"
    /\ queue = <<>>
    /\ thread' = [thread EXCEPT ![t] = "empty"]
    /\ UNCHANGED <<admission, worker, running, results, calls, schema, queue,
                   loop>>

\* The worker leaves on the strength of the timeout alone.
IdleExit_NoRecheck(t) ==
    /\ thread[t] = "empty"
    /\ worker' = Nobody
    /\ thread' = [thread EXCEPT ![t] = "dead"]
    /\ UNCHANGED <<admission, running, results, calls, schema, queue, loop>>

\* The slot is given up, but the loop goes on.
IdleExit_Lingers(t) ==
    /\ thread[t] = "empty"
    /\ worker' = IF queue = <<>> /\ worker = t THEN Nobody ELSE worker
    /\ thread' = [thread EXCEPT ![t] = "get"]
    /\ UNCHANGED <<admission, running, results, calls, schema, queue, loop>>

\* The queue is read again under _state_lock before the worker leaves.
IdleExit(t) ==
    /\ thread[t] = "empty"
    /\ IF queue = <<>> /\ worker = t
       THEN worker' = Nobody /\ thread' = [thread EXCEPT ![t] = "dead"]
       ELSE thread' = [thread EXCEPT ![t] = "get"] /\ UNCHANGED worker
    /\ UNCHANGED <<admission, running, results, calls, schema, queue, loop>>

\* _run_job: begin, callback, commit or roll back, close.  Closing may fail
\* after the commit.
RunJob(t) ==
    LET c == running[t] IN
    /\ thread[t] = "run"
    /\ \/ /\ job' = [job EXCEPT ![c] = "committed"]
          /\ \E a \in {"result", "error"} : answer' = [answer EXCEPT ![c] = a]
          /\ migrated' = (migrated \/ kind[c] = "initialize")
       \/ /\ job' = [job EXCEPT ![c] = "rolledback"]
          /\ answer' = [answer EXCEPT ![c] = "error"]
          /\ UNCHANGED migrated
    /\ thread' = [thread EXCEPT ![t] = "complete"]
    /\ UNCHANGED <<admission, worker, running, posted, resolved, calls, queue,
                   initLock, initialized, loop>>

CountOut ==
    /\ outstanding' = outstanding - 1
    /\ state' = IF outstanding = 1 THEN "CLOSED" ELSE state

\* The worker counts the job out, and finish() will count it again.
Complete_CountTwice(t) ==
    /\ thread[t] = "complete"
    /\ thread' = [thread EXCEPT ![t] = "get"]
    /\ running' = [running EXCEPT ![t] = Nobody]
    /\ posted' = IF loop THEN posted \cup {running[t]} ELSE posted
    /\ outstanding' = outstanding - 1
    /\ UNCHANGED <<state, slots, closer, worker, job, answer, resolved, calls,
                   schema, queue, loop>>

\* The RuntimeError of the torn-down loop kills the thread.
Complete_Dies(t) ==
    /\ thread[t] = "complete"
    /\ thread' = [thread EXCEPT ![t] = IF loop THEN "get" ELSE "dead"]
    /\ running' = [running EXCEPT ![t] = Nobody]
    /\ posted' = IF loop THEN posted \cup {running[t]} ELSE posted
    /\ UNCHANGED <<admission, worker, job, answer, resolved, calls, schema,
                   queue, loop>>

\* _complete: finish() goes to the loop; when the loop is gone the worker
\* itself counts the job out.
Complete(t) ==
    /\ thread[t] = "complete"
    /\ thread' = [thread EXCEPT ![t] = "get"]
    /\ running' = [running EXCEPT ![t] = Nobody]
    /\ IF loop
       THEN posted' = posted \cup {running[t]} /\ UNCHANGED <<outstanding, state>>
       ELSE CountOut /\ UNCHANGED posted
    /\ UNCHANGED <<slots, closer, worker, job, answer, resolved, calls, schema,
                   queue, loop>>

\* finish(), on the loop.
Finish(c) ==
    /\ loop
    /\ c \in posted
    /\ outstanding' = outstanding - 1
    /\ slots' = slots + 1
    /\ posted' = posted \ {c}
    /\ resolved' = resolved \cup {c}
    /\ UNCHANGED <<state, closer, workers, job, answer, calls, schema, queue,
                   loop>>

(***************************************************************************)
(* Closing, and the end of the loop.                                       *)
(***************************************************************************)

Close ==
    /\ loop
    /\ ~closer
    /\ state # "CLOSED"
    /\ state' = "CLOSING"
    /\ closer' = TRUE
    /\ UNCHANGED <<outstanding, slots, workers, results, calls, schema, queue,
                   loop>>

\* An empty queue is taken for a drained executor.
CloseDone_QueueEmpty ==
    /\ loop
    /\ closer
    /\ queue = <<>>
    /\ state' = "CLOSED"
    /\ closer' = FALSE
    /\ UNCHANGED <<outstanding, slots, workers, results, calls, schema, queue,
                   loop>>

CloseDone ==
    /\ loop
    /\ closer
    /\ outstanding = 0
    /\ worker = Nobody
    /\ state' = "CLOSED"
    /\ closer' = FALSE
    /\ UNCHANGED <<outstanding, slots, workers, results, calls, schema, queue,
                   loop>>

\* SQLiteExecutorCloseTimeout: new work stays refused.
CloseTimesOut ==
    /\ loop
    /\ closer
    /\ closer' = FALSE
    /\ UNCHANGED <<state, outstanding, slots, workers, results, calls, schema,
                   queue, loop>>

\* External: the loop is torn down under its coroutines and callbacks.
LoopLost ==
    /\ loop
    /\ loop' = FALSE
    /\ pc' = [c \in Callers |-> "gone"]
    /\ posted' = {}
    /\ closer' = FALSE
    /\ UNCHANGED <<state, outstanding, slots, workers, kind, cancelled, job,
                   answer, resolved, schema, queue>>

\* The process has nothing left to run.
Over ==
    /\ ~loop
    /\ \A t \in Threads : thread[t] = "dead"
    /\ UNCHANGED vars

Caller(c) == \/ Call(c) \/ EnterInit(c) \/ Accept(c) \/ Refuse(c)
             \/ CancelEarly(c) \/ CancelWaiting(c) \/ Return(c) \/ Finish(c)

Worker(t) == \/ Get(t) \/ GetTimesOut(t) \/ IdleExit(t) \/ RunJob(t)
             \/ Complete(t)

Next ==
    \/ \E c \in Callers : Caller(c)
    \/ \E t \in Threads : Worker(t)
    \/ Close \/ CloseDone \/ CloseTimesOut
    \/ LoopLost \/ Over

Spec == Init /\ [][Next]_vars

\* The worker is an operating-system thread; finish() and Return are ready
\* callbacks of the loop; asyncio wakes the waiters of a Semaphore and of a
\* Lock in order.  A caller need not call and nobody need cancel or close.
Fairness ==
    /\ \A t \in Threads : WF_vars(Worker(t))
    /\ \A c \in Callers : /\ WF_vars(Finish(c))
                          /\ WF_vars(Return(c))
                          /\ SF_vars(EnterInit(c))
                          /\ SF_vars(Accept(c))
                          /\ SF_vars(Refuse(c))

FairSpec == Spec /\ Fairness

(***************************************************************************)
(* Properties.                                                             *)
(***************************************************************************)

Busy(t) == thread[t] \in {"run", "complete"}

\* "two workers never run SQLite callbacks" (_work): a successor started
\* after an idle exit never overlaps the thread it replaces.
OneWorker ==
    \A t, u \in Threads : thread[t] # "dead" /\ thread[u] # "dead" => t = u

\* A queued job always has a live worker that will look at the queue again,
\* although the worker's timeout is raised outside the lock.
NoStrandedJob == queue # <<>> => worker # Nobody /\ thread[worker] # "dead"

\* put_nowait in _submit never meets a full queue: a permit outlives the
\* job's place in the queue, until finish() runs on the loop.
QueueHasRoom == slots > 0 => Len(queue) < Capacity

Accepted == {c \in Callers : pc[c] = "wait" /\ c \notin resolved}

\* Permits are neither lost nor minted by refusals, cancellations or errors.
PermitsBalance == loop => slots + Cardinality(Accepted) = Capacity

\* quiesce_storage: once CLOSED, no accepted job is queued, open or
\* unanswered, so the file may be moved.
ClosedIsDrained ==
    state = "CLOSED" =>
        /\ queue = <<>>
        /\ \A t \in Threads : ~Busy(t)
        /\ loop => Accepted = {}

\* No operation reaches a database whose initialization has not committed.
OperationAfterInit ==
    \A t \in Threads :
        Busy(t) /\ kind[running[t]] = "operation" => migrated

\* A caller leaves _submit, by result, error or cancellation, only after its
\* transaction was committed or rolled back and its connection closed.
SettledFirst ==
    [][\A c \in Callers :
         pc[c] = "wait" /\ pc'[c] \notin {"wait", "gone"} =>
             job[c] \in {"committed", "rolledback"}]_vars

(***************************************************************************)
(* What makes the safety properties inductive.                             *)
(***************************************************************************)

Settled == {"committed", "rolledback"}

\* The types the other parts need.
ShapeOK ==
    /\ worker \in Threads \cup {Nobody}
    /\ queue \in Seq(Callers)
    /\ thread \in [Threads -> {"dead", "get", "empty", "run", "complete"}]
    /\ running \in [Threads -> Callers \cup {Nobody}]
    /\ pc \in [Callers -> {"idle", "lock", "slot", "wait", "gone"}]
    /\ kind \in [Callers -> {"initialize", "operation"}]
    /\ job \in [Callers -> {"none", "queued", "open"} \cup Settled]
    /\ answer \in [Callers -> {"none", "result", "error"}]
    /\ posted \subseteq Callers
    /\ resolved \subseteq Callers
    /\ initialized \in BOOLEAN
    /\ migrated \in BOOLEAN

\* The registered worker is the one thread that lives.
LiveIsWorker == \A t \in Threads : thread[t] # "dead" <=> worker = t

\* Jobs in the queue are queued, once, and have a worker.
QueueServed ==
    /\ queue # <<>> => worker # Nobody
    /\ \A i \in 1..Len(queue) : job[queue[i]] = "queued"
    /\ \A i, k \in 1..Len(queue) : queue[i] = queue[k] => i = k

\* A job that left the queue is with the worker, posted or resolved, in one
\* place only, and settled from the second of these on.
JobPlaces ==
    /\ \A t \in Threads : thread[t] = "run" =>
          running[t] \in Callers /\ job[running[t]] = "open"
    /\ \A t \in Threads : thread[t] = "complete" =>
          /\ running[t] \in Callers
          /\ job[running[t]] \in Settled
          /\ running[t] \notin posted \cup resolved
    /\ \A c \in posted \cup resolved : job[c] \in Settled
    /\ posted \cap resolved = {}

\* A caller that awaits no job has none.
IdleHasNoJob ==
    loop => \A c \in Callers : pc[c] # "wait" => job[c] = "none" /\ answer[c] = "none"

\* Whoever may touch tables knows that the schema is there.
SchemaKnown ==
    /\ initialized => migrated
    /\ \A c \in Callers :
          /\ kind[c] = "operation" /\ (pc[c] = "slot" \/ job[c] # "none") => migrated
          /\ kind[c] = "initialize" /\ answer[c] = "result" => migrated

ExecutorInv ==
    /\ ShapeOK
    /\ LiveIsWorker
    /\ QueueServed
    /\ JobPlaces
    /\ IdleHasNoJob
    /\ SchemaKnown

\* The worker holds a job.
Taken == IF \E t \in Threads : Busy(t) THEN 1 ELSE 0

\* What outstanding and the permits count: each accepted job is in the queue,
\* with the worker, or posted.  Without a loop posted jobs are forgotten, and
\* outstanding only bounds the rest.
CountsAgree ==
    /\ outstanding \in Nat
    /\ slots \in 0..Capacity
    /\ loop => /\ outstanding = Len(queue) + Taken + Cardinality(posted)
               /\ outstanding = Cardinality(Accepted)
               /\ slots + outstanding = Capacity
    /\ ~loop => /\ outstanding >= Len(queue) + Taken
                /\ Len(queue) + slots <= Capacity
    /\ state = "CLOSED" => outstanding = 0

\* Every caller that reached the semaphore or the lock gets out again.
CallsReturn ==
    \A c \in Callers : pc[c] # "idle" ~> pc[c] \in {"idle", "gone"}

\* A closing executor drains and lets its worker thread go, and a torn-down
\* loop "cannot pin the worker forever" (_complete).
WorkerLeaves == (state # "OPEN" \/ ~loop) ~> [](worker = Nobody)

\* What holds between submissions, the idle exit of the worker, cancellation
\* and quiesce_storage: one worker, no job without one, a queue with room for
\* every permit, and no operation before the schema or after the close.
ExecutorIsSafe ==
    /\ TypeOK /\ OneWorker /\ NoStrandedJob /\ QueueHasRoom
    /\ PermitsBalance /\ ClosedIsDrained /\ OperationAfterInit

\* A caller of _submit leaves with its transaction settled, and leaves; the
\* worker leaves once the executor is closed.
ExecutorServes == SettledFirst /\ CallsReturn /\ WorkerLeaves
=============================================================================
