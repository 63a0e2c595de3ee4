--------------------------- MODULE BoundServices ---------------------------
(***************************************************************************)
(* The services one invocation is given (InvocationServiceBinder.bind) and *)
(* the ports bound to it: records, cache, and owned tasks.  Every port     *)
(* proves the invocation again around each wait: check() reads the issuer, *)
(* the registry, the lease and the lifetime of the instance (check_sync),  *)
(* waits for the owner authority and the grant, and reads them again.      *)
(* Between those waits the module is switched, the invocation released,    *)
(* the instance retired, the grant revoked or expired.                     *)
(***************************************************************************)
EXTENDS Naturals, FiniteSets

CONSTANTS
    BoundScopes,        \* invocations
    ScopeKinds,         \* kinds of invocation they may be
    MaxServiceEpochs,   \* bound on epochs of the module
    MaxRowRevision      \* bound on writes of the record and of the cache row

AllScopeKinds == {"public", "owner", "projection", "private", "scheduled", "job", "tool"}

ASSUME BoundServicesAssumption ==
    /\ IsFiniteSet(BoundScopes) /\ "free" \notin BoundScopes /\ ScopeKinds \subseteq AllScopeKinds
    /\ MaxServiceEpochs \in Nat \ {0} /\ MaxRowRevision \in Nat

VARIABLES
    registered,     \* the module in the registry: [on, epoch]
    lifetime,       \* _ServiceLifetime of the instance: "none", "active" or "revoked"
    closed,         \* _services_closed of the factory
    grant,          \* "active", "revoked" or "expired"
    ownerOn,        \* the owner authority still holds
    mutex,          \* the mutation gate: "free" or a scope
    record,         \* revision of the one module record, 0 for none
    cached,         \* revision of the one cache row, 0 for none
    scope           \* scope -> coroutine

serviceVars == <<registered, lifetime, closed, grant, ownerOn, mutex, record, cached, scope>>
outside == <<registered, lifetime, closed, grant, ownerOn>>

NoScope == [kind |-> "none", pc |-> "idle", next |-> "none", epoch |-> 0,
            open |-> FALSE, caller |-> FALSE, expected |-> 0, work |-> "none"]

ServicesInit ==
    /\ registered = [on |-> TRUE, epoch |-> 1] /\ lifetime = "none" /\ closed = FALSE
    /\ grant = "active" /\ ownerOn = TRUE /\ mutex = "free"
    /\ record = 0 /\ cached = 0
    /\ scope = [s \in BoundScopes |-> NoScope]

NeedsGrant(s) == scope[s].kind \in {"private", "scheduled"}
NeedsOwner(s) == scope[s].kind \in {"owner", "projection"}
HasCaller(s) == scope[s].kind \notin {"scheduled", "job"}
PublicWrites(s) == scope[s].kind \in {"public", "tool", "job"}

\* _check, and the caller capability once it was issued.
CheckSync(s) ==
    /\ lifetime = "active" /\ scope[s].open
    /\ registered.on /\ registered.epoch = scope[s].epoch
    /\ HasCaller(s) => scope[s].caller

\* require_current of the owner authority, and _require_invocation_grant.
Authorized(s) ==
    /\ NeedsOwner(s) => ownerOn
    /\ NeedsGrant(s) => grant = "active"

Step(s, pc) == scope' = [scope EXCEPT ![s].pc = pc]
CheckThen(s, next) == scope' = [scope EXCEPT ![s].pc = "check", ![s].next = next]

\* A call fails: the gate is left and work that never started is closed.  An
\* invocation makes one call: what a later one sees, another invocation's does.
ScopeLeaves(s) == mutex' = IF mutex = s THEN "free" ELSE mutex
Gone == [NoScope EXCEPT !.pc = "gone"]
Fails(s) == scope' = [scope EXCEPT ![s] = Gone] /\ ScopeLeaves(s)

-----------------------------------------------------------------------------
\* bind

BindStarts(s, k) ==
    /\ scope[s].pc = "idle" /\ lifetime = "active" /\ registered.on
    /\ scope' = [scope EXCEPT ![s] = [NoScope EXCEPT !.kind = k, !.pc = "admit", !.open = TRUE,
                                                     !.epoch = registered.epoch]]
    /\ UNCHANGED <<outside, mutex, record, cached>>

\* The grant or the owner authority, then the caller capability.
BindIssues(s) ==
    /\ scope[s].pc = "admit"
    /\ IF /\ Authorized(s) /\ lifetime = "active" /\ scope[s].open
          /\ registered.on /\ registered.epoch = scope[s].epoch
       THEN scope' = [scope EXCEPT ![s].caller = HasCaller(s), ![s].pc = "check", ![s].next = "bound"]
       ELSE scope' = [scope EXCEPT ![s] = Gone]
    /\ UNCHANGED <<outside, mutex, record, cached>>

\* check(): the synchronous proof, the waits, the proof again.
CheckEnters(s) ==
    /\ scope[s].pc = "check"
    /\ IF CheckSync(s) THEN Step(s, "auth") /\ UNCHANGED mutex ELSE Fails(s)
    /\ UNCHANGED <<outside, record, cached>>

CheckPasses(s) ==
    /\ scope[s].pc = "auth"
    /\ IF Authorized(s) /\ CheckSync(s)
       THEN /\ scope' = IF scope[s].next = "return" THEN [scope EXCEPT ![s] = Gone]
                        ELSE [scope EXCEPT ![s].pc = scope[s].next, ![s].next = "none"]
            /\ UNCHANGED mutex
       ELSE Fails(s)
    /\ UNCHANGED <<outside, record, cached>>

\* The handler returns and its bound services are dropped.
HandlerReturns(s) ==
    /\ scope[s].pc = "bound"
    /\ scope' = [scope EXCEPT ![s] = Gone]
    /\ UNCHANGED <<outside, mutex, record, cached>>

-----------------------------------------------------------------------------
\* Subscriptions, accounts and identities: for root commands only, proved before
\* and after the delegate.

CommandOnly(s) == scope[s].kind \in {"public", "owner", "private"} /\ CheckSync(s)

PortCalled(s) ==
    /\ scope[s].pc = "bound" /\ CommandOnly(s)
    /\ Step(s, "delegate")
    /\ UNCHANGED <<outside, mutex, record, cached>>

\* _owner_check, where the capability is an owner's.
PortAnswers(s) ==
    /\ scope[s].pc = "delegate"
    /\ IF CommandOnly(s) /\ (NeedsOwner(s) => ownerOn) THEN scope' = [scope EXCEPT ![s] = [NoScope EXCEPT !.pc = "answered"]] /\ UNCHANGED mutex
       ELSE Fails(s)
    /\ UNCHANGED <<outside, record, cached>>

-----------------------------------------------------------------------------
\* Records

\* Jobs have no collections; everyone else may read and most may write.
RecordCalled(s) ==
    /\ scope[s].pc = "bound" /\ scope[s].kind # "job"
    /\ \E e \in {record, 0} : scope' = [scope EXCEPT ![s].pc = "check", ![s].next = "lock", ![s].expected = e]
    /\ UNCHANGED <<outside, mutex, record, cached>>

UnderGate_Unchecked(s) == Step(s, "collection")
UnderGate(s) == CheckThen(s, "collection")
RecordLocks(s) ==
    /\ scope[s].pc = "lock" /\ mutex = "free"
    /\ mutex' = s
    /\ UnderGate(s)
    /\ UNCHANGED <<outside, record, cached>>

\* _write_fence: the worker's check under the registry's publication lock.
WriteFence(s) == CheckSync(s) /\ scope[s].kind # "projection"

\* operate: the registration, then the collection's own transaction.
CollectionOpened(s) ==
    /\ scope[s].pc = "collection"
    /\ IF WriteFence(s) THEN Step(s, "worker") /\ UNCHANGED mutex ELSE Fails(s)
    /\ UNCHANGED <<outside, record, cached>>

\* The worker: fence, statement against the expected revision ...
WorkerWrites(s) ==
    /\ scope[s].pc = "worker"
    /\ IF WriteFence(s) /\ record = scope[s].expected THEN Step(s, "commit") /\ UNCHANGED mutex ELSE Fails(s)
    /\ UNCHANGED <<outside, record, cached>>

\* ... and the commit, with the fence as its guard.
CommitGuard_Earlier(s) == TRUE
CommitGuard(s) == WriteFence(s)
WorkerCommits(s) ==
    /\ scope[s].pc = "commit" /\ record < MaxRowRevision
    /\ IF CommitGuard(s)
       THEN /\ record' = record + 1
            /\ CheckThen(s, "return") /\ ScopeLeaves(s)
       ELSE Fails(s) /\ UNCHANGED record
    /\ UNCHANGED <<outside, cached>>

-----------------------------------------------------------------------------
\* Cache

\* put: a public entry needs a public read-only capability or a job; the default
\* visibility of an invocation with a grant is that grant.
CacheCalled(s) ==
    /\ scope[s].pc = "bound" /\ (NeedsGrant(s) \/ PublicWrites(s))
    /\ CheckThen(s, "revision")
    /\ UNCHANGED <<outside, mutex, record, cached>>

\* _check_admission and _assert_grant_current.
CacheAdmitted(s) ==
    /\ scope[s].open /\ registered.on /\ registered.epoch = scope[s].epoch
    /\ NeedsGrant(s) => grant = "active"

CacheRevisionRead(s) ==
    /\ scope[s].pc = "revision"
    /\ IF CacheAdmitted(s)
       THEN scope' = [scope EXCEPT ![s].pc = "gate", ![s].expected = cached] /\ UNCHANGED mutex
       ELSE Fails(s)
    /\ UNCHANGED <<outside, record, cached>>

\* _write_mutation: only an invocation with a grant takes the gate, and reads
\* its grant again inside.
CacheLocks(s) ==
    /\ scope[s].pc = "gate"
    /\ IF NeedsGrant(s) THEN mutex = "free" /\ mutex' = s ELSE UNCHANGED mutex
    /\ Step(s, "assert")
    /\ UNCHANGED <<outside, record, cached>>

CacheAsserted(s) ==
    /\ scope[s].pc = "assert"
    /\ IF CacheAdmitted(s) THEN Step(s, "put") /\ UNCHANGED mutex ELSE Fails(s)
    /\ UNCHANGED <<outside, record, cached>>

\* The transaction compares the revision and the deadline of the grant.
Deadline_Unchecked(s) == TRUE
Deadline(s) == NeedsGrant(s) => grant # "expired"
CachePuts(s) ==
    /\ scope[s].pc = "put" /\ cached < MaxRowRevision
    /\ IF cached = scope[s].expected /\ Deadline(s)
       THEN cached' = cached + 1 /\ Step(s, "after") /\ UNCHANGED mutex
       ELSE Fails(s) /\ UNCHANGED cached
    /\ UNCHANGED <<outside, record>>

CacheReturns(s) ==
    /\ scope[s].pc = "after"
    /\ IF CacheAdmitted(s) THEN CheckThen(s, "return") /\ ScopeLeaves(s) ELSE Fails(s)
    /\ UNCHANGED <<outside, record, cached>>

-----------------------------------------------------------------------------
\* Owned tasks

\* create_task: the check fails, the task scope refuses, or the work waits for
\* the guarded coroutine's first step.
TaskCreated(s) ==
    /\ scope[s].pc = "bound"
    /\ \/ CheckSync(s) /\ scope' = [scope EXCEPT ![s].work = "pending", ![s].pc = "task"]
       \/ scope' = [scope EXCEPT ![s] = Gone]
    /\ UNCHANGED <<outside, mutex, record, cached>>

TaskGuards(s) ==
    /\ scope[s].pc = "task"
    /\ CheckThen(s, "start")
    /\ UNCHANGED <<outside, mutex, record, cached>>

TaskRuns(s) ==
    /\ scope[s].pc = "start"
    /\ scope' = [scope EXCEPT ![s].work = "none", ![s].pc = "check", ![s].next = "return"]
    /\ UNCHANGED <<outside, mutex, record, cached>>

\* Cancelled before the first step, the guarded coroutine never runs: only the
\* done callback is left to close the work.
CloseUnstarted_Never(w) == w
CloseUnstarted(w) == "none"
TaskCancelled(s) ==
    /\ scope[s].pc = "task"
    /\ scope' = [scope EXCEPT ![s] = [Gone EXCEPT !.work = CloseUnstarted(scope[s].work)]]
    /\ UNCHANGED <<outside, mutex, record, cached>>

-----------------------------------------------------------------------------
\* What moves meanwhile

\* Disabling and enabling take the mutation gate.
ModuleDisabled ==
    /\ registered.on /\ mutex = "free"
    /\ registered' = [registered EXCEPT !.on = FALSE]
    /\ UNCHANGED <<lifetime, closed, grant, ownerOn, mutex, record, cached, scope>>

ModuleEnabled ==
    /\ ~registered.on /\ registered.epoch < MaxServiceEpochs /\ mutex = "free"
    /\ registered' = [on |-> TRUE, epoch |-> registered.epoch + 1]
    /\ UNCHANGED <<lifetime, closed, grant, ownerOn, mutex, record, cached, scope>>

\* The issuer releases the view: deadline, end of the root call, or the parent.
InvocationReleased(s) ==
    /\ scope[s].open
    /\ scope' = [scope EXCEPT ![s].open = FALSE, ![s].caller = FALSE]
    /\ UNCHANGED <<outside, mutex, record, cached>>

\* _build_module: the ports of one instance, fenced by its lifetime; nothing is
\* built for a factory that is closed.
ServicesBuilt ==
    /\ lifetime = "none" /\ ~closed
    /\ lifetime' = "active"
    /\ UNCHANGED <<registered, closed, grant, ownerOn, mutex, record, cached, scope>>

\* The lifecycle retires the instance.
LifetimeRevoked ==
    /\ lifetime = "active"
    /\ lifetime' = "revoked"
    /\ UNCHANGED <<registered, closed, grant, ownerOn, mutex, record, cached, scope>>

\* close_credentials: every lifetime ever handed out is revoked.
ServicesClosed ==
    /\ ~closed
    /\ closed' = TRUE
    /\ lifetime' = IF lifetime = "active" THEN "revoked" ELSE lifetime
    /\ UNCHANGED <<registered, grant, ownerOn, mutex, record, cached, scope>>

OwnerWithdrawn ==
    /\ ownerOn
    /\ ownerOn' = FALSE
    /\ UNCHANGED <<registered, lifetime, closed, grant, mutex, record, cached, scope>>

\* revoke holds the gate from its checks to its commit.
GrantRevoked ==
    /\ grant = "active" /\ mutex = "free"
    /\ grant' = "revoked"
    /\ UNCHANGED <<registered, lifetime, closed, ownerOn, mutex, record, cached, scope>>

GrantExpires ==
    /\ grant = "active"
    /\ grant' = "expired"
    /\ UNCHANGED <<registered, lifetime, closed, ownerOn, mutex, record, cached, scope>>

ServicesNext ==
    \/ \E s \in BoundScopes :
        \/ \E k \in ScopeKinds : BindStarts(s, k)
        \/ BindIssues(s) \/ CheckEnters(s) \/ CheckPasses(s) \/ HandlerReturns(s)
        \/ PortCalled(s) \/ PortAnswers(s)
        \/ RecordCalled(s) \/ RecordLocks(s) \/ CollectionOpened(s) \/ WorkerWrites(s) \/ WorkerCommits(s)
        \/ CacheCalled(s) \/ CacheRevisionRead(s) \/ CacheLocks(s) \/ CacheAsserted(s)
        \/ CachePuts(s) \/ CacheReturns(s)
        \/ TaskCreated(s) \/ TaskGuards(s) \/ TaskRuns(s) \/ TaskCancelled(s)
        \/ InvocationReleased(s)
    \/ ModuleDisabled \/ ModuleEnabled \/ ServicesBuilt \/ LifetimeRevoked \/ ServicesClosed \/ OwnerWithdrawn
    \/ GrantRevoked \/ GrantExpires

ServicesSpec == ServicesInit /\ [][ServicesNext]_serviceVars

-----------------------------------------------------------------------------
\* A record is only ever written for an invocation that is live at the commit,
\* in the module's current epoch, by an instance that was not retired, and under
\* a grant nobody has revoked; the projection of the owner's data handed to a
\* dependency writes nothing.  (repositories_config.py, _guard_write)
RecordWriteIsCurrent ==
    record' # record =>
        \E s \in BoundScopes :
            /\ scope[s].pc = "commit" /\ CheckSync(s)
            /\ scope[s].kind # "projection"
            /\ NeedsGrant(s) => grant # "revoked"

\* An entry filed under a grant is only ever stored while the grant is active:
\* the gate keeps a revocation out, the deadline in the transaction an expiry.
CacheWriteIsGranted ==
    cached' # cached =>
        \E s \in BoundScopes : scope[s].pc = "put" /\ (NeedsGrant(s) => grant = "active")

\* The work handed to create_task is awaited or closed, also when it is refused,
\* fails its first check or is cancelled before its first step.
WorkIsSettled ==
    \A s \in BoundScopes : scope[s].work = "pending" => scope[s].pc \in {"task", "check", "auth", "start"}
=============================================================================
