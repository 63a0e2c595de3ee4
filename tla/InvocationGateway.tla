------------------------- MODULE InvocationGateway -------------------------
(***************************************************************************)
(* One host request from ingress to the answer: CoreRuntime._invoke_host,  *)
(* the ContextIssuer that owns invocation views, the AdmissionController   *)
(* that leases them, the Gateway that runs the handler inside the module's *)
(* TaskScope, the DependencyInvoker that enters a second module, the       *)
(* owner and grant checks around them, and the runtime's close.            *)
(*                                                                         *)
(* Requests are tasks of one event loop: an action is what runs between    *)
(* two awaits.  Every call targets a capability of module Home that        *)
(* declares one required capability of module Dep.                         *)
(***************************************************************************)
EXTENDS Naturals, FiniteSets

CONSTANTS
    Calls,       \* host requests
    Kinds,       \* the kinds of request, a subset of AllKinds
    MaxEpoch,    \* bound on the epochs of a module
    MaxChanges,  \* bound on health reports, grant changes and lost sources
    MaxFlights   \* _web_flights limit of the Gateway

AllKinds == {"public", "private", "owner", "tool", "web"}
Home == "home"
Dep == "dep"
CallModules == {Home, Dep}

ASSUME CallsAssumption == IsFiniteSet(Calls) /\ Kinds \subseteq AllKinds
ASSUME BoundsAssumption == MaxEpoch \in Nat \ {0} /\ MaxChanges \in Nat
                           /\ MaxFlights \in Nat \ {0}

VARIABLES
    admission, \* module -> its RunIdentity's epoch, admission gate and scope
    health,   \* module -> the published capability health and its revision
    grant,    \* the owner's private grant: revision and status
    core,     \* CoreRuntime: "open", "closing" (fenced) or "closed"
    call,     \* call -> the state of its task
    view,     \* call -> the issued root view
    child,    \* call -> the derived view of the dependency
    work,     \* call -> the handler task in Home's scope
    depwork,  \* call -> the dependency's handler task in Dep's scope
    source,   \* call -> FALSE once the host message behind a Tool call is gone
    changes   \* changes made by the environment so far

invokeVars == <<admission, health, grant, core, call, view, child, work, depwork,
          source, changes>>

--------------------
\* States.

\* An AdmissionLease: the epoch and health revision it was admitted under,
\* for the module itself and for its required capability.
NoLease == [epoch |-> 0, rev |-> 0, depepoch |-> 0, deprev |-> 0]

\* The issuer's registers for one view: _issued, _leases, the owner proof,
\* the accepted command ingress and (for web) the consumed proof.
NoView == [on |-> FALSE, expired |-> FALSE, epoch |-> 0, grant |-> 0,
           lease |-> NoLease, proof |-> FALSE, ingress |-> FALSE]

\* A handler task of a TaskScope: none, spawned, running, done, or an orphan
\* that ignored its cancellation.
NoWork == [st |-> "none", epoch |-> 0]

\* A request nobody made yet, and one that has returned.
NoCall == [pc |-> "idle", kind |-> "public", epoch |-> 0, seen |-> 0,
           out |-> "none", dep |-> "none", why |-> "none"]

\* No derived view.
NoChild == [on |-> FALSE, epoch |-> 0, rev |-> 0]

\* A request whose coroutine has ended with the given outcome.
Over(r, out) == [NoCall EXCEPT !.pc = "done", !.kind = r.kind, !.out = out]

CanReach(m) == admission[m].open /\ health[m].up

\* AdmissionController._active_identity.
ActiveEpoch(m, e) == admission[m].open /\ admission[m].epoch = e

\* ContextIssuer.require: the view is the issued one, its deadline has not
\* passed and, for a public web root, its proof is current.
Required(c) == view[c].on /\ ~view[c].expired

\* AdmissionController._available_health and _dependencies: the revisions a
\* lease binds, in the current state.
Leased == [epoch |-> admission[Home].epoch, rev |-> health[Home].rev,
           depepoch |-> admission[Dep].epoch, deprev |-> health[Dep].rev]

\* AdmissionController.admit: what must hold when a root lease is issued.
MayAdmit(c) ==
    /\ Required(c) /\ view[c].lease = NoLease
    /\ ActiveEpoch(Home, view[c].epoch)
    /\ \A m \in CallModules : CanReach(m)

\* AdmissionController.check: the exact lease against the current run, health
\* and dependency identities.
Checked(c) ==
    /\ Required(c) /\ view[c].lease # NoLease
    /\ \A m \in CallModules : CanReach(m)
    /\ view[c].lease = Leased

\* Gateway._require_current: issuer, admission, then LifecycleController.guard.
RequireCurrent(c) == Checked(c) /\ ActiveEpoch(Home, view[c].epoch)

\* AdmissionController.check of the child's lease (Dep requires nothing).
ChildChecked(c) ==
    /\ Required(c) /\ child[c].on /\ CanReach(Dep)
    /\ child[c].epoch = admission[Dep].epoch /\ child[c].rev = health[Dep].rev

\* CoreRuntime._require_accepting_ingress.
Accepting == core = "open"

\* Mutant of SourceCurrent: the runtime's fence is not part of the predicate.
SourceCurrent_Fenceless(c) == call[c].kind = "tool" => source[c]

\* _HostIngressAuthority._source_current: the synchronous predicate over the
\* accepted host message of a Tool call.
SourceCurrent(c) == call[c].kind = "tool" => Accepting /\ source[c]

--------------------
\* Ends of a request.

\* Mutant of Release: the descendants stay registered.
Release_RootOnly(c) ==
    /\ view' = [view EXCEPT ![c] = NoView]
    /\ UNCHANGED child

\* ContextIssuer.release: the view and every descendant lose their
\* registration, lease, message, proof and, through the observers, their
\* admission record.
Release(c) ==
    /\ view' = [view EXCEPT ![c] = NoView]
    /\ child' = [child EXCEPT ![c] = NoChild]

\* The finally blocks of _invoke_host: drop the ingress, the owner proof and
\* the view, whatever the outcome, and leave _host_flights.
Return(c, out) ==
    /\ call' = [call EXCEPT ![c] = Over(call[c], out)]
    /\ Release(c)

Goto(c, pc) == call' = [call EXCEPT ![c].pc = pc]

\* Gateway's denied(...): a controlled error result, still routed.
Denied(c) == call' = [call EXCEPT ![c].pc = "route", ![c].out = "error"]

--------------------
\* Ingress.

\* A host event reaches invoke_command or invoke_tool.
Arrive(c, k) ==
    /\ call[c].pc = "idle" /\ k # "web" /\ Accepting
    /\ call' = [call EXCEPT ![c] = [NoCall EXCEPT !.pc = "ingress", !.kind = k]]
    /\ UNCHANGED <<admission, health, grant, core, view, child, work, depwork, source,
                   changes>>

\* _active_module: enabled, active and of the published epoch.
ActiveModule == admission[Home].open

\* _host_ingress and _active_module: a forged or stale event, or a module
\* that is not active, is refused before anything is persisted.
Ingressed(c) ==
    /\ call[c].pc = "ingress"
    /\ \/ /\ ActiveModule /\ SourceCurrent(c)
          /\ call' = [call EXCEPT ![c].pc = "publish", ![c].epoch = admission[Home].epoch]
          /\ UNCHANGED <<view, child>>
       \/ /\ ~(ActiveModule /\ SourceCurrent(c))
          /\ Return(c, "raised")
    /\ UNCHANGED <<admission, health, grant, core, work, depwork, source, changes>>

\* Where a freshly admitted request goes first: the grant or owner proof is
\* awaited for private and owner capabilities, the message source for Tools.
FirstStep(k) == CASE k = "private" -> "authorize"
                  [] k = "owner" -> "authorize"
                  [] k = "tool" -> "authorize"
                  [] OTHER -> "spawn"

\* attach_message: a Tool's root view owns its message only while the accepted
\* ingress is still the current one.
Attach(c) == SourceCurrent(c)

\* After the route was published (an await): the module must be the one seen
\* before; the view is issued, admitted and given its ingress in one step.
Issue(c) ==
    /\ call[c].pc = "publish"
    /\ LET k == call[c].kind
           issued == [NoView EXCEPT !.on = TRUE, !.epoch = admission[Home].epoch,
                                    !.grant = IF k = "private" THEN grant.rev ELSE 0,
                                    !.ingress = (k # "tool")]
       IN  \/ /\ Accepting /\ ActiveEpoch(Home, call[c].epoch)
              /\ \A m \in CallModules : CanReach(m)
              /\ Attach(c)
              /\ view' = [view EXCEPT ![c] = [issued EXCEPT !.lease = Leased]]
              /\ Goto(c, FirstStep(k))
              /\ UNCHANGED child
           \/ /\ ~(/\ Accepting /\ ActiveEpoch(Home, call[c].epoch)
                   /\ \A m \in CallModules : CanReach(m)
                   /\ Attach(c))
              /\ Return(c, "raised")
    /\ UNCHANGED <<admission, health, grant, core, work, depwork, source, changes>>

--------------------
\* Authorization before and after the handler.

\* The grant the private authorizer read, 0 when it was not active.
GrantRead == IF grant.active THEN grant.rev ELSE 0

\* The awaited read of the private authorizer (AuthorizationService.
\* require_current_grant), before and after the handler.
ReadGrant(c) ==
    /\ call[c].pc \in {"authorize", "reauthorize"} /\ call[c].kind = "private"
    /\ call' = [call EXCEPT ![c].seen = GrantRead,
                            ![c].pc = IF @ = "authorize" THEN "granted" ELSE "regranted"]
    /\ UNCHANGED <<admission, health, grant, core, view, child, work, depwork, source,
                   changes>>

\* Gateway._require_private_grant: the grant read is active and is the exact
\* revision the view carries.
PrivateGrant(c) == call[c].seen # 0 /\ call[c].seen = view[c].grant

\* OwnerRouteProofAuthority.capture: the principal and the direct route are
\* awaited; the proof is frozen only for an invocation still admitted.
CaptureOwner(c) ==
    /\ call[c].pc = "authorize" /\ call[c].kind = "owner"
    /\ \/ /\ RequireCurrent(c)
          /\ view' = [view EXCEPT ![c].proof = TRUE]
          /\ Goto(c, "spawn")
       \/ ~RequireCurrent(c) /\ Denied(c) /\ UNCHANGED view
    /\ UNCHANGED <<admission, health, grant, core, child, work, depwork, source,
                   changes>>

\* The awaited _check_message_source of a Tool call.
CheckMessage(c) ==
    /\ call[c].pc = "authorize" /\ call[c].kind = "tool"
    /\ \/ Required(c) /\ SourceCurrent(c) /\ Goto(c, "spawn")
       \/ ~(Required(c) /\ SourceCurrent(c)) /\ Denied(c)
    /\ UNCHANGED <<admission, health, grant, core, view, child, work, depwork, source,
                   changes>>

\* The grant read before the handler is compared, then the lease.
Granted(c) ==
    /\ call[c].pc = "granted"
    /\ \/ /\ PrivateGrant(c) /\ RequireCurrent(c)
          /\ call' = [call EXCEPT ![c].pc = "spawn", ![c].seen = 0]
       \/ ~(PrivateGrant(c) /\ RequireCurrent(c)) /\ Denied(c)
    /\ UNCHANGED <<admission, health, grant, core, view, child, work, depwork, source,
                   changes>>

--------------------
\* The handler inside Home's TaskScope.

\* TaskScope._check_open with the lifecycle's current_check.
ScopeOpen(m, e) == admission[m].scope = "open" /\ admission[m].open /\ admission[m].epoch = e

\* TaskScope.run: check_before_await, then _spawn; the caller waits for the
\* task until the deadline.
Spawn(c) ==
    /\ call[c].pc = "spawn"
    /\ \/ /\ ScopeOpen(Home, view[c].epoch)
          /\ work' = [work EXCEPT ![c] = [st |-> "spawned", epoch |-> view[c].epoch]]
          /\ Goto(c, "handler")
       \/ ~ScopeOpen(Home, view[c].epoch) /\ Denied(c) /\ UNCHANGED work
    /\ UNCHANGED <<admission, health, grant, core, view, child, depwork, source,
                   changes>>

\* runner() and invoke_current(): the checks at the task's real entry.
HandlerStarts(c) ==
    /\ work[c].st = "spawned"
    /\ LET fit == /\ ScopeOpen(Home, work[c].epoch) /\ RequireCurrent(c)
                  /\ SourceCurrent(c)
       IN  work' = [work EXCEPT ![c].st = IF fit THEN "running" ELSE "failed"]
    /\ UNCHANGED <<admission, health, grant, core, call, view, child, depwork, source,
                   changes>>

\* The handler returns, or raises; runner's check_after_await refuses the
\* result of a run that is no longer current.
HandlerReturns(c) ==
    /\ work[c].st = "running" /\ depwork[c].st \in {"none", "orphan"} /\ call[c].dep # "calling"
    /\ \E good \in BOOLEAN :
         work' = [work EXCEPT ![c].st = IF good /\ ScopeOpen(Home, work[c].epoch)
                                        THEN "ok" ELSE "failed"]
    /\ UNCHANGED <<admission, health, grant, core, call, view, child, depwork, source,
                   changes>>

\* TaskScope.run resumes with the task's result.  A task that was cancelled
\* by its scope raises CancelledError through the Gateway to the host.
Joined(c) ==
    /\ call[c].pc = "handler" /\ work[c].st \in {"ok", "failed", "cancelled"}
    /\ work' = [work EXCEPT ![c] = NoWork]
    /\ \/ work[c].st = "ok" /\ Goto(c, "check") /\ UNCHANGED <<view, child>>
       \/ work[c].st = "failed" /\ Denied(c) /\ UNCHANGED <<view, child>>
       \/ work[c].st = "cancelled" /\ Return(c, "raised")
    /\ UNCHANGED <<admission, health, grant, core, depwork, source, changes>>

\* Mutant of PostCheck: the grant read before the handler is trusted.
PostCheck_NoReauth(c) ==
    /\ call[c].pc = "check"
    /\ \/ /\ RequireCurrent(c) /\ SourceCurrent(c)
          /\ call' = [call EXCEPT ![c].pc = "route", ![c].out = "ok"]
       \/ ~(RequireCurrent(c) /\ SourceCurrent(c)) /\ Denied(c)
    /\ UNCHANGED <<admission, health, grant, core, view, child, work, depwork, source,
                   changes>>

\* After the handler: issuer, lease, module and message source again.
PostCheck(c) ==
    /\ call[c].pc = "check"
    /\ \/ /\ RequireCurrent(c) /\ SourceCurrent(c)
          /\ \/ call[c].kind \in {"private", "owner"} /\ Goto(c, "reauthorize")
             \/ call[c].kind = "web" /\ Goto(c, "webpublish")
             \/ call[c].kind \in {"public", "tool"}
                /\ call' = [call EXCEPT ![c].pc = "route", ![c].out = "ok"]
       \/ ~(RequireCurrent(c) /\ SourceCurrent(c)) /\ Denied(c)
    /\ UNCHANGED <<admission, health, grant, core, view, child, work, depwork, source,
                   changes>>

\* The grant is read again after the handler and compared with the view.
Regranted(c) ==
    /\ call[c].pc = "regranted"
    /\ \/ /\ PrivateGrant(c) /\ RequireCurrent(c)
          /\ call' = [call EXCEPT ![c].pc = "route", ![c].out = "ok"]
       \/ ~(PrivateGrant(c) /\ RequireCurrent(c)) /\ Denied(c)
    /\ UNCHANGED <<admission, health, grant, core, view, child, work, depwork, source,
                   changes>>

\* OwnerRouteProofAuthority.require_current after the handler.
OwnerStill(c) ==
    /\ call[c].pc = "reauthorize" /\ call[c].kind = "owner"
    /\ \/ /\ view[c].proof /\ RequireCurrent(c)
          /\ call' = [call EXCEPT ![c].pc = "route", ![c].out = "ok"]
       \/ ~(view[c].proof /\ RequireCurrent(c)) /\ Denied(c)
    /\ UNCHANGED <<admission, health, grant, core, view, child, work, depwork, source,
                   changes>>

\* OutputService.route for the root view: the lease once more, then the send.
\* A Tool's text goes back to the model only while its message is current and
\* the runtime accepts; a private result that was not sent is not exposed.
Route(c) ==
    /\ call[c].pc = "route"
    /\ \/ ~SourceCurrent(c) /\ Return(c, "raised")
       \/ SourceCurrent(c) /\ Checked(c) /\ Return(c, call[c].out)
       \/ SourceCurrent(c) /\ ~Checked(c) /\ Return(c, "unsent")
    /\ UNCHANGED <<admission, health, grant, core, work, depwork, source, changes>>

--------------------
\* Dependency calls.

\* The synchronous head of DependencyInvoker.invoke: parent view and lease,
\* the declared edge, then derive and admit of the child.  A failed check is
\* an error result for the handler, or an exception it does not survive.
DependencyEnter(c) ==
    /\ work[c].st \in {"running", "orphan"} /\ call[c].dep = "none"
    /\ depwork[c].st \in {"none", "orphan"}
    /\ \/ /\ Checked(c) /\ ActiveEpoch(Home, work[c].epoch)
          /\ child' = [child EXCEPT ![c] = [on |-> TRUE, epoch |-> admission[Dep].epoch,
                                            rev |-> health[Dep].rev]]
          /\ call' = [call EXCEPT ![c].dep = "calling"]
       \/ /\ ~(Checked(c) /\ ActiveEpoch(Home, work[c].epoch))
          /\ call' = [call EXCEPT ![c].dep = "refused"]
          /\ UNCHANGED child
    /\ UNCHANGED <<admission, health, grant, core, view, work, depwork, source, changes>>

\* _release_child in the finally block, with the result handed to the caller.
LeaveDependency(c, result) ==
    /\ call' = [call EXCEPT ![c].dep = result]
    /\ child' = [child EXCEPT ![c] = NoChild]

\* After capture_dependency (owner) or at once: the child's handler is
\* scheduled in Dep's scope.
DependencyRuns(c) ==
    /\ call[c].dep = "calling" /\ depwork[c].st = "none" /\ work[c].st = "running"
    /\ \/ /\ ScopeOpen(Dep, child[c].epoch)
          /\ call[c].kind = "owner" => Checked(c) /\ ChildChecked(c)
          /\ depwork' = [depwork EXCEPT ![c] = [st |-> "running", epoch |-> child[c].epoch]]
          /\ UNCHANGED <<call, child>>
       \/ /\ ~(/\ ScopeOpen(Dep, child[c].epoch)
               /\ call[c].kind = "owner" => Checked(c) /\ ChildChecked(c))
          /\ LeaveDependency(c, "refused")
          /\ UNCHANGED depwork
    /\ UNCHANGED <<admission, health, grant, core, view, work, source, changes>>

\* The dependency's handler ends by itself; parent and child are required,
\* guarded and checked again before the result is believed.
DependencyReturns(c) ==
    /\ call[c].dep = "calling" /\ depwork[c].st = "running" /\ work[c].st = "running"
    /\ depwork' = [depwork EXCEPT ![c] = NoWork]
    /\ \/ /\ ChildChecked(c) /\ ActiveEpoch(Dep, child[c].epoch) /\ Checked(c)
          /\ LeaveDependency(c, "used")
       \/ LeaveDependency(c, "refused")
    /\ UNCHANGED <<admission, health, grant, core, view, work, source, changes>>

\* A cancelled dependency task ends (cancelled by Dep's scope or by the
\* caller).  wait_for raises CancelledError into the calling handler.
DependencyCancelled(c) ==
    /\ depwork[c].st = "cancelling"
    /\ depwork' = [depwork EXCEPT ![c] = NoWork]
    /\ LeaveDependency(c, "refused")
    /\ work' = [work EXCEPT ![c].st = IF @ = "running" THEN "cancelling" ELSE @]
    /\ UNCHANGED <<admission, health, grant, core, view, source, changes>>

--------------------
\* Deadlines, cancellation and tasks that ignore it.

Cancelled(w) == IF w.st \in {"spawned", "running"} THEN [w EXCEPT !.st = "cancelling"] ELSE w

\* Mutant of Deadline: the wait ends but the task is not cancelled.
Deadline_NoCancel(c) ==
    /\ call[c].pc = "handler" /\ call[c].kind # "web"
    /\ view' = [view EXCEPT ![c].expired = TRUE]
    /\ call' = [call EXCEPT ![c].pc = "cleanup", ![c].why = "deadline"]
    /\ UNCHANGED <<admission, health, grant, core, child, work, depwork, source,
                   changes>>

\* The deadline passes while TaskScope.run waits for the handler: the task is
\* cancelled and given the cleanup bound.
Deadline(c) ==
    /\ call[c].pc = "handler" /\ call[c].kind # "web"
    /\ view' = [view EXCEPT ![c].expired = TRUE]
    /\ call' = [call EXCEPT ![c].pc = "cleanup", ![c].why = "deadline"]
    /\ work' = [work EXCEPT ![c] = Cancelled(@)]
    /\ depwork' = [depwork EXCEPT ![c] = Cancelled(@)]
    /\ UNCHANGED <<admission, health, grant, core, child, source, changes>>

\* The host cancels the request: at an await of its own it unwinds at once,
\* while the handler runs it waits for the cleanup bound.
CancelCall(c) ==
    /\ call[c].pc \notin {"idle", "done", "cleanup"} /\ call[c].kind # "web"
    /\ \/ /\ call[c].pc = "handler"
          /\ call' = [call EXCEPT ![c].pc = "cleanup", ![c].why = "cancel"]
          /\ work' = [work EXCEPT ![c] = Cancelled(@)]
          /\ depwork' = [depwork EXCEPT ![c] = Cancelled(@)]
          /\ UNCHANGED <<view, child>>
       \/ /\ call[c].pc # "handler"
          /\ Return(c, "raised")
          /\ UNCHANGED <<work, depwork>>
    /\ UNCHANGED <<admission, health, grant, core, source, changes>>

\* A cancelled handler ends, after its dependency call has unwound.
HandlerCancelled(c) ==
    /\ work[c].st = "cancelling" /\ depwork[c].st \in {"none", "orphan"}
    /\ work' = [work EXCEPT ![c].st = "cancelled"]
    /\ LeaveDependency(c, IF call[c].dep = "calling" THEN "refused" ELSE call[c].dep)
    /\ UNCHANGED <<admission, health, grant, core, view, depwork, source, changes>>

\* What the request does once TaskScope.run gave up waiting.
Resume(c) ==
    \/ /\ call[c].why = "deadline"
       /\ call' = [call EXCEPT ![c].pc = "route", ![c].out = "error"]
       /\ UNCHANGED <<view, child>>
    \/ call[c].why = "cancel" /\ Return(c, "raised")

\* The task ended within the cleanup bound.
CleanedUp(c) ==
    /\ call[c].pc = "cleanup" /\ work[c].st \in {"ok", "failed", "cancelled"}
    /\ work' = [work EXCEPT ![c] = NoWork]
    /\ Resume(c)
    /\ UNCHANGED <<admission, health, grant, core, depwork, source, changes>>

\* LifecycleController._scope_cleanup_timeout: the gate of the run closes, its
\* epoch is invalidated and the module is isolated as FAILED.
Isolate(m, e) ==
    admission' = IF admission[m].epoch = e /\ admission[m].open
            THEN [admission EXCEPT ![m].open = FALSE, ![m].epoch = @ + 1]
            ELSE admission

\* Mutant of CleanupTimeout: the wait is not over before the dependency has unwound.
CleanupTimeout_Waits(c) ==
    /\ call[c].pc = "cleanup" /\ work[c].st = "cancelling" /\ depwork[c].st = "none"
    /\ work' = [work EXCEPT ![c].st = "orphan"]
    /\ Isolate(Home, work[c].epoch)
    /\ Resume(c)
    /\ UNCHANGED <<health, grant, core, depwork, source, changes>>

\* The task has not ended within the cleanup bound, because it ignores its
\* cancellation or because a dependency it waits for does: the request goes on
\* without it.
CleanupTimeout(c) ==
    /\ call[c].pc = "cleanup" /\ work[c].st = "cancelling"
    /\ work' = [work EXCEPT ![c].st = "orphan"]
    /\ Isolate(Home, work[c].epoch)
    /\ Resume(c)
    /\ UNCHANGED <<health, grant, core, depwork, source, changes>>

\* The same for the dependency's task, which its own scope supervises.
DependencyTimeout(c) ==
    /\ depwork[c].st = "cancelling"
    /\ depwork' = [depwork EXCEPT ![c].st = "orphan"]
    /\ Isolate(Dep, depwork[c].epoch)
    /\ LeaveDependency(c, "refused")
    /\ work' = [work EXCEPT ![c].st = IF @ = "running" THEN "cancelling" ELSE @]
    /\ UNCHANGED <<health, grant, core, view, source, changes>>

\* An orphan, or the task of a finished web request, really ends.
TaskEnds(c) ==
    /\ \/ /\ work[c].st = "orphan" \/ (call[c].pc = "done" /\ work[c].st \in {"ok", "failed", "cancelled"})
          /\ depwork[c].st \in {"none", "orphan"}
          /\ work' = [work EXCEPT ![c] = NoWork]
          /\ UNCHANGED depwork
       \/ /\ depwork[c].st = "orphan"
          /\ depwork' = [depwork EXCEPT ![c] = NoWork]
          /\ UNCHANGED work
    /\ UNCHANGED <<admission, health, grant, core, call, view, child, source, changes>>

--------------------
\* Public web requests.

\* _web_flights: a request counts until its tasks have really ended.
Flights == {c \in Calls : call[c].kind = "web" /\ call[c].pc # "idle"
                          /\ ~(call[c].pc = "done" /\ work[c].st = "none" /\ depwork[c].st = "none")}

\* ContextIssuer.issue_public_web: the consumed host proof becomes a view
\* without any chat identity.
IssueWeb == [NoView EXCEPT !.on = TRUE, !.epoch = admission[Home].epoch]

\* invoke_public_web: the host proof is consumed into a view; a full gateway
\* releases it again (RATE_LIMITED).
WebArrive(c) ==
    /\ call[c].pc = "idle" /\ Accepting
    /\ \/ /\ admission[Home].open /\ Cardinality(Flights) < MaxFlights
          /\ view' = [view EXCEPT ![c] = IssueWeb]
          /\ call' = [call EXCEPT ![c] = [NoCall EXCEPT !.pc = "webadmit", !.kind = "web"]]
       \/ /\ ~(admission[Home].open /\ Cardinality(Flights) < MaxFlights)
          /\ call' = [call EXCEPT ![c] = [NoCall EXCEPT !.pc = "done", !.out = "error"]]
          /\ UNCHANGED view
    /\ UNCHANGED <<admission, health, grant, core, child, work, depwork, source,
                   changes>>

\* _PublicWebFlight.seal: authority is revoked at once, tasks are cancelled.
Seal(c) ==
    /\ Release(c)
    /\ work' = [work EXCEPT ![c] = Cancelled(@)]
    /\ depwork' = [depwork EXCEPT ![c] = Cancelled(@)]

\* The end of invoke_public_web with an answer: the flight is sealed.
WebReturn(c, out) ==
    /\ call' = [call EXCEPT ![c] = Over(call[c], out)]
    /\ Seal(c)

\* The root task: flight.check, admit, _require_current.
WebAdmit(c) ==
    /\ call[c].pc = "webadmit"
    /\ \/ /\ MayAdmit(c)
          /\ view' = [view EXCEPT ![c].lease = Leased]
          /\ Goto(c, "spawn")
          /\ UNCHANGED <<child, work, depwork>>
       \/ ~MayAdmit(c) /\ WebReturn(c, "error")
    /\ UNCHANGED <<admission, health, grant, core, source, changes>>

\* _require_web_publication, with the proof still active and again after it
\* was released: gateway open, module and epoch current.
WebPublish(c) ==
    /\ call[c].pc = "webpublish"
    /\ \/ Accepting /\ RequireCurrent(c) /\ WebReturn(c, "ok")
       \/ ~(Accepting /\ RequireCurrent(c)) /\ WebReturn(c, "error")
    /\ UNCHANGED <<admission, health, grant, core, source, changes>>

\* The flight's timer, or the client going away, seals the request: it is
\* answered without waiting for its tasks.
WebSealed(c) ==
    /\ call[c].kind = "web" /\ call[c].pc \notin {"idle", "done", "route"}
    /\ WebReturn(c, "error")
    /\ UNCHANGED <<admission, health, grant, core, source, changes>>

\* A denied web request has no output route: its error is the answer.
WebError(c) ==
    /\ call[c].kind = "web" /\ call[c].pc = "route"
    /\ WebReturn(c, call[c].out)
    /\ UNCHANGED <<admission, health, grant, core, source, changes>>

--------------------
\* The rest of the runtime.

\* Mutant of Pending: a task that ignored its cancellation is forgotten.
Pending_NoOrphans(m) ==
    {c \in Calls : LET w == IF m = Home THEN work[c] ELSE depwork[c]
                   IN  w.st \in {"spawned", "running", "cancelling"}}

\* The tasks of module m's scope that have not ended.
Pending(m) == {c \in Calls : LET w == IF m = Home THEN work[c] ELSE depwork[c]
                             IN  w.st \in {"spawned", "running", "cancelling", "orphan"}}

\* TaskScope.cancel: every unfinished task of the scopes of ms is cancelled; a
\* cancelled handler cancels the dependency it waits for.
CancelScopes(ms) ==
    /\ work' = [c \in Calls |-> IF Home \in ms THEN Cancelled(work[c]) ELSE work[c]]
    /\ depwork' = [c \in Calls |-> IF Dep \in ms \/ work'[c].st = "cancelling"
                                   THEN Cancelled(depwork[c]) ELSE depwork[c]]

\* LifecycleController.quiesce: the gate closes, the scope is cancelled and
\* the epoch is invalidated.
CloseGate(m) ==
    /\ admission[m].open /\ admission[m].epoch < MaxEpoch
    /\ admission' = [admission EXCEPT ![m] = [open |-> FALSE, epoch |-> @.epoch + 1, scope |-> "cancelled"]]
    /\ CancelScopes({m})
    /\ UNCHANGED <<health, grant, core, call, view, child, source, changes>>

\* stop_candidate of an isolated module: TaskScope.stop cancels first.
StopIsolated(m) ==
    /\ ~admission[m].open /\ admission[m].scope = "open"
    /\ admission' = [admission EXCEPT ![m].scope = "cancelled"]
    /\ CancelScopes({m})
    /\ UNCHANGED <<health, grant, core, call, view, child, source, changes>>

\* TaskScope.wait returns: the scope is closed and the instance stopped.
ScopeStopped(m) ==
    /\ admission[m].scope = "cancelled" /\ Pending(m) = {}
    /\ admission' = [admission EXCEPT ![m].scope = "closed"]
    /\ UNCHANGED <<health, grant, core, call, view, child, work, depwork, source,
                   changes>>

\* publish_committed_intent of a later enable: a new scope, an open gate.
OpenGate(m) ==
    /\ ~admission[m].open /\ admission[m].scope = "closed" /\ Accepting
    /\ admission' = [admission EXCEPT ![m].open = TRUE, ![m].scope = "open"]
    /\ UNCHANGED <<health, grant, core, call, view, child, work, depwork, source,
                   changes>>

\* A health report changes a capability's status under a new revision.
HealthReport(m) ==
    /\ changes < MaxChanges /\ changes' = changes + 1
    /\ \E up \in BOOLEAN : health' = [health EXCEPT ![m] = [rev |-> @.rev + 1, up |-> up]]
    /\ UNCHANGED <<admission, grant, core, call, view, child, work, depwork, source>>

\* The owner revokes the grant, or logs in again under a new revision.
GrantChanges ==
    /\ changes < MaxChanges /\ changes' = changes + 1
    /\ grant' = IF grant.active THEN [grant EXCEPT !.active = FALSE]
                                ELSE [rev |-> grant.rev + 1, active |-> TRUE]
    /\ UNCHANGED <<admission, health, core, call, view, child, work, depwork, source>>

\* The host drops the message behind a Tool call.
SourceGone(c) ==
    /\ source[c] /\ call[c].kind = "tool" /\ call[c].pc # "done"
    /\ changes < MaxChanges /\ changes' = changes + 1
    /\ source' = [source EXCEPT ![c] = FALSE]
    /\ UNCHANGED <<admission, health, grant, core, call, view, child, work, depwork>>

Open(k) == {c \in Calls : (call[c].kind = "web") = (k = "web") /\ call[c].pc \notin {"idle", "done"}}

\* The synchronous head of CoreRuntime.close: ingress stops and
\* fence_public_web seals every flight before the first await.
CoreFence ==
    /\ Accepting /\ core' = "fenced"
    /\ LET webs == Open("web")
       IN  /\ call' = [c \in Calls |-> IF c \in webs
                         THEN Over(call[c], "error")
                         ELSE call[c]]
           /\ view' = [c \in Calls |-> IF c \in webs THEN NoView ELSE view[c]]
           /\ child' = [c \in Calls |-> IF c \in webs THEN NoChild ELSE child[c]]
           /\ work' = [c \in Calls |-> IF c \in webs THEN Cancelled(work[c]) ELSE work[c]]
           /\ depwork' = [c \in Calls |-> IF c \in webs THEN Cancelled(depwork[c]) ELSE depwork[c]]
    /\ UNCHANGED <<admission, health, grant, source, changes>>

\* drain_public_web succeeded: the host flights are cancelled and
\* _quiesce_admission_gates closes every gate and cancels its scope.
CoreDrain ==
    /\ core = "fenced" /\ Flights = {} /\ core' = "draining"
    /\ LET waits == {c \in Open("host") : call[c].pc \in {"handler", "cleanup"}}
           gone == Open("host") \ waits
       IN  /\ call' = [c \in Calls |->
                         IF c \in waits THEN [call[c] EXCEPT !.pc = "cleanup", !.why = "cancel"]
                         ELSE IF c \in gone THEN Over(call[c], "raised")
                         ELSE call[c]]
           /\ view' = [c \in Calls |-> IF c \in gone THEN NoView ELSE view[c]]
           /\ child' = [c \in Calls |-> IF c \in gone THEN NoChild ELSE child[c]]
    /\ CancelScopes(CallModules)
    /\ admission' = [m \in CallModules |-> [admission[m] EXCEPT !.open = FALSE,
                                                  !.scope = IF @ = "open" THEN "cancelled" ELSE @]]
    /\ UNCHANGED <<health, grant, source, changes>>

\* The host flights and ExtensionRuntime.close have ended: close returns.
CoreClosed ==
    /\ core = "draining"
    /\ \A c \in Calls : call[c].pc \in {"idle", "done"}
    /\ \A m \in CallModules : admission[m].scope = "closed"
    /\ core' = "closed"
    /\ UNCHANGED <<admission, health, grant, call, view, child, work, depwork, source,
                   changes>>

--------------------
\* The specification.

InvokeInit ==
    /\ admission = [m \in CallModules |-> [epoch |-> 1, open |-> TRUE, scope |-> "open"]]
    /\ health = [m \in CallModules |-> [rev |-> 1, up |-> TRUE]]
    /\ grant = [rev |-> 1, active |-> TRUE]
    /\ core = "open"
    /\ call = [c \in Calls |-> NoCall]
    /\ view = [c \in Calls |-> NoView]
    /\ child = [c \in Calls |-> NoChild]
    /\ work = [c \in Calls |-> NoWork]
    /\ depwork = [c \in Calls |-> NoWork]
    /\ source = [c \in Calls |-> TRUE]
    /\ changes = 0

\* What the request's own task does.
CallProgress(c) ==
    \/ Ingressed(c) \/ Issue(c) \/ ReadGrant(c) \/ CaptureOwner(c) \/ CheckMessage(c)
    \/ Granted(c) \/ Spawn(c) \/ Joined(c) \/ PostCheck(c) \/ Regranted(c) \/ OwnerStill(c)
    \/ Route(c) \/ Deadline(c) \/ CleanedUp(c)
    \/ WebAdmit(c) \/ WebPublish(c) \/ WebSealed(c) \/ WebError(c)

\* Its handler tasks: the event loop starts them; that a cancelled one unwinds is up
\* to the handler.
TaskStep(c) == HandlerStarts(c) \/ HandlerCancelled(c) \/ DependencyCancelled(c)

InvokeNext ==
    \/ \E c \in Calls :
         \/ \E k \in Kinds : Arrive(c, k)
         \/ "web" \in Kinds /\ WebArrive(c)
         \/ CallProgress(c) \/ TaskStep(c) \/ HandlerReturns(c)
         \/ DependencyEnter(c) \/ DependencyRuns(c) \/ DependencyReturns(c)
         \/ CancelCall(c) \/ CleanupTimeout(c) \/ DependencyTimeout(c) \/ TaskEnds(c)
         \/ SourceGone(c)
    \/ \E m \in CallModules :
         CloseGate(m) \/ StopIsolated(m) \/ ScopeStopped(m) \/ OpenGate(m) \/ HealthReport(m)
    \/ GrantChanges \/ CoreFence \/ CoreDrain \/ CoreClosed

--------------------
\* Properties.

\* A request that has returned, raised or been cancelled leaves no authority
\* behind: no issued view, lease, owner proof or ingress, and no derived view
\* outlives the view it was derived from (ContextIssuer.release).
AuthorityEndsWithCall ==
    \A c \in Calls :
        /\ call[c].pc \in {"idle", "done"} => view[c] = NoView
        /\ child[c].on => view[c].on

\* While a run of a module serves, no handler of an earlier run of that module
\* is still executing, not even one that ignored its cancellation
\* (TaskScope.stop keeps such a task pending, so the module stays isolated).
RunsDoNotOverlap ==
    \A c \in Calls :
        /\ work[c].st \in {"running", "cancelling", "orphan"} /\ admission[Home].open
              => work[c].epoch = admission[Home].epoch
        /\ depwork[c].st \in {"running", "cancelling", "orphan"} /\ admission[Dep].open
              => depwork[c].epoch = admission[Dep].epoch

\* Once close has fenced the runtime, no web or Tool request is answered with
\* data any more, although gates and handlers are still being drained.
FencedAnswersNothing ==
    \A c \in Calls :
        /\ core # "open" /\ call[c].kind \in {"web", "tool"}
        /\ call[c].pc # "done" /\ call'[c].pc = "done"
        => call'[c].out # "ok"

=============================================================================
