--------------------------- MODULE EventDelivery ---------------------------
(***************************************************************************)
(* Delivery of instant subscription events: the durable outbox row of each *)
(* event, the dispatchers that claim a row and hand one message to the     *)
(* Host, the admission mutation gate that orders a send against the        *)
(* commands which withdraw its authority, and process crashes.             *)
(*                                                                         *)
(* Sources: services/delivery.py, core/admission.py,                       *)
(* SQLiteDeliveryRepository of                                             *)
(* infrastructure/sqlite/repositories_subscriptions.py.                    *)
(*                                                                         *)
(* Every repository call is one BEGIN IMMEDIATE transaction, hence one     *)
(* atomic step.  Everything between two awaits of a coroutine is one step. *)
(*                                                                         *)
(* A definition X_Y is X with the bug that Y names.  No specification uses *)
(* it; the runs put it in X's place to see that a property notices.        *)
(***************************************************************************)
EXTENDS Naturals, FiniteSets

CONSTANTS
    Events,         \* delivery identities: (event, version, subscription, revision)
    Dispatchers,    \* concurrent dispatch_event coroutines
    Free,           \* the mutation gate has no holder
    RetryPolicy,    \* what retry_at may answer: TRUE is a due time, FALSE is None
    MaxAttempts,    \* bound on the attempts of one event
    MaxEpoch,       \* bound on the module epoch
    MaxFaults,      \* bound on crashes, cancellations and storage errors
    ClockSteps      \* whether the wall clock may be set back across a restart

ASSUME DeliveryConstants ==
    /\ Free \notin Dispatchers
    /\ RetryPolicy \subseteq BOOLEAN
    /\ RetryPolicy # {}
    /\ MaxAttempts \in Nat
    /\ MaxEpoch \in Nat
    /\ MaxFaults \in Nat
    /\ ClockSteps \in BOOLEAN

VARIABLES
    ev,         \* b04_delivery_events: state, attempt_number, retry_at
    sub,        \* the subscription is active, at the event's revision and route
    fence,      \* gate and intent revisions still equal the ones the event saved
    grant,      \* the Grant the event saved: "live", "expired" or "revoked"
    open,       \* the module's admission gate is open
    epoch,      \* the module's current epoch
    gate,       \* holder of AdmissionController._mutation_lock
    up,         \* the process runs and has finished recover_startup
    faults,     \* crashes, cancellations and storage errors so far
    pump,       \* CoreRuntime._pump_loop, the caller of dispatch_event, has not returned
    pc,         \* where each dispatcher stands
    job,        \* the event it dispatches
    seen,       \* state of the row it read: expected_state of its CAS
    num,        \* attempt number of the row it read, then of its own attempt
    lease,      \* module epoch of its DeliveryLease
    stop,       \* state["stop"]: its waiter timed out or was cancelled
    receipt,    \* what the Host call told it
    delivered,  \* history: messages of the event the platform delivered
    lost        \* history: a write that should have settled an attempt did not

rows      == <<ev, delivered, lost>>
authority == <<sub, fence, grant, open, epoch>>
process   == <<up, faults, pump>>
locals    == <<job, seen, num, lease, stop, receipt>>
vars      == <<ev, sub, fence, grant, open, epoch, gate, up, faults, pump, pc,
               job, seen, num, lease, stop, receipt, delivered, lost>>

MessageStatus == {"ACCEPTED", "FAILED", "UNKNOWN"}

Waiting == {"PENDING", "FAILED"}
Settled == {"SENT", "UNKNOWN", "CANCELLED"}
States  == {"NONE", "SENDING"} \cup Waiting \cup Settled

\* The dispatcher has read a row and has no attempt of its own.
BeforeClaim == {"check", "render", "recheck", "approve", "final", "claim",
                "reject", "renderFailed"}
\* The dispatcher's own SENDING attempt is persisted and not yet settled.
Owning == {"claimed", "queued", "io", "inflight", "receipt", "abort"}
\* The dispatcher cannot be here without holding the mutation gate.
Gated  == {"final", "claim", "claimed", "io"}
PCs    == {"idle"} \cup BeforeClaim \cup Owning

RowsOK ==
    /\ ev \in [Events -> [st: States, att: Nat, retry: BOOLEAN]]
    /\ delivered \in [Events -> Nat]
    /\ lost \in [Events -> BOOLEAN]

AuthorityOK ==
    /\ sub \in [Events -> BOOLEAN]
    /\ fence \in [Events -> BOOLEAN]
    /\ grant \in [Events -> {"live", "expired", "revoked"}]
    /\ open \in BOOLEAN
    /\ epoch \in Nat

ProcessOK == up \in BOOLEAN /\ faults \in Nat /\ pump \in BOOLEAN

LocalsOK ==
    /\ gate \in Dispatchers \cup {Free}
    /\ pc \in [Dispatchers -> PCs]
    /\ job \in [Dispatchers -> Events]
    /\ seen \in [Dispatchers -> States]
    /\ num \in [Dispatchers -> Nat]
    /\ lease \in [Dispatchers -> Nat]
    /\ stop \in [Dispatchers -> BOOLEAN]
    /\ receipt \in [Dispatchers -> MessageStatus]

\* Every variable stays in its type; in particular a row only ever holds the
\* DeliveryState that a receipt maps to, never a raw MessageStatus.
TypeOK == RowsOK /\ AuthorityOK /\ ProcessOK /\ LocalsOK

--------------------
\* What the checks read.

\* AdmissionController.check of a DeliveryLease.
LeaseCurrent(d) == open /\ epoch = lease[d]

\* DeliveryService._eligibility.  Its re-reads after the route await make a
\* positive answer true at one instant; a failed read or an unattested route
\* can always make it negative, so each check may also refuse.
Eligible(e) == sub[e] /\ grant[e] = "live"

\* SQLiteDeliveryRepository._event_qualified.
Qualified(e) == sub[e] /\ fence[e]

\* SQLiteDeliveryRepository.is_current_for_send for d's own attempt.
CurrentForSend(d) ==
    /\ ev[job[d]].st = "SENDING"
    /\ ev[job[d]].att = num[d]
    /\ Qualified(job[d])

\* The state that _commit_event_receipt stores for a receipt.
StateOf_RetryUnknown(status) == IF status = "ACCEPTED" THEN "SENT" ELSE "FAILED"
StateOf_Optimistic(status) == IF status = "FAILED" THEN "FAILED" ELSE "SENT"
StateOf(status) == IF status = "ACCEPTED" THEN "SENT" ELSE status

\* The compare-and-set of record_attempt.
CanRecord_AnyState(e, expected, n) == ev[e].st # "NONE" /\ n > 0
CanRecord(e, expected, n) ==
    /\ ev[e].st = expected
    /\ n = IF expected = "SENDING" THEN ev[e].att ELSE ev[e].att + 1

\* The compare-and-set of claim_sending.
CanClaim_NoCas(d) == Qualified(job[d])
CanClaim(d) ==
    /\ Qualified(job[d])
    /\ ev[job[d]].st = seen[d]
    /\ ev[job[d]].att = num[d]
    /\ seen[d] = "FAILED" => ev[job[d]].retry

--------------------
\* Bookkeeping shared by the actions.
Goto(d, to) == pc' = [pc EXCEPT ![d] = to]

TakeGate(d)  == gate = Free /\ gate' = d
LeaveGate(d) == gate' = IF gate = d THEN Free ELSE gate

SetRow(e, s, n, r) == ev' = [ev EXCEPT ![e] = [st |-> s, att |-> n, retry |-> r]]

\* A crash, a cancellation or a storage error: each uses up the fault budget.
Fault == faults < MaxFaults /\ faults' = faults + 1

\* An exception leaves dispatch_event: dispatch_due_events does not catch it, and
\* _pump_loop returns for good, until a restart of the process makes a new one.
PumpEnds   == pump' = FALSE
PumpMayEnd == pump' \in {pump, FALSE}

\* The coroutine returns or raises: its locals are gone, and its `async with
\* mutation` block, if it is in one, is left.
Finish(d) ==
    /\ Goto(d, "idle")
    /\ LeaveGate(d)
    /\ seen' = [seen EXCEPT ![d] = "NONE"]
    /\ num' = [num EXCEPT ![d] = 0]
    /\ lease' = [lease EXCEPT ![d] = 0]
    /\ stop' = [stop EXCEPT ![d] = FALSE]
    /\ receipt' = [receipt EXCEPT ![d] = "UNKNOWN"]
    /\ UNCHANGED job

--------------------
\* Initial state: an empty outbox under a running module.
Init ==
    /\ ev = [e \in Events |-> [st |-> "NONE", att |-> 0, retry |-> FALSE]]
    /\ sub = [e \in Events |-> TRUE]
    /\ fence = [e \in Events |-> TRUE]
    /\ grant = [e \in Events |-> "live"]
    /\ open = TRUE
    /\ epoch = 1
    /\ gate = Free
    /\ up = TRUE
    /\ faults = 0
    /\ pump = TRUE
    /\ pc = [d \in Dispatchers |-> "idle"]
    /\ job \in {[d \in Dispatchers |-> e] : e \in Events}
    /\ seen = [d \in Dispatchers |-> "NONE"]
    /\ num = [d \in Dispatchers |-> 0]
    /\ lease = [d \in Dispatchers |-> 0]
    /\ stop = [d \in Dispatchers |-> FALSE]
    /\ receipt = [d \in Dispatchers |-> "UNKNOWN"]
    /\ delivered = [e \in Events |-> 0]
    /\ lost = [e \in Events |-> FALSE]

--------------------
\* Collection commits an event for an active subscription, stamped with the
\* current fence: commit_observation_with_evaluations, _upsert_event.
Enqueue(e) ==
    /\ up
    /\ sub[e]
    /\ ev[e].st = "NONE"
    /\ SetRow(e, "PENDING", 0, FALSE)
    /\ UNCHANGED <<authority, gate, process, pc, locals, delivered, lost>>

--------------------
\* dispatch_event, before the mutation gate.

\* current_event, with the early return on a row that is not waiting.
Begin(d, e) ==
    /\ up
    /\ pump
    /\ pc[d] = "idle"
    /\ ev[e].st \in Waiting
    /\ ev[e].att < MaxAttempts
    /\ Goto(d, "check")
    /\ job' = [job EXCEPT ![d] = e]
    /\ seen' = [seen EXCEPT ![d] = ev[e].st]
    /\ num' = [num EXCEPT ![d] = ev[e].att]
    /\ UNCHANGED <<rows, authority, gate, process, lease, stop, receipt>>

\* First _eligibility, then _delivery_lease.
Check(d) ==
    /\ pc[d] = "check"
    /\ \/ /\ Eligible(job[d])
          /\ open
          /\ Goto(d, "render")
          /\ lease' = [lease EXCEPT ![d] = epoch]
       \/ Goto(d, "reject") /\ UNCHANGED lease
    /\ UNCHANGED <<rows, authority, gate, process, job, seen, num, stop, receipt>>

\* _apply_commentary and render, followed by the admission check.
Render(d) ==
    /\ pc[d] = "render"
    /\ \/ LeaseCurrent(d) /\ Goto(d, "recheck")
       \/ ~LeaseCurrent(d) /\ Goto(d, "reject")
       \/ Goto(d, "renderFailed")
    /\ UNCHANGED <<rows, authority, gate, process, locals>>

\* Second _eligibility, with the epoch of the first.
Recheck(d) ==
    /\ pc[d] = "recheck"
    /\ \/ Eligible(job[d]) /\ LeaseCurrent(d) /\ Goto(d, "approve")
       \/ Goto(d, "reject")
    /\ UNCHANGED <<rows, authority, gate, process, locals>>

--------------------
\* approve_and_schedule_send: the first stay inside the mutation gate.

\* A lease that went stale raises AdmissionError out of dispatch_event.
Approve(d) ==
    /\ pc[d] = "approve"
    /\ gate = Free
    /\ \/ /\ LeaseCurrent(d)
          /\ TakeGate(d)
          /\ Goto(d, "final")
          /\ UNCHANGED <<locals, pump>>
       \/ ~LeaseCurrent(d) /\ Finish(d) /\ PumpEnds
    /\ UNCHANGED <<rows, authority, up, faults>>

\* final_check: the third _eligibility.
FinalCheck(d) ==
    /\ pc[d] = "final"
    /\ \/ Eligible(job[d]) /\ LeaseCurrent(d) /\ Goto(d, "claim")
       \/ Goto(d, "reject")
    /\ UNCHANGED <<rows, authority, gate, process, locals>>

\* final_check: claim_sending commits the SENDING row.
ClaimSending(d) ==
    LET e == job[d] IN
    /\ pc[d] = "claim"
    /\ CanClaim(d)
    /\ SetRow(e, "SENDING", num[d] + 1, FALSE)
    /\ num' = [num EXCEPT ![d] = @ + 1]
    /\ \/ Goto(d, "claimed") /\ UNCHANGED <<faults, pump>>
       \/ Goto(d, "abort") /\ Fault /\ PumpMayEnd \* _reconcile_cancelled_event_claim
    /\ UNCHANGED <<authority, gate, up, job, seen, lease, stop, receipt,
                   delivered, lost>>

\* final_check: claim_sending answers None; the row is read again, and one that
\* still waits but is no longer eligible is finished without a send.
ClaimLost_TryAgain(d) ==
    /\ pc[d] = "claim"
    /\ ~CanClaim(d)
    /\ Goto(d, "recheck")
    /\ LeaveGate(d)
    /\ UNCHANGED <<rows, authority, process, locals>>
ClaimLost(d) ==
    LET e == job[d] IN
    /\ pc[d] = "claim"
    /\ ~CanClaim(d)
    /\ \/ Finish(d)
       \/ /\ ev[e].st \in Waiting
          /\ Goto(d, "reject")
          /\ seen' = [seen EXCEPT ![d] = ev[e].st]
          /\ num' = [num EXCEPT ![d] = ev[e].att]
          /\ UNCHANGED <<gate, job, lease, stop, receipt>>
    /\ UNCHANGED <<rows, authority, process>>

\* The expiry check after the claim, the admission check after final_check and
\* LifecycleApprovedSendScheduler.schedule run without an await.  An expired Grant
\* is settled by final_check; the other two raise.
Permit(d) ==
    /\ pc[d] = "claimed"
    /\ \/ /\ grant[job[d]] # "expired"
          /\ LeaseCurrent(d)
          /\ Goto(d, "queued")
          /\ LeaveGate(d)
          /\ UNCHANGED pump
       \/ grant[job[d]] = "expired" /\ Goto(d, "abort") /\ UNCHANGED <<gate, pump>>
       \/ Goto(d, "abort") /\ PumpEnds /\ UNCHANGED gate
    /\ UNCHANGED <<rows, authority, up, faults, locals>>

--------------------
\* The sender task: _start_io holds the gate up to the MessagePort entry.

\* The proof under the gate.  A failed proof aborts before it leaves the gate.
StartIo_ProofBeforeGate(d) ==
    /\ pc[d] = "queued"
    /\ LeaseCurrent(d) /\ Eligible(job[d]) /\ CurrentForSend(d) /\ ~stop[d]
    /\ Goto(d, "io")
    /\ UNCHANGED <<rows, authority, gate, process, locals>>
StartIo(d) ==
    /\ pc[d] = "queued"
    /\ TakeGate(d)
    /\ \/ /\ LeaseCurrent(d)
          /\ Eligible(job[d])
          /\ CurrentForSend(d)
          /\ ~stop[d]
          /\ Goto(d, "io")
       \/ Goto(d, "abort")
    /\ UNCHANGED <<rows, authority, process, locals>>

\* First instruction of the io child: last synchronous checks, then
\* MessagePort.send is entered and _start_io returns.
IoEnter(d) ==
    /\ pc[d] = "io"
    /\ IF LeaseCurrent(d) /\ ~stop[d] /\ grant[job[d]] # "expired"
          THEN Goto(d, "inflight") /\ LeaveGate(d)
          ELSE Goto(d, "abort") /\ UNCHANGED gate
    /\ UNCHANGED <<rows, authority, process, locals>>

\* The Host answers, or _receipt_fields turns a timed-out, cancelled or failed
\* call into UNKNOWN.  ACCEPTED means delivered, FAILED means not delivered.
HostReturns(d) ==
    LET e == job[d] IN
    /\ pc[d] = "inflight"
    /\ \E r \in MessageStatus, sent \in {0, 1} :
          /\ r = "ACCEPTED" => sent = 1
          /\ r = "FAILED" => sent = 0
          /\ receipt' = [receipt EXCEPT ![d] = r]
          /\ delivered' = [delivered EXCEPT ![e] = @ + sent]
    /\ Goto(d, "receipt")
    /\ UNCHANGED <<ev, lost, authority, gate, process, job, seen, num, lease, stop>>

\* _commit_event_receipt.
CommitReceipt(d) ==
    LET e == job[d] IN
    /\ pc[d] = "receipt"
    /\ IF CanRecord(e, "SENDING", num[d])
          THEN \E r \in RetryPolicy :
                  SetRow(e, StateOf(receipt[d]), num[d],
                         StateOf(receipt[d]) = "FAILED" /\ r)
          ELSE UNCHANGED ev
    /\ Finish(d)
    /\ UNCHANGED <<authority, process, delivered, lost>>

\* _abort_event_send, from the gate or from outside it.
Abort(d) ==
    LET e == job[d] IN
    /\ pc[d] = "abort"
    /\ IF CanRecord(e, "SENDING", num[d])
          THEN SetRow(e, "CANCELLED", num[d], FALSE)
          ELSE UNCHANGED ev
    /\ Finish(d)
    /\ UNCHANGED <<authority, process, delivered, lost>>

\* _finish_without_send_result with a refusal code.
Reject(d) ==
    LET e == job[d] IN
    /\ pc[d] = "reject"
    /\ IF CanRecord(e, seen[d], num[d] + 1)
          THEN SetRow(e, "CANCELLED", num[d] + 1, FALSE)
          ELSE UNCHANGED ev
    /\ Finish(d)
    /\ UNCHANGED <<authority, process, delivered, lost>>

\* _finish_without_send_result with display_render_failed.
RenderFailed_Silent(d) ==
    /\ pc[d] = "renderFailed"
    /\ Finish(d)
    /\ UNCHANGED <<rows, authority, process>>
RenderFailed(d) ==
    LET e == job[d] IN
    /\ pc[d] = "renderFailed"
    /\ IF CanRecord(e, seen[d], num[d] + 1)
          THEN \E r \in RetryPolicy : SetRow(e, "FAILED", num[d] + 1, r)
          ELSE UNCHANGED ev
    /\ Finish(d)
    /\ UNCHANGED <<authority, process, delivered, lost>>

--------------------
\* Cancellation, timeouts and storage errors.

\* The dispatching task is cancelled, or a repository call raises, before an
\* attempt is claimed: dispatch_event raises and the row keeps its state.  Only the
\* error of a claim_sending is caught, by final_check.
CancelDispatch(d) ==
    /\ pc[d] \in BeforeClaim
    /\ Fault
    /\ Finish(d)
    /\ IF pc[d] = "claim" THEN PumpMayEnd ELSE PumpEnds
    /\ UNCHANGED <<rows, authority, up>>

\* Lifecycle cancels the scope-owned sender before MessagePort is entered
\* (complete_unstarted, run_sender and _start_io all abort the claim).
CancelSender_NoAbort(d) ==
    /\ pc[d] \in {"queued", "io"}
    /\ Finish(d)
    /\ UNCHANGED <<rows, authority, process>>
CancelSender(d) ==
    /\ pc[d] \in {"queued", "io"}
    /\ Goto(d, "abort")
    /\ UNCHANGED <<rows, authority, gate, process, locals>>

\* The waiter's send timeout, or its cancellation, which it raises again once the
\* sender is done, sets state["stop"].
StopSend(d) ==
    /\ pc[d] \in {"queued", "io"}
    /\ ~stop[d]
    /\ stop' = [stop EXCEPT ![d] = TRUE]
    /\ PumpMayEnd
    /\ UNCHANGED <<rows, authority, gate, up, faults, pc, job, seen, num, lease, receipt>>

\* The write of CommitReceipt or Abort raises; the row stays SENDING.  Nobody
\* raises it further (_commit_event_receipt, _drain_cleanup, complete_unstarted).
SettleFails(d) ==
    /\ pc[d] \in {"receipt", "abort"}
    /\ Fault
    /\ lost' = [lost EXCEPT ![job[d]] = TRUE]
    /\ Finish(d)
    /\ UNCHANGED <<ev, delivered, authority, up, pump>>

\* A page of due events cannot be read, or another stage of the pump's round
\* raises (_register_declared_subscription_gates, run_due_page,
\* create_digest_windows_page, dispatch_due_digests): _pump_loop returns.
PumpFails ==
    /\ up
    /\ pump
    /\ \A d \in Dispatchers : pc[d] = "idle"
    /\ PumpEnds
    /\ UNCHANGED <<rows, authority, gate, up, faults, pc, locals>>

--------------------
\* Commands that withdraw authority. Those which hold the mutation gate are one
\* step taken while no dispatcher holds it.

\* SubscriptionService cancel or revise.
CancelSubscription_Ungated(e) ==
    /\ up
    /\ sub[e]
    /\ sub' = [sub EXCEPT ![e] = FALSE]
    /\ UNCHANGED <<rows, fence, grant, open, epoch, gate, process, pc, locals>>
CancelSubscription(e) ==
    /\ up
    /\ gate = Free
    /\ sub[e]
    /\ sub' = [sub EXCEPT ![e] = FALSE]
    /\ UNCHANGED <<rows, fence, grant, open, epoch, gate, process, pc, locals>>

\* A configuration update or a module toggle moves the gate or intent revision.
MoveFence(e) ==
    /\ up
    /\ gate = Free
    /\ ev[e].st # "NONE"
    /\ fence[e]
    /\ fence' = [fence EXCEPT ![e] = FALSE]
    /\ UNCHANGED <<rows, sub, grant, open, epoch, gate, process, pc, locals>>

\* AuthorizationService revoke: revoke_grant_with_invalidation cancels the
\* subscription and every event that an attempt could still pick up.
RevokeGrant(e) ==
    /\ up
    /\ gate = Free
    /\ grant[e] # "revoked"
    /\ grant' = [grant EXCEPT ![e] = "revoked"]
    /\ sub' = [sub EXCEPT ![e] = FALSE]
    /\ IF ev[e].st = "PENDING" \/ (ev[e].st = "FAILED" /\ ev[e].retry)
          THEN SetRow(e, "CANCELLED", ev[e].att + 1, FALSE)
          ELSE UNCHANGED ev
    /\ UNCHANGED <<delivered, lost, fence, open, epoch, gate, process, pc, locals>>

\* The clock passes the Grant's expires_at.
ExpireGrant(e) ==
    /\ grant[e] = "live"
    /\ grant' = [grant EXCEPT ![e] = "expired"]
    /\ UNCHANGED <<rows, sub, fence, open, epoch, gate, process, pc, locals>>

\* LifecycleController.quiesce and _scope_cleanup_timeout: the admission gate is
\* closed and the epoch invalidated synchronously, with or without the mutation gate.
CloseModule ==
    /\ up
    /\ open
    /\ open' = FALSE
    /\ epoch' = epoch + 1
    /\ UNCHANGED <<rows, sub, fence, grant, gate, process, pc, locals>>

\* start_candidate allocates a new epoch, publish_committed_intent opens it.
OpenModule ==
    /\ up
    /\ ~open
    /\ gate = Free
    /\ epoch < MaxEpoch
    /\ open' = TRUE
    /\ epoch' = epoch + 1
    /\ UNCHANGED <<rows, sub, fence, grant, gate, process, pc, locals>>

--------------------
\* The process dies. Host calls in flight may or may not have delivered.
Crash ==
    /\ up
    /\ Fault
    /\ up' = FALSE
    /\ PumpEnds
    /\ gate' = Free
    /\ pc' = [d \in Dispatchers |-> "idle"]
    /\ \E sent \in SUBSET {job[d] : d \in {x \in Dispatchers : pc[x] = "inflight"}} :
          delivered' = [e \in Events |-> delivered[e] + IF e \in sent THEN 1 ELSE 0]
    /\ seen' = [d \in Dispatchers |-> "NONE"]
    /\ num' = [d \in Dispatchers |-> 0]
    /\ lease' = [d \in Dispatchers |-> 0]
    /\ stop' = [d \in Dispatchers |-> FALSE]
    /\ receipt' = [d \in Dispatchers |-> "UNKNOWN"]
    /\ UNCHANGED <<ev, lost, authority, job>>

\* recover_startup, before any dispatch: recover_stale_sending turns every SENDING
\* row into UNKNOWN, except rows whose started_at lies in the future of the clock.
Recover_Requeue ==
    /\ ~up
    /\ up' = TRUE
    /\ pump' = TRUE
    /\ ev' = [e \in Events |-> IF ev[e].st = "SENDING"
                                THEN [ev[e] EXCEPT !.st = "FAILED", !.retry = TRUE]
                                ELSE ev[e]]
    /\ UNCHANGED <<delivered, lost, authority, gate, faults, pc, locals>>
Recover ==
    /\ ~up
    /\ up' = TRUE
    /\ pump' = TRUE
    /\ \E future \in SUBSET {e \in Events : ev[e].st = "SENDING"} :
          /\ future # {} => ClockSteps
          /\ ev' = [e \in Events |->
                      IF ev[e].st = "SENDING" /\ e \notin future
                        THEN [ev[e] EXCEPT !.st = "UNKNOWN", !.retry = FALSE]
                        ELSE ev[e]]
          /\ lost' = [e \in Events |-> lost[e] \/ e \in future]
    /\ UNCHANGED <<delivered, authority, gate, faults, pc, locals>>

--------------------
\* The pump finds nothing due and sleeps, or has returned.
Rest ==
    /\ up
    /\ \A d \in Dispatchers : pc[d] = "idle"
    /\ UNCHANGED vars

--------------------
\* The specification.

\* Every step a dispatcher takes by itself once it has begun.
Advance(d) ==
    \/ Check(d) \/ Render(d) \/ Recheck(d) \/ Approve(d) \/ FinalCheck(d)
    \/ ClaimSending(d) \/ ClaimLost(d) \/ Permit(d) \/ StartIo(d) \/ IoEnter(d)
    \/ HostReturns(d) \/ CommitReceipt(d) \/ Abort(d) \/ Reject(d) \/ RenderFailed(d)

Disturb(d) ==
    CancelDispatch(d) \/ CancelSender(d) \/ StopSend(d) \/ SettleFails(d)

Command(e) ==
    \/ Enqueue(e) \/ CancelSubscription(e) \/ MoveFence(e) \/ RevokeGrant(e)
    \/ ExpireGrant(e)

Next ==
    \/ \E d \in Dispatchers : Advance(d) \/ Disturb(d)
    \/ \E d \in Dispatchers, e \in Events : Begin(d, e)
    \/ \E e \in Events : Command(e)
    \/ CloseModule \/ OpenModule \/ PumpFails \/ Crash \/ Recover \/ Rest

Spec == Init /\ [][Next]_vars

\* list_due_events.
Due(e) == ev[e].st = "PENDING" \/ (ev[e].st = "FAILED" /\ ev[e].retry)

\* The event loop runs every ready coroutine and asyncio.Lock is first come,
\* first served, so a dispatcher that can move infinitely often does move; a pump
\* that has not returned reads the due events again in every round, and Begin is
\* not enabled without it; a dead process is restarted.  Nothing brings a pump back
\* that returned in a process which lives.
Fairness ==
    /\ \A d \in Dispatchers : SF_vars(Advance(d))
    /\ \A e \in Events : SF_vars(Due(e) /\ \E d \in Dispatchers : Begin(d, e))
    /\ WF_vars(Recover)

FairSpec == Spec /\ Fairness

--------------------
\* Safety.

\* The platform delivers an event at most once, over all attempts, retries,
\* dispatchers and restarts, and a delivered event is never again PENDING,
\* FAILED or CANCELLED, the states that a later attempt or a user would take
\* for "not sent" (claim_sending, record_attempt, recover_stale_sending).
AtMostOnceDelivery ==
    \A e \in Events :
        /\ delivered[e] <= 1
        /\ delivered[e] = 1 => ev[e].st \in {"SENDING", "SENT", "UNKNOWN"}

\* A row says SENT only when the message really went out (_commit_event_receipt).
SentIsConfirmed == \A e \in Events : ev[e].st = "SENT" => delivered[e] = 1

\* No two dispatchers ever own an unsettled attempt of the same event, and the
\* owner's attempt is the one the row names (claim_sending's compare-and-set).
OneOwner ==
    \A d \in Dispatchers : pc[d] \in Owning =>
        /\ ev[job[d]].st = "SENDING"
        /\ ev[job[d]].att = num[d]
        /\ \A c \in Dispatchers \ {d} : pc[c] \in Owning => job[c] # job[d]

\* While the process runs, a SENDING row has a dispatcher that will settle it,
\* unless the settling write itself failed: no cancellation, timeout, refused
\* permit or stale lease leaves an attempt behind (abort_before_dispatch,
\* complete_unstarted, _start_io, _reconcile_cancelled_event_claim).
NoOrphanAttempt ==
    \A e \in Events :
        up /\ ev[e].st = "SENDING" /\ ~lost[e] =>
            \E d \in Dispatchers : pc[d] \in Owning /\ job[d] = e

\* MessagePort.send is entered only in a state in which the subscription, the
\* configuration fence, the Grant, the module run and the claim are all current:
\* what the checks read several awaits earlier still holds (_start_io).
SendCurrent(d) ==
    CurrentForSend(d) /\ grant[job[d]] = "live" /\ LeaseCurrent(d)
EnteredWhileCurrent ==
    [][\A d \in Dispatchers :
          pc[d] # "inflight" /\ pc'[d] = "inflight" => SendCurrent(d)]_vars

--------------------
\* What makes the properties above inductive.

\* A dispatcher without an attempt of its own remembers a waiting row.
SeenWaiting == \A d \in Dispatchers : pc[d] \in BeforeClaim => seen[d] \in Waiting

\* Inside the critical sections the dispatcher holds the gate.
GateHeld == \A d \in Dispatchers : pc[d] \in Gated => gate = d

\* No coroutine survives the process.
DownIsIdle == ~up => \A d \in Dispatchers : pc[d] = "idle"

\* What an owner knows about the deliveries of its event.
OwnerKnows ==
    \A d \in Dispatchers : pc[d] \in Owning =>
        /\ delivered[job[d]] # 0 => pc[d] = "receipt" /\ receipt[d] # "FAILED"
        /\ pc[d] = "receipt" /\ receipt[d] = "ACCEPTED" => delivered[job[d]] = 1

\* What the proof of _start_io established cannot be withdrawn while it holds the
\* gate; only the clock and the module run can still move.
ProofHolds ==
    \A d \in Dispatchers : pc[d] = "io" =>
        Qualified(job[d]) /\ grant[job[d]] # "revoked"

DeliveryInv ==
    /\ TypeOK
    /\ OneOwner
    /\ SeenWaiting
    /\ GateHeld
    /\ DownIsIdle
    /\ OwnerKnows
    /\ ProofHolds
    /\ AtMostOnceDelivery
    /\ SentIsConfirmed
    /\ NoOrphanAttempt

\* The outbox as its clients see it: see module DeliveryContract.
Contract == INSTANCE DeliveryContract WITH state <- [e \in Events |-> ev[e].st]

\* The detailed dispatch protocol implements the contract.
ImplementsContract == Contract!Spec

--------------------
\* Liveness, under FairSpec.

\* Every dispatch_event call returns, a dispatcher is always idle again: neither
\* the mutation gate nor a shielded cleanup is waited for for ever
\* (_approve_and_wait, _wait_protected).
DispatchReturns == \A d \in Dispatchers : []<>(pc[d] = "idle")

\* A pending event is eventually settled, or known to have failed, or left
\* behind by a failed write; it is never just forgotten (dispatch_due_events).
\* The exceptions are an event whose fence has moved (_eligibility does not read
\* the fence, claim_sending refuses, and the row stays PENDING), and a pump that an
\* exception has ended: no event moves again until the process restarts.
DueEventSettles ==
    \A e \in Events : ev[e].st = "PENDING" ~>
        ev[e].st \in Settled \cup {"FAILED"} \/ lost[e] \/ ~fence[e] \/ ~pump

\* What the outbox holds at every moment, whatever crashes, retries, cancels or
\* steps the clock: each row well formed, delivered at most once and SENT only
\* when it was, and every attempt owned by exactly one dispatcher.
DeliveryIsSafe ==
    TypeOK /\ AtMostOnceDelivery /\ SentIsConfirmed /\ OneOwner /\ NoOrphanAttempt

\* dispatch_event always returns, and under a pump that keeps running a due event
\* does not stay due for ever.
DeliveryProgresses == DispatchReturns /\ DueEventSettles
=============================================================================
