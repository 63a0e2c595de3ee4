--------------------------- MODULE DigestDelivery ---------------------------
(***************************************************************************)
(* Delivery of one digest envelope: one window and one recipient route, to *)
(* which several subscriptions contribute.  Covers the calendar digest and *)
(* the public-event aggregate, from the sealing of the membership through  *)
(* claim, pruning, rendering, send and recovery.                           *)
(*                                                                         *)
(* Sources: dispatch_digest and its helpers in services/delivery.py,       *)
(* SQLiteDigestWindowRepository in                                         *)
(* infrastructure/sqlite/repositories_subscriptions.py, and                *)
(* _prune_digest_members in                                                *)
(* infrastructure/sqlite/repositories_grant_revocation.py.                 *)
(*                                                                         *)
(* The stored claim token and revision are one variable here, holder: each *)
(* write raises the revision, and each write that is not the claimant's    *)
(* replaces or clears the token, so a claimant finds both unchanged        *)
(* exactly while it is the holder.                                         *)
(*                                                                         *)
(* A definition X_Y is X with the bug that Y names.                        *)
(***************************************************************************)
EXTENDS Naturals, FiniteSets

CONSTANTS
    Members,        \* contributing events, one subscription each
    Granted,        \* the members whose subscription uses a Grant
    Dispatchers,    \* callers of dispatch_digest
    Nobody,         \* no claimant, no gate holder
    Digests,        \* the digests to begin with: whether it is a public-event
                    \* aggregate or a calendar digest, the members whose events
                    \* are not yet cancelled, the callers there are
    MemberLimit,    \* members of an aggregate: 100
    Rebuilds,       \* claims one dispatch may make: 4
    RetryPolicy,    \* what retry_at may answer: TRUE is a due time, FALSE is None
    MaxAttempts,    \* bound on the attempts of the envelope
    MaxFaults       \* bound on crashes, cancellations and storage errors

ASSUME DigestConstants ==
    /\ Nobody \notin Dispatchers
    /\ Granted \subseteq Members
    /\ Digests \subseteq [public : BOOLEAN, who : SUBSET Members, by : SUBSET Dispatchers]
    /\ MemberLimit \in Nat \ {0}
    /\ Rebuilds \in Nat \ {0}
    /\ RetryPolicy \subseteq BOOLEAN
    /\ RetryPolicy # {}
    /\ MaxAttempts \in Nat
    /\ MaxFaults \in Nat

VARIABLES
    env,        \* b04_digest_envelopes: kind, state, members, attempts, retry_at
    holder,     \* whose claim token and revision the envelope has
    read,       \* dispatchers whose read of a FAILED envelope is still current
    expired,    \* dispatchers whose latest claim has expired
    joined,     \* b04_digest_members of the route
    evst,       \* b04_delivery_events: state of each member's own event
    auth,       \* the authority of each member
    open,       \* the module's admission gate is open
    gate,       \* holder of AdmissionController._mutation_lock
    up,         \* the process runs and has finished recover_startup
    faults,     \* crashes, cancellations and storage errors so far
    pc,         \* where each dispatcher stands
    round,      \* claims it has made in this dispatch
    todo,       \* members it still has to check in this pass
    ok,         \* members the pass has allowed so far
    prior,      \* members whose first check saw the module's current epoch
    batch,      \* the candidates: members it renders or has rendered
    lease,      \* its DeliveryLease is of the module's current epoch
    stop,       \* state["stop"]: its waiter timed out or was cancelled
    receipt,    \* what the Host call told it
    delivered   \* history: messages of the envelope the platform delivered

table   == <<env, holder, read, joined, evst>>
world   == <<auth, open, gate, up, faults>>
pass    == <<round, todo, ok, batch>>
sending == <<stop, receipt>>
vars    == <<env, holder, read, expired, joined, evst, auth, open, gate, up,
             faults, pc, round, todo, ok, prior, batch, lease, stop, receipt,
             delivered>>

MessageStatus == {"ACCEPTED", "FAILED", "UNKNOWN"}
EnvelopeStates == {"NONE", "READY", "CLAIMED", "SENDING", "SENT", "FAILED",
                   "UNKNOWN", "CANCELLED"}
EventStates == {"NONE", "PENDING", "SENDING", "SENT", "FAILED", "UNKNOWN",
                "CANCELLED"}
Authorities == {"live", "fenced", "expired", "cancelled"}

\* The dispatcher has no attempt of its own persisted.
BeforeSend == {"reopen", "claim", "check", "render", "recheck", "approve",
               "final", "begin", "drop", "failed"}
\* Its SENDING attempt is persisted and not settled.
Owning == {"claimed", "queued", "io", "inflight", "receipt", "abort", "dropped",
           "failing"}
\* "absent" is a caller that this behaviour does not have.
PCs == {"idle", "raised", "absent"} \cup BeforeSend \cup Owning

\* Every variable stays in its type; an envelope keeps members until it is
\* cancelled, as DigestEnvelope requires, and only FAILED has a retry time.
TypeOK ==
    /\ env \in [public: BOOLEAN, st: EnvelopeStates, members: SUBSET Members, att: Nat,
                retry: BOOLEAN]
    /\ env.members = {} <=> env.st \in {"NONE", "CANCELLED"}
    /\ env.retry => env.st = "FAILED"
    /\ holder \in Dispatchers \cup {Nobody}
    /\ read \subseteq Dispatchers
    /\ expired \subseteq Dispatchers
    /\ joined \subseteq Members
    /\ evst \in [Members -> EventStates]
    /\ auth \in [Members -> Authorities]
    /\ open \in BOOLEAN
    /\ gate \in Dispatchers \cup {Nobody}
    /\ up \in BOOLEAN
    /\ faults \in Nat
    /\ pc \in [Dispatchers -> PCs]
    /\ round \in [Dispatchers -> 0..Rebuilds]
    /\ todo \in [Dispatchers -> SUBSET Members]
    /\ ok \in [Dispatchers -> SUBSET Members]
    /\ prior \in [Dispatchers -> SUBSET Members]
    /\ batch \in [Dispatchers -> SUBSET Members]
    /\ lease \in [Dispatchers -> BOOLEAN]
    /\ stop \in [Dispatchers -> BOOLEAN]
    /\ receipt \in [Dispatchers -> MessageStatus]
    /\ delivered \in Nat

(***************************************************************************)
(* What the checks read.                                                   *)
(***************************************************************************)

\* _eligibility, without the module: subscription, Grant and its expiry.  A
\* failed read or an unattested route may always refuse a member instead.
Eligible(m) == auth[m] \in {"live", "fenced"}

\* _current_member_disposition is INCLUDED: subscription and fences.
Included(m) == auth[m] \in {"live", "expired"}

SomeIncluded(S) == \E m \in S : Included(m)
AllIncluded(S) == \A m \in S : Included(m)

\* The claim of d is the one the envelope carries.
Holds(d, st) == holder = d /\ env.st = st

(***************************************************************************)
(* Writes of the envelope, and what they project onto the member events.   *)
(***************************************************************************)
Write(st, members, att, retry) ==
    /\ env' = [env EXCEPT !.st = st, !.members = members, !.att = att, !.retry = retry]
    /\ read' = {}

\* _project_public_attempt, and the tail of complete_envelope_send.
Project(st) ==
    evst' = IF env.public
              THEN [m \in Members |-> IF m \in env.members THEN st ELSE evst[m]]
              ELSE evst

Goto(d, to) == pc' = [pc EXCEPT ![d] = to]
LeaveGate(d) == gate' = IF gate = d THEN Nobody ELSE gate
Fault == faults < MaxFaults /\ faults' = faults + 1

\* The coroutine ends in state to, and leaves the gate if it is in it.
End(d, to) ==
    /\ Goto(d, to)
    /\ LeaveGate(d)
    /\ round' = [round EXCEPT ![d] = 0]
    /\ todo' = [todo EXCEPT ![d] = {}]
    /\ ok' = [ok EXCEPT ![d] = {}]
    /\ prior' = [prior EXCEPT ![d] = {}]
    /\ batch' = [batch EXCEPT ![d] = {}]
    /\ lease' = [lease EXCEPT ![d] = FALSE]
    /\ stop' = [stop EXCEPT ![d] = FALSE]
    /\ receipt' = [receipt EXCEPT ![d] = "UNKNOWN"]

\* A pass over the members in S begins.
StartPass(d, S) ==
    /\ todo' = [todo EXCEPT ![d] = S]
    /\ ok' = [ok EXCEPT ![d] = {}]

Init ==
    /\ \E g \in Digests :
          /\ env = [public |-> g.public, st |-> "NONE", members |-> {}, att |-> 0,
                    retry |-> FALSE]
          /\ evst = [m \in Members |-> IF m \in g.who THEN "NONE" ELSE "CANCELLED"]
          /\ pc = [d \in Dispatchers |-> IF d \in g.by THEN "idle" ELSE "absent"]
    /\ holder = Nobody
    /\ read = {}
    /\ expired = {}
    /\ joined = {}
    /\ auth = [m \in Members |-> "live"]
    /\ open = TRUE
    /\ gate = Nobody
    /\ up = TRUE
    /\ faults = 0
    /\ round = [d \in Dispatchers |-> 0]
    /\ todo = [d \in Dispatchers |-> {}]
    /\ ok = [d \in Dispatchers |-> {}]
    /\ prior = [d \in Dispatchers |-> {}]
    /\ batch = [d \in Dispatchers |-> {}]
    /\ lease = [d \in Dispatchers |-> FALSE]
    /\ stop = [d \in Dispatchers |-> FALSE]
    /\ receipt = [d \in Dispatchers |-> "UNKNOWN"]
    /\ delivered = 0

(***************************************************************************)
(* An observation contributes an event.  A late contribution to a sealed   *)
(* or full aggregate is suppressed; a calendar digest takes the row, which *)
(* the sealed envelope no longer sees.                                     *)
(***************************************************************************)
Contribute_Reopen(m) ==
    /\ up
    /\ evst[m] = "NONE"
    /\ auth[m] = "live"
    /\ joined' = joined \cup {m}
    /\ evst' = [evst EXCEPT ![m] = "PENDING"]
    /\ env' = IF env.st = "NONE" THEN env
                                 ELSE [env EXCEPT !.members = @ \cup {m}]
    /\ UNCHANGED <<holder, read, expired, world, pc, pass, prior, lease, sending,
                   delivered>>
Contribute(m) ==
    /\ up
    /\ evst[m] = "NONE"
    /\ auth[m] = "live"
    /\ IF env.public /\ (env.st # "NONE" \/ Cardinality(joined) >= MemberLimit)
       THEN evst' = [evst EXCEPT ![m] = "CANCELLED"] /\ UNCHANGED joined
       ELSE evst' = [evst EXCEPT ![m] = "PENDING"] /\ joined' = joined \cup {m}
    /\ UNCHANGED <<env, holder, read, expired, world, pc, pass, prior, lease,
                   sending, delivered>>

(***************************************************************************)
(* dispatch_digest before the mutation gate.                               *)
(***************************************************************************)

\* current_envelope: a FAILED envelope is reopened first.
Begin(d) ==
    /\ up
    /\ pc[d] = "idle"
    /\ joined # {}
    /\ env.att < MaxAttempts
    /\ \/ /\ env.st \in {"NONE", "READY"}
          /\ Goto(d, "claim")
          /\ UNCHANGED read
       \/ /\ env.st = "FAILED" /\ env.retry
          /\ Goto(d, "reopen")
          /\ read' = read \cup {d}
    /\ UNCHANGED <<env, holder, expired, joined, evst, world, pass, prior, lease,
                   sending, delivered>>

\* retry_failed_envelope.
Reopen_Stale(d) ==
    /\ pc[d] = "reopen"
    /\ Write("READY", env.members, env.att, FALSE)
    /\ Goto(d, "claim")
    /\ UNCHANGED <<holder, expired, joined, evst, world, pass, prior, lease, sending,
                   delivered>>
Reopen(d) ==
    /\ pc[d] = "reopen"
    /\ IF d \in read /\ SomeIncluded(env.members)
       THEN /\ Write("READY", env.members, env.att, FALSE)
            /\ Goto(d, "claim")
            /\ UNCHANGED <<pass, prior, lease, sending, gate>>
       ELSE End(d, "idle") /\ UNCHANGED <<env, read>>
    /\ UNCHANGED <<holder, expired, joined, evst, auth, open, up, faults, delivered>>

\* claim_due_envelope: the first claim creates the envelope, which seals the
\* membership.
Sealed == IF env.st = "NONE" THEN joined ELSE env.members

Claim_NoCas(d) ==
    /\ pc[d] = "claim"
    /\ SomeIncluded(Sealed)
    /\ Write("CLAIMED", Sealed, env.att, FALSE)
    /\ holder' = d
    /\ expired' = expired \ {d}
    /\ Goto(d, "check")
    /\ StartPass(d, Sealed)
    /\ round' = [round EXCEPT ![d] = @ + 1]
    /\ prior' = [prior EXCEPT ![d] = {}]
    /\ UNCHANGED <<batch, lease, sending, world, joined, evst, delivered>>
Claim(d) ==
    /\ pc[d] = "claim"
    /\ IF env.st \in {"NONE", "READY"} /\ SomeIncluded(Sealed)
       THEN /\ Write("CLAIMED", Sealed, env.att, FALSE)
            /\ holder' = d
            /\ expired' = expired \ {d}
            /\ Goto(d, "check")
            /\ StartPass(d, Sealed)
            /\ round' = [round EXCEPT ![d] = @ + 1]
            /\ prior' = [prior EXCEPT ![d] = {}]
            /\ UNCHANGED <<batch, lease, sending, gate>>
       ELSE End(d, "idle") /\ UNCHANGED <<env, read, holder, expired>>
    /\ UNCHANGED <<joined, evst, auth, open, up, faults, delivered>>

\* One _eligibility of the first pass.
CheckMember(d, m) ==
    /\ pc[d] = "check"
    /\ m \in todo[d]
    /\ todo' = [todo EXCEPT ![d] = @ \ {m}]
    /\ \/ /\ Eligible(m) /\ open
          /\ ok' = [ok EXCEPT ![d] = @ \cup {m}]
          /\ prior' = [prior EXCEPT ![d] = @ \cup {m}]
       \/ UNCHANGED <<ok, prior>>
    /\ UNCHANGED <<table, expired, world, pc, round, batch, lease, sending,
                   delivered>>

\* One _eligibility of a later pass, with the epoch of the first.  In the
\* second pass a stale lease raises AdmissionError after it.
RecheckMember(d, m) ==
    /\ pc[d] \in {"recheck", "final"}
    /\ m \in todo[d]
    /\ IF pc[d] = "recheck" /\ ~lease[d]
       THEN End(d, "raised")
       ELSE /\ todo' = [todo EXCEPT ![d] = @ \ {m}]
            /\ \/ /\ Eligible(m) /\ open /\ m \in prior[d]
                  /\ ok' = [ok EXCEPT ![d] = @ \cup {m}]
               \/ UNCHANGED ok
            /\ UNCHANGED <<pc, gate, round, batch, prior, lease, sending>>
    /\ UNCHANGED <<table, expired, auth, open, up, faults, delivered>>

\* reconcile_envelope_members re-reads every allowed member in its transaction
\* and stores the survivors; without any the envelope is cancelled.
Survivors(d) == {m \in ok[d] : Included(m)}

Reconcile(d) ==
    IF Survivors(d) = {}
    THEN Write("CANCELLED", {}, env.att, FALSE) /\ holder' = Nobody
    ELSE Write("CLAIMED", Survivors(d), env.att, FALSE) /\ UNCHANGED holder

\* First reconciliation, then admit_delivery.  RevisionConflict and
\* AdmissionError leave dispatch_digest as exceptions.
FirstReconcile(d) ==
    /\ pc[d] = "check"
    /\ todo[d] = {}
    /\ IF ~Holds(d, "CLAIMED")
       THEN End(d, "raised") /\ UNCHANGED <<env, read, holder>>
       ELSE /\ Reconcile(d)
            /\ IF Survivors(d) = {} THEN End(d, "idle")
               ELSE IF ~open THEN End(d, "raised")
               ELSE /\ Goto(d, "render")
                    /\ batch' = [batch EXCEPT ![d] = Survivors(d)]
                    /\ lease' = [lease EXCEPT ![d] = TRUE]
                    /\ UNCHANGED <<gate, round, todo, ok, prior, sending>>
    /\ UNCHANGED <<expired, joined, evst, auth, open, up, faults, delivered>>

\* render_batch or the public composition, between two admission checks.
Render(d) ==
    /\ pc[d] = "render"
    /\ \/ /\ lease[d]
          /\ Goto(d, "recheck")
          /\ StartPass(d, batch[d])
          /\ UNCHANGED <<gate, round, batch, prior, lease, sending>>
       \/ /\ Goto(d, "failed")
          /\ UNCHANGED <<gate, pass, prior, lease, sending>>
       \/ ~lease[d] /\ End(d, "raised")
    /\ UNCHANGED <<table, expired, auth, open, up, faults, delivered>>

\* Second reconciliation: a member that went away sends the rest back to the
\* renderer.
SecondReconcile(d) ==
    /\ pc[d] = "recheck"
    /\ todo[d] = {}
    /\ IF ~Holds(d, "CLAIMED")
       THEN End(d, "raised") /\ UNCHANGED <<env, read, holder>>
       ELSE /\ Reconcile(d)
            /\ IF ~lease[d] THEN End(d, "raised")
               ELSE IF Survivors(d) = {} THEN End(d, "idle")
               ELSE /\ Goto(d, IF Survivors(d) = batch[d] THEN "approve" ELSE "render")
                    /\ batch' = [batch EXCEPT ![d] = Survivors(d)]
                    /\ UNCHANGED <<gate, round, todo, ok, prior, lease, sending>>
    /\ UNCHANGED <<expired, joined, evst, auth, open, up, faults, delivered>>

(***************************************************************************)
(* approve_and_schedule_send: the first stay inside the mutation gate.     *)
(***************************************************************************)

\* AdmissionError of a stale lease becomes a CANCELLED result here.
Approve(d) ==
    /\ pc[d] = "approve"
    /\ gate = Nobody
    /\ IF lease[d]
       THEN /\ gate' = d
            /\ Goto(d, "final")
            /\ StartPass(d, batch[d])
            /\ UNCHANGED <<round, batch, prior, lease, sending>>
       ELSE End(d, "idle")
    /\ UNCHANGED <<table, expired, auth, open, up, faults, delivered>>

\* Third reconciliation, in final_check.  An envelope that shrank is sent
\* through begin and abort, to release the claim, and dispatched again.
FinalReconcile_NoRerender(d) ==
    /\ pc[d] = "final"
    /\ todo[d] = {}
    /\ IF ~Holds(d, "CLAIMED")
       THEN End(d, "idle") /\ UNCHANGED <<env, read, holder>>
       ELSE /\ Reconcile(d)
            /\ IF Survivors(d) = {} THEN End(d, "idle")
               ELSE Goto(d, "begin") /\ UNCHANGED <<gate, pass, prior, lease, sending>>
    /\ UNCHANGED <<expired, joined, evst, auth, open, up, faults, delivered>>
FinalReconcile(d) ==
    /\ pc[d] = "final"
    /\ todo[d] = {}
    /\ IF ~Holds(d, "CLAIMED")
       THEN End(d, "idle") /\ UNCHANGED <<env, read, holder>>
       ELSE /\ Reconcile(d)
            /\ IF Survivors(d) = {} THEN End(d, "idle")
               ELSE /\ Goto(d, IF Survivors(d) = batch[d] THEN "begin" ELSE "drop")
                    /\ UNCHANGED <<gate, pass, prior, lease, sending>>
    /\ UNCHANGED <<expired, joined, evst, auth, open, up, faults, delivered>>

CanBegin(d) == Holds(d, "CLAIMED") /\ d \notin expired /\ AllIncluded(env.members)

\* begin_envelope_send, from final_check or from _finish_digest_without_send.
\* Where the commit's outcome is lost, _reconcile_cancelled_digest_claim aborts.
BeginSend(d) ==
    /\ pc[d] \in {"begin", "drop", "failed"}
    /\ CanBegin(d)
    /\ Write("SENDING", env.members, env.att + 1, FALSE)
    /\ Project("SENDING")
    /\ \/ /\ Goto(d, CASE pc[d] = "begin"  -> "claimed"
                       [] pc[d] = "drop"   -> "dropped"
                       [] pc[d] = "failed" -> "failing")
          /\ UNCHANGED faults
       \/ pc[d] # "failed" /\ Goto(d, "abort") /\ Fault
    /\ UNCHANGED <<holder, expired, joined, auth, open, gate, up, pass, prior,
                   lease, sending, delivered>>

\* It answers None: the claim stays until it expires.  A shrunk envelope is
\* still dispatched again.
BeginRefused(d) ==
    /\ pc[d] \in {"begin", "drop", "failed"}
    /\ ~CanBegin(d)
    /\ IF pc[d] = "drop" /\ round[d] < Rebuilds
       THEN /\ Goto(d, "claim")
            /\ LeaveGate(d)
            /\ UNCHANGED <<pass, prior, lease, sending>>
       ELSE End(d, "idle")
    /\ UNCHANGED <<table, expired, auth, open, up, faults, delivered>>

\* After begin_envelope_send nothing is awaited: the claim's and the Grants'
\* deadlines, the admission check, the schedule of the sender.
Permit(d) ==
    /\ pc[d] = "claimed"
    /\ \/ /\ d \notin expired
          /\ \A m \in batch[d] : auth[m] # "expired"
          /\ lease[d]
          /\ Goto(d, "queued")
          /\ LeaveGate(d)
       \/ /\ d \notin expired
          /\ \E m \in batch[d] : auth[m] = "expired"
          /\ Goto(d, "dropped")
          /\ UNCHANGED gate
       \/ /\ d \in expired \/ (~lease[d] /\ \A m \in batch[d] : auth[m] # "expired")
          /\ Goto(d, "abort")
          /\ UNCHANGED gate
    /\ UNCHANGED <<table, expired, auth, open, up, faults, pass, prior, lease,
                   sending, delivered>>

(***************************************************************************)
(* The sender task.                                                        *)
(***************************************************************************)

\* is_current_for_send, in the same proof as the members' eligibility.
CurrentForSend(d) ==
    Holds(d, "SENDING") /\ d \notin expired /\ AllIncluded(env.members)

StartIo(d) ==
    /\ pc[d] = "queued"
    /\ gate = Nobody
    /\ gate' = d
    /\ \/ /\ lease[d]
          /\ \A m \in batch[d] : Eligible(m) /\ m \in prior[d]
          /\ CurrentForSend(d)
          /\ ~stop[d]
          /\ Goto(d, "io")
       \/ Goto(d, "abort")
    /\ UNCHANGED <<table, expired, auth, open, up, faults, pass, prior, lease,
                   sending, delivered>>

\* The child's first instruction, then MessagePort.send is entered.
IoEnter_NoDeadline(d) ==
    /\ pc[d] = "io"
    /\ IF lease[d] /\ ~stop[d]
       THEN Goto(d, "inflight") /\ LeaveGate(d)
       ELSE Goto(d, "abort") /\ UNCHANGED gate
    /\ UNCHANGED <<table, expired, auth, open, up, faults, pass, prior, lease,
                   sending, delivered>>
IoEnter(d) ==
    /\ pc[d] = "io"
    /\ IF /\ lease[d]
          /\ ~stop[d]
          /\ d \notin expired
          /\ \A m \in batch[d] : auth[m] # "expired"
       THEN Goto(d, "inflight") /\ LeaveGate(d)
       ELSE Goto(d, "abort") /\ UNCHANGED gate
    /\ UNCHANGED <<table, expired, auth, open, up, faults, pass, prior, lease,
                   sending, delivered>>

HostReturns(d) ==
    /\ pc[d] = "inflight"
    /\ \E r \in MessageStatus, sent \in {0, 1} :
          /\ r = "ACCEPTED" => sent = 1
          /\ r = "FAILED" => sent = 0
          /\ receipt' = [receipt EXCEPT ![d] = r]
          /\ delivered' = delivered + sent
    /\ Goto(d, "receipt")
    /\ UNCHANGED <<table, expired, world, pass, prior, lease, stop>>

StateOf_RetryUnknown(status) == IF status = "ACCEPTED" THEN "SENT" ELSE "FAILED"
StateOf(status) == IF status = "ACCEPTED" THEN "SENT" ELSE status

\* complete_envelope_send: the claim may have expired, but not been taken away.
Complete(d, st) ==
    IF Holds(d, "SENDING")
    THEN /\ \E r \in RetryPolicy : Write(st, env.members, env.att, st = "FAILED" /\ r)
         /\ Project(st)
         /\ holder' = Nobody
    ELSE UNCHANGED <<env, read, evst, holder>>

CommitReceipt(d) ==
    /\ pc[d] = "receipt"
    /\ Complete(d, StateOf(receipt[d]))
    /\ End(d, "idle")
    /\ UNCHANGED <<expired, joined, auth, open, up, faults, delivered>>

\* The second half of _finish_digest_without_send.
FailUnsent(d) ==
    /\ pc[d] = "failing"
    /\ Complete(d, "FAILED")
    /\ End(d, "idle")
    /\ UNCHANGED <<expired, joined, auth, open, up, faults, delivered>>

\* abort_envelope_send: the attempt is known not to have left, so the envelope
\* becomes READY again.
AbortSend_Projectless(d) ==
    IF Holds(d, "SENDING")
    THEN /\ Write("READY", env.members, env.att, FALSE)
         /\ holder' = Nobody
         /\ UNCHANGED evst
    ELSE UNCHANGED <<env, read, evst, holder>>
AbortSend(d) ==
    IF Holds(d, "SENDING")
    THEN /\ Write("READY", env.members, env.att, FALSE)
         /\ holder' = Nobody
         /\ Project("FAILED")
    ELSE UNCHANGED <<env, read, evst, holder>>

Abort(d) ==
    /\ pc[d] = "abort"
    /\ AbortSend(d)
    /\ End(d, "idle")
    /\ UNCHANGED <<expired, joined, auth, open, up, faults, delivered>>

\* The attempt that only releases the claim; then the next rebuild.
Rerender(d) ==
    /\ pc[d] = "dropped"
    /\ AbortSend(d)
    /\ IF round[d] < Rebuilds
       THEN /\ Goto(d, "claim")
            /\ LeaveGate(d)
            /\ UNCHANGED <<pass, prior, lease, sending>>
       ELSE End(d, "idle")
    /\ UNCHANGED <<expired, joined, auth, open, up, faults, delivered>>

(***************************************************************************)
(* Cancellation, timeouts, storage errors, crashes.                        *)
(***************************************************************************)

\* The dispatch is cancelled, or a repository call raises, with nothing in
\* flight: the claim stays until it expires.  Errors inside the approval are
\* caught; the others leave dispatch_digest.
CancelDispatch(d) ==
    /\ pc[d] \in BeforeSend
    /\ Fault
    /\ \/ End(d, "idle")
       \/ pc[d] \notin {"approve", "final", "begin", "drop"} /\ End(d, "raised")
    /\ UNCHANGED <<table, expired, auth, open, up, delivered>>

\* Lifecycle cancels the scope-owned sender before MessagePort is entered.
CancelSender(d) ==
    /\ pc[d] \in {"queued", "io"}
    /\ Goto(d, "abort")
    /\ UNCHANGED <<table, expired, world, pass, prior, lease, sending, delivered>>

\* The waiter's send timeout sets state["stop"].
StopSend(d) ==
    /\ pc[d] \in {"queued", "io"}
    /\ ~stop[d]
    /\ stop' = [stop EXCEPT ![d] = TRUE]
    /\ UNCHANGED <<table, expired, world, pc, pass, prior, lease, receipt, delivered>>

\* The write that should have settled the attempt raises.
SettleFails(d) ==
    /\ pc[d] \in {"receipt", "abort", "dropped", "failing"}
    /\ Fault
    /\ End(d, IF pc[d] = "failing" THEN "raised" ELSE "idle")
    /\ UNCHANGED <<table, expired, auth, open, up, delivered>>

\* The clock passes claim_expires_at.
ExpireClaim(d) ==
    /\ holder = d
    /\ d \notin expired
    /\ expired' = expired \cup {d}
    /\ UNCHANGED <<table, world, pc, pass, prior, lease, sending, delivered>>

\* The envelope part of recover_expired_envelope_claims.
Released_Requeue == "READY"
Released == IF env.st = "CLAIMED" THEN "READY" ELSE "UNKNOWN"

\* dispatch_due_digests recovers expired claims before each scan.
RecoverExpired ==
    /\ up
    /\ \E d \in Dispatchers : pc[d] = "idle"
    /\ holder \in expired
    /\ env.st \in {"CLAIMED", "SENDING"}
    /\ Write(Released, env.members, env.att, FALSE)
    /\ holder' = Nobody
    /\ UNCHANGED <<expired, joined, evst, world, pc, pass, prior, lease, sending,
                   delivered>>

\* A Host call in flight may or may not have delivered.
Crash ==
    /\ up
    /\ Fault
    /\ up' = FALSE
    /\ gate' = Nobody
    /\ \E sent \in {0, 1} :
          /\ sent = 1 => \E d \in Dispatchers : pc[d] = "inflight"
          /\ delivered' = delivered + sent
    /\ pc' = [d \in Dispatchers |-> IF pc[d] = "absent" THEN "absent" ELSE "idle"]
    /\ round' = [d \in Dispatchers |-> 0]
    /\ todo' = [d \in Dispatchers |-> {}]
    /\ ok' = [d \in Dispatchers |-> {}]
    /\ prior' = [d \in Dispatchers |-> {}]
    /\ batch' = [d \in Dispatchers |-> {}]
    /\ lease' = [d \in Dispatchers |-> FALSE]
    /\ stop' = [d \in Dispatchers |-> FALSE]
    /\ receipt' = [d \in Dispatchers |-> "UNKNOWN"]
    /\ read' = {}
    /\ UNCHANGED <<env, holder, expired, joined, evst, auth, open>>

\* recover_startup: recover_stale_sending for the events, then the envelopes
\* with restart=True, expired or not.
Restart ==
    /\ ~up
    /\ up' = TRUE
    /\ evst' = [m \in Members |-> IF evst[m] = "SENDING" THEN "UNKNOWN" ELSE evst[m]]
    /\ IF env.st \in {"CLAIMED", "SENDING"}
       THEN Write(Released, env.members, env.att, FALSE) /\ holder' = Nobody
       ELSE UNCHANGED <<env, read, holder>>
    /\ UNCHANGED <<expired, joined, auth, open, gate, faults, pc, pass, prior,
                   lease, sending, delivered>>

(***************************************************************************)
(* Commands.  Those that hold the mutation gate need it free.              *)
(***************************************************************************)

CancelSubscription(m) ==
    /\ up
    /\ gate = Nobody
    /\ auth[m] # "cancelled"
    /\ auth' = [auth EXCEPT ![m] = "cancelled"]
    /\ UNCHANGED <<table, expired, open, gate, up, faults, pc, pass, prior, lease,
                   sending, delivered>>

\* A configuration update moves the fence the event was stamped with.
MoveFence(m) ==
    /\ up
    /\ gate = Nobody
    /\ evst[m] # "NONE"
    /\ auth[m] \in {"live", "expired"}
    /\ auth' = [auth EXCEPT ![m] = IF @ = "live" THEN "fenced" ELSE "cancelled"]
    /\ UNCHANGED <<table, expired, open, gate, up, faults, pc, pass, prior, lease,
                   sending, delivered>>

\* revoke_grant_with_invalidation: the subscription is cancelled and the member
\* is pruned from an envelope that is not in flight, whose claim is taken away.
RevokeGrant(m) ==
    /\ up
    /\ gate = Nobody
    /\ m \in Granted /\ ~env.public
    /\ auth[m] # "cancelled" \/ m \in joined
    /\ auth' = [auth EXCEPT ![m] = "cancelled"]
    /\ IF env.st \in {"READY", "CLAIMED", "FAILED"} /\ m \in env.members
       THEN LET left == env.members \ {m} IN
            /\ Write(IF left = {} THEN "CANCELLED"
                     ELSE IF env.st = "CLAIMED" THEN "READY" ELSE env.st,
                     left, env.att, env.retry /\ left # {})
            /\ holder' = Nobody
       ELSE UNCHANGED <<env, read, holder>>
    /\ joined' = IF env.st \in {"NONE", "READY", "CLAIMED", "FAILED"}
                   THEN joined \ {m} ELSE joined
    /\ UNCHANGED <<expired, evst, open, gate, up, faults, pc, pass, prior, lease,
                   sending, delivered>>

\* The clock passes the Grant's expires_at.
ExpireGrant(m) ==
    /\ m \in Granted /\ ~env.public
    /\ auth[m] \in {"live", "fenced"}
    /\ auth' = [auth EXCEPT ![m] = IF @ = "live" THEN "expired" ELSE "cancelled"]
    /\ UNCHANGED <<table, expired, open, gate, up, faults, pc, pass, prior, lease,
                   sending, delivered>>

\* Closing invalidates the epoch of every lease and of every earlier check.
CloseModule ==
    /\ up
    /\ open
    /\ open' = FALSE
    /\ lease' = [d \in Dispatchers |-> FALSE]
    /\ prior' = [d \in Dispatchers |-> {}]
    /\ UNCHANGED <<table, expired, auth, gate, up, faults, pc, pass, sending,
                   delivered>>

OpenModule ==
    /\ up
    /\ ~open
    /\ gate = Nobody
    /\ open' = TRUE
    /\ UNCHANGED <<table, expired, auth, gate, up, faults, pc, pass, prior, lease,
                   sending, delivered>>

\* Nothing is due.
Rest ==
    /\ up
    /\ \A d \in Dispatchers : pc[d] \in {"idle", "raised", "absent"}
    /\ UNCHANGED vars

Advance(d) ==
    \/ Reopen(d) \/ Claim(d) \/ FirstReconcile(d) \/ Render(d)
    \/ SecondReconcile(d) \/ Approve(d) \/ FinalReconcile(d) \/ BeginSend(d)
    \/ BeginRefused(d) \/ Permit(d) \/ StartIo(d) \/ IoEnter(d) \/ HostReturns(d)
    \/ CommitReceipt(d) \/ FailUnsent(d) \/ Abort(d) \/ Rerender(d)
    \/ \E m \in Members : CheckMember(d, m) \/ RecheckMember(d, m)

Disturb(d) ==
    CancelDispatch(d) \/ CancelSender(d) \/ StopSend(d) \/ SettleFails(d)

Command(m) ==
    CancelSubscription(m) \/ MoveFence(m) \/ RevokeGrant(m) \/ ExpireGrant(m)

Next ==
    \/ \E m \in Members : Contribute(m) \/ Command(m)
    \/ \E d \in Dispatchers : Begin(d) \/ Advance(d) \/ Disturb(d) \/ ExpireClaim(d)
    \/ RecoverExpired
    \/ CloseModule \/ OpenModule
    \/ Crash \/ Restart
    \/ Rest

Spec == Init /\ [][Next]_vars

\* Coroutines that can run do run, asyncio.Lock is fair, time passes, the
\* process is started again, and a live pump keeps recovering.
Fairness ==
    /\ \A d \in Dispatchers : SF_vars(Advance(d)) /\ WF_vars(ExpireClaim(d))
    /\ WF_vars(RecoverExpired)
    /\ WF_vars(Restart)

FairSpec == Spec /\ Fairness

(***************************************************************************)
(* Properties.                                                             *)
(***************************************************************************)

\* One envelope is one message: rebuilds, retries, expired claims that are
\* taken over and restarts never deliver it twice.
OneMessage == delivered <= 1

\* An envelope that some dispatcher can still pick up was not delivered, and
\* one that counts as SENT was.
RequeuedIsUnsent ==
    /\ env.st \in {"NONE", "READY", "CLAIMED", "FAILED"} => delivered = 0
    /\ env.st = "SENT" => delivered = 1

\* When the Host is entered, the rendered payload describes exactly the
\* members of the envelope, each of them is still authorized, the module is
\* open, and the claim is the sender's own.
EntersWithCurrentContent ==
    [][\A d \in Dispatchers :
         pc[d] # "inflight" /\ pc'[d] = "inflight" =>
             /\ open
             /\ Holds(d, "SENDING")
             /\ batch[d] = env.members
             /\ \A m \in batch[d] : auth[m] = "live"]_vars

\* The membership is sealed by the first claim: it only shrinks afterwards.
MembershipSealed == [][env.st # "NONE" => env'.members \subseteq env.members]_vars

\* _project_public_attempt "exposes aggregate in-flight/known-unsent states
\* on every original key": the member events follow the envelope.  One path does
\* not project, recover_expired_envelope_claims: an UNKNOWN aggregate may have
\* members that are SENDING until the next restart.
MembersFollow ==
    env.public => \A m \in env.members :
        /\ env.st \in {"SENT", "FAILED"} => evst[m] = env.st
        /\ env.st \in {"READY", "CLAIMED"} => evst[m] \in {"PENDING", "FAILED"}
        /\ env.st = "SENDING" /\ up => evst[m] = "SENDING"
        /\ env.st = "UNKNOWN" => evst[m] \in {"UNKNOWN", "SENDING"}

\* One digest is one message, never requeued once it may have been delivered,
\* and the member events of a public aggregate follow it.
DigestIsSafe == TypeOK /\ OneMessage /\ RequeuedIsUnsent /\ MembersFollow

\* No step of dispatch_digest enters the Host with content or authority that
\* is no longer current, and none adds a member to a sealed digest.
DigestStepsAreCurrent == EntersWithCurrentContent /\ MembershipSealed
=============================================================================
