----------------------------- MODULE RootOutput -----------------------------
(***************************************************************************)
(* The answer to one root invocation: OutputService.route and the durable  *)
(* claim (SQLiteRootOutputRepository) that makes a host send happen at     *)
(* most once, the approval inside Admission, the send task owned by the    *)
(* module's scope, the generated images it carries, and the recovery of    *)
(* claims a dead process left behind.                                      *)
(*                                                                         *)
(* Several calls of route for the same invocation may be in flight.  An    *)
(* action is what runs between two awaits; a storage call is one step that *)
(* may raise, before or after its commit.                                  *)
(***************************************************************************)
EXTENDS Naturals, FiniteSets

CONSTANTS
    RouteCalls, \* calls of route for the invocation
    Routes,     \* routes, a subset of AllRoutes
    Payloads,   \* what a call may render (an analysis may differ per call)
    MaxRouteFaults \* bound on storage errors, cancellations and crashes

AllRoutes == {"text", "png", "collage", "granted", "tool", "subscription"}
Nobody == "nobody"

ASSUME RouteAssumption == IsFiniteSet(RouteCalls) /\ Nobody \notin RouteCalls
                          /\ Routes \subseteq AllRoutes
ASSUME RouteBounds == MaxRouteFaults \in Nat

VARIABLES
    kind,     \* the route of the invocation
    row,      \* its row of b04_root_outputs
    claimGen, \* b04_root_output_generation
    routing,  \* call -> the coroutine of route
    send,     \* call -> the send task it scheduled
    image,    \* call -> its entry in the GeneratedPngCoordinator
    routeLock, \* the per-invocation lock of _serialized_invocation
    current,  \* issuer, registry and admission still accept the invocation
    routeGrant, \* its grant (or owner proof) is current
    event,    \* the delivery event is in the database
    host,     \* dispatches: each what the host made of it
    up,       \* the process: "up", "down" or "again" (restarted)
    routeFaults

routeVars == <<kind, row, claimGen, routing, send, image, routeLock, current, routeGrant,
               event, host, up, routeFaults>>

Command == kind \in {"text", "png", "collage", "granted"}
Private == kind \in {"granted", "subscription"}

NoClaim == [state |-> "none", owner |-> Nobody, gen |-> 0, live |-> FALSE,
          fp |-> Nobody, outcome |-> "none", grant |-> TRUE]
NoRouting == [pc |-> "idle", fp |-> Nobody, gen |-> 0, told |-> "none"]
NoImage == [carried |-> FALSE, on |-> FALSE, retired |-> FALSE, pin |-> FALSE]

Finished(c) == routing[c].pc \in {"idle", "over"}

RouteInit ==
    /\ kind \in Routes
    /\ row = NoClaim
    /\ claimGen = 0
    /\ routing = [c \in RouteCalls |-> NoRouting]
    /\ send = [c \in RouteCalls |-> "none"]
    /\ image = [c \in RouteCalls |-> NoImage]
    /\ routeLock = Nobody
    /\ current = TRUE
    /\ routeGrant = TRUE
    /\ event = FALSE
    /\ host = {}
    /\ up = "up"
    /\ routeFaults = 0

(***************************************************************************)
(* The repository: what each transaction makes of the row.                 *)
(***************************************************************************)

ClaimTerminal == row.state \in {"completed", "unknown"}

\* claim of a fresh row, and of one whose CLAIMED lease has expired.
Inserted(c, fp) ==
    [NoClaim EXCEPT !.state = "claimed", !.owner = c, !.gen = claimGen + 1,
                  !.live = TRUE, !.fp = fp]
Retaken(c) == [row EXCEPT !.owner = c, !.gen = claimGen + 1, !.live = TRUE]
Interrupted == [row EXCEPT !.state = "unknown"]

\* The row after claim(c, fp): terminal and live rows are returned as they
\* are, an expired SENDING row becomes UNKNOWN, an expired CLAIMED row changes
\* hands.
Conflict(fp) == row.state # "none" /\ row.fp # fp
NewGeneration == row.state = "none" \/ (row.state = "claimed" /\ ~row.live)
\* An expired SENDING row is handed to a second sender.
ClaimRow_Resends(c, fp) ==
    IF row.state = "none" THEN Inserted(c, fp)
    ELSE IF Conflict(fp) \/ ClaimTerminal \/ row.live THEN row
    ELSE [Retaken(c) EXCEPT !.state = "claimed"]
ClaimRow(c, fp) ==
    IF row.state = "none" THEN Inserted(c, fp)
    ELSE IF Conflict(fp) \/ ClaimTerminal \/ row.live THEN row
    ELSE IF row.state = "sending" THEN Interrupted
    ELSE Retaken(c)

\* The compare-and-set every later transaction of a claim performs.
Owns(c, state) == row.state = state /\ row.owner = c /\ row.gen = routing[c].gen

MayBegin(c) == Owns(c, "claimed") /\ row.live
Begun == [row EXCEPT !.state = "sending", !.live = TRUE, !.grant = routeGrant]
Completed(outcome) == [row EXCEPT !.state = "completed", !.outcome = outcome]

\* complete(..., CONTROLLED_RESULT) from CLAIMED; abort_before_dispatch from
\* SENDING, which nobody has written a receipt for.
Controlled(c) == IF Owns(c, "claimed") THEN Completed("controlled") ELSE row
AbortBeforeDispatch(c) ==
    IF Owns(c, "sending") THEN Completed("controlled") ELSE row
\* _persist_root_receipt: the receipt is lost when recovery was faster.
Receipted(c, receipt) ==
    IF Owns(c, "sending") THEN Completed(receipt) ELSE row

(***************************************************************************)
(* The generated image of a call.                                          *)
(***************************************************************************)

\* _drop: a retired entry without a pin leaves the coordinator.
Drop(i) == IF i.retired /\ ~i.pin THEN [i EXCEPT !.on = FALSE] ELSE i
Retire(i) == IF i.on THEN Drop([i EXCEPT !.retired = TRUE]) ELSE i
ReleasePin(i) == IF i.on THEN Drop([i EXCEPT !.pin = FALSE]) ELSE i

\* _lease / _check: the pin may still be used.
LeaseOf(c) == image[c].on /\ image[c].pin /\ ~image[c].retired /\ current
MayPin(c) == image[c].on /\ ~image[c].retired /\ ~image[c].pin /\ current

\* _release_collage_image: pins first, then the contexts.
ReleaseCollage(i) == Retire(ReleasePin(i))

\* The collage is released with the call although the task still sends it.
Finally_Always(c, transferred) ==
    IF kind = "png" THEN Retire(image[c]) ELSE ReleaseCollage(image[c])

\* What _command's finally clause leaves of the image: a PNG context is always
\* retired, a collage unless the send task took it over.
Finally(c, transferred) ==
    CASE kind = "png" -> Retire(image[c])
      [] kind = "collage" /\ ~transferred -> ReleaseCollage(image[c])
      [] OTHER -> image[c]
(***************************************************************************)
(* Steps common to the routes.                                             *)
(***************************************************************************)

At(c, pc) == up = "up" /\ routing[c].pc = pc
MoveTo(c, pc) == routing' = [routing EXCEPT ![c].pc = pc]

\* An early return that forgets the lock.
RouteReturns_KeepsLock(c, told, transferred) ==
    /\ routing' = [routing EXCEPT ![c].pc = "over", ![c].told = told]
    /\ image' = [image EXCEPT ![c] = Finally(c, transferred)]
    /\ UNCHANGED routeLock

\* route returns: the lock is left, the image released unless handed over.
RouteReturns(c, told, transferred) ==
    /\ routing' = [routing EXCEPT ![c].pc = "over", ![c].told = told]
    /\ routeLock' = IF routeLock = c THEN Nobody ELSE routeLock
    /\ image' = [image EXCEPT ![c] = Finally(c, transferred)]

RouteFault == routeFaults < MaxRouteFaults /\ routeFaults' = routeFaults + 1
NoRouteFault == UNCHANGED routeFaults

\* _replay: what an earlier outcome says to a later call.
Replay ==
    CASE row.state = "unknown" -> "unknown"
      [] row.state = "sending" -> "in_progress"
      [] row.outcome = "accepted" -> "sent"
      [] row.outcome = "unknown" -> "unknown"
      [] row.outcome = "tool" -> "tool"
      [] row.outcome = "enqueued" -> "enqueued"
      [] OTHER -> "failed"

\* route: the view, its module and its lease are checked before any route.
RouteCalled(c) ==
    /\ At(c, "idle")
    /\ IF current THEN /\ MoveTo(c, IF Command THEN "wait" ELSE "read")
                       /\ UNCHANGED <<routeLock, image>>
       ELSE RouteReturns(c, "failed", FALSE)
    /\ UNCHANGED <<kind, row, claimGen, send, current, routeGrant, event, host, up,
                   routeFaults>>

Enter(c) ==
    /\ At(c, "wait")
    /\ routeLock = Nobody
    /\ routeLock' = c
    /\ MoveTo(c, "read")
    /\ UNCHANGED <<kind, row, claimGen, send, image, current, routeGrant, event, host,
                   up, routeFaults>>

\* The authority each route reads, before its claim and again after it.
CheckResultAuthority == current /\ (kind = "granted" => routeGrant)
ProjectPublicTool == current
SubscriptionRecord == current /\ routeGrant
Authorized ==
    CASE kind = "tool" -> ProjectPublicTool
      [] kind = "subscription" -> SubscriptionRecord
      [] OTHER -> CheckResultAuthority

\* bind and register of a bitmap.  The pages of a collage are pinned at once, by
\* _prepare_collage_image; a PNG is pinned by the send task.
Registered(pinned) ==
    [carried |-> TRUE, on |-> TRUE, retired |-> FALSE, pin |-> pinned]
RenderCollage == {NoImage, Registered(TRUE)}
\* _render: the image may always be left out (no card, budget, missing decoder).
Rendered ==
    CASE kind = "collage" -> RenderCollage
      [] kind = "png" -> {NoImage, Registered(FALSE)}
      [] OTHER -> {NoImage}

\* _command_output up to its fingerprint: authority, target, analysis, render
\* and image.  Without authority, or when rendering fails, the call only
\* records a controlled result, under a fingerprint of its own; an image that
\* cannot be registered falls back to text.
Render(c) ==
    /\ At(c, "read")
    /\ \/ /\ Authorized
          /\ \E p \in Payloads :
                routing' = [routing EXCEPT ![c].pc = "claim", ![c].fp = p]
          /\ \E i \in Rendered : image' = [image EXCEPT ![c] = i]
          /\ UNCHANGED routeLock
       \/ /\ routing' = [routing EXCEPT ![c].pc = "claim", ![c].fp = Nobody]
          /\ kind # "subscription"
          /\ UNCHANGED <<image, routeLock>>
       \/ kind = "subscription" /\ ~Authorized /\ RouteReturns(c, "failed", FALSE)
    /\ UNCHANGED <<kind, row, claimGen, send, current, routeGrant, event, host, up,
                   routeFaults>>

\* What follows a claim that is this call's own.
AfterClaim(c) ==
    IF routing[c].fp = Nobody THEN "refuse"
    ELSE IF Command THEN "validate" ELSE "again"

\* _claim and _replay.  Another owner's claim is IN_PROGRESS; a terminal row is
\* replayed, a tool's only after its facts were projected once more.
Claim(c) ==
    /\ At(c, "claim")
    /\ LET new == ClaimRow(c, routing[c].fp)
           mine == new.state = "claimed" /\ new.owner = c
       IN
       \/ /\ NoRouteFault
          /\ ~Conflict(routing[c].fp)
          /\ row' = new
          /\ claimGen' = IF NewGeneration THEN claimGen + 1 ELSE claimGen
          /\ IF mine
             THEN /\ routing' = [routing EXCEPT ![c].pc = AfterClaim(c),
                                          ![c].gen = new.gen]
                  /\ UNCHANGED <<routeLock, image>>
             ELSE RouteReturns(c, IF new.state \in {"claimed", "sending"} THEN "in_progress"
                            ELSE IF kind = "tool" /\ ~Authorized THEN "failed"
                            ELSE IF new = row THEN Replay ELSE "unknown", FALSE)
       \/ /\ NoRouteFault
          /\ Conflict(routing[c].fp)
          /\ RouteReturns(c, "failed", FALSE)
          /\ UNCHANGED <<row, claimGen>>
       \/ /\ RouteFault
          /\ \/ UNCHANGED <<row, claimGen>>
             \/ /\ NewGeneration /\ ~Conflict(routing[c].fp)
                /\ row' = new
                /\ claimGen' = claimGen + 1
          /\ RouteReturns(c, "failed", FALSE)
    /\ UNCHANGED <<kind, send, current, routeGrant, event, host, up>>

\* _complete_controlled_claim.
Refuse(c) ==
    /\ At(c, "refuse")
    /\ \/ /\ NoRouteFault
          /\ row' = Controlled(c)
          /\ RouteReturns(c, IF Owns(c, "claimed") THEN "failed" ELSE "pending", FALSE)
       \/ RouteFault /\ row' \in {row, Controlled(c)} /\ RouteReturns(c, "failed", FALSE)
    /\ UNCHANGED <<kind, claimGen, send, current, routeGrant, event, host, up>>

(***************************************************************************)
(* The command route: approve_and_schedule_send and its final_check.       *)
(***************************************************************************)

\* Admission's first check and _validate_command_current.
Validate(c) ==
    /\ At(c, "validate")
    /\ MoveTo(c, IF Authorized THEN "begin" ELSE "refuse")
    /\ UNCHANGED <<kind, row, claimGen, send, image, routeLock, current, routeGrant,
                   event, host, up, routeFaults>>

\* begin_sending: the durable CLAIMED -> SENDING transition.
BeginSending(c) ==
    /\ At(c, "begin")
    /\ \/ /\ NoRouteFault
          /\ IF MayBegin(c)
             THEN /\ row' = Begun
                  /\ MoveTo(c, "reread")
                  /\ UNCHANGED <<routeLock, image>>
             ELSE row' = row /\ RouteReturns(c, "in_progress", FALSE)
       \/ /\ RouteFault
          /\ row' \in {row} \cup (IF MayBegin(c) THEN {Begun} ELSE {})
          /\ MoveTo(c, "reconcile")
          /\ UNCHANGED <<routeLock, image>>
    /\ UNCHANGED <<kind, claimGen, send, current, routeGrant, event, host, up>>

\* _reconcile_cancelled_root_claim: claim is called again with the same owner
\* token; only the exact generation is closed.
Reconcile(c) ==
    /\ At(c, "reconcile")
    /\ \/ /\ NoRouteFault
          /\ row' = IF ~row.live /\ ~ClaimTerminal THEN ClaimRow(c, routing[c].fp)
                    ELSE IF Owns(c, "sending") THEN AbortBeforeDispatch(c)
                    ELSE Controlled(c)
          /\ claimGen' = IF NewGeneration THEN claimGen + 1 ELSE claimGen
       \/ RouteFault /\ UNCHANGED <<row, claimGen>>
    /\ RouteReturns(c, "failed", FALSE)
    /\ UNCHANGED <<kind, send, current, routeGrant, event, host, up>>

\* The approval of final_check before SENDING is trusted.
MaySchedule_Stale(c) == current /\ row.live

\* The reads after SENDING, Admission's synchronous check and the task's start
\* in the module's scope: grant and owner proof are read again, and the lease
\* of the claim must not have run out.
MaySchedule(c) == Authorized /\ row.live
Schedule(c) ==
    /\ At(c, "reread")
    /\ \/ /\ MaySchedule(c)
          /\ send' = [send EXCEPT ![c] = "scheduled"]
          /\ MoveTo(c, "await")
       \/ /\ ~MaySchedule(c)
          /\ MoveTo(c, "abort")
          /\ UNCHANGED send
    /\ UNCHANGED <<kind, row, claimGen, image, routeLock, current, routeGrant, event,
                   host, up, routeFaults>>

\* abort_before_dispatch under _drain_cleanup: its errors are swallowed.
Abort(c) ==
    /\ At(c, "abort")
    /\ \/ NoRouteFault /\ row' = AbortBeforeDispatch(c)
       \/ RouteFault /\ UNCHANGED row
    /\ RouteReturns(c, "failed", FALSE)
    /\ UNCHANGED <<kind, claimGen, send, current, routeGrant, event, host, up>>

(***************************************************************************)
(* The send task.                                                          *)
(***************************************************************************)

Sending(c, state) == up = "up" /\ send[c] = state

\* pin and read_once of a PNG: a second authority check, then the bytes.
PinImage(c) ==
    /\ Sending(c, "scheduled")
    /\ kind = "png" /\ MayPin(c)
    /\ image' = [image EXCEPT ![c].pin = TRUE]
    /\ UNCHANGED <<kind, row, claimGen, routing, send, routeLock, current, routeGrant,
                   event, host, up, routeFaults>>

\* The last synchronous fence of each sender: a prepared collage and a pinned
\* PNG must still be leased, a public command still be current (_send_command);
\* the message port of a granted command has no fence of its own.
MayDispatch(c) ==
    CASE image[c].carried -> LeaseOf(c) /\ (kind = "collage" => row.live)
      [] kind = "granted" -> TRUE
      [] OTHER -> current

Dispatch(c) ==
    /\ Sending(c, "scheduled")
    /\ MayDispatch(c)
    /\ \E answer \in {"accepted", "failed", "unknown"} :
          /\ send' = [send EXCEPT ![c] = answer]
          /\ host' = host \cup {<<c, answer>>}
    /\ UNCHANGED <<kind, row, claimGen, routing, image, routeLock, current, routeGrant,
                   event, up, routeFaults>>

\* A fence that fails: a collage and a lost ingress give FAILED, any exception
\* UNKNOWN.
Withheld(c) ==
    /\ Sending(c, "scheduled")
    /\ ~MayDispatch(c) /\ ~(kind = "png" /\ MayPin(c))
    /\ send' = [send EXCEPT ![c] = IF kind = "collage" THEN "failed" ELSE "unknown"]
    /\ UNCHANGED <<kind, row, claimGen, routing, image, routeLock, current, routeGrant,
                   event, host, up, routeFaults>>

\* The end of the task: its pin is released (by the pin's context manager or by
\* the completion observer of a collage).
SendEnds(c) ==
    /\ send' = [send EXCEPT ![c] = "done"]
    /\ image' = [image EXCEPT ![c] = IF kind = "collage" THEN ReleaseCollage(@)
                                     ELSE ReleasePin(@)]
\* A send nobody knows the end of is reported as sent.
RootResult_LostIsSent(receipt) == IF receipt = "failed" THEN "failed" ELSE "sent"

\* _persist_root_receipt, then the caller's future.  The caller may be gone.
RootResult(receipt) ==
    CASE receipt = "accepted" -> "sent" [] receipt = "failed" -> "failed"
      [] OTHER -> "unknown"
\* completed.set_result, for a caller that still waits.
Resolve(c, told) ==
    routing' = IF routing[c].pc = "await" THEN [routing EXCEPT ![c].told = told] ELSE routing
Persist(c) ==
    /\ up = "up" /\ send[c] \in {"accepted", "failed", "unknown"}
    /\ \/ NoRouteFault /\ row' = Receipted(c, send[c])
       \/ RouteFault /\ row' \in {row, Receipted(c, send[c])}
    /\ SendEnds(c)
    /\ Resolve(c, RootResult(send[c]))
    /\ UNCHANGED <<kind, claimGen, routeLock, current, routeGrant, event, host, up>>

\* The module's scope cancels the task: before its first step nothing of it
\* runs, afterwards the receipt is UNKNOWN, whatever the host did.
CancelSend(c) ==
    /\ up = "up" /\ RouteFault
    /\ \/ /\ send[c] = "scheduled"
          /\ SendEnds(c)
          /\ UNCHANGED <<row, routing>>
       \/ /\ send[c] \in {"scheduled", "accepted", "failed", "unknown"}
          /\ row' = Receipted(c, "unknown")
          /\ SendEnds(c)
          /\ Resolve(c, "unknown")
    /\ UNCHANGED <<kind, claimGen, routeLock, current, routeGrant, event, host, up>>

Answered(c) ==
    /\ At(c, "await") /\ routing[c].told # "none"
    /\ RouteReturns(c, routing[c].told, TRUE)
    /\ UNCHANGED <<kind, row, claimGen, send, current, routeGrant, event, host, up,
                   routeFaults>>

\* wait_for(shield(completed), send_timeout): the task goes on.
SendTimeout(c) ==
    /\ At(c, "await") /\ routing[c].told = "none"
    /\ RouteReturns(c, "unknown", TRUE)
    /\ UNCHANGED <<kind, row, claimGen, send, current, routeGrant, event, host, up,
                   routeFaults>>

(***************************************************************************)
(* The tool and subscription routes after their claim.                     *)
(***************************************************************************)

\* The second projection (second _subscription_record).
Again(c) ==
    /\ At(c, "again")
    /\ MoveTo(c, IF ~Authorized THEN "refuse"
               ELSE IF kind = "tool" THEN "finish" ELSE "enqueue")
    /\ UNCHANGED <<kind, row, claimGen, send, image, routeLock, current, routeGrant,
                   event, host, up, routeFaults>>

\* current_event or create_event.  An error may hide a committed event, so the
\* claim stays CLAIMED for a retry.
Enqueue(c) ==
    /\ At(c, "enqueue")
    /\ \/ /\ NoRouteFault
          /\ event' = TRUE
          /\ MoveTo(c, "finish")
          /\ UNCHANGED <<routeLock, image>>
       \/ RouteFault /\ event' \in {event, TRUE} /\ RouteReturns(c, "in_progress", FALSE)
    /\ UNCHANGED <<kind, row, claimGen, send, current, routeGrant, host, up>>

Outcome == IF kind = "tool" THEN "tool" ELSE "enqueued"
Finish(c) ==
    /\ At(c, "finish")
    /\ \/ /\ NoRouteFault
          /\ row' = IF Owns(c, "claimed") THEN Completed(Outcome) ELSE row
          /\ IF ~Owns(c, "claimed") THEN RouteReturns(c, "in_progress", FALSE)
             ELSE IF kind = "tool" THEN MoveTo(c, "project") /\ UNCHANGED <<routeLock, image>>
             ELSE RouteReturns(c, "enqueued", FALSE)
       \/ /\ RouteFault
          /\ row' \in {row} \cup (IF Owns(c, "claimed") THEN {Completed(Outcome)}
                                  ELSE {})
          /\ RouteReturns(c, IF kind = "tool" THEN "failed" ELSE "in_progress", FALSE)
    /\ UNCHANGED <<kind, claimGen, send, current, routeGrant, event, host, up>>

\* Completion was awaited: the facts are projected a last time.
Project(c) ==
    /\ At(c, "project")
    /\ RouteReturns(c, IF Authorized THEN "tool" ELSE "failed", FALSE)
    /\ UNCHANGED <<kind, row, claimGen, send, current, routeGrant, event, host, up,
                   routeFaults>>

(***************************************************************************)
(* Cancellation, time, the environment, crash and restart.                 *)
(***************************************************************************)

\* The caller is cancelled.  Inside final_check the claim is reconciled (before
\* SENDING) or aborted (after it); elsewhere the call just ends, and a send that
\* is already scheduled goes on.
CancelRoute(c) ==
    /\ up = "up" /\ RouteFault
    /\ \/ /\ routing[c].pc \in {"validate", "begin"}
          /\ MoveTo(c, "reconcile")
          /\ UNCHANGED <<routeLock, image>>
       \/ /\ routing[c].pc = "reread"
          /\ MoveTo(c, "abort")
          /\ UNCHANGED <<routeLock, image>>
       \/ /\ routing[c].pc \in {"wait", "read", "claim", "refuse", "again", "enqueue",
                             "finish", "project", "await"}
          /\ RouteReturns(c, "cancelled", routing[c].pc = "await")
    /\ UNCHANGED <<kind, row, claimGen, send, current, routeGrant, event, host, up>>

LeaseExpires ==
    /\ row.live /\ ~ClaimTerminal
    /\ row' = [row EXCEPT !.live = FALSE]
    /\ UNCHANGED <<kind, claimGen, routing, send, image, routeLock, current, routeGrant,
                   event, host, up, routeFaults>>

\* The module closes, the deadline passes or the issuer releases the view.
InvocationEnds ==
    /\ up = "up" /\ current
    /\ current' = FALSE
    /\ image' = [c \in RouteCalls |-> Retire(image[c])]
    /\ UNCHANGED <<kind, row, claimGen, routing, send, routeLock, routeGrant, event,
                   host, up, routeFaults>>

GrantRevoked ==
    /\ Private /\ routeGrant
    /\ routeGrant' = FALSE
    /\ UNCHANGED <<kind, row, claimGen, routing, send, image, routeLock, current, event,
                   host, up, routeFaults>>

\* expire: the coordinator's timer retires an entry past its time to live.
ImageExpires(c) ==
    /\ up = "up" /\ image[c].on /\ ~image[c].retired
    /\ image' = [image EXCEPT ![c] = Retire(@)]
    /\ UNCHANGED <<kind, row, claimGen, routing, send, routeLock, current, routeGrant,
                   event, host, up, routeFaults>>

Crash ==
    /\ up = "up" /\ RouteFault
    /\ up' = "down"
    /\ routing' = [c \in RouteCalls |-> [routing[c] EXCEPT !.pc = "over",
                  !.told = IF routing[c].pc = "over" THEN @ ELSE "cancelled"]]
    /\ send' = [c \in RouteCalls |-> "none"]
    /\ image' = [c \in RouteCalls |-> NoImage]
    /\ routeLock' = Nobody
    /\ current' = FALSE
    /\ UNCHANGED <<kind, row, claimGen, routeGrant, event, host>>

\* recover_expired, once in CoreRuntime.start: only leases already run out.
RecoverExpired ==
    /\ up = "down"
    /\ up' = "again"
    /\ row' = IF row.state = "sending" /\ ~row.live THEN Interrupted ELSE row
    /\ UNCHANGED <<kind, claimGen, routing, send, image, routeLock, current, routeGrant,
                   event, host, routeFaults>>

CallStep(c) ==
    \/ Enter(c) \/ Render(c) \/ Claim(c) \/ Refuse(c) \/ Validate(c)
    \/ BeginSending(c) \/ Reconcile(c) \/ Schedule(c) \/ Abort(c)
    \/ Answered(c) \/ SendTimeout(c) \/ Again(c) \/ Enqueue(c) \/ Finish(c) \/ Project(c)

SendStep(c) == PinImage(c) \/ Dispatch(c) \/ Withheld(c) \/ Persist(c)

RouteNext ==
    \/ \E c \in RouteCalls :
          RouteCalled(c) \/ CallStep(c) \/ SendStep(c) \/ CancelSend(c) \/ CancelRoute(c)
          \/ ImageExpires(c)
    \/ LeaseExpires \/ InvocationEnds \/ GrantRevoked \/ Crash \/ RecoverExpired

(***************************************************************************)
(* Properties.                                                             *)
(***************************************************************************)

\* However often route is called for an invocation, across cancellations, lost
\* leases, expired claims and a restart, the host is asked to send at most once.
OneDispatch == Cardinality(host) <= 1

\* The durable outcome tells what happened: a controlled result means the host
\* was never asked, an accepted receipt that it accepted, an enqueued one that
\* the event is stored; and no call is told of a send, or of its failure, that
\* the host's answer contradicts.
OutcomeTellsTruth ==
    /\ row.outcome = "controlled" => host = {}
    /\ row.outcome = "accepted" => \E c \in RouteCalls : <<c, "accepted">> \in host
    /\ row.outcome = "enqueued" => event
    /\ \A c \in RouteCalls :
          /\ routing[c].told = "sent" => \E d \in RouteCalls : <<d, "accepted">> \in host
          /\ routing[c].told \in {"failed", "pending"} =>
                <<c, "accepted">> \notin host /\ <<c, "unknown">> \notin host

\* A private answer whose grant was revoked before the claim became SENDING is
\* never handed to the host: the grant is read again after that commit.
RevokedIsNotSent == (kind = "granted" /\ host # {}) => row.grant

\* A generated image is held only while its call or its send task can use it,
\* and a collage is not released under a task that may still send it.
ImageFollowsSend ==
    \A c \in RouteCalls :
       /\ (image[c].on /\ Finished(c)) => send[c] \notin {"none", "done"}
       /\ (kind = "collage" /\ image[c].carried /\ send[c] = "scheduled")
             => image[c].on

=============================================================================
