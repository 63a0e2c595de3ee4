----------------------------- MODULE ToolCalls -----------------------------
(***************************************************************************)
(* A module's tool in the chat host's tool list, the requests it is scoped *)
(* into and the model's calls of it: AstrBotToolPublisher, the message     *)
(* receipts of _AstrBotMessageIngress, and the runtime's entries for it.   *)
(* One module with one aggregate tool; the host owns the list, the request *)
(* and the event objects and may change any of them at every await.        *)
(***************************************************************************)
EXTENDS Naturals, FiniteSets

CONSTANTS
    Calls,           \* tool calls in flight
    Events,          \* message events of the host
    MaxEpochs,       \* bound on the module's epochs
    MaxEdits         \* bound on the host's edits of one event

ASSUME ToolAssumption ==
    /\ IsFiniteSet(Calls) /\ IsFiniteSet(Events)
    /\ MaxEpochs \in Nat \ {0} /\ MaxEdits \in Nat

Epochs == 1..MaxEpochs

VARIABLES
    toolEpoch,    \* registry: the module's epoch
    toolActive,   \* registry: the module is enabled and active
    toolFence,    \* the runtime stopped (_closing, publisher closed)
    handles,      \* epoch -> "none", "open" or "revoked": ToolHandle
    listed,       \* epochs whose tool is in the host's func_list
    foreign,      \* another plugin's tool has the same name
    publishError, \* AstrBotToolPublisher.failure is not None
    edits,        \* event -> how often the host changed its facts or text
    receipts,     \* event -> [state, rev]: "none", "open" or "closed"
    request,      \* ProviderRequest: [pc, tools, proposed, edited]
    call          \* call -> coroutine

toolVars == <<toolEpoch, toolActive, toolFence, handles, listed, foreign, publishError,
              edits, receipts, request, call>>
registry == <<toolEpoch, toolActive, toolFence>>
published == <<handles, listed, foreign, publishError>>
asked == <<request, call>>

NoReceipt == [state |-> "none", rev |-> 0]
NoRequest == [pc |-> "idle", tools |-> {}, proposed |-> {}, edited |-> FALSE]
NoCall == [pc |-> "idle", epoch |-> 0, event |-> "none", rev |-> 0]

ToolInit ==
    /\ toolEpoch = 1 /\ toolActive = TRUE /\ toolFence = FALSE
    /\ handles = [e \in Epochs |-> "none"]
    /\ listed = {} /\ foreign = FALSE /\ publishError = TRUE
    /\ edits = [e \in Events |-> 0]
    /\ receipts = [e \in Events |-> NoReceipt]
    /\ request = NoRequest
    /\ call = [c \in Calls |-> NoCall]

-----------------------------------------------------------------------------
\* Publication.

\* _current: this publisher's handle, of the module's epoch, alone under its
\* name in the host's list.
CurrentHandle(e) ==
    /\ ~toolFence /\ handles[e] = "open"
    /\ toolActive /\ toolEpoch = e
    /\ e \in listed /\ ~foreign /\ listed \subseteq {e}

\* cleanup: the tools of revoked handles leave the list; the host may hold on
\* to one.
CleanedUp(hs, kept) == [e \in Epochs |-> IF hs[e] = "revoked" /\ ~kept THEN "none" ELSE hs[e]]
Remaining(hs, kept) == {e \in listed : hs[e] # "revoked" \/ kept}

\* publish, against the registry as it is now (ep, on): handles that are not
\* current are revoked and cleaned up, then the module's tool is added unless
\* its name is taken or the host does not retain it.
RevokeStale_KeepsOld(ep, on) == handles

RevokeStale(ep, on) ==
    [e \in Epochs |->
        IF handles[e] = "open" /\ ~(on /\ e = ep /\ e \in listed /\ ~foreign /\ listed \subseteq {e})
        THEN "revoked" ELSE handles[e]]

Publish(ep, on, kept, retained) ==
    LET stale == RevokeStale(ep, on)
        hs == CleanedUp(stale, kept)
        ls == Remaining(stale, kept)
        wanted == on /\ hs[ep] # "open"
        free == ~foreign /\ ls = {}
        failed == (kept /\ \E e \in Epochs : stale[e] = "revoked") \/ (wanted /\ ~(free /\ retained))
    IN  /\ handles' = IF ~failed /\ wanted THEN [hs EXCEPT ![ep] = "open"] ELSE hs
        /\ listed' = IF ~failed /\ wanted THEN ls \cup {ep} ELSE ls
        /\ publishError' = failed
        /\ UNCHANGED foreign

\* The registry's observers run in the step that changed it (_changed).
RegistryChanges(ep, on, kept, retained) ==
    /\ ~toolFence
    /\ ep \in {toolEpoch, toolEpoch + 1} \cap Epochs
    /\ ep # toolEpoch \/ on # toolActive
    /\ toolEpoch' = ep /\ toolActive' = on
    /\ Publish(ep, on, kept, retained)
    /\ UNCHANGED <<toolFence, edits, receipts, asked>>

\* _external_packages_changed, and a later publication of the runtime.
Republish(kept, retained) ==
    /\ ~toolFence
    /\ Publish(toolEpoch, toolActive, kept, retained)
    /\ UNCHANGED <<registry, edits, receipts, asked>>

\* retire_owner: an external owner goes away.
RetireOwner(kept) ==
    LET hs == [e \in Epochs |-> IF handles[e] = "open" THEN "revoked" ELSE handles[e]] IN
    /\ ~toolFence /\ \E e \in Epochs : handles[e] # "none"
    /\ handles' = CleanedUp(hs, kept)
    /\ listed' = Remaining(hs, kept)
    /\ publishError' = TRUE
    /\ UNCHANGED <<registry, foreign, edits, receipts, asked>>

\* terminate: revoke; the receipts are closed and cleared.
FenceTools ==
    /\ ~toolFence
    /\ toolFence' = TRUE
    /\ handles' = [e \in Epochs |-> IF handles[e] = "open" THEN "revoked" ELSE handles[e]]
    /\ receipts' = [e \in Events |-> NoReceipt]
    /\ UNCHANGED <<toolEpoch, toolActive, listed, foreign, publishError, edits, asked>>

\* The host: another plugin takes or frees the name.
ForeignTool ==
    /\ foreign' = ~foreign
    /\ UNCHANGED <<registry, handles, listed, publishError, edits, receipts, asked>>

\* The host edits an event in place.
EditEvent(v) ==
    /\ edits[v] < MaxEdits
    /\ edits' = [edits EXCEPT ![v] = @ + 1]
    /\ UNCHANGED <<registry, published, receipts, asked>>

\* _prune: a receipt expires, or its event is collected.
PruneReceipt(v, collected) ==
    /\ receipts[v].state # "none"
    /\ receipts' = [receipts EXCEPT ![v] = IF collected THEN NoReceipt ELSE [@ EXCEPT !.state = "closed"]]
    /\ receipts' # receipts
    /\ UNCHANGED <<registry, published, edits, asked>>

-----------------------------------------------------------------------------
\* Message receipts.

ClosedReceipt(v) == receipts' = [receipts EXCEPT ![v].state = "closed"]

\* capture: the event's receipt, or a new one while there is room among the
\* 128 records of all events.
Captured(v) ==
    \/ receipts[v].state = "open" /\ receipts[v].rev = edits[v] /\ UNCHANGED receipts
    \/ /\ receipts[v].state = "none" /\ ~toolFence
       /\ receipts' = [receipts EXCEPT ![v] = [state |-> "open", rev |-> edits[v]]]

\* A closed receipt stays closed, and a changed event closes its receipt.
NotCaptured(v) ==
    \/ receipts[v].state = "open" /\ receipts[v].rev # edits[v] /\ ClosedReceipt(v)
    \/ receipts[v].state \in {"none", "closed"} /\ UNCHANGED receipts

\* current: the receipt made for this call still lives, its tool handle is
\* still owned and the event still reads the same.
MessageCurrent_Unread(c) ==
    receipts[call[c].event].state = "open" /\ handles[call[c].epoch] = "open" /\ ~toolFence

MessageCurrent(c) ==
    LET v == call[c].event IN
    /\ receipts[v] = [state |-> "open", rev |-> call[c].rev]
    /\ edits[v] = call[c].rev
    /\ handles[call[c].epoch] = "open" /\ ~toolFence

-----------------------------------------------------------------------------
\* Calls of the aggregate tool.

CallGoes(c, pc) == call' = [call EXCEPT ![c].pc = pc]
CallEnds(c) == call' = [call EXCEPT ![c] = NoCall]

\* _call_aggregate, _tool: the host's event and context, the parameters, and
\* a handle that is current; the deactivated names are awaited.
CallEnters(c, e, v) ==
    /\ call[c].pc = "idle"
    /\ CurrentHandle(e)
    /\ call' = [call EXCEPT ![c].pc = "inactive", ![c].epoch = e, ![c].event = v]
    /\ UNCHANGED <<registry, published, edits, receipts, request>>

\* The host's list of deactivated tools, then its permission check.
CallInactive(c, refused) ==
    /\ call[c].pc = "inactive"
    /\ IF refused THEN CallEnds(c) ELSE CallGoes(c, "permission")
    /\ UNCHANGED <<registry, published, edits, receipts, request>>

\* require_current_context, then invoke_tool up to its await: scoped_current,
\* make and validate the ingress.
CallPermitted(c, allowed) ==
    LET v == call[c].event IN
    /\ call[c].pc = "permission"
    /\ IF allowed /\ CurrentHandle(call[c].epoch)
       THEN \/ /\ Captured(v)
               /\ call' = [call EXCEPT ![c].pc = "core", ![c].rev = edits[v]]
            \/ NotCaptured(v) /\ CallEnds(c)
       ELSE CallEnds(c) /\ UNCHANGED receipts
    /\ UNCHANGED <<registry, published, edits, request>>

\* _tool: a tool that is not aggregated asks for no further policy.
PlainCallEnters(c, e, v) ==
    /\ call[c].pc = "idle"
    /\ CurrentHandle(e)
    /\ \/ /\ Captured(v)
          /\ call' = [call EXCEPT ![c] = [pc |-> "plain", epoch |-> e, event |-> v, rev |-> edits[v]]]
       \/ NotCaptured(v) /\ UNCHANGED call
    /\ UNCHANGED <<registry, published, edits, request>>

PlainCoreAnswers(c) ==
    /\ call[c].pc = "plain"
    /\ CallGoes(c, "answer")
    /\ UNCHANGED <<registry, published, edits, receipts, request>>

\* core.invoke_tool returned or raised HostIngressUnavailable.
CoreAnswers(c) ==
    /\ call[c].pc = "core"
    /\ CallGoes(c, "final")
    /\ UNCHANGED <<registry, published, edits, receipts, request>>

\* final_policy_check: the handle, the deactivated names (await), the handle.
FinalPolicy(c, refused) ==
    /\ call[c].pc = "final"
    /\ IF CurrentHandle(call[c].epoch) /\ ~refused THEN CallGoes(c, "answer") ELSE CallEnds(c)
    /\ UNCHANGED <<registry, published, edits, receipts, request>>

\* After the last await: the handle once more, the message, and the answer.
CallAnswers(c) ==
    LET v == call[c].event IN
    /\ call[c].pc = "answer"
    /\ IF CurrentHandle(call[c].epoch) /\ MessageCurrent(c)
       THEN CallGoes(c, "answered") /\ UNCHANGED receipts
       ELSE /\ CallEnds(c)
            /\ IF receipts[v].state = "open" THEN ClosedReceipt(v) ELSE UNCHANGED receipts
    /\ UNCHANGED <<registry, published, edits, request>>

CallReturned(c) ==
    /\ call[c].pc = "answered"
    /\ CallEnds(c)
    /\ UNCHANGED <<registry, published, edits, receipts, request>>

-----------------------------------------------------------------------------
\* Commands.

\* handle_event: the ingress keeps what the event says now; the command runs.
CommandEnters(c, v) ==
    /\ call[c].pc = "idle" /\ ~toolFence
    /\ call' = [call EXCEPT ![c] = [pc |-> "command", epoch |-> 0, event |-> v, rev |-> edits[v]]]
    /\ UNCHANGED <<registry, published, edits, receipts, request>>

\* _command_current: ready, and the event still validates.
CommandCurrent(c) == ~toolFence /\ edits[call[c].event] = call[c].rev

\* The core could not take the command: the user is told so only if the
\* message is still the one that asked.
CommandEnds(c, unavailable) ==
    /\ call[c].pc = "command"
    /\ IF unavailable /\ CommandCurrent(c) THEN CallGoes(c, "answered") ELSE CallEnds(c)
    /\ UNCHANGED <<registry, published, edits, receipts, request>>

-----------------------------------------------------------------------------
\* scope_request: one request of the host, its tools "parent" (ours, raw),
\* "scoped" (ours, for this event), "handoff" (a subagent of the host) and
\* "clone" (that subagent with our tools scoped).

\* _sanitize_tool_set runs before the first await: our raw and scoped tools
\* go, and a clone becomes the handoff it was made of.
Sanitized(tools) ==
    (tools \cap {"handoff"}) \cup (IF "clone" \in tools THEN {"handoff"} ELSE {})

ScopeEnters(tools) ==
    /\ request.pc = "idle" /\ ~toolFence
    /\ request' = [pc |-> "scoping", tools |-> Sanitized(tools), proposed |-> Sanitized(tools),
                   edited |-> FALSE]
    /\ UNCHANGED <<registry, published, edits, receipts, call>>

\* The host changes the request during an await.
HostEditsRequest(tools) ==
    /\ request.pc \in {"scoping", "persona"} /\ tools # request.tools
    /\ request' = [request EXCEPT !.tools = tools, !.edited = TRUE]
    /\ UNCHANGED <<registry, published, edits, receipts, call>>

\* _scope_handoffs: a handoff whose agent names one of our tools is replaced
\* by a clone whose tools are chosen when the agent runs.
ScopeHandoffs(projected) ==
    /\ request.pc = "scoping"
    /\ request' = [request EXCEPT !.pc = "persona",
          !.proposed = IF projected /\ "handoff" \in @ THEN {"clone"} ELSE @]
    /\ UNCHANGED <<registry, published, edits, receipts, call>>

\* _subagent_assigned_tools, _inactive_tool_names or _scope_handoffs raised:
\* the request keeps what the sanitizer left, or what the host put there.
ScopeRefused ==
    /\ request.pc = "scoping"
    /\ request' = [request EXCEPT !.pc = "refused"]
    /\ UNCHANGED <<registry, published, edits, receipts, call>>

\* The persona's tools were read; the scoped tool is proposed if the handle is
\* exposed and some of its actions are allowed.  A request the host touched
\* meanwhile is sanitized again and refused.
UnchangedRequest_Assumed == TRUE
UnchangedRequest == ~request.edited

ScopeFinishes(allowed, e) ==
    LET scoped == IF allowed /\ CurrentHandle(e) THEN {"scoped"} ELSE {} IN
    /\ request.pc = "persona"
    /\ request' = IF UnchangedRequest
                  THEN [request EXCEPT !.pc = "done", !.tools = request.proposed \cup scoped]
                  ELSE [request EXCEPT !.pc = "refused", !.tools = Sanitized(request.tools)]
    /\ UNCHANGED <<registry, published, edits, receipts, call>>

\* The model runs with the request, or the host drops it.
RequestEnds ==
    /\ request.pc \in {"done", "refused"}
    /\ request' = NoRequest
    /\ UNCHANGED <<registry, published, edits, receipts, call>>

ToolNext ==
    \/ \E kept, retained \in BOOLEAN :
          \/ \E ep \in Epochs, on \in BOOLEAN : RegistryChanges(ep, on, kept, retained)
          \/ Republish(kept, retained)
    \/ \E kept \in BOOLEAN : RetireOwner(kept)
    \/ FenceTools \/ ForeignTool
    \/ \E v \in Events : EditEvent(v) \/ \E collected \in BOOLEAN : PruneReceipt(v, collected)
    \/ \E c \in Calls :
          \/ \E e \in Epochs, v \in Events : CallEnters(c, e, v)
          \/ \E a \in BOOLEAN : CallInactive(c, a) \/ CallPermitted(c, a) \/ FinalPolicy(c, a)
          \/ CoreAnswers(c) \/ CallAnswers(c) \/ CallReturned(c)
          \/ PlainCoreAnswers(c)
          \/ \E v \in Events : CommandEnters(c, v) \/ \E e \in Epochs : PlainCallEnters(c, e, v)
          \/ \E unavailable \in BOOLEAN : CommandEnds(c, unavailable)
    \/ \E tools \in SUBSET {"parent", "handoff"} : ScopeEnters(tools) \/ HostEditsRequest(tools)
    \/ ScopeEnters({"parent", "clone"})
    \/ \E projected \in BOOLEAN : ScopeHandoffs(projected)
    \/ \E allowed \in BOOLEAN, e \in Epochs : ScopeFinishes(allowed, e)
    \/ ScopeRefused \/ RequestEnds

ToolSpec == ToolInit /\ [][ToolNext]_toolVars

-----------------------------------------------------------------------------
\* A handle that is neither revoked nor marked by a failed publication is of
\* the module's current epoch: whatever the registry and the host did, an old
\* epoch's tool is not left callable in the host's list.
NoStaleTool ==
    \A e \in Epochs : handles[e] = "open" =>
        e \in listed /\ e = toolEpoch /\ toolActive /\ ~toolFence

\* The model receives a result only for the message it asked about, read the
\* same as when the call captured it, from the epoch of the module that was
\* called and while the runtime still serves; a user is answered only for a
\* message that has not changed either.
AnswerIsCurrent ==
    \A c \in Calls : (call[c].pc # "answered" /\ call'[c].pc = "answered") =>
          /\ ~toolFence
          /\ edits[call[c].event] = call[c].rev
          /\ call[c].pc = "answer" =>
                /\ toolActive /\ toolEpoch = call[c].epoch
                /\ receipts[call[c].event] = [state |-> "open", rev |-> call[c].rev]

\* A change the host made to the request while it was being scoped is never
\* overwritten, and a finished request never carries our unscoped tool.
HostEditSurvives ==
    request.pc = "done" => ~request.edited /\ "parent" \notin request.tools
=============================================================================
