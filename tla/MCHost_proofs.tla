--------------------------- MODULE MCHost_proofs ---------------------------
(***************************************************************************)
(* Proofs about what the AstrBot host drives, for every value of the       *)
(* constants.  Each component has an inductive invariant and two lemmas,   *)
(* that its initial states satisfy the invariant and that its steps keep   *)
(* it; the theorems carry them over to MCSpec, the specification of the    *)
(* run, where one component moves and the others have no state.            *)
(***************************************************************************)
EXTENDS MCHost, SequenceTheorems, TLAPS

AllVars == <<entrance, hostVars, toolVars, pageVars, logsVars, packageVars>>

\* ToolCalls: an open handle is the listed one of the module's epoch, and
\* what scoping proposes never holds the unscoped tool.

RequestStates == [pc: {"idle", "scoping", "persona", "done", "refused"},
                  tools: SUBSET {"parent", "scoped", "handoff", "clone"},
                  proposed: SUBSET {"scoped", "handoff", "clone"}, edited: BOOLEAN]

ToolCallPcs == {"idle", "inactive", "permission", "core", "plain", "final", "answer", "answered", "command"}
ToolCallStates == {x \in [pc: ToolCallPcs, epoch: Epochs \cup {0}, event: Events \cup {"none"}, rev: Nat] :
                      x.pc = "idle" \/ x.event \in Events}

ToolsInv ==
    /\ edits \in [Events -> Nat] /\ call \in [Calls -> ToolCallStates]
    /\ toolActive \in BOOLEAN
    /\ handles \in [Epochs -> {"none", "open", "revoked"}]
    /\ listed \subseteq Epochs /\ toolEpoch \in Epochs
    /\ request \in RequestStates
    /\ NoStaleTool /\ HostEditSurvives

LEMMA ToolsInitInv == ToolInit => ToolsInv
BY ToolAssumption DEF ToolInit, ToolsInv, NoStaleTool, HostEditSurvives, NoRequest, RequestStates,
   NoCall, ToolCallStates, ToolCallPcs, Epochs

\* A publication leaves no handle open but the one of the epoch published.
LEMMA PublishKeeps ==
    ASSUME ToolsInv, ~toolFence, NEW ep \in Epochs, NEW on \in BOOLEAN,
           NEW kept \in BOOLEAN, NEW retained \in BOOLEAN, Publish(ep, on, kept, retained)
    PROVE  /\ handles' \in [Epochs -> {"none", "open", "revoked"}] /\ listed' \subseteq Epochs
           /\ \A e \in Epochs : handles'[e] = "open" => e \in listed' /\ e = ep /\ on
<1> DEFINE stale == RevokeStale(ep, on)
           hs == CleanedUp(stale, kept)
           ls == Remaining(stale, kept)
<1>1. handles \in [Epochs -> {"none", "open", "revoked"}] /\ listed \subseteq Epochs
  BY DEF ToolsInv
<1>2. stale \in [Epochs -> {"none", "open", "revoked"}]
  BY <1>1 DEF RevokeStale
<1>3. \A e \in Epochs : stale[e] = "open" => e \in listed /\ e = ep /\ on
  BY <1>1 DEF RevokeStale
<1> HIDE DEF stale
<1>4. hs \in [Epochs -> {"none", "open", "revoked"}] /\ ls \subseteq Epochs
  BY <1>1, <1>2 DEF CleanedUp, Remaining
<1>5. \A e \in Epochs : hs[e] = "open" => e \in ls /\ e = ep /\ on
  BY <1>2, <1>3 DEF CleanedUp, Remaining
<1> HIDE DEF hs, ls
<1>6. \/ handles' = hs /\ listed' = ls
      \/ handles' = [hs EXCEPT ![ep] = "open"] /\ listed' = ls \cup {ep} /\ on
  BY DEF Publish, stale, hs, ls
<1> QED BY <1>4, <1>5, <1>6

\* What does not touch the list keeps the invariant.
LEMMA CallKeeps ==
    ASSUME ToolsInv, UNCHANGED <<registry, published, request>>,
           edits' \in [Events -> Nat], call' \in [Calls -> ToolCallStates]
    PROVE  ToolsInv'
BY DEF ToolsInv, registry, published, NoStaleTool, HostEditSurvives

\* Handles that are revoked or gone, whoever is listed.
LEMMA RevokedKeeps ==
    ASSUME ToolsInv, handles' \in [Epochs -> {"none", "open", "revoked"}], listed' \subseteq Epochs,
           \A e \in Epochs : handles'[e] # "open", toolEpoch' \in Epochs, toolActive' \in BOOLEAN,
           UNCHANGED <<edits, asked>>
    PROVE  ToolsInv'
BY DEF ToolsInv, NoStaleTool, HostEditSurvives, asked

LEMMA ToolsStep == ToolsInv /\ [ToolNext]_toolVars => ToolsInv'
<1> SUFFICES ASSUME ToolsInv, [ToolNext]_toolVars PROVE ToolsInv'
  OBVIOUS
<1>1. ASSUME NEW kept \in BOOLEAN, NEW retained \in BOOLEAN, NEW ep \in Epochs, NEW on \in BOOLEAN,
             RegistryChanges(ep, on, kept, retained)
      PROVE  ToolsInv'
  <2>1. /\ ~toolFence /\ toolEpoch' = ep /\ toolActive' = on /\ UNCHANGED <<toolFence, edits, request, call>>
        /\ Publish(ep, on, kept, retained)
    BY <1>1 DEF RegistryChanges, asked
  <2> QED BY <2>1, PublishKeeps DEF ToolsInv, NoStaleTool, HostEditSurvives
<1>2. ASSUME NEW kept \in BOOLEAN, NEW retained \in BOOLEAN, Republish(kept, retained)
      PROVE  ToolsInv'
  <2>1. /\ ~toolFence /\ UNCHANGED <<toolEpoch, toolActive, toolFence, edits, request, call>>
        /\ Publish(toolEpoch, toolActive, kept, retained)
    BY <1>2 DEF Republish, asked, registry
  <2>2. toolEpoch \in Epochs /\ toolActive \in BOOLEAN
    BY DEF ToolsInv
  <2> QED BY <2>1, <2>2, PublishKeeps DEF ToolsInv, NoStaleTool, HostEditSurvives
<1>3. ASSUME NEW kept \in BOOLEAN, RetireOwner(kept)
      PROVE  ToolsInv'
  <2>1. /\ handles \in [Epochs -> {"none", "open", "revoked"}] /\ listed \subseteq Epochs
        /\ toolEpoch \in Epochs /\ toolActive \in BOOLEAN
    BY DEF ToolsInv
  <2> DEFINE hs == [e \in Epochs |-> IF handles[e] = "open" THEN "revoked" ELSE handles[e]]
  <2>2. hs \in [Epochs -> {"none", "revoked"}]
    BY <2>1
  <2>3. /\ handles' = CleanedUp(hs, kept) /\ listed' = Remaining(hs, kept)
        /\ UNCHANGED <<toolEpoch, toolActive, edits, asked>>
    BY <1>3 DEF RetireOwner, registry, asked
  <2> HIDE DEF hs
  <2>4. handles' \in [Epochs -> {"none", "revoked"}] /\ listed' \subseteq Epochs
    BY <2>1, <2>2, <2>3 DEF CleanedUp, Remaining
  <2> QED BY <2>1, <2>3, <2>4, RevokedKeeps
<1>4. CASE FenceTools
  <2>1. /\ handles' = [e \in Epochs |-> IF handles[e] = "open" THEN "revoked" ELSE handles[e]]
        /\ UNCHANGED <<toolEpoch, toolActive, listed, edits, asked>>
    BY <1>4 DEF FenceTools
  <2>2. handles' \in [Epochs -> {"none", "revoked"}] /\ listed' \subseteq Epochs
        /\ toolEpoch' \in Epochs /\ toolActive' \in BOOLEAN
    BY <2>1 DEF ToolsInv
  <2> QED BY <2>1, <2>2, RevokedKeeps
<1>5. CASE ForeignTool
  BY <1>5 DEF ForeignTool, registry, asked, ToolsInv, NoStaleTool, HostEditSurvives
<1>6. CASE \E v \in Events : EditEvent(v) \/ \E collected \in BOOLEAN : PruneReceipt(v, collected)
  <2>1. edits' \in [Events -> Nat] /\ UNCHANGED <<registry, published, asked>>
    BY <1>6 DEF EditEvent, PruneReceipt, ToolsInv
  <2> QED BY <2>1, CallKeeps DEF asked, ToolsInv
<1>7. ASSUME NEW c \in Calls,
             \/ \E e \in Epochs, v \in Events : CallEnters(c, e, v)
             \/ \E a \in BOOLEAN : CallInactive(c, a) \/ CallPermitted(c, a) \/ FinalPolicy(c, a)
             \/ CoreAnswers(c) \/ CallAnswers(c) \/ CallReturned(c)
             \/ PlainCoreAnswers(c)
             \/ \E v \in Events : CommandEnters(c, v) \/ \E e \in Epochs : PlainCallEnters(c, e, v)
             \/ \E unavailable \in BOOLEAN : CommandEnds(c, unavailable)
      PROVE  ToolsInv'
  <2>1. UNCHANGED <<registry, published, edits, request>>
    BY <1>7 DEF CallEnters, CallInactive, CallPermitted, FinalPolicy, CoreAnswers, CallAnswers,
       CallReturned, PlainCoreAnswers, CommandEnters, PlainCallEnters, CommandEnds
  <2>2. call \in [Calls -> ToolCallStates] /\ edits \in [Events -> Nat]
    BY DEF ToolsInv
  <2>3. call' \in [Calls -> ToolCallStates]
    <3>1. ASSUME NEW v \in Events,
                 CommandEnters(c, v) \/ \E e \in Epochs : CallEnters(c, e, v) \/ PlainCallEnters(c, e, v)
          PROVE  call' \in [Calls -> ToolCallStates]
      <4>1. edits[v] \in Nat
        BY <2>2
      <4>2. ASSUME NEW e \in Epochs, CallEnters(c, e, v)
            PROVE  call' \in [Calls -> ToolCallStates]
        <5> DEFINE x == [call[c] EXCEPT !.pc = "inactive", !.epoch = e, !.event = v]
        <5>1. x \in ToolCallStates
          BY <2>2 DEF ToolCallStates, ToolCallPcs
        <5>2. call' = [call EXCEPT ![c] = x]
          BY <4>2 DEF CallEnters
        <5> HIDE DEF x
        <5> QED BY <2>2, <5>1, <5>2
      <4>3. ASSUME NEW e \in Epochs, PlainCallEnters(c, e, v)
            PROVE  call' \in [Calls -> ToolCallStates]
        <5> DEFINE x == [pc |-> "plain", epoch |-> e, event |-> v, rev |-> edits[v]]
        <5>1. x \in ToolCallStates
          BY <4>1 DEF ToolCallStates, ToolCallPcs
        <5>2. call' = [call EXCEPT ![c] = x] \/ call' = call
          BY <4>3 DEF PlainCallEnters
        <5> QED BY <2>2, <5>1, <5>2
      <4>4. CASE CommandEnters(c, v)
        BY <4>1, <4>4, <2>2 DEF CommandEnters, ToolCallStates, ToolCallPcs
      <4> QED BY <3>1, <4>2, <4>3, <4>4
    <3>2. CASE CoreAnswers(c) \/ CallAnswers(c) \/ CallReturned(c) \/ PlainCoreAnswers(c)
      <4>1. \/ call' = [call EXCEPT ![c] = NoCall]
            \/ call[c].pc # "idle" /\ \E pc \in {"final", "answer", "answered"} : call' = [call EXCEPT ![c].pc = pc]
        BY <3>2 DEF CoreAnswers, CallAnswers, CallReturned, PlainCoreAnswers, CallGoes, CallEnds
      <4> QED BY <4>1, <2>2 DEF NoCall, ToolCallStates, ToolCallPcs
    <3>3. ASSUME NEW a \in BOOLEAN, CallPermitted(c, a)
          PROVE  call' \in [Calls -> ToolCallStates]
      <4>1. CASE call' = [call EXCEPT ![c].pc = "core", ![c].rev = edits[call[c].event]] /\ Captured(call[c].event)
        <5> DEFINE x == [call[c] EXCEPT !.pc = "core", !.rev = edits[call[c].event]]
        <5>1. call[c].event \in Events
          BY <3>3, <2>2 DEF CallPermitted, ToolCallStates
        <5>2. edits[call[c].event] \in Nat
          BY <2>2, <5>1
        <5>3. x \in ToolCallStates
          BY <2>2, <5>1, <5>2 DEF ToolCallStates, ToolCallPcs
        <5>4. call' = [call EXCEPT ![c] = x]
          BY <4>1
        <5> HIDE DEF x
        <5> QED BY <2>2, <5>3, <5>4
      <4>2. CASE CallEnds(c)
        BY <4>2, <2>2 DEF CallEnds, NoCall, ToolCallStates, ToolCallPcs
      <4> QED BY <3>3, <4>1, <4>2 DEF CallPermitted
    <3>4. ASSUME NEW a \in BOOLEAN, CallInactive(c, a) \/ FinalPolicy(c, a) \/ CommandEnds(c, a)
          PROVE  call' \in [Calls -> ToolCallStates]
      <4>1. \/ call' = [call EXCEPT ![c] = NoCall]
            \/ call[c].pc # "idle" /\ \E pc \in {"permission", "answer", "answered"} :
                  call' = [call EXCEPT ![c].pc = pc]
        BY <3>4 DEF CallInactive, FinalPolicy, CommandEnds, CallGoes, CallEnds
      <4> QED BY <4>1, <2>2 DEF NoCall, ToolCallStates, ToolCallPcs
    <3> QED BY <1>7, <3>1, <3>2, <3>3, <3>4
  <2> QED BY <2>1, <2>2, <2>3, CallKeeps
<1>8. CASE \/ \E tools \in SUBSET {"parent", "handoff"} : ScopeEnters(tools) \/ HostEditsRequest(tools)
           \/ ScopeEnters({"parent", "clone"})
           \/ \E projected \in BOOLEAN : ScopeHandoffs(projected)
           \/ \E allowed \in BOOLEAN, e \in Epochs : ScopeFinishes(allowed, e)
           \/ ScopeRefused \/ RequestEnds
  <2>1. UNCHANGED <<toolEpoch, toolActive, toolFence, handles, listed, edits, call>>
    BY <1>8 DEF ScopeEnters, HostEditsRequest, ScopeHandoffs, ScopeFinishes, ScopeRefused, RequestEnds,
       registry, published
  <2>2. request' \in RequestStates /\ HostEditSurvives'
    <3>0. request \in RequestStates
      BY DEF ToolsInv
    <3>1. ASSUME NEW tools, tools \in SUBSET {"parent", "handoff"} \/ tools = {"parent", "clone"},
                 ScopeEnters(tools)
          PROVE  request' \in RequestStates /\ HostEditSurvives'
      BY <3>0, <3>1 DEF ScopeEnters, Sanitized, RequestStates, HostEditSurvives
    <3>2. ASSUME NEW tools \in SUBSET {"parent", "handoff"}, HostEditsRequest(tools)
          PROVE  request' \in RequestStates /\ HostEditSurvives'
      BY <3>0, <3>2 DEF HostEditsRequest, RequestStates, HostEditSurvives
    <3>4. ASSUME NEW projected \in BOOLEAN, ScopeHandoffs(projected)
          PROVE  request' \in RequestStates /\ HostEditSurvives'
      BY <3>0, <3>4 DEF ScopeHandoffs, RequestStates, HostEditSurvives
    <3>5. CASE ScopeRefused
      BY <3>0, <3>5 DEF ScopeRefused, RequestStates, HostEditSurvives
    <3>6. CASE RequestEnds
      BY <3>6 DEF RequestEnds, RequestStates, HostEditSurvives, NoRequest
    <3>3. ASSUME NEW allowed \in BOOLEAN, NEW e \in Epochs, ScopeFinishes(allowed, e)
          PROVE  request' \in RequestStates /\ HostEditSurvives'
      BY <3>0, <3>3 DEF ScopeFinishes, UnchangedRequest, Sanitized, RequestStates, HostEditSurvives
    <3> QED BY <1>8, <3>1, <3>2, <3>3, <3>4, <3>5, <3>6
  <2> QED BY <2>1, <2>2 DEF ToolsInv, NoStaleTool
<1>9. CASE UNCHANGED toolVars
  BY <1>9 DEF toolVars, ToolsInv, NoStaleTool, HostEditSurvives
<1> QED BY <1>1, <1>2, <1>3, <1>4, <1>5, <1>6, <1>7, <1>8, <1>9 DEF ToolNext

\* An answer is given only in CallAnswers and CommandEnds, after their checks.
LEMMA AnswersChecked == ASSUME ToolsInv, ToolNext PROVE AnswerIsCurrent
<1> SUFFICES ASSUME NEW c \in Calls, call[c].pc # "answered", call'[c].pc = "answered"
             PROVE  /\ ~toolFence
                    /\ edits[call[c].event] = call[c].rev
                    /\ call[c].pc = "answer" =>
                          /\ toolActive /\ toolEpoch = call[c].epoch
                          /\ receipts[call[c].event] = [state |-> "open", rev |-> call[c].rev]
  BY DEF AnswerIsCurrent
<1>1. call \in [Calls -> ToolCallStates]
  BY DEF ToolsInv
<1>2. PICK d \in Calls :
         \/ \E e \in Epochs, v \in Events : CallEnters(d, e, v)
         \/ \E a \in BOOLEAN : CallInactive(d, a) \/ CallPermitted(d, a) \/ FinalPolicy(d, a)
         \/ CoreAnswers(d) \/ CallAnswers(d) \/ CallReturned(d)
         \/ PlainCoreAnswers(d)
         \/ \E v \in Events : CommandEnters(d, v) \/ \E e \in Epochs : PlainCallEnters(d, e, v)
         \/ \E unavailable \in BOOLEAN : CommandEnds(d, unavailable)
  <2>1. call' # call
    OBVIOUS
  <2> QED
    BY <2>1 DEF ToolNext, RegistryChanges, Republish, RetireOwner, FenceTools, ForeignTool, EditEvent,
       PruneReceipt, ScopeEnters, HostEditsRequest, ScopeHandoffs, ScopeFinishes, ScopeRefused,
       RequestEnds, asked
<1>3. CASE \/ \E e \in Epochs, v \in Events : CallEnters(d, e, v)
           \/ \E a \in BOOLEAN : CallInactive(d, a) \/ CallPermitted(d, a) \/ FinalPolicy(d, a)
           \/ CoreAnswers(d) \/ CallReturned(d) \/ PlainCoreAnswers(d)
           \/ \E v \in Events : CommandEnters(d, v) \/ \E e \in Epochs : PlainCallEnters(d, e, v)
  <2>1. \/ call' = call
        \/ \E e \in Epochs, v \in Events : call' = [call EXCEPT ![d].pc = "inactive", ![d].epoch = e, ![d].event = v]
        \/ call' = [call EXCEPT ![d].pc = "core", ![d].rev = edits[call[d].event]]
        \/ \E pc \in {"permission", "answer", "final"} : call' = [call EXCEPT ![d].pc = pc]
        \/ \E x : call' = [call EXCEPT ![d] = x] /\ x.pc # "answered"
    <3>1. CASE \E v \in Events : CommandEnters(d, v) \/ \E e \in Epochs : PlainCallEnters(d, e, v)
      BY <3>1 DEF CommandEnters, PlainCallEnters
    <3>2. CASE \E a \in BOOLEAN : CallInactive(d, a) \/ CallPermitted(d, a) \/ FinalPolicy(d, a)
      BY <3>2 DEF CallInactive, CallPermitted, FinalPolicy, CallGoes, CallEnds, NoCall
    <3> QED
      BY <1>3, <3>1, <3>2 DEF CallEnters, CoreAnswers, CallReturned, PlainCoreAnswers, CallGoes, CallEnds, NoCall
  <2>3. \A x : call' = [call EXCEPT ![d] = x] => call'[c] = IF c = d THEN x ELSE call[c]
    BY <1>1
  <2>4. CASE \E x : call' = [call EXCEPT ![d] = x] /\ x.pc # "answered"
    BY <2>3, <2>4
  <2>5. CASE \E pc \in {"permission", "answer", "final"} : call' = [call EXCEPT ![d].pc = pc]
    BY <1>1, <2>5 DEF ToolCallStates
  <2>6. CASE call' = [call EXCEPT ![d].pc = "core", ![d].rev = edits[call[d].event]]
    BY <1>1, <2>6 DEF ToolCallStates
  <2>7. ASSUME NEW e \in Epochs, NEW v \in Events,
               call' = [call EXCEPT ![d].pc = "inactive", ![d].epoch = e, ![d].event = v]
        PROVE  FALSE
    BY <1>1, <2>7 DEF ToolCallStates
  <2> QED BY <2>1, <2>4, <2>5, <2>6, <2>7
<1>4. CASE CallAnswers(d)
  <2>1. CurrentHandle(call[d].epoch) /\ MessageCurrent(d) /\ d = c
    BY <1>1, <1>4 DEF CallAnswers, CallGoes, CallEnds, NoCall, ToolCallStates
  <2> QED BY <2>1 DEF CurrentHandle, MessageCurrent
<1>5. ASSUME NEW u \in BOOLEAN, CommandEnds(d, u)
      PROVE  ~toolFence /\ edits[call[c].event] = call[c].rev /\ call[c].pc = "command"
  BY <1>1, <1>5 DEF CommandEnds, CommandCurrent, CallGoes, CallEnds, NoCall, ToolCallStates
<1> QED BY <1>2, <1>3, <1>4, <1>5

\* The tools, for any calls, events, epochs and edits: no step leaves a tool of an old
\* epoch callable, overwrites an edit of the host, or answers for what has changed.
THEOREM ToolsCurrent == MCSpec => ToolsStayCurrent
<1> DEFINE Kept == entrance = "tools" => ToolsInv
           Current == entrance = "tools" => NoStaleTool' /\ HostEditSurvives' /\ AnswerIsCurrent
<1>1. MCInit => Kept
  BY ToolsInitInv DEF MCInit
<1>2. Kept /\ [MCNext]_AllVars => Kept'
  BY ToolsStep DEF MCNext, AllVars
<1>3. ASSUME Kept, MCNext, entrance = "tools"
      PROVE  NoStaleTool' /\ HostEditSurvives' /\ AnswerIsCurrent
  <2>1. ToolNext /\ ToolsInv
    BY <1>3 DEF MCNext
  <2>2. ToolsInv'
    BY <2>1, ToolsStep
  <2> QED BY <2>1, <2>2, AnswersChecked DEF ToolsInv
<1>4. Kept /\ [MCNext]_AllVars => [Current]_toolVars
  BY <1>3 DEF AllVars
<1> QED BY <1>1, <1>2, <1>4, PTL DEF MCSpec, ToolsStayCurrent, AllVars

\* HostLifecycle: one task is inside the lock; while a core is open it is
\* the runtime's and has the guard and the transport; and each place
\* inside knows what the step after it relies on.

OutsidePcs == {"idle", "fence", "enter", "stopping", "recover"}
ClosingPcs == {"close", "close_core", "close_rest"}
InsidePcs == ClosingPcs \cup {"reopen", "renew", "install", "build", "starting", "failed", "publish",
                              "stopped", "unpublished", "recovering", "unrecovered"}
ReturnPcs == {"reopen", "install", "stopped", "unpublished", "unrecovered"}
HostStates == [pc: OutsidePcs \cup InsidePcs, gen: Nat, ret: ReturnPcs \cup {"none"}, pending: BOOLEAN]

HostTyped ==
    /\ hostGeneration \in Nat /\ hostCore \in Nat
    /\ hostClosing \in BOOLEAN /\ hostReady \in BOOLEAN
    /\ hostQueue \in Seq(HostTasks)
    /\ host \in [HostTasks -> HostStates]

OneInside == \A t \in HostTasks : host[t].pc \in InsidePcs => Holds(t)

CoreOwned ==
    /\ openCores = IF hostCore = 0 THEN {} ELSE {hostCore}
    /\ hostCore # 0 => storageGuard = hostCore /\ hostTransport
    /\ blockedCore => hostCore # 0
    /\ blockedCore /\ ~hostClosing => configError /\ hostCore = hostGeneration

\* A task on its way to a new core: nothing of an old one is in the way.
Renewing(x) == x.pc \in {"install", "build"} \/ (x.pc \in ClosingPcs /\ x.ret = "install")

StepReady(x) ==
    /\ x.pc \in ClosingPcs => x.ret \in ReturnPcs
    /\ x.pc \in {"reopen", "stopped", "unpublished", "install", "build"} => hostCore = 0
    /\ x.pc \in {"close_core", "close_rest", "failed"} => ~hostReady
    /\ x.pc = "close_rest" /\ hostCore # 0 => x.pending
    /\ Renewing(x) => x.gen # 0 /\ ~configError
    /\ Renewing(x) \/ x.pc = "starting" => hostClosing \/ x.gen = hostGeneration
    /\ x.pc = "build" => storageGuard = x.gen /\ hostTransport
    /\ x.pc = "starting" => hostCore = x.gen /\ hostCore # 0 /\ ~blockedCore /\ ~configError
    /\ x.pc = "recovering" => blockedCore

ReadyCurrent ==
    hostReady => /\ ~hostClosing /\ ~blockedCore /\ ~configError
                 /\ hostCore = hostGeneration /\ hostCore # 0

ToolsRevoked ==
    hostReady /\ hostTools = "revoked" => \E t \in HostTasks : HostAt(t, "publish")

HostInv ==
    /\ HostTyped /\ OneInside /\ CoreOwned /\ ReadyCurrent /\ ToolsRevoked
    /\ \A t \in HostTasks : StepReady(host[t])

LEMMA HostInitInv == HostInit => HostInv
<1> SUFFICES ASSUME HostInit PROVE HostInv
  OBVIOUS
<1>1. \A t \in HostTasks : host[t] = NoHostTask
  BY DEF HostInit
<1>2. HostTyped
  BY EmptySeq DEF HostInit, HostTyped, NoHostTask, HostStates, OutsidePcs
<1>3. OneInside /\ \A t \in HostTasks : StepReady(host[t])
  BY <1>1 DEF OneInside, StepReady, Renewing, NoHostTask, InsidePcs, ClosingPcs
<1> QED BY <1>2, <1>3 DEF HostInit, HostInv, CoreOwned, ReadyCurrent, ToolsRevoked

\* Whoever has the lock is alone inside.
LEMMA Alone ==
    ASSUME HostInv, NEW t \in HostTasks, NEW u \in HostTasks, Holds(t), u # t
    PROVE  host[u].pc \in OutsidePcs
BY DEF HostInv, HostTyped, OneInside, Holds, HostStates

\* A step of the task that has the lock, which keeps it or leaves.
LEMMA HolderStep ==
    ASSUME HostInv, NEW t \in HostTasks, Holds(t), NEW x \in HostStates,
           host' = [host EXCEPT ![t] = x],
           hostQueue' = hostQueue \/ (hostQueue' = Tail(hostQueue) /\ x.pc \in OutsidePcs),
           hostGeneration' \in Nat, hostCore' \in Nat, hostClosing' \in BOOLEAN, hostReady' \in BOOLEAN,
           CoreOwned', ReadyCurrent',
           hostReady' /\ hostTools' = "revoked" => x.pc = "publish",
           StepReady(x)'
    PROVE  HostInv'
<1>1. /\ hostQueue \in Seq(HostTasks) /\ hostQueue # << >> /\ host \in [HostTasks -> HostStates]
      /\ Head(hostQueue) = t
  BY DEF HostInv, HostTyped, Holds
<1>2. HostTyped'
  <2>1. hostQueue' \in Seq(HostTasks)
    BY <1>1, HeadTailProperties
  <2> QED BY <1>1, <2>1 DEF HostTyped
<1>3. host'[t] = x /\ \A u \in HostTasks : u # t => host'[u].pc \in OutsidePcs
  BY <1>1, Alone
<1>4. \A u \in HostTasks : StepReady(host[u])'
  BY <1>3 DEF StepReady, Renewing, OutsidePcs, ClosingPcs
<1>5. OneInside'
  <2>1. SUFFICES ASSUME NEW u \in HostTasks, host'[u].pc \in InsidePcs PROVE Holds(u)'
    BY DEF OneInside
  <2>2. u = t /\ x.pc \notin OutsidePcs
    BY <1>3, <2>1 DEF InsidePcs, OutsidePcs, ClosingPcs
  <2> QED BY <1>1, <2>2 DEF Holds
<1>6. ToolsRevoked'
  BY <1>3 DEF ToolsRevoked, HostAt
<1> QED BY <1>2, <1>4, <1>5, <1>6 DEF HostInv

\* A task that waits for the lock, or is about to.
LEMMA OutsiderStep ==
    ASSUME HostInv, NEW t \in HostTasks, NEW x \in HostStates,
           host[t].pc \in OutsidePcs, x.pc \in OutsidePcs,
           host' = [host EXCEPT ![t] = x],
           hostQueue' \in {hostQueue, Append(hostQueue, t)},
           UNCHANGED <<configError, hostCore, openCores, blockedCore, storageGuard, hostTransport>>,
           \/ UNCHANGED <<hostGeneration, hostClosing, hostReady, hostTools>>
           \/ hostGeneration' \in Nat /\ hostClosing' /\ hostClosing' \in BOOLEAN /\ hostReady' = FALSE
    PROVE  HostInv'
<1>1. hostQueue \in Seq(HostTasks) /\ host \in [HostTasks -> HostStates]
  BY DEF HostInv, HostTyped
<1>2. hostQueue' \in Seq(HostTasks) /\ (hostQueue # << >> => hostQueue' # << >> /\ Head(hostQueue') = Head(hostQueue))
  BY <1>1
<1>3. HostTyped'
  BY <1>1, <1>2 DEF HostInv, HostTyped
<1>4. host'[t] = x /\ \A u \in HostTasks : u # t => host'[u] = host[u]
  BY <1>1
<1>5. OneInside'
  BY <1>2, <1>4 DEF HostInv, OneInside, Holds, InsidePcs, OutsidePcs, ClosingPcs
<1>6. CoreOwned' /\ ReadyCurrent'
  BY DEF HostInv, CoreOwned, ReadyCurrent
<1>7. ToolsRevoked'
  BY <1>4 DEF HostInv, ToolsRevoked, HostAt, OutsidePcs
<1>8. ASSUME NEW u \in HostTasks PROVE StepReady(host[u])'
  <2>1. CASE u = t
    BY <1>4, <2>1 DEF StepReady, Renewing, OutsidePcs, ClosingPcs
  <2>2. CASE u # t
    <3>1. StepReady(host[u])
      BY DEF HostInv
    <3> QED BY <1>4, <2>2, <3>1 DEF StepReady, Renewing
  <2> QED BY <2>1, <2>2
<1> QED BY <1>3, <1>5, <1>6, <1>7, <1>8 DEF HostInv

\* The task that has the lock leaves.
LEMMA LeaveStep ==
    ASSUME HostInv, NEW t \in HostTasks, Holds(t), HostLeaves(t),
           hostGeneration' \in Nat, hostCore' \in Nat, hostClosing' \in BOOLEAN, hostReady' \in BOOLEAN,
           CoreOwned', ReadyCurrent', ~(hostReady' /\ hostTools' = "revoked")
    PROVE  HostInv'
<1>1. host' = [host EXCEPT ![t] = NoHostTask] /\ hostQueue' = Tail(hostQueue)
  BY DEF HostLeaves
<1>2. NoHostTask \in HostStates /\ NoHostTask.pc = "idle"
  BY DEF NoHostTask, HostStates, OutsidePcs
<1>3. StepReady(NoHostTask)'
  BY DEF StepReady, Renewing, NoHostTask, ClosingPcs
<1> QED BY <1>1, <1>2, <1>3, HolderStep DEF OutsidePcs

LEMMA GoesTo ==
    ASSUME NEW t \in HostTasks, host[t] \in HostStates, NEW pc \in OutsidePcs \cup InsidePcs,
           HostGoes(t, pc)
    PROVE  \E x \in HostStates : /\ host' = [host EXCEPT ![t] = x] /\ UNCHANGED hostQueue
                                 /\ x.pc = pc /\ x.gen = host[t].gen /\ x.ret = host[t].ret
<1> DEFINE y == [host[t] EXCEPT !.pc = pc]
<1>1. y \in HostStates /\ y.pc = pc /\ y.gen = host[t].gen /\ y.ret = host[t].ret
  BY DEF HostStates
<1>2. host' = [host EXCEPT ![t] = y] /\ UNCHANGED hostQueue
  BY DEF HostGoes
<1> QED BY <1>1, <1>2

LEMMA GoesClosing ==
    ASSUME NEW t \in HostTasks, host[t] \in HostStates, NEW ret \in ReturnPcs, HostCalls(t, ret)
    PROVE  \E x \in HostStates : /\ host' = [host EXCEPT ![t] = x] /\ UNCHANGED hostQueue
                                 /\ x.pc = "close" /\ x.gen = host[t].gen /\ x.ret = ret
<1> DEFINE y == [host[t] EXCEPT !.pc = "close", !.ret = ret, !.pending = FALSE]
<1>1. y \in HostStates /\ y.pc = "close" /\ y.gen = host[t].gen /\ y.ret = ret
  BY DEF HostStates, InsidePcs, ClosingPcs
<1>2. host' = [host EXCEPT ![t] = y] /\ UNCHANGED hostQueue
  BY DEF HostCalls
<1> QED BY <1>1, <1>2

\* A step to another place inside, which the rest of the state allows.
LEMMA GoesStep ==
    ASSUME HostInv, NEW t \in HostTasks, Holds(t), NEW x \in HostStates,
           host' = [host EXCEPT ![t] = x], UNCHANGED hostQueue,
           x.gen = host[t].gen, UNCHANGED owned, UNCHANGED fence, x.pc # "publish",
           host[t].pc # "publish", StepReady(x)
    PROVE  HostInv'
<1>1. CoreOwned' /\ ReadyCurrent' /\ StepReady(x)'
  BY DEF HostInv, CoreOwned, ReadyCurrent, StepReady, Renewing, owned, fence
<1>2. ~(hostReady' /\ hostTools' = "revoked")
  <2>1. \A u \in HostTasks : host[u].pc # "publish"
    BY Alone DEF OutsidePcs
  <2> QED BY <2>1 DEF HostInv, ToolsRevoked, HostAt, owned, fence
<1>3. /\ hostGeneration' \in Nat /\ hostCore' \in Nat /\ hostClosing' \in BOOLEAN /\ hostReady' \in BOOLEAN
  BY DEF HostInv, HostTyped, owned, fence
<1> QED BY <1>1, <1>2, <1>3, HolderStep

\* What is known of the task that has the lock.
LEMMA Known ==
    ASSUME HostInv, NEW t \in HostTasks
    PROVE  /\ host \in [HostTasks -> HostStates] /\ host[t] \in HostStates /\ StepReady(host[t])
           /\ hostGeneration \in Nat /\ hostCore \in Nat
           /\ hostClosing \in BOOLEAN /\ hostReady \in BOOLEAN
BY DEF HostInv, HostTyped

LEMMA CloseStep ==
    ASSUME HostInv, NEW t \in HostTasks, NEW a \in BOOLEAN, NEW b \in BOOLEAN,
           CloseFronts(t, a, b) \/ CloseCoreStep(t, a) \/ CloseRest(t, a)
    PROVE  HostInv'
<1>0. /\ Holds(t) /\ host[t] \in HostStates /\ StepReady(host[t]) /\ host[t].pc \in ClosingPcs
      /\ hostGeneration \in Nat /\ hostCore \in Nat /\ hostClosing \in BOOLEAN /\ hostReady \in BOOLEAN
      /\ CoreOwned /\ ReadyCurrent
  BY Known DEF CloseFronts, CloseCoreStep, CloseRest, HostAt, HostInv, ClosingPcs
<1>1. CASE CloseFronts(t, a, b)
  <2> DEFINE y == [host[t] EXCEPT !.pc = "close_core", !.pending = a \/ b]
  <2>a. y \in HostStates /\ y.pc = "close_core" /\ y.ret = host[t].ret /\ y.gen = host[t].gen
    BY <1>0 DEF HostStates, InsidePcs, ClosingPcs
  <2>1. PICK x \in HostStates : x = y /\ x.pc = "close_core" /\ x.ret = host[t].ret /\ x.gen = host[t].gen
    BY <2>a
  <2>2. host' = [host EXCEPT ![t] = x]
    BY <1>1, <2>1 DEF CloseFronts
  <2> HIDE DEF y
  <2>3. hostReady' = FALSE /\ UNCHANGED <<hostGeneration, hostClosing, configError, hostCore, openCores,
           blockedCore, storageGuard, bundleLease, hostTransport, hostQueue>>
    BY <1>1 DEF CloseFronts
  <2>4. CoreOwned' /\ ReadyCurrent'
    BY <1>0, <2>3 DEF CoreOwned, ReadyCurrent
  <2>5. StepReady(x)'
    BY <1>0, <2>1, <2>3 DEF StepReady, Renewing, ClosingPcs
  <2> QED BY <1>0, <2>1, <2>2, <2>3, <2>4, <2>5, HolderStep
<1>2. CASE CloseCoreStep(t, a)
  <2>0. host[t].pc = "close_core" /\ UNCHANGED <<fence, storageGuard, bundleLease, hostTransport, hostTools, hostQueue>>
    BY <1>2 DEF CloseCoreStep, HostAt
  <2>1. PICK x \in HostStates :
          /\ host' = [host EXCEPT ![t] = x] /\ x.pc = "close_rest" /\ x.ret = host[t].ret /\ x.gen = host[t].gen
          /\ \/ hostCore' = 0 /\ blockedCore' = FALSE /\ openCores' = openCores \ {hostCore}
             \/ UNCHANGED <<hostCore, openCores, blockedCore>> /\ x.pending
    <3>1. CASE hostCore = 0 \/ a
      <4> DEFINE x == [host[t] EXCEPT !.pc = "close_rest"]
      <4>1. x \in HostStates /\ x.pc = "close_rest" /\ x.ret = host[t].ret /\ x.gen = host[t].gen
        BY <1>0 DEF HostStates, InsidePcs, ClosingPcs
      <4>2. host' = [host EXCEPT ![t] = x] /\ hostCore' = 0 /\ blockedCore' = FALSE /\ openCores' = openCores \ {hostCore}
        BY <1>2, <3>1 DEF CloseCoreStep, CloseCore
      <4> QED BY <4>1, <4>2
    <3>2. CASE ~(hostCore = 0 \/ a)
      <4> DEFINE x == [host[t] EXCEPT !.pc = "close_rest", !.pending = TRUE]
      <4>1. x \in HostStates /\ x.pc = "close_rest" /\ x.ret = host[t].ret /\ x.gen = host[t].gen /\ x.pending
        BY <1>0 DEF HostStates, InsidePcs, ClosingPcs
      <4>2. host' = [host EXCEPT ![t] = x] /\ UNCHANGED <<hostCore, openCores, blockedCore>>
        BY <1>2, <3>2 DEF CloseCoreStep, CloseCore
      <4> QED BY <4>1, <4>2
    <3> QED BY <3>1, <3>2
  <2>2. ~hostReady
    BY <1>0, <2>0 DEF StepReady
  <2>3. CoreOwned' /\ ReadyCurrent'
    BY <1>0, <2>0, <2>1, <2>2 DEF CoreOwned, ReadyCurrent, fence
  <2>4. StepReady(x)'
    BY <1>0, <2>0, <2>1, <2>2 DEF StepReady, Renewing, ClosingPcs, fence
  <2>5. hostCore' \in Nat /\ UNCHANGED <<hostGeneration, hostClosing, hostReady, hostQueue>>
    BY <1>0, <2>0, <2>1 DEF fence
  <2> QED BY <1>0, <2>0, <2>1, <2>2, <2>3, <2>4, <2>5, HolderStep
<1>3. CASE CloseRest(t, a)
  <2>0. /\ host[t].pc = "close_rest" /\ UNCHANGED <<fence, hostCore, openCores, blockedCore, hostTools>>
        /\ IF hostCore = 0 THEN storageGuard' = 0 /\ hostTransport' = a
           ELSE UNCHANGED <<storageGuard, hostTransport>>
        /\ \/ HostLeaves(t)
           \/ HostGoes(t, host[t].ret) /\ ~host[t].pending
    BY <1>3 DEF CloseRest, HostAt
  <2>1. ~hostReady
    BY <1>0, <2>0 DEF StepReady
  <2>2. CoreOwned' /\ ReadyCurrent' /\ UNCHANGED <<hostGeneration, hostCore, hostClosing, hostReady, configError>>
    BY <1>0, <2>0, <2>1 DEF CoreOwned, ReadyCurrent, fence
  <2>3. CASE HostLeaves(t)
    BY <1>0, <2>1, <2>2, <2>3, LeaveStep
  <2>4. CASE HostGoes(t, host[t].ret) /\ ~host[t].pending
    <3>1. host[t].ret \in ReturnPcs /\ hostCore = 0
      BY <1>0, <2>0, <2>4 DEF StepReady
    <3>2. PICK x \in HostStates :
            /\ host' = [host EXCEPT ![t] = x] /\ UNCHANGED hostQueue
            /\ x.pc = host[t].ret /\ x.gen = host[t].gen
      BY <1>0, <2>4, <3>1, GoesTo DEF InsidePcs, ReturnPcs
    <3>4. x.pc = "install" => x.gen # 0 /\ ~configError /\ (hostClosing \/ x.gen = hostGeneration)
      BY <1>0, <3>2 DEF StepReady, Renewing
    <3>5. StepReady(x)'
      BY <3>1, <3>2, <3>4, <2>2 DEF StepReady, Renewing, ClosingPcs, ReturnPcs
    <3> QED BY <1>0, <2>1, <2>2, <3>2, <3>5, HolderStep
  <2> QED BY <2>0, <2>3, <2>4
<1> QED BY <1>1, <1>2, <1>3

\* The tools are revoked under a runtime that is ready only while they are published.
LEMMA NotRevoked ==
    ASSUME HostInv, NEW t \in HostTasks, Holds(t), host[t].pc # "publish"
    PROVE  ~(hostReady /\ hostTools = "revoked")
<1>1. \A u \in HostTasks : host[u].pc # "publish"
  BY Alone DEF OutsidePcs
<1> QED BY <1>1 DEF HostInv, ToolsRevoked, HostAt

\* The task that has the lock leaves, and nothing else changes.
LEMMA JustLeaves ==
    ASSUME HostInv, NEW t \in HostTasks, Holds(t), HostLeaves(t), host[t].pc # "publish",
           UNCHANGED owned, UNCHANGED fence
    PROVE  HostInv'
<1>1. CoreOwned' /\ ReadyCurrent'
  BY DEF HostInv, CoreOwned, ReadyCurrent, owned, fence
<1>2. ~(hostReady' /\ hostTools' = "revoked")
  BY NotRevoked DEF owned, fence
<1>3. /\ hostGeneration' \in Nat /\ hostCore' \in Nat /\ hostClosing' \in BOOLEAN /\ hostReady' \in BOOLEAN
  BY DEF HostInv, HostTyped, owned, fence
<1> QED BY <1>1, <1>2, <1>3, LeaveStep

LEMMA OutsideStep ==
    ASSUME HostInv, NEW t \in HostTasks,
           InitializeCalled(t) \/ TerminateCalled(t) \/ RecoverCalled(t) \/ RaiseFence(t)
    PROVE  HostInv'
<1>0. /\ host[t] \in HostStates /\ hostGeneration \in Nat /\ hostCore \in Nat
      /\ host[t].pc \in {"idle", "fence"}
  BY Known DEF InitializeCalled, TerminateCalled, RecoverCalled, RaiseFence, HostAt
<1>1. CASE InitializeCalled(t) \/ RecoverCalled(t)
  <2>1. PICK g \in Nat, pc \in {"enter", "recover"} :
           host' = [host EXCEPT ![t].pc = pc, ![t].gen = g] /\ hostQueue' = Append(hostQueue, t)
    BY <1>0, <1>1 DEF InitializeCalled, RecoverCalled
  <2> DEFINE y == [host[t] EXCEPT !.pc = pc, !.gen = g]
  <2>2. y \in HostStates /\ y.pc \in OutsidePcs
    BY <1>0 DEF HostStates, OutsidePcs
  <2>3. host' = [host EXCEPT ![t] = y]
    BY <2>1
  <2>4. UNCHANGED <<configError, hostCore, openCores, blockedCore, storageGuard, hostTransport>>
        /\ UNCHANGED <<hostGeneration, hostClosing, hostReady, hostTools>>
    BY <1>1 DEF InitializeCalled, RecoverCalled, fence, owned
  <2> HIDE DEF y
  <2> QED BY <1>0, <2>1, <2>2, <2>3, <2>4, OutsiderStep DEF OutsidePcs
<1>2. CASE TerminateCalled(t)
  <2>1. HostGoes(t, "fence")
        /\ UNCHANGED <<configError, hostCore, openCores, blockedCore, storageGuard, hostTransport>>
        /\ UNCHANGED <<hostGeneration, hostClosing, hostReady, hostTools>>
    BY <1>2 DEF TerminateCalled, fence, owned
  <2>2. PICK x \in HostStates : host' = [host EXCEPT ![t] = x] /\ UNCHANGED hostQueue /\ x.pc = "fence"
    BY <1>0, <2>1, GoesTo DEF OutsidePcs
  <2> QED BY <1>0, <2>1, <2>2, OutsiderStep DEF OutsidePcs
<1>3. CASE RaiseFence(t)
  <2> DEFINE y == [host[t] EXCEPT !.pc = "stopping"]
  <2>1. y \in HostStates /\ y.pc \in OutsidePcs
    BY <1>0 DEF HostStates, OutsidePcs
  <2>2. host' = [host EXCEPT ![t] = y] /\ hostQueue' = Append(hostQueue, t)
    BY <1>3 DEF RaiseFence, HostWaits
  <2>3. /\ UNCHANGED <<configError, hostCore, openCores, blockedCore, storageGuard, hostTransport>>
        /\ hostGeneration' \in Nat /\ hostClosing' = TRUE /\ hostReady' = FALSE
    BY <1>0, <1>3 DEF RaiseFence
  <2> HIDE DEF y
  <2> QED BY <1>0, <2>1, <2>2, <2>3, OutsiderStep DEF OutsidePcs
<1> QED BY <1>1, <1>2, <1>3

\* What enters the lock, and what leaves without a change.
LEMMA EnterStep ==
    ASSUME HostInv, NEW t \in HostTasks,
           InitializeEnters(t) \/ TerminateEnters(t) \/ RecoverEnters(t) \/ RecoverRaises(t)
    PROVE  HostInv'
<1>0. /\ Holds(t) /\ host[t] \in HostStates /\ StepReady(host[t]) /\ UNCHANGED fence /\ UNCHANGED owned
      /\ host[t].pc \notin {"publish"} \cup ClosingPcs
  BY Known DEF InitializeEnters, TerminateEnters, RecoverEnters, RecoverRaises, HostAt, ClosingPcs
<1>1. CASE HostLeaves(t)
  BY <1>0, <1>1, JustLeaves
<1>2. ASSUME NEW ret \in {"reopen", "stopped"}, HostCalls(t, ret)
      PROVE  HostInv'
  <2>1. PICK x \in HostStates : /\ host' = [host EXCEPT ![t] = x] /\ UNCHANGED hostQueue
                                /\ x.pc = "close" /\ x.gen = host[t].gen /\ x.ret = ret
    BY <1>0, <1>2, GoesClosing DEF ReturnPcs
  <2>2. StepReady(x)
    BY <2>1 DEF StepReady, Renewing, ReturnPcs, ClosingPcs
  <2> QED BY <1>0, <2>1, <2>2, GoesStep
<1>3. ASSUME NEW pc \in {"renew", "recovering"}, HostGoes(t, pc), pc = "recovering" => blockedCore
      PROVE  HostInv'
  <2>1. PICK x \in HostStates : /\ host' = [host EXCEPT ![t] = x] /\ UNCHANGED hostQueue
                                /\ x.pc = pc /\ x.gen = host[t].gen
    BY <1>0, <1>3, GoesTo DEF InsidePcs
  <2>2. StepReady(x)
    BY <1>3, <2>1 DEF StepReady, Renewing, ClosingPcs
  <2> QED BY <1>0, <1>3, <2>1, <2>2, GoesStep
<1> QED BY <1>1, <1>2, <1>3 DEF InitializeEnters, TerminateEnters, RecoverEnters, RecoverRaises

\* hostClosing is reset when nothing is held.
LEMMA ReopenStep ==
    ASSUME HostInv, NEW t \in HostTasks, InitializeReopens(t) \/ Reopened(t)
    PROVE  HostInv'
<1>0. /\ Holds(t) /\ host[t] \in HostStates /\ StepReady(host[t]) /\ hostClosing' = FALSE
      /\ UNCHANGED <<hostGeneration, hostReady, configError>> /\ UNCHANGED owned
      /\ host[t].pc \in {"reopen", "stopped", "unpublished"}
      /\ hostGeneration \in Nat /\ hostCore \in Nat /\ hostReady \in BOOLEAN
  BY Known DEF InitializeReopens, Reopened, HostAt
<1>1. hostCore = 0 /\ ~hostReady /\ ~blockedCore
  <2>1. hostCore = 0
    BY <1>0 DEF StepReady
  <2> QED BY <2>1 DEF HostInv, ReadyCurrent, CoreOwned
<1>2. CoreOwned' /\ ReadyCurrent'
  BY <1>0, <1>1 DEF HostInv, CoreOwned, ReadyCurrent, owned
<1>3. /\ hostGeneration' \in Nat /\ hostCore' \in Nat /\ hostClosing' \in BOOLEAN /\ hostReady' \in BOOLEAN
      /\ ~hostReady'
  BY <1>0, <1>1 DEF owned
<1>4. CASE HostLeaves(t)
  BY <1>0, <1>2, <1>3, <1>4, LeaveStep
<1>5. CASE HostGoes(t, "renew")
  <2>1. PICK x \in HostStates : host' = [host EXCEPT ![t] = x] /\ UNCHANGED hostQueue /\ x.pc = "renew"
    BY <1>0, <1>5, GoesTo DEF InsidePcs
  <2>2. StepReady(x)'
    BY <2>1 DEF StepReady, Renewing, ClosingPcs
  <2> QED BY <1>0, <1>2, <1>3, <2>1, <2>2, HolderStep
<1> QED BY <1>4, <1>5 DEF InitializeReopens, Reopened

\* A new generation.
LEMMA RenewStep == ASSUME HostInv, NEW t \in HostTasks, Renew(t) PROVE HostInv'
<1>0. /\ Holds(t) /\ host[t] \in HostStates /\ host[t].pc = "renew" /\ UNCHANGED owned
      /\ UNCHANGED <<hostClosing, hostReady, configError>>
      /\ hostGeneration \in Nat /\ hostCore \in Nat /\ hostClosing \in BOOLEAN /\ hostReady \in BOOLEAN
  BY Known DEF Renew, HostAt
<1>1. CASE HostLeaves(t) /\ UNCHANGED hostGeneration
  BY <1>0, <1>1, JustLeaves DEF fence
<1>2. CASE /\ ~configError /\ ~(hostReady /\ hostCore # 0) /\ hostGeneration' = hostGeneration + 1
           /\ host' = [host EXCEPT ![t].gen = hostGeneration + 1,
                          ![t].pc = IF NothingHeld THEN "install" ELSE "close",
                          ![t].ret = "install", ![t].pending = FALSE]
           /\ UNCHANGED hostQueue
  <2>1. PICK pc \in {"install", "close"} : pc = IF NothingHeld THEN "install" ELSE "close"
    OBVIOUS
  <2>2. PICK g \in Nat \ {0} : g = hostGeneration + 1
    BY <1>0
  <2> DEFINE y == [host[t] EXCEPT !.gen = g, !.pc = pc, !.ret = "install", !.pending = FALSE]
  <2>3. PICK x \in HostStates : /\ host' = [host EXCEPT ![t] = x] /\ x.gen = hostGeneration' /\ x.gen # 0 /\ x.ret = "install"
                                /\ x.pc = IF NothingHeld THEN "install" ELSE "close"
    <3>1. y \in HostStates /\ y.gen = g /\ y.ret = "install" /\ y.pc = pc
      BY <1>0 DEF HostStates, InsidePcs, ClosingPcs, ReturnPcs
    <3>2. host' = [host EXCEPT ![t] = y]
      BY <1>2, <2>1, <2>2
    <3> HIDE DEF y
    <3> QED BY <1>2, <2>1, <2>2, <3>1, <3>2
  <2>4. ~hostReady
    BY <1>2 DEF HostInv, ReadyCurrent
  <2>5. CoreOwned' /\ ReadyCurrent'
    BY <1>0, <1>2, <2>4 DEF HostInv, CoreOwned, ReadyCurrent, owned
  <2>6. StepReady(x)'
    <3>1. x.pc = "close" \/ (x.pc = "install" /\ hostCore = 0)
      BY <2>3 DEF NothingHeld
    <3>2. hostCore' = hostCore /\ ~configError'
      BY <1>0, <1>2 DEF owned
    <3> QED BY <2>3, <3>1, <3>2 DEF StepReady, Renewing, ClosingPcs, ReturnPcs
  <2>7. /\ hostGeneration' \in Nat /\ hostCore' \in Nat /\ hostClosing' \in BOOLEAN /\ hostReady' \in BOOLEAN
        /\ ~hostReady'
    BY <1>0, <1>2, <2>4 DEF owned
  <2> QED BY <1>0, <1>2, <2>3, <2>5, <2>6, <2>7, HolderStep
<1> QED BY <1>1, <1>2 DEF Renew

\* install_bundled_package and the construction of the core.
LEMMA BuildStep ==
    ASSUME HostInv, NEW t \in HostTasks, NEW a \in BOOLEAN, NEW b \in BOOLEAN,
           InstallBundle(t, a, b) \/ BuildCore(t, a, b)
    PROVE  HostInv'
<1>0. /\ Holds(t) /\ host[t] \in HostStates /\ StepReady(host[t]) /\ host[t].pc \in {"install", "build"}
      /\ UNCHANGED fence /\ UNCHANGED <<blockedCore, hostTools>>
      /\ hostGeneration \in Nat /\ hostCore \in Nat /\ hostClosing \in BOOLEAN /\ hostReady \in BOOLEAN
  BY Known DEF InstallBundle, BuildCore, HostAt
<1>1. /\ hostCore = 0 /\ ~hostReady /\ ~blockedCore /\ openCores = {} /\ host[t].gen # 0 /\ ~configError
      /\ host[t].gen \in Nat /\ (hostClosing \/ host[t].gen = hostGeneration)
  <2>1. /\ hostCore = 0 /\ host[t].gen # 0 /\ ~configError
        /\ (hostClosing \/ host[t].gen = hostGeneration)
    BY <1>0 DEF StepReady, Renewing
  <2> QED BY <1>0, <2>1 DEF HostInv, ReadyCurrent, CoreOwned, HostStates
<1>2. /\ ~hostReady' /\ hostReady' \in BOOLEAN /\ hostClosing' \in BOOLEAN /\ hostGeneration' \in Nat
      /\ ReadyCurrent' /\ ~configError' /\ ~blockedCore'
      /\ (hostClosing' \/ host[t].gen = hostGeneration')
  BY <1>0, <1>1 DEF fence, ReadyCurrent
<1>3. CASE InstallBundle(t, a, b)
  <2>1. UNCHANGED <<hostCore, openCores>> /\ CoreOwned'
    BY <1>1, <1>2, <1>3 DEF InstallBundle, CoreOwned
  <2>2. CASE HostLeaves(t)
    BY <1>0, <1>1, <1>2, <2>1, <2>2, LeaveStep
  <2>3. CASE HostGoes(t, "build") /\ hostTransport' = TRUE /\ storageGuard' = host[t].gen
    <3>1. PICK x \in HostStates : /\ host' = [host EXCEPT ![t] = x] /\ UNCHANGED hostQueue
                                  /\ x.pc = "build" /\ x.gen = host[t].gen
      BY <1>0, <2>3, GoesTo DEF InsidePcs
    <3>2. StepReady(x)'
      BY <1>1, <1>2, <2>1, <2>3, <3>1 DEF StepReady, Renewing, ClosingPcs
    <3> QED BY <1>0, <1>1, <1>2, <2>1, <3>1, <3>2, HolderStep
  <2> QED BY <1>3, <2>2, <2>3 DEF InstallBundle
<1>4. CASE BuildCore(t, a, b)
  <2>1. CASE a
    <3>1. /\ hostCore' = host[t].gen /\ openCores' = openCores \cup {host[t].gen}
          /\ HostGoes(t, "starting") /\ UNCHANGED <<storageGuard, hostTransport>> /\ host[t].pc = "build"
      BY <1>4, <2>1 DEF BuildCore, HostAt
    <3>2. storageGuard = host[t].gen /\ hostTransport
      BY <1>0, <3>1 DEF StepReady
    <3>3. CoreOwned'
      BY <1>1, <1>2, <3>1, <3>2 DEF CoreOwned
    <3>4. PICK x \in HostStates : /\ host' = [host EXCEPT ![t] = x] /\ UNCHANGED hostQueue
                                  /\ x.pc = "starting" /\ x.gen = host[t].gen
      BY <1>0, <3>1, GoesTo DEF InsidePcs
    <3>5. StepReady(x)'
      BY <1>1, <1>2, <3>1, <3>4 DEF StepReady, Renewing, ClosingPcs
    <3> QED BY <1>0, <1>1, <1>2, <3>1, <3>3, <3>4, <3>5, HolderStep
  <2>2. CASE ~a
    <3>1. HostLeaves(t) /\ UNCHANGED <<hostCore, openCores>>
      BY <1>4, <2>2 DEF BuildCore
    <3>2. CoreOwned'
      BY <1>1, <1>2, <3>1 DEF CoreOwned
    <3> QED BY <1>0, <1>1, <1>2, <3>1, <3>2, LeaveStep
  <2> QED BY <2>1, <2>2
<1> QED BY <1>3, <1>4

\* core.start raised, and the core that failed is released.
LEMMA FailStep ==
    ASSUME HostInv, NEW t \in HostTasks, NEW a \in BOOLEAN, NEW b \in BOOLEAN,
           StartFailed(t, a) \/ StartReleases(t, a, b)
    PROVE  HostInv'
<1>0. /\ Holds(t) /\ host[t] \in HostStates /\ StepReady(host[t]) /\ CoreOwned
      /\ UNCHANGED <<hostGeneration, hostClosing, hostTools>>
      /\ hostGeneration \in Nat /\ hostCore \in Nat /\ hostClosing \in BOOLEAN /\ hostReady \in BOOLEAN
  BY Known DEF StartFailed, StartReleases, HostAt, fence, HostInv
<1>1. CASE StartFailed(t, a)
  <2>1. /\ host[t].pc = "starting" /\ hostReady' = FALSE
        /\ UNCHANGED <<hostCore, openCores, storageGuard, hostTransport>>
    BY <1>1 DEF StartFailed, HostAt
  <2>2. hostCore = host[t].gen /\ hostCore # 0 /\ ~blockedCore /\ ~configError
    BY <1>0, <2>1 DEF StepReady
  <2>3. ReadyCurrent' /\ hostGeneration' \in Nat /\ hostCore' \in Nat /\ hostClosing' \in BOOLEAN
    BY <1>0, <2>1 DEF ReadyCurrent
  <2>4. CASE a /\ ~hostClosing /\ host[t].gen = hostGeneration
    <3>1. HostLeaves(t) /\ configError' = TRUE
      BY <1>1, <2>4 DEF StartFailed
    <3>2. CoreOwned'
      BY <1>0, <2>1, <2>2, <2>4, <3>1 DEF CoreOwned
    <3> QED BY <1>0, <2>1, <2>3, <3>1, <3>2, LeaveStep
  <2>5. CASE ~(a /\ ~hostClosing /\ host[t].gen = hostGeneration)
    <3>1. HostGoes(t, "failed") /\ blockedCore' = a /\ UNCHANGED configError
      BY <1>1, <2>5 DEF StartFailed
    <3>2. ~hostClosing => host[t].gen = hostGeneration
      BY <1>0, <2>1 DEF StepReady
    <3>3. CoreOwned'
      BY <1>0, <2>1, <2>2, <2>5, <3>1, <3>2 DEF CoreOwned
    <3>4. PICK x \in HostStates : /\ host' = [host EXCEPT ![t] = x] /\ UNCHANGED hostQueue
                                  /\ x.pc = "failed" /\ x.gen = host[t].gen
      BY <1>0, <3>1, GoesTo DEF InsidePcs
    <3>5. StepReady(x)'
      BY <2>1, <3>4 DEF StepReady, Renewing, ClosingPcs
    <3> QED BY <1>0, <2>1, <2>3, <3>3, <3>4, <3>5, HolderStep
  <2> QED BY <2>4, <2>5
<1>2. CASE StartReleases(t, a, b)
  <2>1. HostLeaves(t) /\ host[t].pc = "failed" /\ UNCHANGED fence
    BY <1>2 DEF StartReleases, HostAt
  <2>2. ~hostReady
    BY <1>0, <2>1 DEF StepReady
  <2>3. CASE a
    <3>1. hostCore' = 0 /\ blockedCore' = FALSE /\ openCores' = openCores \ {hostCore}
      BY <1>2, <2>3 DEF StartReleases
    <3>2. CoreOwned' /\ ReadyCurrent'
      BY <1>0, <2>1, <2>2, <3>1 DEF CoreOwned, ReadyCurrent, fence
    <3> QED BY <1>0, <2>1, <2>2, <3>1, <3>2, LeaveStep DEF fence
  <2>4. CASE ~a
    <3>1. UNCHANGED <<hostCore, blockedCore, openCores, storageGuard, bundleLease, hostTransport>>
      BY <1>2, <2>4 DEF StartReleases
    <3>2. UNCHANGED owned
      BY <1>0, <3>1 DEF owned
    <3> QED BY <1>0, <2>1, <3>2, JustLeaves
  <2> QED BY <2>3, <2>4
<1> QED BY <1>1, <1>2

\* The generation moves without the lock only in RaiseFence, which raises hostClosing too.
LEMMA FinishStep == ASSUME HostInv, NEW t \in HostTasks, StartFinished(t) PROVE HostInv'
<1>0. /\ Holds(t) /\ host[t] \in HostStates /\ StepReady(host[t]) /\ CoreOwned /\ host[t].pc = "starting"
      /\ UNCHANGED <<hostGeneration, hostClosing, configError>> /\ UNCHANGED owned
      /\ hostGeneration \in Nat /\ hostCore \in Nat /\ hostClosing \in BOOLEAN /\ hostReady \in BOOLEAN
  BY Known DEF StartFinished, HostAt, HostInv
<1>1. hostCore = host[t].gen /\ hostCore # 0 /\ ~blockedCore /\ ~configError
  BY <1>0 DEF StepReady
<1>2. CASE StillStarting(t)
  <2>1. hostReady' = TRUE /\ HostGoes(t, "publish") /\ ~hostClosing /\ host[t].gen = hostGeneration
    BY <1>2 DEF StartFinished, StillStarting
  <2>2. CoreOwned' /\ ReadyCurrent' /\ hostCore' \in Nat
    BY <1>0, <1>1, <2>1 DEF CoreOwned, ReadyCurrent, owned
  <2>3. PICK x \in HostStates : /\ host' = [host EXCEPT ![t] = x] /\ UNCHANGED hostQueue
                                /\ x.pc = "publish" /\ x.gen = host[t].gen
    BY <1>0, <2>1, GoesTo DEF InsidePcs
  <2>4. StepReady(x)'
    BY <2>3 DEF StepReady, Renewing, ClosingPcs
  <2> QED BY <1>0, <2>1, <2>2, <2>3, <2>4, HolderStep
<1>3. CASE ~StillStarting(t)
  <2>1. HostLeaves(t) /\ UNCHANGED fence
    BY <1>0, <1>3 DEF StartFinished, fence
  <2> QED BY <1>0, <2>1, JustLeaves
<1> QED BY <1>2, <1>3

LEMMA PublishStep ==
    ASSUME HostInv, NEW t \in HostTasks, NEW a \in BOOLEAN, PublishTools(t, a)
    PROVE  HostInv'
<1>0. /\ Holds(t) /\ host[t] \in HostStates /\ StepReady(host[t]) /\ CoreOwned /\ ReadyCurrent
      /\ host[t].pc = "publish"
      /\ UNCHANGED <<hostGeneration, configError, hostCore, openCores, blockedCore, storageGuard, hostTransport>>
      /\ hostGeneration \in Nat /\ hostCore \in Nat /\ hostClosing \in BOOLEAN /\ hostReady \in BOOLEAN
  BY Known DEF PublishTools, HostAt, HostInv
<1>1. CASE a /\ hostTools # "revoked"
  <2>1. hostTools' = "open" /\ HostLeaves(t) /\ UNCHANGED <<hostReady, hostClosing>>
    BY <1>1 DEF PublishTools
  <2>2. CoreOwned' /\ ReadyCurrent'
    BY <1>0, <2>1 DEF CoreOwned, ReadyCurrent
  <2> QED BY <1>0, <2>1, <2>2, LeaveStep
<1>2. CASE ~(a /\ hostTools # "revoked")
  <2>1. hostReady' = FALSE /\ hostClosing' = TRUE /\ HostCalls(t, "unpublished")
    BY <1>2 DEF PublishTools
  <2>2. CoreOwned' /\ ReadyCurrent'
    BY <1>0, <2>1 DEF CoreOwned, ReadyCurrent
  <2>3. PICK x \in HostStates : /\ host' = [host EXCEPT ![t] = x] /\ UNCHANGED hostQueue
                                /\ x.pc = "close" /\ x.gen = host[t].gen /\ x.ret = "unpublished"
    BY <1>0, <2>1, GoesClosing DEF ReturnPcs
  <2>4. StepReady(x)'
    BY <2>3 DEF StepReady, Renewing, ClosingPcs, ReturnPcs
  <2> QED BY <1>0, <2>1, <2>2, <2>3, <2>4, HolderStep
<1> QED BY <1>1, <1>2

\* A recovery: the core that is blocked is of the generation, unless the runtime closes.
LEMMA RecoverStep ==
    ASSUME HostInv, NEW t \in HostTasks, (\E a \in BOOLEAN : RecoverFailed(t, a)) \/ RecoverFinished(t)
    PROVE  HostInv'
<1>0. /\ Holds(t) /\ host[t] \in HostStates /\ StepReady(host[t]) /\ CoreOwned /\ ReadyCurrent
      /\ host[t].pc = "recovering"
      /\ UNCHANGED <<hostGeneration, hostClosing, hostCore, openCores, storageGuard, hostTransport, hostTools>>
      /\ hostGeneration \in Nat /\ hostCore \in Nat /\ hostClosing \in BOOLEAN /\ hostReady \in BOOLEAN
  BY Known DEF RecoverFailed, RecoverFinished, HostAt, HostInv, fence
<1>1. blockedCore /\ ~hostReady /\ hostCore # 0
  BY <1>0 DEF StepReady, ReadyCurrent, CoreOwned
<1>2. ASSUME NEW a \in BOOLEAN, RecoverFailed(t, a)
      PROVE  HostInv'
  <2>1. /\ UNCHANGED fence /\ blockedCore' = a
        /\ IF a THEN HostLeaves(t) ELSE HostCalls(t, "unrecovered")
    BY <1>2 DEF RecoverFailed
  <2>2. CoreOwned' /\ ReadyCurrent' /\ ~hostReady' /\ hostReady' \in BOOLEAN
    BY <1>0, <1>1, <2>1 DEF CoreOwned, ReadyCurrent, fence
  <2>3. CASE a
    BY <1>0, <2>1, <2>2, <2>3, LeaveStep
  <2>4. CASE ~a
    <3>1. PICK x \in HostStates : /\ host' = [host EXCEPT ![t] = x] /\ UNCHANGED hostQueue
                                  /\ x.pc = "close" /\ x.gen = host[t].gen /\ x.ret = "unrecovered"
      BY <1>0, <2>1, <2>4, GoesClosing DEF ReturnPcs
    <3>2. StepReady(x)'
      BY <3>1 DEF StepReady, Renewing, ClosingPcs, ReturnPcs
    <3> QED BY <1>0, <2>2, <3>1, <3>2, HolderStep
  <2> QED BY <2>3, <2>4
<1>3. CASE RecoverFinished(t)
  <2>1. blockedCore' = FALSE
    BY <1>3 DEF RecoverFinished
  <2>2. CASE ManagementCurrent(t)
    <3>1. configError' = FALSE /\ hostReady' = TRUE /\ HostGoes(t, "publish") /\ ~hostClosing
      BY <1>3, <2>2 DEF RecoverFinished, ManagementCurrent
    <3>2. hostCore = hostGeneration
      BY <1>0, <1>1, <3>1 DEF CoreOwned
    <3>3. CoreOwned' /\ ReadyCurrent'
      BY <1>0, <1>1, <2>1, <3>1, <3>2 DEF CoreOwned, ReadyCurrent
    <3>4. PICK x \in HostStates : /\ host' = [host EXCEPT ![t] = x] /\ UNCHANGED hostQueue
                                  /\ x.pc = "publish" /\ x.gen = host[t].gen
      BY <1>0, <3>1, GoesTo DEF InsidePcs
    <3>5. StepReady(x)'
      BY <3>4 DEF StepReady, Renewing, ClosingPcs
    <3> QED BY <1>0, <3>1, <3>3, <3>4, <3>5, HolderStep
  <2>3. CASE ~ManagementCurrent(t)
    <3>1. UNCHANGED <<configError, hostReady>> /\ HostLeaves(t)
      BY <1>3, <2>3 DEF RecoverFinished
    <3>2. CoreOwned' /\ ReadyCurrent'
      BY <1>0, <1>1, <2>1, <3>1 DEF CoreOwned, ReadyCurrent
    <3> QED BY <1>0, <1>1, <3>1, <3>2, LeaveStep
  <2> QED BY <2>2, <2>3
<1> QED BY <1>2, <1>3

LEMMA HostStep == HostInv /\ [HostNext]_hostVars => HostInv'
<1> SUFFICES ASSUME HostInv, [HostNext]_hostVars PROVE HostInv'
  OBVIOUS
<1>1. CASE UNCHANGED hostVars
  BY <1>1 DEF hostVars, fence, owned, HostInv, HostTyped, OneInside, Holds, CoreOwned, ReadyCurrent,
     ToolsRevoked, HostAt, StepReady, Renewing
<1>2. ASSUME NEW t \in HostTasks, HostContinues(t) PROVE HostInv'
  BY <1>2, ReopenStep, RenewStep, EnterStep, PublishStep, BuildStep DEF HostContinues
<1>3. ASSUME NEW t \in HostTasks, HostResumes(t) PROVE HostInv'
  BY <1>3, OutsideStep, EnterStep, FinishStep, RecoverStep, CloseStep, BuildStep, FailStep DEF HostResumes
<1> QED BY <1>1, <1>2, <1>3 DEF HostNext

\* The host's runtime, for any tasks and generations: it answers only with the started
\* core of its generation, and the core that may have workers holds the storage guard.
THEOREM HostOwned == MCSpec => []HostIsOwned
<1> DEFINE Kept == entrance = "lifecycle" => HostInv
<1>1. MCInit => Kept
  BY HostInitInv DEF MCInit
<1>2. Kept /\ [MCNext]_AllVars => Kept'
  BY HostStep DEF MCNext, AllVars
<1>3. ASSUME HostInv PROVE ReadyMeansCurrent /\ OneCoreOwnsStorage
  <2>1. CoreOwned /\ ReadyCurrent /\ ToolsRevoked
    BY <1>3 DEF HostInv
  <2> QED BY <2>1 DEF CoreOwned, ReadyCurrent, ToolsRevoked, ReadyMeansCurrent, OneCoreOwnsStorage
<1>4. Kept => HostIsOwned
  BY <1>3 DEF HostIsOwned
<1> QED BY <1>1, <1>2, <1>4, PTL DEF MCSpec, AllVars

\* LogsHistory: packs hold planned scopes only, a query past its fetches
\* has seen no hidden character, an answer ends its query, and what a
\* cache holds was stored in the lifecycle that is.

LookOutcomes == {"none", "record", "failed", "hidden"}
LogAnswers == {"none", "error", "selection", "not public", "zone", "default", "complete", "partial",
               "percentiles"}
LookPcs == {"idle", "done", "realm", "contract", "directory", "server", "character", "metadata",
            "metadata loaded", "duty", "duty loaded", "packs", "fetch", "save", "stats", "percentile"}
Looks == [pc: LookPcs, wants: CharacterInputs \cup {"none"}, life: Nat, count: Nat,
          cached: SUBSET LogScopes, loaded: SUBSET LogPacks, held: SUBSET LogScopes,
          todo: SUBSET LogScopes, busy: SUBSET LogScopes, out: [LogScopes -> LookOutcomes],
          limited: BOOLEAN, stored: SUBSET LogPacks, answer: LogAnswers]

\* What a query has found, and what it answered.
FoundHidden(x) == \E s \in LogScopes : x.out[s] = "hidden"
FoundRecords(x) == x.cached \cup {s \in LogScopes : x.out[s] = "record"}
LookSound(x) ==
    /\ x.pc = "save" => ~FoundHidden(x)
    /\ x.answer # "none" => x.pc = "done"
    /\ x.answer = "complete" => LogScopes \ EchoOnly \subseteq FoundRecords(x)
    /\ x.answer \in {"complete", "partial"} => ~FoundHidden(x)

LogsInv ==
    /\ life \in Nat
    /\ packCache \in [LogPacks -> SUBSET LogScopes]
    /\ look \in [LogQueries -> Looks]
    /\ LogCachesAreCurrent
    /\ \A q \in LogQueries : LookSound(look[q])

LEMMA NoLookIs == NoLook \in Looks /\ LookSound(NoLook)
BY DEF NoLook, Looks, LookPcs, LogAnswers, LookOutcomes, CharacterInputs, LookSound, FoundHidden, FoundRecords

LEMMA LogsInitInv == LogsInit => LogsInv
BY NoLookIs DEF LogsInit, LogsInv, NoCached, LogCachesAreCurrent

\* A query goes to a sound state, and nothing else of it changes.
LEMMA LookGoes ==
    ASSUME LogsInv, NEW q \in LogQueries, NEW x \in Looks, LookSound(x),
           look' = [look EXCEPT ![q] = x], UNCHANGED life, LogCachesAreCurrent',
           packCache' \in [LogPacks -> SUBSET LogScopes]
    PROVE  LogsInv'
BY DEF LogsInv

\* An answer that is no history.
LEMMA LookAnswers ==
    ASSUME LogsInv, NEW q \in LogQueries, NEW a \in LogAnswers \ {"none", "complete", "partial"},
           Answers(q, a)
    PROVE  \E x \in Looks : look' = [look EXCEPT ![q] = x] /\ LookSound(x)
<1> DEFINE x == [NoLook EXCEPT !.pc = "done", !.answer = a]
<1>1. x \in Looks /\ x.pc = "done" /\ x.answer = a
  BY NoLookIs DEF Looks, LookPcs
<1>2. LookSound(x)
  BY <1>1 DEF LookSound
<1>3. look' = [look EXCEPT ![q] = x]
  BY DEF Answers
<1> QED BY <1>1, <1>2, <1>3

\* A step inside a query that has not answered.
LEMMA LookTo ==
    ASSUME LogsInv, NEW q \in LogQueries, NEW pc \in LookPcs \ {"save"}, look[q].pc # "done", To(q, pc)
    PROVE  \E x \in Looks : look' = [look EXCEPT ![q] = x] /\ LookSound(x)
<1> DEFINE x == [look[q] EXCEPT !.pc = pc]
<1>1. look[q] \in Looks /\ look[q].answer = "none"
  BY DEF LogsInv, LookSound
<1>2. x \in Looks /\ x.pc = pc /\ x.answer = "none"
  BY <1>1 DEF Looks
<1>3. LookSound(x)
  BY <1>2 DEF LookSound
<1>4. look' = [look EXCEPT ![q] = x]
  BY DEF To
<1> QED BY <1>2, <1>3, <1>4

\* Any other step of a query short of its save.
LEMMA LookMoves ==
    ASSUME NEW x \in Looks, x.answer = "none", x.pc # "save"
    PROVE  LookSound(x)
BY DEF LookSound

\* Starting, and the steps up to the character.
LEMMA LookOpens ==
    ASSUME LogsInv, NEW q \in LogQueries,
           \/ QueryStarts(q) \/ RealmResolved(q) \/ DirectoryPage(q) \/ ServerChosen(q) \/ CharacterFetched(q)
           \/ MetadataCached(q) \/ MetadataLoads(q) \/ DutyLoads(q) \/ PlanFetch(q) \/ QueryTimesOut(q)
           \/ StatsStarts(q) \/ StatsResolves(q) \/ StatsCell(q)
    PROVE  LogsInv'
<1>0. /\ UNCHANGED <<life, metaCache, dutyCache, contracts, packCache>>
      /\ look[q] \in Looks /\ life \in Nat /\ (look[q].pc # "done" => look[q].answer = "none")
  BY DEF LogsInv, LookSound, QueryStarts, RealmResolved, DirectoryPage, ServerChosen, CharacterFetched,
     MetadataCached, MetadataLoads, DutyLoads, PlanFetch, QueryTimesOut, StatsStarts, StatsResolves, StatsCell
<1>1. ASSUME NEW a \in LogAnswers \ {"none", "complete", "partial"}, Answers(q, a)
      PROVE  \E x \in Looks : look' = [look EXCEPT ![q] = x] /\ LookSound(x)
  BY <1>1, LookAnswers
<1>2. ASSUME NEW pc \in LookPcs \ {"save"}, look[q].pc # "done", To(q, pc)
      PROVE  \E x \in Looks : look' = [look EXCEPT ![q] = x] /\ LookSound(x)
  BY <1>2, LookTo
<1>3. \E x \in Looks : look' = [look EXCEPT ![q] = x] /\ LookSound(x)
  <2>1. CASE QueryStarts(q)
    <3>1. CASE Answers(q, "error")
      BY <1>1, <3>1 DEF LogAnswers
    <3>2. ASSUME NEW wants \in CharacterInputs,
                 look' = [look EXCEPT ![q] = [NoLook EXCEPT !.pc = "realm", !.life = life, !.wants = wants]]
          PROVE  \E x \in Looks : look' = [look EXCEPT ![q] = x] /\ LookSound(x)
      <4> DEFINE x == [NoLook EXCEPT !.pc = "realm", !.life = life, !.wants = wants]
      <4>1. x \in Looks /\ x.answer = "none" /\ x.pc = "realm"
        BY <1>0, NoLookIs DEF Looks, LookPcs, NoLook
      <4> HIDE DEF x
      <4> QED BY <3>2, <4>1, LookMoves DEF x
    <3> QED BY <2>1, <3>1, <3>2 DEF QueryStarts
  <2>2. CASE RealmResolved(q) \/ ServerChosen(q) \/ CharacterFetched(q) \/ MetadataCached(q) \/ MetadataLoads(q)
             \/ QueryTimesOut(q) \/ StatsResolves(q)
    <3>1. look[q].pc # "done"
      BY <2>2 DEF RealmResolved, ServerChosen, CharacterFetched, MetadataCached, MetadataLoads,
         QueryTimesOut, StatsResolves, At
    <3>2. \/ \E pc \in LookPcs \ {"save"} : To(q, pc)
          \/ \E a \in LogAnswers \ {"none", "complete", "partial"} : Answers(q, a)
      BY <2>2 DEF RealmResolved, ServerChosen, CharacterFetched, MetadataCached, MetadataLoads,
         QueryTimesOut, StatsResolves, LookPcs, LogAnswers
    <3> QED BY <1>1, <1>2, <3>1, <3>2
  <2>3. CASE DirectoryPage(q) \/ DutyLoads(q) \/ PlanFetch(q) \/ StatsStarts(q) \/ StatsCell(q)
    <3>1. look[q].pc # "done"
      BY <2>3 DEF DirectoryPage, DutyLoads, PlanFetch, StatsStarts, StatsCell, At
    <3>2. \/ \E pc \in LookPcs \ {"save"} : To(q, pc)
          \/ \E a \in LogAnswers \ {"none", "complete", "partial"} : Answers(q, a)
          \/ look' = [look EXCEPT ![q].count = @ + 1] /\ look[q].pc # "save"
          \/ look' = [look EXCEPT ![q].pc = "server", ![q].count = 0]
          \/ look' = [look EXCEPT ![q].pc = "duty loaded", ![q].count = life]
          \/ look' = [look EXCEPT ![q].pc = "fetch", ![q].todo = Queryable \ look[q].cached]
          \/ look' = [look EXCEPT ![q] = [NoLook EXCEPT !.pc = "stats"]]
      BY <2>3 DEF DirectoryPage, DutyLoads, PlanFetch, StatsStarts, StatsCell, At, LookPcs, LogAnswers
    <3>3. CASE look' = [look EXCEPT ![q].count = @ + 1] /\ look[q].pc # "save"
      <4> DEFINE x == [look[q] EXCEPT !.count = @ + 1]
      <4>1. x \in Looks /\ x.answer = "none" /\ x.pc # "save" /\ look' = [look EXCEPT ![q] = x]
        BY <1>0, <3>1, <3>3 DEF Looks
      <4> QED BY <4>1, LookMoves
    <3>4. CASE look' = [look EXCEPT ![q].pc = "server", ![q].count = 0]
      <4> DEFINE x == [look[q] EXCEPT !.pc = "server", !.count = 0]
      <4>1. x \in Looks /\ x.answer = "none" /\ x.pc # "save" /\ look' = [look EXCEPT ![q] = x]
        BY <1>0, <3>1, <3>4 DEF Looks, LookPcs
      <4> QED BY <4>1, LookMoves
    <3>5. CASE look' = [look EXCEPT ![q].pc = "duty loaded", ![q].count = life]
      <4> DEFINE x == [look[q] EXCEPT !.pc = "duty loaded", !.count = life]
      <4>1. x \in Looks /\ x.answer = "none" /\ x.pc # "save" /\ look' = [look EXCEPT ![q] = x]
        BY <1>0, <3>1, <3>5 DEF Looks, LookPcs
      <4> QED BY <4>1, LookMoves
    <3>6. CASE look' = [look EXCEPT ![q].pc = "fetch", ![q].todo = Queryable \ look[q].cached]
      <4> DEFINE x == [look[q] EXCEPT !.pc = "fetch", !.todo = Queryable \ look[q].cached]
      <4>1. x \in Looks /\ x.answer = "none" /\ x.pc # "save" /\ look' = [look EXCEPT ![q] = x]
        BY <1>0, <3>1, <3>6 DEF Looks, LookPcs, Queryable
      <4> QED BY <4>1, LookMoves
    <3>7. CASE look' = [look EXCEPT ![q] = [NoLook EXCEPT !.pc = "stats"]]
      <4> DEFINE x == [NoLook EXCEPT !.pc = "stats"]
      <4>1. x \in Looks /\ x.answer = "none" /\ x.pc # "save"
        BY NoLookIs DEF Looks, LookPcs, NoLook
      <4> QED BY <3>7, <4>1, LookMoves
    <3> QED BY <1>1, <1>2, <3>1, <3>2, <3>3, <3>4, <3>5, <3>6, <3>7
  <2> QED BY <2>1, <2>2, <2>3
<1>4. LogCachesAreCurrent' /\ packCache' \in [LogPacks -> SUBSET LogScopes]
  BY <1>0 DEF LogsInv, LogCachesAreCurrent
<1> QED BY <1>0, <1>3, <1>4, LookGoes

\* What fills a cache: the load is of the lifecycle that is.
LEMMA LookStores ==
    ASSUME LogsInv, NEW q \in LogQueries, ContractStored(q) \/ MetadataStored(q) \/ DutyStored(q)
    PROVE  LogsInv'
<1>0. UNCHANGED <<life, packCache>> /\ life \in Nat /\ look[q].pc # "done" /\ look[q] \in Looks
      /\ look[q].answer = "none" /\ packCache \in [LogPacks -> SUBSET LogScopes]
  BY DEF LogsInv, LookSound, ContractStored, MetadataStored, DutyStored, At
<1>1. LogCachesAreCurrent'
  <2>1. LogCachesAreCurrent
    BY DEF LogsInv
  <2>2. CASE ContractStored(q)
    BY <2>1, <2>2 DEF ContractStored, ActiveLife, LogCachesAreCurrent
  <2>3. CASE MetadataStored(q)
    <3>1. UNCHANGED <<life, dutyCache, contracts>>
      BY <2>3 DEF MetadataStored
    <3>2. metaCache' = metaCache \/ \E k \in {"verified", "base", "failed"} : metaCache' = [kind |-> k, life |-> life]
      BY <2>3 DEF MetadataStored, ActiveLife
    <3>3. CASE metaCache' = metaCache
      BY <2>1, <3>1, <3>3 DEF LogCachesAreCurrent
    <3>4. ASSUME NEW k \in {"verified", "base", "failed"}, metaCache' = [kind |-> k, life |-> life]
          PROVE  LogCachesAreCurrent'
      BY <2>1, <3>1, <3>4 DEF LogCachesAreCurrent
    <3> QED BY <3>2, <3>3, <3>4
  <2>4. CASE DutyStored(q)
    <3>1. UNCHANGED <<life, metaCache, contracts>>
      BY <2>4 DEF DutyStored
    <3>2. dutyCache' = dutyCache \/ \E k \in {"complete", "failed"} : dutyCache' = [kind |-> k, life |-> life]
      BY <2>4 DEF DutyStored
    <3>3. CASE dutyCache' = dutyCache
      BY <2>1, <3>1, <3>3 DEF LogCachesAreCurrent
    <3>4. ASSUME NEW k \in {"complete", "failed"}, dutyCache' = [kind |-> k, life |-> life]
          PROVE  LogCachesAreCurrent'
      BY <2>1, <3>1, <3>4 DEF LogCachesAreCurrent
    <3> QED BY <3>2, <3>3, <3>4
  <2> QED BY <2>2, <2>3, <2>4
<1>2. \/ \E pc \in LookPcs \ {"save"} : To(q, pc)
      \/ \E a \in LogAnswers \ {"none", "complete", "partial"} : Answers(q, a)
      \/ look' = [look EXCEPT ![q].pc = "packs", ![q].count = 0]
  BY DEF ContractStored, MetadataStored, DutyStored, LookPcs, LogAnswers
<1>3. CASE look' = [look EXCEPT ![q].pc = "packs", ![q].count = 0]
  <2> DEFINE x == [look[q] EXCEPT !.pc = "packs", !.count = 0]
  <2>1. x \in Looks /\ x.answer = "none" /\ x.pc # "save" /\ look' = [look EXCEPT ![q] = x]
    BY <1>0, <1>3 DEF Looks, LookPcs
  <2>2. LookSound(x)
    BY <2>1, LookMoves
  <2> HIDE DEF x
  <2> QED BY <1>0, <1>1, <2>1, <2>2, LookGoes
<1>4. ASSUME NEW pc \in LookPcs \ {"save"}, To(q, pc) PROVE LogsInv'
  BY <1>0, <1>1, <1>4, LookTo, LookGoes
<1>5. ASSUME NEW a \in LogAnswers \ {"none", "complete", "partial"}, Answers(q, a) PROVE LogsInv'
  BY <1>0, <1>1, <1>5, LookAnswers, LookGoes
<1> QED BY <1>2, <1>3, <1>4, <1>5

LEMMA PackIsPlanned == \A p \in LogPacks : p \subseteq LogScopes
BY LogsAssumption DEF LogsAssumption

\* The packs that are read and the batches that are fetched.
LEMMA LookGathers ==
    ASSUME LogsInv, NEW q \in LogQueries,
           \/ FetchEnds(q)
           \/ \E p \in LogPacks : PackRead(q, p)
           \/ \E s \in LogScopes : WorkerTakes(q, s) \/ BatchAnswers(q, s)
    PROVE  LogsInv'
<1>0. /\ UNCHANGED <<life, metaCache, dutyCache, contracts, packCache>> /\ life \in Nat
      /\ look[q].pc \in {"packs", "fetch"} /\ look[q] \in Looks /\ look[q].answer = "none"
      /\ packCache \in [LogPacks -> SUBSET LogScopes]
  BY DEF LogsInv, LookSound, FetchEnds, PackRead, WorkerTakes, BatchAnswers, At
<1>1. LogCachesAreCurrent' /\ packCache' \in [LogPacks -> SUBSET LogScopes]
  BY <1>0 DEF LogsInv, LogCachesAreCurrent
<1>2. ASSUME NEW a \in LogAnswers \ {"none", "complete", "partial"}, Answers(q, a) PROVE LogsInv'
  BY <1>0, <1>1, <1>2, LookAnswers, LookGoes
<1>3. CASE FetchEnds(q)
  <2>1. CASE To(q, "save") /\ ~SeesHidden(q)
    <3> DEFINE x == [look[q] EXCEPT !.pc = "save"]
    <3>1. x \in Looks /\ x.answer = "none" /\ x.out = look[q].out /\ look' = [look EXCEPT ![q] = x]
      BY <1>0, <2>1 DEF Looks, LookPcs, To
    <3>2. LookSound(x)
      BY <2>1, <3>1 DEF LookSound, FoundHidden, SeesHidden
    <3> HIDE DEF x
    <3> QED BY <1>0, <1>1, <3>1, <3>2, LookGoes
  <2>2. \/ Answers(q, "error") \/ Answers(q, "not public")
        \/ To(q, "save") /\ ~SeesHidden(q)
    BY <1>3 DEF FetchEnds
  <2>3. "error" \in LogAnswers \ {"none", "complete", "partial"}
        /\ "not public" \in LogAnswers \ {"none", "complete", "partial"}
    BY DEF LogAnswers
  <2> QED BY <1>2, <2>1, <2>2, <2>3
<1>4. ASSUME NEW p \in LogPacks, PackRead(q, p) PROVE LogsInv'
  <2>1. CASE Answers(q, "error")
    BY <1>2, <2>1 DEF LogAnswers
  <2>2. ASSUME NEW got \in {packCache[p], {}},
               look' = [look EXCEPT ![q].loaded = @ \cup {p}, ![q].held = @ \cup got, ![q].cached = @ \cup got]
        PROVE  LogsInv'
    <3> DEFINE x == [look[q] EXCEPT !.loaded = @ \cup {p}, !.held = @ \cup got, !.cached = @ \cup got]
    <3>0. got \subseteq LogScopes
      BY <1>0
    <3>1. x \in Looks /\ x.answer = "none" /\ x.pc = look[q].pc
      BY <1>0, <3>0 DEF Looks
    <3>2. look' = [look EXCEPT ![q] = x]
      BY <2>2
    <3> HIDE DEF x
    <3>3. LookSound(x)
      BY <1>0, <3>1, LookMoves
    <3> QED BY <1>0, <1>1, <3>1, <3>2, <3>3, LookGoes
  <2> QED BY <1>4, <2>1, <2>2 DEF PackRead
<1>5. ASSUME NEW s \in LogScopes, WorkerTakes(q, s) PROVE LogsInv'
  <2> DEFINE x == [look[q] EXCEPT !.todo = @ \ {s}, !.busy = @ \cup {s}]
  <2>1. x \in Looks /\ x.answer = "none" /\ x.pc = look[q].pc
    BY <1>0 DEF Looks
  <2>2. look' = [look EXCEPT ![q] = x]
    BY <1>5 DEF WorkerTakes
  <2> HIDE DEF x
  <2>3. LookSound(x)
    BY <1>0, <2>1, LookMoves
  <2> QED BY <1>0, <1>1, <2>1, <2>2, <2>3, LookGoes
<1>6. ASSUME NEW s \in LogScopes, BatchAnswers(q, s) PROVE LogsInv'
  <2>1. CASE Answers(q, "error")
    BY <1>2, <2>1 DEF LogAnswers
  <2>2. ASSUME NEW o \in LookOutcomes, NEW limit \in BOOLEAN,
               look' = [look EXCEPT ![q].busy = @ \ {s}, ![q].out[s] = o, ![q].limited = @ \/ limit]
        PROVE  LogsInv'
    <3> DEFINE x == [look[q] EXCEPT !.busy = @ \ {s}, !.out[s] = o, !.limited = @ \/ limit]
    <3>1. x \in Looks /\ x.answer = "none" /\ x.pc = look[q].pc
      BY <1>0 DEF Looks
    <3>2. look' = [look EXCEPT ![q] = x]
      BY <2>2
    <3> HIDE DEF x
    <3>3. LookSound(x)
      BY <1>0, <3>1, LookMoves
    <3> QED BY <1>0, <1>1, <3>1, <3>2, <3>3, LookGoes
  <2> QED BY <1>6, <2>1, <2>2 DEF BatchAnswers, LookOutcomes
<1> QED BY <1>3, <1>4, <1>5, <1>6

\* The packs are written back, and the answer is put together.
LEMMA LookSaves ==
    ASSUME LogsInv, NEW q \in LogQueries, (\E p \in LogPacks : PackSaved(q, p)) \/ Assembled(q)
    PROVE  LogsInv'
<1>0. /\ UNCHANGED <<life, metaCache, dutyCache, contracts>> /\ life \in Nat
      /\ look[q].pc = "save" /\ look[q] \in Looks /\ look[q].answer = "none"
      /\ packCache \in [LogPacks -> SUBSET LogScopes] /\ ~FoundHidden(look[q])
  BY DEF LogsInv, LookSound, PackSaved, Assembled, At
<1>1. LogCachesAreCurrent'
  BY <1>0 DEF LogsInv, LogCachesAreCurrent
<1>2. ASSUME Answers(q, "error"), packCache' = packCache PROVE LogsInv'
  BY <1>0, <1>1, <1>2, LookAnswers, LookGoes DEF LogAnswers
<1>3. ASSUME NEW p \in LogPacks, PackSaved(q, p) PROVE LogsInv'
  <2>1. CASE look' = [look EXCEPT ![q].stored = @ \cup {p}]
             /\ packCache' = [packCache EXCEPT ![p] = (look[q].held \cap p) \cup (Fetched(q) \cap p)]
    <3> DEFINE x == [look[q] EXCEPT !.stored = @ \cup {p}]
    <3>1. x \in Looks /\ x.answer = "none" /\ x.out = look[q].out
      BY <1>0 DEF Looks
    <3>2. look' = [look EXCEPT ![q] = x]
      BY <2>1
    <3> HIDE DEF x
    <3>3. LookSound(x)
      BY <1>0, <3>1 DEF LookSound, FoundHidden
    <3>4. packCache' \in [LogPacks -> SUBSET LogScopes]
      BY <1>0, <2>1, PackIsPlanned
    <3> QED BY <1>0, <1>1, <3>1, <3>2, <3>3, <3>4, LookGoes
  <2>2. CASE look' = [look EXCEPT ![q].stored = @ \cup {p}] /\ UNCHANGED packCache
    <3> DEFINE x == [look[q] EXCEPT !.stored = @ \cup {p}]
    <3>1. x \in Looks /\ x.answer = "none" /\ x.out = look[q].out
      BY <1>0 DEF Looks
    <3>2. look' = [look EXCEPT ![q] = x]
      BY <2>2
    <3> HIDE DEF x
    <3>3. LookSound(x)
      BY <1>0, <3>1 DEF LookSound, FoundHidden
    <3> QED BY <1>0, <1>1, <2>2, <3>1, <3>2, <3>3, LookGoes
  <2> QED BY <1>2, <1>3, <2>1, <2>2 DEF PackSaved
<1>4. CASE Assembled(q)
  <2>1. ASSUME NEW a \in {"complete", "partial"}, Answers(q, a), a = "complete" => HistoryComplete(q)
        PROVE  LogsInv'
    <3> DEFINE x == [look[q] EXCEPT !.pc = "done", !.answer = a]
    <3>1. x \in Looks /\ x.answer = a /\ x.pc = "done" /\ x.out = look[q].out /\ x.cached = look[q].cached
      BY <1>0 DEF Looks, LookPcs, LogAnswers
    <3>2. look' = [look EXCEPT ![q] = x]
      BY <2>1 DEF Answers
    <3> HIDE DEF x
    <3>3. HistoryComplete(q) => LogScopes \ EchoOnly \subseteq FoundRecords(look[q])
      <4>2. Recorded(q) = FoundRecords(look[q])
        BY DEF Recorded, Fetched, FoundRecords
      <4>3. \A s \in LogScopes \ EchoOnly :
               RowState(q, s) \in {"record", "excluded_echo"} => s \in Recorded(q)
        BY DEF RowState, UnqueriedState
      <4> QED BY <4>2, <4>3 DEF HistoryComplete
    <3>4. LookSound(x)
      BY <1>0, <2>1, <3>1, <3>3 DEF LookSound, FoundHidden, FoundRecords
    <3> QED BY <1>0, <1>1, <1>4, <3>1, <3>2, <3>4, LookGoes DEF Assembled
  <2>2. CASE Answers(q, "error")
    BY <1>2, <1>4, <2>2 DEF Assembled
  <2> QED BY <1>4, <2>1, <2>2 DEF Assembled
<1> QED BY <1>3, <1>4

LEMMA LogsStep == LogsInv /\ [LogsNext]_logsVars => LogsInv'
<1> SUFFICES ASSUME LogsInv, [LogsNext]_logsVars PROVE LogsInv'
  OBVIOUS
<1>1. ASSUME NEW q \in LogQueries,
             \/ QueryStarts(q) \/ RealmResolved(q) \/ ContractStored(q) \/ DirectoryPage(q)
             \/ ServerChosen(q) \/ CharacterFetched(q) \/ MetadataCached(q)
             \/ MetadataLoads(q) \/ MetadataStored(q) \/ DutyLoads(q) \/ DutyStored(q)
             \/ PlanFetch(q) \/ FetchEnds(q) \/ Assembled(q) \/ QueryTimesOut(q)
             \/ StatsStarts(q) \/ StatsResolves(q) \/ StatsCell(q)
             \/ \E p \in LogPacks : PackRead(q, p) \/ PackSaved(q, p)
             \/ \E s \in LogScopes : WorkerTakes(q, s) \/ BatchAnswers(q, s)
      PROVE  LogsInv'
  BY <1>1, LookOpens, LookStores, LookGathers, LookSaves
<1>2. CASE LogsClose
  BY <1>2 DEF LogsClose, LogsInv, LogCachesAreCurrent, NoCached
<1>3. CASE CachesExpire
  <2>1. packCache' \in [LogPacks -> SUBSET LogScopes]
    BY <1>3 DEF CachesExpire, LogsInv
  <2>2. LogCachesAreCurrent'
    BY <1>3 DEF CachesExpire, LogsInv, LogCachesAreCurrent, NoCached
  <2> QED BY <1>3, <2>1, <2>2 DEF CachesExpire, LogsInv
<1>4. CASE HideCharacter \/ UNCHANGED logsVars
  BY <1>4 DEF HideCharacter, logsVars, LogsInv, LogCachesAreCurrent
<1> QED BY <1>1, <1>2, <1>3, <1>4 DEF LogsNext

\* The log queries, for any queries, scopes, packs and lifecycles: a history says what was
\* found, and the caches hold nothing of an earlier lifecycle.
THEOREM LogsTrue == MCSpec => []LogsTellTruth
<1> DEFINE Kept == entrance = "logs" => LogsInv
<1>1. MCInit => Kept
  BY LogsInitInv DEF MCInit
<1>2. Kept /\ [MCNext]_AllVars => Kept'
  BY LogsStep DEF MCNext, AllVars
<1>3. LogsInv => HistoryTellsTruth /\ LogCachesAreCurrent
  BY DEF LogsInv, LookSound, HistoryTellsTruth, Recorded, Fetched, SeesHidden, FoundRecords, FoundHidden
<1>4. Kept => LogsTellTruth
  BY <1>3 DEF LogsTellTruth
<1> QED BY <1>1, <1>2, <1>4, PTL DEF MCSpec, AllVars


-----------------------------------------------------------------------------
\* ExternalPackages: one request is inside the lock and captures without a
\* lease, a connected lease holds the runtime, and what runs is what the
\* lease inspected.

Objects == PluginObjects \cup {"none"}
Prints == [m : Nat, c : Nat]
PackageLeases == [of : Objects, print : Prints, connected : BOOLEAN, complete : BOOLEAN,
                  cleanup : {"none", "running", "done", "failed"}]
OutsidePlaces == {"idle", "waiting"}
CapturePlaces == {"capture", "bind", "publish"}
InsidePlaces == {"discover", "inspect", "drain", "detach", "seed", "start", "finish"} \cup CapturePlaces
PackagerStates == [at : OutsidePlaces \cup InsidePlaces, kind : {"none", "register", "unregister"},
                   of : Objects, print : Prints, then : {"none", "capture", "fail", "done"}, held : BOOLEAN]
ApprovalStates == [at : {"idle", "row", "shown", "replan", "reread", "commit"}, m : Nat, rev : Nat,
                   of : Objects, writes : Nat]

PackagesTyped ==
    /\ disk \in Prints /\ star \in Objects /\ hostOpen \in BOOLEAN
    /\ packLease \in PackageLeases /\ knownSource \in Prints
    /\ attachments \subseteq {"sources", "runtime", "admin"} /\ code \in Nat /\ exposed \in BOOLEAN
    /\ grantRow \in [rev : Nat, m : Nat] /\ policies \in Nat
    /\ packager \in [PackRequests -> PackagerStates] /\ approval \in ApprovalStates

\* What the lease owns, of the runtime, the sources, the administration and the pages.
LeaseOwns ==
    /\ packLease.connected => packLease.cleanup = "none" /\ "runtime" \in attachments
    /\ packLease.cleanup = "done" => "runtime" \notin attachments
    /\ attachments # {} => packLease.print.c # 0
    /\ PackageIsOwned

\* A request inside the lock, where it is.
PackagerFits(x, r, turn, lease) ==
    /\ x.at \in InsidePlaces => turn = r
    /\ x.at \in CapturePlaces => lease = NoLease
    /\ x.at = "drain" => ~lease.connected
    /\ x.at \in CapturePlaces \/ x.then = "capture" => x.print.c # 0

PackageInv ==
    /\ PackagesTyped
    /\ LeaseOwns
    /\ \A r \in PackRequests : PackagerFits(packager[r], r, hostTurn, packLease)
    /\ approval.at = "commit" => approval.writes = approval.m

LEMMA PackagesStart ==
    /\ NoPrint \in Prints /\ NoLease \in PackageLeases /\ NoApproval \in ApprovalStates
    /\ NoPackRequest \in PackagerStates /\ NoPackRequest.at = "idle" /\ NoApproval.at = "idle"
    /\ NoPackRequest.then = "none" /\ NoLease.print.c = 0
    /\ ~NoLease.connected /\ NoLease.cleanup = "none" /\ ~NoLease.complete
    /\ BuildApproved \in Nat /\ "none" \notin PackRequests
BY PackagesAssumption DEF PackagesAssumption, NoPrint, NoLease, NoApproval, NoPackRequest, Prints, PackageLeases,
   ApprovalStates, PackagerStates, Objects, OutsidePlaces, InsidePlaces, CapturePlaces

LEMMA PackagesInitInv == PackageInit => PackageInv
<1> SUFFICES ASSUME PackageInit PROVE PackageInv
  OBVIOUS
<1>1. PackagesTyped
  BY PackagesStart DEF PackageInit, PackagesTyped, Prints, Objects
<1>2. LeaseOwns
  BY PackagesStart DEF PackageInit, LeaseOwns, PackageIsOwned
<1>3. \A r \in PackRequests : packager[r] = NoPackRequest
  BY DEF PackageInit
<1> QED
  BY <1>1, <1>2, <1>3, PackagesStart DEF PackageInit, PackageInv, PackagerFits, InsidePlaces, CapturePlaces

PackagersFit == packager \in [PackRequests -> PackagerStates]
                /\ \A r \in PackRequests : PackagerFits(packager[r], r, hostTurn, packLease)

\* A request outside the lock stays outside; nothing of the lock changes.
LEMMA PackagerOutside ==
    ASSUME PackageInv, NEW r \in PackRequests, NEW x \in PackagerStates, x.at \in OutsidePlaces, x.then # "capture",
           packager' = [packager EXCEPT ![r] = x], UNCHANGED <<hostTurn, packLease>>
    PROVE  PackagersFit'
BY DEF PackageInv, PackagesTyped, PackagersFit, PackagerFits, OutsidePlaces, InsidePlaces, CapturePlaces

\* A request that has the lock, or takes it, moves; no other one is inside.
LEMMA PackagerInside ==
    ASSUME PackageInv, NEW r \in PackRequests, NEW x \in PackagerStates, hostTurn \in {"none", r},
           packager' = [packager EXCEPT ![r] = x], PackagerFits(x, r, hostTurn', packLease')
    PROVE  PackagersFit'
<1>1. packager' \in [PackRequests -> PackagerStates]
  BY DEF PackageInv, PackagesTyped
<1>2. ASSUME NEW y \in PackRequests PROVE PackagerFits(packager'[y], y, hostTurn', packLease')
  <2>1. CASE y = r
    BY <2>1 DEF PackageInv, PackagesTyped
  <2>2. CASE y # r
    <3>1. packager'[y] = packager[y] /\ hostTurn # y
      BY <2>2, PackagesStart DEF PackageInv, PackagesTyped
    <3>2. packager[y].at \notin InsidePlaces
      BY <3>1 DEF PackageInv, PackagerFits
    <3>3. packager[y].at \notin CapturePlaces /\ packager[y].at # "drain"
      BY <3>2 DEF InsidePlaces
    <3>4. packager[y].then = "capture" => packager[y].print.c # 0
      BY DEF PackageInv, PackagerFits
    <3> QED BY <3>1, <3>2, <3>3, <3>4 DEF PackagerFits
  <2> QED BY <2>1, <2>2
<1> QED BY <1>1, <1>2 DEF PackagersFit

\* It leaves.
LEMMA PackagerLeaves ==
    ASSUME PackageInv, NEW r \in PackRequests, hostTurn \in {"none", r}, Release(r)
    PROVE  PackagersFit'
<1>1. PackagerFits(NoPackRequest, r, hostTurn', packLease')
  BY PackagesStart DEF PackagerFits, InsidePlaces, CapturePlaces
<1> QED BY <1>1, PackagesStart, PackagerInside DEF Release

\* It goes on, at another place that captures nothing or finds no lease.
LEMMA PackagerGoes ==
    ASSUME PackageInv, NEW r \in PackRequests, NEW x \in PackagerStates,
           packager[r].at \in InsidePlaces, UNCHANGED hostTurn, packager' = [packager EXCEPT ![r] = x],
           x.at \in CapturePlaces => packLease' = NoLease, x.at = "drain" => ~packLease'.connected,
           x.at \in CapturePlaces \/ x.then = "capture" => x.print.c # 0
    PROVE  PackagersFit'
<1>1. hostTurn = r
  BY DEF PackageInv, PackagerFits
<1>2. PackagerFits(x, r, hostTurn', packLease')
  BY <1>1 DEF PackagerFits
<1> QED BY <1>1, <1>2, PackagerInside

\* The rest of the world: the lock stays, and a lease that is not there does not appear.
LEMMA PackagersStay ==
    ASSUME PackageInv, UNCHANGED <<packager, hostTurn>>, packLease = NoLease => packLease' = NoLease,
           packLease'.connected => packLease.connected
    PROVE  PackagersFit'
BY DEF PackageInv, PackagesTyped, PackagersFit, PackagerFits

\* The lease and what it holds are as they were.
LEMMA LeaseStays ==
    ASSUME PackageInv, UNCHANGED <<packLease, attachments, code, exposed, hostOpen>>
    PROVE  LeaseOwns'
BY DEF PackageInv, LeaseOwns, PackageIsOwned

\* _withdraw disconnects it, and closing does.
LEMMA LeaseDisconnects ==
    ASSUME PackageInv, NEW c \in {"none", "running", "failed", "done"}, UNCHANGED <<attachments, code>>,
           c = "done" => packLease.cleanup = "done", hostOpen' => hostOpen /\ exposed' = exposed,
           packLease' = [packLease EXCEPT !.connected = FALSE, !.cleanup = c]
    PROVE  packLease' \in PackageLeases /\ LeaseOwns'
<1>1. packLease \in PackageLeases
  BY DEF PackageInv, PackagesTyped
<1>2. packLease' \in PackageLeases
  BY <1>1 DEF PackageLeases
<1>3. /\ ~packLease'.connected /\ packLease'.cleanup = c /\ packLease'.print = packLease.print
      /\ packLease'.complete = packLease.complete
  BY <1>1 DEF PackageLeases
<1>4. PackageIsOwned'
  <2>1. attachments' # {} => packLease' # NoLease
    BY <1>3, PackagesStart DEF PackageInv, LeaseOwns
  <2> QED BY <1>3, <2>1 DEF PackageInv, LeaseOwns, PackageIsOwned
<1> QED BY <1>2, <1>3, <1>4 DEF PackageInv, LeaseOwns

\* What the lemmas establish is the invariant, when the rest is typed.
LEMMA PackagesKept ==
    ASSUME PackageInv, PackagersFit', LeaseOwns', packLease' \in PackageLeases,
           UNCHANGED <<disk, star, policies, approval>>,
           hostOpen' \in BOOLEAN, knownSource' \in Prints, exposed' \in BOOLEAN, code' \in Nat,
           attachments' \subseteq {"sources", "runtime", "admin"}, grantRow' \in [rev : Nat, m : Nat]
    PROVE  PackageInv'
BY DEF PackageInv, PackagesTyped, PackagersFit

\* The steps of register_package before the lease is published, and the requests.
LEMMA RegisterPrepares ==
    ASSUME PackageInv, NEW r \in PackRequests,
           \/ RequestsRegister(r) \/ EntersRegister(r) \/ Discovers(r) \/ CapturesPages(r) \/ Binds(r)
           \/ RequestsUnregister(r)
    PROVE  PackageInv'
<1>0. /\ UNCHANGED <<disk, star, policies, approval, hostOpen, knownSource, exposed, code, attachments, packLease>>
      /\ packager[r] \in PackagerStates /\ star \in Objects /\ disk \in Prints
      /\ PackagerFits(packager[r], r, hostTurn, packLease)
  BY DEF RequestsRegister, EntersRegister, Discovers, CapturesPages, Binds, RequestsUnregister, PackageInv, PackagesTyped
<1>1. grantRow' \in [rev : Nat, m : Nat]
  <2>1. CASE ~Binds(r)
    BY <2>1 DEF RequestsRegister, EntersRegister, Discovers, CapturesPages, RequestsUnregister, PackageInv, PackagesTyped
  <2>2. CASE Binds(r)
    BY <2>2 DEF Binds, PackageInv, PackagesTyped
  <2> QED BY <2>1, <2>2
<1>2. PackagersFit'
  <2>1. CASE RequestsRegister(r)
    <3> DEFINE x == [NoPackRequest EXCEPT !.at = "waiting", !.kind = "register", !.of = star]
    <3>1. x \in PackagerStates /\ x.at = "waiting" /\ x.then = "none"
      BY <1>0, PackagesStart DEF PackagerStates, OutsidePlaces
    <3> QED BY <2>1, <3>1, PackagerOutside DEF RequestsRegister, OutsidePlaces
  <2>2. CASE RequestsUnregister(r)
    <3> DEFINE x == [NoPackRequest EXCEPT !.at = "waiting", !.kind = "unregister", !.held = TRUE]
    <3>1. x \in PackagerStates /\ x.at = "waiting" /\ x.then = "none"
      BY <1>0, PackagesStart DEF PackagerStates, OutsidePlaces
    <3> QED BY <2>2, <3>1, PackagerOutside DEF RequestsUnregister, OutsidePlaces
  <2>3. CASE EntersRegister(r)
    <3> DEFINE x == [packager[r] EXCEPT !.at = "discover"]
    <3>1. x \in PackagerStates /\ x.at = "discover" /\ x.then = packager[r].then /\ x.print = packager[r].print
      BY <1>0 DEF PackagerStates, InsidePlaces
    <3>2. CASE Release(r)
      BY <2>3, <3>2, PackagerLeaves DEF EntersRegister
    <3>3. CASE hostTurn' = r /\ packager' = [packager EXCEPT ![r].at = "discover"]
      <4>1. PackagerFits(x, r, hostTurn', packLease')
        BY <1>0, <3>1, <3>3 DEF PackagerFits, CapturePlaces
      <4> QED BY <2>3, <3>1, <3>3, <4>1, PackagerInside DEF EntersRegister
    <3> QED BY <2>3, <3>2, <3>3 DEF EntersRegister
  <2>4. CASE Discovers(r) \/ CapturesPages(r) \/ Binds(r)
    <3>1. packager[r].at \in InsidePlaces /\ hostTurn = r
      BY <1>0, <2>4 DEF Discovers, CapturesPages, Binds, InsidePlaces, CapturePlaces, PackagerFits
    <3>2. CASE Release(r)
      BY <3>1, <3>2, PackagerLeaves
    <3>3. CASE Discovers(r) /\ ~Release(r)
      <4> DEFINE x == [packager[r] EXCEPT !.at = "inspect", !.print.m = disk.m]
      <4>1. x \in PackagerStates /\ x.at = "inspect" /\ x.then = packager[r].then /\ x.print.c = packager[r].print.c
        BY <1>0 DEF PackagerStates, InsidePlaces, Prints
      <4>2. UNCHANGED hostTurn /\ packager' = [packager EXCEPT ![r] = x]
        BY <3>3 DEF Discovers
      <4> HIDE DEF x
      <4>3. packager[r].then = "capture" => packager[r].print.c # 0
        BY <1>0 DEF PackagerFits
      <4> QED BY <3>1, <4>1, <4>2, <4>3, PackagerGoes DEF CapturePlaces
    <3>4. ASSUME NEW at \in {"publish", "bind"}, packager[r].at \in CapturePlaces, UNCHANGED hostTurn,
                 packager' = [packager EXCEPT ![r].at = at]
          PROVE  PackagersFit'
      <4> DEFINE x == [packager[r] EXCEPT !.at = at]
      <4>1. x \in PackagerStates /\ x.at # "drain" /\ x.print = packager[r].print
        BY <1>0 DEF PackagerStates, InsidePlaces, CapturePlaces
      <4>2. packLease' = NoLease /\ packager[r].print.c # 0
        BY <1>0, <3>4 DEF PackagerFits
      <4> HIDE DEF x
      <4>3. packager' = [packager EXCEPT ![r] = x]
        BY <3>4 DEF x
      <4> QED BY <3>1, <3>4, <4>1, <4>2, <4>3, PackagerGoes
    <3> QED BY <2>4, <3>2, <3>3, <3>4 DEF CapturesPages, Binds, CapturePlaces
  <2> QED BY <2>1, <2>2, <2>3, <2>4
<1>3. LeaseOwns'
  BY <1>0, LeaseStays
<1> QED BY <1>0, <1>1, <1>2, <1>3, PackagesKept DEF PackageInv, PackagesTyped

\* The place of a withdrawal, from a request that is inside.
LEMMA WithdrawalGoes ==
    ASSUME PackageInv, NEW r \in PackRequests, hostTurn \in {"none", r}, hostTurn' = r,
           NEW print \in Prints, NEW then \in {"capture", "fail", "done"}, then = "capture" => print.c # 0,
           NEW x \in PackagerStates, packager' = [packager EXCEPT ![r] = x],
           x.at \in {"detach", "drain"}, x.then = then, x.print = print, ~packLease'.connected
    PROVE  PackagersFit'
<1>1. PackagerFits(x, r, hostTurn', packLease')
  BY DEF PackagerFits, CapturePlaces
<1> QED BY <1>1, PackagerInside

\* _withdraw begins: of a request inside the lock or entering it.
LEMMA WithdrawalBegins ==
    ASSUME PackageInv, NEW r \in PackRequests, NEW then \in {"fail", "done"}, Withdrawing(r, then),
           hostTurn \in {"none", r}, hostTurn' = r, UNCHANGED <<attachments, code, exposed, hostOpen>>
    PROVE  PackagersFit' /\ packLease' \in PackageLeases /\ LeaseOwns'
<1>1. packager[r] \in PackagerStates /\ packLease \in PackageLeases
  BY DEF PackageInv, PackagesTyped
<1>2. PackagersFit'
  <2> DEFINE at == IF packLease.cleanup = "none" THEN "detach" ELSE "drain"
             x == [packager[r] EXCEPT !.then = then, !.at = at]
  <2>1. x \in PackagerStates /\ x.at \in {"detach", "drain"} /\ x.then = then /\ x.print = packager[r].print
        /\ packager[r].print \in Prints
    BY <1>1 DEF PackagerStates, InsidePlaces
  <2>2. packager' = [packager EXCEPT ![r] = x]
    BY DEF Withdrawing
  <2> HIDE DEF x
  <2>3. ~packLease'.connected
    BY <1>1 DEF Withdrawing, PackageLeases
  <2> QED BY <2>1, <2>2, <2>3, WithdrawalGoes
<1>3. \E c \in {"none", "running", "failed", "done"} :
         /\ c = "done" => packLease.cleanup = "done"
         /\ packLease' = [packLease EXCEPT !.connected = FALSE, !.cleanup = c]
  <2> DEFINE c == IF packLease.cleanup = "none" THEN "running" ELSE packLease.cleanup
  <2>1. c \in {"none", "running", "failed", "done"} /\ (c = "done" => packLease.cleanup = "done")
    BY <1>1 DEF PackageLeases
  <2>2. packLease' = [packLease EXCEPT !.connected = FALSE, !.cleanup = c]
    BY DEF Withdrawing
  <2> QED BY <2>1, <2>2
<1> QED BY <1>2, <1>3, LeaseDisconnects

\* Inspection returns, goes on to the capture, or withdraws the lease that is there.
LEMMA RegisterInspects ==
    ASSUME PackageInv, NEW r \in PackRequests, Inspects(r)
    PROVE  PackageInv'
<1> DEFINE print == [m |-> packager[r].print.m, c |-> Snapshot(packager[r].print.m)]
<1>0. /\ packager[r] \in PackagerStates /\ packLease \in PackageLeases /\ disk \in Prints
      /\ PackagerFits(packager[r], r, hostTurn, packLease) /\ packager[r].at \in InsidePlaces /\ hostTurn = r
      /\ UNCHANGED <<disk, star, hostOpen, knownSource, attachments, code, exposed, grantRow, policies, approval>>
      /\ packager[r].at = "inspect"
  BY DEF Inspects, PackageInv, PackagesTyped, PackagerFits, InsidePlaces
<1>1. print \in Prints
  BY <1>0 DEF Prints, PackagerStates, Snapshot
<1>2. CASE Release(r) /\ UNCHANGED packLease
  BY <1>0, <1>2, PackagerLeaves, LeaseStays, PackagesKept DEF PackageInv, PackagesTyped
<1>3. CASE print.c # 0 /\ packLease = NoLease /\ UNCHANGED <<hostTurn, packLease>>
           /\ packager' = [packager EXCEPT ![r].at = "capture", ![r].print = print]
  <2> DEFINE x == [packager[r] EXCEPT !.at = "capture", !.print = print]
  <2>1. x \in PackagerStates /\ x.at = "capture" /\ x.print = print
    BY <1>0, <1>1 DEF PackagerStates, InsidePlaces, CapturePlaces
  <2>2. packager' = [packager EXCEPT ![r] = x]
    BY <1>3
  <2> HIDE DEF x
  <2>3. PackagersFit'
    BY <1>0, <1>3, <2>1, <2>2, PackagerGoes
  <2> QED BY <1>0, <1>3, <2>3, LeaseStays, PackagesKept DEF PackageInv, PackagesTyped
<1>4. ASSUME NEW at \in {"detach", "drain"}, print.c # 0, UNCHANGED hostTurn,
             packLease' = [packLease EXCEPT !.connected = FALSE, !.cleanup = IF @ = "none" THEN "running" ELSE @],
             packager' = [packager EXCEPT ![r].then = "capture", ![r].print = print, ![r].at = at]
      PROVE  PackageInv'
  <2> DEFINE x == [packager[r] EXCEPT !.then = "capture", !.print = print, !.at = at]
             c == IF packLease.cleanup = "none" THEN "running" ELSE packLease.cleanup
  <2>1. x \in PackagerStates /\ x.print = print /\ x.then = "capture" /\ x.at = at
    BY <1>0, <1>1 DEF PackagerStates, InsidePlaces
  <2>2. packager' = [packager EXCEPT ![r] = x]
    BY <1>4
  <2>3. c \in {"none", "running", "failed", "done"} /\ (c = "done" => packLease.cleanup = "done")
        /\ packLease' = [packLease EXCEPT !.connected = FALSE, !.cleanup = c]
    BY <1>0, <1>4 DEF PackageLeases
  <2>6. ~packLease'.connected
    BY <1>0, <1>4 DEF PackageLeases
  <2> HIDE DEF x, c, print
  <2>4. PackagersFit'
    BY <1>0, <1>1, <1>4, <2>1, <2>2, <2>6, WithdrawalGoes
  <2>5. packLease' \in PackageLeases /\ LeaseOwns'
    BY <1>0, <2>3, LeaseDisconnects
  <2> QED BY <1>0, <2>4, <2>5, PackagesKept DEF PackageInv, PackagesTyped
<1> QED BY <1>2, <1>3, <1>4 DEF Inspects, Admissible

\* The lease is published: nothing was attached while there was none.
LEMMA RegisterPublishes ==
    ASSUME PackageInv, NEW r \in PackRequests, Publishes(r)
    PROVE  PackageInv'
<1> DEFINE alive == hostOpen /\ OwnerCurrent(packager[r].of)
<1>0. /\ packager[r] \in PackagerStates /\ packLease = NoLease /\ packager[r].print.c # 0
      /\ packager[r].at \in InsidePlaces /\ hostTurn = r /\ packager[r].print \in Prints
      /\ packager[r].of \in Objects
      /\ UNCHANGED <<disk, star, hostOpen, hostTurn, code, grantRow, policies, approval>>
      /\ attachments \subseteq {"sources", "runtime", "admin"} /\ exposed \in BOOLEAN
  BY DEF Publishes, PackageInv, PackagesTyped, PackagerFits, InsidePlaces, CapturePlaces, PackagerStates
<1>1. attachments = {} /\ code = 0 /\ (hostOpen => ~exposed)
  BY <1>0, PackagesStart DEF PackageInv, LeaseOwns, PackageIsOwned
<1>2. /\ attachments' = {"sources"} \cup (IF alive THEN {"runtime", "admin"} ELSE {})
      /\ exposed' = (IF alive THEN FALSE ELSE exposed) /\ knownSource' = packager[r].print
      /\ packLease' = [of |-> packager[r].of, print |-> packager[r].print, connected |-> alive,
                       complete |-> FALSE, cleanup |-> IF alive THEN "none" ELSE "running"]
  BY <1>1 DEF Publishes, Attached
<1>3. packLease' \in PackageLeases
  <2>1. alive \in BOOLEAN
    BY <1>0 DEF OwnerCurrent, PackageInv, PackagesTyped
  <2> QED BY <1>0, <1>2, <2>1 DEF PackageLeases
<1>4. packLease'.connected = alive /\ packLease'.print.c # 0 /\ packLease' # NoLease
      /\ packLease'.cleanup = (IF alive THEN "none" ELSE "running")
  BY <1>0, <1>2, PackagesStart
<1>5. LeaseOwns'
  BY <1>0, <1>1, <1>2, <1>4 DEF LeaseOwns, PackageIsOwned
<1>6. PackagersFit'
  <2> DEFINE x == [NoPackRequest EXCEPT !.kind = "register", !.at = IF alive THEN "seed" ELSE "detach",
                                        !.then = IF alive THEN "none" ELSE "fail"]
  <2>1. x \in PackagerStates /\ x.at \in {"seed", "detach"} /\ x.then \in {"none", "fail"}
    BY PackagesStart DEF PackagerStates, InsidePlaces
  <2>2. packager' = [packager EXCEPT ![r] = x]
    BY DEF Publishes
  <2> HIDE DEF x
  <2> QED BY <1>0, <2>1, <2>2, PackagerGoes DEF CapturePlaces
<1>7. attachments' \subseteq {"sources", "runtime", "admin"} /\ exposed' \in BOOLEAN /\ knownSource' \in Prints
  BY <1>0, <1>2
<1> QED BY <1>0, <1>3, <1>5, <1>6, <1>7, PackagesKept DEF PackageInv, PackagesTyped

\* What is captured to run is of the version the lease inspected.
LEMMA CaptureIsInspected ==
    ASSUME PackageInv
    PROVE  CodeCaptured \in {0, packLease.print.c} /\ CodeCaptured \in Nat
BY DEF CodeCaptured, PackageInv, PackagesTyped, PackageLeases, Prints

\* The package is restored: its module starts, and it is complete.
LEMMA RegisterRestores ==
    ASSUME PackageInv, NEW r \in PackRequests, Seeds(r) \/ Restores(r) \/ Completes(r)
    PROVE  PackageInv'
<1>0. /\ UNCHANGED <<disk, star, hostOpen, knownSource, attachments, grantRow, policies, approval>>
      /\ packager[r] \in PackagerStates /\ packLease \in PackageLeases /\ hostTurn = r
      /\ packager[r].at \in InsidePlaces /\ PackagerFits(packager[r], r, hostTurn, packLease)
  BY DEF Seeds, Restores, Completes, PackageInv, PackagesTyped, PackagerFits, InsidePlaces
<1>1. CASE Withdrawing(r, "fail") /\ UNCHANGED <<hostTurn, code, exposed>>
  BY <1>0, <1>1, WithdrawalBegins, PackagesKept DEF PackageInv, PackagesTyped
<1>2. ASSUME NEW at \in {"start", "finish"}, packager' = [packager EXCEPT ![r].at = at], UNCHANGED hostTurn
      PROVE  PackagersFit'
  <2> DEFINE x == [packager[r] EXCEPT !.at = at]
  <2>1. x \in PackagerStates /\ x.at = at /\ x.then = packager[r].then /\ x.print = packager[r].print
    BY <1>0 DEF PackagerStates, InsidePlaces
  <2>2. packager' = [packager EXCEPT ![r] = x]
    BY <1>2
  <2> HIDE DEF x
  <2> QED BY <1>0, <1>2, <2>1, <2>2, PackagerGoes DEF PackagerFits, CapturePlaces
<1>3. CASE Seeds(r) /\ LeaseActive
  <2>1. PackagersFit'
    BY <1>2, <1>3 DEF Seeds
  <2>2. UNCHANGED <<packLease, attachments, code, exposed, hostOpen>>
    BY <1>3 DEF Seeds
  <2> QED BY <1>0, <2>1, <2>2, LeaseStays, PackagesKept DEF PackageInv, PackagesTyped
<1>4. CASE Restores(r) /\ LeaseActive
  <2>1. PackagersFit'
    BY <1>2, <1>4 DEF Restores
  <2>2. UNCHANGED <<packLease, attachments, exposed, hostOpen>> /\ code' \in Nat /\ code' \in {0, code, packLease.print.c}
    BY <1>4, CaptureIsInspected DEF Restores, PackageInv, PackagesTyped
  <2>3. LeaseOwns'
    BY <1>4, <2>2 DEF LeaseActive, PackageInv, LeaseOwns, PackageIsOwned
  <2> QED BY <1>0, <2>1, <2>2, <2>3, PackagesKept DEF PackageInv, PackagesTyped
<1>5. CASE Completes(r) /\ LeaseActive
  <2>1. PackagersFit'
    BY <1>0, <1>5, PackagerLeaves DEF Completes
  <2>2. /\ UNCHANGED <<attachments, code, hostOpen>> /\ packLease' = [packLease EXCEPT !.complete = TRUE]
        /\ exposed' = Refreshed([packLease EXCEPT !.complete = TRUE])
    BY <1>5 DEF Completes
  <2>3. /\ packLease' \in PackageLeases /\ packLease'.complete /\ packLease'.print = packLease.print
        /\ packLease'.connected = packLease.connected /\ packLease'.cleanup = packLease.cleanup
    BY <1>0, <2>2 DEF PackageLeases
  <2>4. packLease' # NoLease
    BY <2>3, PackagesStart
  <2>5. exposed' \in BOOLEAN
    BY <1>0, <2>2 DEF Refreshed, Bindable, OwnerCurrent, PackageLeases, PackageInv, PackagesTyped
  <2>6. LeaseOwns'
    BY <2>2, <2>3, <2>4 DEF PackageInv, LeaseOwns, PackageIsOwned
  <2> QED BY <1>0, <2>1, <2>2, <2>3, <2>5, <2>6, PackagesKept DEF PackageInv, PackagesTyped
<1> QED BY <1>1, <1>3, <1>4, <1>5 DEF Seeds, Restores, Completes

\* A request is interrupted, where it is.
LEMMA RequestInterrupted ==
    ASSUME PackageInv, NEW r \in PackRequests, Interrupted(r)
    PROVE  PackageInv'
<1>0. /\ UNCHANGED <<disk, star, hostOpen, knownSource, attachments, code, exposed, grantRow, policies, approval>>
      /\ PackagerFits(packager[r], r, hostTurn, packLease)
  BY DEF Interrupted, PackageInv
<1>1. CASE packager' = [packager EXCEPT ![r] = NoPackRequest] /\ UNCHANGED <<packLease, hostTurn>>
  <2>1. PackagersFit'
    BY <1>1, PackagesStart, PackagerOutside DEF OutsidePlaces
  <2> QED BY <1>0, <1>1, <2>1, LeaseStays, PackagesKept DEF PackageInv, PackagesTyped
<1>2. CASE packager[r].at \in InsidePlaces /\ Release(r) /\ UNCHANGED packLease
  <2>1. PackagersFit'
    BY <1>0, <1>2, PackagerLeaves DEF PackagerFits
  <2> QED BY <1>0, <1>2, <2>1, LeaseStays, PackagesKept DEF PackageInv, PackagesTyped
<1>3. CASE packager[r].at \in InsidePlaces /\ Withdrawing(r, "fail") /\ UNCHANGED hostTurn
  <2>1. PackagersFit' /\ packLease' \in PackageLeases /\ LeaseOwns'
    BY <1>0, <1>3, WithdrawalBegins DEF PackagerFits
  <2> QED BY <1>0, <2>1, PackagesKept DEF PackageInv, PackagesTyped
<1> QED BY <1>1, <1>2, <1>3 DEF Interrupted, InsidePlaces, CapturePlaces

LEMMA UnregisterEnters ==
    ASSUME PackageInv, NEW r \in PackRequests, EntersUnregister(r)
    PROVE  PackageInv'
<1>0. UNCHANGED <<disk, star, hostOpen, knownSource, attachments, code, exposed, grantRow, policies, approval>>
      /\ hostTurn = "none"
  BY DEF EntersUnregister
<1>1. CASE Withdrawing(r, "done") /\ hostTurn' = r
  <2>1. PackagersFit' /\ packLease' \in PackageLeases /\ LeaseOwns'
    BY <1>0, <1>1, WithdrawalBegins
  <2> QED BY <1>0, <2>1, PackagesKept DEF PackageInv, PackagesTyped
<1>2. CASE Release(r) /\ UNCHANGED packLease
  BY <1>0, <1>2, PackagerLeaves, LeaseStays, PackagesKept DEF PackageInv, PackagesTyped
<1> QED BY <1>1, <1>2 DEF EntersUnregister

\* A cleanup that goes on or ends never finds the lease connected.
LEMMA CleanupMoves ==
    ASSUME PackageInv, NEW c \in {"running", "done", "failed"}, ~packLease.connected,
           packLease' = [packLease EXCEPT !.cleanup = c], UNCHANGED <<code, exposed, hostOpen>>,
           attachments' \subseteq attachments, c = "done" => "runtime" \notin attachments' /\ code = 0,
           code # 0 => "runtime" \in attachments'
    PROVE  packLease' \in PackageLeases /\ LeaseOwns'
<1>1. packLease \in PackageLeases
  BY DEF PackageInv, PackagesTyped
<1>2. /\ packLease' \in PackageLeases /\ ~packLease'.connected /\ packLease'.cleanup = c
      /\ packLease'.print = packLease.print /\ packLease'.complete = packLease.complete
  BY <1>1 DEF PackageLeases
<1>3. packLease' # NoLease
  BY <1>2, PackagesStart
<1>4. attachments' # {} => attachments # {}
  OBVIOUS
<1> QED BY <1>2, <1>3, <1>4 DEF PackageInv, LeaseOwns, PackageIsOwned

\* A withdrawal awaits the cleanup it found.
LEMMA CleanupDrains ==
    ASSUME PackageInv, NEW r \in PackRequests, DrainsCleanup(r)
    PROVE  PackageInv'
<1> DEFINE x == [packager[r] EXCEPT !.at = "detach"]
           c == IF Drained(r) THEN "done" ELSE "running"
<1>0. UNCHANGED <<disk, star, hostOpen, hostTurn, knownSource, attachments, code, exposed, grantRow, policies, approval>>
      /\ packager[r] \in PackagerStates /\ packager[r].at = "drain" /\ PackagerFits(packager[r], r, hostTurn, packLease)
  BY DEF DrainsCleanup, PackageInv, PackagesTyped
<1>1. x \in PackagerStates /\ x.at = "detach" /\ x.then = packager[r].then /\ x.print = packager[r].print
      /\ packager[r].at \in InsidePlaces
  BY <1>0 DEF PackagerStates, InsidePlaces
<1>2. packager' = [packager EXCEPT ![r] = x]
  BY DEF DrainsCleanup
<1>3. c \in {"running", "done", "failed"} /\ packLease' = [packLease EXCEPT !.cleanup = c]
      /\ (c = "done" => packLease.cleanup = "done")
  BY DEF DrainsCleanup, Drained
<1> HIDE DEF x, c
<1>4. PackagersFit'
  BY <1>0, <1>1, <1>2, PackagerGoes DEF PackagerFits, CapturePlaces
<1>5. (packLease.cleanup = "done" => "runtime" \notin attachments /\ code = 0) /\ (code # 0 => "runtime" \in attachments)
  BY DEF PackageInv, LeaseOwns, PackageIsOwned
<1>6. packLease' \in PackageLeases /\ LeaseOwns'
  BY <1>0, <1>3, <1>5, CleanupMoves DEF PackagerFits
<1> QED BY <1>0, <1>4, <1>6, PackagesKept DEF PackageInv, PackagesTyped

\* _withdraw ends: the lease is gone with all it held, or stays with its failed cleanup.
LEMMA WithdrawalEnds ==
    ASSUME PackageInv, NEW r \in PackRequests, Withdraws(r)
    PROVE  PackageInv'
<1>0. /\ UNCHANGED <<disk, star, hostOpen, knownSource, code, grantRow, policies, approval>>
      /\ packager[r].at = "detach" /\ PackagerFits(packager[r], r, hostTurn, packLease) /\ hostTurn = r
      /\ packager \in [PackRequests -> PackagerStates] /\ attachments \subseteq {"sources", "runtime", "admin"}
  BY DEF Withdraws, PackageInv, PackagesTyped, PackagerFits, InsidePlaces
<1>1. CASE packLease.cleanup = "failed"
  <2>1. Release(r) /\ UNCHANGED <<packLease, attachments, exposed>>
    BY <1>1 DEF Withdraws
  <2> QED BY <1>0, <2>1, PackagerLeaves, LeaseStays, PackagesKept DEF PackageInv, PackagesTyped
<1>2. CASE packLease.cleanup = "done"
  <2>1. attachments' = {} /\ code = 0
    BY <1>0, <1>2 DEF Withdraws, LetGo, PackageInv, LeaseOwns, PackageIsOwned
  <2>2. packLease' = NoLease /\ exposed' = (IF hostOpen THEN FALSE ELSE exposed)
    BY <1>2, PackagesStart DEF Withdraws, Refreshed, Bindable
  <2>3. LeaseOwns'
    BY <1>0, <2>1, <2>2, PackagesStart DEF LeaseOwns, PackageIsOwned
  <2>4. ASSUME NEW next \in [PackRequests -> PackagerStates], packager' = LeaseGone(next),
               \A y \in PackRequests : PackagerFits(next[y], y, hostTurn', NoLease)
        PROVE  PackagersFit'
    <3>1. packager' \in [PackRequests -> PackagerStates]
      BY <2>4 DEF LeaseGone, PackagerStates
    <3>2. \A y \in PackRequests : /\ packager'[y].at = next[y].at /\ packager'[y].then = next[y].then
                                  /\ packager'[y].print = next[y].print
      BY <2>4 DEF LeaseGone, PackagerStates
    <3> QED BY <2>2, <2>4, <3>1, <3>2 DEF PackagersFit, PackagerFits
  <2>5. \A y \in PackRequests \ {r} : PackagerFits(packager[y], y, hostTurn', NoLease)
    <3>1. \A y \in PackRequests \ {r} : hostTurn # y
      BY <1>0
    <3> QED BY <3>1 DEF PackageInv, PackagerFits, InsidePlaces
  <2>6. ASSUME packager[r].then = "capture" PROVE PackagersFit'
    <3> DEFINE x == [packager[r] EXCEPT !.at = "capture", !.then = "none"]
    <3>1. x \in PackagerStates /\ x.at = "capture" /\ x.then = "none" /\ x.print = packager[r].print
      BY <1>0 DEF PackagerStates, InsidePlaces, CapturePlaces
    <3>2. packager' = LeaseGone([packager EXCEPT ![r] = x]) /\ UNCHANGED hostTurn
      BY <1>2, <2>6 DEF Withdraws
    <3> HIDE DEF x
    <3>3. PackagerFits(x, r, hostTurn', NoLease)
      BY <1>0, <2>6, <3>1, <3>2 DEF PackagerFits
    <3> DEFINE next == [packager EXCEPT ![r] = x]
    <3>4. next \in [PackRequests -> PackagerStates]
      BY <1>0, <3>1
    <3>5. \A y \in PackRequests : PackagerFits(next[y], y, hostTurn', NoLease)
      BY <1>0, <2>5, <3>3
    <3>6. packager' = LeaseGone(next)
      BY <3>2
    <3> HIDE DEF next
    <3> QED BY <2>4, <3>4, <3>5, <3>6
  <2>7. ASSUME packager[r].then # "capture" PROVE PackagersFit'
    <3>1. packager' = LeaseGone([packager EXCEPT ![r] = NoPackRequest])
      BY <1>2, <2>7 DEF Withdraws
    <3>2. PackagerFits(NoPackRequest, r, hostTurn', NoLease)
      BY PackagesStart DEF PackagerFits, InsidePlaces, CapturePlaces
    <3> DEFINE next == [packager EXCEPT ![r] = NoPackRequest]
    <3>4. next \in [PackRequests -> PackagerStates]
      BY <1>0, PackagesStart
    <3>5. \A y \in PackRequests : PackagerFits(next[y], y, hostTurn', NoLease)
      BY <1>0, <2>5, <3>2
    <3>6. packager' = LeaseGone(next)
      BY <3>1
    <3> HIDE DEF next
    <3> QED BY <2>4, <3>4, <3>5, <3>6
  <2>8. exposed' \in BOOLEAN
    BY <2>2 DEF PackageInv, PackagesTyped
  <2> QED
    BY <1>0, <2>1, <2>2, <2>3, <2>6, <2>7, <2>8, PackagesStart, PackagesKept DEF PackageInv, PackagesTyped
<1> QED BY <1>1, <1>2 DEF Withdraws

\* detach_host_package, close and the module's switch.
LEMMA RuntimeDetaches ==
    ASSUME PackageInv, DetachStops \/ DetachDone \/ DetachFails \/ ClosesHost \/ ModuleSwitches
    PROVE  PackageInv'
<1>0. UNCHANGED <<disk, star, hostTurn, packager, knownSource, exposed, grantRow, policies, approval>>
      /\ packLease \in PackageLeases
  BY DEF DetachStops, DetachDone, DetachFails, ClosesHost, ModuleSwitches, PackageInv, PackagesTyped
<1>1. packLease.cleanup # "none" => ~packLease.connected
  BY DEF PackageInv, LeaseOwns
<1>2. CASE DetachDone \/ DetachFails
  <2>1. \E c \in {"running", "done", "failed"} :
            /\ packLease' = [packLease EXCEPT !.cleanup = c] /\ attachments' \subseteq attachments
            /\ c = "done" => "runtime" \notin attachments' /\ code = 0
            /\ code # 0 => attachments' = attachments
    BY <1>2 DEF DetachDone, DetachFails
  <2>2. ~packLease.connected /\ packLease # NoLease /\ UNCHANGED <<code, hostOpen>>
    BY <1>1, <1>2, PackagesStart DEF DetachDone, DetachFails
  <2>3. code # 0 => "runtime" \in attachments
    BY DEF PackageInv, LeaseOwns, PackageIsOwned
  <2>4. packLease' \in PackageLeases /\ LeaseOwns'
    BY <1>0, <2>1, <2>2, <2>3, CleanupMoves
  <2>7. ~packLease'.connected
    BY <1>0, <2>1, <2>2 DEF PackageLeases
  <2>5. PackagersFit'
    BY <1>0, <2>2, <2>7, PackagersStay
  <2>6. attachments' \subseteq {"sources", "runtime", "admin"}
    BY <2>1 DEF PackageInv, PackagesTyped
  <2> QED BY <1>0, <2>2, <2>4, <2>5, <2>6, PackagesKept DEF PackageInv, PackagesTyped
<1>3. CASE DetachStops \/ ModuleSwitches
  <2>1. UNCHANGED <<packLease, hostOpen, attachments>>
    BY <1>3 DEF DetachStops, ModuleSwitches
  <2>2. code' \in Nat /\ (code' = 0 \/ (code' = packLease.print.c /\ "runtime" \in attachments))
    BY <1>3, CaptureIsInspected DEF DetachStops, ModuleSwitches
  <2>3. LeaseOwns'
    BY <1>0, <2>1, <2>2 DEF PackageInv, LeaseOwns, PackageIsOwned
  <2>4. PackagersFit'
    BY <1>0, <2>1, PackagersStay
  <2> QED BY <1>0, <2>1, <2>2, <2>3, <2>4, PackagesKept DEF PackageInv, PackagesTyped
<1>4. CASE ClosesHost
  <2>1. ~hostOpen' /\ hostOpen' \in BOOLEAN /\ UNCHANGED <<attachments, code>>
        /\ packLease' = [packLease EXCEPT !.connected = FALSE, !.cleanup = packLease.cleanup]
    BY <1>0, <1>4 DEF ClosesHost, PackageLeases
  <2>2. packLease.cleanup \in {"none", "running", "failed", "done"}
    BY <1>0 DEF PackageLeases
  <2>3. packLease' \in PackageLeases /\ LeaseOwns'
    BY <1>0, <2>1, <2>2, LeaseDisconnects
  <2>4. packLease = NoLease => packLease' = NoLease
    <3>1. packLease' = [packLease EXCEPT !.connected = FALSE]
      BY <1>4 DEF ClosesHost
    <3>2. [NoLease EXCEPT !.connected = FALSE] = NoLease
      <4>1. \A y \in PackageLeases : [y EXCEPT !.connected = y.connected] = y
        BY DEF PackageLeases
      <4> QED BY <4>1, PackagesStart DEF PackageLeases
    <3> QED BY <3>1, <3>2
  <2>6. ~packLease'.connected
    BY <1>0, <2>1 DEF PackageLeases
  <2>5. PackagersFit'
    BY <1>0, <2>4, <2>6, PackagersStay
  <2> QED BY <1>0, <2>1, <2>3, <2>5, PackagesKept DEF PackageInv, PackagesTyped
<1> QED BY <1>2, <1>3, <1>4

\* Files, plugins and approvals: nothing of the lease.
LEMMA WorldMoves ==
    ASSUME PackageInv,
           \/ PluginReloads \/ FilesChange
           \/ PlanReadsFiles \/ PlanReadsRow \/ ApproveReplans \/ ApproveRereads \/ ApproveCommits \/ ApprovalDenied
    PROVE  PackageInv'
<1>0. /\ UNCHANGED <<hostOpen, hostTurn, packLease, knownSource, attachments, code, exposed, policies, packager>>
      /\ star \in Objects /\ disk \in Prints /\ approval \in ApprovalStates /\ grantRow \in [rev : Nat, m : Nat]
  BY DEF PluginReloads, FilesChange, PlanReadsFiles, PlanReadsRow, ApproveReplans, ApproveRereads, ApproveCommits,
     ApprovalDenied, PackageInv, PackagesTyped
<1>1. PackagersFit' /\ LeaseOwns'
  BY <1>0, PackagersStay, LeaseStays
<1>2. /\ star' \in Objects /\ disk' \in Prints /\ grantRow' \in [rev : Nat, m : Nat] /\ approval' \in ApprovalStates
      /\ approval'.at = "commit" => approval'.writes = approval'.m
  <2>1. CASE PluginReloads \/ FilesChange
    BY <1>0, <2>1 DEF PluginReloads, FilesChange, Objects, Prints, PackageInv
  <2>2. CASE PlanReadsFiles
    <3>1. approval' = [NoApproval EXCEPT !.at = "row", !.m = disk.m, !.of = star] /\ UNCHANGED <<disk, star, grantRow>>
      BY <2>2 DEF PlanReadsFiles
    <3>2. approval' \in ApprovalStates /\ approval'.at = "row"
      BY <1>0, <3>1, PackagesStart DEF ApprovalStates, Prints
    <3> QED BY <1>0, <3>1, <3>2
  <2>3. CASE PlanReadsRow
    <3>1. UNCHANGED <<disk, star, grantRow>>
          /\ approval' \in {NoApproval, [approval EXCEPT !.at = "shown", !.rev = grantRow.rev]}
      BY <2>3 DEF PlanReadsRow
    <3>2. approval' \in ApprovalStates /\ approval'.at # "commit"
      BY <1>0, <3>1, PackagesStart DEF ApprovalStates
    <3> QED BY <1>0, <3>1, <3>2
  <2>4. CASE ApproveReplans
    <3>1. UNCHANGED <<disk, star, grantRow>>
          /\ approval' \in {NoApproval, [approval EXCEPT !.at = "replan", !.of = star], [approval EXCEPT !.at = "reread"]}
      BY <2>4 DEF ApproveReplans
    <3>2. approval' \in ApprovalStates /\ approval'.at # "commit"
      BY <1>0, <3>1, PackagesStart DEF ApprovalStates
    <3> QED BY <1>0, <3>1, <3>2
  <2>5. CASE ApproveRereads
    <3>1. UNCHANGED <<disk, star, grantRow>>
          /\ \/ approval' = NoApproval
             \/ disk.m = approval.m /\ approval' = [approval EXCEPT !.at = "commit", !.of = star, !.writes = disk.m]
      BY <2>5 DEF ApproveRereads, AsPlanned
    <3>2. CASE approval' = NoApproval
      BY <1>0, <3>1, <3>2, PackagesStart
    <3>3. CASE disk.m = approval.m /\ approval' = [approval EXCEPT !.at = "commit", !.of = star, !.writes = disk.m]
      <4>1. approval' \in ApprovalStates /\ approval'.writes = disk.m /\ approval'.m = approval.m
        BY <1>0, <3>3 DEF ApprovalStates, Prints
      <4> QED BY <1>0, <3>1, <3>3, <4>1
    <3> QED BY <3>1, <3>2, <3>3
  <2>6. CASE ApproveCommits
    BY <1>0, <2>6, PackagesStart DEF ApproveCommits, ApprovalStates
  <2>7. CASE ApprovalDenied
    BY <1>0, <2>7, PackagesStart DEF ApprovalDenied
  <2> QED BY <2>1, <2>2, <2>3, <2>4, <2>5, <2>6, <2>7
<1> QED BY <1>0, <1>1, <1>2 DEF PackageInv, PackagesTyped, PackagersFit

LEMMA ProcessRestarts == PackageInv /\ HostRestarts => PackageInv'
<1> SUFFICES ASSUME PackageInv, HostRestarts PROVE PackageInv'
  OBVIOUS
<1>1. policies' \in Nat
  BY PackagesStart DEF HostRestarts, PackageInv, PackagesTyped
<1>2. PackagesTyped'
  BY <1>1, PackagesStart DEF HostRestarts, PackageInv, PackagesTyped, Objects
<1>3. LeaseOwns'
  BY PackagesStart DEF HostRestarts, LeaseOwns, PackageIsOwned
<1>4. \A r \in PackRequests : packager'[r] = NoPackRequest
  BY DEF HostRestarts
<1> QED
  BY <1>2, <1>3, <1>4, PackagesStart DEF HostRestarts, PackageInv, PackagerFits, InsidePlaces, CapturePlaces

LEMMA PackagesStep == PackageInv /\ [PackageNext]_packageVars => PackageInv'
<1> SUFFICES ASSUME PackageInv, [PackageNext]_packageVars PROVE PackageInv'
  OBVIOUS
<1>1. ASSUME NEW r \in PackRequests,
             \/ RequestsRegister(r) \/ EntersRegister(r) \/ Discovers(r) \/ Inspects(r)
             \/ CapturesPages(r) \/ Binds(r) \/ Publishes(r) \/ Seeds(r) \/ Restores(r)
             \/ Completes(r) \/ Interrupted(r)
             \/ RequestsUnregister(r) \/ EntersUnregister(r) \/ DrainsCleanup(r) \/ Withdraws(r)
      PROVE  PackageInv'
  BY <1>1, RegisterPrepares, RegisterInspects, RegisterPublishes, RegisterRestores, RequestInterrupted,
     UnregisterEnters, CleanupDrains, WithdrawalEnds
<1>2. CASE UNCHANGED packageVars
  BY <1>2 DEF packageVars, PackageInv, PackagesTyped, LeaseOwns, PackageIsOwned, PackagerFits
<1> QED BY <1>1, <1>2, RuntimeDetaches, WorldMoves, ProcessRestarts DEF PackageNext

\* A row of the grants is written with what was shown, or what the process loaded.
LEMMA ApprovalShown == PackageInv /\ PackageNext => ApprovedAsShown
<1> SUFFICES ASSUME PackageInv, PackageNext, grantRow' # grantRow
             PROVE  \/ grantRow'.m = approval.m /\ grantRow.rev = approval.rev
                    \/ grantRow.rev = 0 /\ grantRow'.m = policies
  BY DEF ApprovedAsShown
<1>1. CASE ApproveCommits
  BY <1>1 DEF ApproveCommits, PackageInv
<1>2. ASSUME NEW r \in PackRequests, Binds(r)
      PROVE  grantRow.rev = 0 /\ grantRow'.m = policies
  BY <1>2 DEF Binds
<1>3. ASSUME NEW r \in PackRequests,
             \/ RequestsRegister(r) \/ EntersRegister(r) \/ Discovers(r) \/ Inspects(r)
             \/ CapturesPages(r) \/ Publishes(r) \/ Seeds(r) \/ Restores(r)
      PROVE  FALSE
  BY <1>3 DEF RequestsRegister, EntersRegister, Discovers, Inspects, CapturesPages, Publishes, Seeds, Restores
<1>4. ASSUME NEW r \in PackRequests,
             \/ Completes(r) \/ Interrupted(r) \/ RequestsUnregister(r) \/ EntersUnregister(r)
             \/ DrainsCleanup(r) \/ Withdraws(r)
      PROVE  FALSE
  BY <1>4 DEF Completes, Interrupted, RequestsUnregister, EntersUnregister, DrainsCleanup, Withdraws
<1>5. ASSUME \/ DetachStops \/ DetachDone \/ DetachFails \/ ClosesHost \/ HostRestarts
             \/ PlanReadsFiles \/ PlanReadsRow \/ ApproveReplans \/ ApproveRereads
             \/ ApprovalDenied \/ PluginReloads \/ FilesChange \/ ModuleSwitches
      PROVE  FALSE
  BY <1>5 DEF DetachStops, DetachDone, DetachFails, ClosesHost, HostRestarts, PlanReadsFiles, PlanReadsRow,
     ApproveReplans, ApproveRereads, ApprovalDenied, PluginReloads, FilesChange, ModuleSwitches
<1> QED BY <1>1, <1>2, <1>3, <1>4, <1>5 DEF PackageNext

\* The packages, for any requests, plugin objects, versions and revisions: what is attached
\* or runs has its lease and its version, and a grant says what was shown.
THEOREM PackagesTrusted == MCSpec => PackagesAreTrusted
<1> DEFINE Kept == entrance = "packages" => PackageInv
           Trusted == entrance = "packages" => PackageIsOwned' /\ ApprovedAsShown
<1>1. MCInit => Kept
  BY PackagesInitInv DEF MCInit
<1>2. Kept /\ [MCNext]_AllVars => Kept'
  BY PackagesStep DEF MCNext, AllVars
<1>3. ASSUME Kept, MCNext, entrance = "packages"
      PROVE  PackageIsOwned' /\ ApprovedAsShown
  <2>1. PackageNext /\ PackageInv
    BY <1>3 DEF MCNext
  <2>2. PackageInv'
    BY <2>1, PackagesStep
  <2> QED BY <2>1, <2>2, ApprovalShown DEF PackageInv, LeaseOwns
<1>4. Kept /\ [MCNext]_AllVars => [Trusted]_packageVars
  BY <1>3 DEF AllVars
<1> QED BY <1>1, <1>2, <1>4, PTL DEF MCSpec, PackagesAreTrusted, AllVars

-----------------------------------------------------------------------------
\* ModulePages: a lineage has one open session and never comes back, a
\* commit holds the lock of its flow, and a flow that ended does not
\* commit.

PagePcs == {"idle", "boot", "query", "save", "begin", "revoke", "poll", "cancel", "answered", "begun",
            "polling", "commit", "stored", "cancelling", "cancelled"}
PageTaskStates == [pc : PagePcs, sess : Nat, line : Nat, epoch : Nat, rev : Nat, flow : Flows \cup {0}]
FlowStates == [state : {"none", "waiting", "cancelled", "revoked", "closed", "expired", "error", "authorized"},
               line : Nat, epoch : Nat, rev : Nat, committing : BOOLEAN]

PagesTyped ==
    /\ pageIssued \in Nat /\ pageEpoch \in Nat /\ pageRevision \in Nat
    /\ DOMAIN pageSessions \subseteq 1..pageIssued
    /\ \A s \in DOMAIN pageSessions : pageSessions[s].line \in 1..pageIssued
    /\ pageTask \in [PageTasks -> PageTaskStates] /\ flow \in [Flows -> FlowStates]
    /\ flowLock \in [Flows -> PageTasks \cup {"free"}]
    /\ told \subseteq Flows /\ wrote \subseteq Flows

\* A renewal replaces the session of its lineage.
OneSessionPerLine ==
    \A s, r \in DOMAIN pageSessions : pageSessions[s].line = pageSessions[r].line => s = r
DeadLine(l) == \A s \in DOMAIN pageSessions : pageSessions[s].line # l

FlowEnded(f) == flow[f].state \notin {"none", "waiting"} /\ ~flow[f].committing

\* Requests that are bound to their flow, and of these the ones that hold its lock.
LockPcs == {"polling", "commit", "stored"}
BoundPcs == LockPcs \cup {"cancelling", "cancelled"}

PageTaskFits(q, t) ==
    /\ t.sess <= pageIssued /\ t.line <= pageIssued
    /\ t.pc \notin {"idle", "boot"} /\ t.sess \in DOMAIN pageSessions => pageSessions[t.sess].line = t.line
    /\ t.pc \in {"poll", "cancel", "begun"} => t.flow \in Flows
    /\ t.pc \in BoundPcs => t.flow \in Flows /\ flow[t.flow].state # "none" /\ flow[t.flow].line = t.line
    /\ t.pc \in LockPcs => flowLock[t.flow] = q
    /\ t.pc \in {"commit", "stored"} => flow[t.flow].committing
    /\ t.pc = "cancelled" => FlowEnded(t.flow) /\ (t.flow \in wrote => DeadLine(t.line))

FlowFits(f) ==
    /\ flow[f].line <= pageIssued
    /\ flow[f].committing \/ f \in wrote => flow[f].state # "none"
    /\ f \in wrote => flow[f].committing \/ flow[f].state # "waiting"
    /\ flow[f].state = "cancelled" /\ (flow[f].committing \/ f \in wrote) => DeadLine(flow[f].line)
    /\ f \in told => FlowEnded(f) /\ f \notin wrote

PagesInv ==
    /\ PagesTyped
    /\ OneSessionPerLine
    /\ \A q \in PageTasks : PageTaskFits(q, pageTask[q])
    /\ \A f \in Flows : FlowFits(f)

LEMMA PageStarts ==
    /\ NoPageTask \in PageTaskStates /\ NoPageTask.pc = "idle" /\ NoPageTask.sess = 0 /\ NoPageTask.line = 0
    /\ NoFlow \in FlowStates /\ NoFlow.line = 0 /\ NoFlow.state = "none" /\ ~NoFlow.committing
    /\ "free" \notin PageTasks /\ DOMAIN << >> = {} /\ Flows \subseteq Nat
BY PageAssumption DEF PageAssumption, NoPageTask, NoFlow, PageTaskStates, PagePcs, FlowStates, Flows

\* A request that ended fits whatever the rest is.
LEMMA NoPageTaskFits ==
    ASSUME PagesTyped, NEW q \in PageTasks
    PROVE  PageTaskFits(q, NoPageTask)
BY PageStarts DEF PageTaskFits, BoundPcs, LockPcs, PagesTyped

LEMMA PagesInitInv == PageInit => PagesInv
<1> SUFFICES ASSUME PageInit PROVE PagesInv
  OBVIOUS
<1>1. PagesTyped
  BY PageStarts DEF PageInit, PagesTyped
<1>2. OneSessionPerLine
  BY PageStarts DEF PageInit, OneSessionPerLine
<1>3. \A q \in PageTasks : PageTaskFits(q, pageTask[q])
  BY <1>1, NoPageTaskFits DEF PageInit
<1>4. \A f \in Flows : FlowFits(f)
  BY PageStarts DEF PageInit, FlowFits
<1> QED BY <1>1, <1>2, <1>3, <1>4 DEF PagesInv

\* What the sessions may do under a request: none of its lineage opens again.
SessionsGo ==
    /\ pageIssued \in Nat /\ pageIssued' \in Nat /\ pageIssued <= pageIssued'
    /\ \A s \in DOMAIN pageSessions' :
          s <= pageIssued => s \in DOMAIN pageSessions /\ pageSessions'[s].line = pageSessions[s].line
    /\ \A l \in 0..pageIssued : DeadLine(l) => DeadLine(l)'

LEMMA SessionsStay == PagesInv /\ UNCHANGED <<pageSessions, pageIssued>> => SessionsGo
BY DEF PagesInv, PagesTyped, SessionsGo, DeadLine

\* What a flow may do under the requests other than q.
FlowGoesOn(f, q) ==
    /\ flowLock[f] \in {q, "free"} \/ flowLock'[f] = flowLock[f]
    /\ flow[f].state # "none" => flow'[f].line = flow[f].line /\ flow'[f].state # "none"
    /\ flow[f].committing => flow'[f].committing \/ flowLock[f] = q
    /\ FlowEnded(f) => flow'[f].state \notin {"none", "waiting"} /\ ~flow'[f].committing
    /\ f \in wrote' => f \in wrote \/ flow[f].committing

LEMMA TaskFitsOn ==
    ASSUME PagesInv, SessionsGo, NEW q, NEW y \in PageTasks, y # q,
           \A f \in Flows : FlowGoesOn(f, q), NEW t \in PageTaskStates, PageTaskFits(y, t)
    PROVE  PageTaskFits(y, t)'
<1>1. t.sess \in Nat /\ t.line \in Nat
  BY DEF PageTaskStates
<1>2. t.sess <= pageIssued' /\ t.line <= pageIssued'
  BY <1>1 DEF PageTaskFits, SessionsGo
<1>3. t.pc \notin {"idle", "boot"} /\ t.sess \in DOMAIN pageSessions' => pageSessions'[t.sess].line = t.line
  BY DEF PageTaskFits, SessionsGo
<1>4. ASSUME t.pc \in BoundPcs
      PROVE  t.flow \in Flows /\ flow'[t.flow].state # "none" /\ flow'[t.flow].line = t.line
  BY <1>4 DEF PageTaskFits, FlowGoesOn
<1>5. ASSUME t.pc \in LockPcs
      PROVE  flowLock'[t.flow] = y /\ flowLock[t.flow] = y
  <2>1. t.flow \in Flows /\ flowLock[t.flow] = y
    BY <1>5 DEF PageTaskFits, BoundPcs
  <2> QED BY <2>1, PageStarts DEF FlowGoesOn
<1>6. ASSUME t.pc \in {"commit", "stored"} PROVE flow'[t.flow].committing
  <2>1. t.flow \in Flows /\ flow[t.flow].committing /\ flowLock[t.flow] = y
    BY <1>5, <1>6 DEF PageTaskFits, BoundPcs, LockPcs
  <2> QED BY <2>1 DEF FlowGoesOn
<1>7. ASSUME t.pc = "cancelled" PROVE FlowEnded(t.flow)' /\ (t.flow \in wrote' => DeadLine(t.line)')
  <2>1. t.flow \in Flows /\ FlowEnded(t.flow) /\ (t.flow \in wrote => DeadLine(t.line)) /\ t.line \in 0..pageIssued
    BY <1>1, <1>7 DEF PageTaskFits, BoundPcs, PagesInv, PagesTyped
  <2>2. t.flow \in wrote' => t.flow \in wrote
    BY <2>1 DEF FlowGoesOn, FlowEnded
  <2> QED BY <2>1, <2>2 DEF FlowGoesOn, FlowEnded, SessionsGo
<1> QED BY <1>2, <1>3, <1>4, <1>5, <1>6, <1>7 DEF PageTaskFits

\* One request moves.
LEMMA PageTasksGo ==
    ASSUME PagesInv, SessionsGo, NEW q \in PageTasks, NEW t \in PageTaskStates,
           \A f \in Flows : FlowGoesOn(f, q), pageTask' = [pageTask EXCEPT ![q] = t], PageTaskFits(q, t)'
    PROVE  /\ pageTask' \in [PageTasks -> PageTaskStates]
           /\ \A y \in PageTasks : PageTaskFits(y, pageTask[y])'
<1>1. pageTask \in [PageTasks -> PageTaskStates]
  BY DEF PagesInv, PagesTyped
<1>2. ASSUME NEW y \in PageTasks PROVE PageTaskFits(y, pageTask[y])'
  <2>1. PICK u \in PageTaskStates : pageTask[y] = u
    BY <1>1
  <2>2. CASE y = q
    <3>1. pageTask'[y] = t
      BY <1>1, <2>2
    <3> QED BY <2>2, <3>1 DEF PageTaskFits, FlowEnded
  <2>3. CASE y # q
    <3>1. pageTask'[y] = u
      BY <1>1, <2>1, <2>3
    <3>2. PageTaskFits(y, u)'
      BY <2>1, <2>3, TaskFitsOn DEF PagesInv
    <3> QED BY <3>1, <3>2 DEF PageTaskFits, FlowEnded
  <2> QED BY <2>2, <2>3
<1> QED BY <1>1, <1>2

\* No request moves.
LEMMA PageTasksStay ==
    ASSUME PagesInv, SessionsGo, UNCHANGED pageTask, \A f \in Flows : FlowGoesOn(f, "free")
    PROVE  \A y \in PageTasks : PageTaskFits(y, pageTask[y])'
<1> TAKE y \in PageTasks
<1>1. PICK u \in PageTaskStates : pageTask[y] = u
  BY DEF PagesInv, PagesTyped
<1>2. PageTaskFits(y, u)'
  BY <1>1, TaskFitsOn, PageStarts DEF PagesInv
<1> QED BY <1>1, <1>2 DEF PageTaskFits, FlowEnded

\* A flow nothing happens to.
LEMMA FlowFitsOn ==
    ASSUME PagesInv, SessionsGo, NEW f \in Flows, flow'[f] = flow[f], f \in wrote' => f \in wrote \/ flow[f].committing,
           f \in told' => f \in told \/ (FlowEnded(f) /\ f \notin wrote)
    PROVE  FlowFits(f)'
<1>1. /\ flow[f].line \in 0..pageIssued /\ flow[f].line <= pageIssued'
      /\ FlowFits(f)
  BY DEF PagesInv, PagesTyped, FlowFits, FlowStates, SessionsGo
<1>2. DeadLine(flow[f].line) => DeadLine(flow[f].line)'
  <2>1. PICK l \in 0..pageIssued : l = flow[f].line
    BY <1>1
  <2>2. DeadLine(l) => DeadLine(l)'
    BY DEF SessionsGo
  <2>3. flow'[f].line = l
    BY <2>1
  <2> QED BY <2>1, <2>2, <2>3 DEF DeadLine
<1>3. FlowEnded(f) => FlowEnded(f)'
  BY DEF FlowEnded
<1>4. flow[f].state = "cancelled" /\ (flow[f].committing \/ f \in wrote') => DeadLine(flow[f].line)'
  BY <1>1, <1>2 DEF FlowFits
<1>5. f \in told' => FlowEnded(f)' /\ f \notin wrote'
  BY <1>1, <1>3 DEF FlowFits, FlowEnded
<1>6. /\ flow[f].committing \/ f \in wrote' => flow[f].state # "none"
      /\ f \in wrote' => flow[f].committing \/ flow[f].state # "waiting"
  BY <1>1 DEF FlowFits
<1> QED BY <1>1, <1>4, <1>5, <1>6 DEF FlowFits

\* A flow that waits may end, and any flow may be concluded; it is cancelled while it waits,
\* and while it is being committed only with its lineage.
FlowMoves(f) ==
    \/ flow'[f] = flow[f]
    \/ \E st \in {"cancelled", "revoked", "closed", "expired", "error", "authorized"} :
          /\ flow'[f] = [flow[f] EXCEPT !.state = st]
          /\ st = "cancelled" => Waiting(f) /\ (~flow[f].committing \/ DeadLine(flow[f].line)')

LEMMA FlowMovesOn ==
    ASSUME PagesInv, SessionsGo, NEW q, NEW f \in Flows, FlowMoves(f), UNCHANGED <<told, wrote>>,
           flowLock[f] \in {q, "free"} \/ flowLock'[f] = flowLock[f]
    PROVE  FlowFits(f)' /\ FlowGoesOn(f, q) /\ flow'[f] \in FlowStates
<1>0. flow[f] \in FlowStates /\ FlowFits(f) /\ flow[f].line <= pageIssued'
  <2>1. flow[f] \in FlowStates /\ FlowFits(f)
    BY DEF PagesInv, PagesTyped
  <2>2. flow[f].line \in Nat /\ flow[f].line <= pageIssued
    BY <2>1 DEF FlowFits, FlowStates
  <2> QED BY <2>1, <2>2 DEF SessionsGo
<1>1. CASE flow'[f] = flow[f]
  <2>1. FlowFits(f)'
    BY <1>1, FlowFitsOn
  <2>2. FlowGoesOn(f, q)
    BY <1>1 DEF FlowGoesOn, FlowEnded
  <2> QED BY <1>0, <1>1, <2>1, <2>2
<1>2. ASSUME NEW st \in {"cancelled", "revoked", "closed", "expired", "error", "authorized"},
             flow'[f] = [flow[f] EXCEPT !.state = st],
             st = "cancelled" => Waiting(f) /\ (~flow[f].committing \/ DeadLine(flow[f].line)')
      PROVE  FlowFits(f)' /\ FlowGoesOn(f, q) /\ flow'[f] \in FlowStates
  <2>1. /\ flow'[f] \in FlowStates /\ flow'[f].state = st /\ flow'[f].line = flow[f].line
        /\ flow'[f].committing = flow[f].committing
    BY <1>0, <1>2 DEF FlowStates
  <2>2. FlowGoesOn(f, q)
    BY <2>1 DEF FlowGoesOn, FlowEnded
  <2>3. st = "cancelled" /\ (flow'[f].committing \/ f \in wrote) => DeadLine(flow[f].line)'
    BY <1>0, <1>2, <2>1 DEF FlowFits, Waiting
  <2>4. f \in told => ~flow[f].committing /\ f \notin wrote
    BY <1>0 DEF FlowFits, FlowEnded
  <2> QED BY <1>0, <2>1, <2>2, <2>3, <2>4 DEF FlowFits, FlowEnded
<1> QED BY <1>1, <1>2 DEF FlowMoves

LEMMA FlowsMove ==
    ASSUME PagesInv, SessionsGo, NEW q, \A f \in Flows : FlowMoves(f), UNCHANGED <<told, wrote>>,
           \A f \in Flows : flowLock[f] \in {q, "free"} \/ flowLock'[f] = flowLock[f]
    PROVE  \A f \in Flows : FlowFits(f)' /\ FlowGoesOn(f, q) /\ flow'[f] \in FlowStates
BY FlowMovesOn

\* A step of one request that leaves the page sessions alone.
LEMMA PageRequestMoves ==
    ASSUME PagesInv, NEW q \in PageTasks, NEW t \in PageTaskStates, pageTask' = [pageTask EXCEPT ![q] = t],
           UNCHANGED <<pageSessions, pageIssued, pageEpoch>>, pageRevision' \in Nat,
           flow' \in [Flows -> FlowStates], flowLock' \in [Flows -> PageTasks \cup {"free"}],
           told' \subseteq Flows, wrote' \subseteq Flows,
           \A f \in Flows : FlowFits(f)' /\ FlowGoesOn(f, q), PageTaskFits(q, t)'
    PROVE  PagesInv'
<1>1. SessionsGo
  BY SessionsStay
<1>2. pageTask' \in [PageTasks -> PageTaskStates] /\ \A y \in PageTasks : PageTaskFits(y, pageTask[y])'
  BY <1>1, PageTasksGo
<1>3. PagesTyped'
  BY <1>2 DEF PagesInv, PagesTyped
<1>4. OneSessionPerLine'
  BY DEF PagesInv, OneSessionPerLine
<1> QED BY <1>2, <1>3, <1>4 DEF PagesInv

\* Such a step that leaves the flows alone too.
LEMMA PageRequestOnly ==
    ASSUME PagesInv, NEW q \in PageTasks, NEW t \in PageTaskStates, pageTask' = [pageTask EXCEPT ![q] = t],
           UNCHANGED <<pageSessions, pageIssued, pageEpoch, flow, flowLock, wrote>>, pageRevision' \in Nat,
           told' \subseteq Flows, \A f \in told' : f \in told \/ (FlowEnded(f) /\ f \notin wrote),
           PageTaskFits(q, t)
    PROVE  PagesInv'
<1>1. SessionsGo
  BY SessionsStay
<1>2. \A f \in Flows : FlowFits(f)' /\ FlowGoesOn(f, q)
  BY <1>1, FlowFitsOn DEF FlowGoesOn, FlowEnded
<1>3. PageTaskFits(q, t)'
  BY DEF PageTaskFits, FlowEnded, DeadLine
<1>4. /\ flow' \in [Flows -> FlowStates] /\ flowLock' \in [Flows -> PageTasks \cup {"free"}]
      /\ wrote' \subseteq Flows
  BY DEF PagesInv, PagesTyped
<1> QED BY <1>2, <1>3, <1>4, PageRequestMoves

\* A request that ends, or goes where nothing is asked of it.
LEMMA PlainPageStep ==
    ASSUME PagesInv, NEW q \in PageTasks, UNCHANGED <<pageSessions, pageIssued, pageEpoch, flow, flowLock, wrote>>,
           pageRevision' \in Nat, told' \subseteq Flows,
           \A f \in told' : f \in told \/ (FlowEnded(f) /\ f \notin wrote),
           PageEnds(q) \/ (pageTask[q].pc \notin {"idle", "boot"} /\ \E pc \in {"answered", "save"} : PageGoes(q, pc))
    PROVE  PagesInv'
<1>1. CASE PageEnds(q)
  BY <1>1, PageStarts, NoPageTaskFits, PageRequestOnly DEF PageEnds, PagesInv
<1>2. ASSUME NEW pc \in {"answered", "save"}, PageGoes(q, pc), pageTask[q].pc \notin {"idle", "boot"}
      PROVE  PagesInv'
  <2> DEFINE t == [pageTask[q] EXCEPT !.pc = pc]
  <2>1. pageTask[q] \in PageTaskStates /\ PageTaskFits(q, pageTask[q])
    BY DEF PagesInv, PagesTyped
  <2>2. t \in PageTaskStates /\ t.pc = pc /\ t.sess = pageTask[q].sess /\ t.line = pageTask[q].line
    BY <2>1 DEF PageTaskStates, PagePcs
  <2>3. pageTask' = [pageTask EXCEPT ![q] = t]
    BY <1>2 DEF PageGoes
  <2> HIDE DEF t
  <2>4. PageTaskFits(q, t)
    BY <1>2, <2>1, <2>2 DEF PageTaskFits, BoundPcs, LockPcs
  <2> QED BY <2>2, <2>3, <2>4, PageRequestOnly
<1> QED BY <1>1, <1>2

\* The requests of an open page, and what is asked before a flow is touched.
LEMMA PageRequestsMove ==
    ASSUME PagesInv, NEW q \in PageTasks,
           \/ \E previous \in 0..MaxPageSessions : OpenPage(q, previous)
           \/ QueryAnswered(q) \/ PageSaves(q) \/ PageAnswers(q)
           \/ \E s \in DOMAIN pageSessions :
                 \/ \E op \in {"query", "save", "begin", "revoke"} : PageRequest(q, op, s, 0)
                 \/ \E op \in {"poll", "cancel"}, f \in Flows : PageRequest(q, op, s, f)
           \/ CancelFlow(q)
    PROVE  PagesInv'
<1>0. /\ pageTask[q] \in PageTaskStates /\ PageTaskFits(q, pageTask[q]) /\ pageRevision \in Nat
      /\ pageEpoch \in Nat /\ pageIssued \in Nat /\ told \subseteq Flows
  BY DEF PagesInv, PagesTyped
<1>1. ASSUME NEW previous \in 0..MaxPageSessions, OpenPage(q, previous) PROVE PagesInv'
  <2> DEFINE t == [pageTask[q] EXCEPT !.pc = "boot", !.epoch = pageEpoch, !.sess = previous]
  <2>1. previous \in Nat
    <3>1. MaxPageSessions \in Nat
      BY PageAssumption DEF PageAssumption
    <3> QED BY <3>1
  <2>2. t \in PageTaskStates /\ t.pc = "boot" /\ t.sess = previous /\ t.line = pageTask[q].line
    BY <1>0, <2>1 DEF PageTaskStates, PagePcs
  <2>3. previous <= pageIssued
    <3>1. previous # 0 => previous \in DOMAIN pageSessions
      BY <1>1 DEF OpenPage, LiveSession
    <3>2. DOMAIN pageSessions \subseteq 1..pageIssued
      BY DEF PagesInv, PagesTyped
    <3>3. previous # 0 => previous \in 1..pageIssued
      BY <3>1, <3>2
    <3> QED BY <1>0, <2>1, <3>3
  <2>4. pageTask' = [pageTask EXCEPT ![q] = t]
    BY <1>1 DEF OpenPage
  <2> HIDE DEF t
  <2>5. PageTaskFits(q, t)
    BY <1>0, <2>2, <2>3 DEF PageTaskFits, BoundPcs, LockPcs
  <2> QED BY <1>0, <1>1, <2>2, <2>4, <2>5, PageRequestOnly DEF OpenPage, sessionState, flowState
<1>2. ASSUME NEW s \in DOMAIN pageSessions, NEW op \in {"query", "save", "begin", "revoke", "poll", "cancel"},
             NEW f \in Flows \cup {0}, op \in {"poll", "cancel"} => f \in Flows, PageRequest(q, op, s, f)
      PROVE  PagesInv'
  <2> DEFINE t == [pc |-> op, sess |-> s, line |-> pageSessions[s].line, epoch |-> pageEpoch,
                   rev |-> pageRevision, flow |-> f]
  <2>1. s \in 1..pageIssued /\ pageSessions[s].line \in 1..pageIssued
    BY DEF PagesInv, PagesTyped
  <2>2. t \in PageTaskStates
    BY <1>0, <2>1 DEF PageTaskStates, PagePcs
  <2>3. PageTaskFits(q, t)
    BY <1>0, <1>2, <2>1 DEF PageTaskFits, BoundPcs, LockPcs
  <2>4. pageTask' = [pageTask EXCEPT ![q] = t]
    BY <1>2 DEF PageRequest
  <2> HIDE DEF t
  <2> QED BY <1>0, <1>2, <2>2, <2>3, <2>4, PageRequestOnly DEF PageRequest, sessionState, flowState
<1>3. CASE QueryAnswered(q)
  BY <1>0, <1>3, PlainPageStep DEF QueryAnswered, sessionState, flowState
<1>4. CASE PageSaves(q)
  <2>1. pageRevision' \in Nat
    BY <1>0, <1>4 DEF PageSaves, Written
  <2> QED BY <1>0, <1>4, <2>1, PlainPageStep DEF PageSaves, sessionState, flowState
<1>5. CASE PageAnswers(q)
  <2> DEFINE f == pageTask[q].flow
  <2>1. ASSUME pageTask[q].pc = "cancelled", StillCurrent(q) PROVE f \in Flows /\ FlowEnded(f) /\ f \notin wrote
    <3>1. pageTask[q].sess \in DOMAIN pageSessions /\ pageSessions[pageTask[q].sess].line = pageTask[q].line
      BY <1>0, <2>1 DEF StillCurrent, LiveSession, PageTaskFits
    <3> QED BY <1>0, <2>1, <3>1 DEF PageTaskFits, BoundPcs, DeadLine
  <2>2. told' \subseteq Flows /\ \A g \in told' : g \in told \/ (FlowEnded(g) /\ g \notin wrote)
    BY <1>0, <1>5, <2>1 DEF PageAnswers
  <2> QED BY <1>0, <1>5, <2>2, PlainPageStep DEF PageAnswers, sessionState, flowState
<1>6. CASE CancelFlow(q)
  <2>1. CASE PageEnds(q)
    BY <1>0, <1>6, <2>1, PlainPageStep DEF CancelFlow, sessionState, flowState
  <2>2. CASE Bound(q, pageTask[q].flow) /\ PageGoes(q, "cancelling")
    <3> DEFINE t == [pageTask[q] EXCEPT !.pc = "cancelling"]
    <3>1. t \in PageTaskStates /\ t.pc = "cancelling" /\ t.sess = pageTask[q].sess /\ t.line = pageTask[q].line
          /\ t.flow = pageTask[q].flow
      BY <1>0 DEF PageTaskStates, PagePcs
    <3>2. pageTask' = [pageTask EXCEPT ![q] = t]
      BY <2>2 DEF PageGoes
    <3> HIDE DEF t
    <3>3. pageTask[q].pc = "cancel"
      BY <1>6 DEF CancelFlow
    <3>4. PageTaskFits(q, t)
      BY <1>0, <2>2, <3>1, <3>3 DEF PageTaskFits, Bound, LockPcs
    <3> QED BY <1>0, <1>6, <3>1, <3>2, <3>4, PageRequestOnly DEF CancelFlow, sessionState, flowState
  <2> QED BY <1>6, <2>1, <2>2 DEF CancelFlow
<1>7. ASSUME NEW s \in DOMAIN pageSessions, NEW op \in {"query", "save", "begin", "revoke"}, PageRequest(q, op, s, 0)
      PROVE  PagesInv'
  BY <1>2, <1>7
<1>8. ASSUME NEW s \in DOMAIN pageSessions, NEW op \in {"poll", "cancel"}, NEW f \in Flows, PageRequest(q, op, s, f)
      PROVE  PagesInv'
  BY <1>2, <1>8
<1> QED BY <1>1, <1>3, <1>4, <1>5, <1>6, <1>7, <1>8

\* Sessions that only go, with the lineages of the flows they cancel.
LEMMA SessionsShrink ==
    ASSUME PagesInv, UNCHANGED pageIssued, DOMAIN pageSessions' \subseteq DOMAIN pageSessions,
           \A s \in DOMAIN pageSessions' : pageSessions'[s] = pageSessions[s]
    PROVE  /\ SessionsGo /\ OneSessionPerLine'
           /\ DOMAIN pageSessions' \subseteq 1..pageIssued'
           /\ \A s \in DOMAIN pageSessions' : pageSessions'[s].line \in 1..pageIssued'
<1>1. PagesTyped /\ OneSessionPerLine
  BY DEF PagesInv
<1>2. \A s \in DOMAIN pageSessions' : s \in DOMAIN pageSessions /\ pageSessions'[s].line = pageSessions[s].line
  OBVIOUS
<1>3. \A l \in 0..pageIssued : DeadLine(l) => DeadLine(l)'
  BY <1>2 DEF DeadLine
<1>4. OneSessionPerLine'
  BY <1>1, <1>2 DEF OneSessionPerLine
<1> QED BY <1>1, <1>2, <1>3, <1>4 DEF SessionsGo, PagesTyped

\* Steps of the page sessions, the module and the runtime.
LEMMA PageSessionsMove ==
    ASSUME PagesInv, UNCHANGED <<pageIssued, pageTask, flowLock, told, wrote, pageRevision>>, pageEpoch' \in Nat,
           DOMAIN pageSessions' \subseteq DOMAIN pageSessions,
           \A s \in DOMAIN pageSessions' : pageSessions'[s] = pageSessions[s],
           \A f \in Flows : FlowMoves(f), flow' \in [Flows -> FlowStates]
    PROVE  PagesInv'
<1>1. /\ SessionsGo /\ OneSessionPerLine'
      /\ DOMAIN pageSessions' \subseteq 1..pageIssued'
      /\ \A s \in DOMAIN pageSessions' : pageSessions'[s].line \in 1..pageIssued'
  BY SessionsShrink
<1>2. \A f \in Flows : FlowFits(f)' /\ FlowGoesOn(f, "free")
  BY <1>1, FlowsMove
<1>3. \A y \in PageTasks : PageTaskFits(y, pageTask[y])'
  BY <1>1, <1>2, PageTasksStay
<1> QED BY <1>1, <1>2, <1>3 DEF PagesInv, PagesTyped

LEMMA PagesClose ==
    ASSUME PagesInv,
           \/ \E s \in DOMAIN pageSessions : ClosePage(s) \/ ExpirePage(s)
           \/ \E f \in Flows : ExpireFlow(f)
           \/ MoveEpoch \/ RetireModule \/ FencePages
    PROVE  PagesInv'
<1>0. flow \in [Flows -> FlowStates] /\ pageEpoch \in Nat
  BY DEF PagesInv, PagesTyped
<1>1. CASE MoveEpoch
  BY <1>0, <1>1, PageSessionsMove DEF MoveEpoch, flowState, FlowMoves
<1>2. ASSUME NEW s \in DOMAIN pageSessions, ExpirePage(s) PROVE PagesInv'
  <2>1. pageSessions' = [x \in DOMAIN pageSessions \ {s} |-> pageSessions[x]] /\ UNCHANGED <<flow, flowLock>>
    BY <1>2 DEF ExpirePage, flowState
  <2>2. DOMAIN pageSessions' \subseteq DOMAIN pageSessions
        /\ \A r \in DOMAIN pageSessions' : pageSessions'[r] = pageSessions[r]
    BY <2>1
  <2>3. \A f \in Flows : FlowMoves(f)
    BY <2>1 DEF FlowMoves
  <2> QED BY <1>0, <1>2, <2>1, <2>2, <2>3, PageSessionsMove DEF ExpirePage
<1>3. ASSUME NEW s \in DOMAIN pageSessions, ClosePage(s) PROVE PagesInv'
  <2>1. pageSessions' = [x \in DOMAIN pageSessions \ {s} |-> pageSessions[x]]
        /\ flow' = Invalidated({pageSessions[s].line})
    BY <1>3 DEF ClosePage
  <2>2. DOMAIN pageSessions' \subseteq DOMAIN pageSessions
        /\ \A r \in DOMAIN pageSessions' : pageSessions'[r] = pageSessions[r] /\ r # s
    BY <2>1
  <2>3. flow' \in [Flows -> FlowStates]
    BY <1>0, <2>1 DEF Invalidated, FlowStates
  <2>4. ASSUME NEW f \in Flows PROVE FlowMoves(f)
    <3>1. CASE ~(Waiting(f) /\ flow[f].line = pageSessions[s].line)
      BY <2>1, <3>1 DEF Invalidated, FlowMoves
    <3>2. CASE Waiting(f) /\ flow[f].line = pageSessions[s].line
      <4>1. flow'[f] = [flow[f] EXCEPT !.state = "cancelled"]
        BY <2>1, <3>2 DEF Invalidated
      <4>2. flow'[f].line = flow[f].line
        BY <1>0, <4>1 DEF FlowStates
      <4>3. DeadLine(flow[f].line)'
        BY <2>2, <3>2, <4>2 DEF DeadLine, PagesInv, OneSessionPerLine
      <4> QED BY <3>2, <4>1, <4>3 DEF FlowMoves
    <3> QED BY <3>1, <3>2
  <2> QED BY <1>0, <1>3, <2>2, <2>3, <2>4, PageSessionsMove DEF ClosePage
<1>4. ASSUME NEW f \in Flows, ExpireFlow(f) PROVE PagesInv'
  <2>1. flow' = [flow EXCEPT ![f].state = "expired"] /\ UNCHANGED <<pageSessions, pageEpoch>>
    BY <1>4 DEF ExpireFlow, sessionState
  <2>2. flow' \in [Flows -> FlowStates]
    BY <1>0, <2>1 DEF FlowStates
  <2>3. \A g \in Flows : FlowMoves(g)
    BY <1>0, <2>1 DEF FlowMoves
  <2> QED BY <1>0, <1>4, <2>1, <2>2, <2>3, PageSessionsMove DEF ExpireFlow, sessionState
<1>5. ASSUME RetireModule \/ FencePages PROVE PagesInv'
  <2>1. DOMAIN pageSessions' = {} /\ pageEpoch' \in Nat
    BY <1>0, <1>5, PageStarts DEF RetireModule, FencePages
  <2>2. flow' \in [Flows -> FlowStates]
    <3>1. \A f \in Flows : [flow[f] EXCEPT !.state = "cancelled"] \in FlowStates
                         /\ [flow[f] EXCEPT !.state = "closed"] \in FlowStates
      BY <1>0 DEF FlowStates
    <3>2. CASE RetireModule
      BY <1>0, <3>1, <3>2 DEF RetireModule, Invalidated
    <3>3. CASE FencePages
      BY <1>0, <3>1, <3>3 DEF FencePages
    <3> QED BY <1>5, <3>2, <3>3
  <2>3. ASSUME NEW f \in Flows PROVE FlowMoves(f)
    <3>1. DeadLine(flow[f].line)'
      BY <2>1 DEF DeadLine
    <3>2. \/ flow'[f] = flow[f]
          \/ Waiting(f) /\ flow'[f] = [flow[f] EXCEPT !.state = "cancelled"]
          \/ flow'[f] = [flow[f] EXCEPT !.state = "closed"]
      BY <1>5 DEF RetireModule, FencePages, Invalidated
    <3> QED BY <3>1, <3>2 DEF FlowMoves
  <2> QED BY <1>5, <2>1, <2>2, <2>3, PageSessionsMove DEF RetireModule, FencePages
<1> QED BY <1>1, <1>2, <1>3, <1>4, <1>5

\* A page is issued: a fresh lineage, or the one of the session it replaces.
LEMMA PageIssues ==
    ASSUME PagesInv, NEW q \in PageTasks, IssuePage(q)
    PROVE  PagesInv'
<1> DEFINE p == pageTask[q].sess
           s == pageIssued + 1
           line == IF p = 0 THEN s ELSE pageSessions[p].line
<1>0. /\ UNCHANGED <<pageEpoch, flow, flowLock, pageRevision, told, wrote>> /\ PageEnds(q)
      /\ pageIssued \in Nat /\ pageEpoch \in Nat
      /\ DOMAIN pageSessions \subseteq 1..pageIssued /\ OneSessionPerLine
      /\ \A r \in DOMAIN pageSessions : pageSessions[r].line \in 1..pageIssued
  BY DEF IssuePage, flowState, PagesInv, PagesTyped
<1>1. CASE UNCHANGED <<pageSessions, pageIssued>>
  BY <1>0, <1>1, PlainPageStep DEF PagesInv, PagesTyped
<1>2. CASE /\ p # 0 => p \in DOMAIN pageSessions
           /\ pageIssued' = s
           /\ pageSessions' = [x \in (DOMAIN pageSessions \ {p}) \cup {s} |->
                                 IF x = s THEN [epoch |-> pageTask[q].epoch, line |-> line] ELSE pageSessions[x]]
  <2>1. s \notin DOMAIN pageSessions /\ DOMAIN pageSessions' = (DOMAIN pageSessions \ {p}) \cup {s}
        /\ pageIssued' \in Nat /\ pageIssued <= pageIssued' /\ s \in 1..pageIssued' /\ s > pageIssued
    BY <1>0, <1>2
  <2>2. pageSessions'[s].line = line /\ \A x \in DOMAIN pageSessions \ {p} : pageSessions'[x] = pageSessions[x]
    BY <1>2, <2>1
  <2>3. line \in 1..pageIssued' /\ (p # 0 => p \in DOMAIN pageSessions)
    BY <1>0, <1>2, <2>1
  <2>4. line = s \/ (p \in DOMAIN pageSessions /\ line = pageSessions[p].line)
    BY <1>2
  <2> HIDE DEF s, p, line
  <2>5. OneSessionPerLine'
    <3>1. \A x \in DOMAIN pageSessions \ {p} : pageSessions'[x].line # line /\ pageSessions'[x].line # s
      BY <1>0, <2>1, <2>2, <2>4 DEF OneSessionPerLine
    <3> QED BY <1>0, <2>1, <2>2, <3>1 DEF OneSessionPerLine
  <2>6. DOMAIN pageSessions' \subseteq 1..pageIssued'
        /\ \A x \in DOMAIN pageSessions' : pageSessions'[x].line \in 1..pageIssued'
    BY <1>0, <2>1, <2>2, <2>3
  <2>7. SessionsGo
    <3>1. ASSUME NEW l \in 0..pageIssued, DeadLine(l) PROVE DeadLine(l)'
      BY <1>0, <2>1, <2>2, <2>4, <3>1 DEF DeadLine
    <3>2. \A x \in DOMAIN pageSessions' :
              x <= pageIssued => x \in DOMAIN pageSessions /\ pageSessions'[x].line = pageSessions[x].line
      BY <1>0, <2>1, <2>2
    <3> QED BY <1>0, <2>1, <3>1, <3>2 DEF SessionsGo
  <2>8. \A f \in Flows : FlowFits(f)' /\ FlowGoesOn(f, "free")
    BY <1>0, <2>7, FlowsMove DEF FlowMoves
  <2>9. \A f \in Flows : FlowGoesOn(f, q)
    BY <1>0, <2>8 DEF FlowGoesOn
  <2>10. PageTaskFits(q, NoPageTask)'
    BY <2>1, PageStarts DEF PageTaskFits, BoundPcs, LockPcs
  <2>11. pageTask' \in [PageTasks -> PageTaskStates] /\ \A y \in PageTasks : PageTaskFits(y, pageTask[y])'
    BY <1>0, <2>7, <2>9, <2>10, PageStarts, PageTasksGo DEF PageEnds
  <2> QED BY <1>0, <2>1, <2>5, <2>6, <2>8, <2>11 DEF PagesInv, PagesTyped
<1> QED BY <1>1, <1>2 DEF IssuePage

\* A request and the flows move, and no flow is committed.
LEMMA FlowStepMoves ==
    ASSUME PagesInv, NEW q \in PageTasks, NEW t \in PageTaskStates, pageTask' = [pageTask EXCEPT ![q] = t],
           UNCHANGED <<pageSessions, pageIssued, pageEpoch, pageRevision, told, wrote>>,
           \A f \in Flows : FlowMoves(f), flow' \in [Flows -> FlowStates],
           flowLock' \in [Flows -> PageTasks \cup {"free"}],
           \A f \in Flows : flowLock[f] \in {q, "free"} \/ flowLock'[f] = flowLock[f], PageTaskFits(q, t)'
    PROVE  PagesInv'
<1>1. \A f \in Flows : FlowFits(f)' /\ FlowGoesOn(f, q)
  BY SessionsStay, FlowsMove
<1>2. pageRevision' \in Nat /\ told' \subseteq Flows /\ wrote' \subseteq Flows
  BY DEF PagesInv, PagesTyped
<1> QED BY <1>1, <1>2, PageRequestMoves

LEMMA FlowStepEnds ==
    ASSUME PagesInv, NEW q \in PageTasks, PageEnds(q),
           UNCHANGED <<pageSessions, pageIssued, pageEpoch, pageRevision, told, wrote>>,
           \A f \in Flows : FlowMoves(f), flow' \in [Flows -> FlowStates],
           flowLock' \in [Flows -> PageTasks \cup {"free"}],
           \A f \in Flows : flowLock[f] \in {q, "free"} \/ flowLock'[f] = flowLock[f]
    PROVE  PagesInv'
<1>1. pageIssued \in Nat
  BY DEF PagesInv, PagesTyped
<1>2. PageTaskFits(q, NoPageTask)'
  BY <1>1, PageStarts DEF PageTaskFits, BoundPcs, LockPcs
<1> QED BY <1>2, PageStarts, FlowStepMoves DEF PageEnds

\* What the helpers do to the flows.
LEMMA FlowHelpersMove ==
    ASSUME PagesInv, NEW f,
           \/ flow' = flow
           \/ flow' = RevokedFlow(f)
           \/ \E st \in {"error", "expired"} : flow' = Cleared(f, st)
    PROVE  (\A g \in Flows : FlowMoves(g)) /\ flow' \in [Flows -> FlowStates]
<1>0. flow \in [Flows -> FlowStates]
  BY DEF PagesInv, PagesTyped
<1>1. \A st \in {"revoked", "error", "expired"}, g \in Flows : [flow[g] EXCEPT !.state = st] \in FlowStates
  BY <1>0 DEF FlowStates
<1>2. CASE flow' = flow
  BY <1>0, <1>2 DEF FlowMoves
<1>3. CASE flow' = RevokedFlow(f)
  <2>1. flow' = [flow EXCEPT ![f].state = "revoked"]
    BY <1>3 DEF RevokedFlow
  <2>2. \A g \in Flows : flow'[g] = flow[g] \/ flow'[g] = [flow[g] EXCEPT !.state = "revoked"]
    BY <1>0, <2>1
  <2>3. flow' \in [Flows -> FlowStates]
    BY <1>0, <1>1, <2>1
  <2> QED BY <2>2, <2>3 DEF FlowMoves
<1>4. ASSUME NEW st \in {"error", "expired"}, flow' = Cleared(f, st)
      PROVE  (\A g \in Flows : FlowMoves(g)) /\ flow' \in [Flows -> FlowStates]
  <2>1. flow' = [flow EXCEPT ![f].state = IF @ = "waiting" THEN st ELSE @]
    BY <1>4 DEF Cleared
  <2>2. \A g \in Flows : flow'[g] = flow[g] \/ flow'[g] = [flow[g] EXCEPT !.state = st]
    <3>1. \A g \in Flows : [flow[g] EXCEPT !.state = flow[g].state] = flow[g]
      BY <1>0 DEF FlowStates
    <3> QED BY <1>0, <2>1, <3>1
  <2>3. flow' \in [Flows -> FlowStates]
    <3>1. \A g \in Flows : [flow[g] EXCEPT !.state = IF @ = "waiting" THEN st ELSE @] \in FlowStates
      BY <1>0 DEF FlowStates
    <3> QED BY <1>0, <2>1, <3>1
  <2> QED BY <2>2, <2>3 DEF FlowMoves
<1> QED BY <1>2, <1>3, <1>4

LEMMA FlowIsFetched ==
    ASSUME PagesInv, NEW q \in PageTasks, NEW fetched \in BOOLEAN, FlowFetched(q, fetched)
    PROVE  PagesInv'
<1> DEFINE f == pageTask[q].flow
<1>0. /\ UNCHANGED <<pageSessions, pageIssued, pageEpoch, pageRevision, told, wrote, flowLock>>
      /\ flowLock \in [Flows -> PageTasks \cup {"free"}] /\ pageRevision \in Nat /\ told \subseteq Flows
      /\ pageTask[q].pc = "begun"
  BY DEF FlowFetched, sessionState, PagesInv, PagesTyped
<1>1. CASE UNCHANGED flow /\ (PageGoes(q, "answered") \/ PageEnds(q))
  BY <1>0, <1>1, PlainPageStep
<1>2. CASE PageEnds(q) /\ (flow' = Cleared(f, "error") \/ flow' = RevokedFlow(f))
  BY <1>0, <1>2, FlowHelpersMove, FlowStepEnds
<1> QED BY <1>1, <1>2 DEF FlowFetched

LEMMA PollBegins ==
    ASSUME PagesInv, NEW q \in PageTasks, PollEnters(q)
    PROVE  PagesInv'
<1> DEFINE f == pageTask[q].flow
<1>0. /\ UNCHANGED <<pageSessions, pageIssued, pageEpoch, pageRevision, told, wrote>>
      /\ flowLock \in [Flows -> PageTasks \cup {"free"}] /\ pageRevision \in Nat /\ told \subseteq Flows
      /\ pageTask[q].pc = "poll" /\ pageTask[q] \in PageTaskStates /\ PageTaskFits(q, pageTask[q])
  BY DEF PollEnters, sessionState, PagesInv, PagesTyped
<1>1. CASE UNCHANGED <<flow, flowLock>> /\ (PageGoes(q, "answered") \/ PageEnds(q))
  BY <1>0, <1>1, PlainPageStep
<1>2. CASE PageEnds(q) /\ flow' = RevokedFlow(f) /\ UNCHANGED flowLock
  BY <1>0, <1>2, FlowHelpersMove, FlowStepEnds
<1>3. CASE /\ Bound(q, f) /\ flowLock[f] = "free" /\ flowLock' = [flowLock EXCEPT ![f] = q]
           /\ PageGoes(q, "polling") /\ UNCHANGED flow
  <2>1. PICK t \in PageTaskStates :
           /\ t.pc = "polling" /\ t.sess = pageTask[q].sess /\ t.line = pageTask[q].line /\ t.flow = f
           /\ pageTask' = [pageTask EXCEPT ![q] = t]
    <3> DEFINE x == [pageTask[q] EXCEPT !.pc = "polling"]
    <3>1. x \in PageTaskStates /\ x.pc = "polling" /\ x.sess = pageTask[q].sess /\ x.line = pageTask[q].line /\ x.flow = f
      BY <1>0 DEF PageTaskStates, PagePcs
    <3> QED BY <1>3, <3>1 DEF PageGoes
  <2>3. f \in Flows /\ flow[f].state # "none" /\ flow[f].line = pageTask[q].line
    BY <1>0, <1>3 DEF PageTaskFits, Bound
  <2>4. flowLock'[f] = q /\ flowLock' \in [Flows -> PageTasks \cup {"free"}]
        /\ \A g \in Flows : flowLock[g] \in {q, "free"} \/ flowLock'[g] = flowLock[g]
    BY <1>0, <1>3, <2>3
  <2>5. PageTaskFits(q, t)'
    BY <1>0, <1>3, <2>1, <2>3, <2>4 DEF PageTaskFits
  <2>6. (\A g \in Flows : FlowMoves(g)) /\ flow' \in [Flows -> FlowStates]
    BY <1>3 DEF FlowMoves, PagesInv, PagesTyped
  <2> QED BY <1>0, <2>1, <2>4, <2>5, <2>6, FlowStepMoves
<1> QED BY <1>1, <1>2, <1>3 DEF PollEnters, flowState

\* What a request in the lock of its flow knows.
LEMMA LockHolder ==
    ASSUME PagesInv, NEW q \in PageTasks, pageTask[q].pc \in LockPcs
    PROVE  /\ pageTask[q] \in PageTaskStates /\ PageTaskFits(q, pageTask[q])
           /\ pageTask[q].flow \in Flows /\ flowLock[pageTask[q].flow] = q
           /\ flow[pageTask[q].flow] \in FlowStates /\ FlowFits(pageTask[q].flow)
           /\ flow \in [Flows -> FlowStates] /\ flowLock \in [Flows -> PageTasks \cup {"free"}]
<1>1. pageTask[q] \in PageTaskStates /\ PageTaskFits(q, pageTask[q])
      /\ flow \in [Flows -> FlowStates] /\ flowLock \in [Flows -> PageTasks \cup {"free"}]
  BY DEF PagesInv, PagesTyped
<1>2. pageTask[q].flow \in Flows /\ flowLock[pageTask[q].flow] = q
  BY <1>1 DEF PageTaskFits, BoundPcs
<1> QED BY <1>1, <1>2 DEF PagesInv

\* It frees the lock, and ends.
LEMMA LockFreed ==
    ASSUME PagesInv, NEW q \in PageTasks, pageTask[q].pc \in LockPcs,
           flowLock' = [flowLock EXCEPT ![pageTask[q].flow] = "free"]
    PROVE  /\ flowLock' \in [Flows -> PageTasks \cup {"free"}]
           /\ \A g \in Flows : flowLock[g] \in {q, "free"} \/ flowLock'[g] = flowLock[g]
BY LockHolder

\* A commit is concluded, stored or not.
LEMMA CommitConcludes ==
    ASSUME PagesInv, NEW q \in PageTasks, pageTask[q].pc \in {"commit", "stored"}, PageEnds(q),
           NEW st \in {"error", "authorized"}, flow' = Concluded(pageTask[q].flow, st),
           flowLock' = [flowLock EXCEPT ![pageTask[q].flow] = "free"],
           UNCHANGED <<pageSessions, pageIssued, pageEpoch, pageRevision, told, wrote>>
    PROVE  PagesInv'
<1>1. PICK f \in Flows : f = pageTask[q].flow /\ flow[f].committing
  BY LockHolder DEF LockPcs, PageTaskFits
<1>2. /\ flow[f] \in FlowStates /\ FlowFits(f) /\ flow \in [Flows -> FlowStates] /\ flowLock[f] = q
      /\ flowLock \in [Flows -> PageTasks \cup {"free"}] /\ pageIssued \in Nat
  BY <1>1, LockHolder DEF LockPcs, PagesInv, PagesTyped
<1>3. flow' = [flow EXCEPT ![f].state = IF @ = "waiting" THEN st ELSE @, ![f].committing = FALSE]
  BY <1>1 DEF Concluded
<1>4. /\ flow'[f] \in FlowStates /\ ~flow'[f].committing /\ flow'[f].line = flow[f].line
      /\ flow'[f].state = (IF flow[f].state = "waiting" THEN st ELSE flow[f].state)
      /\ \A g \in Flows \ {f} : flow'[g] = flow[g]
  <2> DEFINE x == [flow[f] EXCEPT !.state = IF flow[f].state = "waiting" THEN st ELSE flow[f].state,
                                  !.committing = FALSE]
  <2>1. /\ x \in FlowStates /\ ~x.committing /\ x.line = flow[f].line
        /\ x.state = (IF flow[f].state = "waiting" THEN st ELSE flow[f].state)
    BY <1>2 DEF FlowStates
  <2>2. flow' = [flow EXCEPT ![f] = x]
    BY <1>2, <1>3
  <2> HIDE DEF x
  <2> QED BY <1>2, <2>1, <2>2
<1>5. flow' \in [Flows -> FlowStates]
  BY <1>2, <1>3, <1>4
<1>6. flow'[f].state \notin {"none", "waiting"} /\ (flow'[f].state = "cancelled" => DeadLine(flow[f].line)) /\ f \notin told
  BY <1>1, <1>2, <1>4 DEF FlowFits, FlowEnded
<1>7. ASSUME NEW g \in Flows PROVE FlowFits(g)' /\ FlowGoesOn(g, q)
  <2>1. CASE g = f
    <3>1. FlowFits(f)'
      BY <1>2, <1>4, <1>6 DEF FlowFits, DeadLine
    <3>2. FlowGoesOn(f, q)
      BY <1>1, <1>2, <1>4, <1>6 DEF FlowGoesOn, FlowEnded
    <3> QED BY <2>1, <3>1, <3>2
  <2>2. CASE g # f
    <3>1. flow'[g] = flow[g] /\ flowLock'[g] = flowLock[g]
      BY <1>1, <1>2, <1>4, <2>2
    <3> QED BY <3>1, SessionsStay, FlowFitsOn DEF FlowGoesOn, FlowEnded
  <2> QED BY <2>1, <2>2
<1>8. PageTaskFits(q, NoPageTask)'
  BY <1>2, PageStarts DEF PageTaskFits, BoundPcs, LockPcs
<1>9. flowLock' \in [Flows -> PageTasks \cup {"free"}] /\ pageRevision' \in Nat /\ told' \subseteq Flows /\ wrote' \subseteq Flows
  BY <1>2 DEF PagesInv, PagesTyped
<1> QED BY <1>5, <1>7, <1>8, <1>9, PageStarts, PageRequestMoves DEF PageEnds

LEMMA PollIsFetched ==
    ASSUME PagesInv, NEW q \in PageTasks, NEW answer \in {"success", "pending", "expired", "error"},
           PollFetched(q, answer)
    PROVE  PagesInv'
<1>0. /\ UNCHANGED <<pageSessions, pageIssued, pageEpoch, pageRevision, told, wrote>>
      /\ pageTask[q].pc = "polling" /\ pageRevision \in Nat /\ told \subseteq Flows /\ wrote \subseteq Flows
      /\ pageIssued \in Nat
  BY DEF PollFetched, sessionState, PagesInv, PagesTyped
<1>1. PICK f \in Flows : f = pageTask[q].flow
  BY <1>0, LockHolder DEF LockPcs
<1>2. /\ flow[f] \in FlowStates /\ FlowFits(f) /\ flow \in [Flows -> FlowStates] /\ flowLock[f] = q
      /\ flowLock \in [Flows -> PageTasks \cup {"free"}]
      /\ pageTask[q] \in PageTaskStates /\ PageTaskFits(q, pageTask[q])
  BY <1>0, <1>1, LockHolder DEF LockPcs
<1>3. CASE /\ PageEnds(q) /\ flowLock' = [flowLock EXCEPT ![f] = "free"]
           /\ flow' = flow \/ flow' = RevokedFlow(f) \/ \E st \in {"error", "expired"} : flow' = Cleared(f, st)
  <2>1. (\A g \in Flows : FlowMoves(g)) /\ flow' \in [Flows -> FlowStates]
    BY <1>3, FlowHelpersMove
  <2>2. /\ flowLock' \in [Flows -> PageTasks \cup {"free"}]
        /\ \A g \in Flows : flowLock[g] \in {q, "free"} \/ flowLock'[g] = flowLock[g]
    BY <1>0, <1>1, <1>3, LockFreed DEF LockPcs
  <2> QED BY <1>0, <1>3, <2>1, <2>2, FlowStepEnds
<1>4. CASE /\ Waiting(f) /\ flow' = [flow EXCEPT ![f].committing = TRUE] /\ PageGoes(q, "commit")
           /\ UNCHANGED flowLock
  <2>1. PICK t \in PageTaskStates :
           /\ t.pc = "commit" /\ t.sess = pageTask[q].sess /\ t.line = pageTask[q].line /\ t.flow = f
           /\ pageTask' = [pageTask EXCEPT ![q] = t]
    <3> DEFINE x == [pageTask[q] EXCEPT !.pc = "commit"]
    <3>1. x \in PageTaskStates /\ x.pc = "commit" /\ x.sess = pageTask[q].sess /\ x.line = pageTask[q].line /\ x.flow = f
      BY <1>1, <1>2 DEF PageTaskStates, PagePcs
    <3> QED BY <1>4, <3>1 DEF PageGoes
  <2>2. /\ flow'[f] \in FlowStates /\ flow'[f].committing /\ flow'[f].line = flow[f].line
        /\ flow'[f].state = "waiting" /\ \A g \in Flows \ {f} : flow'[g] = flow[g]
    BY <1>2, <1>4 DEF FlowStates, Waiting
  <2>3. flow' \in [Flows -> FlowStates]
    BY <1>2, <1>4, <2>2
  <2>4. f \notin told
    BY <1>2, <1>4 DEF FlowFits, FlowEnded, Waiting
  <2>5. ASSUME NEW g \in Flows PROVE FlowFits(g)' /\ FlowGoesOn(g, q)
    <3>1. CASE g = f
      <4>1. FlowFits(f)'
        BY <1>0, <1>2, <2>2, <2>4 DEF FlowFits
      <4>2. FlowGoesOn(f, q)
        BY <1>0, <1>2, <1>4, <2>2 DEF FlowGoesOn, FlowEnded, Waiting
      <4> QED BY <3>1, <4>1, <4>2
    <3>2. CASE g # f
      <4>1. flow'[g] = flow[g] /\ flowLock'[g] = flowLock[g]
        BY <1>4, <2>2, <3>2
      <4> QED BY <1>0, <4>1, SessionsStay, FlowFitsOn DEF FlowGoesOn, FlowEnded
    <3> QED BY <3>1, <3>2
  <2>6. PageTaskFits(q, t)'
    BY <1>0, <1>1, <1>2, <1>4, <2>1, <2>2 DEF PageTaskFits, BoundPcs, LockPcs
  <2> QED BY <1>0, <1>2, <1>4, <2>1, <2>3, <2>5, <2>6, PageRequestMoves
<1> QED BY <1>1, <1>3, <1>4 DEF PollFetched

LEMMA PollIsStored ==
    ASSUME PagesInv, NEW q \in PageTasks, NEW stored \in BOOLEAN, PollStores(q, stored)
    PROVE  PagesInv'
<1>0. UNCHANGED <<pageSessions, pageIssued, pageEpoch, told>> /\ pageTask[q].pc = "commit"
      /\ pageRevision \in Nat /\ told \subseteq Flows /\ wrote \subseteq Flows
  BY DEF PollStores, sessionState, PagesInv, PagesTyped
<1>1. CASE ~stored
  BY <1>0, <1>1, CommitConcludes DEF PollStores
<1>2. CASE stored
  <2>0. /\ UNCHANGED <<flow, flowLock>> /\ pageRevision' \in Nat /\ PageGoes(q, "stored")
        /\ wrote' = wrote \cup {pageTask[q].flow}
    BY <1>0, <1>2 DEF PollStores, flowState, Written
  <2>1. PICK f \in Flows : f = pageTask[q].flow /\ flow[f].committing
    BY <1>0, LockHolder DEF LockPcs, PageTaskFits
  <2>2. /\ flow \in [Flows -> FlowStates] /\ flowLock \in [Flows -> PageTasks \cup {"free"}]
        /\ pageTask[q] \in PageTaskStates /\ PageTaskFits(q, pageTask[q])
    BY <1>0, LockHolder DEF LockPcs
  <2>3. PICK t \in PageTaskStates :
           /\ t.pc = "stored" /\ t.sess = pageTask[q].sess /\ t.line = pageTask[q].line /\ t.flow = f
           /\ pageTask' = [pageTask EXCEPT ![q] = t]
    <3> DEFINE x == [pageTask[q] EXCEPT !.pc = "stored"]
    <3>1. x \in PageTaskStates /\ x.pc = "stored" /\ x.sess = pageTask[q].sess /\ x.line = pageTask[q].line /\ x.flow = f
      BY <2>1, <2>2 DEF PageTaskStates, PagePcs
    <3> QED BY <2>0, <3>1 DEF PageGoes
  <2>4. \A g \in Flows : FlowFits(g)' /\ FlowGoesOn(g, q)
    <3>1. \A g \in Flows : g \in wrote' => g \in wrote \/ flow[g].committing
      BY <2>0, <2>1
    <3>2. \A g \in Flows : flow'[g] = flow[g] /\ flowLock'[g] = flowLock[g]
      BY <2>0
    <3>3. \A g \in Flows : FlowFits(g)'
      BY <1>0, <3>1, <3>2, SessionsStay, FlowFitsOn
    <3> QED BY <3>1, <3>2, <3>3 DEF FlowGoesOn, FlowEnded
  <2>5. PageTaskFits(q, t)'
    BY <1>0, <2>0, <2>1, <2>2, <2>3 DEF PageTaskFits, BoundPcs, LockPcs
  <2>6. wrote' \subseteq Flows
    BY <1>0, <2>0, <2>1
  <2> QED BY <1>0, <2>0, <2>2, <2>3, <2>4, <2>5, <2>6, PageRequestMoves
<1> QED BY <1>1, <1>2

LEMMA CancelIsAnswered ==
    ASSUME PagesInv, NEW q \in PageTasks, CancelAnswers(q)
    PROVE  PagesInv'
<1>0. /\ UNCHANGED <<pageSessions, pageIssued, pageEpoch, pageRevision, told, wrote, flowLock>>
      /\ pageTask[q].pc = "cancelling" /\ pageTask[q] \in PageTaskStates /\ PageTaskFits(q, pageTask[q])
      /\ flow \in [Flows -> FlowStates] /\ flowLock \in [Flows -> PageTasks \cup {"free"}]
      /\ pageRevision \in Nat /\ told \subseteq Flows /\ wrote \subseteq Flows
  BY DEF CancelAnswers, sessionState, PagesInv, PagesTyped
<1>1. PICK f \in Flows : /\ f = pageTask[q].flow /\ flow[f].line = pageTask[q].line /\ flow[f].state # "none"
                         /\ ~flow[f].committing
  BY <1>0 DEF PageTaskFits, BoundPcs, CancelAnswers, CancelWaits
<1>2. /\ flow' = [flow EXCEPT ![f].state = IF @ = "waiting" THEN "cancelled" ELSE @]
      /\ PageGoes(q, IF flow'[f].state = "cancelled" THEN "cancelled" ELSE "answered")
  BY <1>1 DEF CancelAnswers
<1>3. /\ \A g \in Flows \ {f} : flow'[g] = flow[g]
      /\ flow'[f] = [flow[f] EXCEPT !.state = IF @ = "waiting" THEN "cancelled" ELSE @]
  BY <1>0, <1>2
<1>4. flow'[f] = flow[f] \/ (Waiting(f) /\ flow'[f] = [flow[f] EXCEPT !.state = "cancelled"])
  <2>1. [flow[f] EXCEPT !.state = flow[f].state] = flow[f]
    BY <1>0 DEF FlowStates
  <2> QED BY <1>3, <2>1 DEF Waiting
<1>5. \A g \in Flows : FlowMoves(g)
  BY <1>1, <1>3, <1>4 DEF FlowMoves
<1>6. \A g \in Flows : FlowFits(g)' /\ FlowGoesOn(g, q) /\ flow'[g] \in FlowStates
  BY <1>0, <1>5, SessionsStay, FlowsMove
<1>7. flow' \in [Flows -> FlowStates]
  BY <1>0, <1>2, <1>6
<1>8. flow'[f].line = flow[f].line /\ ~flow'[f].committing
  BY <1>0, <1>1, <1>4 DEF FlowStates
<1>9. PICK t \in PageTaskStates :
         /\ t.sess = pageTask[q].sess /\ t.line = pageTask[q].line /\ t.flow = f
         /\ t.pc \in {"cancelled", "answered"} /\ (t.pc = "cancelled" => flow'[f].state = "cancelled")
         /\ pageTask' = [pageTask EXCEPT ![q] = t]
  <2> DEFINE pc == IF flow'[f].state = "cancelled" THEN "cancelled" ELSE "answered"
             x == [pageTask[q] EXCEPT !.pc = pc]
  <2>1. pc \in {"cancelled", "answered"} /\ (pc = "cancelled" => flow'[f].state = "cancelled")
    OBVIOUS
  <2>2. pageTask' = [pageTask EXCEPT ![q] = x]
    BY <1>2 DEF PageGoes
  <2> HIDE DEF pc
  <2>3. x \in PageTaskStates /\ x.pc = pc /\ x.sess = pageTask[q].sess /\ x.line = pageTask[q].line /\ x.flow = f
    BY <1>0, <1>1, <2>1 DEF PageTaskStates, PagePcs
  <2> HIDE DEF x
  <2> QED BY <2>1, <2>2, <2>3
<1>10. ASSUME t.pc = "cancelled" PROVE FlowEnded(f)' /\ (f \in wrote' => DeadLine(t.line)')
  <2>1. flow'[f].state = "cancelled" /\ flow'[f].line = t.line
    BY <1>1, <1>8, <1>9, <1>10
  <2> QED BY <1>6, <1>8, <2>1 DEF FlowFits, FlowEnded, DeadLine
<1>11. PageTaskFits(q, t)'
  BY <1>0, <1>1, <1>8, <1>9, <1>10 DEF PageTaskFits, BoundPcs, LockPcs
<1> QED BY <1>0, <1>6, <1>7, <1>9, <1>11, PageRequestMoves

LEMMA FlowsAreRevoked ==
    ASSUME PagesInv, NEW q \in PageTasks, RevokeFlows(q)
    PROVE  PagesInv'
<1>0. /\ UNCHANGED <<pageSessions, pageIssued, pageEpoch, pageRevision, told, wrote, flowLock>>
      /\ pageTask[q].pc = "revoke" /\ pageTask[q] \in PageTaskStates /\ PageTaskFits(q, pageTask[q])
      /\ flow \in [Flows -> FlowStates] /\ flowLock \in [Flows -> PageTasks \cup {"free"}]
      /\ pageRevision \in Nat /\ told \subseteq Flows
  BY DEF RevokeFlows, sessionState, PagesInv, PagesTyped
<1>1. CASE UNCHANGED flow /\ PageEnds(q)
  BY <1>0, <1>1, PlainPageStep
<1>2. CASE /\ PageGoes(q, "save")
           /\ flow' = [f \in Flows |-> IF Waiting(f) /\ flow[f].epoch = pageTask[q].epoch
                                     THEN [flow[f] EXCEPT !.state = "revoked"] ELSE flow[f]]
  <2>1. \A f \in Flows : flow'[f] = flow[f] \/ flow'[f] = [flow[f] EXCEPT !.state = "revoked"]
    BY <1>2
  <2>2. \A f \in Flows : FlowMoves(f)
    BY <2>1 DEF FlowMoves
  <2>3. \A f \in Flows : flow'[f] \in FlowStates
    BY <1>0, <2>2, SessionsStay, FlowsMove
  <2>4. flow' \in [Flows -> FlowStates]
    BY <1>2, <2>3
  <2>5. PICK t \in PageTaskStates :
           /\ t.pc = "save" /\ t.sess = pageTask[q].sess /\ t.line = pageTask[q].line
           /\ pageTask' = [pageTask EXCEPT ![q] = t]
    <3> DEFINE x == [pageTask[q] EXCEPT !.pc = "save"]
    <3>1. x \in PageTaskStates /\ x.pc = "save" /\ x.sess = pageTask[q].sess /\ x.line = pageTask[q].line
      BY <1>0 DEF PageTaskStates, PagePcs
    <3> QED BY <1>2, <3>1 DEF PageGoes
  <2>6. PageTaskFits(q, t)'
    BY <1>0, <2>5 DEF PageTaskFits, BoundPcs, LockPcs
  <2> QED BY <1>0, <2>2, <2>4, <2>5, <2>6, FlowStepMoves
<1> QED BY <1>1, <1>2 DEF RevokeFlows

LEMMA PageDisconnects ==
    ASSUME PagesInv, NEW q \in PageTasks, Disconnect(q)
    PROVE  PagesInv'
<1>0. /\ UNCHANGED <<pageSessions, pageIssued, pageEpoch, pageRevision, told, wrote>>
      /\ flow' = flow \/ flow' = Cleared(pageTask[q].flow, "error")
      /\ PageEnds(q) /\ flowLock' = [f \in Flows |-> IF flowLock[f] = q THEN "free" ELSE flowLock[f]]
      /\ flowLock \in [Flows -> PageTasks \cup {"free"}]
  BY DEF Disconnect, sessionState, PagesInv, PagesTyped
<1>1. (\A g \in Flows : FlowMoves(g)) /\ flow' \in [Flows -> FlowStates]
  BY <1>0, FlowHelpersMove
<1>2. /\ flowLock' \in [Flows -> PageTasks \cup {"free"}]
      /\ \A g \in Flows : flowLock[g] \in {q, "free"} \/ flowLock'[g] = flowLock[g]
  BY <1>0
<1> QED BY <1>0, <1>1, <1>2, FlowStepEnds

\* begin: a fresh flow, and the earlier ones of the page end.
LEMMA FlowBegins ==
    ASSUME PagesInv, NEW q \in PageTasks, NEW f \in Flows, BeginFlow(q, f)
    PROVE  PagesInv'
<1> DEFINE mine == {g \in Flows : flow[g].line = pageTask[q].line /\ flow[g].epoch = pageTask[q].epoch /\ Waiting(g)}
           fresh == [state |-> "waiting", line |-> pageTask[q].line, epoch |-> pageTask[q].epoch,
                     rev |-> pageTask[q].rev, committing |-> FALSE]
<1>0. /\ UNCHANGED <<pageSessions, pageIssued, pageEpoch, pageRevision, told, wrote, flowLock>>
      /\ pageTask[q].pc = "begin" /\ pageTask[q] \in PageTaskStates /\ PageTaskFits(q, pageTask[q])
      /\ flow \in [Flows -> FlowStates] /\ flowLock \in [Flows -> PageTasks \cup {"free"}]
      /\ pageRevision \in Nat /\ told \subseteq Flows /\ wrote \subseteq Flows /\ flow[f] = NoFlow /\ FlowFits(f)
      /\ pageIssued \in Nat
  BY DEF BeginFlow, sessionState, PagesInv, PagesTyped
<1>1. CASE PageEnds(q) /\ UNCHANGED flow
  BY <1>0, <1>1, PlainPageStep
<1>2. CASE /\ \A g \in mine : ~flow[g].committing
           /\ flow' = [g \in Flows |-> IF g = f THEN fresh
                                       ELSE IF g \in mine THEN [flow[g] EXCEPT !.state = "cancelled"] ELSE flow[g]]
           /\ pageTask' = [pageTask EXCEPT ![q].pc = "begun", ![q].flow = f]
  <2>1. /\ flow'[f] \in FlowStates /\ flow'[f].state = "waiting" /\ flow'[f].line = pageTask[q].line
        /\ ~flow'[f].committing
    BY <1>0, <1>2 DEF FlowStates, PageTaskStates
  <2>2. ASSUME NEW g \in Flows \ {f} PROVE FlowFits(g)' /\ FlowGoesOn(g, q) /\ flow'[g] \in FlowStates
    <3>1. flow'[g] = flow[g] \/ (flow'[g] = [flow[g] EXCEPT !.state = "cancelled"] /\ Waiting(g) /\ ~flow[g].committing)
      BY <1>2
    <3>2. FlowMoves(g)
      BY <3>1 DEF FlowMoves
    <3> QED BY <1>0, <3>2, SessionsStay, FlowMovesOn
  <2>3. f \notin wrote /\ f \notin told /\ pageTask[q].line <= pageIssued
    BY <1>0, PageStarts DEF FlowFits, FlowEnded, PageTaskFits
  <2>4. FlowFits(f)'
    BY <1>0, <2>1, <2>3 DEF FlowFits
  <2>5. FlowGoesOn(f, q)
    BY <1>0, <2>1, PageStarts DEF FlowGoesOn, FlowEnded
  <2>6. flow' \in [Flows -> FlowStates]
    BY <1>2, <2>1, <2>2
  <2>7. PICK t \in PageTaskStates :
           /\ t.pc = "begun" /\ t.sess = pageTask[q].sess /\ t.line = pageTask[q].line /\ t.flow = f
           /\ pageTask' = [pageTask EXCEPT ![q] = t]
    <3> DEFINE x == [pageTask[q] EXCEPT !.pc = "begun", !.flow = f]
    <3>1. x \in PageTaskStates /\ x.pc = "begun" /\ x.sess = pageTask[q].sess /\ x.line = pageTask[q].line /\ x.flow = f
      BY <1>0 DEF PageTaskStates, PagePcs
    <3> QED BY <1>2, <3>1
  <2>8. PageTaskFits(q, t)'
    BY <1>0, <2>7 DEF PageTaskFits, BoundPcs, LockPcs
  <2> QED BY <1>0, <2>2, <2>4, <2>5, <2>6, <2>7, <2>8, PageRequestMoves
<1> QED BY <1>1, <1>2 DEF BeginFlow

LEMMA PagesStep == PagesInv /\ [PageNext]_pageVars => PagesInv'
<1> SUFFICES ASSUME PagesInv, [PageNext]_pageVars PROVE PagesInv'
  OBVIOUS
<1>1. ASSUME NEW q \in PageTasks, NEW b \in BOOLEAN, PollConcludes(q, b) PROVE PagesInv'
  BY <1>1, CommitConcludes DEF PollConcludes, sessionState
<1>2. CASE UNCHANGED pageVars
  BY <1>2 DEF pageVars, sessionState, flowState, PagesInv, PagesTyped, OneSessionPerLine, PageTaskFits, FlowFits,
     FlowEnded, DeadLine
<1>3. ASSUME NEW q \in PageTasks,
             \/ \E previous \in 0..MaxPageSessions : OpenPage(q, previous)
             \/ IssuePage(q) \/ QueryAnswered(q) \/ PageSaves(q) \/ PageAnswers(q) \/ Disconnect(q)
             \/ \E s \in DOMAIN pageSessions :
                   \/ \E op \in {"query", "save", "begin", "revoke"} : PageRequest(q, op, s, 0)
                   \/ \E op \in {"poll", "cancel"}, f \in Flows :
                         flow[f] # NoFlow /\ PageRequest(q, op, s, f)
             \/ \E f \in Flows : BeginFlow(q, f)
             \/ \E fetched \in BOOLEAN : FlowFetched(q, fetched)
             \/ PollEnters(q)
             \/ \E answer \in {"success", "pending", "expired", "error"} : PollFetched(q, answer)
             \/ \E b \in BOOLEAN : PollStores(q, b) \/ PollConcludes(q, b)
             \/ CancelFlow(q) \/ CancelAnswers(q) \/ RevokeFlows(q)
      PROVE  PagesInv'
  BY <1>1, <1>3, PageRequestsMove, PageIssues, PageDisconnects, FlowBegins, FlowIsFetched, PollBegins, PollIsFetched,
     PollIsStored, CancelIsAnswered, FlowsAreRevoked
<1> QED BY <1>2, <1>3, PagesClose DEF PageNext

\* What a request writes is fenced as it commits.
LEMMA WritesFenced == PagesInv /\ PageNext => WriteIsLive
<1> SUFFICES ASSUME PagesInv, PageNext, pageRevision' # pageRevision
             PROVE  \E q \in PageTasks :
                       /\ pageTask[q].pc \in {"save", "commit"} /\ pageTask'[q] # pageTask[q]
                       /\ ~pageFence /\ pageTask[q].epoch = pageEpoch
                       /\ pageTask[q].sess \in DOMAIN pageSessions
  BY DEF WriteIsLive
<1>1. pageTask \in [PageTasks -> PageTaskStates]
  BY DEF PagesInv, PagesTyped
<1>2. ASSUME NEW q \in PageTasks, NEW pc \in {"answered", "stored"}, pageTask[q].pc \in {"save", "commit"},
             CommitFence(q), PageGoes(q, pc)
      PROVE  /\ pageTask[q].pc \in {"save", "commit"} /\ pageTask'[q] # pageTask[q]
             /\ ~pageFence /\ pageTask[q].epoch = pageEpoch
             /\ pageTask[q].sess \in DOMAIN pageSessions
  <2>1. pageTask'[q].pc = pc
    BY <1>1, <1>2 DEF PageGoes, PageTaskStates
  <2> QED BY <1>2, <2>1 DEF CommitFence, StillCurrent, LiveSession
<1>3. ASSUME NEW q \in PageTasks, PageSaves(q)
      PROVE  pageTask[q].pc \in {"save", "commit"} /\ CommitFence(q) /\ PageGoes(q, "answered")
  BY <1>3 DEF PageSaves
<1>4. ASSUME NEW q \in PageTasks, NEW b \in BOOLEAN, PollStores(q, b)
      PROVE  pageTask[q].pc \in {"save", "commit"} /\ CommitFence(q) /\ PageGoes(q, "stored")
  BY <1>4 DEF PollStores
<1>5. ASSUME NEW q \in PageTasks,
             \/ \E previous \in 0..MaxPageSessions : OpenPage(q, previous)
             \/ IssuePage(q) \/ QueryAnswered(q) \/ PageAnswers(q) \/ Disconnect(q)
             \/ \E s \in DOMAIN pageSessions, op \in {"query", "save", "begin", "revoke", "poll", "cancel"},
                   f \in Flows \cup {0} : PageRequest(q, op, s, f)
      PROVE  FALSE
  BY <1>5 DEF OpenPage, IssuePage, QueryAnswered, PageAnswers, Disconnect, PageRequest
<1>6. ASSUME NEW q \in PageTasks,
             \/ \E f \in Flows : BeginFlow(q, f)
             \/ \E fetched \in BOOLEAN : FlowFetched(q, fetched)
             \/ PollEnters(q)
             \/ \E answer \in {"success", "pending", "expired", "error"} : PollFetched(q, answer)
             \/ \E b \in BOOLEAN : PollConcludes(q, b)
             \/ CancelFlow(q) \/ CancelAnswers(q) \/ RevokeFlows(q)
      PROVE  FALSE
  BY <1>6 DEF BeginFlow, FlowFetched, PollEnters, PollFetched, PollConcludes, CancelFlow, CancelAnswers, RevokeFlows
<1>7. ASSUME \/ \E s \in DOMAIN pageSessions : ClosePage(s) \/ ExpirePage(s)
             \/ \E f \in Flows : ExpireFlow(f)
             \/ MoveEpoch \/ RetireModule \/ FencePages
      PROVE  FALSE
  BY <1>7 DEF ClosePage, ExpirePage, ExpireFlow, MoveEpoch, RetireModule, FencePages
<1>8. \E q \in PageTasks : PageSaves(q) \/ \E b \in BOOLEAN : PollStores(q, b)
  BY <1>5, <1>6, <1>7 DEF PageNext
<1> QED BY <1>2, <1>3, <1>4, <1>8

\* The pages, for any requests, sessions, flows, epochs and revisions: a cancel that was
\* answered stored nothing and never will, and no write outlives its session.
THEOREM PagesFenced == MCSpec => PagesAreFenced
<1> DEFINE Kept == entrance = "pages" => PagesInv
           Fenced == entrance = "pages" => CancelTellsTruth' /\ WriteIsLive
<1>1. MCInit => Kept
  BY PagesInitInv DEF MCInit
<1>2. Kept /\ [MCNext]_AllVars => Kept'
  BY PagesStep DEF MCNext, AllVars
<1>3. ASSUME Kept, MCNext, entrance = "pages"
      PROVE  CancelTellsTruth' /\ WriteIsLive
  <2>1. PageNext /\ PagesInv
    BY <1>3 DEF MCNext
  <2>2. PagesInv'
    BY <2>1, PagesStep
  <2>3. CancelTellsTruth'
    BY <2>2 DEF PagesInv, PagesTyped, FlowFits, CancelTellsTruth
  <2> QED BY <2>1, <2>3, WritesFenced
<1>4. Kept /\ [MCNext]_AllVars => [Fenced]_pageVars
  BY <1>3 DEF AllVars
<1> QED BY <1>1, <1>2, <1>4, PTL DEF MCSpec, PagesAreFenced, AllVars
=============================================================================
