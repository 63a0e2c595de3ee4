---------------------------- MODULE ModulePages ----------------------------
(***************************************************************************)
(* Requests of the dashboard's module pages: page sessions                 *)
(* (HostModulePageSessions), public query tickets (HostPublicWebValidator),*)
(* configuration writes, and the QR-code authorization flows that store a  *)
(* source credential (SourceAuthorizations).  One module with one page and *)
(* one flow, one administrator with several requests in flight.            *)
(*                                                                         *)
(* A request is checked when it enters, again after its awaits, and its    *)
(* write carries a fence that SQLite evaluates as it commits.              *)
(***************************************************************************)
EXTENDS Naturals, FiniteSets

CONSTANTS
    PageTasks,         \* dashboard requests in flight
    MaxPageSessions,   \* bound on page sessions ever issued (capacity 128)
    MaxFlows,          \* bound on authorization sessions ever begun
    MaxPageEpochs,     \* bound on the module's epochs
    MaxPageRevision    \* bound on configuration revisions

ASSUME PageAssumption ==
    /\ IsFiniteSet(PageTasks) /\ "free" \notin PageTasks
    /\ {MaxPageSessions, MaxFlows, MaxPageEpochs, MaxPageRevision} \subseteq Nat \ {0}

Flows == 1..MaxFlows

VARIABLES
    pageEpoch,     \* registry and lifecycle: the module's epoch
    pageFence,     \* the runtime stopped: sessions and flows closed
    pageSessions,  \* handle -> [epoch, line]: HostModulePageSessions._sessions
    pageIssued,    \* handles issued so far
    tickets,       \* requests that hold a public query ticket
    flow,          \* flow session -> [state, line, epoch, rev, committing]
    flowLock,      \* flow session -> holder of its lock, or "free"
    pageRevision,  \* revision of the module's configuration
    pageTask,      \* request -> coroutine
    told,          \* flow sessions whose cancel answered "cancelled"
    wrote          \* flow sessions whose credential was stored

sessionState == <<pageEpoch, pageFence, pageSessions, pageIssued>>
flowState == <<flow, flowLock>>
pageVars == <<sessionState, tickets, flowState, pageRevision, pageTask, told, wrote>>

NoPageTask == [pc |-> "idle", sess |-> 0, line |-> 0, epoch |-> 0, rev |-> 0, flow |-> 0]
NoFlow == [state |-> "none", line |-> 0, epoch |-> 0, rev |-> 0, committing |-> FALSE]

PageInit ==
    /\ pageEpoch = 1 /\ pageFence = FALSE
    /\ pageSessions = << >> /\ pageIssued = 0
    /\ tickets = {}
    /\ flow = [f \in Flows |-> NoFlow]
    /\ flowLock = [f \in Flows |-> "free"]
    /\ pageRevision = 1
    /\ pageTask = [q \in PageTasks |-> NoPageTask]
    /\ told = {} /\ wrote = {}

PageGoes(q, pc) == pageTask' = [pageTask EXCEPT ![q].pc = pc]
PageEnds(q) == pageTask' = [pageTask EXCEPT ![q] = NoPageTask]

\* clear and _archive of a session that still waits; a failed guard clears it
\* whatever its state.
Cleared(f, state) == [flow EXCEPT ![f].state = IF @ = "waiting" THEN state ELSE @]
RevokedFlow(f) == [flow EXCEPT ![f].state = "revoked"]
Concluded(f, state) ==
    [flow EXCEPT ![f].state = IF @ = "waiting" THEN state ELSE @, ![f].committing = FALSE]
Waiting(f) == flow[f].state = "waiting"

-----------------------------------------------------------------------------
\* Page sessions.

\* require: the handle exists and names this runtime and module epoch.
LiveSession(s, epoch) ==
    /\ ~pageFence /\ epoch = pageEpoch
    /\ s \in DOMAIN pageSessions /\ pageSessions[s].epoch = epoch

\* request_current, binding_now and require, for the request as it stands.
StillCurrent(q) == LiveSession(pageTask[q].sess, pageTask[q].epoch)

\* Bootstrap: binding_now, then an authorization for every field (awaits).
OpenPage(q, previous) ==
    /\ pageTask[q].pc = "idle" /\ ~pageFence
    /\ previous # 0 => LiveSession(previous, pageEpoch)
    /\ pageTask' = [pageTask EXCEPT ![q].pc = "boot", ![q].epoch = pageEpoch, ![q].sess = previous]
    /\ UNCHANGED <<sessionState, tickets, flowState, pageRevision, told, wrote>>

\* issue: a fresh handle; a renewal removes the previous one and keeps its
\* lineage.
IssuePage(q) ==
    LET t == pageTask[q]
        s == pageIssued + 1
        kept == DOMAIN pageSessions \ {t.sess}
        line == IF t.sess = 0 THEN s ELSE pageSessions[t.sess].line
    IN  /\ t.pc = "boot"
        /\ IF /\ ~pageFence /\ t.epoch = pageEpoch /\ s <= MaxPageSessions
              /\ t.sess # 0 => t.sess \in DOMAIN pageSessions
           THEN /\ pageSessions' = [x \in kept \cup {s} |->
                       IF x = s THEN [epoch |-> t.epoch, line |-> line] ELSE pageSessions[x]]
                /\ pageIssued' = s
           ELSE UNCHANGED <<pageSessions, pageIssued>>
        /\ PageEnds(q)
        /\ UNCHANGED <<pageEpoch, pageFence, tickets, flowState, pageRevision, told, wrote>>

\* invalidate: the waiting flow sessions of a lineage, or of the owner.
Invalidated(lines) ==
    [f \in Flows |-> IF Waiting(f) /\ flow[f].line \in lines
                     THEN [flow[f] EXCEPT !.state = "cancelled"] ELSE flow[f]]

\* module-page-session-close: the session goes and so do its flows.
ClosePage(s) ==
    /\ s \in DOMAIN pageSessions
    /\ pageSessions' = [x \in DOMAIN pageSessions \ {s} |-> pageSessions[x]]
    /\ flow' = Invalidated({pageSessions[s].line})
    /\ UNCHANGED <<pageEpoch, pageFence, pageIssued, tickets, flowLock, pageRevision, pageTask,
                   told, wrote>>

\* _prune: a session lives at most 30 seconds.
ExpirePage(s) ==
    /\ s \in DOMAIN pageSessions
    /\ pageSessions' = [x \in DOMAIN pageSessions \ {s} |-> pageSessions[x]]
    /\ UNCHANGED <<pageEpoch, pageFence, pageIssued, tickets, flowState, pageRevision, pageTask,
                   told, wrote>>

\* The module is disabled and enabled again: a new epoch.
MoveEpoch ==
    /\ pageEpoch < MaxPageEpochs
    /\ pageEpoch' = pageEpoch + 1
    /\ UNCHANGED <<pageFence, pageSessions, pageIssued, tickets, flowState, pageRevision,
                   pageTask, told, wrote>>

\* _cleanup_module_owner: its sessions, flows and tickets go with the owner.
RetireModule ==
    /\ pageEpoch < MaxPageEpochs
    /\ pageEpoch' = pageEpoch + 1
    /\ pageSessions' = << >>
    /\ flow' = Invalidated(0..MaxPageSessions)
    /\ tickets' = {}
    /\ UNCHANGED <<pageFence, pageIssued, flowLock, pageRevision, pageTask, told, wrote>>

\* terminate closes the sessions and the flows.
FencePages ==
    /\ ~pageFence
    /\ pageFence' = TRUE
    /\ pageSessions' = << >>
    /\ flow' = [f \in Flows |-> IF Waiting(f) THEN [flow[f] EXCEPT !.state = "closed"] ELSE flow[f]]
    /\ tickets' = {}
    /\ UNCHANGED <<pageEpoch, pageIssued, flowLock, pageRevision, pageTask, told, wrote>>

-----------------------------------------------------------------------------
\* Requests of an open page.

\* module_page_operation up to its first await on the operation itself; the
\* client names the revision it saw and, for poll and cancel, the flow.
PageRequest(q, op, s, f) ==
    /\ pageTask[q].pc = "idle"
    /\ LiveSession(s, pageEpoch)
    /\ pageTask' = [pageTask EXCEPT ![q] =
          [pc |-> op, sess |-> s, line |-> pageSessions[s].line, epoch |-> pageEpoch,
           rev |-> pageRevision, flow |-> f]]
    /\ tickets' = IF op = "query" THEN tickets \cup {q} ELSE tickets
    /\ UNCHANGED <<sessionState, flowState, pageRevision, told, wrote>>

\* module-invoke: the result returns only with a ticket of the same route
\* and a request that is still current; the ticket is revoked either way.
QueryAnswered(q) ==
    /\ pageTask[q].pc = "query"
    /\ IF StillCurrent(q) /\ q \in tickets THEN PageGoes(q, "answered") ELSE PageEnds(q)
    /\ tickets' = tickets \ {q}
    /\ UNCHANGED <<sessionState, flowState, pageRevision, told, wrote>>

\* The commit guard of the grant: the request is current and the revision is
\* the expected one, inside the transaction.
CommitFence_EntryOnly(q) == pageRevision = pageTask[q].rev
CommitFence(q) == StillCurrent(q) /\ pageRevision = pageTask[q].rev

Written == pageRevision < MaxPageRevision /\ pageRevision' = pageRevision + 1

\* module-config-save, module-config-clear.
PageSaves(q) ==
    /\ pageTask[q].pc = "save"
    /\ \/ CommitFence(q) /\ Written /\ PageGoes(q, "answered")
       \/ ~CommitFence(q) /\ PageEnds(q) /\ UNCHANGED pageRevision
    /\ UNCHANGED <<sessionState, tickets, flowState, told, wrote>>

\* check_page_binding and source.check after the operation: answer or denial.
PageAnswers(q) ==
    /\ pageTask[q].pc \in {"answered", "cancelled"}
    /\ told' = IF pageTask[q].pc = "cancelled" /\ StillCurrent(q)
               THEN told \cup {pageTask[q].flow} ELSE told
    /\ PageEnds(q)
    /\ UNCHANGED <<sessionState, tickets, flowState, pageRevision, wrote>>

\* The browser goes away: the watcher cancels the task, except inside the
\* credential writer (PollConcludes).
Disconnect(q) ==
    /\ pageTask[q].pc \notin {"idle", "commit", "stored"}
    /\ tickets' = tickets \ {q}
    /\ flowLock' = [f \in Flows |-> IF flowLock[f] = q THEN "free" ELSE flowLock[f]]
    /\ flow' = IF pageTask[q].pc \in {"begun", "polling"}
               THEN Cleared(pageTask[q].flow, "error") ELSE flow
    /\ PageEnds(q)
    /\ UNCHANGED <<sessionState, pageRevision, told, wrote>>

-----------------------------------------------------------------------------
\* Authorization flows.  guard: the request is current and so is the revision
\* of the configuration its binding names.
Guard(q) == StillCurrent(q) /\ pageRevision = pageTask[q].rev
\* _session: the flow session's binding equals the request's.
Bound(q, f) ==
    /\ flow[f].state # "none"
    /\ flow[f].line = pageTask[q].line /\ flow[f].epoch = pageTask[q].epoch
    /\ flow[f].rev = pageTask[q].rev

\* begin: earlier sessions of the page are cancelled; one that is being
\* committed refuses the new one.
BeginFlow(q, f) ==
    LET mine == {g \in Flows : flow[g].line = pageTask[q].line /\ flow[g].epoch = pageTask[q].epoch
                               /\ Waiting(g)} IN
    /\ pageTask[q].pc = "begin" /\ flow[f] = NoFlow
    /\ \A g \in Flows : g < f => flow[g] # NoFlow
    /\ IF Guard(q) /\ \A g \in mine : ~flow[g].committing
       THEN /\ flow' = [g \in Flows |->
                  IF g = f THEN [state |-> "waiting", line |-> pageTask[q].line,
                                 epoch |-> pageTask[q].epoch, rev |-> pageTask[q].rev,
                                 committing |-> FALSE]
                  ELSE IF g \in mine THEN [flow[g] EXCEPT !.state = "cancelled"] ELSE flow[g]]
            /\ pageTask' = [pageTask EXCEPT ![q].pc = "begun", ![q].flow = f]
       ELSE PageEnds(q) /\ UNCHANGED flow
    /\ UNCHANGED <<sessionState, tickets, flowLock, pageRevision, told, wrote>>

\* _fetch, then _current; the QR code is answered.
FlowFetched(q, fetched) ==
    LET f == pageTask[q].flow IN
    /\ pageTask[q].pc = "begun"
    /\ IF ~fetched THEN PageEnds(q) /\ flow' = Cleared(f, "error")
       ELSE IF ~Guard(q) THEN PageEnds(q) /\ flow' = RevokedFlow(f)
       ELSE UNCHANGED flow /\ IF Waiting(f) THEN PageGoes(q, "answered") ELSE PageEnds(q)
    /\ UNCHANGED <<sessionState, tickets, flowLock, pageRevision, told, wrote>>

\* poll: the lock of the session, then _current and the rate limit.
PollEnters(q) ==
    LET f == pageTask[q].flow IN
    /\ pageTask[q].pc = "poll"
    /\ IF ~Bound(q, f) THEN PageEnds(q) /\ UNCHANGED flowState
       ELSE IF ~Guard(q) THEN PageEnds(q) /\ flow' = RevokedFlow(f) /\ UNCHANGED flowLock
       ELSE IF ~Waiting(f) THEN PageGoes(q, "answered") /\ UNCHANGED flowState
       ELSE /\ flowLock[f] = "free"
            /\ flowLock' = [flowLock EXCEPT ![f] = q]
            /\ PageGoes(q, "polling") /\ UNCHANGED flow
    /\ UNCHANGED <<sessionState, tickets, pageRevision, told, wrote>>

\* The provider answered: success commits, another answer ends the poll.
PollFetched(q, answer) ==
    LET f == pageTask[q].flow IN
    /\ pageTask[q].pc = "polling"
    /\ IF ~Guard(q)
       THEN flow' = RevokedFlow(f) /\ PageEnds(q) /\ flowLock' = [flowLock EXCEPT ![f] = "free"]
       ELSE IF Waiting(f) /\ answer = "success"
       THEN flow' = [flow EXCEPT ![f].committing = TRUE] /\ PageGoes(q, "commit") /\ UNCHANGED flowLock
       ELSE /\ flow' = IF answer \in {"expired", "error"} THEN Cleared(f, answer) ELSE flow
            /\ PageEnds(q) /\ flowLock' = [flowLock EXCEPT ![f] = "free"]
    /\ UNCHANGED <<sessionState, tickets, pageRevision, told, wrote>>

\* credential_update: stored under the fence, or refused.
PollStores(q, stored) ==
    LET f == pageTask[q].flow IN
    /\ pageTask[q].pc = "commit"
    /\ IF stored
       THEN /\ CommitFence(q) /\ Written
            /\ wrote' = wrote \cup {f}
            /\ PageGoes(q, "stored") /\ UNCHANGED flowState
       ELSE /\ flow' = Concluded(f, "error")
            /\ flowLock' = [flowLock EXCEPT ![f] = "free"]
            /\ PageEnds(q) /\ UNCHANGED <<pageRevision, wrote>>
    /\ UNCHANGED <<sessionState, tickets, told>>

\* Back on the loop: authorized if the session still waits, an error if it was
\* invalidated meanwhile or the task was cancelled.
PollConcludes(q, cancelled) ==
    LET f == pageTask[q].flow IN
    /\ pageTask[q].pc = "stored"
    /\ flow' = Concluded(f, IF cancelled THEN "error" ELSE "authorized")
    /\ flowLock' = [flowLock EXCEPT ![f] = "free"]
    /\ PageEnds(q)
    /\ UNCHANGED <<sessionState, tickets, pageRevision, told, wrote>>

\* cancel: a commit that began is waited for, and its result is the answer.
CancelWaits_Never(q) == TRUE
CancelWaits(q) == ~flow[pageTask[q].flow].committing

CancelFlow(q) ==
    LET f == pageTask[q].flow IN
    /\ pageTask[q].pc = "cancel"
    /\ IF ~(Bound(q, f) /\ Guard(q))
       THEN PageEnds(q) ELSE PageGoes(q, "cancelling")
    /\ UNCHANGED <<sessionState, tickets, flowState, pageRevision, told, wrote>>

CancelAnswers(q) ==
    LET f == pageTask[q].flow IN
    /\ pageTask[q].pc = "cancelling" /\ CancelWaits(q)
    /\ flow' = [flow EXCEPT ![f].state = IF @ = "waiting" THEN "cancelled" ELSE @]
    /\ PageGoes(q, IF flow'[f].state = "cancelled" THEN "cancelled" ELSE "answered")
    /\ UNCHANGED <<sessionState, tickets, flowLock, pageRevision, told, wrote>>

\* revoke: the owner's sessions, then an empty credential through the same
\* fence.
RevokeFlows(q) ==
    /\ pageTask[q].pc = "revoke"
    /\ IF Guard(q)
       THEN flow' = [f \in Flows |-> IF Waiting(f) /\ flow[f].epoch = pageTask[q].epoch
                                     THEN [flow[f] EXCEPT !.state = "revoked"] ELSE flow[f]]
            /\ PageGoes(q, "save")
       ELSE UNCHANGED flow /\ PageEnds(q)
    /\ UNCHANGED <<sessionState, tickets, flowLock, pageRevision, told, wrote>>

\* The expiry timer does nothing to a session that is being committed.
ExpireFlow(f) ==
    /\ Waiting(f) /\ ~flow[f].committing
    /\ flow' = [flow EXCEPT ![f].state = "expired"]
    /\ UNCHANGED <<sessionState, tickets, flowLock, pageRevision, pageTask, told, wrote>>

PageNext ==
    \/ \E q \in PageTasks :
          \/ \E previous \in 0..MaxPageSessions : OpenPage(q, previous)
          \/ IssuePage(q) \/ QueryAnswered(q) \/ PageSaves(q) \/ PageAnswers(q) \/ Disconnect(q)
          \/ \E s \in DOMAIN pageSessions :
                \/ \E op \in {"query", "save", "begin", "revoke"} : PageRequest(q, op, s, 0)
                \/ \E op \in {"poll", "cancel"}, f \in Flows :
                      flow[f] # NoFlow /\ PageRequest(q, op, s, f)
          \/ \E f \in Flows : BeginFlow(q, f)
          \/ \E fetched \in BOOLEAN : FlowFetched(q, fetched)
          \/ PollEnters(q)
          \/ \E answer \in {"success", "pending", "expired", "error"} : PollFetched(q, answer)
          \/ \E b \in BOOLEAN : PollStores(q, b) \/ PollConcludes(q, b)
          \/ CancelFlow(q) \/ CancelAnswers(q) \/ RevokeFlows(q)
    \/ \E s \in DOMAIN pageSessions : ClosePage(s) \/ ExpirePage(s)
    \/ \E f \in Flows : ExpireFlow(f)
    \/ MoveEpoch \/ RetireModule \/ FencePages

PageSpec == PageInit /\ [][PageNext]_pageVars

-----------------------------------------------------------------------------
\* "Never report cancelled after persisting a credential successfully": a
\* flow whose cancel answered "cancelled" has stored no credential and never
\* will, however the cancel, the poll that commits, the timer and the page's
\* closing interleave.
CancelTellsTruth == told \cap wrote = {}

\* The configuration of a module changes through a page only while some
\* request's page session is open, in the module's present epoch, under a
\* runtime that is not stopping: what was checked before an await still holds
\* as the write commits.
WriteIsLive ==
    pageRevision' # pageRevision =>
         \E q \in PageTasks :
            /\ pageTask[q].pc \in {"save", "commit"} /\ pageTask'[q] # pageTask[q]
            /\ ~pageFence /\ pageTask[q].epoch = pageEpoch
            /\ pageTask[q].sess \in DOMAIN pageSessions
=============================================================================
