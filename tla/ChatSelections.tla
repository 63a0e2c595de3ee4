--------------------------- MODULE ChatSelections ---------------------------
(***************************************************************************)
(* Candidate lists of the FF14 module in a chat.  A query that fits several *)
(* items, worlds or servers publishes a batch of candidates; a later user   *)
(* message selects one of them, and the query goes on with it.  Calls are   *)
(* coroutines of the language model's tools and may overlap.                *)
(*                                                                          *)
(* Three handlers keep such state, each its own: the market query (item and *)
(* scope candidates), the item query and the FFLogs character query.  A     *)
(* behaviour is about one handler and one owner (user, session, adapter).   *)
(***************************************************************************)
EXTENDS Naturals, FiniteSets

CONSTANTS
    ChatCalls,      \* tool calls
    ChatEvents,     \* user messages, the event_ref of the host
    MaxChatCloses   \* bound on close() of the handler

ASSUME ChatAssumption ==
    IsFiniteSet(ChatCalls) /\ IsFiniteSet(ChatEvents) /\ MaxChatCloses \in Nat

VARIABLES
    handler,    \* "market", "item" or "logs"
    chatLife,   \* _lifecycle
    pending,    \* CandidateRegistry._pending of the owner
    spent,      \* events of CandidateRegistry._consumed
    scopes,     \* MarketScopeChoices.pending of the owner
    target,     \* PendingTargets.states of the owner (logs)
    drawn,      \* generations drawn so far
    talk,       \* call -> coroutine
    picks       \* selections with which a query went on: [batch, kind, event]

chatVars == <<handler, chatLife, pending, spent, scopes, target, drawn, talk, picks>>

NoEvent == "no event"
NoPending == [gen |-> 0, batch |-> FALSE, used |-> FALSE, source |-> NoEvent, confirm |-> NoEvent]
NoScope == [id |-> 0, gen |-> 0, event |-> NoEvent, refs |-> {}, consumed |-> FALSE]
NoTarget == [gen |-> 0, event |-> NoEvent, batch |-> FALSE, consumed |-> FALSE,
             inflight |-> FALSE, confirm |-> NoEvent]
NoTalk == [pc |-> "idle", event |-> NoEvent, life |-> 0, gen |-> 0, scope |-> 0, answer |-> "none"]

ChatInit ==
    /\ handler \in {"market", "item", "logs"}
    /\ chatLife = 0 /\ drawn = 0 /\ picks = {} /\ spent = {}
    /\ pending = NoPending /\ scopes = NoScope /\ target = NoTarget
    /\ talk = [c \in ChatCalls |-> NoTalk]

Said(c, pc) == talk[c].pc = pc

\* scopes.bind and message.read: the call now belongs to event e.
Enters(c, e, pc, gen, scope) ==
    talk' = [talk EXCEPT ![c] = [pc |-> pc, event |-> e, life |-> chatLife, gen |-> gen,
                                 scope |-> scope, answer |-> "none"]]
Refuses(c, e) ==
    talk' = [talk EXCEPT ![c] = [NoTalk EXCEPT !.pc = "done", !.event = e, !.answer = "error"]]
Advances(c, pc) == talk' = [talk EXCEPT ![c].pc = pc]

-----------------------------------------------------------------------------
\* CandidateRegistry.

\* require_fresh_event
Fresh(e) == e \notin spent

\* _current: the ticket's generation is the owner's latest.
TicketCurrent_Any(g) == pending.gen # 0
TicketCurrent(g) == pending.gen = g /\ g # 0

\* begin: the owner's earlier query is dropped.
Begun(e) == [NoPending EXCEPT !.gen = drawn + 1, !.source = e]

\* publish
BatchPublished == [pending EXCEPT !.batch = TRUE]

\* choose with retain: the batch is consumed at once, the fence stays.
BatchChosen(e) == [pending EXCEPT !.batch = FALSE, !.used = TRUE, !.confirm = e]

\* _release_confirmed and abandon: what the flight of generation g leaves.
Released(g) == IF pending.gen = g /\ pending.used THEN NoPending ELSE pending
Abandoned(g) == IF pending.gen = g THEN NoPending ELSE pending

\* choose_confirmed accepts a candidate of batch g on event e.
Confirmable(g, e) ==
    /\ TicketCurrent(g) /\ pending.batch
    /\ e \notin {pending.source, pending.confirm}
    /\ Fresh(e)

\* clarify shows the batch again.
Clarifiable(g, e) == TicketCurrent(g) /\ pending.batch /\ Fresh(e) /\ e # pending.source

\* tool_query: the same event only repeats its own query, a follow-up needs a
\* batch, everything else is a new query.
ToolQuery(e, followUp, same) ==
    IF ~Fresh(e) THEN "refused"
    ELSE IF pending.gen # 0 /\ e \in {pending.source, pending.confirm}
    THEN IF pending.batch /\ same THEN "retry" ELSE "refused"
    ELSE IF followUp THEN IF pending.batch THEN "retry" ELSE "refused"
    ELSE "new"

-----------------------------------------------------------------------------
\* MarketScopeChoices.

\* event_query
ScopeQuery(e, followUp) ==
    IF scopes.id = 0 THEN "none"
    ELSE IF e \in scopes.refs /\ (scopes.consumed \/ e # scopes.event) THEN "refused"
    ELSE IF (e = scopes.event \/ followUp) /\ ~scopes.consumed THEN "retry"
    ELSE "none"

\* publish: a follow-up of the same ticket inherits the events already used.
ScopePublished(c) ==
    [id |-> drawn + 1, gen |-> talk[c].gen, event |-> talk[c].event, consumed |-> FALSE,
     refs |-> {talk[c].event} \cup (IF scopes.id # 0 /\ scopes.gen = talk[c].gen
                                    THEN scopes.refs ELSE {})]

\* choose
ScopeSelectable(s, e) ==
    scopes.id = s /\ s # 0 /\ ~scopes.consumed /\ e \notin scopes.refs

\* item_event: the scope choice behind this generation; its events are used up.
ScopeOf(g) == IF scopes.id # 0 /\ scopes.gen = g THEN scopes.id ELSE 0

-----------------------------------------------------------------------------
\* guard: the module and the message are the ones the call started with, and
\* nothing superseded its ticket and its scope choice.
GuardHolds(c) ==
    /\ talk[c].life = chatLife
    /\ talk[c].gen # 0 => TicketCurrent(talk[c].gen)
    /\ talk[c].scope # 0 => scopes.id = talk[c].scope

\* The end of a market or item call, its finally clause included.  An item call
\* that published nothing abandons its query.
Ends(c, a, kept) ==
    /\ talk' = [talk EXCEPT ![c].pc = "done", ![c].answer = a]
    /\ pending' = IF handler = "market" THEN Released(talk[c].gen)
                  ELSE IF kept THEN pending ELSE Abandoned(talk[c].gen)

\* A query, or a follow-up of one: MarketQueryHandler.invoke to its first wait.
MarketQuery(c, e, followUp, same) ==
    /\ handler = "market" /\ Said(c, "idle")
    /\ LET s == ScopeQuery(e, followUp)
           t == ToolQuery(e, followUp, same)
       IN CASE ~Fresh(e) \/ s = "refused" ->
                 Refuses(c, e) /\ UNCHANGED <<pending, scopes, drawn>>
            [] Fresh(e) /\ s = "retry" ->
                 /\ Enters(c, e, "show", scopes.gen, scopes.id)
                 /\ UNCHANGED <<pending, scopes, drawn>>
            [] Fresh(e) /\ s = "none" /\ t = "refused" ->
                 Refuses(c, e) /\ UNCHANGED <<pending, scopes, drawn>>
            [] Fresh(e) /\ s = "none" /\ t = "retry" ->
                 /\ Enters(c, e, "show", pending.gen, 0)
                 /\ UNCHANGED <<pending, scopes, drawn>>
            [] OTHER ->
                 /\ scopes' = NoScope
                 /\ pending' = Begun(e)
                 /\ drawn' = drawn + 1
                 /\ Enters(c, e, "resolve", drawn + 1, 0)
    /\ UNCHANGED <<handler, chatLife, spent, target, picks>>

\* A world or data centre is selected: consume_events, then the query goes on
\* with the catalogue of the first attempt.
MarketSelectsScope(c, e, s) ==
    /\ handler = "market" /\ Said(c, "idle")
    /\ IF Fresh(e) /\ ScopeSelectable(s, e)
       THEN /\ scopes' = [scopes EXCEPT !.consumed = TRUE, !.refs = @ \cup {e}]
            /\ IF TicketCurrent(scopes.gen)
               THEN /\ spent' = spent \cup scopes.refs \cup {e}
                    /\ picks' = picks \cup {[batch |-> s, kind |-> "scope", event |-> e]}
                    /\ Enters(c, e, "resolve", scopes.gen, s)
               ELSE Refuses(c, e) /\ UNCHANGED <<picks, spent>>
       ELSE Refuses(c, e) /\ UNCHANGED <<scopes, picks, spent>>
    /\ UNCHANGED <<handler, chatLife, pending, target, drawn>>

\* An item is selected: item_event, then choose_confirmed.
MarketSelectsItem(c, e, g) ==
    /\ handler = "market" /\ Said(c, "idle")
    /\ IF /\ Confirmable(g, e)
          /\ ScopeOf(g) # 0 => e \notin scopes.refs
       THEN /\ spent' = spent \cup {pending.source, e}
            /\ pending' = BatchChosen(e)
            /\ picks' = picks \cup {[batch |-> g, kind |-> "item", event |-> e]}
            /\ Enters(c, e, "execute", g, ScopeOf(g))
       ELSE Refuses(c, e) /\ UNCHANGED <<pending, spent, picks>>
    /\ UNCHANGED <<handler, chatLife, scopes, target, drawn>>

\* Both handlers: the candidates again, without a selection.
ChatClarifies(c, e, g) ==
    /\ handler \in {"market", "item"} /\ Said(c, "idle")
    /\ IF Clarifiable(g, e) THEN Enters(c, e, "show", g, 0) ELSE Refuses(c, e)
    /\ UNCHANGED <<handler, chatLife, pending, spent, scopes, target, drawn, picks>>

\* The catalogue and the item search: several scopes, several items, one item
\* or an error.  Each outcome passes the guard first.
MarketResolves(c) ==
    /\ handler = "market" /\ Said(c, "resolve")
    /\ \/ /\ GuardHolds(c)
          /\ \/ /\ scopes' = ScopePublished(c)
                /\ drawn' = drawn + 1
                /\ talk' = [talk EXCEPT ![c].pc = "show", ![c].scope = drawn + 1]
                /\ UNCHANGED pending
             \/ /\ pending' = [BatchPublished EXCEPT !.confirm =
                                 IF talk[c].scope # 0 THEN talk[c].event ELSE @]
                /\ talk' = [talk EXCEPT ![c].pc = "done", ![c].answer = "candidates"]
                /\ UNCHANGED <<scopes, drawn>>
             \/ /\ Advances(c, "execute")
                /\ UNCHANGED <<pending, scopes, drawn>>
       \/ /\ Ends(c, "error", FALSE)
          /\ UNCHANGED <<scopes, drawn>>
    /\ UNCHANGED <<handler, chatLife, spent, target, picks>>

\* ItemChat.invoke: a query or a follow-up.
ItemQueries(c, e, followUp, same) ==
    /\ handler = "item" /\ Said(c, "idle")
    /\ LET t == ToolQuery(e, followUp, same)
       IN CASE t = "refused" -> Refuses(c, e) /\ UNCHANGED <<pending, drawn>>
            [] t = "retry" -> Enters(c, e, "show", pending.gen, 0) /\ UNCHANGED <<pending, drawn>>
            [] OTHER -> /\ pending' = Begun(e)
                        /\ drawn' = drawn + 1
                        /\ Enters(c, e, "resolve", drawn + 1, 0)
    /\ UNCHANGED <<handler, chatLife, spent, scopes, target, picks>>

ItemSelects(c, e, g) ==
    /\ handler = "item" /\ Said(c, "idle")
    /\ IF Confirmable(g, e)
       THEN /\ spent' = spent \cup {pending.source, e}
            /\ pending' = BatchChosen(e)
            /\ picks' = picks \cup {[batch |-> g, kind |-> "item", event |-> e]}
            /\ Enters(c, e, "execute", g, 0)
       ELSE Refuses(c, e) /\ UNCHANGED <<pending, spent, picks>>
    /\ UNCHANGED <<handler, chatLife, scopes, target, drawn>>

\* search_item_candidates, then the guard.
ItemResolves(c) ==
    /\ handler = "item" /\ Said(c, "resolve")
    /\ \/ /\ GuardHolds(c)
          /\ \/ /\ pending' = BatchPublished
                /\ talk' = [talk EXCEPT ![c].pc = "done", ![c].answer = "candidates"]
             \/ Advances(c, "execute") /\ UNCHANGED pending
       \/ Ends(c, "error", FALSE)
    /\ UNCHANGED <<handler, chatLife, spent, scopes, target, drawn, picks>>

\* The candidates are shown when the guard holds.
ChatShows(c) ==
    /\ handler \in {"market", "item"} /\ Said(c, "show")
    /\ \/ GuardHolds(c) /\ Ends(c, "candidates", TRUE)
       \/ Ends(c, "error", FALSE)
    /\ UNCHANGED <<handler, chatLife, spent, scopes, target, drawn, picks>>

\* The sources are read; guard and finish precede the facts.
ChatExecutes(c) ==
    /\ handler \in {"market", "item"} /\ Said(c, "execute")
    /\ \/ /\ GuardHolds(c)
          /\ pending' = NoPending
          /\ talk' = [talk EXCEPT ![c].pc = "done", ![c].answer = "facts"]
       \/ Ends(c, "error", FALSE)
    /\ UNCHANGED <<handler, chatLife, spent, scopes, target, drawn, picks>>

-----------------------------------------------------------------------------
\* invoke_character_tool of the FFLogs query.

\* PendingTargets.current
TargetCurrent_Any(g) == target.gen # 0
TargetCurrent(g) == target.gen = g /\ g # 0
LogsGuard(c) == talk[c].life = chatLife /\ (talk[c].gen # 0 => TargetCurrent(talk[c].gen))

\* A query, a correction or a follow-up.  The same event may only ask for what
\* it asked before; a confirmed event may not ask again.
LogsQueries(c, e, followUp, same) ==
    /\ handler = "logs" /\ Said(c, "idle")
    /\ IF target.gen # 0 /\ (e = target.confirm
                             \/ (e = target.event /\ (~same \/ target.consumed)))
       THEN Refuses(c, e) /\ UNCHANGED <<target, drawn>>
       ELSE IF target.gen # 0 /\ (e = target.event \/ (followUp /\ target.batch /\ same))
       THEN Enters(c, e, "clarify", target.gen, 0) /\ UNCHANGED <<target, drawn>>
       ELSE \E missing \in BOOLEAN :
              /\ target' = [NoTarget EXCEPT !.gen = drawn + 1, !.event = e,
                                            !.inflight = ~missing]
              /\ drawn' = drawn + 1
              /\ Enters(c, e, IF missing THEN "clarify" ELSE "resolve", drawn + 1, 0)
    /\ UNCHANGED <<handler, chatLife, pending, spent, scopes, picks>>

\* clarify without a selection.
LogsClarifies(c, e) ==
    /\ handler = "logs" /\ Said(c, "idle")
    /\ IF target.gen # 0 /\ ~target.consumed /\ target.batch /\ e = target.event
       THEN Refuses(c, e)
       ELSE Enters(c, e, "clarify", target.gen, 0)
    /\ UNCHANGED <<handler, chatLife, pending, spent, scopes, target, drawn, picks>>

\* clarification: the guard, then what is pending.
LogsShows(c) ==
    /\ handler = "logs" /\ Said(c, "clarify")
    /\ talk' = [talk EXCEPT ![c].pc = "done",
                            ![c].answer = IF LogsGuard(c) THEN "candidates" ELSE "error"]
    /\ UNCHANGED <<handler, chatLife, pending, spent, scopes, target, drawn, picks>>

\* A server is selected: consumed before the first wait.
LogsSelectable(g, e) ==
    TargetCurrent(g) /\ ~target.consumed /\ ~target.inflight /\ target.batch /\ e # target.event
LogsSelects(c, e, g) ==
    /\ handler = "logs" /\ Said(c, "idle")
    /\ IF LogsSelectable(g, e)
       THEN /\ target' = [target EXCEPT !.consumed = TRUE, !.confirm = e, !.inflight = TRUE]
            /\ picks' = picks \cup {[batch |-> g, kind |-> "server", event |-> e]}
            /\ Enters(c, e, "execute", g, 0)
       ELSE Refuses(c, e) /\ UNCHANGED <<target, picks>>
    /\ UNCHANGED <<handler, chatLife, pending, spent, scopes, drawn>>

\* The end of the flight: inflight is reset on the call's own state object.
Landed(c) == IF target.gen = talk[c].gen THEN [target EXCEPT !.inflight = FALSE] ELSE target

\* Credential state and public catalogue settle the realm.
LogsResolves(c) ==
    /\ handler = "logs" /\ Said(c, "resolve")
    /\ \/ LogsGuard(c) /\ Advances(c, "execute") /\ UNCHANGED target
       \/ /\ talk' = [talk EXCEPT ![c].pc = "done", ![c].answer = "error"]
          /\ target' = Landed(c)
    /\ UNCHANGED <<handler, chatLife, pending, spent, scopes, drawn, picks>>

\* _execute found several servers: candidates() keeps them on the state.
LogsPublishes(c) ==
    /\ handler = "logs" /\ Said(c, "execute")
    /\ ~target.consumed /\ LogsGuard(c)
    /\ target' = [target EXCEPT !.batch = TRUE, !.event = talk[c].event, !.inflight = FALSE]
    /\ Advances(c, "clarify")
    /\ UNCHANGED <<handler, chatLife, pending, spent, scopes, drawn, picks>>

\* _execute returned: the last guard, then the facts.
LogsExecutes(c) ==
    /\ handler = "logs" /\ Said(c, "execute")
    /\ \/ /\ LogsGuard(c)
          /\ target' = [Landed(c) EXCEPT !.consumed = @ \/ ~target.batch]
          /\ talk' = [talk EXCEPT ![c].pc = "done", ![c].answer = "facts"]
       \/ /\ target' = Landed(c)
          /\ talk' = [talk EXCEPT ![c].pc = "done", ![c].answer = "error"]
    /\ UNCHANGED <<handler, chatLife, pending, spent, scopes, drawn, picks>>

-----------------------------------------------------------------------------
\* Time limit of a pending entry, or another owner's query at capacity.
ChatForgets ==
    /\ \/ pending # NoPending /\ pending' = NoPending /\ UNCHANGED <<scopes, target>>
       \/ scopes # NoScope /\ scopes' = NoScope /\ UNCHANGED <<pending, target>>
       \/ target # NoTarget /\ target' = NoTarget /\ UNCHANGED <<pending, scopes>>
    /\ UNCHANGED <<handler, chatLife, spent, drawn, talk, picks>>

\* close(): empty registries, a new lifecycle; the host withdraws its messages.
ChatCloses ==
    /\ chatLife < MaxChatCloses
    /\ chatLife' = chatLife + 1
    /\ pending' = NoPending /\ scopes' = NoScope /\ target' = NoTarget
    /\ UNCHANGED <<handler, spent, drawn, talk, picks>>

ChatNext ==
    \/ \E c \in ChatCalls :
         \/ \E e \in ChatEvents, followUp, same \in BOOLEAN :
              \/ MarketQuery(c, e, followUp, same) \/ ItemQueries(c, e, followUp, same)
              \/ LogsQueries(c, e, followUp, same)
         \/ \E e \in ChatEvents, g \in 1..drawn :
              \/ MarketSelectsScope(c, e, g) \/ MarketSelectsItem(c, e, g)
              \/ ChatClarifies(c, e, g) \/ ItemSelects(c, e, g) \/ LogsSelects(c, e, g)
         \/ \E e \in ChatEvents : LogsClarifies(c, e)
         \/ MarketResolves(c) \/ ItemResolves(c) \/ ChatShows(c) \/ ChatExecutes(c)
         \/ LogsShows(c) \/ LogsResolves(c) \/ LogsPublishes(c) \/ LogsExecutes(c)
    \/ ChatForgets \/ ChatCloses

ChatSpec == ChatInit /\ [][ChatNext]_chatVars

-----------------------------------------------------------------------------
\* A selection is used once.  Whatever calls overlap, a batch of candidates is
\* selected from at most once, and a user message of the market and item chats
\* confirms at most one selection, so that no retry of the language model turns
\* one confirmation into two queries.
OneSelection ==
    \A a, b \in picks : a # b =>
        /\ <<a.batch, a.kind>> # <<b.batch, b.kind>>
        /\ handler # "logs" => a.event # b.event

\* Facts are never those of a superseded query: a call that returns facts belongs
\* to the owner's latest query and to the handler's current lifecycle, although
\* newer queries and close() may come while it reads its sources.
LatestQueryAnswers ==
    \A c \in ChatCalls :
        talk'[c].answer = "facts" /\ talk[c].answer # "facts" =>
            /\ talk[c].life = chatLife
            /\ \A d \in ChatCalls \ {c} :
                 talk[d].pc \in {"resolve", "execute"} /\ talk[d].life = chatLife
                   => talk[d].gen <= talk[c].gen
=============================================================================
