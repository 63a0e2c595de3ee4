--------------------------- MODULE CalendarSeries ---------------------------
(***************************************************************************)
(* parse_ics: the occurrences of a calendar source that meet a window.     *)
(* Components are read one by one and grouped by UID; of the revisions of  *)
(* an event the newest counts; a series is its rule and its extra dates    *)
(* without the excluded ones, with its overrides put in the place of the   *)
(* slots they name.  A group that cannot be interpreted is left out with a *)
(* warning and makes the result partial; the budgets end the parse early.  *)
(*                                                                         *)
(* Instants are integers.  Zones, the grammar of iCalendar and its limits  *)
(* on bytes and lines are one flag: a component can be read or not.        *)
(***************************************************************************)
EXTENDS Integers, FiniteSets

CONSTANTS
    Sources,         \* the calendars that are parsed: functions from UID to components
    WindowFrom,      \* window_start
    WindowTo,        \* window_end
    Horizon,         \* no slot of a rule is later
    SlotBudget,      \* MAX_CANDIDATES_PER_UID
    SourceBudget,    \* MAX_CANDIDATES_PER_SOURCE
    MaxOccurrences   \* MAX_OCCURRENCES

\* What _read_event makes of a component: ok if it can be read, rid the slot an
\* override names; every is 0 without a rule and negative for one that is not
\* supported.
NoSlot == -1
Components ==
    [rid : 0..Horizon \cup {NoSlot}, from : 0..Horizon, long : Nat, cancelled : BOOLEAN, seq : Nat,
     every : Int, until : Int, extra : SUBSET (0..Horizon), except : SUBSET (0..Horizon), ok : BOOLEAN]

ASSUME SeriesAssumption ==
    /\ WindowFrom \in Int /\ WindowTo \in Int /\ WindowFrom < WindowTo /\ WindowTo <= Horizon
    /\ Horizon \in Nat /\ SlotBudget \in Nat /\ SourceBudget \in Nat /\ MaxOccurrences \in Nat
    /\ \A s \in Sources : /\ IsFiniteSet(DOMAIN s)
                          /\ \A u \in DOMAIN s : IsFiniteSet(s[u]) /\ s[u] \subseteq Components

VARIABLES
    calendar,  \* UID -> set of components
    reading    \* parse_ics: [pc, groups, invalid, out, used, warned, complete]

seriesVars == <<calendar, reading>>

Unread == [pc |-> "read", groups |-> {}, invalid |-> {}, out |-> {}, used |-> 0,
           warned |-> FALSE, complete |-> FALSE]

SeriesInit == calendar \in Sources /\ reading = Unread

-----------------------------------------------------------------------------
\* _read_event, for all components: the UIDs with one that cannot be read are out.
Invalid(uids) == {u \in uids : \E e \in calendar[u] : ~e.ok}

ComponentsRead ==
    /\ reading.pc = "read"
    /\ reading' = [reading EXCEPT !.pc = "groups", !.groups = DOMAIN calendar \ Invalid(DOMAIN calendar),
                                  !.invalid = Invalid(DOMAIN calendar),
                                  !.warned = Invalid(DOMAIN calendar) # {}]
    /\ UNCHANGED calendar

\* _select_revisions: of each recurrence identity the one with the highest sequence.
Newest_Oldest(C) == {e \in C : \A f \in C : f.rid = e.rid => e.seq <= f.seq}

Newest(C) == {e \in C : \A f \in C : f.rid = e.rid => f.seq <= e.seq}

\* Two different components with the same sequence cannot be told apart.
Ambiguous(C) == \E e, f \in Newest(C) : e.rid = f.rid /\ e # f

Masters(C) == {e \in Newest(C) : e.rid = NoSlot}
Overrides(C) == {e \in Newest(C) : e.rid # NoSlot}
Master(C) == CHOOSE e \in Masters(C) : TRUE

\* The rule is expanded up to the window and to the slots the overrides name.
Target_Window(C) == WindowTo

Target(C) == LET ends == {WindowTo} \cup {o.rid : o \in Overrides(C)}
             IN CHOOSE t \in ends : \A u \in ends : u <= t

\* _validate_rule: frequencies and parts the parser does not support are -1 here.
RuleAllowed(m) == m.every >= 0

\* _bounded_recurrence
RuleSlots(m, last) ==
    IF m.every <= 0 THEN {m.from}
    ELSE {t \in m.from..Horizon : (t - m.from) % m.every = 0 /\ t <= last /\ t <= m.until}

\* The days a rule may have to walk, whatever its step; without a rule there is one.
Span(C) ==
    LET m == Master(C)
        last == IF m.until < Target(C) THEN m.until ELSE Target(C)
    IN IF m.every = 0 \/ last < m.from THEN 1 ELSE last - m.from + 1

Work(C) == Span(C) + Cardinality(Master(C).extra) + Cardinality(Master(C).except)

\* The slots of the series; an excluded one is gone also when it is an extra date.
SlotsOf(C) == (RuleSlots(Master(C), Target(C)) \cup Master(C).extra) \ Master(C).except

\* An override of a slot the series does not have.
Unmatched(C) == {o \in Overrides(C) : o.rid \notin SlotsOf(C)}

Uninterpretable(C) ==
    \/ Ambiguous(C) \/ Cardinality(Masters(C)) # 1
    \/ ~RuleAllowed(Master(C)) \/ Unmatched(C) # {}

\* _intersects: a single instant meets the window it lies in.
Intersects_Closed(s, e) == s <= WindowTo /\ e >= WindowFrom

Intersects(s, e) ==
    IF s = e THEN WindowFrom <= s /\ s < WindowTo ELSE s < WindowTo /\ e > WindowFrom

\* _expand_series: what stands in a slot.
Occurrence(u, C, t) ==
    LET o == {x \in Overrides(C) : x.rid = t}
        e == IF o = {} THEN [Master(C) EXCEPT !.from = t] ELSE CHOOSE x \in o : TRUE
    IN [uid |-> u, slot |-> t, from |-> e.from, to |-> e.from + e.long, cancelled |-> e.cancelled]

Expanded(u, C) == {x \in {Occurrence(u, C, t) : t \in SlotsOf(C)} : Intersects(x.from, x.to)}

\* A series that fits is added; a problem leaves it out, with what it has cost. The
\* loop ends with the candidates of the source or the limit on occurrences.
GroupExpanded(u) ==
    /\ reading.pc = "groups" /\ u \in reading.groups
    /\ LET C == calendar[u]
           counted == ~Ambiguous(C) /\ Cardinality(Masters(C)) = 1 /\ RuleAllowed(Master(C))
           work == IF counted THEN Work(C) ELSE 0
           spent == reading.used + work
           series == IF counted THEN Expanded(u, C) ELSE {}
           problem == Uninterpretable(C) \/ work > SlotBudget \/ spent > SourceBudget
           full == Cardinality(reading.out) + Cardinality(series) > MaxOccurrences
           ends == IF problem THEN spent >= SourceBudget ELSE full
       IN reading' = [reading EXCEPT
              !.groups = IF ends THEN {} ELSE @ \ {u},
              !.out = IF problem \/ full THEN @ ELSE @ \cup series,
              !.used = spent, !.warned = @ \/ problem \/ full]
    /\ UNCHANGED calendar

Parsed ==
    /\ reading.pc = "groups" /\ reading.groups = {}
    /\ reading' = [reading EXCEPT !.pc = "done", !.complete = ~reading.warned]
    /\ UNCHANGED calendar

SeriesNext ==
    \/ ComponentsRead
    \/ \E u \in DOMAIN calendar : GroupExpanded(u)
    \/ Parsed

SeriesSpec == SeriesInit /\ [][SeriesNext]_seriesVars

-----------------------------------------------------------------------------
\* Properties.

\* What the source says, read without windows, budgets or an order of groups: a slot
\* of the rule or an extra date, not excluded, as its latest revision has it.
Says(u, t) == {e \in calendar[u] : e.rid = t /\ \A f \in calendar[u] : f.rid = t => f.seq <= e.seq}
Scheduled(u, t) ==
    \E m \in Says(u, NoSlot) :
        /\ t \notin m.except
        /\ \/ t \in m.extra
           \/ m.every <= 0 /\ t = m.from
           \/ m.every > 0 /\ m.from <= t /\ t <= m.until /\ (t - m.from) % m.every = 0
Stated(u, t) == CHOOSE e \in Says(u, t) : TRUE
Shown(u, t) ==
    LET e == IF Says(u, t) = {} THEN [Stated(u, NoSlot) EXCEPT !.from = t] ELSE Stated(u, t)
    IN [uid |-> u, slot |-> t, from |-> e.from, to |-> e.from + e.long, cancelled |-> e.cancelled]
Meets(x) == \E t \in WindowFrom..(WindowTo - 1) : x.from = t \/ (x.from < t /\ t < x.to)
Slots == {s \in (DOMAIN calendar) \X (0..Horizon) : Scheduled(s[1], s[2])}
Announced == {x \in {Shown(s[1], s[2]) : s \in Slots} : Meets(x)}

\* A source that contradicts itself in no component.
Sound ==
    \A u \in DOMAIN calendar :
        /\ Says(u, NoSlot) # {}
        /\ \A e \in calendar[u] : e.ok /\ e.every >= 0 /\ (e.rid # NoSlot => Scheduled(u, e.rid))
        /\ \A e, f \in calendar[u] : e.rid = f.rid /\ e.seq = f.seq => e = f

\* What a series makes the parser look at: a rule all days from its start on.
Days(m) == {t \in 0..Horizon : t = m.from \/ (m.every > 0 /\ m.from <= t)}
Looked(u) ==
    UNION {({<<u, "day">>} \X Days(m)) \cup ({<<u, "extra">>} \X m.extra) \cup ({<<u, "except">>} \X m.except) :
           m \in Says(u, NoSlot)}
WithinBudget ==
    /\ Cardinality(Announced) <= MaxOccurrences
    /\ \A u \in DOMAIN calendar : Cardinality(Looked(u)) <= SlotBudget
    /\ Cardinality(UNION {Looked(u) : u \in DOMAIN calendar}) <= SourceBudget

\* What is parsed is announced, what is parsed as complete is all that is announced,
\* and a sound source within the budgets is complete: an override that moves an
\* occurrence into the window from a slot outside it does not make it partial.
ParseIsFaithful ==
    reading.pc = "done" =>
        /\ reading.out \subseteq Announced
        /\ reading.complete => reading.out = Announced
        /\ Sound /\ WithinBudget => reading.complete
=============================================================================
