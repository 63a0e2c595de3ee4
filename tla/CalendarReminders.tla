-------------------------- MODULE CalendarReminders --------------------------
(***************************************************************************)
(* The daily summary of a calendar subscription.  A collection brings an   *)
(* observation; the evaluator decides from it, from the subscription as it *)
(* is now and from the state the last evaluation left, whether the summary *)
(* of the local date is sent.  A subscription that is new or was revised   *)
(* starts at the first due time still to come; the dates already sent stay *)
(* remembered over revisions, which may move the local date back.          *)
(***************************************************************************)
EXTENDS Integers, FiniteSets, Sequences

CONSTANTS
    DayTicks,        \* ticks of a day
    Shifts,          \* offsets of the time zones a subscription may have
    DueTimes,        \* local times of day
    Remembered,      \* MAX_REMEMBERED_DATES
    LastReminder,    \* bound on the clock
    MaxSchedules     \* bound on subscription revisions

ASSUME RemindersAssumption ==
    /\ DayTicks \in Nat \ {0} /\ Remembered \in Nat \ {0}
    /\ Shifts \subseteq Nat /\ DueTimes \subseteq 0..(DayTicks - 1)
    /\ LastReminder \in Nat /\ MaxSchedules \in Nat
    \* Offsets are at most two days apart; more dates are remembered than a change of
    \* offset can go back to (32 in the code)
    /\ \E k \in 1..2 : Shifts \subseteq 0..(k * DayTicks) /\ Remembered > 2 * k

VARIABLES
    tick,        \* UTC
    settings,    \* the subscription: [rev, shift, due]
    observed,    \* an observation that is not evaluated yet: [pc, at, status, covers]
    evalState,   \* EvaluationState
    summaries,   \* local date -> number of events of it
    since        \* when the schedule of evalState was first evaluated

reminderVars == <<tick, settings, observed, evalState, summaries, since>>

NoDate == -1
ReminderDates == 0..(LastReminder + 2 * DayTicks)
NoObservation == [pc |-> "none", at |-> 0, status |-> "failed", covers |-> FALSE]
NoState == [rev |-> 0, shift |-> 0, due |-> 0, baseline |-> NoDate, last |-> NoDate, emitted |-> <<>>]

RemindersInit ==
    /\ tick = 0 /\ observed = NoObservation /\ evalState = NoState /\ since = 0
    /\ settings \in [rev : {1}, shift : Shifts, due : DueTimes]
    /\ summaries = [d \in ReminderDates |-> 0]

TickPasses ==
    /\ tick < LastReminder /\ tick' = tick + 1
    /\ UNCHANGED <<settings, observed, evalState, summaries, since>>

SettingsRevised ==
    /\ settings.rev < MaxSchedules
    /\ \E s \in Shifts, d \in DueTimes :
          settings' = [rev |-> settings.rev + 1, shift |-> s, due |-> d]
    /\ UNCHANGED <<tick, observed, evalState, summaries, since>>

\* CalendarCollector.collect: the instant is the one the collection started at; a
\* snapshot that is too old is failed, one that is cut or misread is partial.
Observed ==
    /\ observed.pc = "none"
    /\ \E status \in {"complete", "partial", "failed"}, covers \in BOOLEAN :
          observed' = [pc |-> "ready", at |-> tick, status |-> status, covers |-> covers]
    /\ UNCHANGED <<tick, settings, evalState, summaries, since>>

-----------------------------------------------------------------------------
\* CalendarDailySummaryEvaluator.evaluate

Today == (observed.at + settings.shift) \div DayTicks
IsDue == (observed.at + settings.shift) % DayTicks >= settings.due

\* Complete, and with a payload of this region's source and window that can be read.
Usable == observed.status = "complete"

\* The same revision and the same schedule.
SameSchedule ==
    /\ evalState.rev = settings.rev
    /\ evalState.shift = settings.shift /\ evalState.due = settings.due

\* The first date whose due time is still to come.
Baseline_Today == Today

Baseline == IF IsDue THEN Today + 1 ELSE Today

\* A date that was sent is never sent again, also under another time zone.
AlreadySent_Last == evalState.last = Today

AlreadySent ==
    \/ evalState.last = Today
    \/ \E i \in DOMAIN evalState.emitted : evalState.emitted[i] = Today

\* _remember_date
Remember(dates, d) ==
    LET longer == Append(dates, d) IN
    IF Len(longer) > Remembered THEN Tail(longer) ELSE longer

Sends ==
    /\ Usable /\ SameSchedule
    /\ Today >= evalState.baseline /\ IsDue
    /\ ~AlreadySent /\ observed.covers

\* A new schedule keeps the dates and takes a baseline; an observation that is not
\* complete leaves the state as it is.
Decided ==
    IF ~Usable THEN evalState
    ELSE IF ~SameSchedule
    THEN [evalState EXCEPT !.rev = settings.rev, !.shift = settings.shift, !.due = settings.due,
                           !.baseline = Baseline]
    ELSE IF Sends THEN [evalState EXCEPT !.last = Today, !.emitted = Remember(@, Today)]
    ELSE evalState

\* The decision is committed with the observation, under the revision it was made for.
Evaluated ==
    /\ observed.pc = "ready"
    /\ evalState' = Decided
    /\ summaries' = IF Sends THEN [summaries EXCEPT ![Today] = @ + 1] ELSE summaries
    /\ since' = IF Usable /\ ~SameSchedule THEN observed.at ELSE since
    /\ observed' = NoObservation
    /\ UNCHANGED <<tick, settings>>

\* The evaluation is not committed: the collection was stale, or its process died.
ObservationLost ==
    /\ observed.pc = "ready"
    /\ observed' = NoObservation
    /\ UNCHANGED <<tick, settings, evalState, summaries, since>>

RemindersNext ==
    \/ TickPasses
    \/ SettingsRevised
    \/ Observed
    \/ Evaluated
    \/ ObservationLost

RemindersSpec == RemindersInit /\ [][RemindersNext]_reminderVars

-----------------------------------------------------------------------------
\* Properties.

\* A subscriber gets the summary of a local date once, however often the subscription
\* is revised to another time zone or another time.
OneSummaryPerDate == \A d \in ReminderDates : summaries[d] <= 1

\* The tick a local date becomes due at, under the schedule of the state.
DueTick(d) == d * DayTicks + evalState.due - evalState.shift

\* A summary is sent only for a due time that came after the schedule was first
\* evaluated, and from an observation made after it: a subscriber that changes the
\* time to an earlier one does not get today's summary at once.
SummaryIsAhead ==
    \A d \in ReminderDates :
          summaries'[d] > summaries[d] => since < DueTick(d) /\ DueTick(d) <= observed.at
=============================================================================
