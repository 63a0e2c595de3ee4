---------------------------- MODULE DigestWindows ----------------------------
(***************************************************************************)
(* The planner of digest windows.  In every cycle the pump takes the first *)
(* page of active digest schedules and stores, for the local dates around  *)
(* now, the window that ends at the profile's wall-clock time.  A boundary *)
(* is resolved under the profile's policies for a wall time that occurs    *)
(* twice or not at all, and its first UTC reading stays, also when the     *)
(* zone data change with a restart.  A collection that is committed puts   *)
(* each digest event in the window that contains its instant, and fails as *)
(* a whole when there is none.                                             *)
(*                                                                         *)
(* UTC is a sequence of ticks; a zone maps a tick to its local reading.    *)
(***************************************************************************)
EXTENDS Integers, FiniteSets, Sequences

CONSTANTS
    Schedules,     \* digest subscriptions, in the order of their page
    Profiles,      \* records [hour, length, fold, gap]; one recipient for each
    WallClocks,    \* zone data: functions from Ticks to <<date, hour>>
    MaxTick,       \* last tick of the zones
    FirstTick,     \* the clock starts here
    LastTick,      \* bound on the clock
    Lookback,      \* digest_lookback_days
    MaxRevises,    \* bound on revisions of a schedule
    MaxMembers     \* bound on the events associated

Ticks == 0..MaxTick

ASSUME WindowsAssumption ==
    /\ IsFiniteSet(Schedules) /\ Profiles # {}
    /\ FirstTick \in Ticks /\ LastTick \in Ticks /\ FirstTick <= LastTick
    /\ Lookback \in Nat /\ MaxRevises \in Nat /\ MaxMembers \in Nat
    /\ WallClocks \subseteq [Ticks -> Int \X Int]
    /\ \A p \in Profiles : p.length \in Nat
    /\ MaxTick \in Nat
    \* The zone data reach past the boundaries that are next to an instant of the clock
    /\ \A z \in WallClocks, p \in Profiles : \A t \in FirstTick..LastTick :
          \A d \in {z[t][1], z[t][1] + 1} : \E u \in Ticks :
             z[u] = <<d, p.hour>> \/ z[u][1] > d \/ (z[u][1] = d /\ z[u][2] > p.hour)

VARIABLES
    utcNow,      \* UTC now
    wallClock,  \* the zone data of this process
    schedule,   \* subscription -> [on, rev, profile]
    windows,    \* b04_digest_windows: [profile, date, from, to]
    members,    \* b04_digest_members: [profile, date, at]
    planner     \* create_digest_windows_page

windowVars == <<utcNow, wallClock, schedule, windows, members, planner>>

NoPage == [pc |-> "idle", todo |-> {}, dates |-> {}, sub |-> "none", rev |-> 0, at |-> 0]
Seen == [s \in Schedules |-> [rev |-> -1, at |-> 0]]

WindowsInit ==
    /\ utcNow = FirstTick /\ wallClock \in WallClocks
    /\ schedule \in [Schedules -> [on : {TRUE}, rev : {0}, profile : Profiles]]
    /\ windows = {} /\ members = {}
    /\ planner = [page |-> NoPage, done |-> Seen]

-----------------------------------------------------------------------------
\* _resolve_local_boundary

DateOf(t) == wallClock[t][1]
Earlier(v, w) == v[1] < w[1] \/ (v[1] = w[1] /\ v[2] < w[2])
Soonest(S) == CHOOSE t \in S : \A u \in S : t <= u
Latest(S) == CHOOSE t \in S : \A u \in S : u <= t

\* The instants the wall shows the time of the profile on this date.
Readings(d, p) == {t \in Ticks : wallClock[t] = <<d, p.hour>>}

\* The first valid local instant after a wall time that does not occur.
AfterGap(d, p) == Soonest({t \in Ticks : Earlier(<<d, p.hour>>, wallClock[t])})

Skipped(d, p) == Readings(d, p) = {} /\ p.gap = "skip"

Boundary(d, p) ==
    IF Readings(d, p) = {} THEN AfterGap(d, p)
    ELSE IF p.fold = "first" THEN Soonest(Readings(d, p)) ELSE Latest(Readings(d, p))

\* digest_window_for_date
WindowOf(d, p) ==
    [profile |-> p, date |-> d, from |-> Boundary(d, p) - p.length, to |-> Boundary(d, p)]

-----------------------------------------------------------------------------
\* The dates of a candidate: the lookback, today and tomorrow.
DatesAt_Today(t) == (DateOf(t) - Lookback)..DateOf(t)

DatesAt(t) == (DateOf(t) - Lookback)..(DateOf(t) + 1)

ThisPage == planner.page

\* list_active_digest_schedules, without a cursor
PageListed ==
    /\ ThisPage.pc = "idle"
    /\ planner' = [planner EXCEPT !.page =
           [NoPage EXCEPT !.pc = "page",
                          !.todo = {<<s, schedule[s].rev>> : s \in {x \in Schedules : schedule[x].on}}]]
    /\ UNCHANGED <<utcNow, wallClock, schedule, windows, members>>

\* _current_digest_record: the row of the candidate is still the one listed.
CandidateCurrent(c) == schedule[c[1]].on /\ schedule[c[1]].rev = c[2]

\* A candidate is taken with the dates the clock gives, or passed over.
CandidateTaken ==
    /\ ThisPage.pc = "page"
    /\ \E c \in ThisPage.todo :
          planner' = [planner EXCEPT !.page =
              IF CandidateCurrent(c)
              THEN [pc |-> "dates", todo |-> @.todo \ {c}, dates |-> DatesAt(utcNow),
                    sub |-> c[1], rev |-> c[2], at |-> utcNow]
              ELSE [ThisPage EXCEPT !.todo = ThisPage.todo \ {c}]]
    /\ UNCHANGED <<utcNow, wallClock, schedule, windows, members>>

\* digest_windows.get: a stored window stays as it is.
HasWindow(d, p) == \E w \in windows : w.profile = p /\ w.date = d

\* A date whose window is there or whose boundary does not exist is passed; for the
\* others create inserts the window.
Planned_Reinterprets(d, p) ==
    IF Skipped(d, p) THEN windows
    ELSE {w \in windows : w.profile # p \/ w.date # d} \cup {WindowOf(d, p)}

Planned(d, p) ==
    IF HasWindow(d, p) \/ Skipped(d, p) THEN windows ELSE windows \cup {WindowOf(d, p)}

DatePlanned ==
    /\ ThisPage.pc = "dates" /\ CandidateCurrent(<<ThisPage.sub, ThisPage.rev>>) /\ ThisPage.dates # {}
    /\ windows' = Planned(Soonest(ThisPage.dates), schedule[ThisPage.sub].profile)
    /\ planner' = [planner EXCEPT !.page.dates = @ \ {Soonest(ThisPage.dates)}]
    /\ UNCHANGED <<utcNow, wallClock, schedule, members>>

\* The record changed while its dates were stored: the rest are left.
CandidateLeft ==
    /\ ThisPage.pc = "dates" /\ ~CandidateCurrent(<<ThisPage.sub, ThisPage.rev>>)
    /\ planner' = [planner EXCEPT !.page = [NoPage EXCEPT !.pc = "page", !.todo = planner.page.todo]]
    /\ UNCHANGED <<utcNow, wallClock, schedule, windows, members>>

CandidateDone ==
    /\ ThisPage.pc = "dates" /\ ThisPage.dates = {}
    /\ planner' = [page |-> [NoPage EXCEPT !.pc = "page", !.todo = planner.page.todo],
                   done |-> [planner.done EXCEPT ![ThisPage.sub] = [rev |-> ThisPage.rev, at |-> ThisPage.at]]]
    /\ UNCHANGED <<utcNow, wallClock, schedule, windows, members>>

PageDone ==
    /\ ThisPage.pc = "page" /\ ThisPage.todo = {}
    /\ planner' = [planner EXCEPT !.page = NoPage]
    /\ UNCHANGED <<utcNow, wallClock, schedule, windows, members>>

-----------------------------------------------------------------------------
\* for_schedule: of the windows of the profile that contain t, the first to end.
Containing(p, t) == {w \in windows : w.profile = p /\ w.from <= t /\ t < w.to}
ForSchedule(p, t) == CHOOSE w \in Containing(p, t) : \A v \in Containing(p, t) : w.to <= v.to

\* prepare_evaluations and its commit, for an event of one digest subscription.
EventAssociated(s) ==
    /\ schedule[s].on /\ Containing(schedule[s].profile, utcNow) # {}
    /\ Cardinality(members) < MaxMembers
    /\ members' = members \cup
           {[profile |-> schedule[s].profile, at |-> utcNow,
             date |-> ForSchedule(schedule[s].profile, utcNow).date]}
    /\ UNCHANGED <<utcNow, wallClock, schedule, windows, planner>>

ScheduleRevised(s) ==
    /\ schedule[s].on /\ schedule[s].rev < MaxRevises
    /\ \E p \in Profiles \ {schedule[s].profile} : schedule' = [schedule EXCEPT ![s] = [on |-> TRUE, rev |-> @.rev + 1, profile |-> p]]
    /\ UNCHANGED <<utcNow, wallClock, windows, members, planner>>

ScheduleCancelled(s) ==
    /\ schedule[s].on
    /\ schedule' = [schedule EXCEPT ![s].on = FALSE]
    /\ UNCHANGED <<utcNow, wallClock, windows, members, planner>>

ClockMoves ==
    /\ utcNow < LastTick /\ utcNow' = utcNow + 1
    /\ UNCHANGED <<wallClock, schedule, windows, members, planner>>

\* The process restarts, perhaps with other zone data.
PlannerCrash ==
    /\ wallClock' \in WallClocks
    /\ planner' = [page |-> NoPage, done |-> IF wallClock' = wallClock THEN planner.done ELSE Seen]
    /\ UNCHANGED <<utcNow, schedule, windows, members>>

WindowsNext ==
    \/ PageListed
    \/ CandidateTaken
    \/ DatePlanned
    \/ CandidateLeft
    \/ CandidateDone
    \/ PageDone
    \/ \E s \in Schedules :
          \/ EventAssociated(s)
          \/ ScheduleRevised(s)
          \/ ScheduleCancelled(s)
    \/ ClockMoves
    \/ PlannerCrash

WindowsSpec == WindowsInit /\ [][WindowsNext]_windowVars

-----------------------------------------------------------------------------
\* Properties.

\* The boundary that comes next under the present zone data, for this profile.
NextBoundaries(p) ==
    {b \in {Boundary(d, p) : d \in {e \in DateOf(utcNow)..(DateOf(utcNow) + 1) : ~Skipped(e, p)}} : utcNow < b}

\* No window of the profile was stored under other zone data.
SameZone(p) == \A w \in windows : w.profile = p => ~Skipped(w.date, p) /\ w = WindowOf(w.date, p)

\* While the local date is the one of the last pass over a schedule, an event has a
\* window whenever the next boundary is no further than the profile's length: only
\* the hours a long local day has more than the length are without a window.
EventFindsWindow ==
    \A s \in Schedules :
        LET p == schedule[s].profile IN
        /\ schedule[s].on /\ planner.done[s].rev = schedule[s].rev
        /\ DateOf(planner.done[s].at) = DateOf(utcNow) /\ SameZone(p)
        /\ NextBoundaries(p) # {} /\ Soonest(NextBoundaries(p)) - p.length <= utcNow
        => Containing(p, utcNow) # {}

\* A window that has members keeps its bounds, whatever the zone data become: each
\* member's instant lies within it.
MembersStayInside ==
    \A m \in members :
        \E w \in windows : w.profile = m.profile /\ w.date = m.date /\ w.from <= m.at /\ m.at < w.to
=============================================================================
