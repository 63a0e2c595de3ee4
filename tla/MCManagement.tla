---------------------------- MODULE MCManagement ----------------------------
(***************************************************************************)
(* What keeps the system's settings and schedules, for TLC: subscription   *)
(* commands, the plan of the pump, digest windows, the calendar and the    *)
(* selections of the FF14 module, the administrator's requests and the     *)
(* health they publish.  Their models share no state, so one run explores  *)
(* each by itself: part says which of them this behaviour is about.        *)
(***************************************************************************)
EXTENDS SubscriptionCommands, PumpPlanning, DigestWindows, CalendarSeries,
        CalendarSnapshots, CalendarReminders, ChatSelections, AdminRequests, ModuleHealth,
        TLC

CONSTANTS t1, t2, s1, s2

VARIABLE part

\* Zone data: days of two hours; an hour left out from tick 3, an hour repeated at tick 4
Plain == [t \in Ticks |-> <<t \div 2, t % 2>>]
Gap == [t \in Ticks |-> IF t < 3 THEN Plain[t] ELSE <<(t + 1) \div 2, (t + 1) % 2>>]
Fold == [t \in Ticks |-> IF t < 4 THEN Plain[t] ELSE <<(t - 1) \div 2, (t - 1) % 2>>]
Zones == {Plain, Gap, Fold}
TwoProfiles == {[hour |-> 1, length |-> 2, fold |-> "first", gap |-> "advance"],
                [hour |-> 1, length |-> 2, fold |-> "second", gap |-> "skip"]}

\* Calendars: a master with up to two overrides beside another series, and two
\* revisions of one master
MasterRecords == [rid : {-1}, from : {0, 2}, long : {0, 1}, cancelled : {FALSE}, seq : {0, 1},
                  every : {-1, 0, 2}, until : {3, 6}, extra : {{}, {5}}, except : {{}, {2}}, ok : {TRUE}]
OverrideRecords == [rid : {2, 6}, from : {3, 6}, long : {1}, cancelled : {TRUE}, seq : {0, 1},
                    every : {0}, until : {0}, extra : {{}}, except : {{}}, ok : {TRUE}]
SingleRecord(ok) == [rid |-> -1, from |-> 3, long |-> 1, cancelled |-> FALSE, seq |-> 0,
               every |-> 0, until |-> 0, extra |-> {}, except |-> {}, ok |-> ok]
Calendars ==
    {("u1" :> {e} \cup f @@ "u2" :> {SingleRecord(ok)}) :
        e \in {x \in MasterRecords : x.seq = 0}, ok \in BOOLEAN,
        f \in {{}} \cup {{x} : x \in OverrideRecords}
                   \cup {{x, y} : x, y \in {z \in OverrideRecords : z.rid = 2}}}
    \cup {("u1" :> {e, f}) : e \in {x \in MasterRecords : x.seq = 0 /\ x.until = 6},
                             f \in {x \in MasterRecords : x.every = 2 /\ x.until = 6}}

ManagementSymmetry == Permutations({t1, t2}) \cup Permutations({s1, s2})

\* A component that does not run has no state
Off == "off"

MCInit ==
    /\ part \in {"commands", "pump", "windows", "series", "snapshots", "reminders", "chat", "admin", "health"}
    /\ IF part = "commands" THEN SubInit
       ELSE /\ rows = Off /\ links = Off /\ creation = Off /\ ownerGrant = Off
            /\ subGate = Off /\ command = Off
    /\ IF part = "pump" THEN PlanInit
       ELSE /\ stage = Off /\ epoch = Off /\ wish = Off /\ config = Off /\ subsGate = Off
            /\ jobRow = Off /\ armed = Off /\ plan = Off /\ signature = Off /\ collect = Off
    /\ IF part = "windows" THEN WindowsInit
       ELSE /\ utcNow = Off /\ wallClock = Off /\ schedule = Off /\ windows = Off
            /\ members = Off /\ planner = Off
    /\ IF part = "series" THEN SeriesInit
       ELSE /\ calendar = Off /\ reading = Off
    /\ IF part = "snapshots" THEN SnapshotsInit
       ELSE /\ hour = Off /\ snapshot = Off /\ busy = Off /\ sync = Off
    /\ IF part = "reminders" THEN RemindersInit
       ELSE /\ tick = Off /\ settings = Off /\ observed = Off /\ evalState = Off
            /\ summaries = Off /\ since = Off
    /\ IF part = "chat" THEN ChatInit
       ELSE /\ handler = Off /\ chatLife = Off /\ pending = Off /\ spent = Off
            /\ scopes = Off /\ target = Off /\ drawn = Off /\ talk = Off /\ picks = Off
    /\ IF part = "admin" THEN AdminInit
       ELSE /\ pagesOpen = Off /\ accepting = Off /\ registered = Off /\ configured = Off
            /\ adminGate = Off /\ admin = Off
    /\ IF part = "health" THEN HealthInit
       ELSE /\ moduleRun = Off /\ storedRow = Off /\ known = Off /\ runHealth = Off
            /\ probes = Off /\ publishing = Off /\ unpublished = Off /\ prober = Off

MCNext ==
    /\ UNCHANGED part
    /\ IF part = "commands" THEN SubNext ELSE UNCHANGED subVars
    /\ IF part = "pump" THEN PlanNext ELSE UNCHANGED planVars
    /\ IF part = "windows" THEN WindowsNext ELSE UNCHANGED windowVars
    /\ IF part = "series" THEN SeriesNext ELSE UNCHANGED seriesVars
    /\ IF part = "snapshots" THEN SnapshotsNext ELSE UNCHANGED snapshotVars
    /\ IF part = "reminders" THEN RemindersNext ELSE UNCHANGED reminderVars
    /\ IF part = "chat" THEN ChatNext ELSE UNCHANGED chatVars
    /\ IF part = "admin" THEN AdminNext ELSE UNCHANGED adminVars
    /\ IF part = "health" THEN HealthNext ELSE UNCHANGED healthVars

MCSpec == MCInit /\ [][MCNext]_<<part, subVars, planVars, windowVars, seriesVars, snapshotVars,
                                  reminderVars, chatVars, adminVars, healthVars>>

-----------------------------------------------------------------------------
(* Properties *)

\* Two commands that both counted, read the Grant and looked for a duplicate before
\* the gate: create, revise and cancel keep the quota and the uniqueness of a
\* creation key, and write under no Grant that was revoked or renewed.
CommandsKeepRules ==
    [][part = "commands" => QuotaHolds' /\ CreationIsUnique' /\ GrantedWriteIsCurrent]_subVars

\* No step of the pump skips a reconciliation that was needed, stores a collection
\* for another configuration than it was claimed under, or overrides a gate.
PlanIsCurrent ==
    [][part = "pump" => SignatureIsTruth' /\ StoredAsConfigured /\ GatesKeepTheirValue]_planVars

\* Over revisions, gaps and folds of local time and new zone data, an event finds the
\* window create_digest_windows_page planned for it, and its members stay inside.
WindowsHold ==
    part = "windows" => EventFindsWindow /\ MembersStayInside

\* parse_ics returns what the source announces, whichever revisions, overrides and
\* budgets it meets.
CalendarIsFaithful ==
    part = "series" => ParseIsFaithful

\* No step of synchronize, in one instance or in two, loses a complete text, hides a
\* fresh one from read, or breaks the cooldown of a source.
SnapshotsServe ==
    [][part = "snapshots" => FreshIsFound' /\ CompleteIsKept /\ CooldownHolds]_snapshotVars

\* No step of the reminder evaluation sends a second summary of a local date, or one
\* whose due time was not ahead when the schedule was first seen.
SummariesAreDue ==
    [][part = "reminders" => OneSummaryPerDate' /\ SummaryIsAhead]_reminderVars

\* No step of the market, item and logs chats selects twice from one confirmation or
\* one batch, or answers with the facts of a superseded query.
ChatIsConsistent ==
    [][part = "chat" => OneSelection' /\ LatestQueryAnswers]_chatVars

\* No step of an administrator's request acts after its session, connection or source
\* ended, and none answers with what was never true at one moment.
AdminIsFenced ==
    [][part = "admin" => EffectsAreAuthorized /\ AnswersTellTruth]_adminVars

\* No step of prepare, refresh_source or publish_config leaves admission with a
\* readiness older than what is stored, or with the answer of an older probe.
HealthIsCurrent ==
    [][part = "health" => HealthTellsTruth' /\ ProbesStayOrdered]_healthVars
=============================================================================
