-------------------------- MODULE CalendarSnapshots --------------------------
(***************************************************************************)
(* The stored snapshots of the calendar sources of one region.  A          *)
(* synchronisation goes to the primary source and, unless that is complete *)
(* now, to the fallback: under the lock of the source it reads the row,    *)
(* leaves it when the source is not due, cached or cooling down, claims it *)
(* durably before the request, and stores the outcome under the revision   *)
(* of its claim.  A reader takes the best of what is stored.               *)
(*                                                                         *)
(* Two service instances may run at once, each with its own locks; a task  *)
(* may be cancelled at every await.  Time is counted in hours.             *)
(***************************************************************************)
EXTENDS Integers, FiniteSets

CONSTANTS
    SyncTasks,     \* calls of synchronize and read
    Instances,     \* CalendarSnapshots objects, with their locks
    Interval,      \* calendar_sync_interval_seconds
    Cooldown,      \* MANUAL_COOLDOWN_SECONDS
    MaxAge,        \* MAX_REMINDER_AGE
    LastHour       \* bound on the clock

ASSUME SnapshotsAssumption ==
    /\ IsFiniteSet(SyncTasks) /\ Instances # {}
    /\ Interval \in Nat \ {0} /\ Cooldown \in Nat \ {0} /\ MaxAge \in Nat /\ LastHour \in Nat

VARIABLES
    hour,       \* the clock
    snapshot,   \* source -> row of calendar_snapshots; floating: its complete text
                \* has a time without a zone
    busy,       \* <<instance, source>> whose lock is held
    sync        \* task -> [pc, mode, inst, src, row, same]: same while nobody
                \* else wrote the row since it was read or claimed

snapshotVars == <<hour, snapshot, busy, sync>>

CalendarSources == {"primary", "fallback"}
Never == -1
NoSnapshot == [complete |-> Never, floating |-> FALSE, partial |-> Never, status |-> "none",
               anchor |-> Never, retry |-> Never]
NoInstance == "none"
NoSync == [pc |-> "idle", mode |-> "due", inst |-> NoInstance, src |-> "primary",
           row |-> NoSnapshot, same |-> FALSE]

SnapshotsInit ==
    /\ hour = 0 /\ busy = {}
    /\ snapshot = [s \in CalendarSources |-> NoSnapshot]
    /\ sync = [t \in SyncTasks |-> NoSync]

HourPasses ==
    /\ hour < LastHour /\ hour' = hour + 1
    /\ UNCHANGED <<snapshot, busy, sync>>

HasData(r) == r.complete # Never \/ r.partial # Never

Starts(t, mode, i) == sync' = [sync EXCEPT ![t] = [NoSync EXCEPT !.pc = "lock", !.mode = mode, !.inst = i]]

\* CalendarSyncCollector.collect, a background collection
BackgroundSync(t) ==
    /\ sync[t].pc = "idle"
    /\ \E i \in Instances : Starts(t, "due", i)
    /\ UNCHANGED <<hour, snapshot, busy>>

\* CalendarQuery.invoke: read with manual, or with cold_sync when nothing is stored.
QueryReads(t) ==
    /\ sync[t].pc = "idle"
    /\ \E i \in Instances, mode \in {"cold", "manual"} :
          /\ mode = "cold" => \A s \in CalendarSources : ~HasData(snapshot[s])
          /\ Starts(t, mode, i)
    /\ UNCHANGED <<hour, snapshot, busy>>

LockOf(t) == <<sync[t].inst, sync[t].src>>

\* The next source of the loop, or its end.
SourceDone(t, r, calls) ==
    /\ busy' = busy \ {LockOf(t)}
    /\ sync' = [calls EXCEPT ![t] =
           IF @.src = "primary" /\ ~(r.status = "complete" /\ r.complete # Never)
           THEN [@ EXCEPT !.pc = "lock", !.src = "fallback", !.row = NoSnapshot, !.same = FALSE] ELSE NoSync]

DueAt(r) == IF r.anchor = Never THEN Never ELSE r.anchor + Interval

\* What leaves the source alone.
Left_NoCooldown(mode, r) ==
    \/ mode = "due" /\ r.anchor # Never /\ hour < DueAt(r)
    \/ mode = "cold" /\ HasData(r)

Left(mode, r) ==
    \/ mode = "due" /\ r.anchor # Never /\ hour < DueAt(r)
    \/ mode = "cold" /\ HasData(r)
    \/ mode \in {"cold", "manual"} /\ r.retry # Never /\ hour < r.retry

\* The row of the claim; a manual one does not move the background anchor.
ClaimRow(mode, r) ==
    [r EXCEPT !.anchor = IF mode # "manual" \/ r.anchor = Never \/ hour >= DueAt(r) THEN hour ELSE @,
              !.retry = hour + Cooldown, !.status = "interrupted"]

\* The lock of the source, and the row under it.
RowRead(t) ==
    /\ sync[t].pc = "lock" /\ LockOf(t) \notin busy
    /\ LET r == snapshot[sync[t].src] IN
          IF Left(sync[t].mode, r) THEN SourceDone(t, r, sync)
          ELSE /\ sync' = [sync EXCEPT ![t].pc = "claim", ![t].row = ClaimRow(sync[t].mode, r),
                                       ![t].same = TRUE]
               /\ busy' = busy \cup {LockOf(t)}
    /\ UNCHANGED <<hour, snapshot>>

\* records.create or replace: the revision that was read is still the row's.
SameRevision_Any(t) == TRUE

SameRevision(t) == sync[t].same

\* A write makes the revisions others have of the row old.
Outrun(t) ==
    [u \in SyncTasks |-> IF u # t /\ sync[u].src = sync[t].src THEN [sync[u] EXCEPT !.same = FALSE]
                         ELSE sync[u]]

Claimed(t) ==
    /\ sync[t].pc = "claim"
    /\ IF SameRevision(t)
       THEN /\ snapshot' = [snapshot EXCEPT ![sync[t].src] = sync[t].row]
            /\ sync' = [Outrun(t) EXCEPT ![t].pc = "fetch"]
            /\ UNCHANGED busy
       ELSE SourceDone(t, snapshot[sync[t].src], sync) /\ UNCHANGED snapshot
    /\ UNCHANGED hour

\* The request within its deadline.  A complete text makes the partial one obsolete;
\* it is parsed with reject_floating=False, so one with floating times is complete.
CompleteText(r, o) == [r EXCEPT !.complete = hour, !.floating = (o = "floating"),
                                !.partial = Never, !.status = "complete"]

Outcome_DropsComplete(r, o) ==
    CASE o \in {"complete", "floating"} -> CompleteText(r, o)
      [] o = "partial" -> [r EXCEPT !.partial = hour, !.complete = Never, !.status = o]
      [] o = "failed" -> [r EXCEPT !.status = o]

Outcome(r, o) ==
    CASE o \in {"complete", "floating"} -> CompleteText(r, o)
      [] o = "partial" -> [r EXCEPT !.partial = hour, !.status = o]
      [] o = "failed" -> [r EXCEPT !.status = o]

\* The outcome is stored; the commit raises when the row has another revision.
OutcomeStored(t) ==
    /\ sync[t].pc = "fetch"
    /\ \E o \in {"complete", "floating", "partial", "failed"} :
          IF SameRevision(t)
          THEN /\ snapshot' = [snapshot EXCEPT ![sync[t].src] = Outcome(sync[t].row, o)]
               /\ SourceDone(t, Outcome(sync[t].row, o), Outrun(t))
          ELSE /\ busy' = busy \ {LockOf(t)}
               /\ sync' = [sync EXCEPT ![t] = NoSync]
               /\ UNCHANGED snapshot
    /\ UNCHANGED hour

\* Cancelled at an await: only the lock is given back.
SyncCancelled(t) ==
    /\ sync[t].pc # "idle"
    /\ busy' = IF sync[t].pc = "lock" THEN busy ELSE busy \ {LockOf(t)}
    /\ sync' = [sync EXCEPT ![t] = NoSync]
    /\ UNCHANGED <<hour, snapshot>>

SnapshotsNext ==
    \/ HourPasses
    \/ \E t \in SyncTasks :
          \/ BackgroundSync(t)
          \/ QueryReads(t)
          \/ RowRead(t)
          \/ Claimed(t)
          \/ OutcomeStored(t)
          \/ SyncCancelled(t)

SnapshotsSpec == SnapshotsInit /\ [][SnapshotsNext]_snapshotVars

-----------------------------------------------------------------------------
\* read

\* The stored texts a reader finds; of a partial one floating makes no difference.
Choices ==
    {[complete |-> TRUE, floating |-> snapshot[s].floating, at |-> snapshot[s].complete, src |-> s] :
         s \in {x \in CalendarSources : snapshot[x].complete # Never}}
    \cup {[complete |-> FALSE, floating |-> FALSE, at |-> snapshot[s].partial, src |-> s] :
         s \in {x \in CalendarSources : snapshot[x].partial # Never}}

\* The order of the choices; occurrences of a partial text are left open.
Better_Primary(c, d) == c.complete /\ d.complete /\ c.src = "primary"

Better(c, d) ==
    \/ c.complete /\ ~d.complete
    \/ c.complete = d.complete /\ c.at > d.at
    \/ c.complete = d.complete /\ c.at = d.at /\ c.src = "primary"

Picks == {c \in Choices : \A d \in Choices \ {c} : ~Better(d, c)}

\* The completeness a read for reminders gives a pick: the text is parsed again, now
\* with reject_floating=True, and one with floating times is partial.
StatusOf(c) ==
    IF hour - c.at > MaxAge THEN "failed"
    ELSE IF c.complete /\ ~c.floating THEN "complete" ELSE "partial"

-----------------------------------------------------------------------------
\* Properties.

\* Source s has a complete text that the reminders can read and that is not too old.
Serves(s) ==
    /\ snapshot[s].complete # Never /\ hour - snapshot[s].complete <= MaxAge
    /\ ~snapshot[s].floating

\* Source s has a complete text the reminders cannot read, at least as new as at.
Hides(s, at) ==
    snapshot[s].complete # Never /\ snapshot[s].floating /\ snapshot[s].complete >= at

\* While a source has a complete text that reminders can read and that is not too old,
\* a reminder's read is complete, whatever partial text was fetched from a source since
\* and whenever one failed.  Only a complete text with floating times, as new or newer,
\* takes its place: the choice is made before what the parse of the read says of it.
FreshIsFound ==
    (\E s \in CalendarSources :
         Serves(s) /\ \A x \in CalendarSources : ~Hides(x, snapshot[s].complete))
        => \A c \in Picks : StatusOf(c) = "complete"

\* A complete text is only ever replaced by a later one: a failed, partial, cancelled
\* or outrun refresh does not take it away.
CompleteIsKept ==
    \A s \in CalendarSources : snapshot'[s].complete >= snapshot[s].complete

\* No call on behalf of a user claims a source that another call claimed less than
\* the cooldown ago, in this or in another instance.
CooldownHolds ==
    \A t \in SyncTasks :
          /\ sync[t].pc = "claim" /\ sync'[t].pc = "fetch" /\ sync[t].mode # "due"
          => snapshot[sync[t].src].retry <= hour
=============================================================================
