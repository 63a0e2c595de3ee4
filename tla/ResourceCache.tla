--------------------------- MODULE ResourceCache ---------------------------
(***************************************************************************)
(* Content-addressed resources of one owner scope: the assets index, the   *)
(* managed entries with their eviction tombstones, the files on disk, the  *)
(* pins and in-memory reader leases, and one module cache row that names a *)
(* stored page.                                                            *)
(*                                                                         *)
(* An asset stands for its content: an identifier is the hash of scope and *)
(* bytes, so a file is present with a given identity or it is absent.      *)
(* Every entry counts one unit of the scope's budget.  The check() between *)
(* two awaits of a writer (admission, grant, deadline) may fail at each    *)
(* place the code calls it, and the process may crash between two steps.   *)
(***************************************************************************)
EXTENDS Naturals, FiniteSets

CONSTANTS
    CacheTasks,     \* invocations using the resource service at once
    Assets,         \* contents that can be stored
    MaxItems        \* ResourceCachePolicy.max_items of the scope

ASSUME CacheAssumption == IsFiniteSet(CacheTasks) /\ IsFiniteSet(Assets)
                          /\ MaxItems \in Nat \ {0} /\ "free" \notin CacheTasks

VARIABLES
    index,       \* asset -> its assets row: "none", "valid", "expired"
    entry,       \* asset -> managed_resource_entries: "none", "live", "evicting"
    files,       \* assets whose file is on disk
    pins,        \* <<task, asset>> pins that have not expired
    page,        \* the cache row of a finished page: its asset, "none" or "dead"
    cacheLock,   \* holder of ManagedResourceCache._lock
    readers,     \* task -> assets it leases, _readers
    job          \* task -> coroutine

cacheVars == <<index, entry, files, pins, page, cacheLock,
               readers, job>>

NoJob == [pc |-> "idle", asset |-> "none", victim |-> "none", visited |-> {},
          had |-> FALSE, managed |-> FALSE, same |-> FALSE, page |-> FALSE]

CacheInit ==
    /\ index = [a \in Assets |-> "none"]
    /\ entry = [a \in Assets |-> "none"]
    /\ files = {}
    /\ pins = {}
    /\ page = "none"
    /\ cacheLock = "free"
    /\ readers = [t \in CacheTasks |-> {}]
    /\ job = [t \in CacheTasks |-> NoJob]

-----------------------------------------------------------------------------
\* What the repository and the file store compute.

Indexed(a) == index[a] # "none"

\* metadata(): a row that has not expired.
Metadata(a) == index[a] = "valid"

Leased == UNION {readers[t] : t \in CacheTasks}

\* pinned_asset_ids
PinnedAssets == {p[2] : p \in pins}

\* managed_usage: tombstones still count.
Usage(entries) == Cardinality({a \in Assets : entries[a] # "none"})

\* _room's fits(): a new entry adds one, an existing one nothing.
Fits(entries, a) == Usage(entries) + (IF entries[a] = "none" THEN 1 ELSE 0) <= MaxItems

\* managed_candidates: tombstones and expired entries first, then the others
\* in order of last use, which the model leaves open.
Stale(a) == entry[a] = "evicting" \/ (entry[a] = "live" /\ index[a] = "expired")
Candidates(t, expiredOnly) ==
    {a \in Assets \ ({job[t].asset} \cup Leased \cup PinnedAssets \cup job[t].visited) :
        entry[a] # "none" /\ (expiredOnly => Stale(a))}

\* Revisions and file identities matter only by comparison with a value read
\* earlier: a new row, a new revision and a new file make every snapshot of the
\* asset differ, a put or an invalidation every cache revision read before it.
Changed(j, a) == [t \in CacheTasks |-> IF j[t].asset = a /\ j[t].pc # "put"
                                       THEN [j[t] EXCEPT !.same = FALSE] ELSE j[t]]
Repaged(j) == [t \in CacheTasks |-> IF j[t].pc = "put" THEN [j[t] EXCEPT !.same = FALSE]
                                    ELSE j[t]]

\* Effects of one storage or file call.

\* managed_mark_evicting
Tombstoned(a) == [entry EXCEPT ![a] = "evicting"]

\* managed_finish_eviction: the rows go only if the tombstone is still there.
Forgotten(a) ==
    IF entry[a] = "evicting"
    THEN /\ index' = [index EXCEPT ![a] = "none"]
         /\ entry' = [entry EXCEPT ![a] = "none"]
    ELSE UNCHANGED <<index, entry>>

\* register_managed: the tombstone is lifted; a row that appeared meanwhile
\* without an entry stays a plain resource.
Upserted(a) ==
    /\ index' = [index EXCEPT ![a] = "valid"]
    /\ entry' = [entry EXCEPT ![a] = IF Indexed(a) /\ @ = "none" THEN @ ELSE "live"]

\* register without an expected revision: an existing row is a conflict.
Inserted(a) == index' = IF Indexed(a) THEN index ELSE [index EXCEPT ![a] = "valid"]

\* commit: an equal file already in place is kept.
Committed(a) == files' = files \cup {a}

\* remove_managed: the file and its markers.
Removed(a) == files' = files \ {a}

\* pin_resources: no pin on an expired row or a tombstone.
Pinnable(a) == Metadata(a) /\ entry[a] # "evicting"

Moves(t, pc) == job' = [job EXCEPT ![t].pc = pc]
EndsJob(t) == job' = [job EXCEPT ![t] = NoJob]
Unlocks(t) == cacheLock' = "free" /\ EndsJob(t)

-----------------------------------------------------------------------------
\* ManagedResourceCache.store, under the manager's lock.

StoreCalled(t, a) ==
    /\ job[t].pc = "idle"
    /\ job' = [job EXCEPT ![t] = [NoJob EXCEPT !.pc = "store", !.asset = a]]
    /\ UNCHANGED <<index, entry, files, pins, page, cacheLock, readers>>

StoreEnters(t) ==
    /\ job[t].pc = "store" /\ cacheLock = "free"
    /\ cacheLock' = t
    /\ Moves(t, "inspect")
    /\ UNCHANGED <<index, entry, files, pins, page, readers>>

\* registration_state and managed_entry; an expired plain resource is refused,
\* and a plain resource needs no room.
StoreInspects(t) ==
    /\ job[t].pc = "inspect"
    /\ LET a == job[t].asset IN
         IF index[a] = "expired" /\ entry[a] = "none"
         THEN Unlocks(t)
         ELSE /\ job' = [job EXCEPT ![t].pc = IF Indexed(a) /\ entry[a] = "none"
                                              THEN "write" ELSE "expired",
                                    ![t].had = Indexed(a),
                                    ![t].managed = entry[a] # "none"]
              /\ UNCHANGED cacheLock
    /\ UNCHANGED <<index, entry, files, pins, page, readers>>

\* The cleanup pass over expired entries and tombstones, then the admission
\* pass by last use.  A pass stops when its candidates are used up.
RoomPicks(t) ==
    /\ job[t].pc \in {"expired", "lru"}
    /\ \E a \in Candidates(t, job[t].pc = "expired") :
         job' = [job EXCEPT ![t].victim = a, ![t].visited = @ \cup {a},
                            ![t].pc = IF job[t].pc = "expired" THEN "mark expired" ELSE "mark lru"]
    /\ UNCHANGED <<index, entry, files, pins, page, cacheLock, readers>>

RoomPassEnds(t) ==
    /\ job[t].pc \in {"expired", "lru"}
    /\ Candidates(t, job[t].pc = "expired") = {}
    /\ \/ Fits(entry, job[t].asset) /\ Moves(t, "write") /\ UNCHANGED cacheLock
       \/ ~Fits(entry, job[t].asset) /\ job[t].pc = "expired" /\ Moves(t, "lru") /\ UNCHANGED cacheLock
       \/ ~Fits(entry, job[t].asset) /\ job[t].pc = "lru" /\ Unlocks(t)
    /\ UNCHANGED <<index, entry, files, pins, page, readers>>

\* managed_mark_evicting: refused while a pin holds the asset.
Markable(t) ==
    /\ job[t].victim \notin Leased
    /\ job[t].victim \notin PinnedAssets

EvictMarks_KeepsLive(t) ==
    /\ job[t].pc \in {"mark expired", "mark lru"}
    /\ Markable(t)
    /\ Moves(t, IF job[t].pc = "mark expired" THEN "remove expired" ELSE "remove lru")
    /\ UNCHANGED <<index, entry, files, pins, page, cacheLock, readers>>

EvictMarks(t) ==
    /\ job[t].pc \in {"mark expired", "mark lru"}
    /\ LET pass == IF job[t].pc = "mark expired" THEN "expired" ELSE "lru" IN
         IF Markable(t)
         THEN /\ entry' = Tombstoned(job[t].victim)
              /\ Moves(t, IF pass = "expired" THEN "remove expired" ELSE "remove lru")
         ELSE /\ Moves(t, IF Fits(entry, job[t].asset) THEN "write" ELSE pass)
              /\ UNCHANGED entry
    /\ UNCHANGED <<index, files, pins, page, cacheLock, readers>>

EvictRemoves(t) ==
    /\ job[t].pc \in {"remove expired", "remove lru"}
    /\ Removed(job[t].victim)
    /\ job' = Changed([job EXCEPT ![t].pc = IF @ = "remove expired" THEN "finish expired"
                                            ELSE "finish lru"], job[t].victim)
    /\ UNCHANGED <<index, entry, pins, page, cacheLock, readers>>

EvictFinishes(t) ==
    /\ job[t].pc \in {"finish expired", "finish lru"}
    /\ LET v == job[t].victim
           pass == IF job[t].pc = "finish expired" THEN "expired" ELSE "lru" IN
         /\ Forgotten(v)
         /\ job' = Changed([job EXCEPT ![t].victim = "none",
                               ![t].pc = IF Fits(entry', job[t].asset) THEN "write" ELSE pass], v)
    /\ UNCHANGED <<files, pins, page, cacheLock, readers>>

\* Stage and replace_managed, unless the indexed file still has the content.
StoreWrites(t) ==
    /\ job[t].pc = "write"
    /\ LET a == job[t].asset
           kept == job[t].had /\ a \in files
           next == [job EXCEPT ![t].pc = IF job[t].had /\ ~job[t].managed
                                         THEN "remember" ELSE "register"] IN
         /\ files' = files \cup {a}
         /\ job' = IF kept THEN next ELSE Changed(next, a)
    /\ UNCHANGED <<index, entry, pins, page, cacheLock, readers>>

RegisterManaged(t) ==
    /\ job[t].pc = "register"
    /\ LET a == job[t].asset IN
         /\ Upserted(a)
         /\ job' = Changed([job EXCEPT ![t].pc = "remember"], a)
    /\ UNCHANGED <<files, pins, page, cacheLock, readers>>

\* remember_integrity for the file just written, then the lock is released; a
\* finished page goes on to its cache row.
StoreRemembers(t) ==
    /\ job[t].pc = "remember"
    /\ cacheLock' = "free"
    /\ IF job[t].page
       THEN job' = [job EXCEPT ![t] = [NoJob EXCEPT !.pc = "page", !.asset = job[t].asset]]
       ELSE EndsJob(t)
    /\ UNCHANGED <<index, entry, files, pins, page, readers>>

\* check() raises: the stage is discarded, everything already done stays.
StoreRefused(t) ==
    /\ job[t].pc \in {"inspect", "expired", "lru", "mark expired", "mark lru", "remove expired",
                      "remove lru", "finish expired", "finish lru", "write", "register",
                      "remember"}
    /\ Unlocks(t)
    /\ UNCHANGED <<index, entry, files, pins, page, readers>>

-----------------------------------------------------------------------------
\* ResourceAccessCoordinator.register: stage, commit, index; no lock.

PlainCommits(t, a) ==
    /\ job[t].pc = "idle"
    /\ Committed(a)
    /\ job' = [job EXCEPT ![t] = [NoJob EXCEPT !.pc = "plain", !.asset = a]]
    /\ UNCHANGED <<index, entry, pins, page, cacheLock, readers>>

PlainIndexes(t) ==
    /\ job[t].pc = "plain"
    /\ Inserted(job[t].asset)
    /\ EndsJob(t)
    /\ UNCHANGED <<entry, files, pins, page, cacheLock, readers>>

\* A refusal after the commit: the file stays, marked orphan when no row names
\* it; a row that exists is left alone.
PlainRefused(t) ==
    /\ job[t].pc = "plain"
    /\ EndsJob(t)
    /\ UNCHANGED <<index, entry, files, pins, page, cacheLock, readers>>

\* delete: the index row and the identity go; entry, file and pins stay.
DeleteResource(a) ==
    /\ Indexed(a)
    /\ index' = [index EXCEPT ![a] = "none"]
    /\ job' = Changed(job, a)
    /\ UNCHANGED <<entry, files, pins, page, cacheLock, readers>>

-----------------------------------------------------------------------------
\* Readers: lease first (the lock is held only to count), then look.

ReadLeases_Unlocked(t, a) ==
    /\ job[t].pc = "idle"
    /\ readers' = [readers EXCEPT ![t] = {a}]
    /\ job' = [job EXCEPT ![t] = [NoJob EXCEPT !.pc = "look", !.asset = a]]
    /\ UNCHANGED <<index, entry, files, pins, page, cacheLock>>

ReadLeases(t, a) ==
    /\ job[t].pc = "idle" /\ cacheLock = "free"
    /\ readers' = [readers EXCEPT ![t] = {a}]
    /\ job' = [job EXCEPT ![t] = [NoJob EXCEPT !.pc = "look", !.asset = a]]
    /\ UNCHANGED <<index, entry, files, pins, page, cacheLock>>

Releases(t) == readers' = [readers EXCEPT ![t] = {}] /\ EndsJob(t)

\* managed_entry and metadata: a tombstone and a missing or expired row refuse.
ReadLooks(t) ==
    /\ job[t].pc = "look"
    /\ LET a == job[t].asset IN
         IF entry[a] = "evicting" \/ ~Metadata(a)
         THEN Releases(t)
         ELSE /\ job' = [job EXCEPT ![t].pc = "read", ![t].same = a \in files]
              /\ UNCHANGED readers
    /\ UNCHANGED <<index, entry, files, pins, page, cacheLock>>

\* The bytes, checked against the identifier; a missing file refuses.
ReadContent(t) ==
    /\ job[t].pc = "read"
    /\ Releases(t)
    /\ UNCHANGED <<index, entry, files, pins, page, cacheLock>>

\* snapshot: a remembered identity that still matches saves the read; otherwise
\* the bytes are read and the identity remembered if nothing moved meanwhile.
SnapshotTaken(t) ==
    /\ job[t].pc = "read"
    /\ IF job[t].same /\ job[t].asset \in files
       THEN Moves(t, "snapshot")
       ELSE EndsJob(t)
    /\ readers' = [readers EXCEPT ![t] = {}]
    /\ UNCHANGED <<index, entry, files, pins, page, cacheLock>>

-----------------------------------------------------------------------------
\* Pins: taken on a snapshot's strength under the lock.

PinRows(t) ==
    /\ job[t].pc = "snapshot" /\ cacheLock = "free"
    /\ pins' = IF Pinnable(job[t].asset) THEN pins \cup {<<t, job[t].asset>>}
               ELSE pins
    /\ EndsJob(t)
    /\ UNCHANGED <<index, entry, files, page, cacheLock, readers>>

\* unpin, the end of the invocation (release_invocation_pins) and lease expiry.
UnpinRows(t, a) ==
    /\ <<t, a>> \in pins
    /\ pins' = pins \ {<<t, a>>}
    /\ UNCHANGED <<index, entry, files, page, cacheLock, readers, job>>

ReleasePins(t) ==
    /\ job[t].pc = "idle" /\ \E p \in pins : p[1] = t
    /\ pins' = {p \in pins : p[1] # t}
    /\ UNCHANGED <<index, entry, files, page, cacheLock, readers, job>>

RowExpires(a) ==
    /\ Metadata(a)
    /\ index' = [index EXCEPT ![a] = "expired"]
    /\ pins' = {p \in pins : p[2] # a}
    /\ UNCHANGED <<entry, files, page, cacheLock, readers, job>>

-----------------------------------------------------------------------------
\* A collage page: sources leased for the whole resolution, then checked again.

CollageLeases(t) ==
    /\ job[t].pc = "snapshot" /\ cacheLock = "free"
    /\ readers' = [readers EXCEPT ![t] = {job[t].asset}]
    /\ Moves(t, "resolve")
    /\ UNCHANGED <<index, entry, files, pins, page, cacheLock>>

\* read_snapshot and the derivative: any mismatch refuses.
CollageResolves(t) ==
    /\ job[t].pc = "resolve"
    /\ LET a == job[t].asset IN
         IF Metadata(a) /\ entry[a] # "evicting" /\ job[t].same /\ a \in files
         THEN Moves(t, "confirm") /\ UNCHANGED readers
         ELSE Releases(t)
    /\ UNCHANGED <<index, entry, files, pins, page, cacheLock>>

\* collage_snapshots_current, still under the leases; then the finished page is
\* stored as a resource of its own.
CollageConfirms(t) ==
    /\ job[t].pc = "confirm"
    /\ IF Metadata(job[t].asset) /\ job[t].same /\ job[t].asset \in files
       THEN \E a \in Assets :
              job' = [job EXCEPT ![t] = [NoJob EXCEPT !.pc = "store", !.asset = a, !.page = TRUE]]
       ELSE EndsJob(t)
    /\ readers' = [readers EXCEPT ![t] = {}]
    /\ UNCHANGED <<index, entry, files, pins, page, cacheLock>>

\* cache put without an expected revision reads the current one first.
PutReads(t) ==
    /\ job[t].pc = "page"
    /\ job' = [job EXCEPT ![t].pc = "put", ![t].same = TRUE]
    /\ UNCHANGED <<index, entry, files, pins, page, cacheLock, readers>>

\* Insert when no row was seen, else compare and set the revision.
PutPage(t) ==
    /\ job[t].pc = "put"
    /\ IF job[t].same
       THEN /\ page' = job[t].asset
            /\ job' = Repaged([job EXCEPT ![t] = NoJob])
       ELSE UNCHANGED page /\ EndsJob(t)
    /\ UNCHANGED <<index, entry, files, pins, cacheLock, readers>>

\* invalidate: the row stays, dead, with a new revision.
InvalidatePage ==
    /\ page # "none"
    /\ page' = "dead"
    /\ job' = Repaged(job)
    /\ UNCHANGED <<index, entry, files, pins, cacheLock, readers>>

\* load_finished_pages: a live row names an asset, which is read like any other.
LoadPage(t) ==
    /\ page \in Assets
    /\ ReadLeases(t, page)

-----------------------------------------------------------------------------
\* Process crash and restart: the lock, the leases and the coroutines vanish;
\* rows, files and pins stay.
CacheCrash ==
    /\ cacheLock' = "free"
    /\ readers' = [t \in CacheTasks |-> {}]
    /\ job' = [t \in CacheTasks |-> NoJob]
    /\ UNCHANGED <<index, entry, files, pins, page>>

CacheNext ==
    \/ \E t \in CacheTasks, a \in Assets :
         StoreCalled(t, a) \/ PlainCommits(t, a) \/ ReadLeases(t, a) \/ UnpinRows(t, a)
    \/ \E t \in CacheTasks :
         \/ StoreEnters(t) \/ StoreInspects(t) \/ RoomPicks(t) \/ RoomPassEnds(t) \/ EvictMarks(t)
         \/ EvictRemoves(t) \/ EvictFinishes(t) \/ StoreWrites(t) \/ RegisterManaged(t)
         \/ StoreRemembers(t) \/ StoreRefused(t) \/ PlainIndexes(t) \/ PlainRefused(t)
         \/ ReadLooks(t) \/ ReadContent(t) \/ SnapshotTaken(t) \/ PinRows(t) \/ ReleasePins(t)
         \/ CollageLeases(t) \/ CollageResolves(t) \/ CollageConfirms(t) \/ PutReads(t) \/ PutPage(t)
         \/ LoadPage(t)
    \/ \E a \in Assets : DeleteResource(a) \/ RowExpires(a)
    \/ InvalidatePage
    \/ CacheCrash

CacheSpec == CacheInit /\ [][CacheNext]_cacheVars

-----------------------------------------------------------------------------
\* A managed entry that is not a tombstone has its file: whatever check fails
\* and wherever the process stops between marking an entry, removing the file
\* and deleting the rows (_evict), or between replacing the file and
\* registering it (store), a reader that finds a live entry finds the bytes.
\* A pinned entry is live, so a pin is a promise about bytes.
ManagedHasFile ==
    /\ \A a \in Assets : entry[a] = "live" => a \in files
    /\ \A a \in PinnedAssets : entry[a] # "evicting"

\* No step takes the file of an asset that some reader leases, or that a live
\* pin holds, away: eviction meets leases taken before it started and pins
\* written by other invocations.
LeasedFileStays ==
    \A a \in Assets : a \in files /\ a \notin files' =>
         a \notin Leased /\ a \notin PinnedAssets
=============================================================================
