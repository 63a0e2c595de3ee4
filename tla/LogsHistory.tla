---------------------------- MODULE LogsHistory ----------------------------
(***************************************************************************)
(* The FFLogs character query of the FF14 module: server directory,        *)
(* character lookup, catalogue metadata, the history of every ranking      *)
(* scope (from cache packs and from two workers that fetch in batches) and *)
(* the answer assembled from it; and the output percentile query.          *)
(*                                                                         *)
(* A scope is one (zone, difficulty, partition, metric, timeframe) key; a  *)
(* batch holds one scope.  Time limits are a choice at every place the     *)
(* code compares the clock.  The source may hide a character at any time.  *)
(***************************************************************************)
EXTENDS Naturals, FiniteSets

CONSTANTS
    LogQueries,     \* character and percentile queries running at once
    LogScopes,      \* ranking scopes the catalogue plans
    Unqueryable,    \* planned scopes without a known partition, never fetched
    EchoOnly,       \* those of them whose zone has nothing but echo partitions
    LogPacks,       \* cache packs, a partition of the queryable scopes
    PageBudget,     \* page_budget of resolve_server
    Percentiles,    \* number of percentiles, STAT_PERCENTILES
    MaxCloses       \* bound on close() of the handler

ASSUME LogsAssumption ==
    /\ IsFiniteSet(LogQueries) /\ IsFiniteSet(LogScopes) /\ Unqueryable \subseteq LogScopes
    /\ EchoOnly \subseteq Unqueryable
    /\ UNION LogPacks = LogScopes \ Unqueryable
    /\ PageBudget \in Nat \ {0} /\ Percentiles \in Nat \ {0} /\ MaxCloses \in Nat

VARIABLES
    life,       \* FFLogsCharacterLookup._lifecycle
    metaCache,  \* _metadata_cache of the source: [kind, life]
    dutyCache,  \* DutyOrderCatalog._cached: [kind, life]
    contracts,  \* _ranking_contract_cache of the source: [kind, life]
    packCache,  \* pack -> scopes stored under its key
    hides,      \* the source hides the character
    look        \* query -> coroutine

logsVars == <<life, metaCache, dutyCache, contracts, packCache, hides, look>>

NoCached == [kind |-> "none", life |-> 0]
NoLook == [pc |-> "idle", wants |-> "none", life |-> 0, count |-> 0, cached |-> {}, loaded |-> {}, held |-> {},
           todo |-> {}, busy |-> {}, out |-> [s \in LogScopes |-> "none"], limited |-> FALSE,
           stored |-> {}, answer |-> "none"]

LogsInit ==
    /\ life = 0
    /\ metaCache = NoCached
    /\ dutyCache = NoCached
    /\ contracts = NoCached
    /\ packCache = [p \in LogPacks |-> {}]
    /\ hides = FALSE
    /\ look = [q \in LogQueries |-> NoLook]

Queryable == LogScopes \ Unqueryable

\* Lifecycle check of the coroutine.
ActiveLife(q) == look[q].life = life

At(q, pc) == look[q].pc = pc
To(q, pc) == look' = [look EXCEPT ![q].pc = pc]
\* The coroutine ends; what it had gathered matters only for a history.
Answers(q, a) ==
    look' = [look EXCEPT ![q] =
               IF a \in {"complete", "partial"} THEN [@ EXCEPT !.pc = "done", !.answer = a]
               ELSE [NoLook EXCEPT !.pc = "done", !.answer = a]]

-----------------------------------------------------------------------------
\* invoke and _execute up to the character.

\* What the parameters ask for: nothing usable, one zone with extra filters
\* (these need the ranking contract), one zone, or the whole catalogue.
CharacterInputs == {"rejected", "filtered", "zone", "catalogue"}

\* Parameters, then the realm from the server directory when none is given.
QueryStarts(q) ==
    /\ At(q, "idle")
    /\ \E wants \in CharacterInputs :
         IF wants = "rejected" THEN Answers(q, "error")
         ELSE look' = [look EXCEPT ![q] = [NoLook EXCEPT !.pc = "realm", !.life = life,
                                                         !.wants = wants]]
    /\ UNCHANGED <<life, metaCache, dutyCache, contracts, packCache, hides>>

\* resolve_realm, then the state of the credential.
RealmResolved(q) ==
    /\ At(q, "realm")
    /\ IF look[q].wants = "filtered" THEN To(q, "contract") ELSE To(q, "directory")
    /\ UNCHANGED <<life, metaCache, dutyCache, contracts, packCache, hides>>

\* fetch_contract unless the module still has it; a filter it does not list is
\* refused.
ContractStored(q) ==
    /\ At(q, "contract")
    /\ IF contracts.kind # "none"
       THEN (To(q, "directory") \/ Answers(q, "error")) /\ UNCHANGED contracts
       ELSE IF ~ActiveLife(q) THEN Answers(q, "error") /\ UNCHANGED contracts
       ELSE /\ contracts' = [kind |-> "contract", life |-> look[q].life]
            /\ To(q, "directory") \/ Answers(q, "error")
    /\ UNCHANGED <<life, metaCache, dutyCache, packCache, hides>>

\* resolve_server: pages until the directory ends; a repeated page, entry or
\* slug and an exhausted budget leave it incomplete.
DirectoryPage(q) ==
    /\ At(q, "directory")
    /\ \/ /\ look[q].count < PageBudget
          /\ look' = [look EXCEPT ![q].count = @ + 1]
       \/ look[q].count = PageBudget /\ Answers(q, "error")
       \/ /\ look[q].count \in 1..PageBudget
          /\ look' = [look EXCEPT ![q].pc = "server", ![q].count = 0]
    /\ UNCHANGED <<life, metaCache, dutyCache, contracts, packCache, hides>>

\* None, several or one of the entries fits.
ServerChosen(q) ==
    /\ At(q, "server")
    /\ \/ \E r \in {"error", "selection"} : Answers(q, r)
       \/ To(q, "character")
    /\ UNCHANGED <<life, metaCache, dutyCache, contracts, packCache, hides>>

\* The character: hidden, refused, mismatched, or parsed.  A query for one zone
\* answers from this response; a query of the catalogue goes on.
CharacterFetched(q) ==
    /\ At(q, "character")
    /\ IF hides THEN Answers(q, "not public")
       ELSE \/ Answers(q, "error")
            \/ IF look[q].wants = "catalogue" THEN To(q, "metadata") ELSE Answers(q, "zone")
    /\ UNCHANGED <<life, metaCache, dutyCache, contracts, packCache, hides>>

-----------------------------------------------------------------------------
\* _character_metadata: a cached value, or a bounded load whose failure is
\* cached as well.

MetadataCached(q) ==
    /\ At(q, "metadata") /\ metaCache.kind # "none"
    /\ IF metaCache.kind = "verified" THEN To(q, "duty") ELSE Answers(q, "default")
    /\ UNCHANGED <<life, metaCache, dutyCache, contracts, packCache, hides>>

MetadataLoads(q) ==
    /\ At(q, "metadata") /\ metaCache.kind = "none"
    /\ To(q, "metadata loaded")
    /\ UNCHANGED <<life, metaCache, dutyCache, contracts, packCache, hides>>

MetadataStored_Unchecked(q) ==
    /\ At(q, "metadata loaded")
    /\ \E k \in {"verified", "base", "failed"} :
         /\ metaCache' = [kind |-> k, life |-> look[q].life]
         /\ IF k = "verified" THEN To(q, "duty") ELSE Answers(q, "default")
    /\ UNCHANGED <<life, dutyCache, contracts, packCache, hides>>

\* check_active, then the cache and the answer.
MetadataStored(q) ==
    /\ At(q, "metadata loaded")
    /\ IF ~ActiveLife(q)
       THEN Answers(q, "error") /\ UNCHANGED metaCache
       ELSE \E k \in {"verified", "base", "failed"} :
              /\ metaCache' = [kind |-> k, life |-> look[q].life]
              /\ IF k = "verified" THEN To(q, "duty") ELSE Answers(q, "default")
    /\ UNCHANGED <<life, dutyCache, contracts, packCache, hides>>

-----------------------------------------------------------------------------
\* The duty order used to sort ultimates, with an epoch of its own.

DutyLoads(q) ==
    /\ At(q, "duty")
    /\ IF dutyCache.kind # "none"
       THEN To(q, "packs")
       ELSE look' = [look EXCEPT ![q].pc = "duty loaded", ![q].count = life]
    /\ UNCHANGED <<life, metaCache, dutyCache, contracts, packCache, hides>>

DutyStored(q) ==
    /\ At(q, "duty loaded")
    /\ IF look[q].count # life
       THEN Answers(q, "error") /\ UNCHANGED dutyCache
       ELSE \/ \E k \in {"complete", "failed"} :
                 /\ dutyCache' = [kind |-> k, life |-> look[q].count]
                 /\ IF ActiveLife(q) THEN look' = [look EXCEPT ![q].pc = "packs", ![q].count = 0]
                                     ELSE Answers(q, "error")
            \/ Answers(q, "error") /\ UNCHANGED dutyCache
    /\ UNCHANGED <<life, metaCache, contracts, packCache, hides>>

-----------------------------------------------------------------------------
\* _catalog_rankings: read the packs, fetch what is missing, write back.

\* restore_pack: a pack is read, unavailable or expired (an empty pack that may
\* be written), or not reached before read_stop.
PackRead(q, p) ==
    /\ At(q, "packs") /\ p \notin look[q].loaded
    /\ IF ~ActiveLife(q)
       THEN Answers(q, "error")
       ELSE \E got \in {packCache[p], {}} :
              look' = [look EXCEPT ![q].loaded = @ \cup {p}, ![q].held = @ \cup got,
                                   ![q].cached = @ \cup got]
    /\ UNCHANGED <<life, metaCache, dutyCache, contracts, packCache, hides>>

\* The pairs left to fetch are fixed here.
PlanFetch(q) ==
    /\ At(q, "packs")
    /\ look' = [look EXCEPT ![q].pc = "fetch", ![q].todo = Queryable \ look[q].cached]
    /\ UNCHANGED <<life, metaCache, dutyCache, contracts, packCache, hides>>

SeesHidden(q) == \E s \in LogScopes : look[q].out[s] = "hidden"

\* worker: takes the next batch unless the character is hidden, the source
\* limits us or the time is over.
WorkerTakes(q, s) ==
    /\ At(q, "fetch") /\ s \in look[q].todo
    /\ Cardinality(look[q].busy) < 2
    /\ ~SeesHidden(q) /\ ~look[q].limited
    /\ look' = [look EXCEPT ![q].todo = @ \ {s}, ![q].busy = @ \cup {s}]
    /\ UNCHANGED <<life, metaCache, dutyCache, contracts, packCache, hides>>

\* batch: the outcome of one request; a refusal of the credential and a closed
\* handler end the whole query.
BatchAnswers(q, s) ==
    /\ At(q, "fetch") /\ s \in look[q].busy
    /\ \/ /\ ActiveLife(q)
          /\ \E o \in IF hides THEN {"hidden", "failed"} ELSE {"record", "failed"},
                limit \in BOOLEAN :
               /\ limit => o = "failed"
               /\ look' = [look EXCEPT ![q].busy = @ \ {s}, ![q].out[s] = o,
                                       ![q].limited = @ \/ limit]
       \/ Answers(q, "error")
    /\ UNCHANGED <<life, metaCache, dutyCache, contracts, packCache, hides>>

FetchEnds_SkipsHidden(q) ==
    /\ At(q, "fetch") /\ look[q].busy = {}
    /\ IF ~ActiveLife(q) THEN Answers(q, "error") ELSE To(q, "save")
    /\ UNCHANGED <<life, metaCache, dutyCache, contracts, packCache, hides>>

\* Both workers are done: the iterator is empty, or they stopped early.
FetchEnds(q) ==
    /\ At(q, "fetch") /\ look[q].busy = {}
    /\ IF ~ActiveLife(q) THEN Answers(q, "error")
       ELSE IF SeesHidden(q) THEN Answers(q, "not public")
       ELSE To(q, "save")
    /\ UNCHANGED <<life, metaCache, dutyCache, contracts, packCache, hides>>

Fetched(q) == {s \in LogScopes : look[q].out[s] = "record"}

\* pack_payload: loaded siblings stay, an unread pack is never overwritten.  A pack
\* that could not be saved is a warning of the answer and nothing else.
PackSaved(q, p) ==
    /\ At(q, "save") /\ p \notin look[q].stored /\ Fetched(q) \cap p # {}
    /\ \/ /\ p \in look[q].loaded
          /\ packCache' = [packCache EXCEPT ![p] = (look[q].held \cap p) \cup (Fetched(q) \cap p)]
          /\ look' = [look EXCEPT ![q].stored = @ \cup {p}]
       \/ /\ look' = [look EXCEPT ![q].stored = @ \cup {p}]
          /\ UNCHANGED packCache
       \/ /\ ~ActiveLife(q)
          /\ Answers(q, "error")
          /\ UNCHANGED packCache
    /\ UNCHANGED <<life, metaCache, dutyCache, contracts, hides>>

\* _assemble_catalog_rankings: a scope without an outcome counts as not queried; one
\* with nothing but echo partitions is excluded, and lacks nothing.
Recorded(q) == look[q].cached \cup Fetched(q)

UnqueriedState(s) == IF s \in EchoOnly THEN "excluded_echo" ELSE "not_queried"

RowState_MissingIsEmpty(q, s) ==
    IF s \in Unqueryable THEN UnqueriedState(s)
    ELSE IF s \in Recorded(q) \/ look[q].out[s] = "none" THEN "record"
    ELSE "failed"

RowState(q, s) ==
    IF s \in Unqueryable THEN UnqueriedState(s)
    ELSE IF s \in Recorded(q) THEN "record"
    ELSE IF look[q].out[s] = "none" THEN "not_queried" ELSE "failed"

HistoryComplete(q) == \A s \in LogScopes : RowState(q, s) \in {"record", "excluded_echo"}

\* _character_result after the last lifecycle check: complete when no scope and
\* nothing in the directory itself (no qualified zone, another expansion) is warned of.
Assembled(q) ==
    /\ At(q, "save")
    /\ \A p \in LogPacks : Fetched(q) \cap p # {} => p \in look[q].stored
    /\ IF ~ActiveLife(q) THEN Answers(q, "error")
       ELSE \/ HistoryComplete(q) /\ Answers(q, "complete")
            \/ Answers(q, "partial")
    /\ UNCHANGED <<life, metaCache, dutyCache, contracts, packCache, hides>>

\* The invocation's own time limit.
QueryTimesOut(q) ==
    /\ look[q].pc \notin {"idle", "done"}
    /\ Answers(q, "error")
    /\ UNCHANGED <<life, metaCache, dutyCache, contracts, packCache, hides>>

-----------------------------------------------------------------------------
\* FFLogsOutputPercentiles: one page per percentile; after the first value a
\* failure keeps what was read.

StatsStarts(q) ==
    /\ At(q, "idle")
    /\ look' = [look EXCEPT ![q] = [NoLook EXCEPT !.pc = "stats"]]
    /\ UNCHANGED <<life, metaCache, dutyCache, contracts, packCache, hides>>

StatsResolves(q) ==
    /\ At(q, "stats")
    /\ \/ To(q, "percentile")
       \/ \E r \in {"error", "selection"} : Answers(q, r)
    /\ UNCHANGED <<life, metaCache, dutyCache, contracts, packCache, hides>>

StatsCell(q) ==
    /\ At(q, "percentile")
    /\ \/ /\ look[q].count < Percentiles
          /\ look' = [look EXCEPT ![q].count = @ + 1]
       \/ /\ look[q].count < Percentiles
          /\ Answers(q, IF look[q].count = 0 THEN "error" ELSE "percentiles")
       \/ look[q].count = Percentiles /\ Answers(q, "percentiles")
    /\ UNCHANGED <<life, metaCache, dutyCache, contracts, packCache, hides>>

-----------------------------------------------------------------------------
\* close(): a new lifecycle, empty caches.
LogsClose ==
    /\ life < MaxCloses
    /\ life' = life + 1
    /\ metaCache' = NoCached
    /\ dutyCache' = NoCached
    /\ contracts' = NoCached
    /\ UNCHANGED <<packCache, hides, look>>

\* Entries run out of time: the metadata, the duty order, a pack.
CachesExpire ==
    /\ \/ metaCache # NoCached /\ metaCache' = NoCached /\ UNCHANGED <<dutyCache, contracts, packCache>>
       \/ dutyCache # NoCached /\ dutyCache' = NoCached /\ UNCHANGED <<metaCache, contracts, packCache>>
       \/ contracts # NoCached /\ contracts' = NoCached /\ UNCHANGED <<metaCache, dutyCache, packCache>>
       \/ /\ \E p \in LogPacks : packCache[p] # {} /\ packCache' = [packCache EXCEPT ![p] = {}]
          /\ UNCHANGED <<metaCache, dutyCache, contracts>>
    /\ UNCHANGED <<life, hides, look>>

HideCharacter ==
    /\ ~hides
    /\ hides' = TRUE
    /\ UNCHANGED <<life, metaCache, dutyCache, contracts, packCache, look>>

LogsNext ==
    \/ \E q \in LogQueries :
         \/ QueryStarts(q) \/ RealmResolved(q) \/ ContractStored(q) \/ DirectoryPage(q)
         \/ ServerChosen(q) \/ CharacterFetched(q) \/ MetadataCached(q)
         \/ MetadataLoads(q) \/ MetadataStored(q) \/ DutyLoads(q) \/ DutyStored(q)
         \/ PlanFetch(q) \/ FetchEnds(q) \/ Assembled(q) \/ QueryTimesOut(q)
         \/ StatsStarts(q) \/ StatsResolves(q) \/ StatsCell(q)
         \/ \E p \in LogPacks : PackRead(q, p) \/ PackSaved(q, p)
         \/ \E s \in LogScopes : WorkerTakes(q, s) \/ BatchAnswers(q, s)
    \/ LogsClose \/ CachesExpire \/ HideCharacter

LogsSpec == LogsInit /\ [][LogsNext]_logsVars

-----------------------------------------------------------------------------
\* What a history answer says is what the query found: a complete history has a
\* record for every planned scope but those with nothing but echo partitions, whichever
\* worker stopped early and whatever came from the cache, and no answer shows
\* rankings once a batch of the query found the character hidden.
HistoryTellsTruth ==
    \A q \in LogQueries :
        /\ look[q].answer = "complete" => LogScopes \ EchoOnly \subseteq Recorded(q)
        /\ look[q].answer \in {"complete", "partial"} => ~SeesHidden(q)

\* A handler that was closed is not revived: metadata and duty order in the
\* module's caches were stored by a load of the current lifecycle, although
\* loads of an earlier one may still be running when close() empties them.
LogCachesAreCurrent ==
    /\ metaCache.kind # "none" => metaCache.life = life
    /\ dutyCache.kind # "none" => dutyCache.life = life
    /\ contracts.kind # "none" => contracts.life = life
=============================================================================
