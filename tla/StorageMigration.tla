-------------------------- MODULE StorageMigration --------------------------
(***************************************************************************)
(* Moving the private storage of an instance to a new directory: the       *)
(* supervisor that proves every consumer of the source has stopped, the    *)
(* pipeline that fences the source, copies it into a fresh attempt under a *)
(* write-ahead journal and publishes the selector, and the start of the    *)
(* plugin that follows the selector.  The process may end between any two  *)
(* durable steps.                                                          *)
(*                                                                         *)
(* The only supervisor the code has is built for a source it created       *)
(* itself; a later window on the same source stands for the runs of        *)
(* execute_pipeline by which a cut-off migration is resumed.               *)
(***************************************************************************)
EXTENDS Naturals, FiniteSets

CONSTANTS
    Writers,        \* consumers of the source
    MaxTries,       \* attempts a journal may hold (16)
    MaxSourceWrites \* bound on writes to the source

ASSUME StorageMigrationAssumption ==
    /\ IsFiniteSet(Writers) /\ MaxTries \in Nat \ {0} /\ MaxSourceWrites \in Nat

VARIABLES
    source,     \* the old storage: [data, files, fenced]
    header,     \* the journal's head: [made, data, files], the plan it was begun for
    tries,      \* attempt -> [state, journal, disk, data, files, activated]
    selector,   \* active.json: the attempt it names, 0 for none
    writer,     \* consumer -> "none", "running", "stopped" or "failed"
    supervisor, \* [coverage, maintenance, closed, lease]
    plan,       \* the plan in memory: the source as it was read
    mover       \* execute_pipeline: [pc, try, file]

migrationVars == <<source, header, tries, selector, writer, supervisor, plan, mover>>

Tries == 1..MaxTries
\* The root of an attempt, its database, one copied file, and the manifest.
Entries == {"root", "db", "file", "manifest"}
After == [root |-> "db", db |-> "file", file |-> "activate", manifest |-> "prepare"]

NoTry == [state |-> "none", journal |-> [e \in Entries |-> "no"],
          disk |-> [e \in Entries |-> "no"], data |-> 0, files |-> 0, activated |-> FALSE]
NoPlan == [data |-> 0, files |-> 0, fenced |-> FALSE, made |-> FALSE]
NoHeader == [made |-> FALSE, data |-> 0, files |-> 0]
NoSupervisor == [coverage |-> TRUE, maintenance |-> FALSE, closed |-> FALSE, lease |-> FALSE]
Idle == [pc |-> "idle", try |-> 0, file |-> "none"]

MigrationInit ==
    /\ source = [data |-> 0, files |-> 0, fenced |-> FALSE]
    /\ header = NoHeader /\ tries = [t \in Tries |-> NoTry]
    /\ selector = 0
    /\ writer = [w \in Writers |-> "none"]
    /\ supervisor = NoSupervisor
    /\ plan = NoPlan /\ mover = Idle

-----------------------------------------------------------------------------
\* Consumers of the source

\* resolve_private_storage: a start that finds the selector uses its target.
WriterStarts(w) ==
    /\ writer[w] # "running" /\ selector = 0
    /\ supervisor.coverage /\ ~supervisor.maintenance /\ ~supervisor.closed
    /\ writer' = [writer EXCEPT ![w] = "running"]
    /\ UNCHANGED <<source, header, tries, selector, supervisor, plan, mover>>

\* The triggers of the fence abort every statement that changes a table; nothing
\* but the stop of the consumers protects the files.
WriterWrites(w) ==
    /\ writer[w] = "running" /\ source.data + source.files < MaxSourceWrites
    /\ \/ ~source.fenced /\ source' = [source EXCEPT !.data = @ + 1]
       \/ source' = [source EXCEPT !.files = @ + 1]
    /\ UNCHANGED <<header, tries, selector, writer, supervisor, plan, mover>>

Unknown == [supervisor EXCEPT !.coverage = FALSE]

\* stop_normally: the acknowledged exit is a proof, anything else ends coverage.
WriterStops(w) ==
    /\ writer[w] = "running"
    /\ \/ writer' = [writer EXCEPT ![w] = "stopped"] /\ UNCHANGED supervisor
       \/ writer' = [writer EXCEPT ![w] = "failed"] /\ supervisor' = Unknown
    /\ UNCHANGED <<source, header, tries, selector, plan, mover>>

\* mark_coverage_unknown
CoverageLost ==
    /\ supervisor.coverage
    /\ supervisor' = Unknown
    /\ UNCHANGED <<source, header, tries, selector, writer, plan, mover>>

-----------------------------------------------------------------------------
\* The plan and the offline window

PlanMade ==
    /\ selector = 0 /\ mover.pc = "idle"
    /\ plan' = [data |-> source.data, files |-> source.files, fenced |-> source.fenced, made |-> TRUE]
    /\ UNCHANGED <<source, header, tries, selector, writer, supervisor, mover>>

ConsumersStopped_NoneFailed == \A w \in Writers : writer[w] # "failed"
ConsumersStopped == \A w \in Writers : writer[w] \in {"none", "stopped"}

\* acquire_offline_source
WindowOpens ==
    /\ plan.made /\ mover.pc = "idle"
    /\ supervisor.coverage /\ ~supervisor.maintenance /\ ~supervisor.closed
    /\ ConsumersStopped
    /\ supervisor' = [supervisor EXCEPT !.maintenance = TRUE, !.lease = TRUE]
    /\ mover' = [Idle EXCEPT !.pc = "start"]
    /\ UNCHANGED <<source, header, tries, selector, writer, plan>>

\* assert_current of the lease
Exclusive == supervisor.lease /\ supervisor.coverage /\ ~supervisor.closed

\* The window is left: its supervisor starts nothing any more.
WindowLeft == supervisor' = [supervisor EXCEPT !.lease = FALSE, !.closed = TRUE]
MoveFails == mover' = Idle /\ WindowLeft

-----------------------------------------------------------------------------
\* execute_pipeline

Goes(pc) == mover' = [mover EXCEPT !.pc = pc] /\ UNCHANGED supervisor

\* verify_committed_storage
Verified(t) ==
    /\ source.fenced /\ tries[t].activated
    /\ tries[t].disk["manifest"] = "full"
    /\ tries[t].data = source.data /\ tries[t].files = source.files

PipelineStarts ==
    /\ mover.pc = "start"
    /\ IF Exclusive /\ selector = 0 /\ plan.files = source.files THEN Goes("fence") ELSE MoveFails
    /\ UNCHANGED <<source, header, tries, selector, writer, plan>>

\* _fence_source, in the transaction that compared the plan.
SourceFenced ==
    /\ mover.pc = "fence"
    /\ IF Exclusive /\ plan.data = source.data /\ plan.fenced = source.fenced
       THEN source' = [source EXCEPT !.fenced = TRUE] /\ Goes("attempt")
       ELSE MoveFails /\ UNCHANGED source
    /\ UNCHANGED <<header, tries, selector, writer, plan>>

\* _check_attempt: what is on disk was intended, what has an identity is there,
\* and what was only intended is empty.
Explained(t) ==
    \A e \in Entries :
        /\ tries[t].disk[e] # "no" => tries[t].journal[e] # "no"
        /\ tries[t].journal[e] = "identity" => tries[t].disk[e] # "no"
        /\ tries[t].journal[e] = "intent" => tries[t].disk[e] # "full"

Used == {t \in Tries : tries[t].state # "none"}

\* _load_journal: the journal of the operation is begun once, and a later plan
\* must be for the inventory and the files it was begun for; for any other it is
\* refused as "target_inventory_conflict", again and again.
Resumable_AnyFiles == header.made => header.data = plan.data
Resumable == header.made => header.data = plan.data /\ header.files = plan.files

\* _new_attempt: every earlier one is checked and abandoned; the name of the
\* new one is journalled before its directory exists.
AttemptAllocated ==
    /\ mover.pc = "attempt"
    /\ IF Exclusive /\ Resumable /\ Used # Tries /\ \A t \in Used : Explained(t)
       THEN LET t == Cardinality(Used) + 1 IN
            /\ tries' = [u \in Tries |->
                            IF u = t THEN [NoTry EXCEPT !.state = "allocated", !.journal["root"] = "intent"]
                            ELSE IF u \in Used THEN [tries[u] EXCEPT !.state = "abandoned"]
                            ELSE tries[u]]
            /\ mover' = [pc |-> "create", try |-> t, file |-> "root"] /\ UNCHANGED supervisor
            /\ header' = IF header.made THEN header
                         ELSE [made |-> TRUE, data |-> plan.data, files |-> plan.files]
       ELSE MoveFails /\ UNCHANGED <<header, tries>>
    /\ UNCHANGED <<source, selector, writer, plan>>

\* _record_directory and _reserve_file: the intent is saved, the empty entry is
\* made, its identity is saved.
FirstStep_Create == "create"
FirstStep == "intend"

EntryIntended ==
    /\ mover.pc = "intend"
    /\ tries' = [tries EXCEPT ![mover.try].journal[mover.file] = "intent"]
    /\ Goes("create")
    /\ UNCHANGED <<source, header, selector, writer, plan>>

EntryCreated ==
    /\ mover.pc = "create"
    /\ tries' = [tries EXCEPT ![mover.try].disk[mover.file] = "empty"]
    /\ Goes("identify")
    /\ UNCHANGED <<source, header, selector, writer, plan>>

EntryIdentified ==
    /\ mover.pc = "identify"
    /\ tries' = [tries EXCEPT ![mover.try].journal[mover.file] = "identity",
                              ![mover.try].state = "preparing"]
    /\ Goes("fill")
    /\ UNCHANGED <<source, header, selector, writer, plan>>

\* The backup of the database, the copy of a file against its digest, the
\* manifest.  A cut-off fill leaves a part of it, which is as good as all of it.
EntryFilled ==
    /\ mover.pc = "fill"
    /\ IF mover.file = "file" => Exclusive /\ plan.files = source.files
       THEN /\ tries' = [tries EXCEPT ![mover.try].disk[mover.file] = "full",
                                      ![mover.try].data = IF mover.file = "db" THEN source.data ELSE @,
                                      ![mover.try].files = IF mover.file = "file" THEN source.files ELSE @]
            /\ UNCHANGED supervisor
            /\ mover' = IF After[mover.file] \in Entries
                        THEN [mover EXCEPT !.pc = FirstStep, !.file = After[mover.file]]
                        ELSE [mover EXCEPT !.pc = After[mover.file]]
       ELSE MoveFails /\ UNCHANGED tries
    /\ UNCHANGED <<source, header, selector, writer, plan>>

\* The copy drops the triggers and becomes the next epoch.
TargetActivated ==
    /\ mover.pc = "activate"
    /\ tries' = [tries EXCEPT ![mover.try].activated = TRUE]
    /\ mover' = [mover EXCEPT !.pc = FirstStep, !.file = "manifest"]
    /\ UNCHANGED <<source, header, selector, writer, supervisor, plan>>

AttemptPrepared ==
    /\ mover.pc = "prepare"
    /\ tries' = [tries EXCEPT ![mover.try].state = "prepared"]
    /\ Goes("publish")
    /\ UNCHANGED <<source, header, selector, writer, plan>>

\* The atomic publication of active.json, then the verification of the result.
SelectorPublished ==
    /\ mover.pc = "publish"
    /\ IF Exclusive THEN selector' = mover.try /\ Goes("verify") ELSE MoveFails /\ UNCHANGED selector
    /\ UNCHANGED <<source, header, tries, writer, plan>>

PipelineEnds ==
    /\ mover.pc = "verify"
    /\ MoveFails
    /\ UNCHANGED <<source, header, tries, selector, writer, plan>>

-----------------------------------------------------------------------------
\* The process ends, its consumers with it; whoever runs next makes a plan anew.
MigrationCrash ==
    /\ supervisor # NoSupervisor
    /\ supervisor' = NoSupervisor /\ mover' = Idle /\ plan' = NoPlan
    /\ writer' = [w \in Writers |-> "none"]
    /\ UNCHANGED <<source, header, tries, selector>>

MigrationNext ==
    \/ \E w \in Writers : WriterStarts(w) \/ WriterWrites(w) \/ WriterStops(w)
    \/ CoverageLost \/ PlanMade \/ WindowOpens
    \/ PipelineStarts \/ SourceFenced \/ AttemptAllocated
    \/ EntryIntended \/ EntryCreated \/ EntryIdentified \/ EntryFilled
    \/ TargetActivated \/ AttemptPrepared \/ SelectorPublished \/ PipelineEnds
    \/ MigrationCrash

MigrationSpec == MigrationInit /\ [][MigrationNext]_migrationVars

-----------------------------------------------------------------------------
\* Once the selector names a target, every start of the plugin verifies it: the
\* source is fenced, the target activated and described, and the source has not
\* taken a write the target does not have.  (resolve_private_storage refuses
\* "ambiguous_storage" otherwise, and the instance does not start again.)
CommittedVerifies == selector # 0 => Verified(selector)

\* Whatever the moment a migration is cut off, its attempt can be told from
\* foreign data, so the next one is not refused for what the last one left.
AttemptsExplained == \A t \in Tries : Explained(t)

\* The journal stands for a fenced source, whose inventory it still describes; so
\* a later plan can be refused by it for one reason only, a file of the source
\* that was changed since, which no fence prevents; and a target is committed
\* only under a journal that describes its files too.
JournalStands ==
    header.made => /\ source.fenced /\ header.data = source.data
                   /\ selector # 0 => header.files = source.files
=============================================================================
