------------------------ MODULE SubscriptionCommands ------------------------
(***************************************************************************)
(* Commands of one owner on his subscriptions: create, revise, cancel and  *)
(* list of SubscriptionOperationsService with the rows they write through  *)
(* SQLiteSubscriptionLifecycleRepository, and the calendar handler that    *)
(* lists before it revises or cancels.                                     *)
(*                                                                         *)
(* A command reads, then enters the mutation gate and reads again, then    *)
(* writes in one transaction.  Grants are revoked and renewed under the    *)
(* same gate.  A module that was disabled, a subscription gate that was    *)
(* switched off, a principal or a recipient that changed end a command     *)
(* with a refusal, which SubRefused allows at every await.                 *)
(***************************************************************************)
EXTENDS Naturals, FiniteSets

CONSTANTS
    SubCommands,    \* invocations of a subscription capability that run at once
    SubIds,         \* ids that secrets.token_urlsafe may return
    MaxOwned,       \* max_subscriptions_per_owner
    MaxSubRevision, \* bound on revisions of one row
    MaxSubGrant     \* bound on revisions of the Grant

ASSUME SubscriptionsAssumption ==
    /\ "free" \notin SubCommands /\ "none" \notin SubIds
    /\ IsFiniteSet(SubIds) /\ MaxOwned \in Nat \ {0}
    /\ MaxSubRevision \in Nat \ {0} /\ MaxSubGrant \in Nat \ {0}

VARIABLES
    rows,       \* b04_subscriptions: id -> [status, rev, grant, key]; of a cancelled
                \* row only the revision is kept
    links,      \* b04_subscription_jobs: id -> subscription revision, 0 for no link
    creation,   \* b04_subscription_creation_keys: identity -> id
    ownerGrant, \* the owner's Grant: [rev, on]
    subGate,    \* the mutation gate: a command or "free"
    command     \* SubCommands -> its coroutine

subVars == <<rows, links, creation, ownerGrant, subGate, command>>

FreeRow == [status |-> "free", rev |-> 0, grant |-> 0, key |-> "none"]
CancelledRow(n) == [FreeRow EXCEPT !.status = "cancelled", !.rev = n]

NoCommand == [op |-> "none", pc |-> "idle", sub |-> "none", expects |-> 0,
              made |-> FreeRow]

\* list_for_owner returns the active rows.
ActiveRows == {s \in SubIds : rows[s].status = "active"}

\* _creation_identity: nothing without a creation key; the collection key in it
\* names the revision of the Grant.
Identities == {"once"} \X (0..MaxSubGrant)
IdentityOf(r) == <<r.key, r.grant>>

SubInit ==
    /\ rows = [s \in SubIds |-> FreeRow] /\ links = [s \in SubIds |-> 0]
    /\ creation = [i \in Identities |-> "none"]
    /\ ownerGrant = [rev |-> 1, on |-> TRUE]
    /\ subGate = "free"
    /\ command = [c \in SubCommands |-> NoCommand]

\* _validate_grant: the Grant is active at exactly that revision.
GrantIs(n) == n # 0 => ownerGrant.on /\ ownerGrant.rev = n

\* _owns: the row is an active one of this owner, module and conversation; one of
\* another owner is refused like a row that does not exist.
OwnedRow(s) == s \in SubIds /\ rows[s].status = "active"

\* _current_link with the comparison that follows it.
LinkIsCurrent(s, r) == links[s] = r.rev

Ended(c) ==
    /\ command' = [command EXCEPT ![c] = NoCommand]
    /\ subGate' = IF subGate = c THEN "free" ELSE subGate

Unwritten == UNCHANGED <<rows, links, creation, ownerGrant>>

\* Refusals leave the gate: the invocation is no longer current, its principal or
\* owner proof cannot be shown again, the conversation resolves to another
\* recipient, or no subscription fence can be read.
SubRefused(c) ==
    /\ command[c].pc # "idle"
    /\ Ended(c) /\ Unwritten

-----------------------------------------------------------------------------
\* Before the gate.

\* _command: a live, direct invocation of a command capability.
Admitted(c) == command[c].pc = "idle"

Enough == Cardinality(ActiveRows) >= MaxOwned

\* create_request up to _build_record; key is the request's creation key.
CreateStarts(c, key, granted) ==
    /\ Admitted(c)
    /\ \/ ~Enough
       \/ key # "none"
    /\ command' = [command EXCEPT ![c] =
           [NoCommand EXCEPT !.op = "create", !.pc = "asked",
                             !.made = [FreeRow EXCEPT !.key = key, !.rev = 1, !.status = "active",
                                                      !.grant = IF granted THEN 1 ELSE 0]]]
    /\ UNCHANGED subGate /\ Unwritten

\* The calendar handler subscribes without a Grant or a creation key.
CalendarSubscribes(c) == CreateStarts(c, "none", FALSE)

\* The calendar handler goes on to revise or cancel what list_current shows it
\* at the revision the user named.
ListedRow(s, n) == OwnedRow(s) /\ GrantIs(rows[s].grant) /\ rows[s].rev = n

CalendarLists(c, s, n) ==
    /\ Admitted(c)
    /\ \E op \in {"revise", "cancel"} :
          command' = [command EXCEPT ![c] =
              IF ListedRow(s, n)
              THEN [NoCommand EXCEPT !.op = op, !.pc = "listed", !.sub = s, !.expects = n]
              ELSE NoCommand]
    /\ UNCHANGED subGate /\ Unwritten

\* revise_request and cancel up to the record they build: the row is owned, its
\* Grant is current, it is the expected revision and has its job.
TargetRead(s, n) ==
    OwnedRow(s) /\ GrantIs(rows[s].grant) /\ rows[s].rev = n /\ LinkIsCurrent(s, rows[s])

SubRowRead(c) ==
    LET s == command[c].sub n == command[c].expects IN
    /\ command[c].pc = "listed"
    /\ command' = [command EXCEPT ![c] =
           IF ~TargetRead(s, n) THEN NoCommand
           ELSE [@ EXCEPT !.pc = IF command[c].op = "cancel" THEN "built" ELSE "asked",
                          !.made = IF command[c].op = "cancel" THEN CancelledRow(n + 1)
                                   ELSE [rows[s] EXCEPT !.rev = n + 1]]]
    /\ UNCHANGED subGate /\ Unwritten

\* _build_record: under a Grant the record names its current revision.  A revision
\* without a creation key keeps the one of the row.
RecordBuilt(c, key) ==
    /\ command[c].pc = "asked"
    /\ command' = [command EXCEPT ![c] =
           IF command[c].made.grant # 0 /\ ~ownerGrant.on THEN NoCommand
           ELSE [command[c] EXCEPT
                    !.pc = "built",
                    !.made.grant = IF @ = 0 THEN 0 ELSE ownerGrant.rev,
                    !.made.key = IF command[c].op = "create" \/ key = "none" THEN @ ELSE key]]
    /\ UNCHANGED subGate /\ Unwritten

-----------------------------------------------------------------------------
\* Inside the gate.

GateEntered(c) ==
    /\ command[c].pc = "built" /\ subGate = "free"
    /\ subGate' = c
    /\ command' = [command EXCEPT ![c].pc = "inside"]
    /\ Unwritten

\* The active subscription made by the same creation key.
Duplicates(r) ==
    {s \in ActiveRows : r.key # "none" /\ IdentityOf(rows[s]) = IdentityOf(r)}

\* Mutants: the quota is only counted before the gate; the Grant is only read there.
CreateStands_Once(r) ==
    /\ Duplicates(r) = {}
    /\ GrantIs(r.grant)

CreateStands_Read(r) == Duplicates(r) = {} /\ ~Enough

\* What create_request demands again before it writes.
CreateStands(r) ==
    /\ Duplicates(r) = {} /\ ~Enough
    /\ GrantIs(r.grant)

\* revise_request: the same row and link, under a Grant that is still current.
ReviseStands(s, n, r) ==
    /\ OwnedRow(s) /\ rows[s].rev = n
    /\ GrantIs(rows[s].grant) /\ LinkIsCurrent(s, rows[s])
    /\ GrantIs(r.grant)

\* cancel
CancelStands(s, n) ==
    /\ OwnedRow(s) /\ rows[s].rev = n
    /\ GrantIs(rows[s].grant) /\ LinkIsCurrent(s, rows[s])

Stands(x) ==
    CASE x.op = "create" -> CreateStands(x.made)
      [] x.op = "revise" -> ReviseStands(x.sub, x.expects, x.made)
      [] x.op = "cancel" -> CancelStands(x.sub, x.expects)

\* A duplicate is answered as it is; otherwise the write follows or a refusal.
Rechecked(c) ==
    /\ command[c].pc = "inside"
    /\ IF Stands(command[c])
       THEN command' = [command EXCEPT ![c].pc = "write"] /\ UNCHANGED subGate
       ELSE Ended(c)
    /\ Unwritten

\* The creation keys of a row go when it is revised or cancelled.
Unindexed(s) == [i \in Identities |-> IF creation[i] = s THEN "none" ELSE creation[i]]

\* INSERT INTO b04_subscription_creation_keys: the key is unique.
Indexes(index, s, r) ==
    IF r.key = "none" THEN creation' = index
    ELSE index[IdentityOf(r)] = "none" /\ creation' = [index EXCEPT ![IdentityOf(r)] = s]

Winner(r) ==
    r.key # "none" /\ creation[IdentityOf(r)] \in ActiveRows

\* apply, CREATE: the fence is read again in the transaction, and the creation key
\* of an active subscription answers with that subscription.
CreateWrites(c, s) ==
    /\ command[c].pc = "write" /\ command[c].op = "create"
    /\ rows[s].status = "free" /\ ~Winner(command[c].made)
    /\ rows' = [rows EXCEPT ![s] = command[c].made]
    /\ links' = [links EXCEPT ![s] = 1]
    /\ Indexes(creation, s, command[c].made)
    /\ Ended(c) /\ UNCHANGED ownerGrant

\* apply, REVISE: row and link by compare-and-set, then the creation key.
ReviseWrites(c) ==
    LET s == command[c].sub r == command[c].made IN
    /\ command[c].pc = "write" /\ command[c].op = "revise"
    /\ rows[s].rev = command[c].expects /\ links[s] = command[c].expects
    /\ rows' = [rows EXCEPT ![s] = r]
    /\ links' = [links EXCEPT ![s] = r.rev]
    /\ Indexes(Unindexed(s), s, r)
    /\ Ended(c) /\ UNCHANGED ownerGrant

\* apply, CANCEL
CancelWrites(c) ==
    LET s == command[c].sub IN
    /\ command[c].pc = "write" /\ command[c].op = "cancel"
    /\ rows[s].rev = command[c].expects /\ links[s] = command[c].expects
    /\ rows' = [rows EXCEPT ![s] = command[c].made]
    /\ links' = [links EXCEPT ![s] = 0]
    /\ creation' = Unindexed(s)
    /\ Ended(c) /\ UNCHANGED ownerGrant

-----------------------------------------------------------------------------
\* Around the commands, each under the mutation gate.

\* Revocation cancels the subscriptions of exactly the revoked revision; their
\* creation keys stay behind.
GrantRevoked ==
    /\ subGate = "free" /\ ownerGrant.on /\ ownerGrant.rev < MaxSubGrant
    /\ ownerGrant' = [rev |-> ownerGrant.rev + 1, on |-> FALSE]
    /\ LET old == {s \in ActiveRows : rows[s].grant = ownerGrant.rev} IN
       /\ rows' = [s \in SubIds |-> IF s \in old
                                    THEN CancelledRow(rows[s].rev + 1)
                                    ELSE rows[s]]
       /\ links' = [s \in SubIds |-> IF s \in old THEN 0 ELSE links[s]]
    /\ UNCHANGED <<creation, subGate, command>>

\* A completed login rotates the Grant, revoked or not.
GrantRenewed ==
    /\ subGate = "free" /\ ownerGrant.rev < MaxSubGrant
    /\ ownerGrant' = [rev |-> ownerGrant.rev + 1, on |-> TRUE]
    /\ UNCHANGED <<rows, links, creation, subGate, command>>

CreationKeys == {"none", "once"}

SubNext ==
    \/ \E c \in SubCommands :
          \/ \E key \in CreationKeys, granted \in BOOLEAN :
                (key # "none" \/ granted) /\ CreateStarts(c, key, granted)
          \/ CalendarSubscribes(c)
          \/ \E s \in SubIds, n \in 1..(MaxSubRevision - 1) : CalendarLists(c, s, n)
          \/ SubRowRead(c)
          \/ \E key \in CreationKeys : RecordBuilt(c, key)
          \/ GateEntered(c)
          \/ Rechecked(c)
          \/ \E s \in SubIds : CreateWrites(c, s)
          \/ ReviseWrites(c)
          \/ CancelWrites(c)
          \/ SubRefused(c)
    \/ GrantRevoked
    \/ GrantRenewed

SubSpec == SubInit /\ [][SubNext]_subVars

-----------------------------------------------------------------------------
\* Properties.

\* Two commands that counted the owner's subscriptions before the gate never
\* leave more of them than max_subscriptions_per_owner.
QuotaHolds == Cardinality(ActiveRows) <= MaxOwned

\* One creation key never stands for two active subscriptions, whichever of
\* create and revise wrote them.
CreationIsUnique ==
    \A s, t \in ActiveRows :
        s # t /\ rows[s].key # "none" => IdentityOf(rows[s]) # IdentityOf(rows[t])

\* No subscription is written under a Grant that was revoked or renewed since the
\* command read it.
GrantedWriteIsCurrent ==
    \A s \in SubIds :
          rows'[s] # rows[s] /\ rows'[s].status = "active" => GrantIs(rows'[s].grant)
=============================================================================
