------------------------- MODULE MCManagement_proofs -------------------------
(***************************************************************************)
(* Proofs about the components that keep settings and schedules, for every *)
(* value of their constants.  Each component has an inductive invariant    *)
(* and two lemmas, that its initial states satisfy the invariant and that  *)
(* its steps keep it; the theorems carry them over to MCSpec, the          *)
(* specification of the run, where one component moves and the others have *)
(* no state.                                                               *)
(***************************************************************************)
EXTENDS MCManagement, SqliteExecutor, FiniteSetTheorems, WellFoundedInduction, TLAPS

AllVars == <<part, subVars, planVars, windowVars, seriesVars, snapshotVars,
             reminderVars, chatVars, adminVars, healthVars>>

\* SubscriptionCommands: what a command demanded inside the gate still
\* stands when it writes, because rows, links and the Grant move only
\* under the gate; and the creation table knows the active row of every
\* creation key, so a key that is free there has no active row.

SubRows == [status: {"free", "active", "cancelled"}, rev: Nat, grant: 0..MaxSubGrant,
            key: CreationKeys]
SubPcs == {"idle", "listed", "asked", "built", "inside", "write"}
CommandRecords == [op: {"none", "create", "revise", "cancel"}, pc: SubPcs,
                   sub: SubIds \cup {"none"}, expects: Nat, made: SubRows]

SubTyped ==
    /\ rows \in [SubIds -> SubRows]
    /\ links \in [SubIds -> Nat]
    /\ creation \in [Identities -> SubIds \cup {"none"}]
    /\ ownerGrant \in [rev: 1..MaxSubGrant, on: BOOLEAN]
    /\ subGate \in SubCommands \cup {"free"}
    /\ command \in [SubCommands -> CommandRecords]

\* A command names what its operation needs.
Shaped(x) ==
    /\ x.pc # "idle" => x.op # "none"
    /\ x.op \in {"revise", "cancel"} => x.sub \in SubIds
    /\ x.op = "create" => x.pc # "listed"
    /\ (x.op = "cancel" /\ x.pc \notin {"idle", "listed"}) => x.made.status = "cancelled"
    /\ (x.op = "cancel") => x.pc # "asked"
CommandShape == \A c \in SubCommands : Shaped(command[c])

\* Inside the gate is who holds it.
GateHeld ==
    \A c \in SubCommands : command[c].pc \in {"inside", "write"} => subGate = c

\* What was demanded inside the gate stands until the write.
WriteStands ==
    \A c \in SubCommands : command[c].pc = "write" => Stands(command[c])

\* The creation table has the active row of a key.
KeysIndexed ==
    \A s \in ActiveRows : rows[s].key # "none" => creation[IdentityOf(rows[s])] = s

SubInv ==
    /\ SubTyped /\ CommandShape /\ GateHeld /\ WriteStands
    /\ KeysIndexed /\ QuotaHolds

\* The empty tables satisfy the invariant.
LEMMA SubInitInv == SubInit => SubInv
<1> SUFFICES ASSUME SubInit PROVE SubInv
  OBVIOUS
<1> USE SubscriptionsAssumption DEF SubInit, NoCommand, FreeRow
<1>1. SubTyped
  BY DEF SubTyped, CommandRecords, SubRows, SubPcs, CreationKeys, Identities
<1>2. CommandShape /\ GateHeld /\ WriteStands
  BY DEF CommandShape, Shaped, GateHeld, WriteStands
<1>3. ActiveRows = {}
  BY DEF ActiveRows
<1>4. KeysIndexed /\ QuotaHolds
  BY <1>3, FS_EmptySet DEF KeysIndexed, QuotaHolds
<1> QED BY <1>1, <1>2, <1>4 DEF SubInv

\* What was demanded stands while rows, links and the Grant stay.
LEMMA StandsSame ==
    ASSUME UNCHANGED <<rows, links, ownerGrant>>, NEW c \in SubCommands,
           Stands(command[c]), command[c].op \in {"create", "revise", "cancel"},
           command'[c].op = command[c].op, command'[c].made = command[c].made,
           command'[c].sub = command[c].sub, command'[c].expects = command[c].expects
    PROVE  Stands(command[c])'
<1>1. ASSUME command[c].op = "create" PROVE Stands(command[c])'
  BY <1>1 DEF Stands, CreateStands, Duplicates, ActiveRows, Enough, GrantIs, IdentityOf
<1>2. ASSUME command[c].op = "revise" PROVE Stands(command[c])'
  BY <1>2 DEF Stands, ReviseStands, OwnedRow, GrantIs, LinkIsCurrent
<1>3. ASSUME command[c].op = "cancel" PROVE Stands(command[c])'
  BY <1>3 DEF Stands, CancelStands, OwnedRow, GrantIs, LinkIsCurrent
<1> QED BY <1>1, <1>2, <1>3

\* The steps of a command that write nothing: its own record and the gate.
Unwriting(c) ==
    \/ \E key \in CreationKeys, granted \in BOOLEAN : CreateStarts(c, key, granted)
    \/ \E s \in SubIds, n \in 1..(MaxSubRevision - 1) : CalendarLists(c, s, n)
    \/ SubRowRead(c)
    \/ \E key \in CreationKeys : RecordBuilt(c, key)
    \/ GateEntered(c)
    \/ Rechecked(c)
    \/ SubRefused(c)

\* A command moves to another record, and perhaps into or out of the gate.
LEMMA CommandMoves ==
    ASSUME SubInv, NEW c \in SubCommands, NEW r \in CommandRecords, Shaped(r),
           command' = [command EXCEPT ![c] = r],
           UNCHANGED <<rows, links, creation, ownerGrant>>,
           \/ r.pc \notin {"inside", "write"} /\ subGate' = (IF subGate = c THEN "free" ELSE subGate)
           \/ r.pc \notin {"inside", "write"} /\ subGate' = subGate
           \/ subGate \in {c, "free"} /\ subGate' = c
    PROVE  SubTyped' /\ CommandShape' /\ GateHeld'
<1> USE SubscriptionsAssumption DEF SubInv
<1>1. SubTyped'
  BY DEF SubTyped
<1>2. CommandShape'
  BY DEF SubTyped, CommandShape, Shaped
<1>3. ASSUME NEW d \in SubCommands, command'[d].pc \in {"inside", "write"} PROVE subGate' = d
  <2>1. CASE d = c
    BY <1>3, <2>1 DEF SubTyped
  <2>2. CASE d # c
    <3>1. command'[d] = command[d] /\ subGate = d
      BY <1>3, <2>2 DEF SubTyped, GateHeld
    <3> QED BY <3>1, <2>2
  <2> QED BY <2>1, <2>2
<1> QED BY <1>1, <1>2, <1>3 DEF GateHeld

LEMMA UnwritingTyped ==
    ASSUME SubInv, NEW c \in SubCommands, Unwriting(c)
    PROVE  SubTyped' /\ CommandShape' /\ GateHeld'
<1> USE SubscriptionsAssumption DEF Unwritten
<1>0. /\ command[c] \in CommandRecords /\ Shaped(command[c]) /\ command \in [SubCommands -> CommandRecords]
      /\ rows \in [SubIds -> SubRows] /\ ownerGrant.rev \in 0..MaxSubGrant
      /\ command[c].pc \in {"inside", "write"} => subGate = c
  BY DEF SubInv, SubTyped, CommandShape, GateHeld
<1>f. FreeRow \in SubRows
  BY DEF SubRows, FreeRow, CreationKeys
<1>n. NoCommand \in CommandRecords /\ Shaped(NoCommand) /\ NoCommand.pc = "idle"
  BY DEF NoCommand, CommandRecords, SubRows, SubPcs, Shaped, FreeRow, CreationKeys
<1>1. CASE \E key \in CreationKeys, granted \in BOOLEAN : CreateStarts(c, key, granted)
  <2>1. PICK key \in CreationKeys, granted \in BOOLEAN : CreateStarts(c, key, granted)
    BY <1>1
  <2>0. PICK g \in 0..1 : g = IF granted THEN 1 ELSE 0
    OBVIOUS
  <2>f. PICK f \in SubRows : f = FreeRow
    BY <1>f
  <2> DEFINE m == [f EXCEPT !.key = key, !.rev = 1, !.status = "active", !.grant = g]
             r == [NoCommand EXCEPT !.op = "create", !.pc = "asked", !.made = m]
  <2>g. g \in 0..MaxSubGrant /\ 1 \in Nat
    BY <2>0
  <2>2. m \in SubRows
    BY <2>g DEF SubRows
  <2>3. r \in CommandRecords /\ Shaped(r) /\ r.pc = "asked"
    BY <2>2, <1>n DEF NoCommand, CommandRecords, SubPcs, Shaped
  <2>4. command' = [command EXCEPT ![c] = r] /\ UNCHANGED <<subGate, rows, links, creation, ownerGrant>>
    BY <2>0, <2>1, <2>f DEF CreateStarts
  <2> QED BY <2>3, <2>4, CommandMoves
<1>2. CASE \E s \in SubIds, n \in 1..(MaxSubRevision - 1) : CalendarLists(c, s, n)
  <2>1. PICK s \in SubIds, n \in 1..(MaxSubRevision - 1) : CalendarLists(c, s, n)
    BY <1>2
  <2>2. PICK op \in {"revise", "cancel"} :
          command' = [command EXCEPT ![c] =
              IF ListedRow(s, n)
              THEN [NoCommand EXCEPT !.op = op, !.pc = "listed", !.sub = s, !.expects = n]
              ELSE NoCommand]
    BY <2>1 DEF CalendarLists
  <2> DEFINE r == [NoCommand EXCEPT !.op = op, !.pc = "listed", !.sub = s, !.expects = n]
  <2>n. n \in Nat
    OBVIOUS
  <2>3. r \in CommandRecords /\ Shaped(r) /\ r.pc = "listed"
    BY <1>n, <2>n DEF NoCommand, CommandRecords, SubPcs, Shaped
  <2>4. UNCHANGED <<subGate, rows, links, creation, ownerGrant>>
    BY <2>1 DEF CalendarLists
  <2>5. PICK x \in {r, NoCommand} : command' = [command EXCEPT ![c] = x]
    BY <2>2
  <2>6. x \in CommandRecords /\ Shaped(x) /\ x.pc \notin {"inside", "write"}
    BY <2>3, <2>5, <1>n
  <2> QED BY <2>4, <2>5, <2>6, CommandMoves
<1>3. CASE SubRowRead(c)
  <2> DEFINE s == command[c].sub
             n == command[c].expects
             m == IF command[c].op = "cancel" THEN CancelledRow(n + 1) ELSE [rows[s] EXCEPT !.rev = n + 1]
             r == [command[c] EXCEPT !.pc = IF command[c].op = "cancel" THEN "built" ELSE "asked",
                                     !.made = m]
  <2>1. s \in SubIds /\ n \in Nat /\ command[c].pc = "listed" /\ command[c].op \in {"revise", "cancel"}
    BY <1>3, <1>0 DEF SubRowRead, Shaped, CommandRecords
  <2>c. PICK f \in SubRows : f = FreeRow
    BY <1>f
  <2>d. PICK k \in Nat : k = n + 1
    BY <2>1
  <2>a. CancelledRow(n + 1) \in SubRows /\ CancelledRow(n + 1).status = "cancelled"
    BY <2>c, <2>d DEF SubRows, CancelledRow
  <2>b. [rows[s] EXCEPT !.rev = n + 1] \in SubRows
    BY <2>1, <1>0 DEF SubRows
  <2>2. m \in SubRows /\ (command[c].op = "cancel" => m.status = "cancelled")
    BY <2>a, <2>b
  <2>3. r \in CommandRecords /\ Shaped(r) /\ r.pc \notin {"inside", "write"}
    BY <2>1, <2>2, <1>0 DEF CommandRecords, SubPcs, Shaped
  <2>4. UNCHANGED <<subGate, rows, links, creation, ownerGrant>>
    BY <1>3 DEF SubRowRead
  <2>5. PICK x \in {r, NoCommand} : command' = [command EXCEPT ![c] = x]
    BY <1>3, <1>0 DEF SubRowRead
  <2>6. x \in CommandRecords /\ Shaped(x) /\ x.pc \notin {"inside", "write"}
    BY <2>3, <2>5, <1>n
  <2> QED BY <2>4, <2>5, <2>6, CommandMoves
<1>4. CASE \E key \in CreationKeys : RecordBuilt(c, key)
  <2>1. PICK key \in CreationKeys : RecordBuilt(c, key)
    BY <1>4
  <2> DEFINE g == IF command[c].made.grant = 0 THEN 0 ELSE ownerGrant.rev
             k == IF command[c].op = "create" \/ key = "none" THEN command[c].made.key ELSE key
             m == [command[c].made EXCEPT !.grant = g, !.key = k]
             r == [command[c] EXCEPT !.pc = "built", !.made = m]
  <2>2. m \in SubRows
    BY <1>0 DEF SubRows, CommandRecords
  <2>3. r \in CommandRecords /\ Shaped(r) /\ r.pc = "built"
    BY <2>1, <2>2, <1>0 DEF CommandRecords, SubPcs, Shaped, RecordBuilt
  <2>4. UNCHANGED <<subGate, rows, links, creation, ownerGrant>>
    BY <2>1 DEF RecordBuilt
  <2> DEFINE b == [command[c] EXCEPT !.pc = "built",
                       !.made.grant = IF @ = 0 THEN 0 ELSE ownerGrant.rev,
                       !.made.key = IF command[c].op = "create" \/ key = "none" THEN @ ELSE key]
  <2>5. b = r
    BY <1>0 DEF CommandRecords, SubRows
  <2>6. \/ command' = [command EXCEPT ![c] = r]
        \/ command' = [command EXCEPT ![c] = NoCommand]
    <3>1. CASE command[c].made.grant # 0 /\ ~ownerGrant.on
      BY <2>1, <3>1 DEF RecordBuilt
    <3>2. CASE ~(command[c].made.grant # 0 /\ ~ownerGrant.on)
      <4>1. command' = [command EXCEPT ![c] = b]
        BY <2>1, <3>2 DEF RecordBuilt
      <4> QED BY <4>1, <2>5
    <3> QED BY <3>1, <3>2
  <2> QED BY <1>n, <2>3, <2>4, <2>6, CommandMoves
<1>5. CASE GateEntered(c)
  <2> DEFINE r == [command[c] EXCEPT !.pc = "inside"]
  <2>1. r \in CommandRecords /\ Shaped(r)
    BY <1>0, <1>5 DEF CommandRecords, SubPcs, Shaped, GateEntered
  <2>2. command' = [command EXCEPT ![c] = r] /\ subGate = "free" /\ subGate' = c
    BY <1>0, <1>5 DEF GateEntered
  <2> QED BY <1>5, <2>1, <2>2, CommandMoves DEF GateEntered
<1>6. CASE Rechecked(c)
  <2> DEFINE r == [command[c] EXCEPT !.pc = "write"]
  <2>1. r \in CommandRecords /\ Shaped(r) /\ subGate = c
    BY <1>0, <1>6 DEF CommandRecords, SubPcs, Shaped, Rechecked
  <2>2. \/ command' = [command EXCEPT ![c] = r] /\ subGate' = subGate
        \/ command' = [command EXCEPT ![c] = NoCommand] /\ subGate' = "free"
    BY <1>0, <1>6, <2>1 DEF Rechecked, Ended
  <2> QED BY <1>6, <1>n, <2>1, <2>2, CommandMoves DEF Rechecked
<1>7. CASE SubRefused(c)
  BY <1>7, <1>n, CommandMoves DEF SubRefused, Ended
<1> QED BY <1>1, <1>2, <1>3, <1>4, <1>5, <1>6, <1>7 DEF Unwriting

LEMMA UnwritingStep ==
    ASSUME SubInv, NEW c \in SubCommands, Unwriting(c)
    PROVE  SubInv' /\ UNCHANGED rows
<1>1. UNCHANGED <<rows, links, creation, ownerGrant>>
  BY DEF Unwriting, CreateStarts, CalendarLists, SubRowRead, RecordBuilt, GateEntered, Rechecked,
     SubRefused, Unwritten
<1>2. SubTyped' /\ CommandShape' /\ GateHeld'
  BY UnwritingTyped
<1>3. KeysIndexed' /\ QuotaHolds'
  BY <1>1 DEF SubInv, KeysIndexed, QuotaHolds, ActiveRows, IdentityOf
<1>4. ASSUME NEW d \in SubCommands, command'[d].pc = "write" PROVE Stands(command[d])'
  <2>1. CASE d # c
    <3>1. command'[d] = command[d]
      BY <2>1 DEF SubInv, SubTyped, Unwriting, CreateStarts, CalendarLists, SubRowRead, RecordBuilt,
         GateEntered, Rechecked, SubRefused, Ended
    <3>2. Stands(command[d]) /\ command[d].op \in {"create", "revise", "cancel"}
      BY <1>4, <3>1 DEF SubInv, WriteStands, SubTyped, CommandRecords, CommandShape, Shaped
    <3> QED BY <1>1, <3>1, <3>2, StandsSame
  <2>2. CASE d = c
    <3>0. command[c] \in CommandRecords /\ Shaped(command[c]) /\ command \in [SubCommands -> CommandRecords]
      BY DEF SubInv, SubTyped, CommandShape
    <3>w. command'[c].pc = "write" /\ NoCommand.pc = "idle"
      BY <1>4, <2>2 DEF NoCommand
    <3>a. ~\E key \in CreationKeys, granted \in BOOLEAN : CreateStarts(c, key, granted)
      BY <1>4, <2>2, <3>0 DEF CreateStarts, NoCommand
    <3>b. ~\E s \in SubIds, n \in 1..(MaxSubRevision - 1) : CalendarLists(c, s, n)
      <4> SUFFICES ASSUME NEW s \in SubIds, NEW n \in 1..(MaxSubRevision - 1), CalendarLists(c, s, n)
                   PROVE FALSE
        OBVIOUS
      <4>0. PICK op \in {"revise", "cancel"} :
              command' = [command EXCEPT ![c] =
                  IF ListedRow(s, n)
                  THEN [NoCommand EXCEPT !.op = op, !.pc = "listed", !.sub = s, !.expects = n]
                  ELSE NoCommand]
        BY DEF CalendarLists
      <4>1. [NoCommand EXCEPT !.op = op, !.pc = "listed", !.sub = s, !.expects = n].pc = "listed"
        BY DEF NoCommand
      <4> QED BY <3>0, <3>w, <4>0, <4>1
    <3>c. ~SubRowRead(c)
      <4> SUFFICES ASSUME SubRowRead(c) PROVE FALSE
        OBVIOUS
      <4> DEFINE m == IF command[c].op = "cancel" THEN CancelledRow(command[c].expects + 1)
                      ELSE [rows[command[c].sub] EXCEPT !.rev = command[c].expects + 1]
      <4>1. PICK p \in {"built", "asked"} :
              command'[c] = NoCommand \/ command'[c] = [command[c] EXCEPT !.pc = p, !.made = m]
        BY <3>0 DEF SubRowRead
      <4>2. [command[c] EXCEPT !.pc = p, !.made = m].pc = p
        BY <3>0 DEF CommandRecords
      <4> QED BY <3>w, <4>1, <4>2
    <3>f. ~\E key \in CreationKeys : RecordBuilt(c, key)
      <4> SUFFICES ASSUME NEW key \in CreationKeys, RecordBuilt(c, key) PROVE FALSE
        OBVIOUS
      <4>1. command'[c].pc \in {"built", "idle"}
        BY <3>w, <3>0 DEF RecordBuilt, CommandRecords
      <4> QED BY <4>1, <3>w
    <3>d. ~GateEntered(c) /\ ~SubRefused(c)
      <4>1. ASSUME GateEntered(c) PROVE FALSE
        <5>1. command'[c] = [command[c] EXCEPT !.pc = "inside"]
          BY <3>0, <4>1 DEF GateEntered
        <5>2. command'[c].pc = "inside"
          BY <5>1, <3>0 DEF CommandRecords
        <5> QED BY <3>w, <5>2
      <4>2. ASSUME SubRefused(c) PROVE FALSE
        <5>1. command'[c] = NoCommand
          BY <3>0, <4>2 DEF SubRefused, Ended
        <5> QED BY <3>w, <5>1
      <4> QED BY <4>1, <4>2
    <3>1. Rechecked(c) /\ Stands(command[c]) /\ command' = [command EXCEPT ![c].pc = "write"]
      BY <1>4, <2>2, <3>0, <3>a, <3>b, <3>c, <3>d, <3>f DEF Unwriting, Rechecked, Ended, NoCommand
    <3>e. command[d].op \in {"create", "revise", "cancel"}
      BY <2>2, <3>0, <3>1 DEF Rechecked, Shaped, CommandRecords
    <3>2. /\ command'[d].op = command[d].op /\ command'[d].made = command[d].made
          /\ command'[d].sub = command[d].sub /\ command'[d].expects = command[d].expects
      BY <3>1, <2>2 DEF SubInv, SubTyped
    <3> QED BY <1>1, <2>2, <3>1, <3>2, <3>e, StandsSame
  <2> QED BY <2>1, <2>2
<1> QED BY <1>1, <1>2, <1>3, <1>4 DEF SubInv, WriteStands

\* Whoever writes holds the gate, and leaves it with its write.
LEMMA WriterLeaves ==
    ASSUME SubInv, NEW c \in SubCommands, command[c].pc = "write", Ended(c)
    PROVE  /\ command' \in [SubCommands -> CommandRecords] /\ subGate' = "free"
           /\ CommandShape' /\ GateHeld' /\ WriteStands'
           /\ Stands(command[c]) /\ command[c] \in CommandRecords /\ Shaped(command[c])
<1> USE SubscriptionsAssumption
<1>1. NoCommand \in CommandRecords /\ Shaped(NoCommand) /\ NoCommand.pc = "idle"
  BY DEF NoCommand, CommandRecords, SubRows, SubPcs, Shaped, FreeRow, CreationKeys
<1>2. /\ command \in [SubCommands -> CommandRecords] /\ subGate = c
      /\ Stands(command[c]) /\ Shaped(command[c])
  BY DEF SubInv, SubTyped, GateHeld, WriteStands, CommandShape
<1>3. command' = [command EXCEPT ![c] = NoCommand] /\ subGate' = "free"
  BY <1>2 DEF Ended
<1>4. \A d \in SubCommands : command'[d].pc \notin {"inside", "write"}
  BY <1>1, <1>2, <1>3 DEF SubInv, GateHeld
<1>5. CommandShape'
  BY <1>1, <1>2, <1>3 DEF SubInv, CommandShape, Shaped
<1> QED BY <1>1, <1>2, <1>3, <1>4, <1>5 DEF GateHeld, WriteStands

\* An identity of a row that has a creation key is one of the table's.
LEMMA RowIdentity ==
    ASSUME NEW r \in SubRows, r.key # "none"
    PROVE  IdentityOf(r) \in Identities
BY DEF SubRows, CreationKeys, IdentityOf, Identities

\* How rows that become active move the count of them.
LEMMA CountKept ==
    ASSUME SubTyped, SubTyped', QuotaHolds, ActiveRows' \subseteq ActiveRows
    PROVE  QuotaHolds'
<1>1. IsFiniteSet(ActiveRows) /\ IsFiniteSet(ActiveRows')
  BY FS_Subset, SubscriptionsAssumption DEF ActiveRows
<1>2. Cardinality(ActiveRows') <= Cardinality(ActiveRows)
  BY <1>1, FS_Subset
<1> QED BY <1>1, <1>2, FS_CardinalityType, SubscriptionsAssumption DEF QuotaHolds

LEMMA CountGrows ==
    ASSUME SubTyped, SubTyped', ~Enough, NEW s \in SubIds, ActiveRows' \subseteq ActiveRows \cup {s}
    PROVE  QuotaHolds'
<1>1. IsFiniteSet(ActiveRows) /\ IsFiniteSet(ActiveRows') /\ IsFiniteSet(ActiveRows \cup {s})
  BY FS_Subset, FS_AddElement, SubscriptionsAssumption DEF ActiveRows
<1>2. Cardinality(ActiveRows') <= Cardinality(ActiveRows \cup {s})
  BY <1>1, FS_Subset
<1>3. Cardinality(ActiveRows \cup {s}) <= Cardinality(ActiveRows) + 1
  BY <1>1, FS_AddElement, FS_CardinalityType
<1> QED BY <1>1, <1>2, <1>3, FS_CardinalityType, SubscriptionsAssumption DEF QuotaHolds, Enough

\* A row that becomes active is written under a Grant that is on.
LEMMA CreateStep ==
    ASSUME SubInv, NEW c \in SubCommands, NEW s \in SubIds, CreateWrites(c, s)
    PROVE  SubInv' /\ GrantedWriteIsCurrent
<1> DEFINE r == command[c].made
<1>1. /\ command' \in [SubCommands -> CommandRecords] /\ subGate' = "free"
      /\ CommandShape' /\ GateHeld' /\ WriteStands'
      /\ CreateStands(r) /\ r \in SubRows
  BY WriterLeaves DEF CreateWrites, Stands, CommandRecords
<1>2. /\ rows \in [SubIds -> SubRows] /\ rows' = [rows EXCEPT ![s] = r] /\ links' = [links EXCEPT ![s] = 1]
      /\ Indexes(creation, s, r) /\ UNCHANGED ownerGrant /\ creation \in [Identities -> SubIds \cup {"none"}]
  BY DEF CreateWrites, SubInv, SubTyped
<1>3. rows' \in [SubIds -> SubRows] /\ rows'[s] = r /\ \A t \in SubIds \ {s} : rows'[t] = rows[t]
  BY <1>1, <1>2
<1>4. creation' \in [Identities -> SubIds \cup {"none"}]
  BY <1>2 DEF Indexes
<1>5. SubTyped'
  BY <1>1, <1>2, <1>3, <1>4 DEF SubInv, SubTyped
<1>6. ActiveRows' \subseteq ActiveRows \cup {s}
  BY <1>3 DEF ActiveRows
<1>7. QuotaHolds'
  BY <1>1, <1>5, <1>6, CountGrows DEF CreateStands, SubInv
<1>8. ASSUME NEW t \in ActiveRows', rows'[t].key # "none"
      PROVE  creation'[IdentityOf(rows'[t])] = t
  <2>1. CASE t = s
    BY <1>1, <1>2, <1>3, <1>8, <2>1, RowIdentity DEF Indexes
  <2>2. CASE t # s
    <3>1. t \in ActiveRows /\ rows'[t] = rows[t] /\ rows[t] \in SubRows
      BY <1>2, <1>3, <1>8, <2>2 DEF ActiveRows
    <3>2. creation[IdentityOf(rows[t])] = t /\ IdentityOf(rows[t]) \in Identities /\ t # "none"
      BY <1>8, <3>1, RowIdentity, SubscriptionsAssumption DEF SubInv, KeysIndexed, ActiveRows
    <3>3. CASE r.key = "none"
      BY <1>2, <3>1, <3>2, <3>3 DEF Indexes
    <3>4. CASE r.key # "none"
      <4>1. IdentityOf(rows[t]) # IdentityOf(r)
        BY <1>2, <3>2, <3>4 DEF Indexes
      <4> QED BY <1>2, <3>1, <3>2, <3>4, <4>1 DEF Indexes
    <3> QED BY <3>3, <3>4
  <2> QED BY <2>1, <2>2
<1>9. KeysIndexed'
  BY <1>8 DEF KeysIndexed, IdentityOf
<1>10. GrantedWriteIsCurrent
  BY <1>1, <1>3 DEF GrantedWriteIsCurrent, CreateStands
<1> QED BY <1>1, <1>5, <1>7, <1>9, <1>10 DEF SubInv

LEMMA ReviseStep ==
    ASSUME SubInv, NEW c \in SubCommands, ReviseWrites(c)
    PROVE  SubInv' /\ GrantedWriteIsCurrent
<1> DEFINE s == command[c].sub
           r == command[c].made
<1>1. /\ command' \in [SubCommands -> CommandRecords] /\ subGate' = "free"
      /\ CommandShape' /\ GateHeld' /\ WriteStands'
      /\ ReviseStands(s, command[c].expects, r) /\ r \in SubRows /\ s \in SubIds
  BY WriterLeaves DEF ReviseWrites, Stands, CommandRecords, Shaped
<1>2. /\ rows \in [SubIds -> SubRows] /\ rows' = [rows EXCEPT ![s] = r] /\ links' = [links EXCEPT ![s] = r.rev]
      /\ Indexes(Unindexed(s), s, r) /\ UNCHANGED ownerGrant /\ creation \in [Identities -> SubIds \cup {"none"}]
  BY DEF ReviseWrites, SubInv, SubTyped
<1>3. rows' \in [SubIds -> SubRows] /\ rows'[s] = r /\ \A t \in SubIds \ {s} : rows'[t] = rows[t]
  BY <1>1, <1>2
<1>u. Unindexed(s) \in [Identities -> SubIds \cup {"none"}]
  BY <1>2 DEF Unindexed
<1>4. creation' \in [Identities -> SubIds \cup {"none"}]
  BY <1>1, <1>2, <1>u DEF Indexes
<1>5. SubTyped'
  BY <1>1, <1>2, <1>3, <1>4 DEF SubInv, SubTyped, SubRows
<1>6. ActiveRows' \subseteq ActiveRows
  BY <1>1, <1>3 DEF ActiveRows, ReviseStands, OwnedRow
<1>7. QuotaHolds'
  BY <1>5, <1>6, CountKept DEF SubInv
<1>8. ASSUME NEW t \in ActiveRows', rows'[t].key # "none"
      PROVE  creation'[IdentityOf(rows'[t])] = t
  <2>1. CASE t = s
    BY <1>1, <1>2, <1>3, <1>u, <1>8, <2>1, RowIdentity DEF Indexes
  <2>2. CASE t # s
    <3>1. t \in ActiveRows /\ rows'[t] = rows[t] /\ rows[t] \in SubRows
      BY <1>2, <1>3, <1>8, <2>2 DEF ActiveRows
    <3>2. creation[IdentityOf(rows[t])] = t /\ IdentityOf(rows[t]) \in Identities /\ t # "none"
      BY <1>8, <3>1, RowIdentity, SubscriptionsAssumption DEF SubInv, KeysIndexed, ActiveRows
    <3>u. Unindexed(s)[IdentityOf(rows[t])] = t
      BY <2>2, <3>2 DEF Unindexed
    <3>3. CASE r.key = "none"
      BY <1>2, <3>1, <3>u, <3>3 DEF Indexes
    <3>4. CASE r.key # "none"
      <4>1. IdentityOf(rows[t]) # IdentityOf(r)
        BY <1>2, <3>2, <3>u, <3>4 DEF Indexes
      <4> QED BY <1>2, <1>u, <3>1, <3>2, <3>u, <3>4, <4>1 DEF Indexes
    <3> QED BY <3>3, <3>4
  <2> QED BY <2>1, <2>2
<1>9. KeysIndexed'
  BY <1>8 DEF KeysIndexed, IdentityOf
<1>10. GrantedWriteIsCurrent
  BY <1>1, <1>3 DEF GrantedWriteIsCurrent, ReviseStands
<1> QED BY <1>1, <1>5, <1>7, <1>9, <1>10 DEF SubInv

LEMMA CancelStep ==
    ASSUME SubInv, NEW c \in SubCommands, CancelWrites(c)
    PROVE  SubInv' /\ GrantedWriteIsCurrent
<1> DEFINE s == command[c].sub
           r == command[c].made
<1>1. /\ command' \in [SubCommands -> CommandRecords] /\ subGate' = "free"
      /\ CommandShape' /\ GateHeld' /\ WriteStands'
      /\ r \in SubRows /\ s \in SubIds /\ r.status = "cancelled"
  BY WriterLeaves DEF CancelWrites, CommandRecords, Shaped
<1>2. /\ rows \in [SubIds -> SubRows] /\ rows' = [rows EXCEPT ![s] = r] /\ links' = [links EXCEPT ![s] = 0]
      /\ creation' = Unindexed(s) /\ UNCHANGED ownerGrant /\ creation \in [Identities -> SubIds \cup {"none"}]
  BY DEF CancelWrites, SubInv, SubTyped
<1>3. rows' \in [SubIds -> SubRows] /\ rows'[s] = r /\ \A t \in SubIds \ {s} : rows'[t] = rows[t]
  BY <1>1, <1>2
<1>4. creation' \in [Identities -> SubIds \cup {"none"}]
  BY <1>2 DEF Unindexed
<1>5. SubTyped'
  BY <1>1, <1>2, <1>3, <1>4 DEF SubInv, SubTyped
<1>6. ActiveRows' \subseteq ActiveRows \ {s}
  BY <1>1, <1>3 DEF ActiveRows
<1>7. QuotaHolds'
  BY <1>5, <1>6, CountKept DEF SubInv
<1>8. ASSUME NEW t \in ActiveRows', rows'[t].key # "none"
      PROVE  creation'[IdentityOf(rows'[t])] = t
  <2>1. t \in ActiveRows /\ t # s /\ rows'[t] = rows[t] /\ rows[t] \in SubRows
    BY <1>2, <1>3, <1>6, <1>8 DEF ActiveRows
  <2>2. creation[IdentityOf(rows[t])] = t /\ IdentityOf(rows[t]) \in Identities
    BY <1>8, <2>1, RowIdentity DEF SubInv, KeysIndexed
  <2> QED BY <1>2, <2>1, <2>2 DEF Unindexed
<1>9. KeysIndexed'
  BY <1>8 DEF KeysIndexed, IdentityOf
<1>10. GrantedWriteIsCurrent
  BY <1>1, <1>3 DEF GrantedWriteIsCurrent
<1> QED BY <1>1, <1>5, <1>7, <1>9, <1>10 DEF SubInv

LEMMA GrantStep ==
    ASSUME SubInv, GrantRevoked \/ GrantRenewed
    PROVE  SubInv' /\ GrantedWriteIsCurrent
<1> USE SubscriptionsAssumption
<1>0. /\ rows \in [SubIds -> SubRows] /\ links \in [SubIds -> Nat]
      /\ ownerGrant \in [rev: 1..MaxSubGrant, on: BOOLEAN]
      /\ UNCHANGED <<creation, subGate, command>> /\ subGate = "free"
  BY DEF SubInv, SubTyped, GrantRevoked, GrantRenewed
<1>1. \A s \in SubIds : rows'[s] = rows[s] \/ rows'[s] = CancelledRow(rows[s].rev + 1)
  BY <1>0 DEF GrantRevoked, GrantRenewed
<1>2. \A n \in Nat : CancelledRow(n + 1) \in SubRows /\ CancelledRow(n + 1).status = "cancelled"
  <2> TAKE n \in Nat
  <2>1. FreeRow \in SubRows
    BY DEF SubRows, FreeRow, CreationKeys
  <2>2. PICK f \in SubRows : f = FreeRow
    BY <2>1
  <2>3. PICK k \in Nat : k = n + 1
    OBVIOUS
  <2> QED BY <2>2, <2>3 DEF SubRows, CancelledRow
<1>3. DOMAIN rows' = SubIds /\ rows' = [s \in SubIds |-> rows'[s]]
  BY <1>0 DEF GrantRevoked, GrantRenewed
<1>r. \A s \in SubIds : rows[s].rev \in Nat
  BY <1>0 DEF SubRows
<1>4. rows' \in [SubIds -> SubRows] /\ \A s \in SubIds : rows'[s] = rows[s] \/ rows'[s].status = "cancelled"
  BY <1>0, <1>1, <1>2, <1>3, <1>r
<1>5. links' \in [SubIds -> Nat] /\ ownerGrant' \in [rev: 1..MaxSubGrant, on: BOOLEAN]
  <2>1. PICK k \in 1..MaxSubGrant : k = ownerGrant.rev + 1
    BY <1>0 DEF GrantRevoked, GrantRenewed
  <2>2. PICK b \in BOOLEAN : ownerGrant' = [rev |-> k, on |-> b]
    BY <2>1 DEF GrantRevoked, GrantRenewed
  <2>3. links' \in [SubIds -> Nat]
    BY <1>0 DEF GrantRevoked, GrantRenewed
  <2> QED BY <2>2, <2>3
<1>6. SubTyped' /\ CommandShape' /\ GateHeld'
  BY <1>0, <1>4, <1>5 DEF SubInv, SubTyped, CommandShape, Shaped, GateHeld
<1>7. WriteStands'
  BY <1>0 DEF SubInv, GateHeld, WriteStands
<1>8. \A s \in ActiveRows' : s \in ActiveRows /\ rows'[s] = rows[s]
  BY <1>4 DEF ActiveRows
<1>9. KeysIndexed'
  BY <1>0, <1>8 DEF SubInv, KeysIndexed, IdentityOf
<1>10. QuotaHolds'
  BY <1>6, <1>8, CountKept DEF SubInv
<1>11. GrantedWriteIsCurrent
  BY <1>4 DEF GrantedWriteIsCurrent
<1> QED BY <1>6, <1>7, <1>9, <1>10, <1>11 DEF SubInv

\* Every step of SubNext, and no step, keeps the invariant.
LEMMA SubStep ==
    ASSUME SubInv, SubNext
    PROVE  SubInv' /\ GrantedWriteIsCurrent
<1>1. ASSUME NEW c \in SubCommands, Unwriting(c) PROVE SubInv' /\ GrantedWriteIsCurrent
  BY <1>1, UnwritingStep DEF GrantedWriteIsCurrent
<1>2. \/ \E c \in SubCommands : Unwriting(c)
      \/ \E c \in SubCommands, s \in SubIds : CreateWrites(c, s)
      \/ \E c \in SubCommands : ReviseWrites(c) \/ CancelWrites(c)
      \/ GrantRevoked \/ GrantRenewed
  BY DEF SubNext, Unwriting, CalendarSubscribes, CreationKeys
<1> QED BY <1>1, <1>2, CreateStep, ReviseStep, CancelStep, GrantStep

\* Stuttering keeps the invariant.
LEMMA SubStutter ==
    ASSUME SubInv, UNCHANGED subVars
    PROVE  SubInv'
<1> USE DEF subVars
<1>1. SubTyped' /\ CommandShape' /\ GateHeld'
  BY DEF SubInv, SubTyped, CommandShape, Shaped, GateHeld
<1>2. KeysIndexed' /\ QuotaHolds'
  BY DEF SubInv, KeysIndexed, QuotaHolds, ActiveRows, IdentityOf
<1>3. WriteStands'
  BY StandsSame DEF SubInv, WriteStands, CommandShape, Shaped, SubTyped, CommandRecords
<1> QED BY <1>1, <1>2, <1>3 DEF SubInv

\* A key the creation table knows by its row has no second row.
LEMMA KeysUnique == SubInv => CreationIsUnique
BY RowIdentity DEF SubInv, KeysIndexed, CreationIsUnique, IdentityOf, ActiveRows

\* SubscriptionOperationsService, for any number of commands, rows and revisions of
\* the Grant: the quota and the creation keys hold after every step, and every row
\* that becomes active is written under the Grant of that moment.
THEOREM CommandsKept == MCSpec => CommandsKeepRules
<1> DEFINE Kept == part = "commands" => SubInv
           Rules == part = "commands" => QuotaHolds' /\ CreationIsUnique' /\ GrantedWriteIsCurrent
<1>1. MCInit => Kept
  BY SubInitInv DEF MCInit
<1>2. Kept /\ [MCNext]_AllVars => Kept'
  BY SubStep, SubStutter DEF MCNext, AllVars
<1>3. ASSUME Kept, MCNext, part = "commands"
      PROVE  QuotaHolds' /\ CreationIsUnique' /\ GrantedWriteIsCurrent
  <2>1. SubNext /\ SubInv
    BY <1>3 DEF MCNext
  <2>2. SubInv' /\ GrantedWriteIsCurrent
    BY <2>1, SubStep
  <2>3. SubInv' => CreationIsUnique'
    BY KeysUnique, PTL
  <2> QED BY <2>2, <2>3 DEF SubInv
<1>4. Kept /\ [MCNext]_AllVars => [Rules]_subVars
  BY <1>3 DEF AllVars
<1> QED BY <1>1, <1>2, <1>4, PTL DEF MCSpec, CommandsKeepRules, AllVars

\* PumpPlanning: a job names the epoch and the configuration revision it
\* was read at.  Both only grow and a module that goes off and on again
\* has another epoch, so a remembered job that still fits the module was
\* reconciled under its present intent and configuration.

JobTriples == PlannedModules \X Nat \X Nat
GateRows == [reg: BOOLEAN, value: {"absent", "true", "false"}, cut: BOOLEAN, bound: BOOLEAN]

PlanTyped ==
    /\ stage \in [PlannedModules -> {"off", "enabling", "on", "stopping"}]
    /\ epoch \in [PlannedModules -> Nat]
    /\ wish \in [PlannedModules -> [on: BOOLEAN, rev: Nat]]
    /\ config \in [PlannedModules -> Nat]
    /\ subsGate \in [PlannedModules -> GateRows]
    /\ jobRow \in [PlannedModules -> [active: BOOLEAN, config: Nat, intent: Nat]]
    /\ plan \in [pc: {"gates", "read", "pump"}, todo: SUBSET (PlannedModules \X Nat),
                 jobs: SUBSET JobTriples]
    /\ signature \in [known: BOOLEAN, jobs: SUBSET JobTriples]
    /\ collect \in [PlannedModules -> [held: BOOLEAN, config: Nat, intent: Nat]]

\* A module that is on its way has an intent that is on.
LiveIsWished == \A m \in PlannedModules : stage[m] # "off" => wish[m].on

\* A job was read in an epoch that ended when its module went off.
JobPast(t) ==
    /\ t[2] <= epoch[t[1]] /\ t[3] <= config[t[1]]
    /\ stage[t[1]] # "on" => t[2] < epoch[t[1]]
JobsPast == (\A t \in plan.jobs : JobPast(t)) /\ (\A t \in signature.jobs : JobPast(t))

\* A remembered job that still fits its module has its row.
JobFits(t) == stage[t[1]] = "on" /\ epoch[t[1]] = t[2] /\ config[t[1]] = t[3]
SignedHaveRows == \A t \in signature.jobs : JobFits(t) => UnchangedJob(t[1])

\* A lease is held in the pump's part of a cycle, for the row it was claimed under.
LeaseFits ==
    \A m \in PlannedModules : collect[m].held =>
        /\ plan.pc = "pump"
        /\ collect[m].config = jobRow[m].config /\ collect[m].intent = jobRow[m].intent

\* A registered gate that is on has its cut-off.
GateCut ==
    \A m \in PlannedModules :
        /\ subsGate[m].bound => subsGate[m].reg
        /\ (subsGate[m].reg /\ subsGate[m].value = "true") => subsGate[m].cut

PlanInv ==
    /\ PlanTyped /\ LiveIsWished /\ JobsPast /\ SignedHaveRows /\ LeaseFits /\ GateCut

LEMMA PlanInitInv == PlanInit => PlanInv
<1> SUFFICES ASSUME PlanInit PROVE PlanInv
  OBVIOUS
<1> USE DEF PlanInit, Resting, Unsigned, NoJobRow, NoLease
<1>1. PICK v \in [PlannedModules -> {"absent", "true", "false"}] :
        subsGate = [m \in PlannedModules |->
                      [reg |-> FALSE, value |-> v[m], cut |-> FALSE, bound |-> FALSE]]
  OBVIOUS
<1>2. subsGate \in [PlannedModules -> GateRows] /\ GateCut
  BY <1>1 DEF GateRows, GateCut
<1>3. PlanTyped
  BY <1>2 DEF PlanTyped
<1>4. LiveIsWished /\ JobsPast /\ SignedHaveRows /\ LeaseFits
  BY DEF LiveIsWished, JobsPast, SignedHaveRows, LeaseFits
<1> QED BY <1>2, <1>3, <1>4 DEF PlanInv

\* Epochs and configuration revisions that only grow, and grow when a module goes on
\* or off, leave every job that was read a past one, and no new job fits.
LEMMA ModuleMoves ==
    ASSUME PlanInv, UNCHANGED <<jobRow, plan, signature, collect>>, PlanTyped', LiveIsWished', GateCut',
           \A m \in PlannedModules :
               /\ epoch'[m] >= epoch[m] /\ config'[m] >= config[m]
               /\ stage'[m] = "on" /\ stage[m] # "on" => epoch'[m] > epoch[m]
               /\ stage'[m] # "on" /\ stage[m] = "on" => epoch'[m] > epoch[m]
               /\ stage'[m] = "on" /\ stage[m] = "on" => wish'[m] = wish[m]
    PROVE  PlanInv'
<1> USE DEF PlanInv
<1>1. ASSUME NEW t \in JobTriples, JobPast(t) PROVE JobPast(t)'
  <2>1. t[1] \in PlannedModules /\ t[2] \in Nat /\ t[3] \in Nat
    BY DEF JobTriples
  <2> QED BY <1>1, <2>1 DEF JobPast, PlanTyped
<1>2. JobsPast'
  BY <1>1 DEF JobsPast, PlanTyped
<1>3. ASSUME NEW t \in JobTriples, JobPast(t), JobFits(t)' PROVE JobFits(t) /\ wish'[t[1]] = wish[t[1]]
  <2>1. t[1] \in PlannedModules /\ t[2] \in Nat /\ t[3] \in Nat
    BY DEF JobTriples
  <2>2. /\ stage'[t[1]] = "on" /\ epoch'[t[1]] = t[2] /\ config'[t[1]] = t[3]
        /\ t[2] <= epoch[t[1]] /\ t[3] <= config[t[1]]
    BY <1>3 DEF JobPast, JobFits
  <2>3. epoch[t[1]] \in Nat /\ config[t[1]] \in Nat
    BY <2>1 DEF PlanTyped
  <2>4. stage[t[1]] = "on"
    BY <1>3, <2>1, <2>2, <2>3 DEF JobPast
  <2>5. wish'[t[1]] = wish[t[1]]
    BY <2>1, <2>2, <2>4
  <2> QED BY <2>1, <2>2, <2>3, <2>4, <2>5 DEF JobFits
<1>4. ASSUME NEW t \in signature.jobs, JobFits(t)' PROVE UnchangedJob(t[1])'
  <2>1. t \in JobTriples /\ JobPast(t)
    BY DEF JobsPast, PlanTyped
  <2>2. JobFits(t) /\ wish'[t[1]] = wish[t[1]]
    BY <1>3, <1>4, <2>1
  <2>3. UnchangedJob(t[1])
    BY <2>2 DEF SignedHaveRows
  <2>4. config'[t[1]] = config[t[1]]
    BY <1>4, <2>2 DEF JobFits
  <2> QED BY <2>2, <2>3, <2>4 DEF UnchangedJob
<1>5. SignedHaveRows'
  BY <1>4 DEF SignedHaveRows
<1>6. LeaseFits'
  BY DEF LeaseFits
<1> QED BY <1>2, <1>5, <1>6

LEMMA ModuleStep ==
    ASSUME PlanInv, NEW m \in PlannedModules,
           EnableCommitted(m) \/ Published(m) \/ Quiesced(m) \/ DisableCommitted(m)
    PROVE  PlanInv' /\ StoredAsConfigured /\ GatesKeepTheirValue
<1> USE DEF PlanInv, PlanTyped
<1>a. StoredAsConfigured /\ GatesKeepTheirValue
  BY DEF StoredAsConfigured, GatesKeepTheirValue, GateCut, EnableCommitted, Published, Quiesced,
     DisableCommitted, GateRows
<1>1. CASE EnableCommitted(m)
  <2>1. PICK k \in Nat : k = wish[m].rev + 1
    OBVIOUS
  <2>2. wish' = [wish EXCEPT ![m] = [on |-> TRUE, rev |-> k]]
    BY <1>1, <2>1 DEF EnableCommitted
  <2>3. PlanTyped' /\ LiveIsWished'
    BY <1>1, <2>2 DEF EnableCommitted, LiveIsWished
  <2>4. GateCut'
    BY <1>1 DEF EnableCommitted, GateCut
  <2> QED BY <1>1, <2>2, <2>3, <2>4, <1>a, ModuleMoves DEF EnableCommitted
<1>2. CASE Published(m)
  <2>1. PlanTyped' /\ LiveIsWished' /\ GateCut'
    BY <1>2 DEF Published, LiveIsWished, GateCut
  <2> QED BY <1>2, <2>1, <1>a, ModuleMoves DEF Published
<1>3. CASE Quiesced(m)
  <2>1. PlanTyped' /\ LiveIsWished' /\ GateCut'
    BY <1>3 DEF Quiesced, LiveIsWished, GateCut
  <2> QED BY <1>3, <2>1, <1>a, ModuleMoves DEF Quiesced
<1>4. CASE DisableCommitted(m)
  <2>1. PICK k \in Nat : k = wish[m].rev + 1
    OBVIOUS
  <2>2. wish' = [wish EXCEPT ![m] = [on |-> FALSE, rev |-> k]]
    BY <1>4, <2>1 DEF DisableCommitted
  <2>3. PlanTyped' /\ LiveIsWished'
    BY <1>4, <2>2 DEF DisableCommitted, LiveIsWished
  <2>4. GateCut'
    BY <1>4 DEF DisableCommitted, GateCut
  <2> QED BY <1>4, <2>2, <2>3, <2>4, <1>a, ModuleMoves DEF DisableCommitted
<1> QED BY <1>1, <1>2, <1>3, <1>4

\* A gate's row moves to another one that has its cut-off, and the configuration with
\* it whenever its value is switched.
LEMMA GateMoves ==
    ASSUME PlanInv, NEW m \in PlannedModules, NEW g \in GateRows, NEW k \in Nat,
           subsGate' = [subsGate EXCEPT ![m] = g], config' = [config EXCEPT ![m] = k], k >= config[m],
           g.bound => g.reg, (g.reg /\ g.value = "true") => g.cut,
           subsGate[m].value = "false" /\ g.value = "true" => k # config[m],
           UNCHANGED <<stage, epoch, wish, jobRow, plan, signature, collect>>
    PROVE  PlanInv' /\ StoredAsConfigured /\ GatesKeepTheirValue
<1>1. PlanTyped' /\ LiveIsWished' /\ GateCut'
  BY DEF PlanInv, PlanTyped, LiveIsWished, GateCut
<1>2. \A n \in PlannedModules : config'[n] >= config[n] /\ epoch[n] >= epoch[n]
  BY DEF PlanInv, PlanTyped
<1>3. PlanInv'
  BY <1>1, <1>2, ModuleMoves
<1>4. StoredAsConfigured
  BY DEF StoredAsConfigured
<1>5. GatesKeepTheirValue
  BY <1>1 DEF GatesKeepTheirValue, GateCut, PlanInv, PlanTyped
<1> QED BY <1>3, <1>4, <1>5

LEMMA GateStep ==
    ASSUME PlanInv, NEW m \in PlannedModules, ConfigSaved(m) \/ GateRegistered(m)
    PROVE  PlanInv' /\ StoredAsConfigured /\ GatesKeepTheirValue
<1>0. /\ subsGate \in [PlannedModules -> GateRows] /\ config[m] \in Nat
      /\ subsGate[m] \in GateRows /\ subsGate[m].bound => subsGate[m].reg
      /\ (subsGate[m].reg /\ subsGate[m].value = "true") => subsGate[m].cut
      /\ config \in [PlannedModules -> Nat]
  BY DEF PlanInv, PlanTyped, GateCut
<1>1. CASE ConfigSaved(m)
  <2>1. PICK v \in {subsGate[m].value} \cup (IF subsGate[m].bound THEN {"true", "false"} ELSE {}) :
          subsGate' = [subsGate EXCEPT ![m].value = v, ![m].cut = @ \/ v # subsGate[m].value]
    BY <1>1 DEF ConfigSaved
  <2>2. PICK b \in BOOLEAN : b = (subsGate[m].cut \/ v # subsGate[m].value)
    OBVIOUS
  <2> DEFINE g == [subsGate[m] EXCEPT !.value = v, !.cut = b]
  <2>3. subsGate' = [subsGate EXCEPT ![m] = g]
    BY <1>0, <2>1, <2>2
  <2>4. v \in {"absent", "true", "false"} /\ (v # subsGate[m].value => subsGate[m].bound)
    BY <1>0, <2>1 DEF GateRows
  <2>5. g \in GateRows /\ g.value = v /\ g.cut = b /\ g.reg = subsGate[m].reg /\ g.bound = subsGate[m].bound
    BY <1>0, <2>4 DEF GateRows
  <2>6. PICK k \in Nat : k = config[m] + 1
    BY <1>0
  <2>7. (g.bound => g.reg) /\ ((g.reg /\ g.value = "true") => g.cut)
    BY <1>0, <2>2, <2>4, <2>5
  <2>8. config' = [config EXCEPT ![m] = k] /\ k >= config[m] /\ k # config[m]
    <3>1. config' = [config EXCEPT ![m] = config[m] + 1]
      BY <1>1 DEF ConfigSaved
    <3>2. k >= config[m] /\ k # config[m]
      BY <1>0, <2>6
    <3> QED BY <2>6, <3>1, <3>2
  <2> QED BY <1>1, <2>3, <2>5, <2>7, <2>8, GateMoves DEF ConfigSaved
<1>2. CASE GateRegistered(m)
  <2> DEFINE g == [GateRow(subsGate[m]) EXCEPT !.bound = TRUE]
  <2>1. PICK h \in GateRows : h = GateRow(subsGate[m])
    <3>1. PICK b \in BOOLEAN : b = (subsGate[m].cut \/ subsGate[m].value # "false")
      OBVIOUS
    <3>2. [subsGate[m] EXCEPT !.reg = TRUE, !.cut = b,
                   !.value = IF subsGate[m].value = "absent" THEN "true" ELSE subsGate[m].value] \in GateRows
      BY <1>0, <3>1 DEF GateRows
    <3> QED BY <1>0, <3>1, <3>2 DEF GateRow
  <2>2. /\ h.reg /\ (h.value = "true" => h.cut)
        /\ subsGate[m].value = "false" => h.value = "false"
    <3>1. CASE subsGate[m].reg
      BY <1>0, <2>1, <3>1 DEF GateRow
    <3>2. CASE ~subsGate[m].reg
      BY <1>0, <2>1, <3>2 DEF GateRow, GateRows
    <3> QED BY <3>1, <3>2
  <2>3. g \in GateRows /\ g.reg = h.reg /\ g.cut = h.cut /\ g.value = h.value
    BY <2>1 DEF GateRows
  <2>4. PICK k \in Nat : config' = [config EXCEPT ![m] = k] /\ k >= config[m]
    <3>1. PICK k \in Nat : k = IF ~subsGate[m].reg /\ subsGate[m].value = "absent"
                              THEN config[m] + 1 ELSE config[m]
      BY <1>0
    <3>2. config' = [config EXCEPT ![m] = IF ~subsGate[m].reg /\ subsGate[m].value = "absent"
                                           THEN config[m] + 1 ELSE config[m]]
      BY <1>2 DEF GateRegistered
    <3>3. k >= config[m]
      BY <1>0, <3>1
    <3> QED BY <3>1, <3>2, <3>3
  <2>5. subsGate' = [subsGate EXCEPT ![m] = g]
    BY <1>2 DEF GateRegistered
  <2> QED BY <1>2, <2>2, <2>3, <2>4, <2>5, GateMoves DEF GateRegistered
<1> QED BY <1>1, <1>2

\* A step of the plan or of a collection that leaves the modules, the rows and the
\* signature alone.
LEMMA QuietPlan ==
    ASSUME PlanInv, UNCHANGED <<stage, epoch, wish, config, subsGate, jobRow, signature>>,
           plan' \in [pc: {"gates", "read", "pump"}, todo: SUBSET (PlannedModules \X Nat),
                      jobs: SUBSET JobTriples],
           collect' \in [PlannedModules -> [held: BOOLEAN, config: Nat, intent: Nat]],
           LeaseFits', \A t \in plan'.jobs : JobPast(t)
    PROVE  PlanInv' /\ GatesKeepTheirValue
<1>1. PlanTyped' /\ LiveIsWished' /\ GateCut'
  BY DEF PlanInv, PlanTyped, LiveIsWished, GateCut
<1>2. JobsPast' /\ SignedHaveRows'
  BY DEF PlanInv, JobsPast, JobPast, SignedHaveRows, JobFits, UnchangedJob
<1>3. GatesKeepTheirValue
  BY DEF PlanInv, PlanTyped, GatesKeepTheirValue, GateCut, GateRows
<1> QED BY <1>1, <1>2, <1>3 DEF PlanInv

LEMMA CycleStep ==
    ASSUME PlanInv, PlanStarts \/ PlanReads \/ PlanUnchanged \/ CycleEnds
    PROVE  PlanInv' /\ StoredAsConfigured /\ GatesKeepTheirValue
<1>0. UNCHANGED <<stage, epoch, wish, config, subsGate, jobRow, signature, collect>>
  BY DEF PlanStarts, PlanReads, PlanUnchanged, CycleEnds
<1>1. StoredAsConfigured
  BY <1>0 DEF StoredAsConfigured
<1>2. plan' \in [pc: {"gates", "read", "pump"}, todo: SUBSET (PlannedModules \X Nat),
                 jobs: SUBSET JobTriples] /\ \A t \in plan'.jobs : JobPast(t)
  <2>1. CASE PlanStarts
    <3>1. {<<m, epoch[m]>> : m \in {x \in PlannedModules : stage[x] \in {"on", "stopping"}}}
             \in SUBSET (PlannedModules \X Nat)
      BY DEF PlanInv, PlanTyped
    <3> QED BY <2>1, <3>1 DEF PlanStarts
  <2>2. CASE PlanReads
    <3>1. PICK t \in plan.todo :
             plan' = [plan EXCEPT !.todo = @ \ {t},
                                  !.jobs = IF StillLive(t[1], t[2])
                                           THEN @ \cup {JobOf(t[1])} ELSE @]
      BY <2>2 DEF PlanReads
    <3>2. /\ t[1] \in PlannedModules /\ plan.todo \in SUBSET (PlannedModules \X Nat)
          /\ plan.jobs \in SUBSET JobTriples /\ plan.pc \in {"gates", "read", "pump"}
          /\ epoch[t[1]] \in Nat /\ config[t[1]] \in Nat
      BY DEF PlanInv, PlanTyped
    <3>3. JobOf(t[1]) \in JobTriples /\ (StillLive(t[1], t[2]) => JobPast(JobOf(t[1])))
      BY <3>2 DEF JobOf, JobTriples, StillLive, JobPast
    <3>4. PICK J \in SUBSET JobTriples :
            /\ J = (IF StillLive(t[1], t[2]) THEN plan.jobs \cup {JobOf(t[1])} ELSE plan.jobs)
            /\ \A u \in J : JobPast(u)
      <4>1. \A u \in plan.jobs : JobPast(u)
        BY DEF PlanInv, JobsPast
      <4>2. CASE StillLive(t[1], t[2])
        <5>1. plan.jobs \cup {JobOf(t[1])} \in SUBSET JobTriples
          BY <3>2, <3>3
        <5>2. \A u \in plan.jobs \cup {JobOf(t[1])} : JobPast(u)
          BY <3>3, <4>1, <4>2
        <5> QED BY <4>2, <5>1, <5>2
      <4>3. CASE ~StillLive(t[1], t[2])
        BY <3>2, <4>1, <4>3
      <4> QED BY <4>2, <4>3
    <3>5. plan' = [plan EXCEPT !.todo = plan.todo \ {t}, !.jobs = J]
      BY <3>1, <3>4
    <3>6. plan \in [pc: {"gates", "read", "pump"}, todo: SUBSET (PlannedModules \X Nat),
                    jobs: SUBSET JobTriples]
      BY DEF PlanInv, PlanTyped
    <3> QED BY <3>2, <3>4, <3>5, <3>6
  <2>3. CASE PlanUnchanged \/ CycleEnds
    <3>1. plan' = [pc |-> "pump", todo |-> {}, jobs |-> {}] \/ plan' = [pc |-> "gates", todo |-> {}, jobs |-> {}]
      BY <2>3 DEF PlanUnchanged, CycleEnds, Resting
    <3> QED BY <3>1
  <2> QED BY <2>1, <2>2, <2>3
<1>3. LeaseFits'
  <2>1. CASE PlanStarts \/ PlanReads \/ CycleEnds
    <3>1. \A m \in PlannedModules : ~collect[m].held
      BY <2>1 DEF PlanStarts, PlanReads, CycleEnds, PlanInv, LeaseFits
    <3> QED BY <1>0, <3>1 DEF LeaseFits
  <2>2. CASE PlanUnchanged
    <3>1. \A m \in PlannedModules : ~collect[m].held
      BY <2>2 DEF PlanUnchanged, PlanInv, LeaseFits
    <3> QED BY <1>0, <3>1 DEF LeaseFits
  <2> QED BY <2>1, <2>2
<1>4. collect' \in [PlannedModules -> [held: BOOLEAN, config: Nat, intent: Nat]]
  BY <1>0 DEF PlanInv, PlanTyped
<1> QED BY <1>0, <1>1, <1>2, <1>3, <1>4, QuietPlan

LEMMA LeaseStep ==
    ASSUME PlanInv, NEW m \in PlannedModules, Collects(m) \/ Stored(m) \/ Dropped(m)
    PROVE  PlanInv' /\ StoredAsConfigured /\ GatesKeepTheirValue
<1>0. /\ UNCHANGED <<stage, epoch, wish, config, subsGate, jobRow, signature, plan>>
      /\ collect \in [PlannedModules -> [held: BOOLEAN, config: Nat, intent: Nat]]
      /\ jobRow \in [PlannedModules -> [active: BOOLEAN, config: Nat, intent: Nat]]
  BY DEF Collects, Stored, Dropped, PlanInv, PlanTyped
<1>1. PICK l \in [held: BOOLEAN, config: Nat, intent: Nat] :
         /\ collect' = [collect EXCEPT ![m] = l]
         /\ l.held => plan.pc = "pump" /\ l.config = jobRow[m].config /\ l.intent = jobRow[m].intent
  <2>1. CASE Collects(m)
    <3>1. [held |-> TRUE, config |-> jobRow[m].config, intent |-> jobRow[m].intent]
             \in [held: BOOLEAN, config: Nat, intent: Nat]
      BY <1>0
    <3> QED BY <2>1, <3>1 DEF Collects
  <2>2. CASE Stored(m)
    <3>1. [collect[m] EXCEPT !.held = FALSE] \in [held: BOOLEAN, config: Nat, intent: Nat]
      BY <1>0
    <3>2. collect' = [collect EXCEPT ![m] = [collect[m] EXCEPT !.held = FALSE]]
      BY <1>0, <2>2 DEF Stored
    <3>3. ~[collect[m] EXCEPT !.held = FALSE].held
      BY <1>0
    <3> QED BY <3>1, <3>2, <3>3
  <2>3. CASE Dropped(m)
    <3>1. NoLease \in [held: BOOLEAN, config: Nat, intent: Nat] /\ ~NoLease.held
      BY DEF NoLease
    <3> QED BY <2>3, <3>1 DEF Dropped
  <2> QED BY <2>1, <2>2, <2>3
<1>2. LeaseFits'
  BY <1>0, <1>1 DEF PlanInv, LeaseFits
<1>3. collect' \in [PlannedModules -> [held: BOOLEAN, config: Nat, intent: Nat]]
  BY <1>0, <1>1
<1>4. PlanInv' /\ GatesKeepTheirValue
  BY <1>0, <1>2, <1>3, QuietPlan DEF PlanInv, PlanTyped, JobsPast
<1>5. ASSUME NEW n \in PlannedModules, collect[n].held, ~collect'[n].held, collect'[n] # NoLease
      PROVE  wish[n] = [on |-> TRUE, rev |-> collect[n].intent] /\ config[n] = collect[n].config
  <2>1. n = m /\ Stored(m)
    <3>1. n = m
      BY <1>0, <1>1, <1>5
    <3>2. ~Collects(m)
      BY <1>5, <3>1 DEF Collects
    <3>3. ~Dropped(m)
      BY <1>0, <1>5, <3>1 DEF Dropped
    <3> QED BY <3>1, <3>2, <3>3
  <2>2. /\ wish[m].on /\ wish[m].rev = jobRow[m].intent /\ config[m] = jobRow[m].config
        /\ jobRow[m].intent = collect[m].intent /\ collect[m].held
    BY <2>1 DEF Stored, FenceHolds, FenceReadable
  <2>3. jobRow[m].config = collect[m].config
    BY <2>2 DEF PlanInv, LeaseFits
  <2>4. wish[m] \in [on: BOOLEAN, rev: Nat]
    BY DEF PlanInv, PlanTyped
  <2>5. wish[m] = [on |-> TRUE, rev |-> collect[m].intent]
    BY <2>2, <2>4
  <2> QED BY <2>1, <2>2, <2>3, <2>5
<1>6. StoredAsConfigured
  BY <1>5 DEF StoredAsConfigured
<1> QED BY <1>4, <1>6

\* The transaction gives every module it read a row of its intent and configuration,
\* and only then is its signature remembered.
LEMMA AppliedStep ==
    ASSUME PlanInv, PlanApplied
    PROVE  PlanInv' /\ StoredAsConfigured /\ GatesKeepTheirValue
<1>0. /\ UNCHANGED <<stage, epoch, wish, config, subsGate, collect>>
      /\ signature' = [known |-> TRUE, jobs |-> plan.jobs]
      /\ plan' = [pc |-> "pump", todo |-> {}, jobs |-> {}] /\ plan.pc = "read"
  BY DEF PlanApplied, Signed, Resting
<1>1. \A m \in PlannedModules : ~collect[m].held
  BY <1>0 DEF PlanInv, LeaseFits
<1>2. ASSUME NEW m \in PlannedModules
      PROVE  /\ jobRow'[m] \in [active: BOOLEAN, config: Nat, intent: Nat]
             /\ KeepsJob(m) => /\ jobRow'[m].active /\ jobRow'[m].config = config[m]
                               /\ jobRow'[m].intent = wish[m].rev
  <2>0. /\ jobRow[m] \in [active: BOOLEAN, config: Nat, intent: Nat]
        /\ config[m] \in Nat /\ wish[m].rev \in Nat
    BY DEF PlanInv, PlanTyped
  <2>1. jobRow'[m] = CASE KeepsJob(m) /\ UnchangedJob(m) -> jobRow[m]
             [] KeepsJob(m) /\ ~UnchangedJob(m) ->
                    [active |-> TRUE, config |-> config[m], intent |-> wish[m].rev]
             [] ~KeepsJob(m) -> [jobRow[m] EXCEPT !.active = FALSE]
    BY DEF PlanApplied
  <2>2. CASE KeepsJob(m) /\ UnchangedJob(m)
    <3>1. jobRow'[m] = jobRow[m]
      BY <2>1, <2>2
    <3> QED BY <2>0, <2>2, <3>1 DEF UnchangedJob
  <2>3. CASE KeepsJob(m) /\ ~UnchangedJob(m)
    <3>1. jobRow'[m] = [active |-> TRUE, config |-> config[m], intent |-> wish[m].rev]
      BY <2>1, <2>3
    <3> QED BY <2>0, <3>1
  <2>4. CASE ~KeepsJob(m)
    <3>1. jobRow'[m] = [jobRow[m] EXCEPT !.active = FALSE]
      BY <2>1, <2>4
    <3> QED BY <2>0, <2>4, <3>1
  <2> QED BY <2>2, <2>3, <2>4
<1>3. jobRow' \in [PlannedModules -> [active: BOOLEAN, config: Nat, intent: Nat]]
  <2>1. jobRow' = [m \in PlannedModules |-> jobRow'[m]]
    BY DEF PlanApplied
  <2> QED BY <1>2, <2>1
<1>4. PlanTyped' /\ LiveIsWished' /\ GateCut'
  BY <1>0, <1>3 DEF PlanInv, PlanTyped, LiveIsWished, GateCut
<1>5. JobsPast'
  BY <1>0 DEF PlanInv, JobsPast, JobPast
<1>6. ASSUME NEW t \in plan.jobs, JobFits(t) PROVE UnchangedJob(t[1])'
  <2>1. t[1] \in PlannedModules
    BY DEF PlanInv, PlanTyped, JobTriples
  <2>2. wish[t[1]].on /\ config[t[1]] = t[3]
    BY <1>6, <2>1 DEF PlanInv, LiveIsWished, JobFits
  <2>3. KeepsJob(t[1])
    BY <2>2 DEF KeepsJob, Retained
  <2> QED BY <1>0, <1>2, <2>1, <2>3 DEF UnchangedJob
<1>7. SignedHaveRows'
  BY <1>0, <1>6 DEF SignedHaveRows, JobFits
<1>8. LeaseFits' /\ StoredAsConfigured
  BY <1>0, <1>1 DEF LeaseFits, StoredAsConfigured
<1>9. GatesKeepTheirValue
  BY <1>0 DEF PlanInv, PlanTyped, GatesKeepTheirValue, GateCut, GateRows
<1> QED BY <1>4, <1>5, <1>7, <1>8, <1>9 DEF PlanInv

LEMMA PlanCrashStep ==
    ASSUME PlanInv, PlanCrash
    PROVE  PlanInv' /\ StoredAsConfigured /\ GatesKeepTheirValue
<1> USE DEF PlanCrash, Resting, Unsigned, NoLease
<1>1. /\ subsGate' \in [PlannedModules -> GateRows] /\ GateCut'
      /\ \A m \in PlannedModules : subsGate'[m].value = subsGate[m].value /\ ~subsGate'[m].bound
  <2>1. ASSUME NEW m \in PlannedModules
        PROVE  /\ subsGate'[m] \in GateRows /\ ~subsGate'[m].bound
               /\ subsGate'[m].value = subsGate[m].value /\ subsGate'[m].reg = subsGate[m].reg
               /\ subsGate'[m].cut = subsGate[m].cut
    <3>1. subsGate[m] \in GateRows /\ subsGate'[m] = [subsGate[m] EXCEPT !.bound = FALSE]
      BY DEF PlanInv, PlanTyped
    <3> QED BY <3>1 DEF GateRows
  <2>2. subsGate' = [m \in PlannedModules |-> subsGate'[m]]
    OBVIOUS
  <2> QED BY <2>1, <2>2 DEF PlanInv, GateCut
<1>2. PlanTyped'
  BY <1>1 DEF PlanInv, PlanTyped
<1>3. LiveIsWished' /\ JobsPast' /\ SignedHaveRows' /\ LeaseFits'
  BY DEF LiveIsWished, JobsPast, SignedHaveRows, LeaseFits
<1>4. StoredAsConfigured /\ GatesKeepTheirValue
  BY <1>1 DEF StoredAsConfigured, GatesKeepTheirValue
<1> QED BY <1>1, <1>2, <1>3, <1>4 DEF PlanInv

LEMMA PlanStep ==
    ASSUME PlanInv, PlanNext
    PROVE  PlanInv' /\ StoredAsConfigured /\ GatesKeepTheirValue
BY ModuleStep, GateStep, CycleStep, LeaseStep, AppliedStep, PlanCrashStep DEF PlanNext

LEMMA PlanStutter ==
    ASSUME PlanInv, UNCHANGED planVars
    PROVE  PlanInv'
<1> USE DEF planVars
<1>1. PlanTyped' /\ LiveIsWished' /\ LeaseFits' /\ GateCut'
  BY DEF PlanInv, PlanTyped, LiveIsWished, LeaseFits, GateCut
<1>2. JobsPast' /\ SignedHaveRows'
  BY DEF PlanInv, JobsPast, JobPast, SignedHaveRows, JobFits, UnchangedJob
<1> QED BY <1>1, <1>2 DEF PlanInv

\* The remembered jobs are those of now: each has its row.
LEMMA SignatureTrue == PlanInv => SignatureIsTruth
<1> SUFFICES ASSUME PlanInv, signature = Signed(JobsNow), NEW m \in PlannedModules, stage[m] = "on"
             PROVE  UnchangedJob(m)
  BY DEF SignatureIsTruth
<1>1. JobOf(m) \in signature.jobs
  BY DEF Signed, JobsNow
<1>2. JobFits(JobOf(m)) /\ JobOf(m)[1] = m
  BY DEF JobFits, JobOf
<1> QED BY <1>1, <1>2 DEF PlanInv, SignedHaveRows

\* CollectionScheduler's reconciliation and the declared gates, for any number of
\* modules and revisions: a skipped reconciliation was not needed, a collection is
\* stored under what it was claimed under, and a gate keeps what it was set to.
THEOREM PlanCurrent == MCSpec => PlanIsCurrent
<1> DEFINE Kept == part = "pump" => PlanInv
           Current == part = "pump" => SignatureIsTruth' /\ StoredAsConfigured /\ GatesKeepTheirValue
<1>1. MCInit => Kept
  BY PlanInitInv DEF MCInit
<1>2. Kept /\ [MCNext]_AllVars => Kept'
  BY PlanStep, PlanStutter DEF MCNext, AllVars
<1>3. ASSUME Kept, MCNext, part = "pump"
      PROVE  SignatureIsTruth' /\ StoredAsConfigured /\ GatesKeepTheirValue
  <2>1. PlanNext /\ PlanInv
    BY <1>3 DEF MCNext
  <2>2. PlanInv' /\ StoredAsConfigured /\ GatesKeepTheirValue
    BY <2>1, PlanStep
  <2>3. PlanInv' => SignatureIsTruth'
    BY SignatureTrue, PTL
  <2> QED BY <2>2, <2>3
<1>4. Kept /\ [MCNext]_AllVars => [Current]_planVars
  BY <1>3 DEF AllVars
<1> QED BY <1>1, <1>2, <1>4, PTL DEF MCSpec, PlanIsCurrent, AllVars

\* CalendarSnapshots: a task whose revision still fits carries the
\* complete text that is stored, and has waited for the cooldown of its
\* source; a write makes the revisions of the others old.

SnapshotRows == [complete: Int, floating: BOOLEAN, partial: Int, anchor: Int, retry: Int,
                 status: {"none", "interrupted", "complete", "partial", "failed"}]
SyncRecords == [pc: {"idle", "lock", "claim", "fetch"}, mode: {"due", "cold", "manual"},
                inst: Instances \cup {NoInstance}, src: CalendarSources, row: SnapshotRows,
                same: BOOLEAN]

SnapshotsTyped ==
    /\ hour \in Nat
    /\ snapshot \in [CalendarSources -> SnapshotRows]
    /\ sync \in [SyncTasks -> SyncRecords]

\* No text is from the future.
TextsPast == \A s \in CalendarSources : snapshot[s].complete <= hour

\* What a task keeps of its row while nobody else wrote it.
RowFits(x) ==
    /\ (x.same /\ x.pc \in {"claim", "fetch"}) => x.row.complete = snapshot[x.src].complete
    /\ (x.same /\ x.pc = "claim" /\ x.mode # "due") => snapshot[x.src].retry <= hour
RowsFit == \A t \in SyncTasks : RowFits(sync[t])

SnapshotsInv == SnapshotsTyped /\ TextsPast /\ RowsFit

LEMMA SnapshotsInitInv == SnapshotsInit => SnapshotsInv
<1> SUFFICES ASSUME SnapshotsInit PROVE SnapshotsInv
  OBVIOUS
<1> USE DEF SnapshotsInit, NoSnapshot, NoSync, Never, CalendarSources
<1>1. SnapshotsTyped
  BY DEF SnapshotsTyped, SnapshotRows, SyncRecords
<1>2. TextsPast /\ RowsFit
  BY DEF TextsPast, RowsFit, RowFits
<1> QED BY <1>1, <1>2 DEF SnapshotsInv

\* One task moves; of the others, those with the source it wrote are outrun.
LEMMA SyncMoves ==
    ASSUME SnapshotsInv, NEW t \in SyncTasks, NEW x \in SyncRecords, NEW others,
           UNCHANGED hour, snapshot' \in [CalendarSources -> SnapshotRows], TextsPast',
           sync' = [others EXCEPT ![t] = x], RowFits(x)',
           \/ others = sync /\ UNCHANGED snapshot
           \/ others = Outrun(t) /\ \A s \in CalendarSources \ {sync[t].src} : snapshot'[s] = snapshot[s]
    PROVE  SnapshotsInv'
<1> USE DEF SnapshotsInv, SnapshotsTyped
<1>0. \A u \in SyncTasks : [sync[u] EXCEPT !.same = FALSE] \in SyncRecords
  BY DEF SyncRecords
<1>1. others \in [SyncTasks -> SyncRecords]
  BY <1>0 DEF Outrun
<1>2. ASSUME NEW u \in SyncTasks, u # t PROVE RowFits(sync[u])'
  <2>1. sync'[u] = others[u] /\ sync[u] \in SyncRecords /\ RowFits(sync[u])
    BY <1>1, <1>2 DEF RowsFit
  <2>2. CASE others = sync /\ UNCHANGED snapshot
    BY <2>1, <2>2 DEF RowFits
  <2>3. CASE others = Outrun(t) /\ \A s \in CalendarSources \ {sync[t].src} : snapshot'[s] = snapshot[s]
    <3>1. CASE sync[u].src = sync[t].src
      <4>1. sync'[u] = [sync[u] EXCEPT !.same = FALSE]
        BY <1>2, <2>1, <2>3, <3>1 DEF Outrun
      <4>2. ~sync'[u].same
        BY <4>1, <2>1 DEF SyncRecords
      <4> QED BY <4>2 DEF RowFits
    <3>2. CASE sync[u].src # sync[t].src
      <4>1. sync'[u] = sync[u]
        BY <1>2, <2>1, <2>3, <3>2 DEF Outrun
      <4>2. snapshot'[sync[u].src] = snapshot[sync[u].src]
        BY <2>1, <2>3, <3>2 DEF SyncRecords
      <4> QED BY <2>1, <4>1, <4>2 DEF RowFits
    <3> QED BY <3>1, <3>2
  <2> QED BY <2>2, <2>3
<1>3. sync'[t] = x
  BY <1>1
<1>4. RowsFit'
  BY <1>2, <1>3 DEF RowsFit, RowFits
<1>5. SnapshotsTyped'
  BY <1>1
<1> QED BY <1>4, <1>5

\* A task that is no longer at its row leaves nothing to fit.
LEMMA SyncLeaves ==
    ASSUME NEW x \in SyncRecords, x.pc \in {"idle", "lock"}
    PROVE  RowFits(x)'
BY DEF RowFits

LEMMA NoSyncTyped == NoSync \in SyncRecords /\ NoSync.pc = "idle"
BY DEF NoSync, SyncRecords, SnapshotRows, NoSnapshot, Never, CalendarSources

\* What SourceDone makes of a task is a task that starts the next source or ends.
LEMMA SourceDoneMoves ==
    ASSUME SnapshotsInv, NEW t \in SyncTasks, NEW r, NEW others \in {sync, Outrun(t)},
           SourceDone(t, r, others)
    PROVE  \E x \in SyncRecords : x.pc \in {"idle", "lock"} /\ sync' = [others EXCEPT ![t] = x]
<1>1. others[t] = sync[t] /\ sync[t] \in SyncRecords
  BY DEF Outrun, SnapshotsInv, SnapshotsTyped
<1> DEFINE x == [others[t] EXCEPT !.pc = "lock", !.src = "fallback", !.row = NoSnapshot, !.same = FALSE]
<1>2. NoSnapshot \in SnapshotRows
  BY DEF NoSnapshot, SnapshotRows, Never
<1>3. x \in SyncRecords /\ x.pc = "lock"
  BY <1>1, <1>2 DEF SyncRecords, CalendarSources
<1>4. sync' = [others EXCEPT ![t] = x] \/ sync' = [others EXCEPT ![t] = NoSync]
  BY DEF SourceDone
<1> QED BY <1>3, <1>4, NoSyncTyped

LEMMA StartStep ==
    ASSUME SnapshotsInv, NEW t \in SyncTasks, BackgroundSync(t) \/ QueryReads(t) \/ SyncCancelled(t)
    PROVE  SnapshotsInv' /\ CompleteIsKept /\ CooldownHolds
<1>0. UNCHANGED <<hour, snapshot>>
  BY DEF BackgroundSync, QueryReads, SyncCancelled
<1>1. PICK x \in SyncRecords : x.pc \in {"idle", "lock"} /\ sync' = [sync EXCEPT ![t] = x]
  <2>1. CASE SyncCancelled(t)
    BY <2>1, NoSyncTyped DEF SyncCancelled
  <2>2. CASE BackgroundSync(t) \/ QueryReads(t)
    <3>1. PICK i \in Instances, mode \in {"due", "cold", "manual"} : Starts(t, mode, i)
      BY <2>2 DEF BackgroundSync, QueryReads
    <3>2. PICK n \in SyncRecords : n = NoSync
      BY NoSyncTyped
    <3>3. [n EXCEPT !.pc = "lock", !.mode = mode, !.inst = i] \in SyncRecords
      BY DEF SyncRecords
    <3>4. [n EXCEPT !.pc = "lock", !.mode = mode, !.inst = i].pc = "lock"
      BY DEF SyncRecords
    <3> QED BY <3>1, <3>2, <3>3, <3>4 DEF Starts
  <2> QED BY <2>1, <2>2
<1>2. TextsPast' /\ snapshot' \in [CalendarSources -> SnapshotRows]
  BY <1>0 DEF SnapshotsInv, SnapshotsTyped, TextsPast
<1>3. SnapshotsInv'
  BY <1>0, <1>1, <1>2, SyncMoves, SyncLeaves
<1>4. \A u \in SyncTasks : sync'[u].pc # "fetch" \/ sync'[u] = sync[u]
  BY <1>1 DEF SnapshotsInv, SnapshotsTyped
<1>5. CooldownHolds
  BY <1>4 DEF CooldownHolds
<1>6. CompleteIsKept
  BY <1>0 DEF CompleteIsKept, SnapshotsInv, SnapshotsTyped, SnapshotRows
<1> QED BY <1>3, <1>5, <1>6

LEMMA RowReadStep ==
    ASSUME SnapshotsInv, NEW t \in SyncTasks, RowRead(t)
    PROVE  SnapshotsInv' /\ CompleteIsKept /\ CooldownHolds
<1> DEFINE r == snapshot[sync[t].src]
           mode == sync[t].mode
<1>0. /\ UNCHANGED <<hour, snapshot>> /\ sync[t].pc = "lock" /\ sync[t] \in SyncRecords
      /\ sync[t].src \in CalendarSources /\ r \in SnapshotRows /\ hour \in Nat
      /\ sync \in [SyncTasks -> SyncRecords] /\ mode \in {"due", "cold", "manual"}
  BY DEF RowRead, SnapshotsInv, SnapshotsTyped, SyncRecords
<1>1. TextsPast' /\ snapshot' \in [CalendarSources -> SnapshotRows]
  BY <1>0 DEF SnapshotsInv, SnapshotsTyped, TextsPast
<1>2. PICK x \in SyncRecords : RowFits(x)' /\ x.pc # "fetch" /\ sync' = [sync EXCEPT ![t] = x]
  <2>1. CASE Left(mode, r)
    <3>1. SourceDone(t, r, sync)
      BY <2>1 DEF RowRead
    <3>2. PICK x \in SyncRecords : x.pc \in {"idle", "lock"} /\ sync' = [sync EXCEPT ![t] = x]
      BY <3>1, SourceDoneMoves
    <3> QED BY <3>2, SyncLeaves
  <2>2. CASE ~Left(mode, r)
    <3>1. PICK a \in Int : a = IF mode # "manual" \/ r.anchor = Never \/ hour >= DueAt(r) THEN hour ELSE r.anchor
      BY <1>0 DEF SnapshotRows
    <3>2. PICK k \in Int : k = hour + Cooldown
      BY <1>0, SnapshotsAssumption
    <3>3. PICK c \in SnapshotRows : c = ClaimRow(mode, r) /\ c.complete = r.complete
      <4>1. [r EXCEPT !.anchor = a, !.retry = k, !.status = "interrupted"] \in SnapshotRows
        BY <1>0 DEF SnapshotRows
      <4>2. [r EXCEPT !.anchor = a, !.retry = k, !.status = "interrupted"].complete = r.complete
        BY <1>0 DEF SnapshotRows
      <4> QED BY <3>1, <3>2, <4>1, <4>2 DEF ClaimRow
    <3>x. [sync[t] EXCEPT !.pc = "claim", !.row = c, !.same = TRUE] \in SyncRecords
      BY <1>0 DEF SyncRecords
    <3>y. PICK x \in SyncRecords : x = [sync[t] EXCEPT !.pc = "claim", !.row = c, !.same = TRUE]
      BY <3>x
    <3>4. sync' = [sync EXCEPT ![t] = x]
      BY <1>0, <2>2, <3>3, <3>y DEF RowRead
    <3>5. /\ x.pc = "claim" /\ x.row = c /\ x.src = sync[t].src
          /\ x.mode = mode
      BY <1>0, <3>y DEF SyncRecords
    <3>6. mode # "due" => r.retry <= hour
      BY <1>0, <2>2 DEF Left, Never, SnapshotRows
    <3>7. RowFits(x)'
      BY <1>0, <3>3, <3>5, <3>6 DEF RowFits
    <3> QED BY <3>4, <3>5, <3>7
  <2> QED BY <2>1, <2>2
<1>3. SnapshotsInv'
  BY <1>0, <1>1, <1>2, SyncMoves
<1>4. CooldownHolds
  BY <1>0, <1>2 DEF CooldownHolds
<1>5. CompleteIsKept
  BY <1>0 DEF CompleteIsKept, SnapshotsInv, SnapshotsTyped, SnapshotRows
<1> QED BY <1>3, <1>4, <1>5

LEMMA ClaimedStep ==
    ASSUME SnapshotsInv, NEW t \in SyncTasks, Claimed(t)
    PROVE  SnapshotsInv' /\ CompleteIsKept /\ CooldownHolds
<1> DEFINE s == sync[t].src
<1>0. /\ UNCHANGED hour /\ sync[t].pc = "claim" /\ sync[t] \in SyncRecords /\ RowFits(sync[t])
      /\ s \in CalendarSources /\ sync[t].row \in SnapshotRows /\ hour \in Nat
      /\ sync \in [SyncTasks -> SyncRecords] /\ snapshot \in [CalendarSources -> SnapshotRows]
  BY DEF Claimed, SnapshotsInv, SnapshotsTyped, SyncRecords, RowsFit
<1>o. Outrun(t) \in [SyncTasks -> SyncRecords] /\ Outrun(t)[t] = sync[t]
  BY <1>0 DEF Outrun, SyncRecords
<1>1. CASE sync[t].same
  <2>1. snapshot' = [snapshot EXCEPT ![s] = sync[t].row] /\ sync' = [Outrun(t) EXCEPT ![t].pc = "fetch"]
    BY <1>1 DEF Claimed, SameRevision
  <2>x. [sync[t] EXCEPT !.pc = "fetch"] \in SyncRecords
    BY <1>0 DEF SyncRecords
  <2>y. PICK x \in SyncRecords : x = [sync[t] EXCEPT !.pc = "fetch"]
    BY <2>x
  <2>2. sync' = [Outrun(t) EXCEPT ![t] = x]
    BY <1>o, <2>1, <2>y
  <2>3. x.pc = "fetch" /\ x.row = sync[t].row /\ x.src = s
    BY <1>0, <2>y DEF SyncRecords
  <2>4. sync[t].row.complete = snapshot[s].complete
    BY <1>0, <1>1 DEF RowFits
  <2>5. snapshot' \in [CalendarSources -> SnapshotRows] /\ RowFits(x)'
    BY <1>0, <2>1, <2>3 DEF RowFits
  <2>6. \A q \in CalendarSources : snapshot'[q].complete = snapshot[q].complete
    BY <1>0, <2>1, <2>4
  <2>7. TextsPast'
    BY <1>0, <2>6 DEF SnapshotsInv, TextsPast
  <2>8. SnapshotsInv'
    BY <1>0, <2>1, <2>2, <2>3, <2>5, <2>7, SyncMoves
  <2>9. CompleteIsKept
    BY <1>0, <2>6 DEF CompleteIsKept, SnapshotRows
  <2>10. \A u \in SyncTasks \ {t} : sync'[u].pc = sync[u].pc
    BY <1>0, <1>o, <2>2 DEF Outrun, SyncRecords
  <2>11. CooldownHolds
    BY <1>0, <1>1, <2>10 DEF CooldownHolds, RowFits
  <2> QED BY <2>8, <2>9, <2>11
<1>2. CASE ~sync[t].same
  <2>1. SourceDone(t, snapshot[s], sync) /\ UNCHANGED snapshot
    BY <1>2 DEF Claimed, SameRevision
  <2>2. PICK x \in SyncRecords : x.pc \in {"idle", "lock"} /\ sync' = [sync EXCEPT ![t] = x]
    BY <2>1, SourceDoneMoves
  <2>3. SnapshotsInv'
    BY <1>0, <2>1, <2>2, SyncMoves, SyncLeaves DEF SnapshotsInv, TextsPast
  <2>4. CooldownHolds
    BY <1>0, <2>2 DEF CooldownHolds
  <2>5. CompleteIsKept
    BY <1>0, <2>1 DEF CompleteIsKept, SnapshotRows
  <2> QED BY <2>3, <2>4, <2>5
<1> QED BY <1>0, <1>1, <1>2 DEF SyncRecords

LEMMA OutcomeStep ==
    ASSUME SnapshotsInv, NEW t \in SyncTasks, OutcomeStored(t)
    PROVE  SnapshotsInv' /\ CompleteIsKept /\ CooldownHolds
<1> DEFINE s == sync[t].src
<1>0. /\ UNCHANGED hour /\ sync[t].pc = "fetch" /\ sync[t] \in SyncRecords /\ RowFits(sync[t])
      /\ s \in CalendarSources /\ sync[t].row \in SnapshotRows /\ hour \in Nat
      /\ sync \in [SyncTasks -> SyncRecords] /\ snapshot \in [CalendarSources -> SnapshotRows]
  BY DEF OutcomeStored, SnapshotsInv, SnapshotsTyped, SyncRecords, RowsFit
<1>o. Outrun(t) \in [SyncTasks -> SyncRecords] /\ Outrun(t)[t] = sync[t]
  BY <1>0 DEF Outrun, SyncRecords
<1>1. CASE sync[t].same
  <2>1. PICK o \in {"complete", "floating", "partial", "failed"} :
           /\ snapshot' = [snapshot EXCEPT ![s] = Outcome(sync[t].row, o)]
           /\ SourceDone(t, Outcome(sync[t].row, o), Outrun(t))
    BY <1>1 DEF OutcomeStored, SameRevision
  <2>2. PICK x \in SyncRecords : x.pc \in {"idle", "lock"} /\ sync' = [Outrun(t) EXCEPT ![t] = x]
    BY <2>1, SourceDoneMoves
  <2>3. sync[t].row.complete = snapshot[s].complete /\ snapshot[s].complete <= hour
    BY <1>0, <1>1 DEF RowFits, SnapshotsInv, TextsPast
  <2>4. PICK q \in SnapshotRows : /\ q = Outcome(sync[t].row, o)
                                  /\ snapshot[s].complete <= q.complete /\ q.complete <= hour
    <3>a. snapshot[s].complete \in Int
      BY <1>0 DEF SnapshotRows
    <3>1. CASE o \in {"complete", "floating"}
      <4>1. PICK h \in Int : h = hour
        BY <1>0
      <4>2. PICK n \in Int : n = Never
        BY DEF Never
      <4>f. PICK f \in BOOLEAN : f = (o = "floating")
        OBVIOUS
      <4> DEFINE y == [sync[t].row EXCEPT !.complete = h, !.floating = f, !.partial = n,
                                          !.status = "complete"]
      <4>3. y \in SnapshotRows /\ y.complete = h
        BY <1>0 DEF SnapshotRows
      <4>4. y = Outcome(sync[t].row, o)
        BY <3>1, <4>1, <4>2, <4>f DEF Outcome, CompleteText
      <4>5. snapshot[s].complete <= y.complete /\ y.complete <= hour
        BY <2>3, <3>a, <4>1, <4>3
      <4> HIDE DEF y
      <4> QED BY <4>3, <4>4, <4>5
    <3>2. CASE o = "partial"
      <4>1. PICK h \in Int : h = hour
        BY <1>0
      <4> DEFINE y == [sync[t].row EXCEPT !.partial = h, !.status = "partial"]
      <4>3. y \in SnapshotRows /\ y.complete = sync[t].row.complete
        BY <1>0 DEF SnapshotRows
      <4>4. y = Outcome(sync[t].row, o)
        BY <3>2, <4>1 DEF Outcome
      <4>5. snapshot[s].complete <= y.complete /\ y.complete <= hour
        BY <2>3, <3>a, <4>3
      <4> HIDE DEF y
      <4> QED BY <4>3, <4>4, <4>5
    <3>3. CASE o = "failed"
      <4> DEFINE y == [sync[t].row EXCEPT !.status = "failed"]
      <4>3. y \in SnapshotRows /\ y.complete = sync[t].row.complete
        BY <1>0 DEF SnapshotRows
      <4>4. y = Outcome(sync[t].row, o)
        BY <3>3 DEF Outcome
      <4>5. snapshot[s].complete <= y.complete /\ y.complete <= hour
        BY <2>3, <3>a, <4>3
      <4> HIDE DEF y
      <4> QED BY <4>3, <4>4, <4>5
    <3> QED BY <3>1, <3>2, <3>3
  <2>5. snapshot' \in [CalendarSources -> SnapshotRows]
    BY <1>0, <2>1, <2>4
  <2>6. CompleteIsKept
    BY <1>0, <2>1, <2>4 DEF CompleteIsKept, SnapshotRows
  <2>7. TextsPast'
    BY <1>0, <2>1, <2>4 DEF SnapshotsInv, TextsPast
  <2>8. SnapshotsInv'
    BY <1>0, <2>1, <2>2, <2>5, <2>7, SyncMoves, SyncLeaves
  <2>9. \A u \in SyncTasks \ {t} : sync'[u].pc = sync[u].pc
    BY <1>0, <1>o, <2>2 DEF Outrun, SyncRecords
  <2>10. CooldownHolds
    BY <1>0, <2>9 DEF CooldownHolds
  <2> QED BY <2>6, <2>8, <2>10
<1>2. CASE ~sync[t].same
  <2>1. UNCHANGED snapshot /\ sync' = [sync EXCEPT ![t] = NoSync]
    BY <1>2 DEF OutcomeStored, SameRevision
  <2>2. SnapshotsInv'
    BY <1>0, <2>1, SyncMoves, SyncLeaves, NoSyncTyped DEF SnapshotsInv, TextsPast
  <2>3. CooldownHolds
    BY <1>0, <2>1 DEF CooldownHolds
  <2>4. CompleteIsKept
    BY <1>0, <2>1 DEF CompleteIsKept, SnapshotRows
  <2> QED BY <2>2, <2>3, <2>4
<1> QED BY <1>0, <1>1, <1>2 DEF SyncRecords

LEMMA HourStep ==
    ASSUME SnapshotsInv, HourPasses
    PROVE  SnapshotsInv' /\ CompleteIsKept /\ CooldownHolds
<1> USE DEF HourPasses
<1>0. hour \in Nat /\ hour' = hour + 1 /\ snapshot \in [CalendarSources -> SnapshotRows]
      /\ sync \in [SyncTasks -> SyncRecords]
  BY DEF SnapshotsInv, SnapshotsTyped
<1>1. SnapshotsTyped' /\ TextsPast'
  BY <1>0 DEF SnapshotsInv, SnapshotsTyped, TextsPast, SnapshotRows
<1>2. RowsFit'
  BY <1>0 DEF SnapshotsInv, RowsFit, RowFits, SnapshotRows, SyncRecords
<1>3. CompleteIsKept /\ CooldownHolds
  BY <1>0 DEF CompleteIsKept, CooldownHolds, SnapshotRows
<1> QED BY <1>1, <1>2, <1>3 DEF SnapshotsInv

LEMMA SnapshotsStep ==
    ASSUME SnapshotsInv, SnapshotsNext
    PROVE  SnapshotsInv' /\ CompleteIsKept /\ CooldownHolds
BY HourStep, StartStep, RowReadStep, ClaimedStep, OutcomeStep DEF SnapshotsNext

LEMMA SnapshotsStutter ==
    ASSUME SnapshotsInv, UNCHANGED snapshotVars
    PROVE  SnapshotsInv'
BY DEF snapshotVars, SnapshotsInv, SnapshotsTyped, TextsPast, RowsFit, RowFits

\* The order of the choices puts a fresh complete text before everything older, and
\* what is as new or newer has no floating times.
LEMMA FreshFound == SnapshotsInv => FreshIsFound
<1> SUFFICES ASSUME SnapshotsInv, NEW s \in CalendarSources, Serves(s),
                    \A q \in CalendarSources : ~Hides(q, snapshot[s].complete), NEW c \in Picks
             PROVE  StatusOf(c) = "complete"
  BY DEF FreshIsFound
<1> DEFINE d == [complete |-> TRUE, floating |-> snapshot[s].floating,
                 at |-> snapshot[s].complete, src |-> s]
<1>1. d \in Choices /\ c \in Choices /\ (c = d \/ ~Better(d, c))
  BY DEF Choices, Picks, Serves
<1>2. PICK q \in CalendarSources :
         \/ /\ c = [complete |-> TRUE, floating |-> snapshot[q].floating,
                    at |-> snapshot[q].complete, src |-> q]
            /\ snapshot[q].complete # Never
         \/ c = [complete |-> FALSE, floating |-> FALSE, at |-> snapshot[q].partial, src |-> q]
  BY <1>1 DEF Choices
<1>3. /\ c.at \in Int /\ snapshot[s].complete \in Int /\ hour \in Int /\ MaxAge \in Int
      /\ hour - snapshot[s].complete <= MaxAge
  <2>1. \A x \in CalendarSources : snapshot[x].complete \in Int /\ snapshot[x].partial \in Int
    BY DEF SnapshotsInv, SnapshotsTyped, SnapshotRows
  <2> QED BY <1>2, <2>1, SnapshotsAssumption DEF SnapshotsInv, SnapshotsTyped, Serves
<1>4. c.complete = TRUE /\ c.at >= snapshot[s].complete
  <2>1. CASE c = d
    BY <1>3, <2>1
  <2>2. CASE ~Better(d, c)
    <3>0. c.complete \in BOOLEAN
      <4> HIDE DEF d
      <4>1. CASE c = [complete |-> TRUE, floating |-> snapshot[q].floating,
                      at |-> snapshot[q].complete, src |-> q]
        BY <4>1
      <4>2. CASE c = [complete |-> FALSE, floating |-> FALSE, at |-> snapshot[q].partial, src |-> q]
        BY <4>2
      <4> QED BY <1>2, <4>1, <4>2
    <3>1. d.complete = TRUE /\ d.at = snapshot[s].complete
      OBVIOUS
    <3> HIDE DEF d
    <3>2. c.complete
      BY <2>2, <3>0, <3>1 DEF Better
    <3>3. c.complete = d.complete
      BY <3>0, <3>1, <3>2
    <3>4. ~(d.at > c.at)
      BY <2>2, <3>3 DEF Better
    <3> QED BY <1>3, <3>1, <3>3, <3>4
  <2> QED BY <1>1, <2>1, <2>2
<1>5. c.floating = snapshot[q].floating /\ c.at = snapshot[q].complete /\ snapshot[q].complete # Never
  BY <1>2, <1>4
<1>6. ~c.floating
  BY <1>4, <1>5 DEF Hides
<1>7. ~(hour - c.at > MaxAge)
  BY <1>3, <1>4
<1> QED BY <1>4, <1>6, <1>7 DEF StatusOf

\* CalendarSnapshots, for any number of tasks and instances: after every step a fresh
\* text is found unless one with floating times stands before it, no complete one is lost, and the cooldown holds across instances.
THEOREM SnapshotsServed == MCSpec => SnapshotsServe
<1> DEFINE Kept == part = "snapshots" => SnapshotsInv
           Served == part = "snapshots" => FreshIsFound' /\ CompleteIsKept /\ CooldownHolds
<1>1. MCInit => Kept
  BY SnapshotsInitInv DEF MCInit
<1>2. Kept /\ [MCNext]_AllVars => Kept'
  BY SnapshotsStep, SnapshotsStutter DEF MCNext, AllVars
<1>3. ASSUME Kept, MCNext, part = "snapshots"
      PROVE  FreshIsFound' /\ CompleteIsKept /\ CooldownHolds
  <2>1. SnapshotsNext /\ SnapshotsInv
    BY <1>3 DEF MCNext
  <2>2. SnapshotsInv' /\ CompleteIsKept /\ CooldownHolds
    BY <2>1, SnapshotsStep
  <2>3. SnapshotsInv' => FreshIsFound'
    BY FreshFound, PTL
  <2> QED BY <2>2, <2>3
<1>4. Kept /\ [MCNext]_AllVars => [Served]_snapshotVars
  BY <1>3 DEF AllVars
<1> QED BY <1>1, <1>2, <1>4, PTL DEF MCSpec, SnapshotsServe, AllVars

\* ModuleHealth: a field whose readiness is known and whose last change
\* was published is known as it is stored; a row that a preparation read
\* differs from the stored one only in fields that are about to be
\* published or never were, or it is older than what is known.

FieldStates == {"ok", "missing", "unknown"}
ConfigRows == [rev: Nat, set: SUBSET HealthFields]
Answers == {"none", "ok", "unavailable", "unknown"}
ProbeRecords == [at: {"idle", "loading", "probing", "publish"}, kind: {"none", "prepare", "refresh"},
                 n: Nat, gen: Nat, was: Nat, row: ConfigRows, answer: Answers]

HealthTyped ==
    /\ moduleRun \in [n: Nat, state: {"stopped", "starting", "active"}]
    /\ storedRow \in ConfigRows
    /\ known \in [rev: Nat, field: [HealthFields -> FieldStates]]
    /\ runHealth \in [n: Nat, source: Answers, gen: Nat]
    /\ probes \in Nat
    /\ publishing \in SUBSET HealthFields /\ unpublished \in SUBSET HealthFields
    /\ prober \in [HealthTasks -> ProbeRecords]

\* Runs and revisions are counted up.
HealthOrdered ==
    /\ storedRow.rev >= 1 /\ known.rev <= storedRow.rev
    /\ moduleRun.state # "stopped" => moduleRun.n >= 1
    /\ runHealth.gen <= probes
    /\ runHealth.n = 0 => runHealth.gen = 0 /\ runHealth.source = "unknown"
    /\ \A h \in HealthTasks : prober[h].n <= moduleRun.n

\* What is known and published is what is stored.
KnownHolds ==
    \A f \in HealthFields \ (publishing \cup unpublished) :
        /\ known.field[f] = "ok" => f \in storedRow.set
        /\ known.field[f] = "missing" => f \notin storedRow.set

\* What a preparation read, of a run that is still the same.
RowStands(row) ==
    /\ row.rev <= storedRow.rev
    /\ row.rev = storedRow.rev => row.set = storedRow.set
    /\ known.rev > row.rev
       \/ \A f \in HealthFields \ (publishing \cup unpublished) : f \in row.set <=> f \in storedRow.set
ReadRowsStand ==
    \A h \in HealthTasks :
        SameRun(prober[h].n) /\ prober[h].row.rev # 0 => RowStands(prober[h].row)

HealthInv == HealthTyped /\ HealthOrdered /\ KnownHolds /\ ReadRowsStand

LEMMA HealthInitInv == HealthInit => HealthInv
<1> SUFFICES ASSUME HealthInit PROVE HealthInv
  OBVIOUS
<1> USE DEF HealthInit, NoReadiness, NoRun, NoProbe
<1>1. HealthTyped
  BY DEF HealthTyped, ConfigRows, FieldStates, Answers, ProbeRecords
<1>2. HealthOrdered /\ KnownHolds /\ ReadRowsStand
  BY DEF HealthOrdered, KnownHolds, ReadRowsStand
<1> QED BY <1>1, <1>2 DEF HealthInv

LEMMA NoProbeTyped == NoProbe \in ProbeRecords /\ NoProbe.n = 0 /\ NoProbe.row.rev = 0
BY DEF NoProbe, ProbeRecords, ConfigRows, Answers

\* A coroutine moves and perhaps reserves a generation or replaces the run's record.
LEMMA ProbeMoves ==
    ASSUME HealthInv, NEW h \in HealthTasks, NEW x \in ProbeRecords,
           prober' = [prober EXCEPT ![h] = x], x.n <= moduleRun.n,
           x.row.rev = 0 \/ (x.row = prober[h].row /\ x.n = prober[h].n) \/ x.row = storedRow,
           UNCHANGED <<moduleRun, storedRow, known, publishing, unpublished>>,
           probes' \in Nat, runHealth' \in [n: Nat, source: Answers, gen: Nat],
           runHealth'.gen <= probes',
           runHealth'.n = 0 => runHealth'.gen = 0 /\ runHealth'.source = "unknown"
    PROVE  HealthInv'
<1>0. prober \in [HealthTasks -> ProbeRecords]
  BY DEF HealthInv, HealthTyped
<1>1. HealthTyped'
  BY DEF HealthInv, HealthTyped
<1>2. HealthOrdered'
  BY <1>0 DEF HealthInv, HealthOrdered
<1>3. KnownHolds'
  BY DEF HealthInv, KnownHolds
<1>4. RowStands(storedRow)
  BY DEF RowStands, HealthInv, HealthTyped, ConfigRows
<1>5. ASSUME NEW g \in HealthTasks, SameRun(prober[g].n)', prober'[g].row.rev # 0
      PROVE  RowStands(prober'[g].row)
  <2>1. CASE g # h
    BY <1>0, <1>5, <2>1 DEF HealthInv, ReadRowsStand, SameRun
  <2>2. CASE g = h
    BY <1>0, <1>4, <1>5, <2>2 DEF HealthInv, ReadRowsStand, SameRun
  <2> QED BY <2>1, <2>2
<1>6. ReadRowsStand'
  BY <1>5 DEF ReadRowsStand, RowStands
<1> QED BY <1>1, <1>2, <1>3, <1>6 DEF HealthInv

\* The run's record stays as it is.
LEMMA ProbesQuiet ==
    ASSUME HealthInv, UNCHANGED runHealth
    PROVE  ProbesStayOrdered
BY DEF ProbesStayOrdered, HealthInv, HealthTyped

LEMMA ProbeStarts ==
    ASSUME HealthInv, NEW h \in HealthTasks, Prepares(h) \/ Refreshes(h)
    PROVE  HealthInv' /\ ProbesStayOrdered
<1>0. /\ moduleRun.n \in Nat /\ moduleRun.n >= 1 /\ known.rev \in Nat /\ probes \in Nat
      /\ UNCHANGED <<moduleRun, storedRow, known, publishing, unpublished>> /\ probes' = probes + 1
      /\ runHealth \in [n: Nat, source: Answers, gen: Nat] /\ runHealth.gen <= probes
      /\ runHealth.n = 0 => runHealth.gen = 0 /\ runHealth.source = "unknown"
  BY DEF HealthInv, HealthTyped, HealthOrdered, Prepares, Refreshes
<1>1. PICK k \in Nat : k = probes + 1
  BY <1>0
<1>2. PICK n \in ProbeRecords : n = NoProbe
  BY NoProbeTyped
<1>3. CASE Prepares(h)
  <2> DEFINE y == [n EXCEPT !.at = "loading", !.kind = "prepare", !.n = moduleRun.n, !.gen = k,
                            !.was = known.rev]
  <2>0. y \in ProbeRecords /\ y.n = moduleRun.n /\ y.row = n.row
    BY <1>0 DEF ProbeRecords
  <2>1. PICK x \in ProbeRecords : x = y /\ x.n <= moduleRun.n /\ x.row.rev = 0
    <3> HIDE DEF y
    <3> QED BY <1>0, <1>2, <2>0, NoProbeTyped
  <2>2. prober' = [prober EXCEPT ![h] = x]
    BY <1>1, <1>2, <1>3, <2>1 DEF Prepares
  <2>3. runHealth' = [n |-> moduleRun.n, source |-> "unknown", gen |-> 0] /\ runHealth.n # moduleRun.n
    BY <1>3 DEF Prepares
  <2>4. /\ runHealth' \in [n: Nat, source: Answers, gen: Nat] /\ runHealth'.gen <= probes'
        /\ runHealth'.n = 0 => runHealth'.gen = 0 /\ runHealth'.source = "unknown"
        /\ probes' \in Nat
    BY <1>0, <2>3 DEF Answers
  <2>6. HealthInv'
    BY <1>0, <2>1, <2>2, <2>4, ProbeMoves
  <2>5. ProbesStayOrdered
    BY <2>3 DEF ProbesStayOrdered
  <2> QED BY <2>5, <2>6
<1>4. CASE Refreshes(h)
  <2> DEFINE y == [n EXCEPT !.at = "probing", !.kind = "refresh", !.n = moduleRun.n, !.gen = k]
  <2>0. y \in ProbeRecords /\ y.n = moduleRun.n /\ y.row = n.row
    BY <1>0 DEF ProbeRecords
  <2>1. PICK x \in ProbeRecords : x = y /\ x.n <= moduleRun.n /\ x.row.rev = 0
    <3> HIDE DEF y
    <3> QED BY <1>0, <1>2, <2>0, NoProbeTyped
  <2>2. prober' = [prober EXCEPT ![h] = x] /\ UNCHANGED runHealth
    BY <1>1, <1>2, <1>4, <2>1 DEF Refreshes
  <2>3. /\ runHealth' \in [n: Nat, source: Answers, gen: Nat] /\ runHealth'.gen <= probes'
        /\ runHealth'.n = 0 => runHealth'.gen = 0 /\ runHealth'.source = "unknown"
        /\ probes' \in Nat
    BY <1>0, <2>2
  <2>4. HealthInv'
    BY <1>0, <2>1, <2>2, <2>3, ProbeMoves
  <2> QED BY <2>2, <2>4, ProbesQuiet
<1> QED BY <1>3, <1>4

LEMMA ProbeLoads ==
    ASSUME HealthInv, NEW h \in HealthTasks, LoadsConfig(h) \/ LoadsSource(h) \/ ProbeCancelled(h)
    PROVE  HealthInv' /\ ProbesStayOrdered
<1>0. /\ UNCHANGED <<moduleRun, storedRow, known, publishing, unpublished, probes, runHealth>>
      /\ prober \in [HealthTasks -> ProbeRecords] /\ prober[h] \in ProbeRecords
      /\ prober[h].n <= moduleRun.n /\ moduleRun.n \in Nat /\ storedRow \in ConfigRows
      /\ probes \in Nat /\ runHealth \in [n: Nat, source: Answers, gen: Nat] /\ runHealth.gen <= probes
      /\ runHealth.n = 0 => runHealth.gen = 0 /\ runHealth.source = "unknown"
  BY DEF HealthInv, HealthTyped, HealthOrdered, LoadsConfig, LoadsSource, ProbeCancelled
<1>1. CASE LoadsConfig(h)
  <2>1. PICK row \in {storedRow, NoProbe.row} :
          prober' = [prober EXCEPT ![h].at = "probing", ![h].row = row]
    BY <1>1 DEF LoadsConfig
  <2>2. row \in ConfigRows
    BY <1>0, <2>1, NoProbeTyped DEF ProbeRecords
  <2> DEFINE y == [prober[h] EXCEPT !.at = "probing", !.row = row]
  <2>6. y \in ProbeRecords /\ y.n = prober[h].n /\ y.row = row
    BY <1>0, <2>2 DEF ProbeRecords
  <2>3. PICK x \in ProbeRecords : /\ x = y /\ x.n <= moduleRun.n
                                  /\ x.row.rev = 0 \/ x.row = storedRow
    <3> HIDE DEF y
    <3> QED BY <1>0, <2>1, <2>6, NoProbeTyped
  <2>4. prober' = [prober EXCEPT ![h] = x]
    BY <1>0, <2>1, <2>3
  <2>5. HealthInv'
    BY <1>0, <2>3, <2>4, ProbeMoves
  <2> QED BY <1>0, <2>5, ProbesQuiet
<1>2. CASE LoadsSource(h)
  <2>1. PICK said \in {"ok", "unavailable", "unknown"} :
          prober' = [prober EXCEPT ![h].at = "publish", ![h].answer = said]
    BY <1>2 DEF LoadsSource
  <2> DEFINE x == [prober[h] EXCEPT !.at = "publish", !.answer = said]
  <2>3. x \in ProbeRecords /\ x.n = prober[h].n /\ x.row = prober[h].row
    BY <1>0 DEF ProbeRecords, Answers
  <2>4. prober' = [prober EXCEPT ![h] = x]
    BY <1>0, <2>1
  <2> QED BY <1>0, <2>3, <2>4, ProbeMoves, ProbesQuiet
<1>3. CASE ProbeCancelled(h)
  <2>1. prober' = [prober EXCEPT ![h] = NoProbe] /\ NoProbe.n <= moduleRun.n
    BY <1>0, <1>3, NoProbeTyped DEF ProbeCancelled
  <2> QED BY <1>0, <2>1, NoProbeTyped, ProbeMoves, ProbesQuiet
<1> QED BY <1>1, <1>2, <1>3

\* The answer of the newest probe of this run becomes the run's.
LEMMA ShownProbe ==
    ASSUME HealthInv, NEW h \in HealthTasks, SameRun(prober[h].n), runHealth.n = prober[h].n,
           runHealth' = ProbeShown(h), UNCHANGED probes
    PROVE  /\ runHealth' \in [n: Nat, source: Answers, gen: Nat] /\ runHealth'.gen <= probes'
           /\ runHealth'.n = 0 => runHealth'.gen = 0 /\ runHealth'.source = "unknown"
           /\ ProbesStayOrdered
<1>0. /\ runHealth \in [n: Nat, source: Answers, gen: Nat] /\ prober[h] \in ProbeRecords
      /\ runHealth.gen <= probes /\ probes \in Nat /\ runHealth.n # 0
      /\ prober[h].gen \in Nat /\ prober[h].answer \in Answers
  BY DEF HealthInv, HealthTyped, HealthOrdered, SameRun, ProbeRecords
<1>1. CASE probes = prober[h].gen
  <2>1. runHealth' = [runHealth EXCEPT !.source = prober[h].answer, !.gen = prober[h].gen]
    BY <1>1 DEF ProbeShown
  <2>2. /\ runHealth' \in [n: Nat, source: Answers, gen: Nat] /\ runHealth'.n = runHealth.n
        /\ runHealth'.gen = probes /\ runHealth'.source = prober[h].answer
    BY <1>0, <1>1, <2>1
  <2>3. ProbesStayOrdered
    BY <1>0, <2>2 DEF ProbesStayOrdered, SameRun
  <2> QED BY <1>0, <2>2, <2>3
<1>2. CASE probes # prober[h].gen
  BY <1>0, <1>2, ProbesQuiet DEF ProbeShown
<1> QED BY <1>1, <1>2

LEMMA RefreshStep ==
    ASSUME HealthInv, NEW h \in HealthTasks, PublishesRefresh(h)
    PROVE  HealthInv' /\ ProbesStayOrdered
<1>0. /\ UNCHANGED <<moduleRun, storedRow, known, publishing, unpublished, probes>>
      /\ prober' = [prober EXCEPT ![h] = NoProbe] /\ moduleRun.n \in Nat /\ probes \in Nat
      /\ NoProbe.n <= moduleRun.n
  BY NoProbeTyped DEF HealthInv, HealthTyped, PublishesRefresh
<1>1. CASE SameRun(prober[h].n) /\ runHealth.n = prober[h].n
  <2>1. runHealth' = ProbeShown(h)
    BY <1>1 DEF PublishesRefresh
  <2> QED BY <1>0, <1>1, <2>1, ShownProbe, ProbeMoves, NoProbeTyped
<1>2. CASE ~(SameRun(prober[h].n) /\ runHealth.n = prober[h].n)
  <2>1. UNCHANGED runHealth
    BY <1>2 DEF PublishesRefresh
  <2> QED
    BY <1>0, <2>1, ProbesQuiet, ProbeMoves, NoProbeTyped DEF HealthInv, HealthTyped, HealthOrdered
<1> QED BY <1>1, <1>2

LEMMA ReadinessOf ==
    ASSUME NEW row \in ConfigRows
    PROVE  /\ Readiness(row) \in [rev: Nat, field: [HealthFields -> FieldStates]]
           /\ Readiness(row).rev = row.rev
           /\ \A f \in HealthFields : /\ Readiness(row).field[f] = "ok" <=> f \in row.set
                                      /\ Readiness(row).field[f] = "missing" <=> f \notin row.set
BY DEF Readiness, ConfigRows, FieldStates

\* The prepared readiness is what the row says where the row stands, or the known one.
LEMMA PreparedStep ==
    ASSUME HealthInv, NEW h \in HealthTasks, PublishesPrepared(h)
    PROVE  HealthInv' /\ ProbesStayOrdered
<1> DEFINE row == prober[h].row
<1>0. /\ UNCHANGED <<moduleRun, storedRow, publishing, probes>>
      /\ prober' = [prober EXCEPT ![h] = NoProbe] /\ moduleRun.n \in Nat /\ probes \in Nat
      /\ NoProbe.n <= moduleRun.n /\ publishing = {} /\ prober \in [HealthTasks -> ProbeRecords]
      /\ row \in ConfigRows /\ storedRow \in ConfigRows
      /\ known \in [rev: Nat, field: [HealthFields -> FieldStates]]
      /\ storedRow.rev >= 1 /\ known.rev <= storedRow.rev /\ unpublished \in SUBSET HealthFields
  BY NoProbeTyped DEF HealthInv, HealthTyped, HealthOrdered, PublishesPrepared, HealthGate, ProbeRecords
<1>1. CASE ~(SameRun(prober[h].n) /\ runHealth.n = prober[h].n)
  <2>1. UNCHANGED <<known, runHealth, unpublished>>
    BY <1>1 DEF PublishesPrepared
  <2> QED
    BY <1>0, <2>1, ProbesQuiet, ProbeMoves, NoProbeTyped DEF HealthInv, HealthTyped, HealthOrdered
<1>2. CASE SameRun(prober[h].n) /\ runHealth.n = prober[h].n
  <2>1. /\ known' = Prepared(h) /\ runHealth' = ProbeShown(h)
        /\ unpublished' = IF row = storedRow THEN {} ELSE unpublished
    BY <1>2 DEF PublishesPrepared
  <2>2. /\ runHealth' \in [n: Nat, source: Answers, gen: Nat] /\ runHealth'.gen <= probes'
        /\ runHealth'.n = 0 => runHealth'.gen = 0 /\ runHealth'.source = "unknown"
        /\ ProbesStayOrdered
    BY <1>0, <1>2, <2>1, ShownProbe
  <2>3. row.rev # 0 => RowStands(row)
    BY <1>2 DEF HealthInv, ReadRowsStand
  <2>4. /\ known' \in [rev: Nat, field: [HealthFields -> FieldStates]]
        /\ known'.rev >= known.rev /\ known'.rev <= storedRow.rev
        /\ KnownHolds'
        /\ row = storedRow => known'.rev = storedRow.rev
    <3>1. CASE row.rev # 0 /\ row.rev >= known.rev
      <4>1. known' = Readiness(row)
        BY <2>1, <3>1 DEF Prepared
      <4>2. RowStands(row) /\ row.rev \in Nat
        BY <1>0, <2>3, <3>1 DEF ConfigRows
      <4>3. \A f \in HealthFields \ unpublished : f \in row.set <=> f \in storedRow.set
        BY <1>0, <3>1, <4>2 DEF RowStands
      <4>4. \A f \in HealthFields \ unpublished' : f \in row.set <=> f \in storedRow.set
        BY <2>1, <4>3
      <4>5. KnownHolds'
        BY <1>0, <4>1, <4>4, ReadinessOf DEF KnownHolds
      <4> QED BY <1>0, <3>1, <4>1, <4>2, <4>5, ReadinessOf DEF RowStands
    <3>2. CASE row.rev # 0 /\ ~(row.rev >= known.rev)
      <4>1. known' = known
        BY <2>1, <3>2 DEF Prepared
      <4>2. row # storedRow
        BY <1>0, <3>2 DEF ConfigRows
      <4> QED BY <1>0, <2>1, <4>1, <4>2 DEF HealthInv, KnownHolds
    <3>3. CASE row.rev = 0
      <4>1. row # storedRow /\ unpublished' = unpublished
        BY <1>0, <2>1, <3>3
      <4>2. CASE known.rev = prober[h].was
        <5>1. known' = [rev |-> IF known.rev = 0 THEN 1 ELSE known.rev, field |-> NoReadiness.field]
          BY <2>1, <3>3, <4>2 DEF Prepared
        <5>2. \A f \in HealthFields : known'.field[f] = "unknown"
          BY <5>1 DEF NoReadiness
        <5>3. known' \in [rev: Nat, field: [HealthFields -> FieldStates]]
          BY <1>0, <5>1 DEF NoReadiness, FieldStates
        <5>4. known'.rev >= known.rev /\ known'.rev <= storedRow.rev
          BY <1>0, <5>1 DEF ConfigRows
        <5> QED BY <4>1, <5>2, <5>3, <5>4 DEF KnownHolds
      <4>3. CASE known.rev # prober[h].was
        <5>1. known' = known
          BY <2>1, <3>3, <4>3 DEF Prepared
        <5> QED BY <1>0, <4>1, <5>1 DEF HealthInv, KnownHolds
      <4> QED BY <4>2, <4>3
    <3> QED BY <3>1, <3>2, <3>3
  <2>5. HealthTyped'
    BY <1>0, <2>1, <2>2, <2>4, NoProbeTyped DEF HealthInv, HealthTyped
  <2>6. HealthOrdered'
    BY <1>0, <2>2, <2>4, NoProbeTyped DEF HealthInv, HealthOrdered
  <2>7. ASSUME NEW g \in HealthTasks, SameRun(prober[g].n)', prober'[g].row.rev # 0
        PROVE  RowStands(prober[g].row)'
    <3>1. g # h /\ prober'[g] = prober[g]
      BY <1>0, <2>7, NoProbeTyped
    <3>2. RowStands(prober[g].row) /\ prober[g].row \in ConfigRows
      BY <1>0, <2>7, <3>1 DEF HealthInv, ReadRowsStand, SameRun, ProbeRecords
    <3>3. CASE row = storedRow
      BY <1>0, <2>4, <3>1, <3>2, <3>3 DEF RowStands, ConfigRows
    <3>4. CASE row # storedRow
      BY <1>0, <2>1, <2>4, <3>1, <3>2, <3>4 DEF RowStands, ConfigRows
    <3> QED BY <3>3, <3>4
  <2>8. ReadRowsStand'
    BY <2>7 DEF ReadRowsStand
  <2> QED BY <2>2, <2>4, <2>5, <2>6, <2>8 DEF HealthInv
<1> QED BY <1>1, <1>2

\* The configuration row or the readiness moves, outside of runs and probes.
LEMMA ConfigMoves ==
    ASSUME HealthInv, UNCHANGED <<moduleRun, runHealth, probes, prober>>,
           storedRow' \in ConfigRows, known' \in [rev: Nat, field: [HealthFields -> FieldStates]],
           publishing' \in SUBSET HealthFields, unpublished' \in SUBSET HealthFields,
           storedRow'.rev >= storedRow.rev, known'.rev <= storedRow'.rev, KnownHolds',
           \A row \in ConfigRows : RowStands(row) => RowStands(row)'
    PROVE  HealthInv' /\ ProbesStayOrdered
<1>1. HealthTyped'
  BY DEF HealthInv, HealthTyped
<1>2. HealthOrdered'
  BY DEF HealthInv, HealthOrdered, HealthTyped, ConfigRows
<1>3. ASSUME NEW h \in HealthTasks, SameRun(prober[h].n)', prober'[h].row.rev # 0
      PROVE  RowStands(prober[h].row)'
  <2>1. PICK row \in ConfigRows : row = prober[h].row
    BY DEF HealthInv, HealthTyped, ProbeRecords
  <2>2. RowStands(row)
    BY <1>3, <2>1 DEF HealthInv, ReadRowsStand, SameRun
  <2>3. RowStands(row)' /\ row = prober'[h].row
    BY <2>1, <2>2
  <2> QED BY <2>3 DEF RowStands
<1>4. ReadRowsStand'
  BY <1>3 DEF ReadRowsStand
<1> QED BY <1>1, <1>2, <1>4, ProbesQuiet DEF HealthInv

LEMMA UpdateStep ==
    ASSUME HealthInv, UpdateStores \/ LegacyCopied \/ UpdatePublished \/ UpdateUnpublished
    PROVE  HealthInv' /\ ProbesStayOrdered
<1>0. /\ UNCHANGED <<moduleRun, runHealth, probes, prober>>
      /\ storedRow \in ConfigRows /\ known \in [rev: Nat, field: [HealthFields -> FieldStates]]
      /\ publishing \in SUBSET HealthFields /\ unpublished \in SUBSET HealthFields
      /\ known.rev <= storedRow.rev /\ storedRow.rev \in Nat /\ known.rev \in Nat
      /\ storedRow.rev >= 1 /\ storedRow.set \in SUBSET HealthFields
  BY DEF HealthInv, HealthTyped, HealthOrdered, UpdateStores, LegacyCopied, UpdatePublished,
     UpdateUnpublished, ConfigRows
<1>1. CASE UpdateStores \/ LegacyCopied
  <2>1. PICK set \in SUBSET HealthFields :
          /\ storedRow' = [rev |-> storedRow.rev + 1, set |-> set]
          /\ (set \ storedRow.set) \cup (storedRow.set \ set) \subseteq publishing' \cup unpublished'
          /\ publishing' \cup unpublished' \in SUBSET HealthFields
          /\ publishing \cup unpublished \subseteq publishing' \cup unpublished'
    <3>1. CASE UpdateStores
      <4>1. PICK set \in SUBSET HealthFields, f \in HealthFields :
              /\ storedRow' = [rev |-> storedRow.rev + 1, set |-> set]
              /\ publishing' = {f} \cup (set \ storedRow.set) \cup (storedRow.set \ set)
        BY <3>1 DEF UpdateStores
      <4>2. publishing = {} /\ unpublished' = unpublished
        BY <3>1 DEF UpdateStores, HealthGate
      <4> QED BY <1>0, <4>1, <4>2
    <3>2. CASE LegacyCopied
      <4>1. PICK f \in HealthFields \ storedRow.set :
              /\ storedRow' = [rev |-> storedRow.rev + 1, set |-> storedRow.set \cup {f}]
              /\ unpublished' = unpublished \cup {f}
        BY <3>2 DEF LegacyCopied
      <4>2. publishing' = publishing
        BY <3>2 DEF LegacyCopied
      <4>3. storedRow.set \cup {f} \in SUBSET HealthFields
        BY <1>0
      <4> QED BY <1>0, <4>1, <4>2, <4>3
    <3> QED BY <1>1, <3>1, <3>2
  <2>2. UNCHANGED known
    BY <1>1 DEF UpdateStores, LegacyCopied
  <2>3. storedRow' \in ConfigRows /\ storedRow'.rev = storedRow.rev + 1 /\ storedRow'.set = set
    BY <1>0, <2>1 DEF ConfigRows
  <2>4. \A f \in HealthFields \ (publishing' \cup unpublished') :
           (f \in set <=> f \in storedRow.set) /\ f \notin publishing \cup unpublished
    BY <2>1
  <2>5. KnownHolds'
    BY <2>2, <2>3, <2>4 DEF HealthInv, KnownHolds
  <2>6. ASSUME NEW row \in ConfigRows, RowStands(row) PROVE RowStands(row)'
    BY <1>0, <2>2, <2>3, <2>4, <2>6 DEF RowStands, ConfigRows
  <2> QED BY <1>0, <2>1, <2>2, <2>3, <2>5, <2>6, ConfigMoves
<1>2. CASE UpdatePublished
  <2>0. UNCHANGED storedRow /\ known' = Merged(publishing) /\ unpublished' = unpublished \ publishing /\ publishing' = {}
    BY <1>2 DEF UpdatePublished
  <2>1. known' \in [rev: Nat, field: [HealthFields -> FieldStates]] /\ known'.rev = storedRow.rev
    <3>1. CASE known.rev = 0
      BY <1>0, <2>0, <3>1, ReadinessOf DEF Merged
    <3>2. CASE known.rev # 0
      BY <1>0, <2>0, <3>2, ReadinessOf DEF Merged
    <3> QED BY <3>1, <3>2
  <2>2. ASSUME NEW f \in HealthFields \ (publishing' \cup unpublished')
        PROVE  /\ known'.field[f] = "ok" => f \in storedRow.set
               /\ known'.field[f] = "missing" => f \notin storedRow.set
    <3>1. CASE known.rev = 0 \/ f \in publishing
      <4>1. known'.field[f] = Readiness(storedRow).field[f]
        BY <1>0, <2>0, <3>1 DEF Merged
      <4> QED BY <1>0, <4>1, ReadinessOf
    <3>2. CASE known.rev # 0 /\ f \notin publishing
      <4>1. known'.field[f] = known.field[f] /\ f \notin publishing \cup unpublished
        BY <1>0, <2>0, <2>2, <3>2 DEF Merged
      <4> QED BY <4>1 DEF HealthInv, KnownHolds
    <3> QED BY <3>1, <3>2
  <2>3. KnownHolds'
    BY <2>0, <2>2 DEF KnownHolds
  <2>4. ASSUME NEW row \in ConfigRows, RowStands(row) PROVE RowStands(row)'
    BY <1>0, <2>0, <2>1, <2>4 DEF RowStands, ConfigRows
  <2> QED BY <1>0, <2>0, <2>1, <2>3, <2>4, ConfigMoves
<1>3. CASE UpdateUnpublished
  <2>0. UNCHANGED <<storedRow, known>> /\ unpublished' = unpublished \cup publishing /\ publishing' = {}
    BY <1>3 DEF UpdateUnpublished
  <2>1. KnownHolds'
    BY <2>0 DEF HealthInv, KnownHolds
  <2>2. ASSUME NEW row \in ConfigRows, RowStands(row) PROVE RowStands(row)'
    BY <2>0, <2>2 DEF RowStands
  <2> QED BY <1>0, <2>0, <2>1, <2>2, ConfigMoves
<1> QED BY <1>1, <1>2, <1>3

LEMMA RunStep ==
    ASSUME HealthInv, StartsRun \/ BecomesActive \/ StopsRun \/ Forgotten
    PROVE  HealthInv' /\ ProbesStayOrdered
<1>0. /\ moduleRun \in [n: Nat, state: {"stopped", "starting", "active"}]
      /\ \A h \in HealthTasks : prober[h].n <= moduleRun.n /\ prober[h].n \in Nat
      /\ UNCHANGED <<storedRow, probes, publishing, prober>>
  BY DEF HealthInv, HealthTyped, HealthOrdered, ProbeRecords, StartsRun, BecomesActive, StopsRun, Forgotten
<1>1. CASE StartsRun \/ BecomesActive \/ StopsRun
  <2>1. UNCHANGED <<known, runHealth, unpublished>>
    BY <1>1 DEF StartsRun, BecomesActive, StopsRun
  <2>2. /\ moduleRun' \in [n: Nat, state: {"stopped", "starting", "active"}]
        /\ moduleRun'.n >= moduleRun.n
        /\ moduleRun'.state # "stopped" => moduleRun'.n >= 1
        /\ \A h \in HealthTasks : SameRun(prober[h].n)' => SameRun(prober[h].n)
    <3>1. CASE StartsRun
      BY <1>0, <3>1 DEF StartsRun, SameRun
    <3>2. CASE BecomesActive \/ StopsRun
      BY <1>0, <3>2 DEF BecomesActive, StopsRun, SameRun, HealthInv, HealthOrdered
    <3> QED BY <1>1, <3>1, <3>2
  <2>3. HealthTyped' /\ HealthOrdered'
    BY <1>0, <2>1, <2>2 DEF HealthInv, HealthTyped, HealthOrdered
  <2>4. KnownHolds' /\ ReadRowsStand'
    BY <1>0, <2>1, <2>2 DEF HealthInv, KnownHolds, ReadRowsStand, RowStands
  <2> QED BY <2>1, <2>3, <2>4, ProbesQuiet DEF HealthInv
<1>2. CASE Forgotten
  <2>1. /\ UNCHANGED moduleRun /\ moduleRun.state = "stopped"
        /\ known' = NoReadiness /\ runHealth' = NoRun /\ unpublished' = {}
    BY <1>2 DEF Forgotten
  <2>2. HealthTyped' /\ HealthOrdered'
    BY <1>0, <2>1 DEF HealthInv, HealthTyped, HealthOrdered, NoReadiness, NoRun, FieldStates, Answers, ConfigRows
  <2>3. KnownHolds' /\ ReadRowsStand'
    BY <1>0, <2>1 DEF KnownHolds, ReadRowsStand, SameRun, NoReadiness
  <2>4. ProbesStayOrdered
    BY <2>1 DEF ProbesStayOrdered, NoRun, HealthInv, HealthOrdered
  <2> QED BY <2>2, <2>3, <2>4 DEF HealthInv
<1> QED BY <1>1, <1>2

LEMMA HealthStep ==
    ASSUME HealthInv, HealthNext
    PROVE  HealthInv' /\ ProbesStayOrdered
BY ProbeStarts, ProbeLoads, RefreshStep, PreparedStep, UpdateStep, RunStep DEF HealthNext

LEMMA HealthStutter ==
    ASSUME HealthInv, UNCHANGED healthVars
    PROVE  HealthInv'
BY DEF healthVars, HealthInv, HealthTyped, HealthOrdered, KnownHolds, ReadRowsStand, RowStands, SameRun

\* What admission finds is what is stored, up to the fields nobody published.
LEMMA HealthTrue == HealthInv => HealthTellsTruth
<1> SUFFICES ASSUME HealthInv, publishing = {} PROVE
        /\ Effective = "available" => HealthFields \ unpublished \subseteq storedRow.set
        /\ Effective = "configuration_missing" =>
              \E f \in HealthFields : known.field[f] = "missing" /\ f \notin storedRow.set \ unpublished
  BY DEF HealthTellsTruth, HealthGate
<1>0. \A f \in HealthFields : known.field[f] \in FieldStates
  BY DEF HealthInv, HealthTyped
<1>1. ASSUME Effective = "available" PROVE HealthFields \ unpublished \subseteq storedRow.set
  <2>1. \A f \in HealthFields : known.field[f] # "missing" /\ known.field[f] # "unknown"
    BY <1>1 DEF Effective
  <2> QED BY <1>0, <2>1 DEF FieldStates, HealthInv, KnownHolds
<1>2. ASSUME Effective = "configuration_missing"
      PROVE  \E f \in HealthFields : known.field[f] = "missing" /\ f \notin storedRow.set \ unpublished
  <2>1. PICK f \in HealthFields : known.field[f] = "missing"
    BY <1>2 DEF Effective
  <2> QED BY <2>1 DEF HealthInv, KnownHolds
<1> QED BY <1>1, <1>2

\* HealthResolver, for any number of coroutines, fields, runs and revisions: admission
\* reads the stored configuration, and the newest answer of the run's own probes.
THEOREM HealthCurrent == MCSpec => HealthIsCurrent
<1> DEFINE Kept == part = "health" => HealthInv
           Current == part = "health" => HealthTellsTruth' /\ ProbesStayOrdered
<1>1. MCInit => Kept
  BY HealthInitInv DEF MCInit
<1>2. Kept /\ [MCNext]_AllVars => Kept'
  BY HealthStep, HealthStutter DEF MCNext, AllVars
<1>3. ASSUME Kept, MCNext, part = "health"
      PROVE  HealthTellsTruth' /\ ProbesStayOrdered
  <2>1. HealthNext /\ HealthInv
    BY <1>3 DEF MCNext
  <2>2. HealthInv' /\ ProbesStayOrdered
    BY <2>1, HealthStep
  <2>3. HealthInv' => HealthTellsTruth'
    BY HealthTrue, PTL
  <2> QED BY <2>2, <2>3
<1>4. Kept /\ [MCNext]_AllVars => [Current]_healthVars
  BY <1>3 DEF AllVars
<1> QED BY <1>1, <1>2, <1>4, PTL DEF MCSpec, HealthIsCurrent, AllVars


-----------------------------------------------------------------------------
\* DigestWindows: a date that a pass over a schedule has left behind has
\* its window, or has no boundary, as long as the schedule is the one the
\* pass was about.

WindowRows == [profile: Profiles, date: Int, from: Int, to: Ticks]
Visits == [rev: Int, at: Int]
Pages == [pc: {"idle", "page", "dates"}, todo: SUBSET (Schedules \X Nat), dates: SUBSET Int,
          sub: Schedules \cup {"none"}, rev: Nat, at: Int]

\* The window of the date is stored, or its boundary does not exist.
Passed(d, p) == HasWindow(d, p) \/ Skipped(d, p)

\* A pass over revision rev of s that began at an instant and still has these dates.
PassPlanned(s, rev, at, dates) ==
    /\ rev <= schedule[s].rev
    /\ at \in FirstTick..LastTick
    /\ rev = schedule[s].rev => \A d \in DatesAt(at) \ dates : Passed(d, schedule[s].profile)

WindowsTyped ==
    /\ utcNow \in FirstTick..LastTick
    /\ wallClock \in WallClocks
    /\ schedule \in [Schedules -> [on: BOOLEAN, rev: Nat, profile: Profiles]]
    /\ windows \in SUBSET WindowRows
    /\ planner \in [page: Pages, done: [Schedules -> Visits]]

PagePlanned ==
    /\ \A c \in planner.page.todo : c[2] <= schedule[c[1]].rev
    /\ planner.page.pc = "dates" =>
          /\ planner.page.sub \in Schedules
          /\ planner.page.dates \subseteq DatesAt(planner.page.at)
          /\ PassPlanned(planner.page.sub, planner.page.rev, planner.page.at, planner.page.dates)

DonePlanned ==
    \A s \in Schedules :
        planner.done[s].rev = -1 \/ PassPlanned(s, planner.done[s].rev, planner.done[s].at, {})

WindowsInv == WindowsTyped /\ PagePlanned /\ DonePlanned /\ MembersStayInside

-----------------------------------------------------------------------------
\* Naturals have a first one.
LEMMA FirstNatural ==
    ASSUME NEW S \in SUBSET Nat, S # {}
    PROVE  \E t \in S : \A u \in S : t <= u
<1>1. PICK x \in S : \A y \in S : ~(<<y, x>> \in OpToRel(<, Nat))
  BY NatLessThanWellFounded, WFMin
<1>2. \A y \in S : ~(y < x)
  BY <1>1 DEF OpToRel
<1> QED BY <1>2

LEMMA SoonestIs ==
    ASSUME NEW S \in SUBSET Nat, S # {}
    PROVE  Soonest(S) \in S /\ \A u \in S : Soonest(S) <= u
BY FirstNatural DEF Soonest

LEMMA SoonestAbove ==
    ASSUME NEW low \in Int, NEW S \in SUBSET Int, S # {}, \A u \in S : low <= u
    PROVE  Soonest(S) \in S
<1> DEFINE T == {u - low : u \in S}
<1>0. \A u \in S : u - low \in Nat
  OBVIOUS
<1>1. T \in SUBSET Nat /\ T # {}
  BY <1>0
<1>2. PICK x \in T : \A y \in T : x <= y
  BY <1>1, FirstNatural
<1>3. PICK t \in S : x = t - low
  BY <1>2
<1>4. \A u \in S : t - low <= u - low
  BY <1>2, <1>3
<1>5. \A u \in S : t <= u
  BY <1>4
<1> QED BY <1>5 DEF Soonest

LEMMA LatestIs ==
    ASSUME NEW S \in SUBSET Ticks, S # {}
    PROVE  Latest(S) \in S
<1> USE WindowsAssumption DEF WindowsAssumption
<1> DEFINE T == {MaxTick - t : t \in S}
<1>0. \A t \in S : t \in Int /\ MaxTick \in Int /\ t <= MaxTick /\ MaxTick - t \in Nat
  BY DEF Ticks
<1>1. T \in SUBSET Nat /\ T # {}
  BY <1>0
<1>2. PICK x \in T : \A y \in T : x <= y
  BY <1>1, FirstNatural
<1>3. PICK t \in S : x = MaxTick - t
  BY <1>2
<1>4. \A u \in S : MaxTick - t <= MaxTick - u
  BY <1>2, <1>3
<1>5. \A u \in S : u <= t
  BY <1>4 DEF Ticks
<1> QED BY <1>5 DEF Latest

\* The zone data reach past the boundaries next to an instant of the clock.
LEMMA ZoneDataReach ==
    ASSUME NEW z \in WallClocks, NEW p \in Profiles, NEW t \in FirstTick..LastTick
    PROVE  \A v \in {z[t][1], z[t][1] + 1} : \E u \in Ticks :
              \/ z[u] = <<v, p.hour>> \/ z[u][1] > v
              \/ z[u][1] = v /\ z[u][2] > p.hour
BY WindowsAssumption, Zenon DEF WindowsAssumption

\* A boundary of a date around the clock is an instant of the zone data.
LEMMA BoundaryIsTick ==
    ASSUME WindowsTyped, NEW p \in Profiles, NEW t \in FirstTick..LastTick,
           NEW d \in DatesAt(t)
    PROVE  d \in Int /\ Boundary(d, p) \in Ticks
<1> USE WindowsAssumption
<1>0. /\ wallClock \in WallClocks /\ wallClock \in [Ticks -> Int \X Int] /\ t \in Ticks
      /\ wallClock[t][1] \in Int /\ d \in Int /\ d <= wallClock[t][1] + 1
  <2>1. wallClock \in WallClocks /\ wallClock \in [Ticks -> Int \X Int]
    BY DEF WindowsTyped, WindowsAssumption
  <2>2. t \in Ticks
    BY DEF WindowsAssumption, Ticks
  <2>3. wallClock[t][1] \in Int /\ Lookback \in Int
    BY <2>1, <2>2 DEF WindowsAssumption
  <2>4. d \in (wallClock[t][1] - Lookback)..(wallClock[t][1] + 1)
    BY DEF DatesAt, DateOf
  <2> QED BY <2>1, <2>2, <2>3, <2>4
<1>1. CASE Readings(d, p) # {}
  <2>1. Readings(d, p) \in SUBSET Ticks /\ Ticks \subseteq Nat
    BY DEF Readings, Ticks, WindowsAssumption
  <2>2. Soonest(Readings(d, p)) \in Ticks /\ Latest(Readings(d, p)) \in Ticks
    BY <1>1, <2>1, SoonestIs, LatestIs
  <2> QED BY <1>0, <1>1, <2>2 DEF Boundary
<1>2. CASE Readings(d, p) = {}
  <2> DEFINE After == {u \in Ticks : Earlier(<<d, p.hour>>, wallClock[u])}
  <2>1. After # {}
    <3>1. CASE d < wallClock[t][1]
      BY <1>0, <3>1 DEF Earlier
    <3>2. CASE d \in {wallClock[t][1], wallClock[t][1] + 1}
      <4>1. PICK u \in Ticks : \/ wallClock[u] = <<d, p.hour>> \/ wallClock[u][1] > d
                               \/ wallClock[u][1] = d /\ wallClock[u][2] > p.hour
        <5>1. \A v \in {wallClock[t][1], wallClock[t][1] + 1} : \E u \in Ticks :
                 \/ wallClock[u] = <<v, p.hour>> \/ wallClock[u][1] > v
                 \/ wallClock[u][1] = v /\ wallClock[u][2] > p.hour
          BY <1>0, ZoneDataReach
        <5> QED BY <3>2, <5>1
      <4>2. wallClock[u] # <<d, p.hour>>
        BY <1>2 DEF Readings
      <4> QED BY <1>0, <4>1, <4>2 DEF Earlier
    <3>3. PICK x \in Int : x = wallClock[t][1] /\ d <= x + 1
      BY <1>0
    <3>4. d < x \/ d = x \/ d = x + 1
      <4>1. d \in Int /\ x \in Int /\ d <= x + 1
        BY <1>0, <3>3
      <4> QED BY <4>1
    <3> QED BY <3>1, <3>2, <3>3, <3>4
  <2>2. After \in SUBSET Nat
    BY DEF Ticks, WindowsAssumption
  <2>3. Soonest(After) \in Ticks
    BY <2>1, <2>2, SoonestIs
  <2> QED BY <1>0, <1>2, <2>3 DEF Boundary, AfterGap
<1> QED BY <1>1, <1>2

LEMMA WindowsInitInv == WindowsInit => WindowsInv
<1> SUFFICES ASSUME WindowsInit PROVE WindowsInv
  OBVIOUS
<1> USE WindowsAssumption DEF WindowsInit, NoPage, Seen
<1>1. WindowsTyped
  <2>1. utcNow \in FirstTick..LastTick /\ wallClock \in WallClocks
    BY DEF WindowsAssumption, Ticks
  <2>2. schedule \in [Schedules -> [on: BOOLEAN, rev: Nat, profile: Profiles]]
    <3>1. ASSUME NEW r \in [on: {TRUE}, rev: {0}, profile: Profiles]
          PROVE  r \in [on: BOOLEAN, rev: Nat, profile: Profiles]
      <4>1. PICK p \in Profiles : r = [on |-> TRUE, rev |-> 0, profile |-> p]
        OBVIOUS
      <4> QED BY <4>1
    <3>2. schedule \in [Schedules -> [on: {TRUE}, rev: {0}, profile: Profiles]]
      OBVIOUS
    <3> HIDE DEF WindowsInit
    <3> QED BY <3>1, <3>2
  <2> QED BY <2>1, <2>2 DEF WindowsTyped, Pages, Visits
<1>2. PagePlanned /\ DonePlanned /\ MembersStayInside
  BY DEF PagePlanned, DonePlanned, MembersStayInside
<1> QED BY <1>1, <1>2 DEF WindowsInv

\* Windows are only added: what is passed stays passed under the same zone data.
LEMMA PassKept ==
    ASSUME WindowsTyped, windows \subseteq windows', UNCHANGED wallClock, NEW s \in Schedules,
           \/ schedule'[s].rev = schedule[s].rev /\ schedule'[s].profile = schedule[s].profile
           \/ schedule'[s].rev = schedule[s].rev + 1,
           NEW rev \in Int, NEW at, NEW dates, PassPlanned(s, rev, at, dates)
    PROVE  PassPlanned(s, rev, at, dates)'
<1>0. schedule[s].rev \in Nat
  BY DEF WindowsTyped
<1>1. \A d, p : Passed(d, p) => Passed(d, p)'
  BY DEF Passed, HasWindow, Skipped, Readings
<1>2. DatesAt(at)' = DatesAt(at)
  BY DEF DatesAt, DateOf
<1> QED BY <1>0, <1>1, <1>2 DEF PassPlanned

\* Schedules, clock and events, beside the planner.
LEMMA AroundPlanner ==
    ASSUME WindowsInv, WindowsTyped', windows \subseteq windows', UNCHANGED <<wallClock, planner>>,
           MembersStayInside',
           \A s \in Schedules :
              \/ schedule'[s].rev = schedule[s].rev /\ schedule'[s].profile = schedule[s].profile
              \/ schedule'[s].rev = schedule[s].rev + 1
    PROVE  WindowsInv'
<1>0. /\ planner \in [page: Pages, done: [Schedules -> Visits]] /\ planner.page \in Pages
      /\ schedule \in [Schedules -> [on: BOOLEAN, rev: Nat, profile: Profiles]] /\ WindowsTyped
  BY DEF WindowsInv, WindowsTyped
<1>1. PagePlanned'
  <2>1. \A c \in planner.page.todo : c[2] <= schedule'[c[1]].rev
    BY <1>0 DEF WindowsInv, PagePlanned, Pages
  <2>2. ASSUME planner.page.pc = "dates"
        PROVE  /\ planner.page.sub \in Schedules
               /\ planner.page.dates \subseteq DatesAt(planner.page.at)'
               /\ PassPlanned(planner.page.sub, planner.page.rev, planner.page.at, planner.page.dates)'
    <3>1. PICK s \in Schedules, rev \in Int, at \in Int, dates \in SUBSET Int :
            /\ s = planner.page.sub /\ rev = planner.page.rev /\ at = planner.page.at
            /\ dates = planner.page.dates /\ PassPlanned(s, rev, at, dates)
            /\ dates \subseteq DatesAt(at)
      BY <1>0, <2>2 DEF WindowsInv, PagePlanned, Pages
    <3>2. PassPlanned(s, rev, at, dates)'
      BY <1>0, <3>1, PassKept
    <3>3. DatesAt(at)' = DatesAt(at)
      BY DEF DatesAt, DateOf
    <3> QED BY <3>1, <3>2, <3>3 DEF PassPlanned
  <2> QED BY <2>1, <2>2 DEF PagePlanned
<1>2. ASSUME NEW s \in Schedules, planner.done[s].rev # -1
      PROVE  PassPlanned(s, planner.done[s].rev, planner.done[s].at, {})'
  <2>1. PICK rev \in Int, at \in Int :
          rev = planner.done[s].rev /\ at = planner.done[s].at /\ PassPlanned(s, rev, at, {})
    BY <1>0, <1>2 DEF WindowsInv, DonePlanned, Visits
  <2>2. PassPlanned(s, rev, at, {})'
    BY <1>0, <2>1, PassKept
  <2> QED BY <2>1, <2>2 DEF PassPlanned
<1>3. DonePlanned'
  BY <1>2 DEF DonePlanned
<1> QED BY <1>1, <1>3 DEF WindowsInv

\* The planner moves to the page x; windows may be added.
LEMMA PageMoves ==
    ASSUME WindowsInv, NEW x \in Pages, planner' = [planner EXCEPT !.page = x],
           UNCHANGED <<utcNow, wallClock, schedule, members>>,
           windows \subseteq windows', windows' \in SUBSET WindowRows,
           \A c \in x.todo : c[2] <= schedule[c[1]].rev,
           x.pc = "dates" => /\ x.sub \in Schedules /\ x.dates \subseteq DatesAt(x.at)
                             /\ PassPlanned(x.sub, x.rev, x.at, x.dates)'
    PROVE  WindowsInv'
<1>0. /\ planner \in [page: Pages, done: [Schedules -> Visits]] /\ WindowsTyped
      /\ planner' \in [page: Pages, done: [Schedules -> Visits]]
      /\ planner'.page = x /\ planner'.done = planner.done
  BY DEF WindowsInv, WindowsTyped
<1>1. WindowsTyped'
  BY <1>0 DEF WindowsTyped
<1>2. DatesAt(x.at)' = DatesAt(x.at)
  BY DEF DatesAt, DateOf
<1>3. PagePlanned'
  BY <1>0, <1>2 DEF PagePlanned, PassPlanned
<1>4. ASSUME NEW s \in Schedules, planner.done[s].rev # -1
      PROVE  PassPlanned(s, planner.done[s].rev, planner.done[s].at, {})'
  <2>1. PICK rev \in Int, at \in Int :
          rev = planner.done[s].rev /\ at = planner.done[s].at /\ PassPlanned(s, rev, at, {})
    BY <1>0, <1>4 DEF WindowsInv, DonePlanned, Visits
  <2>2. PassPlanned(s, rev, at, {})'
    BY <1>0, <2>1, PassKept
  <2> QED BY <1>0, <2>1, <2>2 DEF PassPlanned
<1>5. DonePlanned'
  BY <1>0, <1>4 DEF DonePlanned
<1>6. MembersStayInside'
  BY DEF WindowsInv, MembersStayInside
<1> QED BY <1>1, <1>3, <1>5, <1>6 DEF WindowsInv

LEMMA PageStep ==
    ASSUME WindowsInv, PageListed \/ CandidateTaken \/ CandidateLeft \/ PageDone
    PROVE  WindowsInv'
<1>0. /\ planner \in [page: Pages, done: [Schedules -> Visits]] /\ planner.page \in Pages
      /\ schedule \in [Schedules -> [on: BOOLEAN, rev: Nat, profile: Profiles]] /\ WindowsTyped
      /\ windows \in SUBSET WindowRows /\ UNCHANGED <<utcNow, wallClock, schedule, windows, members>>
      /\ \A c \in planner.page.todo : c[2] <= schedule[c[1]].rev
      /\ planner.page.todo \in SUBSET (Schedules \X Nat)
  BY DEF WindowsInv, WindowsTyped, PagePlanned, PageListed, CandidateTaken, CandidateLeft, PageDone, Pages
<1>1. PICK n \in Pages : n = NoPage /\ n.pc = "idle" /\ n.todo = {}
  <2>1. NoPage \in Pages /\ NoPage.pc = "idle" /\ NoPage.todo = {}
    BY DEF NoPage, Pages
  <2> QED BY <2>1
<1>2. CASE PageListed
  <2> DEFINE todo == {<<s, schedule[s].rev>> : s \in {x \in Schedules : schedule[x].on}}
             y == [n EXCEPT !.pc = "page", !.todo = todo]
  <2>1. todo \in SUBSET (Schedules \X Nat) /\ \A c \in todo : c[2] <= schedule[c[1]].rev
    BY <1>0
  <2>2. planner' = [planner EXCEPT !.page = y]
    BY <1>1, <1>2 DEF PageListed
  <2>3. y \in Pages /\ y.pc = "page" /\ y.todo = todo
    <3> HIDE DEF todo
    <3> QED BY <2>1 DEF Pages
  <2>4. PICK x \in Pages : x = y /\ x.pc = "page" /\ x.todo = todo
    <3> HIDE DEF y
    <3> QED BY <2>3
  <2> HIDE DEF todo, y
  <2> QED BY <1>0, <2>1, <2>2, <2>4, PageMoves
<1>3. CASE CandidateLeft
  <2> DEFINE y == [n EXCEPT !.pc = "page", !.todo = planner.page.todo]
  <2>1. planner' = [planner EXCEPT !.page = y]
    BY <1>1, <1>3 DEF CandidateLeft
  <2>2. y \in Pages /\ y.pc = "page" /\ y.todo = planner.page.todo
    BY <1>0 DEF Pages
  <2>3. PICK x \in Pages : x = y /\ x.pc = "page" /\ x.todo = planner.page.todo
    <3> HIDE DEF y
    <3> QED BY <2>2
  <2> HIDE DEF y
  <2> QED BY <1>0, <2>1, <2>3, PageMoves
<1>4. CASE PageDone
  <2>1. planner' = [planner EXCEPT !.page = n]
    BY <1>1, <1>4 DEF PageDone
  <2> QED BY <1>0, <1>1, <2>1, PageMoves
<1>5. CASE CandidateTaken
  <2>1. PICK c \in planner.page.todo :
          planner' = [planner EXCEPT !.page =
              IF CandidateCurrent(c)
              THEN [pc |-> "dates", todo |-> planner.page.todo \ {c}, dates |-> DatesAt(utcNow),
                    sub |-> c[1], rev |-> c[2], at |-> utcNow]
              ELSE [planner.page EXCEPT !.todo = planner.page.todo \ {c}]]
    BY <1>0, <1>5 DEF CandidateTaken, ThisPage
  <2>2. c[1] \in Schedules /\ c[2] \in Nat /\ c[2] <= schedule[c[1]].rev
    BY <1>0
  <2>3. CASE CandidateCurrent(c)
    <3> DEFINE y == [pc |-> "dates", todo |-> planner.page.todo \ {c}, dates |-> DatesAt(utcNow),
                     sub |-> c[1], rev |-> c[2], at |-> utcNow]
    <3>1. planner' = [planner EXCEPT !.page = y]
      BY <2>1, <2>3
    <3>2. utcNow \in FirstTick..LastTick /\ utcNow \in Int /\ DatesAt(utcNow) \in SUBSET Int
      BY WindowsAssumption DEF WindowsInv, WindowsTyped, DatesAt, WindowsAssumption, Ticks
    <3>3. y \in Pages
      BY <1>0, <2>2, <3>2 DEF Pages
    <3>4. /\ y.pc = "dates" /\ y.todo = planner.page.todo \ {c} /\ y.dates = DatesAt(utcNow)
          /\ y.sub = c[1] /\ y.rev = c[2] /\ y.at = utcNow
      OBVIOUS
    <3>5. PICK x \in Pages : x = y
      <4> HIDE DEF y
      <4> QED BY <3>3
    <3> HIDE DEF y
    <3>6. PassPlanned(x.sub, x.rev, x.at, x.dates)'
      BY <1>0, <2>2, <3>2, <3>4, <3>5 DEF PassPlanned, DatesAt, DateOf
    <3>7. x.todo \subseteq planner.page.todo /\ x.sub \in Schedules /\ x.dates = DatesAt(x.at)
      BY <2>2, <3>4, <3>5
    <3> QED BY <1>0, <3>1, <3>5, <3>6, <3>7, PageMoves
  <2>4. CASE ~CandidateCurrent(c)
    <3> DEFINE y == [planner.page EXCEPT !.todo = planner.page.todo \ {c}]
    <3>1. planner' = [planner EXCEPT !.page = y]
      BY <2>1, <2>4
    <3>2. y \in Pages /\ y.pc = "page" /\ y.todo = planner.page.todo \ {c}
      BY <1>0, <1>5 DEF Pages, CandidateTaken, ThisPage
    <3>3. PICK x \in Pages : x = y /\ x.pc = "page" /\ x.todo \subseteq planner.page.todo
      <4> HIDE DEF y
      <4> QED BY <3>2
    <3> HIDE DEF y
    <3> QED BY <1>0, <3>1, <3>3, PageMoves
  <2> QED BY <2>3, <2>4
<1> QED BY <1>2, <1>3, <1>4, <1>5

\* The window of a date is stored, unless it is there or has no boundary.
LEMMA PlannedAdds ==
    ASSUME WindowsTyped, NEW t \in FirstTick..LastTick, NEW d \in DatesAt(t), NEW p \in Profiles,
           windows' = Planned(d, p), UNCHANGED wallClock
    PROVE  windows \subseteq windows' /\ windows' \in SUBSET WindowRows /\ Passed(d, p)'
<1>1. d \in Int /\ Boundary(d, p) \in Ticks
  BY BoundaryIsTick
<1>2. WindowOf(d, p) \in WindowRows
  BY <1>1, WindowsAssumption DEF WindowOf, WindowRows, WindowsAssumption, Ticks
<1>3. windows \in SUBSET WindowRows
  BY DEF WindowsTyped
<1>4. CASE Passed(d, p)
  <2>1. windows' = windows
    BY <1>4 DEF Planned, Passed
  <2> QED BY <1>3, <1>4, <2>1 DEF Passed, HasWindow, Skipped, Readings
<1>5. CASE ~Passed(d, p)
  <2>1. windows' = windows \cup {WindowOf(d, p)}
    BY <1>5 DEF Planned, Passed
  <2>2. WindowOf(d, p).profile = p /\ WindowOf(d, p).date = d
    BY DEF WindowOf
  <2>3. HasWindow(d, p)'
    BY <2>1, <2>2 DEF HasWindow
  <2> QED BY <1>2, <1>3, <2>1, <2>3 DEF Passed
<1> QED BY <1>4, <1>5

LEMMA DateStep ==
    ASSUME WindowsInv, DatePlanned
    PROVE  WindowsInv'
<1>0. /\ planner \in [page: Pages, done: [Schedules -> Visits]] /\ planner.page \in Pages
      /\ schedule \in [Schedules -> [on: BOOLEAN, rev: Nat, profile: Profiles]] /\ WindowsTyped
      /\ windows \in SUBSET WindowRows /\ UNCHANGED <<utcNow, wallClock, schedule, members>>
      /\ \A c \in planner.page.todo : c[2] <= schedule[c[1]].rev
      /\ planner.page.pc = "dates" /\ planner.page.sub \in Schedules
      /\ planner.page.dates \subseteq DatesAt(planner.page.at)
      /\ PassPlanned(planner.page.sub, planner.page.rev, planner.page.at, planner.page.dates)
      /\ planner.page.dates \in SUBSET Int
  BY DEF WindowsInv, WindowsTyped, PagePlanned, DatePlanned, Pages, ThisPage
<1>1. PICK d : d = Soonest(planner.page.dates)
  OBVIOUS
<1>2. PICK p \in Profiles : p = schedule[planner.page.sub].profile
  BY <1>0
<1>3. /\ windows' = Planned(d, p)
      /\ planner' = [planner EXCEPT !.page.dates = planner.page.dates \ {d}]
  BY <1>0, <1>1, <1>2 DEF DatePlanned, ThisPage
<1> DEFINE y == [planner.page EXCEPT !.dates = planner.page.dates \ {d}]
<1>4. planner' = [planner EXCEPT !.page = y]
  BY <1>0, <1>3
<1>5. /\ y \in Pages /\ y.pc = "dates" /\ y.todo = planner.page.todo /\ y.sub = planner.page.sub
      /\ y.rev = planner.page.rev /\ y.at = planner.page.at /\ y.dates = planner.page.dates \ {d}
  BY <1>0 DEF Pages
<1>6. PICK x \in Pages : x = y
  BY <1>5
<1> HIDE DEF y
<1>7. planner.page.at \in FirstTick..LastTick
  BY <1>0 DEF PassPlanned
<1>8. d \in DatesAt(planner.page.at)
  <2>1. PICK low \in Int, high \in Int : DatesAt(planner.page.at) = low..high
    <3>1. /\ wallClock \in [Ticks -> Int \X Int] /\ planner.page.at \in Ticks /\ Lookback \in Int
      <4>1. wallClock \in [Ticks -> Int \X Int]
        BY <1>0, WindowsAssumption DEF WindowsTyped, WindowsAssumption
      <4>2. planner.page.at \in Ticks /\ Lookback \in Int
        BY <1>7, WindowsAssumption DEF WindowsAssumption, Ticks
      <4> QED BY <4>1, <4>2
    <3>2. DateOf(planner.page.at) \in Int
      BY <3>1 DEF DateOf
    <3> QED BY <3>1, <3>2 DEF DatesAt
  <2>2. planner.page.dates # {}
    BY DEF DatePlanned, ThisPage
  <2>3. \A u \in planner.page.dates : low <= u
    BY <1>0, <2>1
  <2>4. Soonest(planner.page.dates) \in planner.page.dates
    BY <1>0, <2>2, <2>3, SoonestAbove
  <2> QED BY <1>0, <1>1, <2>4
<1>9. windows \subseteq windows' /\ windows' \in SUBSET WindowRows /\ Passed(d, p)'
  BY <1>0, <1>3, <1>7, <1>8, PlannedAdds
<1>10. PassPlanned(x.sub, x.rev, x.at, x.dates)'
  <2>1. \A e : Passed(e, p) => Passed(e, p)'
    BY <1>0, <1>9 DEF Passed, HasWindow, Skipped, Readings
  <2>3. DatesAt(x.at)' = DatesAt(x.at) /\ x.at = planner.page.at
    BY <1>0, <1>5, <1>6 DEF DatesAt, DateOf
  <2> QED BY <1>0, <1>2, <1>5, <1>6, <1>7, <1>9, <2>1, <2>3 DEF PassPlanned
<1>11. x.todo = planner.page.todo /\ x.sub \in Schedules /\ x.dates \subseteq DatesAt(x.at)
  BY <1>0, <1>5, <1>6
<1> QED BY <1>0, <1>4, <1>6, <1>9, <1>10, <1>11, PageMoves

LEMMA CandidateDoneStep ==
    ASSUME WindowsInv, CandidateDone
    PROVE  WindowsInv'
<1>0. /\ planner \in [page: Pages, done: [Schedules -> Visits]] /\ planner.page \in Pages
      /\ planner.done \in [Schedules -> Visits]
      /\ schedule \in [Schedules -> [on: BOOLEAN, rev: Nat, profile: Profiles]] /\ WindowsTyped
      /\ windows \in SUBSET WindowRows /\ UNCHANGED <<utcNow, wallClock, schedule, windows, members>>
      /\ \A c \in planner.page.todo : c[2] <= schedule[c[1]].rev
      /\ planner.page.sub \in Schedules /\ planner.page.dates = {}
      /\ PassPlanned(planner.page.sub, planner.page.rev, planner.page.at, {})
      /\ planner.page.rev \in Int /\ planner.page.at \in Int
  BY DEF WindowsInv, WindowsTyped, PagePlanned, CandidateDone, Pages, ThisPage
<1>1. PICK n \in Pages : n = NoPage
  <2>1. NoPage \in Pages
    BY DEF NoPage, Pages
  <2> QED BY <2>1
<1> DEFINE y == [n EXCEPT !.pc = "page", !.todo = planner.page.todo]
<1>2. y \in Pages /\ y.pc = "page" /\ y.todo = planner.page.todo
  BY <1>0 DEF Pages
<1>3. PICK s \in Schedules, v \in Visits :
        /\ s = planner.page.sub /\ v = [rev |-> planner.page.rev, at |-> planner.page.at]
        /\ PassPlanned(s, v.rev, v.at, {})
  <2> DEFINE u == [rev |-> planner.page.rev, at |-> planner.page.at]
  <2>1. u \in Visits /\ u.rev = planner.page.rev /\ u.at = planner.page.at
    BY <1>0 DEF Visits
  <2> HIDE DEF u
  <2>2. PassPlanned(planner.page.sub, u.rev, u.at, {})
    BY <1>0, <2>1
  <2> USE DEF u
  <2> QED BY <1>0, <2>1, <2>2
<1>4. planner' = [page |-> y, done |-> [planner.done EXCEPT ![s] = v]]
  BY <1>1, <1>3 DEF CandidateDone, ThisPage
<1>5. /\ planner' \in [page: Pages, done: [Schedules -> Visits]]
      /\ planner'.page = y /\ planner'.done = [planner.done EXCEPT ![s] = v]
  <2> HIDE DEF y
  <2> QED BY <1>0, <1>2, <1>4
<1> HIDE DEF y
<1>6. WindowsTyped'
  BY <1>0, <1>5 DEF WindowsTyped
<1>7. PagePlanned'
  BY <1>0, <1>2, <1>5 DEF PagePlanned
<1>8. \A r, rev, at : PassPlanned(r, rev, at, {}) => PassPlanned(r, rev, at, {})'
  BY <1>0 DEF PassPlanned, DatesAt, DateOf, Passed, HasWindow, Skipped, Readings
<1>9. ASSUME NEW r \in Schedules, planner'.done[r].rev # -1
      PROVE  PassPlanned(r, planner.done[r].rev, planner.done[r].at, {})'
  <2>1. PassPlanned(r, planner'.done[r].rev, planner'.done[r].at, {})
    BY <1>0, <1>3, <1>5, <1>9 DEF WindowsInv, DonePlanned
  <2>2. PICK rev, at : rev = planner'.done[r].rev /\ at = planner'.done[r].at
    OBVIOUS
  <2>3. PassPlanned(r, rev, at, {})'
    BY <1>8, <2>1, <2>2
  <2> QED BY <2>2, <2>3 DEF PassPlanned
<1>10. DonePlanned'
  BY <1>9 DEF DonePlanned
<1>11. MembersStayInside'
  BY <1>0 DEF WindowsInv, MembersStayInside
<1> QED BY <1>6, <1>7, <1>10, <1>11 DEF WindowsInv

LEMMA CrashStep ==
    ASSUME WindowsInv, PlannerCrash
    PROVE  WindowsInv'
<1>0. /\ planner \in [page: Pages, done: [Schedules -> Visits]] /\ planner.done \in [Schedules -> Visits]
      /\ WindowsTyped /\ UNCHANGED <<utcNow, schedule, windows, members>> /\ wallClock' \in WallClocks
  BY DEF WindowsInv, WindowsTyped, PlannerCrash
<1>1. NoPage \in Pages /\ NoPage.pc = "idle" /\ NoPage.todo = {}
  BY DEF NoPage, Pages
<1>2. Seen \in [Schedules -> Visits] /\ \A s \in Schedules : Seen[s].rev = -1
  BY DEF Seen, Visits
<1>3. PICK done \in [Schedules -> Visits] :
        /\ planner' = [page |-> NoPage, done |-> done]
        /\ done = Seen \/ (done = planner.done /\ wallClock' = wallClock)
  <2>1. CASE wallClock' = wallClock
    BY <1>0, <2>1 DEF PlannerCrash
  <2>2. CASE wallClock' # wallClock
    BY <1>2, <2>2 DEF PlannerCrash
  <2> QED BY <2>1, <2>2
<1>4. /\ planner' \in [page: Pages, done: [Schedules -> Visits]]
      /\ planner'.page = NoPage /\ planner'.done = done
  BY <1>1, <1>3
<1>5. WindowsTyped'
  BY <1>0, <1>4 DEF WindowsTyped
<1>6. PagePlanned'
  BY <1>1, <1>4 DEF PagePlanned
<1>7. DonePlanned'
  <2>1. CASE done = Seen
    BY <1>2, <1>4, <2>1 DEF DonePlanned
  <2>2. CASE done = planner.done /\ wallClock' = wallClock
    BY <1>0, <1>4, <2>2 DEF WindowsInv, DonePlanned, PassPlanned, DatesAt, DateOf, Passed, HasWindow,
       Skipped, Readings
  <2> QED BY <1>3, <2>1, <2>2
<1>8. MembersStayInside'
  BY <1>0 DEF WindowsInv, MembersStayInside
<1> QED BY <1>5, <1>6, <1>7, <1>8 DEF WindowsInv

\* An event joins the first window to end among those that contain its instant.
LEMMA EventStep ==
    ASSUME WindowsInv, NEW s \in Schedules, EventAssociated(s)
    PROVE  WindowsInv'
<1>0. WindowsTyped /\ UNCHANGED <<utcNow, wallClock, schedule, windows, planner>>
  BY DEF WindowsInv, EventAssociated
<1>1. PICK p \in Profiles : p = schedule[s].profile
  BY <1>0 DEF WindowsTyped
<1> DEFINE W == Containing(p, utcNow)
           T == {w.to : w \in W}
<1>2. W # {} /\ \A w \in W : w \in WindowRows /\ w.to \in Nat /\ w \in windows /\ w.profile = p
                               /\ w.from <= utcNow /\ utcNow < w.to
  <2>1. W # {}
    BY <1>1 DEF EventAssociated
  <2>2. \A w \in W : w \in windows /\ w.profile = p /\ w.from <= utcNow /\ utcNow < w.to
    BY DEF Containing
  <2>3. \A w \in windows : w \in WindowRows /\ w.to \in Nat
    BY <1>0, WindowsAssumption DEF WindowsTyped, WindowRows, Ticks, WindowsAssumption
  <2> QED BY <2>1, <2>2, <2>3
<1>3. PICK t \in T : \A u \in T : t <= u
  <2>1. T \in SUBSET Nat /\ T # {}
    BY <1>2
  <2> QED BY <2>1, FirstNatural
<1>4. \E w \in W : \A v \in W : w.to <= v.to
  BY <1>3
<1>5. PICK w \in W : w = ForSchedule(p, utcNow)
  BY <1>4 DEF ForSchedule
<1>6. members' = members \cup {[profile |-> p, at |-> utcNow, date |-> w.date]}
  BY <1>1, <1>5 DEF EventAssociated
<1>7. MembersStayInside'
  BY <1>0, <1>2, <1>6 DEF WindowsInv, MembersStayInside
<1>8. WindowsTyped'
  BY <1>0 DEF WindowsTyped
<1> QED BY <1>0, <1>7, <1>8, AroundPlanner

LEMMA ScheduleStep ==
    ASSUME WindowsInv, ClockMoves \/ \E s \in Schedules : ScheduleRevised(s) \/ ScheduleCancelled(s)
    PROVE  WindowsInv'
<1>0. /\ UNCHANGED <<wallClock, windows, members, planner>> /\ WindowsTyped
      /\ schedule \in [Schedules -> [on: BOOLEAN, rev: Nat, profile: Profiles]]
      /\ utcNow \in FirstTick..LastTick
  BY DEF WindowsInv, WindowsTyped, ClockMoves, ScheduleRevised, ScheduleCancelled
<1>1. MembersStayInside'
  BY <1>0 DEF WindowsInv, MembersStayInside
<1>2. CASE ClockMoves
  <2>1. UNCHANGED schedule /\ utcNow' \in FirstTick..LastTick
    BY <1>0, <1>2, WindowsAssumption DEF ClockMoves, WindowsAssumption, Ticks
  <2>2. WindowsTyped'
    BY <1>0, <2>1 DEF WindowsTyped
  <2> QED BY <1>0, <1>1, <2>1, <2>2, AroundPlanner
<1>3. ASSUME NEW s \in Schedules, ScheduleRevised(s) \/ ScheduleCancelled(s) PROVE WindowsInv'
  <2>0. UNCHANGED utcNow
    BY <1>3 DEF ScheduleRevised, ScheduleCancelled
  <2>1. PICK x \in [on: BOOLEAN, rev: Nat, profile: Profiles] :
          /\ schedule' = [schedule EXCEPT ![s] = x]
          /\ x.rev = schedule[s].rev + 1 \/ (x.rev = schedule[s].rev /\ x.profile = schedule[s].profile)
    <3>1. CASE ScheduleRevised(s)
      <4>1. PICK p \in Profiles :
              schedule' = [schedule EXCEPT ![s] = [on |-> TRUE, rev |-> schedule[s].rev + 1, profile |-> p]]
        BY <3>1 DEF ScheduleRevised
      <4> DEFINE y == [on |-> TRUE, rev |-> schedule[s].rev + 1, profile |-> p]
      <4>2. y \in [on: BOOLEAN, rev: Nat, profile: Profiles] /\ y.rev = schedule[s].rev + 1
        BY <1>0
      <4> HIDE DEF y
      <4>3. schedule' = [schedule EXCEPT ![s] = y]
        BY <4>1 DEF y
      <4> QED BY <4>2, <4>3
    <3>2. CASE ScheduleCancelled(s)
      <4> DEFINE y == [schedule[s] EXCEPT !.on = FALSE]
      <4>1. schedule' = [schedule EXCEPT ![s] = y]
        BY <1>0, <3>2 DEF ScheduleCancelled
      <4>2. /\ y \in [on: BOOLEAN, rev: Nat, profile: Profiles]
            /\ y.rev = schedule[s].rev /\ y.profile = schedule[s].profile
        BY <1>0
      <4> HIDE DEF y
      <4> QED BY <4>1, <4>2
    <3> QED BY <1>3, <3>1, <3>2
  <2>2. WindowsTyped'
    BY <1>0, <2>0, <2>1 DEF WindowsTyped
  <2>3. \A r \in Schedules :
          \/ schedule'[r].rev = schedule[r].rev /\ schedule'[r].profile = schedule[r].profile
          \/ schedule'[r].rev = schedule[r].rev + 1
    BY <1>0, <2>1
  <2> QED BY <1>0, <1>1, <2>2, <2>3, AroundPlanner
<1> QED BY <1>2, <1>3

LEMMA WindowsStep ==
    ASSUME WindowsInv, WindowsNext
    PROVE  WindowsInv'
BY PageStep, DateStep, CandidateDoneStep, CrashStep, EventStep, ScheduleStep DEF WindowsNext

LEMMA WindowsStutter ==
    ASSUME WindowsInv, UNCHANGED windowVars
    PROVE  WindowsInv'
BY DEF windowVars, WindowsInv, WindowsTyped, PagePlanned, DonePlanned, MembersStayInside, PassPlanned,
   DatesAt, DateOf, Passed, HasWindow, Skipped, Readings

\* The next boundary is one of a date the last pass went over, so its window is stored.
LEMMA WindowIsFound == WindowsInv => EventFindsWindow
<1> SUFFICES ASSUME WindowsInv PROVE EventFindsWindow
  OBVIOUS
<1> USE WindowsAssumption
<1>1. ASSUME NEW s \in Schedules, schedule[s].on, planner.done[s].rev = schedule[s].rev,
             DateOf(planner.done[s].at) = DateOf(utcNow), SameZone(schedule[s].profile),
             NextBoundaries(schedule[s].profile) # {},
             Soonest(NextBoundaries(schedule[s].profile)) - schedule[s].profile.length <= utcNow
      PROVE  Containing(schedule[s].profile, utcNow) # {}
  <2>1. PICK p \in Profiles : p = schedule[s].profile
    BY DEF WindowsInv, WindowsTyped
  <2>2. /\ schedule[s].rev \in Nat /\ WindowsTyped /\ utcNow \in FirstTick..LastTick
        /\ wallClock \in [Ticks -> Int \X Int] /\ utcNow \in Ticks /\ Lookback \in Nat
    BY DEF WindowsInv, WindowsTyped, WindowsAssumption, Ticks
  <2>3. PassPlanned(s, schedule[s].rev, planner.done[s].at, {})
    BY <1>1, <2>2 DEF WindowsInv, DonePlanned
  <2>4. PICK today \in Int : today = DateOf(utcNow)
    BY <2>2 DEF DateOf
  <2>5. \A d \in today..(today + 1) : d \in DatesAt(planner.done[s].at) /\ d \in DatesAt(utcNow)
    BY <1>1, <2>2, <2>4 DEF DatesAt
  <2>6. \A d \in today..(today + 1) : Passed(d, p) /\ Boundary(d, p) \in Ticks
    BY <2>1, <2>2, <2>3, <2>5, BoundaryIsTick DEF PassPlanned
  <2> DEFINE B == NextBoundaries(p)
  <2>7. \A b \in B : b \in Nat /\ utcNow < b
                     /\ \E d \in today..(today + 1) : ~Skipped(d, p) /\ b = Boundary(d, p)
    BY <2>4, <2>6 DEF NextBoundaries, Ticks, WindowsAssumption
  <2>8. Soonest(B) \in B
    <3>1. B \in SUBSET Nat /\ B # {}
      BY <1>1, <2>1, <2>7
    <3> HIDE DEF B
    <3> QED BY <3>1, SoonestIs
  <2>9. PICK d \in today..(today + 1) : ~Skipped(d, p) /\ Soonest(B) = Boundary(d, p)
    BY <2>7, <2>8
  <2>10. PICK w \in windows : w.profile = p /\ w.date = d
    BY <2>6, <2>9 DEF Passed, HasWindow
  <2>11. w = WindowOf(d, p)
    BY <1>1, <2>1, <2>10 DEF SameZone
  <2>12. w.from = Soonest(B) - p.length /\ w.to = Soonest(B)
    BY <2>9, <2>11 DEF WindowOf
  <2>13. w.from <= utcNow /\ utcNow < w.to
    BY <1>1, <2>1, <2>7, <2>8, <2>12
  <2> QED BY <2>1, <2>10, <2>13 DEF Containing
<1> QED BY <1>1 DEF EventFindsWindow

\* create_digest_windows_page, for any schedules, profiles and zone data: after a pass an
\* event finds the window planned for it, and a member stays inside its window.
THEOREM WindowsFound == MCSpec => []WindowsHold
<1> DEFINE Kept == part = "windows" => WindowsInv
<1>1. MCInit => Kept
  BY WindowsInitInv DEF MCInit
<1>2. Kept /\ [MCNext]_AllVars => Kept'
  BY WindowsStep, WindowsStutter DEF MCNext, AllVars
<1>3. Kept => WindowsHold
  BY WindowIsFound DEF WindowsHold, WindowsInv
<1> QED BY <1>1, <1>2, <1>3, PTL DEF MCSpec, AllVars

-----------------------------------------------------------------------------
\* CalendarSeries: what a group yields is what the source announces of its event,
\* so what is collected is what the groups that are done announce, unless there is
\* a warning; and a sound source costs no more than it makes the parser look at.

AnnouncedOf(U) == {x \in Announced : x.uid \in U}
LookedAt(U) == UNION {Looked(u) : u \in U}
GroupsDone == DOMAIN calendar \ reading.groups
SeriesReadings == [pc : {"read", "groups", "done"}, groups : SUBSET DOMAIN calendar,
             invalid : SUBSET DOMAIN calendar, out : SUBSET Announced, used : Nat,
             warned : BOOLEAN, complete : BOOLEAN]

SeriesInv ==
    /\ calendar \in Sources /\ reading \in SeriesReadings
    /\ reading.pc = "read" => reading = Unread
    /\ \A x \in reading.out : x.uid \notin reading.groups
    /\ reading.pc # "read" /\ ~reading.warned => AnnouncedOf(GroupsDone) \subseteq reading.out
    /\ reading.pc # "read" /\ Sound /\ WithinBudget =>
           ~reading.warned /\ reading.used <= Cardinality(LookedAt(GroupsDone))
    /\ reading.pc = "done" => reading.groups = {} /\ reading.complete = ~reading.warned

\* An event of the calendar, and one whose series is expanded.
Event(u) == calendar \in Sources /\ u \in DOMAIN calendar
Counted(C) == ~Ambiguous(C) /\ Cardinality(Masters(C)) = 1 /\ RuleAllowed(Master(C))

LEMMA EventFacts ==
    ASSUME NEW u, Event(u)
    PROVE  calendar[u] \subseteq Components /\ IsFiniteSet(calendar[u]) /\ IsFiniteSet(DOMAIN calendar)
BY SeriesAssumption DEF Event

\* The newest components are what the source says.
LEMMA NewestSays ==
    ASSUME NEW u
    PROVE  /\ Masters(calendar[u]) = Says(u, NoSlot)
           /\ \A t \in 0..Horizon : {x \in Overrides(calendar[u]) : x.rid = t} = Says(u, t)
           /\ \A t : Says(u, t) \subseteq calendar[u]
           /\ \A x \in Overrides(calendar[u]) : x \in Says(u, x.rid)
<1>1. \A t \in 0..Horizon : t # NoSlot
  BY SeriesAssumption DEF NoSlot
<1> QED BY <1>1 DEF Masters, Overrides, Newest, Says

LEMMA TargetIs ==
    ASSUME NEW u, Event(u)
    PROVE  LET t == Target(calendar[u]) IN
           /\ t \in Int /\ WindowTo <= t /\ t <= Horizon
           /\ \A o \in Overrides(calendar[u]) : o.rid <= t
<1> DEFINE ends == {WindowTo} \cup {o.rid : o \in Overrides(calendar[u])}
           S == {Horizon - t : t \in ends}
<1>1. \A t \in ends : t \in Int /\ t <= Horizon /\ Horizon - t \in Nat
  BY EventFacts, SeriesAssumption DEF Overrides, Newest, Components, NoSlot
<1>2. S \in SUBSET Nat /\ S # {}
  BY <1>1
<1>3. PICK x \in S : \A y \in S : x <= y
  BY <1>2, FirstNatural
<1>4. PICK t \in ends : x = Horizon - t
  BY <1>3
<1>5. \A w \in ends : w <= t
  <2> TAKE w \in ends
  <2>1. Horizon - w \in S
    OBVIOUS
  <2>2. Horizon - t <= Horizon - w
    BY <1>3, <1>4, <2>1
  <2> QED BY <1>1, <2>2, SeriesAssumption
<1>6. Target(calendar[u]) \in ends /\ \A w \in ends : w <= Target(calendar[u])
  BY <1>5 DEF Target
<1> QED BY <1>1, <1>6

LEMMA MasterIs ==
    ASSUME NEW u, Event(u), Cardinality(Masters(calendar[u])) = 1
    PROVE  /\ Says(u, NoSlot) = {Master(calendar[u])}
           /\ Master(calendar[u]) \in Components
<1>1. IsFiniteSet(Masters(calendar[u]))
  BY EventFacts, FS_Subset DEF Masters, Newest
<1>2. PICK m : Masters(calendar[u]) = {m}
  BY <1>1, FS_Singleton
<1>3. Master(calendar[u]) = m
  BY <1>2 DEF Master
<1> QED BY <1>2, <1>3, NewestSays, EventFacts

\* The slots of a series are those the source schedules, up to the aim.
LEMMA SlotsScheduled ==
    ASSUME NEW u, Event(u), Counted(calendar[u]), NEW t
    PROVE  /\ t \in SlotsOf(calendar[u]) => t \in 0..Horizon /\ Scheduled(u, t)
           /\ t \in 0..Horizon /\ Scheduled(u, t) /\ t <= Target(calendar[u]) => t \in SlotsOf(calendar[u])
           /\ t \in 0..Horizon /\ Scheduled(u, t) /\ t \notin SlotsOf(calendar[u]) => WindowTo < t
<1> DEFINE m == Master(calendar[u])
           aim == Target(calendar[u])
<1>1. Says(u, NoSlot) = {m} /\ m \in Components /\ m.every >= 0
  BY MasterIs DEF Counted, RuleAllowed
<1>2. aim \in Int /\ WindowTo <= aim /\ WindowTo \in Int /\ Horizon \in Nat
  BY TargetIs, SeriesAssumption
<1>3. /\ m.from \in 0..Horizon /\ m.every \in Int /\ m.until \in Int /\ m.extra \subseteq 0..Horizon
  BY <1>1 DEF Components
<1>4. SlotsOf(calendar[u]) = (RuleSlots(m, aim) \cup m.extra) \ m.except
  BY DEF SlotsOf
<1>5. Scheduled(u, t) <=>
          /\ t \notin m.except
          /\ \/ t \in m.extra
             \/ m.every <= 0 /\ t = m.from
             \/ m.every > 0 /\ m.from <= t /\ t <= m.until /\ (t - m.from) % m.every = 0
  BY <1>1 DEF Scheduled
<1>6. CASE m.every <= 0
  <2>1. RuleSlots(m, aim) = {m.from}
    BY <1>6 DEF RuleSlots
  <2>2. ~(m.every > 0)
    BY <1>3, <1>6
  <2> QED BY <1>3, <1>4, <1>5, <1>6, <2>1, <2>2
<1>7. CASE m.every > 0
  <2>1. RuleSlots(m, aim) =
            {s \in m.from..Horizon : (s - m.from) % m.every = 0 /\ s <= aim /\ s <= m.until}
    BY <1>3, <1>7 DEF RuleSlots
  <2>2. ~(m.every <= 0)
    BY <1>3, <1>7
  <2> DEFINE in == (t - m.from) % m.every = 0
  <2>3. t \in RuleSlots(m, aim) <=> t \in m.from..Horizon /\ in /\ t <= aim /\ t <= m.until
    BY <2>1
  <2>4. Scheduled(u, t) <=>
          /\ t \notin m.except
          /\ t \in m.extra \/ (m.from <= t /\ t <= m.until /\ in)
    BY <1>5, <1>7, <2>2
  <2> HIDE DEF in
  <2> QED BY <1>2, <1>3, <1>4, <2>3, <2>4
<1> HIDE DEF m, aim
<1>8. m.every <= 0 \/ m.every > 0
  BY <1>3
<1> QED BY <1>6, <1>7, <1>8

\* What stands in a slot is what the source shows there.
LEMMA OccurrenceShown ==
    ASSUME NEW u, Event(u), NEW t \in 0..Horizon
    PROVE  Occurrence(u, calendar[u], t) = Shown(u, t)
<1>1. {x \in Overrides(calendar[u]) : x.rid = t} = Says(u, t) /\ Master(calendar[u]) = Stated(u, NoSlot)
  BY NewestSays DEF Master, Stated
<1> QED BY <1>1 DEF Occurrence, Shown, Stated

LEMMA ShownTyped ==
    ASSUME NEW u, Event(u), NEW t \in 0..Horizon, Scheduled(u, t)
    PROVE  LET x == Shown(u, t) IN
           /\ x.uid = u /\ x.from \in Int /\ x.to \in Int /\ x.from <= x.to
           /\ Says(u, t) = {} => x.from = t
<1> DEFINE e == IF Says(u, t) = {} THEN [Stated(u, NoSlot) EXCEPT !.from = t] ELSE Stated(u, t)
<1>1. Says(u, NoSlot) # {} /\ Says(u, NoSlot) \subseteq Components /\ Says(u, t) \subseteq Components
  BY NewestSays, EventFacts DEF Scheduled
<1>2. e.from \in Int /\ e.long \in Nat /\ (Says(u, t) = {} => e.from = t)
  <2>1. CASE Says(u, t) # {}
    <3>1. e \in Says(u, t)
      BY <2>1 DEF Stated
    <3> QED BY <1>1, <2>1, <3>1 DEF Components
  <2>2. CASE Says(u, t) = {}
    <3>1. Stated(u, NoSlot) \in Components
      BY <1>1 DEF Stated
    <3>2. e = [Stated(u, NoSlot) EXCEPT !.from = t]
      BY <2>2
    <3> HIDE DEF e
    <3> QED BY <3>1, <3>2 DEF Components
  <2> QED BY <2>1, <2>2
<1>3. Shown(u, t) = [uid |-> u, slot |-> t, from |-> e.from, to |-> e.from + e.long, cancelled |-> e.cancelled]
  BY DEF Shown
<1> HIDE DEF e
<1> QED BY <1>2, <1>3

LEMMA IntersectsMeets ==
    ASSUME NEW x, x.from \in Int, x.to \in Int, x.from <= x.to
    PROVE  Intersects(x.from, x.to) <=> Meets(x)
<1> DEFINE s == x.from
           e == x.to
<1>0. WindowFrom \in Int /\ WindowTo \in Int /\ WindowFrom < WindowTo
  BY SeriesAssumption
<1>1. ASSUME Intersects(s, e) PROVE Meets(x)
  <2>1. CASE WindowFrom <= s
    <3>1. s \in WindowFrom..(WindowTo - 1)
      BY <1>0, <1>1, <2>1 DEF Intersects
    <3> QED BY <3>1 DEF Meets
  <2>2. CASE s < WindowFrom
    <3>1. WindowFrom \in WindowFrom..(WindowTo - 1) /\ WindowFrom < e
      BY <1>0, <1>1, <2>2 DEF Intersects
    <3> QED BY <2>2, <3>1 DEF Meets
  <2> QED BY <1>0, <2>1, <2>2
<1>2. ASSUME Meets(x) PROVE Intersects(s, e)
  <2>1. PICK t \in WindowFrom..(WindowTo - 1) : s = t \/ (s < t /\ t < e)
    BY <1>2 DEF Meets
  <2> QED BY <1>0, <2>1 DEF Intersects
<1> QED BY <1>1, <1>2

\* What a group yields is what is announced of its event.
LEMMA ExpandedIs ==
    ASSUME NEW u, Event(u), Counted(calendar[u])
    PROVE  Expanded(u, calendar[u]) = AnnouncedOf({u})
<1> DEFINE C == calendar[u]
<1>1. ASSUME NEW x \in Expanded(u, C) PROVE x \in AnnouncedOf({u})
  <2>1. PICK t \in SlotsOf(C) : x = Occurrence(u, C, t) /\ Intersects(x.from, x.to)
    BY <1>1 DEF Expanded
  <2>2. t \in 0..Horizon /\ Scheduled(u, t)
    BY SlotsScheduled
  <2>3. x = Shown(u, t) /\ <<u, t>> \in Slots
    BY <2>1, <2>2, OccurrenceShown DEF Slots, Event
  <2>4. x.uid = u /\ Meets(x)
    BY <2>1, <2>2, <2>3, ShownTyped, IntersectsMeets
  <2>5. x \in {Shown(s[1], s[2]) : s \in Slots}
    BY <2>3
  <2> QED BY <2>4, <2>5 DEF AnnouncedOf, Announced
<1>2. ASSUME NEW x \in AnnouncedOf({u}) PROVE x \in Expanded(u, C)
  <2>1. PICK s \in Slots : x = Shown(s[1], s[2]) /\ Meets(x) /\ x.uid = u
    BY <1>2 DEF AnnouncedOf, Announced
  <2>2. s[1] \in DOMAIN calendar /\ s[2] \in 0..Horizon /\ Scheduled(s[1], s[2])
    BY <2>1 DEF Slots
  <2>3. s[1] = u
    BY <2>1 DEF Shown
  <2> DEFINE t == s[2]
  <2>4. x = Shown(u, t) /\ t \in 0..Horizon /\ Scheduled(u, t)
    BY <2>1, <2>2, <2>3
  <2> HIDE DEF t
  <2>5. x.from \in Int /\ x.to \in Int /\ x.from <= x.to /\ (Says(u, t) = {} => x.from = t)
    BY <2>4, ShownTyped
  <2>6. Intersects(x.from, x.to)
    BY <2>1, <2>5, IntersectsMeets
  <2>7. x.from < WindowTo
    BY <2>5, <2>6, SeriesAssumption DEF Intersects
  <2>8. t \in SlotsOf(C)
    <3>1. CASE Says(u, t) = {}
      <4>1. ~(WindowTo < t)
        BY <2>4, <2>5, <2>7, <3>1, SeriesAssumption
      <4> QED BY <2>4, <4>1, SlotsScheduled
    <3>2. CASE Says(u, t) # {}
      <4>1. PICK o \in Overrides(C) : o.rid = t
        BY <2>4, <3>2, NewestSays
      <4>2. t <= Target(C)
        BY <4>1, TargetIs
      <4> QED BY <2>4, <4>2, SlotsScheduled
    <3> QED BY <3>1, <3>2
  <2>9. x = Occurrence(u, C, t)
    BY <2>4, OccurrenceShown
  <2> QED BY <2>6, <2>8, <2>9 DEF Expanded
<1> QED BY <1>1, <1>2

\* The image of a finite set.
LEMMA FiniteImage ==
    ASSUME NEW S, IsFiniteSet(S), NEW f, f \in [S -> {f[s] : s \in S}]
    PROVE  IsFiniteSet({f[s] : s \in S})
<1>1. f \in Surjection(S, {f[s] : s \in S})
  BY DEF Surjection
<1> QED BY <1>1, FS_Surjection

LEMMA AnnouncedFinite == ASSUME calendar \in Sources PROVE IsFiniteSet(Announced)
<1> DEFINE f == [s \in Slots |-> Shown(s[1], s[2])]
<1>1. IsFiniteSet((DOMAIN calendar) \X (0..Horizon))
  <2>1. IsFiniteSet(DOMAIN calendar) /\ Horizon \in Int
    BY SeriesAssumption
  <2>2. IsFiniteSet(0..Horizon)
    BY <2>1, FS_Interval
  <2> QED BY <2>1, <2>2, FS_Product
<1>2. IsFiniteSet(Slots)
  BY <1>1, FS_Subset DEF Slots
<1>3. IsFiniteSet({f[s] : s \in Slots})
  BY <1>2, FiniteImage
<1>4. Announced \subseteq {f[s] : s \in Slots}
  BY DEF Announced
<1> QED BY <1>3, <1>4, FS_Subset

LEMMA UnionApart ==
    ASSUME NEW A, NEW B, IsFiniteSet(A), IsFiniteSet(B), A \cap B = {}
    PROVE  IsFiniteSet(A \cup B) /\ Cardinality(A \cup B) = Cardinality(A) + Cardinality(B)
<1>1. Cardinality(A) \in Nat /\ Cardinality(B) \in Nat /\ Cardinality(A \cap B) = 0
  BY FS_CardinalityType, FS_EmptySet
<1>2. IsFiniteSet(A \cup B) /\ Cardinality(A \cup B) = Cardinality(A) + Cardinality(B) - Cardinality(A \cap B)
  BY FS_Union
<1> QED BY <1>1, <1>2

\* The work of a series is no more than what it makes the parser look at.
LEMMA WorkFits ==
    ASSUME NEW u, Event(u), Counted(calendar[u])
    PROVE  /\ Work(calendar[u]) \in Nat /\ IsFiniteSet(Looked(u))
           /\ Work(calendar[u]) <= Cardinality(Looked(u))
<1> DEFINE m == Master(calendar[u])
           aim == Target(calendar[u])
           last == IF m.until < aim THEN m.until ELSE aim
           walked == IF m.every = 0 \/ last < m.from THEN m.from..m.from ELSE m.from..last
           D == {<<u, "day">>} \X Days(m)
           E == {<<u, "extra">>} \X m.extra
           X == {<<u, "except">>} \X m.except
<1>1. Says(u, NoSlot) = {m} /\ m \in Components /\ m.every >= 0
  BY MasterIs DEF Counted, RuleAllowed
<1>2. aim \in Int /\ aim <= Horizon /\ Horizon \in Nat
  BY TargetIs, SeriesAssumption
<1>3. /\ m.from \in 0..Horizon /\ m.every \in Int /\ m.until \in Int
      /\ m.extra \subseteq 0..Horizon /\ m.except \subseteq 0..Horizon
  BY <1>1 DEF Components
<1>4. Looked(u) = D \cup (E \cup X)
  BY <1>1 DEF Looked
<1>5. Span(calendar[u]) = IF m.every = 0 \/ last < m.from THEN 1 ELSE last - m.from + 1
  BY DEF Span
<1>6. Work(calendar[u]) = Span(calendar[u]) + Cardinality(m.extra) + Cardinality(m.except)
  BY DEF Work
<1> DEFINE days == Days(m)
           extra == m.extra
           except == m.except
           from == m.from
           every == m.every
<1>7. /\ days = {t \in 0..Horizon : t = from \/ (every > 0 /\ from <= t)}
      /\ last \in Int /\ last <= Horizon /\ from \in 0..Horizon /\ every \in Int /\ every >= 0
      /\ extra \subseteq 0..Horizon /\ except \subseteq 0..Horizon
      /\ Span(calendar[u]) = IF every = 0 \/ last < from THEN 1 ELSE last - from + 1
      /\ walked = IF every = 0 \/ last < from THEN from..from ELSE from..last
  BY <1>1, <1>2, <1>3, <1>5 DEF Days
<1>8. D = {<<u, "day">>} \X days /\ E = {<<u, "extra">>} \X extra /\ X = {<<u, "except">>} \X except
  OBVIOUS
<1> HIDE DEF m, last, walked, D, E, X, days, extra, except, from, every
<1>9. walked \subseteq days
  BY <1>2, <1>7
<1>10. Cardinality(walked) = Span(calendar[u]) /\ Span(calendar[u]) \in Nat
  <2>1. CASE every = 0 \/ last < from
    <3>1. walked = from..from /\ from \in Int /\ Span(calendar[u]) = 1
      BY <1>7, <2>1
    <3>2. Cardinality(from..from) = IF from > from THEN 0 ELSE from - from + 1
      BY <3>1, FS_Interval
    <3> QED BY <3>1, <3>2
  <2>2. CASE ~(every = 0 \/ last < from)
    <3>1. walked = from..last /\ from \in Int /\ last \in Int /\ Span(calendar[u]) = last - from + 1 /\ ~(from > last)
      BY <1>7, <2>2
    <3>2. Cardinality(from..last) = IF from > last THEN 0 ELSE last - from + 1
      BY <3>1, FS_Interval
    <3> QED BY <3>1, <3>2
  <2> QED BY <2>1, <2>2
<1>11. IsFiniteSet(days) /\ IsFiniteSet(extra) /\ IsFiniteSet(except)
  <2>1. IsFiniteSet(0..Horizon)
    BY <1>2, FS_Interval
  <2> QED BY <1>7, <2>1, FS_Subset
<1>12. Span(calendar[u]) <= Cardinality(days)
  BY <1>9, <1>10, <1>11, FS_Subset
<1>13. /\ IsFiniteSet(D) /\ Cardinality(D) = Cardinality(days)
       /\ IsFiniteSet(E) /\ Cardinality(E) = Cardinality(extra)
       /\ IsFiniteSet(X) /\ Cardinality(X) = Cardinality(except)
       /\ Cardinality(days) \in Nat /\ Cardinality(extra) \in Nat /\ Cardinality(except) \in Nat
  <2>1. ASSUME NEW S, IsFiniteSet(S), NEW x
        PROVE  IsFiniteSet({x} \X S) /\ Cardinality({x} \X S) = Cardinality(S) /\ Cardinality(S) \in Nat
    <3>1. IsFiniteSet({x}) /\ Cardinality({x}) = 1 /\ Cardinality(S) \in Nat
      BY <2>1, FS_Singleton, FS_CardinalityType
    <3>2. IsFiniteSet({x} \X S) /\ Cardinality({x} \X S) = Cardinality({x}) * Cardinality(S)
      BY <2>1, <3>1, FS_Product
    <3> QED BY <3>1, <3>2
  <2> QED BY <1>8, <1>11, <2>1
<1>14. IsFiniteSet(E \cup X) /\ Cardinality(E \cup X) = Cardinality(E) + Cardinality(X)
  <2>1. E \cap X = {}
    BY <1>8
  <2> QED BY <1>13, <2>1, UnionApart
<1>15. IsFiniteSet(Looked(u)) /\ Cardinality(Looked(u)) = Cardinality(D) + Cardinality(E \cup X)
  <2>1. D \cap (E \cup X) = {}
    BY <1>8
  <2> QED BY <1>4, <1>13, <1>14, <2>1, UnionApart
<1>16. Work(calendar[u]) = Span(calendar[u]) + Cardinality(extra) + Cardinality(except)
  BY <1>6 DEF m, extra, except
<1> QED BY <1>10, <1>12, <1>13, <1>14, <1>15, <1>16

\* What is looked at for one event is nothing of another.
LEMMA LookedApart ==
    ASSUME NEW u, NEW U, u \notin U, IsFiniteSet(LookedAt(U)), IsFiniteSet(Looked(u))
    PROVE  Cardinality(LookedAt(U \cup {u})) = Cardinality(LookedAt(U)) + Cardinality(Looked(u))
<1> DEFINE A == LookedAt(U)
           B == Looked(u)
<1>1. LookedAt(U \cup {u}) = A \cup B
  BY DEF LookedAt
<1>2. \A v : \A x \in Looked(v) : x[1][1] = v
  BY DEF Looked
<1>3. A \cap B = {}
  BY <1>2 DEF LookedAt
<1> HIDE DEF A, B
<1> QED BY <1>1, <1>3, UnionApart DEF A, B

\* A sound source can be interpreted, and looks at finitely many days.
LEMMA SoundIsClear ==
    ASSUME NEW u, Event(u), Sound
    PROVE  Counted(calendar[u]) /\ ~Uninterpretable(calendar[u])
<1> DEFINE C == calendar[u]
<1>1. /\ Says(u, NoSlot) # {}
      /\ \A e \in C : e.ok /\ e.every >= 0 /\ (e.rid # NoSlot => Scheduled(u, e.rid))
      /\ \A e, f \in C : e.rid = f.rid /\ e.seq = f.seq => e = f
  BY DEF Sound, Event
<1>2. ~Ambiguous(C)
  <2> SUFFICES ASSUME NEW e \in Newest(C), NEW f \in Newest(C), e.rid = f.rid PROVE e = f
    BY DEF Ambiguous
  <2>1. e \in C /\ f \in C /\ e.seq <= f.seq /\ f.seq <= e.seq /\ e.seq \in Nat /\ f.seq \in Nat
    BY EventFacts DEF Newest, Components
  <2> QED BY <1>1, <2>1
<1>3. Cardinality(Masters(C)) = 1
  <2>1. PICK m : m \in Masters(C)
    BY <1>1, NewestSays
  <2>2. \A e \in Masters(C) : e = m
    BY <1>2, <2>1 DEF Masters, Ambiguous
  <2>3. Masters(C) = {m}
    BY <2>1, <2>2
  <2> QED BY <2>3, FS_Singleton
<1>4. RuleAllowed(Master(C))
  <2>1. Master(C) \in C
    BY <1>3, MasterIs, NewestSays
  <2> QED BY <1>1, <2>1 DEF RuleAllowed
<1>5. Counted(C)
  BY <1>2, <1>3, <1>4 DEF Counted
<1>6. Unmatched(C) = {}
  <2> SUFFICES ASSUME NEW o \in Overrides(C) PROVE o.rid \in SlotsOf(C)
    BY DEF Unmatched
  <2>1. o \in C /\ o.rid # NoSlot
    BY DEF Overrides, Newest
  <2>2. o.rid \in 0..Horizon /\ Scheduled(u, o.rid) /\ o.rid <= Target(C)
    BY <1>1, <2>1, EventFacts, TargetIs DEF Components
  <2> QED BY <1>5, <2>2, SlotsScheduled
<1> QED BY <1>2, <1>3, <1>4, <1>5, <1>6 DEF Uninterpretable

LEMMA SeriesStarts == SeriesInit => SeriesInv
BY DEF SeriesInit, SeriesInv, SeriesReadings, Unread

\* What the source says does not move.
LEMMA SourceStands ==
    ASSUME UNCHANGED calendar
    PROVE  /\ Announced' = Announced /\ Sound' = Sound /\ WithinBudget' = WithinBudget
           /\ \A u : Looked(u)' = Looked(u)
           /\ \A U : AnnouncedOf(U)' = AnnouncedOf(U) /\ LookedAt(U)' = LookedAt(U)
<1>1. \A u, t : Says(u, t)' = Says(u, t)
  BY DEF Says
<1>2. \A u, t : Scheduled(u, t)' = Scheduled(u, t) /\ Shown(u, t)' = Shown(u, t)
  <2>1. \A u, t : Scheduled(u, t)' = Scheduled(u, t)
    BY <1>1 DEF Scheduled
  <2>2. \A u, t : Stated(u, t)' = Stated(u, t)
    BY <1>1 DEF Stated
  <2>3. \A u, t : Shown(u, t)' = Shown(u, t)
    BY <1>1, <2>2 DEF Shown
  <2> QED BY <2>1, <2>3
<1>3. Announced' = Announced
  BY <1>2 DEF Announced, Slots
<1>4. \A u : Looked(u)' = Looked(u)
  BY <1>1 DEF Looked
<1> QED BY <1>1, <1>2, <1>3, <1>4 DEF Sound, WithinBudget, AnnouncedOf, LookedAt

LEMMA SeriesStutter == SeriesInv /\ UNCHANGED seriesVars => SeriesInv'
<1> SUFFICES ASSUME SeriesInv, UNCHANGED seriesVars PROVE SeriesInv'
  OBVIOUS
<1>1. calendar' = calendar /\ reading' = reading
  BY DEF seriesVars
<1>2. SeriesReadings' = SeriesReadings
  BY <1>1, SourceStands DEF SeriesReadings
<1>3. AnnouncedOf(GroupsDone)' = AnnouncedOf(GroupsDone) /\ LookedAt(GroupsDone)' = LookedAt(GroupsDone)
  <2>1. GroupsDone' = GroupsDone
    BY <1>1 DEF GroupsDone
  <2>2. Announced' = Announced /\ \A u : Looked(u)' = Looked(u)
    BY <1>1, SourceStands
  <2> QED BY <2>1, <2>2 DEF AnnouncedOf, LookedAt
<1>4. Sound' = Sound /\ WithinBudget' = WithinBudget
  BY <1>1, SourceStands
<1> QED BY <1>1, <1>2, <1>3, <1>4 DEF SeriesInv, Unread

LEMMA ComponentsReadKeeps == ASSUME SeriesInv, ComponentsRead PROVE SeriesInv'
<1> DEFINE bad == Invalid(DOMAIN calendar)
<1>1. reading = Unread /\ bad \subseteq DOMAIN calendar /\ UNCHANGED calendar
  BY DEF SeriesInv, ComponentsRead, Invalid
<1>2. /\ reading'.pc = "groups" /\ reading'.groups = DOMAIN calendar \ bad /\ reading'.invalid = bad
      /\ reading'.out = {} /\ reading'.used = 0 /\ reading'.warned = (bad # {}) /\ ~reading'.complete
      /\ reading' \in SeriesReadings
  BY <1>1 DEF ComponentsRead, Unread, SeriesReadings
<1>3. Sound => bad = {}
  BY DEF Sound, Invalid
<1> HIDE DEF bad
<1>4. GroupsDone' = bad
  BY <1>1, <1>2 DEF GroupsDone
<1>5. AnnouncedOf({}) = {} /\ IsFiniteSet(LookedAt({})) /\ Cardinality(LookedAt({})) = 0
  BY FS_EmptySet DEF AnnouncedOf, LookedAt
<1>6. reading' \in SeriesReadings'
  BY <1>1, <1>2, SourceStands DEF SeriesReadings
<1>7. Sound' /\ WithinBudget' => ~reading'.warned /\ reading'.used <= Cardinality(LookedAt(GroupsDone))'
  <2> SUFFICES ASSUME Sound' PROVE ~reading'.warned /\ reading'.used <= Cardinality(LookedAt(GroupsDone))'
    OBVIOUS
  <2>1. bad = {}
    BY <1>1, <1>3, SourceStands
  <2>2. LookedAt(GroupsDone)' = LookedAt({})
    BY <1>4, <2>1 DEF LookedAt
  <2>3. ~reading'.warned
    BY <1>2, <2>1
  <2>4. Cardinality(LookedAt(GroupsDone))' = 0
    BY <1>5, <2>2
  <2>5. reading'.used = 0
    BY <1>2
  <2> QED BY <2>3, <2>4, <2>5
<1>8. ~reading'.warned => AnnouncedOf(GroupsDone)' \subseteq reading'.out
  BY <1>1, <1>2, <1>4, <1>5, SourceStands
<1> QED BY <1>1, <1>2, <1>6, <1>7, <1>8 DEF SeriesInv

LEMMA ParsedKeeps == ASSUME SeriesInv, Parsed PROVE SeriesInv'
<1>1. /\ reading \in SeriesReadings /\ reading.pc = "groups" /\ reading.groups = {} /\ UNCHANGED calendar
      /\ reading' = [reading EXCEPT !.pc = "done", !.complete = ~reading.warned]
  BY DEF SeriesInv, Parsed
<1>2. /\ reading' \in SeriesReadings /\ reading'.pc = "done" /\ reading'.complete = ~reading.warned
      /\ reading'.groups = reading.groups /\ reading'.out = reading.out /\ reading'.used = reading.used
      /\ reading'.warned = reading.warned
  BY <1>1 DEF SeriesReadings
<1>3. GroupsDone' = GroupsDone /\ reading' \in SeriesReadings'
  BY <1>1, <1>2, SourceStands DEF GroupsDone, SeriesReadings
<1> QED BY <1>1, <1>2, <1>3, SourceStands DEF SeriesInv

LEMMA GroupKeeps == ASSUME SeriesInv, NEW u \in DOMAIN calendar, GroupExpanded(u) PROVE SeriesInv'
<1> DEFINE C == calendar[u]
           work == IF Counted(C) THEN Work(C) ELSE 0
           cost == reading.used + work
           series == IF Counted(C) THEN Expanded(u, C) ELSE {}
           problem == Uninterpretable(C) \/ work > SlotBudget \/ cost > SourceBudget
           full == Cardinality(reading.out) + Cardinality(series) > MaxOccurrences
           ends == IF problem THEN cost >= SourceBudget ELSE full
           left == IF ends THEN {} ELSE reading.groups \ {u}
           out == IF problem \/ full THEN reading.out ELSE reading.out \cup series
           U == GroupsDone
           fits == Sound /\ WithinBudget
<1>1. /\ calendar \in Sources /\ Event(u) /\ reading \in SeriesReadings /\ reading.pc = "groups"
      /\ u \in reading.groups /\ UNCHANGED calendar /\ u \notin U /\ U \subseteq DOMAIN calendar
      /\ reading.used \in Nat /\ reading.out \subseteq Announced
      /\ \A x \in reading.out : x.uid \notin reading.groups
      /\ ~reading.warned => AnnouncedOf(U) \subseteq reading.out
      /\ fits => ~reading.warned /\ reading.used <= Cardinality(LookedAt(U))
  BY DEF SeriesInv, GroupExpanded, SeriesReadings, GroupsDone, Event
<1>2. reading' = [reading EXCEPT !.groups = left, !.out = out, !.used = cost,
                                 !.warned = reading.warned \/ problem \/ full]
  BY Zenon DEF GroupExpanded, Counted
<1>3. Counted(C) => Expanded(u, C) = AnnouncedOf({u})
  BY <1>1, ExpandedIs
<1>4. ~problem => Counted(C)
  BY DEF Uninterpretable, Counted
<1>5. work \in Nat /\ cost \in Nat
  BY <1>1, WorkFits
<1>6. series \subseteq AnnouncedOf({u}) /\ (~problem => series = AnnouncedOf({u}))
  BY <1>3, <1>4
<1>7. fits => ~problem /\ ~full /\ cost <= Cardinality(LookedAt(U \cup {u}))
  <2> SUFFICES ASSUME fits PROVE ~problem /\ ~full /\ cost <= Cardinality(LookedAt(U \cup {u}))
    OBVIOUS
  <2>1. Counted(C) /\ ~Uninterpretable(C)
    BY <1>1, SoundIsClear
  <2>2. IsFiniteSet(Looked(u)) /\ work <= Cardinality(Looked(u)) /\ work \in Nat
    BY <1>1, <2>1, WorkFits
  <2>3. IsFiniteSet(LookedAt(DOMAIN calendar))
    <3>1. \A v \in DOMAIN calendar : IsFiniteSet(Looked(v))
      <4> TAKE v \in DOMAIN calendar
      <4>1. Event(v) /\ Counted(calendar[v])
        BY <1>1, SoundIsClear DEF Event
      <4> QED BY <4>1, WorkFits
    <3>2. IsFiniteSet({Looked(v) : v \in DOMAIN calendar})
      <4> DEFINE f == [v \in DOMAIN calendar |-> Looked(v)]
      <4>1. {f[v] : v \in DOMAIN calendar} = {Looked(v) : v \in DOMAIN calendar}
        OBVIOUS
      <4>2. f \in [DOMAIN calendar -> {f[v] : v \in DOMAIN calendar}] /\ IsFiniteSet(DOMAIN calendar)
        BY <1>1, EventFacts
      <4> HIDE DEF f
      <4> QED BY <4>1, <4>2, FiniteImage
    <3> QED BY <3>1, <3>2, FS_UNION DEF LookedAt
  <2>4. LookedAt(U) \subseteq LookedAt(DOMAIN calendar) /\ LookedAt(U \cup {u}) \subseteq LookedAt(DOMAIN calendar)
    BY <1>1 DEF LookedAt
  <2>5. /\ IsFiniteSet(LookedAt(U)) /\ Cardinality(LookedAt(U)) \in Nat
        /\ Cardinality(LookedAt(U \cup {u})) <= Cardinality(LookedAt(DOMAIN calendar))
        /\ IsFiniteSet(LookedAt(U \cup {u}))
        /\ Cardinality(LookedAt(DOMAIN calendar)) \in Nat /\ Cardinality(Looked(u)) \in Nat
    BY <2>2, <2>3, <2>4, FS_Subset, FS_CardinalityType
  <2>6. Cardinality(LookedAt(U \cup {u})) = Cardinality(LookedAt(U)) + Cardinality(Looked(u))
    BY <1>1, <2>2, <2>5, LookedApart
  <2>7. Cardinality(LookedAt(DOMAIN calendar)) <= SourceBudget /\ Cardinality(Looked(u)) <= SlotBudget
    BY <1>1 DEF WithinBudget, LookedAt
  <2>8. SourceBudget \in Nat /\ SlotBudget \in Nat /\ MaxOccurrences \in Nat
    BY SeriesAssumption
  <2>9. cost <= Cardinality(LookedAt(U \cup {u})) /\ cost <= SourceBudget /\ work <= SlotBudget
    <3>1. reading.used <= Cardinality(LookedAt(U)) /\ reading.used \in Nat /\ cost = reading.used + work
      BY <1>1
    <3> HIDE DEF work, cost
    <3> QED BY <2>2, <2>5, <2>6, <2>7, <2>8, <3>1
  <2>10. ~problem
    <3> HIDE DEF work, cost
    <3> QED BY <1>5, <2>1, <2>8, <2>9 DEF work, cost
  <2>11. ~full
    <3>1. reading.out \cap series = {}
      BY <1>1, <1>6 DEF AnnouncedOf
    <3>2. reading.out \cup series \subseteq Announced
      BY <1>1, <1>6 DEF AnnouncedOf
    <3> HIDE DEF series
    <3>3. IsFiniteSet(Announced) /\ IsFiniteSet(reading.out) /\ IsFiniteSet(series)
      BY <1>1, <3>2, AnnouncedFinite, FS_Subset
    <3>4. Cardinality(reading.out \cup series) = Cardinality(reading.out) + Cardinality(series)
      BY <3>1, <3>3, UnionApart
    <3>5. Cardinality(reading.out \cup series) <= Cardinality(Announced)
      BY <3>2, <3>3, FS_Subset
    <3>6. Cardinality(Announced) <= MaxOccurrences /\ Cardinality(Announced) \in Nat
      BY <3>3, FS_CardinalityType DEF WithinBudget
    <3>7. Cardinality(reading.out) \in Nat /\ Cardinality(series) \in Nat
      BY <3>3, FS_CardinalityType
    <3> QED BY <2>8, <3>4, <3>5, <3>6, <3>7
  <2> QED BY <2>9, <2>10, <2>11
<1> HIDE DEF work, cost, series, problem, full, ends
<1>8. /\ reading'.pc = "groups" /\ reading'.groups = left /\ reading'.out = out /\ reading'.used = cost
      /\ reading'.warned = (reading.warned \/ problem \/ full) /\ reading' \in SeriesReadings
  <2>1. left \subseteq DOMAIN calendar /\ out \subseteq Announced /\ (reading.warned \/ problem \/ full) \in BOOLEAN
    BY <1>1, <1>6 DEF SeriesReadings, AnnouncedOf
  <2> HIDE DEF left, out
  <2>2. reading.warned \in BOOLEAN
    BY <1>1 DEF SeriesReadings
  <2> DEFINE w == reading.warned \/ problem \/ full
  <2>3. w \in BOOLEAN /\ reading' = [reading EXCEPT !.groups = left, !.out = out, !.used = cost, !.warned = w]
    BY <1>2, <2>1
  <2> HIDE DEF w
  <2>4. /\ reading'.pc = "groups" /\ reading'.groups = left /\ reading'.out = out /\ reading'.used = cost
        /\ reading'.warned = w /\ reading' \in SeriesReadings
    BY <1>1, <1>5, <2>1, <2>3 DEF SeriesReadings
  <2> QED BY <2>4 DEF w
<1>9. \A x \in out : x.uid \notin left
  BY <1>1, <1>6 DEF AnnouncedOf
<1>10. ~problem /\ ~full => DOMAIN calendar \ left = U \cup {u}
  BY <1>1 DEF ends, GroupsDone
<1>11. ~reading'.warned => AnnouncedOf(DOMAIN calendar \ left) \subseteq out
  BY <1>1, <1>6, <1>8, <1>10 DEF AnnouncedOf
<1>12. fits => ~reading'.warned /\ cost <= Cardinality(LookedAt(DOMAIN calendar \ left))
  BY <1>1, <1>7, <1>8, <1>10
<1>13. GroupsDone' = DOMAIN calendar \ left /\ reading' \in SeriesReadings'
  BY <1>1, <1>8, SourceStands DEF GroupsDone, SeriesReadings
<1> HIDE DEF left, out
<1>14. /\ AnnouncedOf(GroupsDone)' = AnnouncedOf(DOMAIN calendar \ left)
       /\ LookedAt(GroupsDone)' = LookedAt(DOMAIN calendar \ left)
  <2>1. Announced' = Announced /\ \A v : Looked(v)' = Looked(v)
    BY <1>1, SourceStands
  <2> QED BY <1>13, <2>1 DEF AnnouncedOf, LookedAt
<1>15. Sound' = Sound /\ WithinBudget' = WithinBudget
  BY <1>1, SourceStands
<1>16. \A x \in reading'.out : x.uid \notin reading'.groups
  BY <1>8, <1>9
<1>17. ~reading'.warned => AnnouncedOf(GroupsDone)' \subseteq reading'.out
  BY <1>8, <1>11, <1>14
<1>18. Sound' /\ WithinBudget' => ~reading'.warned /\ reading'.used <= Cardinality(LookedAt(GroupsDone))'
  <2>1. Sound /\ WithinBudget => fits
    BY <1>1
  <2>2. fits => ~reading'.warned /\ reading'.used <= Cardinality(LookedAt(GroupsDone)')
    BY <1>8, <1>12, <1>14
  <2> QED BY <1>15, <2>1, <2>2
<1> QED BY <1>1, <1>8, <1>13, <1>16, <1>17, <1>18 DEF SeriesInv

LEMMA SeriesStep == ASSUME SeriesInv, SeriesNext PROVE SeriesInv'
BY ComponentsReadKeeps, GroupKeeps, ParsedKeeps DEF SeriesNext

LEMMA SeriesIsFaithful == SeriesInv => ParseIsFaithful
<1> SUFFICES ASSUME SeriesInv, reading.pc = "done" PROVE ParseIsFaithful
  BY DEF ParseIsFaithful
<1>1. reading.out \subseteq Announced /\ reading.groups = {} /\ reading.complete = ~reading.warned
  BY DEF SeriesInv, SeriesReadings
<1>2. ~reading.warned => AnnouncedOf(DOMAIN calendar) \subseteq reading.out
  BY <1>1 DEF SeriesInv, GroupsDone
<1>3. AnnouncedOf(DOMAIN calendar) = Announced
  <2> SUFFICES ASSUME NEW x \in Announced PROVE x.uid \in DOMAIN calendar
    BY DEF AnnouncedOf
  <2>1. PICK s \in Slots : x = Shown(s[1], s[2])
    BY DEF Announced
  <2>2. x.uid = s[1]
    BY <2>1 DEF Shown
  <2> QED BY <2>2 DEF Slots
<1>4. Sound /\ WithinBudget => ~reading.warned
  BY DEF SeriesInv
<1> QED BY <1>1, <1>2, <1>3, <1>4 DEF ParseIsFaithful

\* parse_ics, for any calendars, window and budgets: what it returns is announced, a
\* complete result is all of it, and a sound source within the budgets is complete.
THEOREM CalendarFaithful == MCSpec => []CalendarIsFaithful
<1> DEFINE Kept == part = "series" => SeriesInv
<1>1. MCInit => Kept
  BY SeriesStarts DEF MCInit
<1>2. Kept /\ [MCNext]_AllVars => Kept'
  BY SeriesStep, SeriesStutter DEF MCNext, AllVars
<1>3. Kept => CalendarIsFaithful
  BY SeriesIsFaithful DEF CalendarIsFaithful
<1> QED BY <1>1, <1>2, <1>3, PTL DEF MCSpec, AllVars

-----------------------------------------------------------------------------
\* ChatSelections: of one query only one thing is open at a time: the call
\* that resolves it, a scope choice, or a batch of items.  A selection
\* closes what it selected from, and marks its message as spent.

SomeEvents == ChatEvents \cup {NoEvent}
Talks == [pc: {"idle", "show", "resolve", "execute", "clarify", "done"}, event: SomeEvents, life: Nat,
          gen: Nat, scope: Nat, answer: {"none", "error", "candidates", "facts"}]
Pendings == [gen: Nat, batch: BOOLEAN, used: BOOLEAN, source: SomeEvents, confirm: SomeEvents]
ScopeChoices == [id: Nat, gen: Nat, event: SomeEvents, refs: SUBSET SomeEvents, consumed: BOOLEAN]
Targets == [gen: Nat, event: SomeEvents, batch: BOOLEAN, consumed: BOOLEAN, inflight: BOOLEAN,
            confirm: SomeEvents]
Selections == [batch: Nat, kind: {"scope", "item", "server"}, event: SomeEvents]

ChatTyped ==
    /\ handler \in {"market", "item", "logs"} /\ chatLife \in Nat /\ drawn \in Nat
    /\ pending \in Pendings /\ scopes \in ScopeChoices /\ target \in Targets
    /\ talk \in [ChatCalls -> Talks] /\ picks \in SUBSET Selections /\ spent \in SUBSET SomeEvents

\* Every number was drawn.
ChatNumbered ==
    /\ pending.gen <= drawn /\ scopes.id <= drawn /\ scopes.gen <= drawn /\ target.gen <= drawn
    /\ \A c \in ChatCalls : talk[c].gen <= drawn
    /\ \A p \in picks : p.batch <= drawn

\* The pending query is the latest one at work.
LatestHolds ==
    \A c \in ChatCalls :
        talk[c].pc \in {"resolve", "execute"} =>
            /\ talk[c].gen # 0
            /\ handler # "logs" /\ pending.gen # 0 => talk[c].gen <= pending.gen
            /\ handler = "logs" /\ target.gen # 0 => talk[c].gen <= target.gen

Resolving(c, g) == talk[c].pc = "resolve" /\ talk[c].gen = g
ScopeOpen(g) == scopes.id # 0 /\ scopes.gen = g /\ ~scopes.consumed

\* One call resolves a query, and then no scope choice of it is open.
OneResolves ==
    \A c \in ChatCalls : talk[c].pc = "resolve" =>
        /\ ~ScopeOpen(talk[c].gen)
        /\ \A d \in ChatCalls \ {c} : ~Resolving(d, talk[c].gen)

\* Nothing of the query is open before its batch.
LeftAlone(g) == ~ScopeOpen(g) /\ \A c \in ChatCalls : ~Resolving(c, g)
ItemsSettle ==
    /\ pending.batch => pending.gen # 0 /\ LeftAlone(pending.gen)
    /\ \A p \in picks : p.kind = "item" =>
          LeftAlone(p.batch) /\ (pending.gen = p.batch => ~pending.batch)

\* What a selection was made from is closed.
PicksClose ==
    \A p \in picks :
        /\ p.batch # 0
        /\ p.kind = "scope" /\ scopes.id = p.batch => scopes.consumed
        /\ p.kind = "server" /\ target.gen = p.batch => target.consumed
        /\ handler # "logs" => p.event \in spent

ChatInv ==
    /\ ChatTyped /\ ChatNumbered /\ LatestHolds /\ OneResolves
    /\ handler # "logs" => ItemsSettle
    /\ PicksClose /\ OneSelection

LEMMA NothingTyped ==
    /\ NoPending \in Pendings /\ NoPending.gen = 0 /\ ~NoPending.batch
    /\ NoScope \in ScopeChoices /\ NoScope.id = 0 /\ NoScope.gen = 0
    /\ NoTarget \in Targets /\ NoTarget.gen = 0
    /\ NoTalk \in Talks /\ NoTalk.pc = "idle" /\ NoTalk.gen = 0
BY DEF NoPending, Pendings, NoScope, ScopeChoices, NoTarget, Targets, NoTalk, Talks, SomeEvents

LEMMA ChatInitInv == ChatInit => ChatInv
<1> SUFFICES ASSUME ChatInit PROVE ChatInv
  OBVIOUS
<1>1. ChatTyped
  BY NothingTyped DEF ChatInit, ChatTyped
<1>2. \A c \in ChatCalls : talk[c].pc = "idle" /\ talk[c].gen = 0
  BY NothingTyped DEF ChatInit
<1>3. ChatNumbered /\ LatestHolds
  BY <1>2, NothingTyped DEF ChatInit, ChatNumbered, LatestHolds
<1>4. OneResolves /\ ItemsSettle /\ PicksClose /\ OneSelection
  BY <1>2, NothingTyped DEF ChatInit, OneResolves, ItemsSettle, PicksClose, OneSelection
<1> QED BY <1>1, <1>3, <1>4 DEF ChatInv

\* A call that opens nothing and selects nothing.
LEMMA TalkQuiet ==
    ASSUME ChatInv, NEW c \in ChatCalls, NEW x \in Talks, talk' = [talk EXCEPT ![c] = x],
           x.pc # "resolve", x.gen <= drawn,
           x.pc = "execute" => talk[c].pc \in {"resolve", "execute"} /\ x.gen = talk[c].gen,
           pending' \in {pending, NoPending},
           target' \in Targets, target'.gen = target.gen, target.consumed => target'.consumed,
           UNCHANGED <<handler, chatLife, spent, scopes, drawn, picks>>
    PROVE  ChatInv'
<1>0. talk \in [ChatCalls -> Talks] /\ ChatTyped
  BY DEF ChatInv, ChatTyped
<1>1. ChatTyped'
  BY <1>0, NothingTyped DEF ChatTyped
<1>2. ChatNumbered'
  BY <1>0, NothingTyped DEF ChatInv, ChatNumbered, ChatTyped
<1>3. LatestHolds'
  BY <1>0, NothingTyped DEF ChatInv, LatestHolds
<1>4. \A g : ScopeOpen(g)' <=> ScopeOpen(g)
  BY DEF ScopeOpen
<1>5. \A g : \A d \in ChatCalls : Resolving(d, g)' => Resolving(d, g)
  BY <1>0 DEF Resolving
<1>6. \A g : LeftAlone(g) => LeftAlone(g)'
  BY <1>4, <1>5 DEF LeftAlone
<1>7. OneResolves'
  BY <1>0, <1>4, <1>5 DEF ChatInv, OneResolves, Resolving
<1>8. handler # "logs" => ItemsSettle'
  BY <1>6, NothingTyped DEF ChatInv, ItemsSettle
<1>9. PicksClose' /\ OneSelection'
  BY DEF ChatInv, PicksClose, OneSelection
<1> QED BY <1>1, <1>2, <1>3, <1>7, <1>8, <1>9 DEF ChatInv

\* Facts come from the latest query.
LEMMA FactsAreLatest ==
    ASSUME ChatInv, NEW c \in ChatCalls, NEW x \in Talks, talk' = [talk EXCEPT ![c] = x],
           x.answer = "facts" /\ talk[c].answer # "facts" =>
               /\ talk[c].pc = "execute" /\ talk[c].life = chatLife
               /\ handler # "logs" => TicketCurrent(talk[c].gen)
               /\ handler = "logs" => TargetCurrent(talk[c].gen)
    PROVE  LatestQueryAnswers
BY DEF ChatInv, ChatTyped, LatestHolds, LatestQueryAnswers, TicketCurrent, TargetCurrent

\* What a call becomes: entering, refused, moved on, or ended.
LEMMA TalkEnters ==
    ASSUME ChatTyped, NEW c \in ChatCalls, NEW e \in ChatEvents, NEW g \in Nat, NEW s \in Nat,
           NEW to \in {"idle", "show", "resolve", "execute", "clarify", "done"},
           Enters(c, e, to, g, s)
    PROVE  \E x \in Talks :
             talk' = [talk EXCEPT ![c] = x] /\ x.pc = to /\ x.gen = g /\ x.answer = "none"
<1> DEFINE y == [pc |-> to, event |-> e, life |-> chatLife, gen |-> g, scope |-> s, answer |-> "none"]
<1>1. y \in Talks /\ y.pc = to /\ y.gen = g /\ y.answer = "none"
  BY DEF Talks, ChatTyped, SomeEvents
<1>2. talk' = [talk EXCEPT ![c] = y]
  BY DEF Enters
<1> HIDE DEF y
<1> QED BY <1>1, <1>2

LEMMA TalkRefused ==
    ASSUME ChatTyped, NEW c \in ChatCalls, NEW e \in ChatEvents, Refuses(c, e)
    PROVE  \E x \in Talks :
             talk' = [talk EXCEPT ![c] = x] /\ x.pc = "done" /\ x.gen = 0 /\ x.answer = "error"
<1>1. PICK n \in Talks : n = NoTalk /\ n.gen = 0
  BY NothingTyped
<1> DEFINE y == [n EXCEPT !.pc = "done", !.event = e, !.answer = "error"]
<1>2. y \in Talks /\ y.pc = "done" /\ y.gen = 0 /\ y.answer = "error"
  BY <1>1 DEF Talks, SomeEvents
<1>3. talk' = [talk EXCEPT ![c] = y]
  BY <1>1 DEF Refuses
<1> HIDE DEF y
<1> QED BY <1>2, <1>3

LEMMA TalkAdvances ==
    ASSUME ChatTyped, NEW c \in ChatCalls, NEW to \in {"execute", "clarify"}, Advances(c, to)
    PROVE  \E x \in Talks : /\ talk' = [talk EXCEPT ![c] = x] /\ x.pc = to /\ x.gen = talk[c].gen
                            /\ x.answer = talk[c].answer
<1> DEFINE y == [talk[c] EXCEPT !.pc = to]
<1>1. y \in Talks /\ y.pc = to /\ y.gen = talk[c].gen /\ y.answer = talk[c].answer
  BY DEF Talks, ChatTyped
<1>2. talk' = [talk EXCEPT ![c] = y]
  BY DEF Advances, ChatTyped
<1> HIDE DEF y
<1> QED BY <1>1, <1>2

LEMMA TalkEnds ==
    ASSUME ChatTyped, NEW c \in ChatCalls, NEW a \in {"error", "candidates", "facts"},
           talk' = [talk EXCEPT ![c].pc = "done", ![c].answer = a]
    PROVE  \E x \in Talks :
             talk' = [talk EXCEPT ![c] = x] /\ x.pc = "done" /\ x.gen = talk[c].gen /\ x.answer = a
<1> DEFINE y == [talk[c] EXCEPT !.pc = "done", !.answer = a]
<1>1. y \in Talks /\ y.pc = "done" /\ y.gen = talk[c].gen /\ y.answer = a
  BY DEF Talks, ChatTyped
<1>2. talk' = [talk EXCEPT ![c] = y]
  BY DEF ChatTyped
<1> HIDE DEF y
<1> QED BY <1>1, <1>2

\* A new query is drawn; the earlier one is dropped.
LEMMA QueryBegins ==
    ASSUME ChatInv, NEW c \in ChatCalls, NEW x \in Talks, talk' = [talk EXCEPT ![c] = x],
           NEW k \in Nat, k = drawn + 1, drawn' = k, x.gen = k, x.pc \in {"resolve", "clarify"},
           pending' \in Pendings, scopes' \in {scopes, NoScope}, target' \in Targets,
           handler # "logs" => pending'.gen = k /\ ~pending'.batch /\ target' = target,
           handler = "logs" => target'.gen = k /\ pending' = pending,
           UNCHANGED <<handler, chatLife, spent, picks>>
    PROVE  ChatInv'
<1>0. /\ talk \in [ChatCalls -> Talks] /\ ChatTyped /\ drawn \in Nat
      /\ \A d \in ChatCalls : talk[d].gen \in Nat /\ talk[d].gen <= drawn
      /\ \A p \in picks : p.batch \in Nat /\ p.batch <= drawn
      /\ scopes \in ScopeChoices /\ scopes.gen \in Nat /\ scopes.gen <= drawn
      /\ pending.gen \in Nat /\ pending.gen <= drawn /\ target.gen \in Nat /\ target.gen <= drawn
      /\ scopes.id \in Nat /\ scopes.id <= drawn
  BY DEF ChatInv, ChatTyped, ChatNumbered, Talks, Selections, ScopeChoices, Pendings, Targets
<1>1. ChatTyped'
  BY <1>0, NothingTyped DEF ChatTyped
<1>2. ChatNumbered'
  BY <1>0, NothingTyped DEF ChatNumbered
<1>3. LatestHolds'
  BY <1>0, NothingTyped DEF ChatInv, LatestHolds
<1>4. \A g : ScopeOpen(g)' => ScopeOpen(g)
  BY NothingTyped DEF ScopeOpen
<1>5. ~ScopeOpen(k)
  BY <1>0 DEF ScopeOpen
<1>6. \A d \in ChatCalls \ {c} : \A g : Resolving(d, g)' <=> Resolving(d, g)
  BY <1>0 DEF Resolving
<1>7. \A g : Resolving(c, g)' => g = k
  BY <1>0 DEF Resolving
<1>8. \A g : g # k /\ LeftAlone(g) => LeftAlone(g)'
  BY <1>4, <1>6, <1>7 DEF LeftAlone
<1>9. OneResolves'
  <2>1. ASSUME NEW d \in ChatCalls, talk'[d].pc = "resolve"
        PROVE  ~ScopeOpen(talk[d].gen)' /\ \A b \in ChatCalls \ {d} : ~Resolving(b, talk[d].gen)'
    <3>1. CASE d = c
      BY <1>0, <1>4, <1>5, <1>6, <3>1 DEF Resolving, ScopeOpen
    <3>2. CASE d # c
      <4>1. PICK g \in Nat : g = talk'[d].gen /\ talk'[d] = talk[d] /\ g # k
        BY <1>0, <3>2
      <4>2. ~ScopeOpen(g) /\ \A b \in ChatCalls \ {d} : ~Resolving(b, g)
        BY <2>1, <4>1 DEF ChatInv, OneResolves
      <4>3. ~ScopeOpen(g)' /\ \A b \in ChatCalls \ {d} : ~Resolving(b, g)'
        BY <1>4, <1>6, <1>7, <4>1, <4>2
      <4> QED BY <4>1, <4>3 DEF ScopeOpen, Resolving
    <3> QED BY <3>1, <3>2
  <2> QED BY <2>1 DEF OneResolves
<1>10. ASSUME handler # "logs" PROVE ItemsSettle'
  BY <1>0, <1>8, <1>10 DEF ChatInv, ItemsSettle
<1>11. PicksClose'
  BY <1>0, NothingTyped DEF ChatInv, PicksClose
<1>12. OneSelection'
  BY DEF ChatInv, OneSelection
<1> QED BY <1>1, <1>2, <1>3, <1>9, <1>10, <1>11, <1>12 DEF ChatInv

\* The batch of the resolving call is published.
LEMMA BatchOpens ==
    ASSUME ChatInv, handler # "logs", NEW c \in ChatCalls, NEW x \in Talks, talk' = [talk EXCEPT ![c] = x],
           talk[c].pc = "resolve", TicketCurrent(talk[c].gen), x.pc = "done", x.gen = talk[c].gen,
           pending' \in Pendings, pending'.gen = pending.gen, pending'.batch,
           UNCHANGED <<handler, chatLife, spent, scopes, target, drawn, picks>>
    PROVE  ChatInv'
<1>0. talk \in [ChatCalls -> Talks] /\ ChatTyped /\ pending.gen = talk[c].gen /\ pending.gen # 0
  BY DEF ChatInv, ChatTyped, TicketCurrent
<1>1. ChatTyped'
  BY <1>0 DEF ChatTyped
<1>2. ChatNumbered'
  BY <1>0 DEF ChatInv, ChatNumbered
<1>3. LatestHolds'
  BY <1>0 DEF ChatInv, LatestHolds
<1>4. \A g : ScopeOpen(g)' <=> ScopeOpen(g)
  BY DEF ScopeOpen
<1>5. \A g : \A d \in ChatCalls : Resolving(d, g)' <=> Resolving(d, g) /\ d # c
  BY <1>0 DEF Resolving
<1>6. \A g : LeftAlone(g) => LeftAlone(g)' /\ g # pending.gen
  BY <1>0, <1>4, <1>5 DEF LeftAlone, Resolving
<1>7. LeftAlone(pending.gen)'
  <2>1. PICK g \in Nat : g = pending.gen
    BY DEF ChatInv, ChatTyped, Pendings
  <2>2. LeftAlone(g)'
    BY <1>0, <1>4, <1>5, <2>1 DEF ChatInv, OneResolves, LeftAlone
  <2> QED BY <2>1, <2>2 DEF LeftAlone, ScopeOpen, Resolving
<1>8. OneResolves'
  BY <1>0, <1>4, <1>5 DEF ChatInv, OneResolves, Resolving
<1>9. ItemsSettle'
  BY <1>0, <1>6, <1>7 DEF ChatInv, ItemsSettle
<1>10. PicksClose' /\ OneSelection'
  BY DEF ChatInv, PicksClose, OneSelection
<1> QED BY <1>1, <1>2, <1>3, <1>8, <1>9, <1>10 DEF ChatInv

\* A scope choice of the resolving call is published.
LEMMA ScopeOpens ==
    ASSUME ChatInv, handler # "logs", NEW c \in ChatCalls, NEW x \in Talks, talk' = [talk EXCEPT ![c] = x],
           talk[c].pc = "resolve", TicketCurrent(talk[c].gen), x.pc = "show", x.gen = talk[c].gen,
           NEW k \in Nat, k = drawn + 1, drawn' = k,
           scopes' \in ScopeChoices, scopes'.id = k, scopes'.gen = talk[c].gen,
           UNCHANGED <<handler, chatLife, spent, pending, target, picks>>
    PROVE  ChatInv'
<1>0. /\ talk \in [ChatCalls -> Talks] /\ ChatTyped /\ pending.gen = talk[c].gen /\ pending.gen # 0
      /\ drawn \in Nat /\ \A d \in ChatCalls : talk[d].gen \in Nat /\ talk[d].gen <= drawn
      /\ \A p \in picks : p.batch \in Nat /\ p.batch <= drawn
      /\ pending.gen \in Nat /\ target.gen \in Nat
  BY DEF ChatInv, ChatTyped, ChatNumbered, TicketCurrent, Talks, Selections, Pendings, Targets
<1>1. ChatTyped'
  BY <1>0 DEF ChatTyped
<1>2. ChatNumbered'
  BY <1>0 DEF ChatInv, ChatNumbered
<1>3. LatestHolds'
  BY <1>0 DEF ChatInv, LatestHolds
<1>4. \A g : ScopeOpen(g)' => g = talk[c].gen
  BY DEF ScopeOpen
<1>5. \A g : \A d \in ChatCalls : Resolving(d, g)' <=> Resolving(d, g) /\ d # c
  BY <1>0 DEF Resolving
<1>6. \A g : LeftAlone(g) => LeftAlone(g)' /\ g # pending.gen
  BY <1>0, <1>4, <1>5 DEF LeftAlone, Resolving
<1>8. OneResolves'
  <2>1. ASSUME NEW d \in ChatCalls, talk'[d].pc = "resolve"
        PROVE  ~ScopeOpen(talk[d].gen)' /\ \A b \in ChatCalls \ {d} : ~Resolving(b, talk[d].gen)'
    <3>1. PICK g \in Nat : g = talk'[d].gen /\ talk'[d] = talk[d] /\ d # c
      BY <1>0, <2>1
    <3>2. \A b \in ChatCalls \ {d} : ~Resolving(b, g)
      BY <2>1, <3>1 DEF ChatInv, OneResolves
    <3>3. g # talk[c].gen
      BY <3>1, <3>2 DEF Resolving
    <3>4. ~ScopeOpen(g)' /\ \A b \in ChatCalls \ {d} : ~Resolving(b, g)'
      BY <1>4, <1>5, <3>2, <3>3
    <3> QED BY <3>1, <3>4 DEF ScopeOpen, Resolving
  <2> QED BY <2>1 DEF OneResolves
<1>9. ItemsSettle'
  BY <1>0, <1>6 DEF ChatInv, ItemsSettle
<1>10. PicksClose'
  BY <1>0 DEF ChatInv, PicksClose
<1>11. OneSelection'
  BY DEF ChatInv, OneSelection
<1> QED BY <1>1, <1>2, <1>3, <1>8, <1>9, <1>10, <1>11 DEF ChatInv

\* The scope choice is consumed, and with a current ticket its query is resolved again.
LEMMA ScopePicked ==
    ASSUME ChatInv, handler # "logs", NEW c \in ChatCalls, NEW x \in Talks, talk' = [talk EXCEPT ![c] = x],
           NEW e \in ChatEvents, e \notin spent, scopes.id # 0, ~scopes.consumed,
           scopes' \in ScopeChoices, scopes'.id = scopes.id, scopes'.gen = scopes.gen, scopes'.consumed,
           \/ x.pc = "done" /\ x.gen = 0 /\ UNCHANGED <<picks, spent>>
           \/ /\ x.pc = "resolve" /\ x.gen = scopes.gen /\ TicketCurrent(scopes.gen)
              /\ picks' = picks \cup {[batch |-> scopes.id, kind |-> "scope", event |-> e]}
              /\ spent' = spent \cup scopes.refs \cup {e},
           UNCHANGED <<handler, chatLife, pending, target, drawn>>
    PROVE  ChatInv'
<1>0. /\ talk \in [ChatCalls -> Talks] /\ ChatTyped /\ scopes \in ScopeChoices
      /\ drawn \in Nat /\ scopes.id \in Nat /\ scopes.id <= drawn /\ scopes.gen \in Nat /\ scopes.gen <= drawn
      /\ e \in SomeEvents /\ scopes.refs \in SUBSET SomeEvents
      /\ \A p \in picks : p.event \in spent /\ (p.kind = "scope" => p.batch # scopes.id)
  BY DEF ChatInv, ChatTyped, ChatNumbered, ScopeChoices, SomeEvents, PicksClose
<1>1. PICK y \in Selections : /\ y = [batch |-> scopes.id, kind |-> "scope", event |-> e]
                              /\ y.batch = scopes.id /\ y.kind = "scope" /\ y.event = e
  <2> DEFINE z == [batch |-> scopes.id, kind |-> "scope", event |-> e]
  <2>1. z \in Selections /\ z.batch = scopes.id /\ z.kind = "scope" /\ z.event = e
    BY <1>0 DEF Selections
  <2> QED BY <2>1
<1>2. picks' \subseteq picks \cup {y} /\ spent \subseteq spent' /\ spent' \in SUBSET SomeEvents
      /\ (y \in picks' => y \in picks \/ e \in spent')
  BY <1>0, <1>1 DEF ChatTyped
<1>3. ChatTyped'
  BY <1>0, <1>2 DEF ChatTyped
<1>4. ChatNumbered'
  BY <1>0, <1>1, <1>2 DEF ChatInv, ChatNumbered
<1>5. LatestHolds'
  BY <1>0 DEF ChatInv, LatestHolds, TicketCurrent
<1>6. \A g : ~ScopeOpen(g)'
  BY DEF ScopeOpen
<1>7. \A d \in ChatCalls \ {c} : \A g : Resolving(d, g)' <=> Resolving(d, g)
  BY <1>0 DEF Resolving
<1>8. ScopeOpen(scopes.gen) /\ ~LeftAlone(scopes.gen)
  BY DEF ScopeOpen, LeftAlone
<1>9. \A g : Resolving(c, g)' => g = scopes.gen
  BY <1>0 DEF Resolving
<1>10. \A g : LeftAlone(g) => LeftAlone(g)'
  BY <1>6, <1>7, <1>8, <1>9 DEF LeftAlone
<1>11. OneResolves'
  <2>1. ASSUME NEW d \in ChatCalls, talk'[d].pc = "resolve"
        PROVE  \A b \in ChatCalls \ {d} : ~Resolving(b, talk[d].gen)'
    <3>1. PICK g \in Nat : g = talk'[d].gen
      BY <1>3 DEF ChatTyped, Talks
    <3>2. \A b \in ChatCalls : ~Resolving(b, scopes.gen)
      BY <1>8 DEF ChatInv, OneResolves, Resolving
    <3>3. CASE d = c
      <4>1. g = scopes.gen
        BY <1>0, <2>1, <3>1, <3>3
      <4> QED BY <1>7, <3>1, <3>2, <3>3, <4>1 DEF Resolving
    <3>4. CASE d # c
      <4>1. talk'[d] = talk[d]
        BY <1>0, <3>4
      <4>2. \A b \in ChatCalls \ {d} : ~Resolving(b, g)
        BY <2>1, <3>1, <4>1 DEF ChatInv, OneResolves
      <4>3. g # scopes.gen
        BY <2>1, <3>1, <3>2, <4>1 DEF Resolving
      <4>4. \A b \in ChatCalls \ {d} : ~Resolving(b, g)'
        BY <1>7, <1>9, <4>2, <4>3
      <4> QED BY <3>1, <4>4 DEF Resolving
    <3> QED BY <3>3, <3>4
  <2> QED BY <1>6, <2>1 DEF OneResolves
<1>12. ItemsSettle'
  BY <1>1, <1>2, <1>10 DEF ChatInv, ItemsSettle
<1>13. PicksClose'
  BY <1>0, <1>1, <1>2 DEF ChatInv, PicksClose
<1>14. OneSelection'
  BY <1>0, <1>1, <1>2 DEF ChatInv, OneSelection
<1> QED BY <1>3, <1>4, <1>5, <1>11, <1>12, <1>13, <1>14 DEF ChatInv

\* An item of the batch is selected.
LEMMA ItemPicked ==
    ASSUME ChatInv, handler # "logs", NEW c \in ChatCalls, NEW x \in Talks, talk' = [talk EXCEPT ![c] = x],
           NEW e \in ChatEvents, NEW g \in Nat, Confirmable(g, e), x.pc = "execute", x.gen = g,
           pending' \in Pendings, pending'.gen = g, ~pending'.batch,
           picks' = picks \cup {[batch |-> g, kind |-> "item", event |-> e]},
           spent' = spent \cup {pending.source, e},
           UNCHANGED <<handler, chatLife, scopes, target, drawn>>
    PROVE  ChatInv'
<1>0. /\ talk \in [ChatCalls -> Talks] /\ ChatTyped /\ pending \in Pendings
      /\ pending.gen = g /\ g # 0 /\ pending.batch /\ e \notin spent /\ LeftAlone(g) /\ g <= drawn
      /\ e \in SomeEvents /\ pending.source \in SomeEvents
      /\ \A p \in picks : p.event \in spent /\ (p.kind = "item" => p.batch # g)
  BY DEF ChatInv, ChatTyped, ChatNumbered, Pendings, SomeEvents, PicksClose, ItemsSettle, Confirmable,
     TicketCurrent, Fresh
<1>1. PICK y \in Selections : /\ y = [batch |-> g, kind |-> "item", event |-> e]
                              /\ y.batch = g /\ y.kind = "item" /\ y.event = e
  <2> DEFINE z == [batch |-> g, kind |-> "item", event |-> e]
  <2>1. z \in Selections /\ z.batch = g /\ z.kind = "item" /\ z.event = e
    BY <1>0 DEF Selections
  <2> QED BY <2>1
<1>2. picks' = picks \cup {y}
  BY <1>1
<1>3. ChatTyped'
  BY <1>0, <1>2 DEF ChatTyped
<1>4. ChatNumbered'
  BY <1>0, <1>1, <1>2 DEF ChatInv, ChatNumbered
<1>5. LatestHolds'
  BY <1>0 DEF ChatInv, LatestHolds
<1>6. \A f : ScopeOpen(f)' <=> ScopeOpen(f)
  BY DEF ScopeOpen
<1>7. \A f : \A d \in ChatCalls : Resolving(d, f)' => Resolving(d, f)
  BY <1>0 DEF Resolving
<1>8. \A f : LeftAlone(f) => LeftAlone(f)'
  BY <1>6, <1>7 DEF LeftAlone
<1>9. OneResolves'
  BY <1>0, <1>6, <1>7 DEF ChatInv, OneResolves, Resolving
<1>10. ItemsSettle'
  BY <1>0, <1>1, <1>2, <1>8 DEF ChatInv, ItemsSettle
<1>11. PicksClose'
  BY <1>0, <1>1, <1>2 DEF ChatInv, PicksClose
<1>12. OneSelection'
  BY <1>0, <1>1, <1>2 DEF ChatInv, OneSelection
<1> QED BY <1>3, <1>4, <1>5, <1>9, <1>10, <1>11, <1>12 DEF ChatInv

\* A server of the character query is selected.
LEMMA ServerPicked ==
    ASSUME ChatInv, handler = "logs", NEW c \in ChatCalls, NEW x \in Talks, talk' = [talk EXCEPT ![c] = x],
           NEW e \in ChatEvents, NEW g \in Nat, LogsSelectable(g, e), x.pc = "execute", x.gen = g,
           target' \in Targets, target'.gen = g, target'.consumed,
           picks' = picks \cup {[batch |-> g, kind |-> "server", event |-> e]},
           UNCHANGED <<handler, chatLife, pending, spent, scopes, drawn>>
    PROVE  ChatInv'
<1>0. /\ talk \in [ChatCalls -> Talks] /\ ChatTyped /\ target.gen = g /\ g # 0 /\ ~target.consumed
      /\ g <= drawn /\ e \in SomeEvents
      /\ \A p \in picks : p.kind = "server" => p.batch # g
  BY DEF ChatInv, ChatTyped, ChatNumbered, SomeEvents, PicksClose, LogsSelectable, TargetCurrent
<1>1. PICK y \in Selections : /\ y = [batch |-> g, kind |-> "server", event |-> e]
                              /\ y.batch = g /\ y.kind = "server" /\ y.event = e
  <2> DEFINE z == [batch |-> g, kind |-> "server", event |-> e]
  <2>1. z \in Selections /\ z.batch = g /\ z.kind = "server" /\ z.event = e
    BY <1>0 DEF Selections
  <2> QED BY <2>1
<1>2. picks' = picks \cup {y}
  BY <1>1
<1>3. ChatTyped'
  BY <1>0, <1>2 DEF ChatTyped
<1>4. ChatNumbered'
  BY <1>0, <1>1, <1>2 DEF ChatInv, ChatNumbered
<1>5. LatestHolds'
  BY <1>0 DEF ChatInv, LatestHolds
<1>6. \A f : ScopeOpen(f)' <=> ScopeOpen(f)
  BY DEF ScopeOpen
<1>7. \A f : \A d \in ChatCalls : Resolving(d, f)' => Resolving(d, f)
  BY <1>0 DEF Resolving
<1>9. OneResolves'
  BY <1>0, <1>6, <1>7 DEF ChatInv, OneResolves, Resolving
<1>11. PicksClose'
  BY <1>0, <1>1, <1>2 DEF ChatInv, PicksClose
<1>12. OneSelection'
  BY <1>0, <1>1, <1>2 DEF ChatInv, OneSelection
<1> QED BY <1>3, <1>4, <1>5, <1>9, <1>11, <1>12 DEF ChatInv

\* Something is forgotten, or the handler closes.
LEMMA ForgetStep ==
    ASSUME ChatInv, ChatForgets \/ ChatCloses
    PROVE  ChatInv' /\ LatestQueryAnswers
<1>0. /\ pending' \in {pending, NoPending} /\ scopes' \in {scopes, NoScope} /\ target' \in {target, NoTarget}
      /\ UNCHANGED <<handler, spent, drawn, talk, picks>> /\ chatLife' \in Nat /\ ChatTyped
  BY DEF ChatInv, ChatTyped, ChatForgets, ChatCloses
<1>1. ChatTyped'
  BY <1>0, NothingTyped DEF ChatTyped
<1>2. ChatNumbered'
  BY <1>0, NothingTyped DEF ChatInv, ChatNumbered, ChatTyped
<1>3. LatestHolds'
  BY <1>0, NothingTyped DEF ChatInv, LatestHolds
<1>4. \A g : ScopeOpen(g)' => ScopeOpen(g)
  BY <1>0, NothingTyped DEF ScopeOpen
<1>5. \A g : \A d \in ChatCalls : Resolving(d, g)' <=> Resolving(d, g)
  BY <1>0 DEF Resolving
<1>6. \A g : LeftAlone(g) => LeftAlone(g)'
  BY <1>4, <1>5 DEF LeftAlone
<1>7. OneResolves'
  BY <1>0, <1>4, <1>5 DEF ChatInv, OneResolves
<1>8. handler # "logs" => ItemsSettle'
  BY <1>0, <1>6, NothingTyped DEF ChatInv, ItemsSettle
<1>9. PicksClose'
  BY <1>0, NothingTyped DEF ChatInv, PicksClose
<1>10. OneSelection' /\ LatestQueryAnswers
  BY <1>0 DEF ChatInv, OneSelection, LatestQueryAnswers
<1> QED BY <1>0, <1>1, <1>2, <1>3, <1>7, <1>8, <1>9, <1>10 DEF ChatInv

LEMMA CallRefused ==
    ASSUME ChatInv, NEW c \in ChatCalls, NEW e \in ChatEvents, Refuses(c, e),
           UNCHANGED <<handler, chatLife, pending, spent, scopes, target, drawn, picks>>
    PROVE  ChatInv' /\ LatestQueryAnswers
<1>0. ChatTyped /\ drawn \in Nat /\ target \in Targets
  BY DEF ChatInv, ChatTyped
<1>1. PICK x \in Talks : talk' = [talk EXCEPT ![c] = x] /\ x.pc = "done" /\ x.gen = 0 /\ x.answer = "error"
  BY <1>0, TalkRefused
<1>2. x.gen <= drawn
  BY <1>0, <1>1
<1> QED BY <1>0, <1>1, <1>2, TalkQuiet, FactsAreLatest

LEMMA CallShows ==
    ASSUME ChatInv, NEW c \in ChatCalls, NEW e \in ChatEvents, NEW to \in {"show", "clarify"},
           NEW g \in Nat, g <= drawn, NEW s \in Nat, Enters(c, e, to, g, s),
           UNCHANGED <<handler, chatLife, pending, spent, scopes, target, drawn, picks>>
    PROVE  ChatInv' /\ LatestQueryAnswers
<1>0. ChatTyped /\ drawn \in Nat /\ target \in Targets
  BY DEF ChatInv, ChatTyped
<1>1. PICK x \in Talks : talk' = [talk EXCEPT ![c] = x] /\ x.pc = to /\ x.gen = g /\ x.answer = "none"
  BY <1>0, TalkEnters
<1> QED BY <1>0, <1>1, TalkQuiet, FactsAreLatest

LEMMA CallEnds ==
    ASSUME ChatInv, NEW c \in ChatCalls, NEW a \in {"error", "candidates", "facts"},
           talk' = [talk EXCEPT ![c].pc = "done", ![c].answer = a],
           a = "facts" => /\ talk[c].pc = "execute" /\ talk[c].life = chatLife
                          /\ handler # "logs" => TicketCurrent(talk[c].gen)
                          /\ handler = "logs" => TargetCurrent(talk[c].gen),
           pending' \in {pending, NoPending},
           target' \in Targets, target'.gen = target.gen, target.consumed => target'.consumed,
           UNCHANGED <<handler, chatLife, spent, scopes, drawn, picks>>
    PROVE  ChatInv' /\ LatestQueryAnswers
<1>0. ChatTyped /\ talk[c].gen <= drawn
  BY DEF ChatInv, ChatTyped, ChatNumbered
<1>1. PICK x \in Talks :
        talk' = [talk EXCEPT ![c] = x] /\ x.pc = "done" /\ x.gen = talk[c].gen /\ x.answer = a
  BY <1>0, TalkEnds
<1>2. ChatInv'
  BY <1>0, <1>1, TalkQuiet
<1>3. LatestQueryAnswers
  BY <1>1, FactsAreLatest
<1> QED BY <1>2, <1>3

LEMMA CallAdvances ==
    ASSUME ChatInv, NEW c \in ChatCalls, NEW to \in {"execute", "clarify"}, Advances(c, to),
           talk[c].pc \in {"resolve", "execute"},
           target' \in Targets, target'.gen = target.gen, target.consumed => target'.consumed,
           UNCHANGED <<handler, chatLife, pending, spent, scopes, drawn, picks>>
    PROVE  ChatInv' /\ LatestQueryAnswers
<1>0. ChatTyped /\ talk[c].gen <= drawn
  BY DEF ChatInv, ChatTyped, ChatNumbered
<1>1. PICK x \in Talks : /\ talk' = [talk EXCEPT ![c] = x] /\ x.pc = to /\ x.gen = talk[c].gen
                         /\ x.answer = talk[c].answer
  BY <1>0, TalkAdvances
<1> QED BY <1>0, <1>1, TalkQuiet, FactsAreLatest

\* A query of the market or item chat, or a follow-up of one.
LEMMA QueryStep ==
    ASSUME ChatInv, NEW c \in ChatCalls, NEW e \in ChatEvents, NEW followUp \in BOOLEAN, NEW same \in BOOLEAN,
           MarketQuery(c, e, followUp, same) \/ ItemQueries(c, e, followUp, same)
    PROVE  ChatInv' /\ LatestQueryAnswers
<1>0. /\ UNCHANGED <<handler, chatLife, spent, target, picks>> /\ handler # "logs" /\ ChatTyped
      /\ pending.gen \in Nat /\ pending.gen <= drawn /\ scopes.gen \in Nat /\ scopes.gen <= drawn
      /\ scopes.id \in Nat /\ drawn \in Nat /\ target \in Targets
  BY DEF ChatInv, ChatTyped, ChatNumbered, Pendings, ScopeChoices, MarketQuery, ItemQueries
<1>1. \/ Refuses(c, e) /\ UNCHANGED <<pending, scopes, drawn>>
      \/ Enters(c, e, "show", scopes.gen, scopes.id) /\ UNCHANGED <<pending, scopes, drawn>>
      \/ Enters(c, e, "show", pending.gen, 0) /\ UNCHANGED <<pending, scopes, drawn>>
      \/ /\ scopes' \in {scopes, NoScope} /\ pending' = Begun(e) /\ drawn' = drawn + 1
         /\ Enters(c, e, "resolve", drawn + 1, 0)
  <2>1. CASE MarketQuery(c, e, followUp, same)
    BY <2>1 DEF MarketQuery
  <2>2. CASE ItemQueries(c, e, followUp, same)
    BY <2>2 DEF ItemQueries
  <2> QED BY <2>1, <2>2
<1>2. CASE Refuses(c, e) /\ UNCHANGED <<pending, scopes, drawn>>
  BY <1>0, <1>2, CallRefused
<1>3. CASE Enters(c, e, "show", scopes.gen, scopes.id) /\ UNCHANGED <<pending, scopes, drawn>>
  BY <1>0, <1>3, CallShows
<1>4. CASE Enters(c, e, "show", pending.gen, 0) /\ UNCHANGED <<pending, scopes, drawn>>
  BY <1>0, <1>4, CallShows
<1>5. CASE /\ scopes' \in {scopes, NoScope} /\ pending' = Begun(e) /\ drawn' = drawn + 1
           /\ Enters(c, e, "resolve", drawn + 1, 0)
  <2>1. PICK k \in Nat : k = drawn + 1
    BY <1>0
  <2>2. PICK x \in Talks :
          talk' = [talk EXCEPT ![c] = x] /\ x.pc = "resolve" /\ x.gen = k /\ x.answer = "none"
    BY <1>0, <1>5, <2>1, TalkEnters
  <2>3. PICK n \in Pendings : n = NoPending /\ ~n.batch
    BY NothingTyped
  <2> DEFINE y == [n EXCEPT !.gen = k, !.source = e]
  <2>4. y \in Pendings /\ y.gen = k /\ ~y.batch
    BY <2>3 DEF Pendings, SomeEvents
  <2>5. pending' = y
    BY <1>5, <2>1, <2>3 DEF Begun
  <2> HIDE DEF y
  <2>6. ChatInv'
    BY <1>0, <1>5, <2>1, <2>2, <2>4, <2>5, QueryBegins
  <2>7. LatestQueryAnswers
    BY <2>2, FactsAreLatest
  <2> QED BY <2>6, <2>7
<1> QED BY <1>1, <1>2, <1>3, <1>4, <1>5

\* A selection, or the candidates again.
LEMMA ScopeSelectStep ==
    ASSUME ChatInv, NEW c \in ChatCalls, NEW e \in ChatEvents, NEW s \in Nat, MarketSelectsScope(c, e, s)
    PROVE  ChatInv' /\ LatestQueryAnswers
<1>0. /\ UNCHANGED <<handler, chatLife, pending, target, drawn>> /\ handler # "logs" /\ ChatTyped
      /\ scopes \in ScopeChoices /\ scopes.gen \in Nat /\ e \in SomeEvents /\ scopes.refs \in SUBSET SomeEvents
  BY DEF ChatInv, ChatTyped, MarketSelectsScope, ScopeChoices, SomeEvents
<1>1. CASE ~(Fresh(e) /\ ScopeSelectable(s, e))
  BY <1>0, <1>1, CallRefused DEF MarketSelectsScope
<1>2. CASE Fresh(e) /\ ScopeSelectable(s, e)
  <2> DEFINE y == [scopes EXCEPT !.consumed = TRUE, !.refs = scopes.refs \cup {e}]
  <2>1. scopes' = y
    BY <1>2 DEF MarketSelectsScope
  <2>2. y \in ScopeChoices /\ y.id = scopes.id /\ y.gen = scopes.gen /\ y.consumed
    BY <1>0 DEF ScopeChoices
  <2> HIDE DEF y
  <2>3. scopes.id = s /\ scopes.id # 0 /\ ~scopes.consumed /\ e \notin spent
    BY <1>2 DEF ScopeSelectable, Fresh
  <2>4. CASE TicketCurrent(scopes.gen)
    <3>1. /\ spent' = spent \cup scopes.refs \cup {e}
          /\ picks' = picks \cup {[batch |-> scopes.id, kind |-> "scope", event |-> e]}
          /\ Enters(c, e, "resolve", scopes.gen, s)
      BY <1>2, <2>3, <2>4 DEF MarketSelectsScope
    <3>2. PICK x \in Talks :
            talk' = [talk EXCEPT ![c] = x] /\ x.pc = "resolve" /\ x.gen = scopes.gen /\ x.answer = "none"
      BY <1>0, <3>1, TalkEnters
    <3>3. ChatInv'
      BY <1>0, <2>1, <2>2, <2>3, <2>4, <3>1, <3>2, ScopePicked
    <3> QED BY <3>2, <3>3, FactsAreLatest
  <2>5. CASE ~TicketCurrent(scopes.gen)
    <3>1. UNCHANGED <<picks, spent>> /\ Refuses(c, e)
      BY <1>2, <2>5 DEF MarketSelectsScope
    <3>2. PICK x \in Talks :
            talk' = [talk EXCEPT ![c] = x] /\ x.pc = "done" /\ x.gen = 0 /\ x.answer = "error"
      BY <1>0, <3>1, TalkRefused
    <3>3. ChatInv'
      BY <1>0, <2>1, <2>2, <2>3, <3>1, <3>2, ScopePicked
    <3> QED BY <3>2, <3>3, FactsAreLatest
  <2> QED BY <2>4, <2>5
<1> QED BY <1>1, <1>2

LEMMA ItemSelectStep ==
    ASSUME ChatInv, NEW c \in ChatCalls, NEW e \in ChatEvents, NEW g \in Nat,
           MarketSelectsItem(c, e, g) \/ ItemSelects(c, e, g)
    PROVE  ChatInv' /\ LatestQueryAnswers
<1>0. /\ UNCHANGED <<handler, chatLife, scopes, target, drawn>> /\ handler # "logs" /\ ChatTyped
      /\ pending \in Pendings /\ scopes.id \in Nat /\ e \in SomeEvents
  BY DEF ChatInv, ChatTyped, MarketSelectsItem, ItemSelects, ScopeChoices, SomeEvents
<1>1. \/ Refuses(c, e) /\ UNCHANGED <<pending, spent, picks>>
      \/ /\ Confirmable(g, e) /\ spent' = spent \cup {pending.source, e} /\ pending' = BatchChosen(e)
         /\ picks' = picks \cup {[batch |-> g, kind |-> "item", event |-> e]}
         /\ \E s \in Nat : Enters(c, e, "execute", g, s)
  <2>1. CASE MarketSelectsItem(c, e, g)
    BY <1>0, <2>1 DEF MarketSelectsItem, ScopeOf
  <2>2. CASE ItemSelects(c, e, g)
    BY <2>2 DEF ItemSelects
  <2> QED BY <2>1, <2>2
<1>2. CASE Refuses(c, e) /\ UNCHANGED <<pending, spent, picks>>
  BY <1>0, <1>2, CallRefused
<1>3. CASE /\ Confirmable(g, e) /\ spent' = spent \cup {pending.source, e} /\ pending' = BatchChosen(e)
           /\ picks' = picks \cup {[batch |-> g, kind |-> "item", event |-> e]}
           /\ \E s \in Nat : Enters(c, e, "execute", g, s)
  <2>1. PICK s \in Nat : Enters(c, e, "execute", g, s)
    BY <1>3
  <2>2. PICK x \in Talks :
          talk' = [talk EXCEPT ![c] = x] /\ x.pc = "execute" /\ x.gen = g /\ x.answer = "none"
    BY <1>0, <2>1, TalkEnters
  <2> DEFINE y == [pending EXCEPT !.batch = FALSE, !.used = TRUE, !.confirm = e]
  <2>3. y \in Pendings /\ y.gen = pending.gen /\ ~y.batch
    BY <1>0 DEF Pendings
  <2>4. pending' = y /\ pending.gen = g
    BY <1>3 DEF BatchChosen, Confirmable, TicketCurrent
  <2> HIDE DEF y
  <2>5. ChatInv'
    BY <1>0, <1>3, <2>2, <2>3, <2>4, ItemPicked
  <2> QED BY <2>2, <2>5, FactsAreLatest
<1> QED BY <1>1, <1>2, <1>3

LEMMA ServerSelectStep ==
    ASSUME ChatInv, NEW c \in ChatCalls, NEW e \in ChatEvents, NEW g \in Nat, LogsSelects(c, e, g)
    PROVE  ChatInv' /\ LatestQueryAnswers
<1>0. /\ UNCHANGED <<handler, chatLife, pending, spent, scopes, drawn>> /\ handler = "logs" /\ ChatTyped
      /\ target \in Targets /\ e \in SomeEvents
  BY DEF ChatInv, ChatTyped, LogsSelects, SomeEvents
<1>1. CASE ~LogsSelectable(g, e)
  BY <1>0, <1>1, CallRefused DEF LogsSelects
<1>2. CASE LogsSelectable(g, e)
  <2> DEFINE y == [target EXCEPT !.consumed = TRUE, !.confirm = e, !.inflight = TRUE]
  <2>1. /\ target' = y /\ picks' = picks \cup {[batch |-> g, kind |-> "server", event |-> e]}
        /\ Enters(c, e, "execute", g, 0) /\ target.gen = g
    BY <1>2 DEF LogsSelects, LogsSelectable, TargetCurrent
  <2>2. y \in Targets /\ y.gen = target.gen /\ y.consumed
    BY <1>0 DEF Targets
  <2>3. PICK x \in Talks :
          talk' = [talk EXCEPT ![c] = x] /\ x.pc = "execute" /\ x.gen = g /\ x.answer = "none"
    BY <1>0, <2>1, TalkEnters
  <2> HIDE DEF y
  <2>4. ChatInv'
    BY <1>0, <1>2, <2>1, <2>2, <2>3, ServerPicked
  <2> QED BY <2>3, <2>4, FactsAreLatest
<1> QED BY <1>1, <1>2

LEMMA ClarifyStep ==
    ASSUME ChatInv, NEW c \in ChatCalls, NEW e \in ChatEvents,
           (\E g \in 1..drawn : ChatClarifies(c, e, g)) \/ LogsClarifies(c, e)
    PROVE  ChatInv' /\ LatestQueryAnswers
<1>0. /\ UNCHANGED <<handler, chatLife, pending, spent, scopes, target, drawn, picks>>
      /\ drawn \in Nat /\ target.gen \in Nat /\ target.gen <= drawn
  BY DEF ChatInv, ChatTyped, ChatNumbered, Targets, ChatClarifies, LogsClarifies
<1>1. \/ Refuses(c, e)
      \/ \E g \in Nat : g <= drawn /\ Enters(c, e, "show", g, 0)
      \/ Enters(c, e, "clarify", target.gen, 0)
  BY <1>0 DEF ChatClarifies, LogsClarifies
<1>2. CASE Refuses(c, e)
  BY <1>0, <1>2, CallRefused
<1>3. ASSUME NEW g \in Nat, g <= drawn, Enters(c, e, "show", g, 0) PROVE ChatInv' /\ LatestQueryAnswers
  BY <1>0, <1>3, CallShows
<1>4. CASE Enters(c, e, "clarify", target.gen, 0)
  BY <1>0, <1>4, CallShows
<1> QED BY <1>1, <1>2, <1>3, <1>4

\* The end of a market or item call keeps the pending query or drops it.
LEMMA EndsKeep ==
    ASSUME NEW c \in ChatCalls, NEW a, NEW kept \in BOOLEAN, Ends(c, a, kept)
    PROVE  /\ talk' = [talk EXCEPT ![c].pc = "done", ![c].answer = a]
           /\ pending' \in {pending, NoPending}
BY DEF Ends, Released, Abandoned

LEMMA ResolveStep ==
    ASSUME ChatInv, NEW c \in ChatCalls, MarketResolves(c) \/ ItemResolves(c)
    PROVE  ChatInv' /\ LatestQueryAnswers
<1>0. /\ UNCHANGED <<handler, chatLife, spent, target, picks>> /\ handler # "logs" /\ ChatTyped
      /\ talk \in [ChatCalls -> Talks] /\ talk[c] \in Talks /\ talk[c].pc = "resolve" /\ talk[c].gen # 0
      /\ pending \in Pendings /\ scopes \in ScopeChoices /\ target \in Targets /\ drawn \in Nat
  BY DEF ChatInv, ChatTyped, LatestHolds, MarketResolves, ItemResolves, Said
<1>1. \/ GuardHolds(c) /\ scopes' = ScopePublished(c) /\ drawn' = drawn + 1
         /\ talk' = [talk EXCEPT ![c].pc = "show", ![c].scope = drawn + 1] /\ UNCHANGED pending
      \/ GuardHolds(c) /\ (\E e \in SomeEvents : pending' = [BatchPublished EXCEPT !.confirm = e])
         /\ talk' = [talk EXCEPT ![c].pc = "done", ![c].answer = "candidates"] /\ UNCHANGED <<scopes, drawn>>
      \/ Advances(c, "execute") /\ UNCHANGED <<pending, scopes, drawn>>
      \/ Ends(c, "error", FALSE) /\ UNCHANGED <<scopes, drawn>>
  <2>0. BatchPublished \in Pendings /\ talk[c].event \in SomeEvents
    BY <1>0 DEF BatchPublished, Pendings, Talks
  <2>1. \A b \in Pendings : b = [b EXCEPT !.confirm = b.confirm] /\ b.confirm \in SomeEvents
    BY DEF Pendings
  <2>2. CASE MarketResolves(c)
    BY <2>0, <2>1, <2>2 DEF MarketResolves
  <2>3. CASE ItemResolves(c)
    BY <2>0, <2>1, <2>3 DEF ItemResolves
  <2> QED BY <2>2, <2>3
<1>2. CASE GuardHolds(c) /\ scopes' = ScopePublished(c) /\ drawn' = drawn + 1
           /\ talk' = [talk EXCEPT ![c].pc = "show", ![c].scope = drawn + 1] /\ UNCHANGED pending
  <2>1. PICK k \in Nat : k = drawn + 1
    BY <1>0
  <2>2. TicketCurrent(talk[c].gen)
    BY <1>0, <1>2 DEF GuardHolds
  <2> DEFINE y == [talk[c] EXCEPT !.pc = "show", !.scope = k]
  <2>3. y \in Talks /\ y.pc = "show" /\ y.gen = talk[c].gen /\ y.answer = talk[c].answer
    BY <1>0 DEF Talks
  <2>4. talk' = [talk EXCEPT ![c] = y]
    BY <1>0, <1>2, <2>1
  <2>5. scopes' \in ScopeChoices /\ scopes'.id = k /\ scopes'.gen = talk[c].gen
    <3>1. PICK refs \in SUBSET SomeEvents :
            refs = {talk[c].event} \cup (IF scopes.id # 0 /\ scopes.gen = talk[c].gen THEN scopes.refs ELSE {})
      BY <1>0 DEF Talks, ScopeChoices
    <3>2. scopes' = [id |-> k, gen |-> talk[c].gen, event |-> talk[c].event, consumed |-> FALSE, refs |-> refs]
      BY <1>2, <2>1, <3>1 DEF ScopePublished
    <3> QED BY <1>0, <3>2 DEF ScopeChoices, Talks
  <2> HIDE DEF y
  <2>6. ChatInv'
    BY <1>0, <1>2, <2>1, <2>2, <2>3, <2>4, <2>5, ScopeOpens
  <2>7. LatestQueryAnswers
    BY <2>3, <2>4, FactsAreLatest
  <2> QED BY <2>6, <2>7
<1>3. CASE GuardHolds(c) /\ (\E e \in SomeEvents : pending' = [BatchPublished EXCEPT !.confirm = e])
           /\ talk' = [talk EXCEPT ![c].pc = "done", ![c].answer = "candidates"] /\ UNCHANGED <<scopes, drawn>>
  <2>1. TicketCurrent(talk[c].gen)
    BY <1>0, <1>3 DEF GuardHolds
  <2>2. PICK x \in Talks :
          talk' = [talk EXCEPT ![c] = x] /\ x.pc = "done" /\ x.gen = talk[c].gen /\ x.answer = "candidates"
    BY <1>0, <1>3, TalkEnds
  <2>3. PICK b \in Pendings : b = BatchPublished /\ b.gen = pending.gen /\ b.batch
    <3>1. BatchPublished \in Pendings /\ BatchPublished.gen = pending.gen /\ BatchPublished.batch
      BY <1>0 DEF BatchPublished, Pendings
    <3> QED BY <3>1
  <2>4. PICK e \in SomeEvents : pending' = [b EXCEPT !.confirm = e]
    BY <1>3, <2>3
  <2>5. pending' \in Pendings /\ pending'.gen = pending.gen /\ pending'.batch
    BY <2>3, <2>4 DEF Pendings
  <2>6. ChatInv'
    BY <1>0, <1>3, <2>1, <2>2, <2>5, BatchOpens
  <2> QED BY <2>2, <2>6, FactsAreLatest
<1>4. CASE Advances(c, "execute") /\ UNCHANGED <<pending, scopes, drawn>>
  BY <1>0, <1>4, CallAdvances
<1>5. CASE Ends(c, "error", FALSE) /\ UNCHANGED <<scopes, drawn>>
  BY <1>0, <1>5, EndsKeep, CallEnds
<1> QED BY <1>1, <1>2, <1>3, <1>4, <1>5

LEMMA ExecuteStep ==
    ASSUME ChatInv, NEW c \in ChatCalls, ChatShows(c) \/ ChatExecutes(c)
    PROVE  ChatInv' /\ LatestQueryAnswers
<1>0. /\ UNCHANGED <<handler, chatLife, spent, scopes, target, drawn, picks>> /\ handler # "logs"
      /\ target \in Targets
  BY DEF ChatInv, ChatTyped, ChatShows, ChatExecutes
<1>1. \/ Ends(c, "candidates", TRUE)
      \/ Ends(c, "error", FALSE)
      \/ /\ talk[c].pc = "execute" /\ GuardHolds(c) /\ pending' = NoPending
         /\ talk' = [talk EXCEPT ![c].pc = "done", ![c].answer = "facts"]
  BY DEF ChatShows, ChatExecutes, Said
<1>2. CASE Ends(c, "candidates", TRUE)
  BY <1>0, <1>2, EndsKeep, CallEnds
<1>3. CASE Ends(c, "error", FALSE)
  BY <1>0, <1>3, EndsKeep, CallEnds
<1>4. CASE /\ talk[c].pc = "execute" /\ GuardHolds(c) /\ pending' = NoPending
           /\ talk' = [talk EXCEPT ![c].pc = "done", ![c].answer = "facts"]
  <2>1. talk[c].life = chatLife /\ TicketCurrent(talk[c].gen)
    BY <1>4 DEF GuardHolds, ChatInv, LatestHolds
  <2> QED BY <1>0, <1>4, <2>1, CallEnds
<1> QED BY <1>1, <1>2, <1>3, <1>4

\* The FFLogs query.
LEMMA LogsQueryStep ==
    ASSUME ChatInv, NEW c \in ChatCalls, NEW e \in ChatEvents, NEW followUp \in BOOLEAN, NEW same \in BOOLEAN,
           LogsQueries(c, e, followUp, same)
    PROVE  ChatInv' /\ LatestQueryAnswers
<1>0. /\ UNCHANGED <<handler, chatLife, pending, spent, scopes, picks>> /\ handler = "logs" /\ ChatTyped
      /\ target.gen \in Nat /\ target.gen <= drawn /\ drawn \in Nat /\ pending \in Pendings
  BY DEF ChatInv, ChatTyped, ChatNumbered, Targets, LogsQueries
<1>1. \/ Refuses(c, e) /\ UNCHANGED <<target, drawn>>
      \/ Enters(c, e, "clarify", target.gen, 0) /\ UNCHANGED <<target, drawn>>
      \/ \E missing \in BOOLEAN :
              /\ target' = [NoTarget EXCEPT !.gen = drawn + 1, !.event = e, !.inflight = ~missing]
              /\ drawn' = drawn + 1
              /\ Enters(c, e, IF missing THEN "clarify" ELSE "resolve", drawn + 1, 0)
  BY DEF LogsQueries
<1>2. CASE Refuses(c, e) /\ UNCHANGED <<target, drawn>>
  BY <1>0, <1>2, CallRefused
<1>3. CASE Enters(c, e, "clarify", target.gen, 0) /\ UNCHANGED <<target, drawn>>
  BY <1>0, <1>3, CallShows
<1>4. ASSUME NEW missing \in BOOLEAN,
             target' = [NoTarget EXCEPT !.gen = drawn + 1, !.event = e, !.inflight = ~missing],
             drawn' = drawn + 1,
             Enters(c, e, IF missing THEN "clarify" ELSE "resolve", drawn + 1, 0)
      PROVE  ChatInv' /\ LatestQueryAnswers
  <2>1. PICK k \in Nat : k = drawn + 1
    BY <1>0
  <2>2. PICK to \in {"clarify", "resolve"} : to = IF missing THEN "clarify" ELSE "resolve"
    OBVIOUS
  <2>3. PICK x \in Talks : talk' = [talk EXCEPT ![c] = x] /\ x.pc = to /\ x.gen = k /\ x.answer = "none"
    BY <1>0, <1>4, <2>1, <2>2, TalkEnters
  <2>4. PICK n \in Targets : n = NoTarget
    BY NothingTyped
  <2>5. PICK b \in BOOLEAN : b = ~missing
    OBVIOUS
  <2> DEFINE y == [n EXCEPT !.gen = k, !.event = e, !.inflight = b]
  <2>6. y \in Targets /\ y.gen = k
    BY DEF Targets, SomeEvents
  <2>7. target' = y
    BY <1>4, <2>1, <2>4, <2>5
  <2> HIDE DEF y
  <2>8. ChatInv'
    BY <1>0, <1>4, <2>1, <2>3, <2>6, <2>7, QueryBegins
  <2> QED BY <2>3, <2>8, FactsAreLatest
<1> QED BY <1>1, <1>2, <1>3, <1>4

LEMMA LandedKeeps ==
    ASSUME ChatTyped, NEW c \in ChatCalls
    PROVE  /\ Landed(c) \in Targets /\ Landed(c).gen = target.gen
           /\ target.consumed => Landed(c).consumed
BY DEF ChatTyped, Landed, Targets

LEMMA LogsStep ==
    ASSUME ChatInv, NEW c \in ChatCalls,
           LogsShows(c) \/ LogsResolves(c) \/ LogsPublishes(c) \/ LogsExecutes(c)
    PROVE  ChatInv' /\ LatestQueryAnswers
<1>0. /\ UNCHANGED <<handler, chatLife, pending, spent, scopes, drawn, picks>> /\ handler = "logs" /\ ChatTyped
      /\ target \in Targets /\ talk[c] \in Talks
  BY DEF ChatInv, ChatTyped, LogsShows, LogsResolves, LogsPublishes, LogsExecutes
<1>1. CASE LogsShows(c)
  <2>1. PICK a \in {"candidates", "error"} : talk' = [talk EXCEPT ![c].pc = "done", ![c].answer = a]
    BY <1>1 DEF LogsShows
  <2>2. UNCHANGED target
    BY <1>1 DEF LogsShows
  <2> QED BY <1>0, <2>1, <2>2, CallEnds
<1>2. CASE LogsResolves(c)
  <2>1. CASE LogsGuard(c) /\ Advances(c, "execute") /\ UNCHANGED target
    BY <1>0, <1>2, <2>1, CallAdvances DEF LogsResolves, Said
  <2>2. CASE talk' = [talk EXCEPT ![c].pc = "done", ![c].answer = "error"] /\ target' = Landed(c)
    BY <1>0, <2>2, LandedKeeps, CallEnds
  <2> QED BY <1>2, <2>1, <2>2 DEF LogsResolves
<1>3. CASE LogsPublishes(c)
  <2> DEFINE y == [target EXCEPT !.batch = TRUE, !.event = talk[c].event, !.inflight = FALSE]
  <2>1. target' = y /\ ~target.consumed /\ Advances(c, "clarify") /\ talk[c].pc = "execute"
    BY <1>3 DEF LogsPublishes, Said
  <2>2. y \in Targets /\ y.gen = target.gen
    BY <1>0 DEF Targets, Talks
  <2> HIDE DEF y
  <2> QED BY <1>0, <2>1, <2>2, CallAdvances
<1>4. CASE LogsExecutes(c)
  <2>1. CASE target' = Landed(c) /\ talk' = [talk EXCEPT ![c].pc = "done", ![c].answer = "error"]
    BY <1>0, <2>1, LandedKeeps, CallEnds
  <2>2. CASE /\ LogsGuard(c) /\ target' = [Landed(c) EXCEPT !.consumed = @ \/ ~target.batch]
             /\ talk' = [talk EXCEPT ![c].pc = "done", ![c].answer = "facts"]
    <3>1. PICK l \in Targets : l = Landed(c) /\ l.gen = target.gen /\ (target.consumed => l.consumed)
      BY <1>0, LandedKeeps
    <3>2. PICK b \in BOOLEAN : b = (l.consumed \/ ~target.batch)
      OBVIOUS
    <3>3. target' = [l EXCEPT !.consumed = b]
      BY <2>2, <3>1, <3>2
    <3>4. target' \in Targets /\ target'.gen = target.gen /\ target'.consumed = b
      BY <3>1, <3>3 DEF Targets
    <3>5. talk[c].pc = "execute" /\ talk[c].life = chatLife /\ TargetCurrent(talk[c].gen)
      BY <1>4, <2>2 DEF LogsExecutes, Said, LogsGuard, ChatInv, LatestHolds
    <3> QED BY <1>0, <2>2, <3>1, <3>2, <3>4, <3>5, CallEnds
  <2> QED BY <1>4, <2>1, <2>2 DEF LogsExecutes
<1> QED BY <1>1, <1>2, <1>3, <1>4

LEMMA ChatStep ==
    ASSUME ChatInv, ChatNext
    PROVE  ChatInv' /\ LatestQueryAnswers
<1>0. drawn \in Nat /\ 1..drawn \subseteq Nat
  BY DEF ChatInv, ChatTyped
<1>1. CASE ChatForgets \/ ChatCloses
  BY <1>1, ForgetStep
<1>2. ASSUME NEW c \in ChatCalls, NEW e \in ChatEvents, NEW followUp \in BOOLEAN, NEW same \in BOOLEAN,
             MarketQuery(c, e, followUp, same) \/ ItemQueries(c, e, followUp, same)
             \/ LogsQueries(c, e, followUp, same)
      PROVE  ChatInv' /\ LatestQueryAnswers
  BY <1>2, QueryStep, LogsQueryStep
<1>3. ASSUME NEW c \in ChatCalls, NEW e \in ChatEvents, NEW g \in 1..drawn,
             MarketSelectsScope(c, e, g) \/ MarketSelectsItem(c, e, g) \/ ItemSelects(c, e, g)
             \/ LogsSelects(c, e, g)
      PROVE  ChatInv' /\ LatestQueryAnswers
  BY <1>0, <1>3, ScopeSelectStep, ItemSelectStep, ServerSelectStep
<1>4. ASSUME NEW c \in ChatCalls, NEW e \in ChatEvents,
             (\E g \in 1..drawn : ChatClarifies(c, e, g)) \/ LogsClarifies(c, e)
      PROVE  ChatInv' /\ LatestQueryAnswers
  BY <1>4, ClarifyStep
<1>5. ASSUME NEW c \in ChatCalls,
             MarketResolves(c) \/ ItemResolves(c) \/ ChatShows(c) \/ ChatExecutes(c)
             \/ LogsShows(c) \/ LogsResolves(c) \/ LogsPublishes(c) \/ LogsExecutes(c)
      PROVE  ChatInv' /\ LatestQueryAnswers
  BY <1>5, ResolveStep, ExecuteStep, LogsStep
<1> QED BY <1>1, <1>2, <1>3, <1>4, <1>5 DEF ChatNext

LEMMA ChatStutter ==
    ASSUME ChatInv, UNCHANGED chatVars
    PROVE  ChatInv'
BY DEF chatVars, ChatInv, ChatTyped, ChatNumbered, LatestHolds, OneResolves, ItemsSettle, LeftAlone,
   ScopeOpen, Resolving, PicksClose, OneSelection

\* The market, item and logs chats, for any number of calls and messages: one message
\* confirms one selection, a batch is selected from once, and facts are the latest query's.
THEOREM ChatConsistent == MCSpec => ChatIsConsistent
<1> DEFINE Kept == part = "chat" => ChatInv
           Current == part = "chat" => OneSelection' /\ LatestQueryAnswers
<1>1. MCInit => Kept
  BY ChatInitInv DEF MCInit
<1>2. Kept /\ [MCNext]_AllVars => Kept'
  BY ChatStep, ChatStutter DEF MCNext, AllVars
<1>3. ASSUME Kept, MCNext, part = "chat"
      PROVE  OneSelection' /\ LatestQueryAnswers
  <2>1. ChatNext /\ ChatInv
    BY <1>3 DEF MCNext
  <2> QED BY <2>1, ChatStep DEF ChatInv
<1>4. Kept /\ [MCNext]_AllVars => [Current]_chatVars
  BY <1>3 DEF AllVars
<1> QED BY <1>1, <1>2, <1>4, PTL DEF MCSpec, ChatIsConsistent, AllVars

-----------------------------------------------------------------------------
\* AdminRequests: one request is inside the gate; what it has seen of the
\* configuration still stands, what it has seen of the registry stands
\* while its snapshot is the published one; a proof ends with the pages.

AdminStates == {"idle", "body", "dispatch", "waiting", "inside", "publishing", "replying", "copied",
                "disabling", "preparing", "detaching", "ending"}
InGate == {"inside", "publishing", "copied", "preparing", "detaching"}
RegistryStates == {"on", "off", "failed", "gone"}
Sights == UNION {[S -> RegistryStates \X (AdminCalls \cup {"boot"})] : S \in SUBSET AdminModules}
AdminRecords == [at: AdminStates, kind: Endpoints \cup {"none"}, mod: AdminModules \cup {"none"},
                 proof: BOOLEAN, same: BOOLEAN, sel: BOOLEAN, fresh: BOOLEAN, seen: Sights, wrote: BOOLEAN]

AdminTyped ==
    /\ pagesOpen \in BOOLEAN /\ accepting \in BOOLEAN
    /\ registered \in [AdminModules -> RegistryStates]
    /\ configured \in [AdminModules -> AdminCalls \cup {"boot"}]
    /\ admin \in [AdminCalls -> AdminRecords]

\* Which endpoint a request in this place serves.
AdminShape(r) ==
    /\ r.kind \in {"update", "copy", "unload"} => r.mod \in AdminModules
    /\ r.at \in {"publishing", "replying"} => r.kind = "update" /\ r.wrote
    /\ r.at = "copied" => r.kind = "copy"
    /\ r.at \in {"disabling", "preparing", "detaching"} => r.kind = "unload"

\* What a request relies on.
RequestHolds(a, r) ==
    /\ r.at \in InGate => adminGate = a
    /\ r.proof => pagesOpen
    /\ r.kind \in {"update", "copy"} /\ (r.sel \/ (r.at = "inside" /\ r.kind = "update")) =>
          registered[r.mod] # "gone"
    /\ \A p \in DOMAIN r.seen :
          /\ r.at = "inside" /\ r.kind \in {"list", "status", "read"}
          /\ r.seen[p][2] = configured[p]
          /\ r.same => r.seen[p] = <<registered[p], configured[p]>>

AdminInv ==
    /\ AdminTyped
    /\ \A a \in AdminCalls : AdminShape(admin[a]) /\ RequestHolds(a, admin[a])

LEMMA NothingSeen == << >> \in Sights /\ DOMAIN << >> = {}
<1>1. << >> \in [{} -> RegistryStates \X (AdminCalls \cup {"boot"})]
  OBVIOUS
<1>2. {} \in SUBSET AdminModules
  OBVIOUS
<1>3. DOMAIN << >> = {}
  OBVIOUS
<1> QED BY <1>1, <1>2, <1>3 DEF Sights

LEMMA NoAdminTyped ==
    /\ NoAdmin \in AdminRecords /\ NoAdmin.at = "idle" /\ NoAdmin.kind = "none" /\ NoAdmin.mod = "none"
    /\ ~NoAdmin.proof /\ ~NoAdmin.same /\ ~NoAdmin.sel /\ ~NoAdmin.fresh /\ ~NoAdmin.wrote
    /\ NoAdmin.seen = << >> /\ DOMAIN NoAdmin.seen = {}
<1> USE NothingSeen
<1>1. NoAdmin \in AdminRecords
  BY DEF NoAdmin, AdminRecords, AdminStates
<1> QED BY <1>1 DEF NoAdmin

LEMMA AdminInitInv == AdminInit => AdminInv
<1> SUFFICES ASSUME AdminInit PROVE AdminInv
  OBVIOUS
<1>1. AdminTyped
  BY NoAdminTyped DEF AdminInit, AdminTyped, RegistryStates
<1>2. \A a \in AdminCalls : admin[a] = NoAdmin
  BY DEF AdminInit
<1>3. \A a \in AdminCalls : AdminShape(admin[a]) /\ RequestHolds(a, admin[a])
  BY <1>2, NoAdminTyped DEF AdminShape, RequestHolds, InGate
<1> QED BY <1>1, <1>3 DEF AdminInv

\* One request moves to x; registry and configuration stay.
LEMMA RequestMoves ==
    ASSUME AdminInv, NEW a \in AdminCalls, NEW x \in AdminRecords, admin' = [admin EXCEPT ![a] = x],
           UNCHANGED <<pagesOpen, accepting, registered, configured>>,
           adminGate' # adminGate => adminGate \in {a, "free"},
           AdminShape(x), RequestHolds(a, x)'
    PROVE  AdminInv' /\ EffectsAreAuthorized
<1>0. admin \in [AdminCalls -> AdminRecords] /\ AdminTyped
  BY DEF AdminInv, AdminTyped
<1>1. AdminTyped'
  BY <1>0 DEF AdminTyped
<1>2. ASSUME NEW b \in AdminCalls PROVE AdminShape(admin'[b]) /\ RequestHolds(b, admin[b])'
  <2>1. CASE b = a
    <3>1. admin'[b] = x
      BY <1>0, <2>1
    <3> QED BY <2>1, <3>1 DEF RequestHolds
  <2>2. CASE b # a
    <3>1. admin'[b] = admin[b] /\ AdminShape(admin[b]) /\ RequestHolds(b, admin[b]) /\ b # "free"
      BY <1>0, <2>2, AdminAssumption DEF AdminInv, AdminAssumption
    <3>2. admin[b].at \in InGate => adminGate' = b
      BY <2>2, <3>1 DEF RequestHolds
    <3> QED BY <3>1, <3>2 DEF RequestHolds
  <2> QED BY <2>1, <2>2
<1>3. AdminInv'
  BY <1>1, <1>2 DEF AdminInv, AdminShape
<1>4. EffectsAreAuthorized
  BY DEF EffectsAreAuthorized
<1> QED BY <1>3, <1>4

\* A request that does not come to its decision.
LEMMA NoAnswer ==
    ASSUME AdminInv, NEW a \in AdminCalls, NEW x, admin' = [admin EXCEPT ![a] = x], x.at # "ending"
    PROVE  AnswersTellTruth
BY DEF AdminInv, AdminTyped, AnswersTellTruth

Truth(a) ==
    /\ admin[a].kind \in {"list", "status"} =>
          \A p \in AdminModules : admin[a].seen[p] = <<registered[p], configured[p]>>
    /\ admin[a].kind = "read" => \A p \in AdminModules : admin[a].seen[p][2] = configured[p]
    /\ admin[a].kind = "update" => admin[a].wrote
    /\ admin[a].kind = "unload" => registered[admin[a].mod] = "gone"

LEMMA DecidedTyped ==
    ASSUME AdminInv, NEW a \in AdminCalls, NEW good \in BOOLEAN
    PROVE  /\ Decides(a, good) \in AdminRecords /\ Decides(a, good).at \in {"idle", "ending"}
           /\ Decides(a, good).at = "ending" => good
           /\ Decides(a, good).kind = "none" /\ ~Decides(a, good).sel /\ ~Decides(a, good).same
           /\ Decides(a, good).proof => admin[a].proof
           /\ DOMAIN Decides(a, good).seen = {}
<1>0. admin[a] \in AdminRecords /\ admin[a].proof \in BOOLEAN
  BY DEF AdminInv, AdminTyped, AdminRecords
<1>1. PICK n \in AdminRecords : /\ n = NoAdmin /\ n.at = "idle" /\ n.kind = "none" /\ ~n.proof /\ ~n.sel
                                /\ ~n.same /\ DOMAIN n.seen = {}
  BY NoAdminTyped
<1>2. PICK b \in BOOLEAN : b = admin[a].proof
  BY <1>0
<1> DEFINE y == [n EXCEPT !.at = "ending", !.proof = b]
<1>3. y \in AdminRecords /\ y.at = "ending" /\ y.kind = n.kind /\ y.sel = n.sel /\ y.same = n.same
      /\ y.proof = b /\ y.seen = n.seen
  BY <1>1 DEF AdminRecords, AdminStates
<1>4. Decides(a, good) = IF good THEN y ELSE n
  BY <1>1, <1>2 DEF Decides
<1> HIDE DEF y
<1>5. CASE good
  BY <1>1, <1>2, <1>3, <1>4, <1>5
<1>6. CASE ~good
  BY <1>1, <1>4, <1>6
<1> QED BY <1>5, <1>6

\* A request is decided or refused, and lets the gate go if it had it.
LEMMA DecisionStep ==
    ASSUME AdminInv, NEW a \in AdminCalls, NEW good \in BOOLEAN, good => Truth(a),
           admin' = [admin EXCEPT ![a] = Decides(a, good)],
           UNCHANGED <<pagesOpen, accepting, registered, configured>>,
           adminGate' = adminGate \/ LetsGo(a)
    PROVE  AdminInv' /\ EffectsAreAuthorized /\ AnswersTellTruth
<1>0. admin \in [AdminCalls -> AdminRecords] /\ (admin[a].proof => pagesOpen)
  BY DEF AdminInv, AdminTyped, RequestHolds
<1>1. PICK x \in AdminRecords :
        /\ x = Decides(a, good) /\ x.at \in {"idle", "ending"} /\ (x.at = "ending" => good)
        /\ x.kind = "none" /\ ~x.sel /\ ~x.same /\ (x.proof => admin[a].proof) /\ DOMAIN x.seen = {}
  BY DecidedTyped
<1>2. AdminShape(x) /\ RequestHolds(a, x)'
  BY <1>0, <1>1 DEF AdminShape, RequestHolds, InGate
<1>3. adminGate' # adminGate => adminGate \in {a, "free"}
  BY DEF LetsGo
<1>4. AdminInv' /\ EffectsAreAuthorized
  BY <1>1, <1>2, <1>3, RequestMoves
<1>5. AnswersTellTruth
  BY <1>0, <1>1 DEF AnswersTellTruth, Truth
<1> QED BY <1>4, <1>5

LEMMA RefusedStep ==
    ASSUME AdminInv, NEW a \in AdminCalls, Refused(a),
           UNCHANGED <<pagesOpen, accepting, registered, configured>>,
           adminGate' = adminGate \/ LetsGo(a)
    PROVE  AdminInv' /\ EffectsAreAuthorized /\ AnswersTellTruth
<1>1. admin' = [admin EXCEPT ![a] = Decides(a, FALSE)]
  BY DEF Refused, AdminGoes, Decides
<1> QED BY <1>1, DecisionStep

\* A request goes to another place and keeps what it knows.
LEMMA AdminAtTyped ==
    ASSUME AdminInv, NEW a \in AdminCalls, NEW at \in AdminStates
    PROVE  LET y == AdminAt(a, at) IN
           /\ y \in AdminRecords /\ y.at = at /\ y.kind = admin[a].kind /\ y.mod = admin[a].mod
           /\ y.proof = admin[a].proof /\ y.same = admin[a].same /\ y.sel = admin[a].sel
           /\ y.fresh = admin[a].fresh /\ y.seen = admin[a].seen /\ y.wrote = admin[a].wrote
BY DEF AdminInv, AdminTyped, AdminAt, AdminRecords

LEMMA WalkStep ==
    ASSUME AdminInv, NEW a \in AdminCalls, NEW at \in {"dispatch", "waiting", "disabling", "replying", "detaching"},
           NEW x \in AdminRecords, x.at = at, x.kind = admin[a].kind, x.mod = admin[a].mod,
           x.proof = admin[a].proof, x.same = admin[a].same, x.seen = admin[a].seen, x.wrote = admin[a].wrote,
           AdminGoes(a, x), UNCHANGED <<pagesOpen, accepting, registered, configured>>,
           adminGate' = adminGate \/ (LetsGo(a) /\ at \notin InGate),
           x.sel /\ ~admin[a].sel => registered[x.mod] # "gone",
           DOMAIN admin[a].seen = {},
           AdminShape(x), at = "detaching" => adminGate = a
    PROVE  AdminInv' /\ EffectsAreAuthorized /\ AnswersTellTruth
<1>0. RequestHolds(a, admin[a]) /\ admin' = [admin EXCEPT ![a] = x] /\ x.at # "ending"
  BY DEF AdminInv, AdminGoes
<1>1. RequestHolds(a, x)'
  BY <1>0 DEF RequestHolds, InGate
<1>2. adminGate' # adminGate => adminGate \in {a, "free"}
  BY DEF LetsGo
<1> QED BY <1>0, <1>1, <1>2, RequestMoves, NoAnswer

LEMMA EntryStep ==
    ASSUME AdminInv, NEW a \in AdminCalls, Enter(a)
    PROVE  AdminInv' /\ EffectsAreAuthorized /\ AnswersTellTruth
<1>0. UNCHANGED <<pagesOpen, accepting, registered, configured, adminGate>> /\ pagesOpen
  BY DEF Enter
<1>1. PICK sort \in Endpoints, p \in AdminModules :
        AdminGoes(a, [NoAdmin EXCEPT !.at = "body", !.kind = sort, !.proof = TRUE,
                      !.mod = IF sort \in {"update", "copy", "unload"} THEN p ELSE "none"])
  BY DEF Enter
<1>2. PICK m \in AdminModules \cup {"none"} : m = IF sort \in {"update", "copy", "unload"} THEN p ELSE "none"
  OBVIOUS
<1>3. PICK n \in AdminRecords : n = NoAdmin /\ ~n.sel /\ DOMAIN n.seen = {}
  BY NoAdminTyped
<1> DEFINE y == [n EXCEPT !.at = "body", !.kind = sort, !.proof = TRUE, !.mod = m]
<1>4. y \in AdminRecords /\ y.at = "body" /\ y.kind = sort /\ y.mod = m /\ y.sel = n.sel /\ y.seen = n.seen
  BY <1>3 DEF AdminRecords, AdminStates
<1>5. admin' = [admin EXCEPT ![a] = y]
  BY <1>1, <1>2, <1>3 DEF AdminGoes
<1> HIDE DEF y
<1>6. PICK x \in AdminRecords : /\ x = y /\ x.at = "body" /\ x.kind = sort /\ x.mod = m /\ ~x.sel
                                /\ DOMAIN x.seen = {}
  BY <1>3, <1>4
<1>7. AdminShape(x) /\ RequestHolds(a, x)'
  BY <1>0, <1>2, <1>6 DEF AdminShape, RequestHolds, InGate
<1> QED BY <1>0, <1>5, <1>6, <1>7, RequestMoves, NoAnswer

LEMMA DispatchStep ==
    ASSUME AdminInv, NEW a \in AdminCalls, ReadBody(a) \/ Dispatch(a)
    PROVE  AdminInv' /\ EffectsAreAuthorized /\ AnswersTellTruth
<1>0. /\ UNCHANGED <<pagesOpen, accepting, registered, configured, adminGate>>
      /\ admin[a] \in AdminRecords /\ AdminShape(admin[a]) /\ RequestHolds(a, admin[a])
      /\ admin[a].at \in {"body", "dispatch"} /\ DOMAIN admin[a].seen = {}
  BY DEF AdminInv, AdminTyped, ReadBody, Dispatch, RequestHolds
<1>1. CASE Refused(a)
  BY <1>0, <1>1, RefusedStep
<1>2. ASSUME NEW at \in {"dispatch", "waiting", "disabling"}, AdminGoes(a, AdminAt(a, at)),
             at = "disabling" => admin[a].kind = "unload"
      PROVE  AdminInv' /\ EffectsAreAuthorized /\ AnswersTellTruth
  <2>1. PICK x \in AdminRecords :
           /\ x = AdminAt(a, at) /\ x.at = at /\ x.kind = admin[a].kind /\ x.mod = admin[a].mod
           /\ x.proof = admin[a].proof /\ x.same = admin[a].same /\ x.sel = admin[a].sel
           /\ x.seen = admin[a].seen /\ x.wrote = admin[a].wrote
    BY AdminAtTyped DEF AdminStates
  <2>2. AdminShape(x)
    BY <1>0, <1>2, <2>1 DEF AdminShape
  <2> QED BY <1>0, <1>2, <2>1, <2>2, WalkStep
<1>3. ASSUME NEW fresh \in BOOLEAN, AdminGoes(a, Selects(a, fresh)), registered[admin[a].mod] # "gone"
      PROVE  AdminInv' /\ EffectsAreAuthorized /\ AnswersTellTruth
  <2>1. PICK x \in AdminRecords :
           /\ x = AdminAt(a, "waiting") /\ x.at = "waiting" /\ x.kind = admin[a].kind /\ x.mod = admin[a].mod
           /\ x.proof = admin[a].proof /\ x.same = admin[a].same
           /\ x.seen = admin[a].seen /\ x.wrote = admin[a].wrote
    BY AdminAtTyped DEF AdminStates
  <2> DEFINE y == [x EXCEPT !.sel = TRUE, !.fresh = fresh]
  <2>2. /\ y \in AdminRecords /\ y.at = x.at /\ y.kind = x.kind /\ y.mod = x.mod /\ y.proof = x.proof
        /\ y.same = x.same /\ y.seen = x.seen /\ y.wrote = x.wrote
    BY DEF AdminRecords
  <2>3. AdminGoes(a, y)
    BY <1>3, <2>1 DEF Selects
  <2> HIDE DEF y
  <2>4. AdminShape(y)
    BY <1>0, <2>1, <2>2 DEF AdminShape
  <2> QED BY <1>0, <1>3, <2>1, <2>2, <2>3, <2>4, WalkStep
<1>4. CASE ReadBody(a)
  BY <1>1, <1>2, <1>4 DEF ReadBody
<1>5. CASE Dispatch(a)
  BY <1>1, <1>2, <1>3, <1>5 DEF Dispatch
<1> QED BY <1>4, <1>5

LEMMA MembershipIsBoolean == ASSUME NEW e, NEW S PROVE \E b \in BOOLEAN : b = (e \in S)
<1>1. CASE e \in S
  <2>1. TRUE = (e \in S)
    BY <1>1
  <2> QED BY <2>1
<1>2. CASE e \notin S
  <2>1. FALSE = (e \in S)
    BY <1>2
  <2> QED BY <2>1
<1> QED BY <1>1, <1>2

LEMMA EnterGateStep ==
    ASSUME AdminInv, NEW a \in AdminCalls, TakeGate(a)
    PROVE  AdminInv' /\ EffectsAreAuthorized /\ AnswersTellTruth
<1>0. /\ UNCHANGED <<pagesOpen, accepting, registered, configured>>
      /\ admin[a] \in AdminRecords /\ AdminShape(admin[a]) /\ RequestHolds(a, admin[a])
      /\ admin[a].at = "waiting" /\ DOMAIN admin[a].seen = {} /\ adminGate = "free"
  <2>1. admin[a] \in AdminRecords /\ AdminShape(admin[a]) /\ RequestHolds(a, admin[a])
    BY DEF AdminInv, AdminTyped
  <2>2. admin[a].at = "waiting" /\ UNCHANGED <<pagesOpen, accepting, registered, configured>> /\ adminGate = "free"
    BY DEF TakeGate, GateFree
  <2>3. DOMAIN admin[a].seen = {}
    BY <2>1, <2>2 DEF RequestHolds
  <2> QED BY <2>1, <2>2, <2>3
<1>1. CASE ~Admits(a)
  BY <1>0, <1>1, RefusedStep DEF TakeGate
<1>2. CASE Admits(a)
  <2>1. AdminGoes(a, Inside(a)) /\ adminGate' = a
    BY <1>2 DEF TakeGate
  <2>2. admin[a].kind = "update" => registered[admin[a].mod] # "gone"
    BY <1>2 DEF Admits
  <2>3. CASE admin[a].kind = "unload"
    <3>1. PICK x \in AdminRecords :
           /\ x = AdminAt(a, "preparing") /\ x.at = "preparing" /\ x.kind = admin[a].kind
           /\ x.mod = admin[a].mod /\ x.proof = admin[a].proof /\ x.seen = admin[a].seen
      BY AdminAtTyped DEF AdminStates
    <3> DEFINE y == [x EXCEPT !.sel = TRUE]
    <3>2. /\ y \in AdminRecords /\ y.at = x.at /\ y.kind = x.kind /\ y.mod = x.mod /\ y.proof = x.proof
          /\ y.seen = x.seen
      BY DEF AdminRecords
    <3>3. admin' = [admin EXCEPT ![a] = y]
      BY <2>1, <2>3, <3>1 DEF Inside, AdminGoes
    <3> HIDE DEF y
    <3>4. PICK z \in AdminRecords : /\ z = y /\ z.at = "preparing" /\ z.kind = "unload" /\ z.mod = admin[a].mod
                                    /\ z.proof = admin[a].proof /\ DOMAIN z.seen = {}
      BY <1>0, <2>3, <3>1, <3>2
    <3>5. AdminShape(z) /\ RequestHolds(a, z)'
      BY <1>0, <2>1, <2>3, <3>4 DEF AdminShape, RequestHolds, InGate
    <3> QED BY <1>0, <3>3, <3>4, <3>5, RequestMoves, NoAnswer
  <2>4. CASE admin[a].kind # "unload"
    <3>1. PICK x \in AdminRecords :
           /\ x = AdminAt(a, "inside") /\ x.at = "inside" /\ x.kind = admin[a].kind /\ x.sel = admin[a].sel
           /\ x.mod = admin[a].mod /\ x.proof = admin[a].proof /\ x.seen = admin[a].seen
      BY AdminAtTyped DEF AdminStates
    <3>2. PICK b \in BOOLEAN : b = (admin[a].kind \in {"list", "status", "catalog"})
      BY MembershipIsBoolean, Zenon
    <3> DEFINE y == [x EXCEPT !.same = b]
    <3>3. /\ y \in AdminRecords /\ y.at = x.at /\ y.kind = x.kind /\ y.mod = x.mod /\ y.proof = x.proof
          /\ y.seen = x.seen /\ y.sel = x.sel
      BY DEF AdminRecords
    <3>4. admin' = [admin EXCEPT ![a] = y]
      BY <2>1, <2>4, <3>1, <3>2 DEF Inside, AdminGoes
    <3> HIDE DEF y
    <3>5. PICK z \in AdminRecords : /\ z = y /\ z.at = "inside" /\ z.kind = admin[a].kind /\ z.mod = admin[a].mod
                                    /\ z.proof = admin[a].proof /\ DOMAIN z.seen = {} /\ z.sel = admin[a].sel
      BY <1>0, <3>1, <3>3
    <3>6. AdminShape(z) /\ RequestHolds(a, z)'
      BY <1>0, <2>1, <2>2, <3>5 DEF AdminShape, RequestHolds, InGate
    <3> QED BY <1>0, <3>4, <3>5, <3>6, RequestMoves, NoAnswer
  <2> QED BY <2>3, <2>4
<1> QED BY <1>1, <1>2

\* A module is seen as it is, under the gate.
LEMMA ReadStep ==
    ASSUME AdminInv, NEW a \in AdminCalls, ReadModule(a)
    PROVE  AdminInv' /\ EffectsAreAuthorized /\ AnswersTellTruth
<1>0. /\ UNCHANGED <<pagesOpen, accepting, registered, configured>>
      /\ admin[a] \in AdminRecords /\ AdminShape(admin[a]) /\ RequestHolds(a, admin[a])
      /\ admin[a].at = "inside" /\ admin[a].kind \in {"list", "status", "read"} /\ admin[a].seen \in Sights
      /\ registered \in [AdminModules -> RegistryStates]
      /\ configured \in [AdminModules -> AdminCalls \cup {"boot"}]
  BY DEF AdminInv, AdminTyped, ReadModule, AdminRecords
<1>1. PICK p \in AdminModules :
          IF admin[a].kind = "list" \/ Validated(a)
          THEN AdminGoes(a, Sees(a, p)) /\ UNCHANGED adminGate
          ELSE Refused(a) /\ LetsGo(a)
  BY DEF ReadModule
<1>2. CASE ~(admin[a].kind = "list" \/ Validated(a))
  BY <1>0, <1>1, <1>2, RefusedStep
<1>3. CASE admin[a].kind = "list" \/ Validated(a)
  <2> DEFINE s == [q \in (DOMAIN admin[a].seen) \cup {p} |->
                    IF q = p THEN <<registered[p], configured[p]>> ELSE admin[a].seen[q]]
  <2>1. s \in Sights
    <3>1. PICK S \in SUBSET AdminModules : admin[a].seen \in [S -> RegistryStates \X (AdminCalls \cup {"boot"})]
      BY <1>0 DEF Sights
    <3>2. <<registered[p], configured[p]>> \in RegistryStates \X (AdminCalls \cup {"boot"})
      BY <1>0
    <3>3. s \in [S \cup {p} -> RegistryStates \X (AdminCalls \cup {"boot"})]
      BY <3>1, <3>2
    <3>4. S \cup {p} \in SUBSET AdminModules
      OBVIOUS
    <3> QED BY <3>3, <3>4 DEF Sights
  <2>2. PICK t \in Sights : t = s
    BY <2>1
  <2>3. /\ DOMAIN t = (DOMAIN admin[a].seen) \cup {p}
        /\ \A q \in DOMAIN t : t[q] = IF q = p THEN <<registered[p], configured[p]>> ELSE admin[a].seen[q]
    BY <2>2
  <2> DEFINE y == [admin[a] EXCEPT !.seen = t]
  <2>4. /\ y \in AdminRecords /\ y.at = admin[a].at /\ y.kind = admin[a].kind /\ y.mod = admin[a].mod
        /\ y.proof = admin[a].proof /\ y.seen = t /\ y.sel = admin[a].sel /\ y.same = admin[a].same
        /\ y.wrote = admin[a].wrote
    BY <1>0 DEF AdminRecords
  <2>5. admin' = [admin EXCEPT ![a] = y] /\ UNCHANGED adminGate
    BY <1>1, <1>3, <2>2 DEF AdminGoes, Sees
  <2> HIDE DEF s, y
  <2>6. PICK x \in AdminRecords : x = y
    BY <2>4
  <2>7. \A q \in DOMAIN t : /\ t[q][2] = configured[q]
                            /\ admin[a].same => t[q] = <<registered[q], configured[q]>>
    BY <1>0, <2>3 DEF RequestHolds
  <2>8. AdminShape(x) /\ RequestHolds(a, x)'
    BY <1>0, <2>4, <2>5, <2>6, <2>7 DEF AdminShape, RequestHolds, InGate
  <2>9. x.at # "ending"
    BY <1>0, <2>4, <2>6
  <2> QED BY <1>0, <2>5, <2>6, <2>8, <2>9, RequestMoves, NoAnswer
<1> QED BY <1>2, <1>3

-----------------------------------------------------------------------------
\* A request that knows no more than before: it may lose its proof, its
\* snapshot or its selection, and one that has seen nothing may go to wait.
Weaker(r, s) ==
    /\ s \in AdminRecords /\ s.kind = r.kind /\ s.mod = r.mod /\ s.seen = r.seen /\ s.wrote = r.wrote
    /\ s.at = r.at \/ (s.at = "waiting" /\ DOMAIN r.seen = {})
    /\ s.proof => r.proof
    /\ s.sel => r.sel
    /\ s.same => r.same \/ DOMAIN r.seen = {}

\* The registry moves, or proofs end: whatever a request still relies on stands.
LEMMA WeakerStep ==
    ASSUME AdminInv, DOMAIN admin' = AdminCalls, admin' = [b \in AdminCalls |-> admin'[b]],
           \A b \in AdminCalls : Weaker(admin[b], admin'[b]),
           pagesOpen' \in BOOLEAN, accepting' \in BOOLEAN, UNCHANGED <<configured, adminGate>>,
           ~pagesOpen' => \A b \in AdminCalls : ~admin'[b].proof,
           registered' \in [AdminModules -> RegistryStates],
           \A p \in AdminModules : registered'[p] = "gone" => registered[p] = "gone",
           registered' # registered => \A b \in AdminCalls : ~admin'[b].same \/ DOMAIN admin'[b].seen = {}
    PROVE  AdminInv' /\ EffectsAreAuthorized /\ AnswersTellTruth
<1>1. AdminTyped'
  BY DEF AdminInv, AdminTyped, Weaker
<1>2. ASSUME NEW b \in AdminCalls PROVE AdminShape(admin'[b]) /\ RequestHolds(b, admin[b])'
  <2>1. PICK r \in AdminRecords : r = admin[b] /\ AdminShape(r) /\ RequestHolds(b, r)
    BY DEF AdminInv, AdminTyped
  <2>2. PICK s \in AdminRecords : s = admin'[b] /\ Weaker(r, s)
    BY <2>1 DEF Weaker
  <2>3. AdminShape(s)
    BY <2>1, <2>2 DEF AdminShape, Weaker
  <2>4. s.at \in InGate => adminGate' = b
    BY <2>1, <2>2 DEF RequestHolds, InGate, Weaker
  <2>5. s.proof => pagesOpen'
    BY <2>2
  <2>6. (s.kind \in {"update", "copy"} /\ (s.sel \/ (s.at = "inside" /\ s.kind = "update"))) =>
            registered'[s.mod] # "gone"
    <3>1. SUFFICES ASSUME s.kind \in {"update", "copy"}, s.sel \/ (s.at = "inside" /\ s.kind = "update")
                   PROVE  registered'[s.mod] # "gone"
      OBVIOUS
    <3>2. registered[r.mod] # "gone" /\ r.mod \in AdminModules /\ s.mod = r.mod
      BY <2>1, <2>2, <3>1 DEF RequestHolds, AdminShape, Weaker
    <3> QED BY <3>2
  <2>7. ASSUME NEW p \in DOMAIN s.seen
        PROVE  /\ s.at = "inside" /\ s.kind \in {"list", "status", "read"}
               /\ s.seen[p][2] = configured'[p]
               /\ s.same => s.seen[p] = <<registered'[p], configured'[p]>>
    <3>1. /\ s.at = r.at /\ s.kind = r.kind /\ s.seen = r.seen /\ (s.same => r.same) /\ p \in DOMAIN r.seen
      BY <2>2 DEF Weaker
    <3>2. /\ r.at = "inside" /\ r.kind \in {"list", "status", "read"} /\ r.seen[p][2] = configured[p]
          /\ r.same => r.seen[p] = <<registered[p], configured[p]>>
      BY <2>1, <3>1 DEF RequestHolds
    <3>3. s.same => registered' = registered
      BY <2>2
    <3> QED BY <3>1, <3>2, <3>3
  <2> QED BY <2>2, <2>3, <2>4, <2>5, <2>6, <2>7 DEF RequestHolds
<1>3. AdminInv'
  BY <1>1, <1>2 DEF AdminInv, AdminShape
<1>4. EffectsAreAuthorized
  BY DEF EffectsAreAuthorized
<1>5. \A b \in AdminCalls : admin'[b].at = admin[b].at \/ admin'[b].at = "waiting"
  BY DEF Weaker
<1>6. AnswersTellTruth
  BY <1>5 DEF AnswersTellTruth
<1> QED BY <1>3, <1>4, <1>6

\* A publication of the registry, as every request meets it.
LEMMA MovedWeaker ==
    ASSUME AdminInv, NEW p \in AdminModules, NEW next \in [AdminCalls -> AdminRecords],
           NEW m, m = Moved(p, next), NEW b \in AdminCalls
    PROVE  LET s == m[b] r == next[b] IN
           /\ s \in AdminRecords /\ s.at = r.at /\ s.kind = r.kind /\ s.mod = r.mod /\ s.seen = r.seen
           /\ s.wrote = r.wrote /\ s.proof = r.proof /\ s.fresh = r.fresh /\ ~s.same
           /\ s.sel => r.sel /\ r.mod # p
<1>1. PICK r \in AdminRecords : r = next[b]
  OBVIOUS
<1>2. PICK z \in BOOLEAN : z = (r.sel /\ r.mod # p)
  BY <1>1 DEF AdminRecords
<1>3. m[b] = [r EXCEPT !.same = FALSE, !.sel = z]
  BY <1>1, <1>2 DEF Moved
<1> DEFINE y == [r EXCEPT !.same = FALSE, !.sel = z]
<1>4. /\ y \in AdminRecords /\ y.at = r.at /\ y.kind = r.kind /\ y.mod = r.mod /\ y.seen = r.seen
      /\ y.wrote = r.wrote /\ y.proof = r.proof /\ y.fresh = r.fresh /\ y.same = FALSE /\ y.sel = z
  BY DEF AdminRecords
<1> HIDE DEF y
<1> QED BY <1>1, <1>2, <1>3, <1>4 DEF y

LEMMA RegistryStep ==
    ASSUME AdminInv, NEW p \in AdminModules, Switches(p) \/ Isolates(p) \/ Restores(p)
    PROVE  AdminInv' /\ EffectsAreAuthorized /\ AnswersTellTruth
<1>0. /\ admin \in [AdminCalls -> AdminRecords] /\ registered \in [AdminModules -> RegistryStates]
      /\ pagesOpen \in BOOLEAN /\ accepting \in BOOLEAN
      /\ \A b \in AdminCalls : admin[b].proof => pagesOpen
  BY DEF AdminInv, AdminTyped, RequestHolds
<1>1. PICK v \in {"on", "off", "failed"} : registered' = [registered EXCEPT ![p] = v]
  BY DEF Switches, Isolates, Restores
<1>2. admin' = Moved(p, admin) /\ UNCHANGED <<pagesOpen, accepting, configured, adminGate>>
  BY DEF Switches, Isolates, Restores
<1>3. DOMAIN admin' = AdminCalls /\ admin' = [b \in AdminCalls |-> admin'[b]]
  BY <1>2 DEF Moved
<1>4. ASSUME NEW b \in AdminCalls PROVE Weaker(admin[b], admin'[b]) /\ ~admin'[b].same
  BY <1>0, <1>2, MovedWeaker DEF Weaker
<1>5. /\ registered' \in [AdminModules -> RegistryStates]
      /\ \A q \in AdminModules : registered'[q] = "gone" => registered[q] = "gone"
  BY <1>0, <1>1 DEF RegistryStates
<1>6. ~pagesOpen' => \A b \in AdminCalls : ~admin'[b].proof
  BY <1>0, <1>2, <1>4 DEF Weaker
<1> QED BY <1>0, <1>2, <1>3, <1>4, <1>5, <1>6, WeakerStep

\* Proofs end, all or one, and nothing else moves.
LEMMA ProofsEnd ==
    ASSUME AdminInv, NEW S \in SUBSET AdminCalls, pagesOpen' \in BOOLEAN, accepting' \in BOOLEAN,
           UNCHANGED <<registered, configured, adminGate>>,
           admin' = [b \in AdminCalls |-> IF b \in S THEN [admin[b] EXCEPT !.proof = FALSE] ELSE admin[b]],
           pagesOpen' \/ ~pagesOpen \/ S = AdminCalls
    PROVE  AdminInv' /\ EffectsAreAuthorized /\ AnswersTellTruth
<1>0. /\ admin \in [AdminCalls -> AdminRecords] /\ registered \in [AdminModules -> RegistryStates]
      /\ \A b \in AdminCalls : admin[b].proof => pagesOpen
  BY DEF AdminInv, AdminTyped, RequestHolds
<1>1. ASSUME NEW b \in AdminCalls
      PROVE  Weaker(admin[b], admin'[b]) /\ (b \in S => ~admin'[b].proof)
  <2>1. PICK r \in AdminRecords : r = admin[b]
    BY <1>0
  <2> DEFINE y == [r EXCEPT !.proof = FALSE]
  <2>2. y \in AdminRecords /\ Weaker(r, y) /\ ~y.proof
    BY DEF AdminRecords, Weaker
  <2>3. Weaker(r, r)
    BY DEF Weaker
  <2>4. admin'[b] = IF b \in S THEN y ELSE r
    BY <2>1
  <2> HIDE DEF y
  <2> QED BY <2>1, <2>2, <2>3, <2>4
<1>2. DOMAIN admin' = AdminCalls /\ admin' = [b \in AdminCalls |-> admin'[b]]
  OBVIOUS
<1>3. ~pagesOpen' => \A b \in AdminCalls : ~admin'[b].proof
  BY <1>0, <1>1 DEF Weaker
<1> QED BY <1>0, <1>1, <1>2, <1>3, WeakerStep

LEMMA PagesStep ==
    ASSUME AdminInv, ClosePages \/ StopAccepting \/ OpenPages \/ SourcesReissued
    PROVE  AdminInv' /\ EffectsAreAuthorized /\ AnswersTellTruth
<1>0. admin \in [AdminCalls -> AdminRecords] /\ pagesOpen \in BOOLEAN /\ accepting \in BOOLEAN
  BY DEF AdminInv, AdminTyped
<1>1. CASE ClosePages \/ SourcesReissued
  <2>1. admin' = [b \in AdminCalls |-> IF b \in AdminCalls THEN [admin[b] EXCEPT !.proof = FALSE] ELSE admin[b]]
    BY <1>1 DEF ClosePages, SourcesReissued
  <2>2. AdminCalls \in SUBSET AdminCalls
    OBVIOUS
  <2>3. pagesOpen' \in BOOLEAN /\ accepting' \in BOOLEAN /\ UNCHANGED <<registered, configured, adminGate>>
    BY <1>0, <1>1 DEF ClosePages, SourcesReissued
  <2> HIDE <1>1
  <2> QED BY <2>1, <2>2, <2>3, ProofsEnd
<1>2. CASE StopAccepting \/ OpenPages
  <2>1. admin' = [b \in AdminCalls |-> IF b \in {} THEN [admin[b] EXCEPT !.proof = FALSE] ELSE admin[b]]
    BY <1>0, <1>2 DEF StopAccepting, OpenPages
  <2>2. {} \in SUBSET AdminCalls
    OBVIOUS
  <2>3. /\ pagesOpen' \in BOOLEAN /\ accepting' \in BOOLEAN /\ UNCHANGED <<registered, configured, adminGate>>
        /\ pagesOpen' \/ ~pagesOpen
    BY <1>0, <1>2 DEF StopAccepting, OpenPages
  <2> QED BY <2>1, <2>2, <2>3, ProofsEnd
<1> QED BY <1>1, <1>2

LEMMA EndStep ==
    ASSUME AdminInv, NEW a \in AdminCalls, SessionEnds(a) \/ Disconnects(a) \/ Responds(a)
    PROVE  AdminInv' /\ EffectsAreAuthorized /\ AnswersTellTruth
<1>0. /\ admin \in [AdminCalls -> AdminRecords] /\ pagesOpen \in BOOLEAN /\ accepting \in BOOLEAN
      /\ UNCHANGED <<pagesOpen, accepting, registered, configured>>
  BY DEF AdminInv, AdminTyped, SessionEnds, Disconnects, Responds
<1>1. CASE AdminGoes(a, [admin[a] EXCEPT !.proof = FALSE]) /\ UNCHANGED adminGate
  <2>1. admin' = [b \in AdminCalls |-> IF b \in {a} THEN [admin[b] EXCEPT !.proof = FALSE] ELSE admin[b]]
    BY <1>0, <1>1 DEF AdminGoes
  <2>2. {a} \in SUBSET AdminCalls
    OBVIOUS
  <2> QED BY <1>0, <1>1, <2>1, <2>2, ProofsEnd
<1>2. CASE Refused(a) /\ (UNCHANGED adminGate \/ LetsGo(a))
  BY <1>0, <1>2, RefusedStep
<1> QED BY <1>1, <1>2 DEF SessionEnds, Disconnects, Responds, Refused

-----------------------------------------------------------------------------
LEMMA DoneStep ==
    ASSUME AdminInv, NEW a \in AdminCalls,
           ListDone(a) \/ StatusDone(a) \/ OrdinaryReadDone(a) \/ CatalogDone(a) \/ UpdateReplies(a)
           \/ CopyReplies(a)
    PROVE  AdminInv' /\ EffectsAreAuthorized /\ AnswersTellTruth
<1>0. /\ UNCHANGED <<pagesOpen, accepting, registered, configured>>
      /\ adminGate' = adminGate \/ LetsGo(a)
      /\ admin[a] \in AdminRecords /\ AdminShape(admin[a]) /\ RequestHolds(a, admin[a])
      /\ accepting \in BOOLEAN
  BY DEF AdminInv, AdminTyped, ListDone, StatusDone, OrdinaryReadDone, CatalogDone, UpdateReplies, CopyReplies
<1>1. admin[a].proof \in BOOLEAN /\ admin[a].same \in BOOLEAN /\ admin[a].sel \in BOOLEAN
      /\ admin[a].fresh \in BOOLEAN
  BY <1>0 DEF AdminRecords
<1>2. ASSUME NEW good \in BOOLEAN, admin' = [admin EXCEPT ![a] = Decides(a, good)], good => Truth(a)
      PROVE  AdminInv' /\ EffectsAreAuthorized /\ AnswersTellTruth
  BY <1>0, <1>2, DecisionStep
<1>3. CASE ListDone(a) \/ StatusDone(a)
  <2>1. admin[a].kind \in {"list", "status"} /\ DOMAIN admin[a].seen = AdminModules
    BY <1>3 DEF ListDone, StatusDone, SeenAll
  <2>2. admin[a].same => Truth(a)
    BY <1>0, <2>1 DEF Truth, RequestHolds
  <2>3. PICK good \in BOOLEAN : AdminGoes(a, Decides(a, good)) /\ (good => admin[a].same)
    BY <1>0, <1>1, <1>3 DEF ListDone, StatusDone, SameRegistry, Validated, ProofHolds
  <2> QED BY <1>2, <2>2, <2>3 DEF AdminGoes
<1>4. CASE OrdinaryReadDone(a)
  <2>1. admin[a].kind = "read" /\ DOMAIN admin[a].seen = AdminModules
    BY <1>4 DEF OrdinaryReadDone, SeenAll
  <2>2. Truth(a)
    BY <1>0, <2>1 DEF Truth, RequestHolds
  <2>3. PICK good \in BOOLEAN : AdminGoes(a, Decides(a, good))
    BY <1>0, <1>1, <1>4 DEF OrdinaryReadDone, Validated, ProofHolds
  <2> QED BY <1>2, <2>2, <2>3 DEF AdminGoes
<1>5. CASE CatalogDone(a) \/ UpdateReplies(a) \/ CopyReplies(a)
  <2>1. Truth(a)
    BY <1>0, <1>5 DEF Truth, CatalogDone, UpdateReplies, CopyReplies, AdminShape
  <2>2. PICK good \in BOOLEAN : AdminGoes(a, Decides(a, good))
    BY <1>0, <1>1, <1>5 DEF CatalogDone, UpdateReplies, CopyReplies, Validated, ProofHolds, SameRegistry,
                            SameSelection
  <2> QED BY <1>2, <2>1, <2>2 DEF AdminGoes
<1> QED BY <1>3, <1>4, <1>5

\* A row is written by a request in the gate: nobody else has seen anything yet.
LEMMA WriteStep ==
    ASSUME AdminInv, NEW a \in AdminCalls, NEW next \in AdminRecords, Written(a, admin[a].mod, next),
           next.at \in {"publishing", "copied"}, next.kind = admin[a].kind, next.mod = admin[a].mod,
           next.proof = admin[a].proof, next.sel = admin[a].sel, next.seen = admin[a].seen,
           admin[a].kind \in {"update", "copy"}, admin[a].at = "inside",
           next.at = "publishing" => next.kind = "update", next.at = "copied" => next.kind = "copy",
           admin[a].proof, admin[a].fresh, registered[admin[a].mod] # "gone",
           UNCHANGED <<pagesOpen, accepting, registered, adminGate>>
    PROVE  AdminInv' /\ EffectsAreAuthorized /\ AnswersTellTruth
<1>0. /\ admin \in [AdminCalls -> AdminRecords] /\ configured \in [AdminModules -> AdminCalls \cup {"boot"}]
      /\ AdminShape(admin[a]) /\ RequestHolds(a, admin[a]) /\ AdminTyped
  BY DEF AdminInv, AdminTyped
<1>1. /\ adminGate = a /\ pagesOpen /\ DOMAIN next.seen = {} /\ admin[a].mod \in AdminModules
      /\ configured' = [configured EXCEPT ![admin[a].mod] = a]
  BY <1>0 DEF RequestHolds, InGate, AdminShape, Written
<1>2. ASSUME NEW b \in AdminCalls
      PROVE  /\ admin'[b] \in AdminRecords /\ AdminShape(admin'[b]) /\ RequestHolds(b, admin[b])'
             /\ admin'[b].at # "ending" \/ admin'[b].at = admin[b].at
  <2>1. CASE b = a
    <3> DEFINE y == [next EXCEPT !.wrote = TRUE]
    <3>1. /\ y \in AdminRecords /\ y.at = next.at /\ y.kind = next.kind /\ y.mod = next.mod /\ y.proof = next.proof
          /\ y.sel = next.sel /\ y.seen = next.seen /\ y.wrote
      BY DEF AdminRecords
    <3>2. admin'[b] = y
      BY <2>1 DEF Written
    <3> HIDE DEF y
    <3>3. PICK x \in AdminRecords :
            /\ x = admin'[b] /\ x.at = next.at /\ x.kind = admin[a].kind /\ x.mod = admin[a].mod
            /\ x.proof = admin[a].proof /\ x.sel = admin[a].sel /\ DOMAIN x.seen = {} /\ x.wrote
      BY <1>1, <3>1, <3>2
    <3>4. AdminShape(x)
      BY <1>1, <3>3 DEF AdminShape
    <3>5. RequestHolds(a, x)'
      BY <1>1, <3>3 DEF RequestHolds
    <3> QED BY <2>1, <3>3, <3>4, <3>5 DEF RequestHolds
  <2>2. CASE b # a
    <3>1. PICK r \in AdminRecords : r = admin[b] /\ AdminShape(r) /\ RequestHolds(b, r)
      BY <1>0 DEF AdminInv
    <3>2. r.at \notin InGate /\ DOMAIN r.seen = {}
      BY <1>1, <2>2, <3>1 DEF RequestHolds, InGate
    <3>3. PICK z \in BOOLEAN : z = (r.fresh /\ r.mod # admin[a].mod)
      BY <3>1 DEF AdminRecords
    <3> DEFINE y == [r EXCEPT !.fresh = z]
    <3>4. /\ y \in AdminRecords /\ y.at = r.at /\ y.kind = r.kind /\ y.mod = r.mod /\ y.proof = r.proof
          /\ y.sel = r.sel /\ y.seen = r.seen /\ y.wrote = r.wrote
      BY DEF AdminRecords
    <3>5. admin'[b] = y
      BY <2>2, <3>1, <3>3 DEF Written
    <3> HIDE DEF y
    <3>6. PICK x \in AdminRecords :
            /\ x = admin'[b] /\ x.at = r.at /\ x.kind = r.kind /\ x.mod = r.mod /\ x.proof = r.proof
            /\ x.sel = r.sel /\ x.seen = r.seen /\ x.wrote = r.wrote
      BY <3>4, <3>5
    <3>7. AdminShape(x)
      BY <3>1, <3>6 DEF AdminShape
    <3>8. RequestHolds(b, x)'
      BY <3>1, <3>2, <3>6 DEF RequestHolds
    <3> QED BY <3>1, <3>6, <3>7, <3>8 DEF RequestHolds
  <2> QED BY <2>1, <2>2
<1>3. AdminTyped'
  <2>1. admin' \in [AdminCalls -> AdminRecords]
    <3>1. DOMAIN admin' = AdminCalls /\ admin' = [b \in AdminCalls |-> admin'[b]]
      BY DEF Written
    <3> QED BY <1>2, <3>1
  <2>2. configured' \in [AdminModules -> AdminCalls \cup {"boot"}]
    BY <1>0, <1>1
  <2> QED BY <1>0, <2>1, <2>2 DEF AdminTyped
<1>4. AdminInv'
  BY <1>2, <1>3 DEF AdminInv, AdminShape
<1>5. EffectsAreAuthorized
  <2>1. ASSUME NEW p \in AdminModules, configured'[p] # configured[p]
        PROVE  p = admin[a].mod /\ configured'[p] = a
    BY <1>0, <1>1, <2>1
  <2> QED BY <1>1, <2>1 DEF EffectsAreAuthorized
<1>6. AnswersTellTruth
  BY <1>2 DEF AnswersTellTruth
<1> QED BY <1>4, <1>5, <1>6

LEMMA CommitStep ==
    ASSUME AdminInv, NEW a \in AdminCalls, UpdateCommits(a) \/ CopyCommits(a)
    PROVE  AdminInv' /\ EffectsAreAuthorized /\ AnswersTellTruth
<1>0. /\ UNCHANGED <<pagesOpen, accepting, registered>> /\ admin[a].at = "inside"
      /\ admin[a] \in AdminRecords /\ AdminShape(admin[a]) /\ RequestHolds(a, admin[a])
      /\ admin[a].kind \in {"update", "copy"} /\ adminGate = a /\ DOMAIN admin[a].seen = {}
  BY DEF AdminInv, AdminTyped, UpdateCommits, CopyCommits, RequestHolds, InGate
<1>1. CASE Refused(a) /\ LetsGo(a) /\ UNCHANGED configured
  BY <1>0, <1>1, RefusedStep
<1>2. ASSUME NEW at \in {"publishing", "copied"}, Written(a, admin[a].mod, AdminAt(a, at)),
             at = "publishing" => admin[a].kind = "update", at = "copied" => admin[a].kind = "copy",
             admin[a].proof, admin[a].fresh, registered[admin[a].mod] # "gone", UNCHANGED adminGate
      PROVE  AdminInv' /\ EffectsAreAuthorized /\ AnswersTellTruth
  <2>1. PICK x \in AdminRecords :
           /\ x = AdminAt(a, at) /\ x.at = at /\ x.kind = admin[a].kind /\ x.mod = admin[a].mod
           /\ x.proof = admin[a].proof /\ x.sel = admin[a].sel /\ x.seen = admin[a].seen
    BY AdminAtTyped DEF AdminStates
  <2> QED BY <1>0, <1>2, <2>1, WriteStep
<1>3. CASE UpdateCommits(a)
  <2>1. admin[a].kind = "update" /\ registered[admin[a].mod] # "gone"
    BY <1>0, <1>3 DEF UpdateCommits, RequestHolds
  <2>2. CASE CommitFenced(a) /\ admin[a].fresh
    <3>1. Written(a, admin[a].mod, AdminAt(a, "publishing")) /\ UNCHANGED adminGate /\ admin[a].proof
      BY <1>3, <2>2 DEF UpdateCommits, CommitFenced, ProofHolds
    <3> QED BY <1>2, <2>1, <2>2, <3>1
  <2>3. CASE ~(CommitFenced(a) /\ admin[a].fresh)
    BY <1>1, <1>3, <2>3 DEF UpdateCommits
  <2> QED BY <2>2, <2>3
<1>4. CASE CopyCommits(a)
  <2>1. admin[a].kind = "copy"
    BY <1>4 DEF CopyCommits
  <2>2. CASE accepting /\ SameSelection(a) /\ CommitFenced(a) /\ admin[a].fresh
    <3>1. /\ UNCHANGED adminGate /\ admin[a].proof /\ admin[a].fresh /\ registered[admin[a].mod] # "gone"
          /\ \/ AdminGoes(a, AdminAt(a, "copied")) /\ UNCHANGED configured
             \/ Written(a, admin[a].mod, AdminAt(a, "copied"))
      BY <1>0, <1>4, <2>1, <2>2 DEF CopyCommits, CommitFenced, ProofHolds, SameSelection, RequestHolds
    <3>2. CASE Written(a, admin[a].mod, AdminAt(a, "copied"))
      BY <1>2, <2>1, <3>1, <3>2
    <3>3. CASE AdminGoes(a, AdminAt(a, "copied")) /\ UNCHANGED configured
      <4>1. PICK x \in AdminRecords :
               /\ x = AdminAt(a, "copied") /\ x.at = "copied" /\ x.kind = admin[a].kind /\ x.mod = admin[a].mod
               /\ x.proof = admin[a].proof /\ x.sel = admin[a].sel /\ x.seen = admin[a].seen
        BY AdminAtTyped DEF AdminStates
      <4>2. AdminShape(x) /\ RequestHolds(a, x)' /\ admin' = [admin EXCEPT ![a] = x]
        BY <1>0, <2>1, <3>1, <3>3, <4>1 DEF AdminShape, RequestHolds, AdminGoes
      <4> QED BY <1>0, <3>1, <3>3, <4>1, <4>2, RequestMoves, NoAnswer
    <3> QED BY <3>1, <3>2, <3>3
  <2>3. CASE ~(accepting /\ SameSelection(a) /\ CommitFenced(a) /\ admin[a].fresh)
    BY <1>1, <1>4, <2>3 DEF CopyCommits
  <2> QED BY <2>2, <2>3
<1> QED BY <1>3, <1>4

-----------------------------------------------------------------------------
LEMMA PublishStep ==
    ASSUME AdminInv, NEW a \in AdminCalls, UpdatePublishes(a) \/ UnloadPrepares(a)
    PROVE  AdminInv' /\ EffectsAreAuthorized /\ AnswersTellTruth
<1>0. /\ UNCHANGED <<pagesOpen, accepting, registered, configured>>
      /\ admin[a] \in AdminRecords /\ AdminShape(admin[a]) /\ RequestHolds(a, admin[a])
      /\ admin[a].at \in {"publishing", "preparing"} /\ adminGate = a /\ DOMAIN admin[a].seen = {}
  BY DEF AdminInv, AdminTyped, UpdatePublishes, UnloadPrepares, RequestHolds, InGate
<1>1. ASSUME NEW at \in {"replying", "detaching"}, AdminGoes(a, AdminAt(a, at)),
             at = "replying" => admin[a].at = "publishing" /\ LetsGo(a),
             at = "detaching" => admin[a].at = "preparing" /\ UNCHANGED adminGate
      PROVE  AdminInv' /\ EffectsAreAuthorized /\ AnswersTellTruth
  <2>1. PICK x \in AdminRecords :
           /\ x = AdminAt(a, at) /\ x.at = at /\ x.kind = admin[a].kind /\ x.mod = admin[a].mod
           /\ x.proof = admin[a].proof /\ x.same = admin[a].same /\ x.sel = admin[a].sel
           /\ x.seen = admin[a].seen /\ x.wrote = admin[a].wrote
    BY AdminAtTyped DEF AdminStates
  <2>2. AdminShape(x)
    BY <1>0, <1>1, <2>1 DEF AdminShape
  <2>3. adminGate' = adminGate \/ (LetsGo(a) /\ at \notin InGate)
    BY <1>1 DEF InGate
  <2> QED BY <1>0, <1>1, <2>1, <2>2, <2>3, WalkStep
<1>2. CASE UpdatePublishes(a)
  <2>1. AdminGoes(a, AdminAt(a, "replying")) /\ LetsGo(a) /\ admin[a].at = "publishing"
    BY <1>2 DEF UpdatePublishes
  <2> QED BY <1>1, <2>1
<1>3. CASE UnloadPrepares(a)
  <2>0. admin[a].at = "preparing"
    BY <1>3 DEF UnloadPrepares
  <2>1. CASE registered[admin[a].mod] = "gone"
    <3>1. admin' = [admin EXCEPT ![a] = Decides(a, TRUE)] /\ LetsGo(a)
      BY <1>3, <2>1 DEF UnloadPrepares, AdminGoes
    <3>2. Truth(a)
      BY <1>0, <2>0, <2>1 DEF Truth, AdminShape
    <3> QED BY <1>0, <3>1, <3>2, DecisionStep
  <2>2. CASE Refused(a) /\ LetsGo(a)
    BY <1>0, <2>2, RefusedStep
  <2>3. CASE AdminGoes(a, AdminAt(a, "detaching")) /\ UNCHANGED adminGate
    BY <1>1, <2>0, <2>3
  <2> QED BY <1>3, <2>1, <2>2, <2>3 DEF UnloadPrepares
<1> QED BY <1>2, <1>3

LEMMA DisableStep ==
    ASSUME AdminInv, NEW a \in AdminCalls, UnloadDisables(a)
    PROVE  AdminInv' /\ EffectsAreAuthorized /\ AnswersTellTruth
<1>0. /\ UNCHANGED <<pagesOpen, accepting, configured, adminGate>> /\ admin \in [AdminCalls -> AdminRecords]
      /\ registered \in [AdminModules -> RegistryStates] /\ pagesOpen \in BOOLEAN /\ accepting \in BOOLEAN
      /\ \A b \in AdminCalls : admin[b].proof => pagesOpen
      /\ admin[a].at = "disabling" /\ DOMAIN admin[a].seen = {}
  BY DEF AdminInv, AdminTyped, UnloadDisables, RequestHolds
<1>1. PICK p \in AdminModules : p = admin[a].mod
  BY <1>0 DEF AdminInv, AdminShape
<1>2. PICK off \in [AdminCalls -> AdminRecords] :
        /\ off = [admin EXCEPT ![a].at = "waiting"]
        /\ \A b \in AdminCalls : Weaker(admin[b], off[b])
  <2>1. PICK r \in AdminRecords : r = admin[a]
    BY <1>0
  <2> DEFINE y == [r EXCEPT !.at = "waiting"]
  <2>2. y \in AdminRecords /\ Weaker(r, y)
    BY <1>0, <2>1 DEF AdminRecords, AdminStates, Weaker
  <2>3. [admin EXCEPT ![a].at = "waiting"] = [admin EXCEPT ![a] = y]
    BY <2>1
  <2> HIDE DEF y
  <2>4. \A b \in AdminCalls : Weaker(admin[b], admin[b])
    BY <1>0 DEF Weaker
  <2>5. [admin EXCEPT ![a] = y] \in [AdminCalls -> AdminRecords]
    BY <1>0, <2>2
  <2>6. \A b \in AdminCalls : [admin EXCEPT ![a] = y][b] = IF b = a THEN y ELSE admin[b]
    BY <1>0
  <2>7. PICK off \in [AdminCalls -> AdminRecords] : off = [admin EXCEPT ![a] = y]
    BY <2>5
  <2> QED BY <2>1, <2>2, <2>3, <2>4, <2>6, <2>7
<1>3. ASSUME NEW m \in [AdminCalls -> AdminRecords], \A b \in AdminCalls : Weaker(admin[b], m[b]),
             admin' = [m EXCEPT ![a].same = TRUE],
             registered' = registered
             \/ /\ registered' = [registered EXCEPT ![p] = "off"]
                /\ \A b \in AdminCalls : ~m[b].same
      PROVE  AdminInv' /\ EffectsAreAuthorized /\ AnswersTellTruth
  <2>1. PICK r \in AdminRecords : r = m[a] /\ Weaker(admin[a], r)
    BY <1>3
  <2> DEFINE y == [r EXCEPT !.same = TRUE]
  <2>2. y \in AdminRecords /\ Weaker(admin[a], y) /\ DOMAIN y.seen = {}
    BY <1>0, <2>1 DEF AdminRecords, Weaker
  <2>3. admin' = [m EXCEPT ![a] = y]
    BY <1>3, <2>1
  <2> HIDE DEF y
  <2>4. DOMAIN admin' = AdminCalls /\ admin' = [b \in AdminCalls |-> admin'[b]]
        /\ \A b \in AdminCalls : admin'[b] = IF b = a THEN y ELSE m[b]
    BY <2>3
  <2>5. \A b \in AdminCalls : Weaker(admin[b], admin'[b])
    BY <1>3, <2>2, <2>4
  <2>6. registered' # registered => \A b \in AdminCalls : ~admin'[b].same \/ DOMAIN admin'[b].seen = {}
    BY <1>3, <2>2, <2>4
  <2>7. /\ registered' \in [AdminModules -> RegistryStates]
        /\ \A q \in AdminModules : registered'[q] = "gone" => registered[q] = "gone"
    BY <1>0, <1>3 DEF RegistryStates
  <2>8. ~pagesOpen' => \A b \in AdminCalls : ~admin'[b].proof
    BY <1>0, <2>5 DEF Weaker
  <2>9. pagesOpen' \in BOOLEAN /\ accepting' \in BOOLEAN /\ UNCHANGED <<configured, adminGate>>
    BY <1>0
  <2> QED BY <2>4, <2>5, <2>6, <2>7, <2>8, <2>9, WeakerStep
<1>4. CASE Refused(a) /\ UNCHANGED registered
  BY <1>0, <1>4, RefusedStep
<1>5. CASE registered' = [registered EXCEPT ![p] = "off"] /\ admin' = [Moved(p, off) EXCEPT ![a].same = TRUE]
  <2>1. ASSUME NEW b \in AdminCalls
        PROVE  LET s == Moved(p, off)[b] IN s \in AdminRecords /\ ~s.same /\ Weaker(admin[b], s)
    <3>1. PICK m : m = Moved(p, off)
      OBVIOUS
    <3>2. LET s == m[b] r == off[b] IN
          /\ s \in AdminRecords /\ s.at = r.at /\ s.kind = r.kind /\ s.mod = r.mod /\ s.seen = r.seen
          /\ s.wrote = r.wrote /\ s.proof = r.proof /\ s.fresh = r.fresh /\ ~s.same
          /\ s.sel => r.sel /\ r.mod # p
      BY <3>1, MovedWeaker
    <3>3. Weaker(admin[b], off[b])
      BY <1>2
    <3> QED BY <3>1, <3>2, <3>3 DEF Weaker
  <2>2. Moved(p, off) = [b \in AdminCalls |-> Moved(p, off)[b]]
    BY DEF Moved
  <2>3. PICK m \in [AdminCalls -> AdminRecords] : m = Moved(p, off)
    BY <2>1, <2>2
  <2> QED BY <1>3, <1>5, <2>1, <2>3
<1>6. CASE UNCHANGED registered /\ admin' = [off EXCEPT ![a].same = TRUE]
  BY <1>2, <1>3, <1>6
<1> QED BY <1>1, <1>2, <1>4, <1>5, <1>6 DEF UnloadDisables

\* The module leaves the registry: its selections end, and the gate's holder is the only one inside.
LEMMA DetachStep ==
    ASSUME AdminInv, NEW a \in AdminCalls, UnloadDetaches(a)
    PROVE  AdminInv' /\ EffectsAreAuthorized /\ AnswersTellTruth
<1>0. /\ UNCHANGED <<pagesOpen, accepting, configured>> /\ LetsGo(a)
      /\ admin \in [AdminCalls -> AdminRecords] /\ registered \in [AdminModules -> RegistryStates]
      /\ AdminShape(admin[a]) /\ RequestHolds(a, admin[a]) /\ admin[a].at = "detaching" /\ AdminTyped
  BY DEF AdminInv, AdminTyped, UnloadDetaches
<1>1. PICK p \in AdminModules : p = admin[a].mod
  BY <1>0 DEF AdminShape
<1>2. admin[a].kind = "unload" /\ adminGate = a
  BY <1>0 DEF AdminShape, RequestHolds, InGate
<1>3. CASE Refused(a) /\ UNCHANGED registered
  BY <1>0, <1>3, RefusedStep
<1>4. CASE /\ admin[a].proof
           /\ registered' = [registered EXCEPT ![p] = "gone"]
           /\ admin' = Moved(p, [admin EXCEPT ![a] = Decides(a, TRUE)])
  <2>0. pagesOpen
    BY <1>0, <1>4 DEF RequestHolds
  <2>1. PICK d \in AdminRecords : /\ d = Decides(a, TRUE) /\ d.at \in {"idle", "ending"} /\ d.kind = "none"
                                  /\ DOMAIN d.seen = {}
    BY DecidedTyped
  <2>2. PICK next \in [AdminCalls -> AdminRecords] :
          next = [admin EXCEPT ![a] = d]
    BY <1>0
  <2>3. next[a] = d /\ \A b \in AdminCalls \ {a} : next[b] = admin[b]
    BY <1>0, <2>2
  <2>4. admin' = Moved(p, next)
    BY <1>4, <2>1, <2>2
  <2>5. ASSUME NEW b \in AdminCalls
        PROVE  LET s == admin'[b] r == next[b] IN
               /\ s \in AdminRecords /\ s.at = r.at /\ s.kind = r.kind /\ s.mod = r.mod /\ s.seen = r.seen
               /\ s.wrote = r.wrote /\ s.proof = r.proof /\ s.fresh = r.fresh /\ ~s.same
               /\ s.sel => r.sel /\ r.mod # p
    BY <2>4, MovedWeaker
  <2>6. ASSUME NEW b \in AdminCalls PROVE AdminShape(admin'[b]) /\ RequestHolds(b, admin[b])'
    <3>1. CASE b = a
      <4>0. next[b] = d
        BY <2>3, <3>1
      <4>1. PICK s \in AdminRecords : /\ s = admin'[b] /\ s.at \in {"idle", "ending"} /\ s.kind = "none"
                                      /\ s.seen = d.seen
        <5>1. /\ admin'[b] \in AdminRecords /\ admin'[b].at = next[b].at /\ admin'[b].kind = next[b].kind
              /\ admin'[b].seen = next[b].seen
          BY <2>5
        <5> QED BY <2>1, <4>0, <5>1
      <4>2. AdminShape(s) /\ RequestHolds(b, s)'
        BY <1>0, <2>0, <2>1, <4>1 DEF AdminShape, RequestHolds, InGate
      <4> QED BY <4>1, <4>2 DEF RequestHolds
    <3>2. CASE b # a
      <4>1. PICK r \in AdminRecords : r = admin[b] /\ r = next[b] /\ AdminShape(r) /\ RequestHolds(b, r)
        BY <1>0, <2>3, <3>2 DEF AdminInv
      <4>2. PICK s \in AdminRecords :
               /\ s = admin'[b] /\ s.at = r.at /\ s.kind = r.kind /\ s.mod = r.mod /\ s.seen = r.seen
               /\ s.wrote = r.wrote
               /\ s.sel => r.sel /\ r.mod # p
        BY <2>5, <4>1
      <4>3. r.at \notin InGate /\ r.at # "inside" /\ DOMAIN r.seen = {}
        BY <1>2, <3>2, <4>1 DEF RequestHolds, InGate
      <4>4. AdminShape(s)
        BY <4>1, <4>2 DEF AdminShape
      <4>5. s.kind \in {"update", "copy"} /\ s.sel => registered'[s.mod] # "gone"
        BY <1>0, <1>4, <4>1, <4>2 DEF RequestHolds, AdminShape
      <4>6. RequestHolds(b, s)'
        BY <1>0, <2>0, <4>2, <4>3, <4>5 DEF RequestHolds
      <4> QED BY <4>2, <4>4, <4>6 DEF RequestHolds
    <3> QED BY <3>1, <3>2
  <2>7. AdminTyped'
    <3>1. admin' = [b \in AdminCalls |-> admin'[b]]
      BY <2>4 DEF Moved
    <3>2. admin' \in [AdminCalls -> AdminRecords]
      BY <2>5, <3>1
    <3>3. registered' \in [AdminModules -> RegistryStates]
      BY <1>0, <1>4 DEF RegistryStates
    <3> QED BY <1>0, <3>2, <3>3 DEF AdminTyped
  <2>8. AdminInv'
    BY <2>6, <2>7 DEF AdminInv, AdminShape
  <2>9. EffectsAreAuthorized
    <3>1. ASSUME NEW q \in AdminModules, registered[q] # "gone", registered'[q] = "gone" PROVE q = p
      BY <1>0, <1>4, <3>1
    <3> QED BY <1>0, <1>1, <1>2, <1>4, <2>0, <3>1 DEF EffectsAreAuthorized
  <2>10. AnswersTellTruth
    <3>1. \A b \in AdminCalls \ {a} : admin'[b].at = admin[b].at
      BY <2>3, <2>5
    <3>2. registered'[admin[a].mod] = "gone"
      BY <1>0, <1>1, <1>4
    <3> QED BY <1>2, <3>1, <3>2 DEF AnswersTellTruth
  <2> QED BY <2>8, <2>9, <2>10
<1> QED BY <1>1, <1>3, <1>4 DEF UnloadDetaches, Validated, ProofHolds

LEMMA AdminStep ==
    ASSUME AdminInv, AdminNext
    PROVE  AdminInv' /\ EffectsAreAuthorized /\ AnswersTellTruth
<1>1. ASSUME NEW a \in AdminCalls,
             Enter(a) \/ ReadBody(a) \/ Dispatch(a) \/ TakeGate(a) \/ ReadModule(a)
      PROVE  AdminInv' /\ EffectsAreAuthorized /\ AnswersTellTruth
  <2>1. CASE Enter(a)
    BY <2>1, EntryStep
  <2>2. CASE ReadBody(a) \/ Dispatch(a)
    BY <2>2, DispatchStep
  <2>3. CASE TakeGate(a)
    BY <2>3, EnterGateStep
  <2>4. CASE ReadModule(a)
    BY <2>4, ReadStep
  <2> QED BY <1>1, <2>1, <2>2, <2>3, <2>4
<1>2. ASSUME NEW a \in AdminCalls,
             ListDone(a) \/ StatusDone(a) \/ OrdinaryReadDone(a) \/ CatalogDone(a) \/ UpdateReplies(a)
             \/ CopyReplies(a)
      PROVE  AdminInv' /\ EffectsAreAuthorized /\ AnswersTellTruth
  BY <1>2, DoneStep
<1>3. ASSUME NEW a \in AdminCalls, UpdateCommits(a) \/ CopyCommits(a) \/ UpdatePublishes(a)
             \/ UnloadPrepares(a) \/ UnloadDisables(a) \/ UnloadDetaches(a)
      PROVE  AdminInv' /\ EffectsAreAuthorized /\ AnswersTellTruth
  <2>1. CASE UpdateCommits(a) \/ CopyCommits(a)
    BY <2>1, CommitStep
  <2>2. CASE UpdatePublishes(a) \/ UnloadPrepares(a)
    BY <2>2, PublishStep
  <2>3. CASE UnloadDisables(a)
    BY <2>3, DisableStep
  <2>4. CASE UnloadDetaches(a)
    BY <2>4, DetachStep
  <2> QED BY <1>3, <2>1, <2>2, <2>3, <2>4
<1>4. ASSUME NEW a \in AdminCalls, Responds(a) \/ SessionEnds(a) \/ Disconnects(a)
      PROVE  AdminInv' /\ EffectsAreAuthorized /\ AnswersTellTruth
  BY <1>4, EndStep
<1>5. CASE ClosePages \/ StopAccepting \/ OpenPages \/ SourcesReissued
  BY <1>5, PagesStep
<1>6. ASSUME NEW p \in AdminModules, Switches(p) \/ Isolates(p) \/ Restores(p)
      PROVE  AdminInv' /\ EffectsAreAuthorized /\ AnswersTellTruth
  BY <1>6, RegistryStep
<1> QED BY <1>1, <1>2, <1>3, <1>4, <1>5, <1>6 DEF AdminNext

LEMMA AdminStutter ==
    ASSUME AdminInv, UNCHANGED adminVars
    PROVE  AdminInv'
BY DEF adminVars, AdminInv, AdminTyped, AdminShape, RequestHolds

\* The requests of the management pages, for any number of them and of modules: a row is
\* written and a module unloaded only under a proof that still holds, and a successful
\* answer is true as it is decided.
THEOREM AdminFenced == MCSpec => AdminIsFenced
<1> DEFINE Kept == part = "admin" => AdminInv
           Current == part = "admin" => EffectsAreAuthorized /\ AnswersTellTruth
<1>1. MCInit => Kept
  BY AdminInitInv DEF MCInit
<1>2. Kept /\ [MCNext]_AllVars => Kept'
  BY AdminStep, AdminStutter DEF MCNext, AllVars
<1>3. ASSUME Kept, MCNext, part = "admin"
      PROVE  EffectsAreAuthorized /\ AnswersTellTruth
  <2>1. AdminNext /\ AdminInv
    BY <1>3 DEF MCNext
  <2> QED BY <2>1, AdminStep
<1>4. Kept /\ [MCNext]_AllVars => [Current]_adminVars
  BY <1>3 DEF AllVars
<1> QED BY <1>1, <1>2, <1>4, PTL DEF MCSpec, AdminIsFenced, AllVars

-----------------------------------------------------------------------------
\* CalendarReminders: a date that was sent is over under every offset, or
\* it is among the remembered ones.  Dates are remembered in the order in
\* which they were sent, and one that falls out is over: those sent after
\* it differ and are near it, so there are too few of them otherwise.

\* How far apart the offsets are, in days.
Apart == CHOOSE k \in 1..2 : Shifts \subseteq 0..(k * DayTicks) /\ Remembered > 2 * k

\* The earliest instant that can still be evaluated, and the earliest date of it.
Instant == IF observed.pc = "ready" THEN observed.at ELSE tick
FirstDate == Instant \div DayTicks

ReminderStates == [rev: Nat, shift: Nat, due: Nat, baseline: Int, last: Int, emitted: Seq(Nat)]
Observations == [pc: {"none", "ready"}, at: Nat, status: {"complete", "partial", "failed"}, covers: BOOLEAN]

RemindersTyped ==
    /\ tick \in 0..LastReminder /\ since \in Nat
    /\ settings \in [rev: Nat \ {0}, shift: Shifts, due: DueTimes]
    /\ observed \in Observations /\ observed.at <= tick
    /\ evalState \in ReminderStates /\ Len(evalState.emitted) <= Remembered
    /\ summaries \in [ReminderDates -> Nat]

\* Remembered dates differ, and those sent later are not much earlier.
DatesNear(dates, first) ==
    /\ \A i \in 1..Len(dates) : dates[i] <= first + Apart
    /\ \A i, j \in 1..Len(dates) : i < j => dates[j] # dates[i] /\ dates[j] >= dates[i] - Apart

SentAreKnown(dates, first) ==
    \A d \in ReminderDates :
        summaries[d] > 0 => d < first \/ \E i \in 1..Len(dates) : dates[i] = d

BaselineAhead == evalState.rev # 0 => since < DueTick(evalState.baseline)

RemindersInv ==
    /\ RemindersTyped /\ OneSummaryPerDate /\ BaselineAhead
    /\ DatesNear(evalState.emitted, FirstDate)
    /\ SentAreKnown(evalState.emitted, FirstDate)

LEMMA ApartIs ==
    Apart \in 1..2 /\ Shifts \subseteq 0..(Apart * DayTicks) /\ Remembered > 2 * Apart
BY RemindersAssumption DEF RemindersAssumption, Apart

LEMMA Division ==
    ASSUME NEW a \in Nat, NEW d \in Nat \ {0}
    PROVE  a = ((a \div d) * d) + (a % d) /\ (a % d) \in 0..(d - 1) /\ (a \div d) \in Nat
OBVIOUS

LEMMA ShiftedDivision ==
    ASSUME NEW a \in Nat, NEW d \in Nat \ {0}, NEW k \in Nat, NEW s \in 0..(k * d)
    PROVE  (a + s) \div d \in Nat /\ (a + s) \div d >= a \div d /\ (a + s) \div d <= (a \div d) + k
OBVIOUS

LEMMA DivisionGrows ==
    ASSUME NEW a \in Nat, NEW b \in Nat, NEW d \in Nat \ {0}, a <= b
    PROVE  a \div d <= b \div d
<1>1. PICK s \in Nat : b = a + s
  <2>1. b - a \in Nat /\ b = a + (b - a)
    OBVIOUS
  <2> QED BY <2>1
<1>2. PICK p \in Nat, q \in Nat : p = a \div d /\ q = b \div d
  BY Division
<1>3. PICK u \in 0..(d - 1), v \in 0..(d - 1) : a = (p * d) + u /\ b = (q * d) + v
  <2>1. a = ((a \div d) * d) + (a % d) /\ (a % d) \in 0..(d - 1)
    BY Division
  <2>2. b = ((b \div d) * d) + (b % d) /\ (b % d) \in 0..(d - 1)
    BY Division
  <2> QED BY <1>2, <2>1, <2>2
<1>4. CASE q < p
  <2>1. (q + 1) * d <= p * d
    BY <1>4
  <2>2. (q + 1) * d = (q * d) + d
    OBVIOUS
  <2> QED BY <1>3, <2>1, <2>2
<1> QED BY <1>2, <1>4

LEMMA FirstTyped ==
    ASSUME RemindersTyped
    PROVE  Instant \in Nat /\ FirstDate \in Nat
<1>1. tick \in Nat /\ observed.at \in Nat
  BY RemindersAssumption DEF RemindersTyped, Observations, RemindersAssumption
<1>2. Instant \in Nat
  BY <1>1 DEF Instant
<1> QED BY <1>2, Division, RemindersAssumption DEF FirstDate, RemindersAssumption

LEMMA NothingObserved == NoObservation \in Observations /\ NoObservation.at = 0 /\ NoObservation.pc = "none"
BY DEF Observations, NoObservation

LEMMA NothingEvaluated ==
    NoState \in ReminderStates /\ NoState.rev = 0 /\ NoState.emitted = << >> /\ Len(NoState.emitted) = 0
<1>1. << >> \in Seq(Nat) /\ Len(<< >>) = 0
  OBVIOUS
<1>2. PICK z \in Seq(Nat) : z = << >> /\ Len(z) = 0
  BY <1>1
<1>3. NoState = [rev |-> 0, shift |-> 0, due |-> 0, baseline |-> -1, last |-> -1, emitted |-> z]
  BY <1>2 DEF NoState, NoDate
<1> QED BY <1>2, <1>3 DEF ReminderStates

\* As the clock goes on the earliest date grows; what is known stays known.
LEMMA FirstGrows ==
    ASSUME RemindersInv, NEW f \in Int, FirstDate <= f
    PROVE  DatesNear(evalState.emitted, f) /\ SentAreKnown(evalState.emitted, f)
<1>0. /\ evalState.emitted \in Seq(Nat) /\ DatesNear(evalState.emitted, FirstDate)
      /\ SentAreKnown(evalState.emitted, FirstDate) /\ Apart \in Int
  BY ApartIs DEF RemindersInv, RemindersTyped, ReminderStates
<1>1. FirstDate \in Int
  BY FirstTyped DEF RemindersInv
<1>2. \A i \in 1..Len(evalState.emitted) : evalState.emitted[i] \in Nat
  BY <1>0
<1>3. DatesNear(evalState.emitted, f)
  BY SMTT(20), <1>0, <1>1, <1>2 DEF DatesNear
<1>4. \A d \in ReminderDates : d \in Int
  BY RemindersAssumption DEF ReminderDates, RemindersAssumption
<1>5. SentAreKnown(evalState.emitted, f)
  BY <1>0, <1>1, <1>4 DEF SentAreKnown
<1> QED BY <1>3, <1>5

LEMMA RemindersInitInv == RemindersInit => RemindersInv
<1> SUFFICES ASSUME RemindersInit PROVE RemindersInv
  OBVIOUS
<1> USE RemindersAssumption DEF RemindersAssumption
<1>1. PICK o \in Observations : o = NoObservation /\ o.at = 0
  BY NothingObserved
<1>2. PICK e \in ReminderStates : e = NoState /\ e.rev = 0 /\ Len(e.emitted) = 0
  BY NothingEvaluated
<1>3. \A d \in ReminderDates : summaries[d] = 0
  BY DEF RemindersInit
<1>4. RemindersTyped
  <2>1. settings \in [rev: Nat \ {0}, shift: Shifts, due: DueTimes]
    BY DEF RemindersInit
  <2> QED BY <1>1, <1>2, <2>1 DEF RemindersInit, RemindersTyped
<1>5. OneSummaryPerDate /\ SentAreKnown(evalState.emitted, FirstDate)
  BY <1>3 DEF OneSummaryPerDate, SentAreKnown
<1>6. BaselineAhead /\ DatesNear(evalState.emitted, FirstDate)
  BY <1>2 DEF RemindersInit, BaselineAhead, DatesNear
<1> QED BY <1>4, <1>5, <1>6 DEF RemindersInv

\* Nothing is evaluated.
LEMMA QuietReminder ==
    ASSUME RemindersInv, TickPasses \/ SettingsRevised \/ Observed \/ ObservationLost
    PROVE  RemindersInv' /\ OneSummaryPerDate' /\ SummaryIsAhead
<1> USE RemindersAssumption DEF RemindersAssumption
<1>0. UNCHANGED <<evalState, summaries, since>> /\ RemindersTyped
  BY DEF RemindersInv, TickPasses, SettingsRevised, Observed, ObservationLost
<1>1. tick \in Nat /\ tick' \in 0..LastReminder /\ tick <= tick'
  BY <1>0 DEF RemindersTyped, TickPasses, SettingsRevised, Observed, ObservationLost
<1>2. observed' \in Observations /\ observed'.at <= tick' /\ Instant' >= Instant
  <2>1. CASE TickPasses \/ SettingsRevised
    BY <1>0, <1>1, <2>1 DEF TickPasses, SettingsRevised, RemindersTyped, Observations, Instant
  <2>2. CASE Observed
    <3>1. PICK o \in Observations : observed' = o /\ o.at = tick /\ o.pc = "ready"
      BY <1>1, <2>2 DEF Observed, Observations
    <3> QED BY <1>1, <2>2, <3>1 DEF Observed, Instant
  <2>3. CASE ObservationLost
    <3>1. PICK o \in Observations : observed' = o /\ o.at = 0 /\ o.pc = "none"
      BY <2>3, NothingObserved DEF ObservationLost
    <3> QED BY <1>0, <1>1, <2>3, <3>1 DEF RemindersTyped, Observations, Instant
  <2> QED BY <2>1, <2>2, <2>3
<1>3. settings' \in [rev: Nat \ {0}, shift: Shifts, due: DueTimes]
  <2>1. CASE SettingsRevised
    <3>1. PICK s \in Shifts, d \in DueTimes, n \in Nat \ {0} :
             settings' = [rev |-> n, shift |-> s, due |-> d]
      <4>1. settings.rev + 1 \in Nat \ {0}
        BY <1>0 DEF RemindersTyped
      <4> QED BY <2>1, <4>1 DEF SettingsRevised
    <3> QED BY <3>1
  <2>2. CASE ~SettingsRevised
    BY <1>0, <2>2 DEF TickPasses, Observed, ObservationLost, RemindersTyped
  <2> QED BY <2>1, <2>2
<1>4. RemindersTyped'
  BY <1>0, <1>1, <1>2, <1>3 DEF RemindersTyped
<1>5. PICK f \in Int : f = FirstDate' /\ FirstDate <= f
  <2>1. Instant \in Nat /\ Instant' \in Nat
    BY <1>0, <1>1, <1>2 DEF RemindersTyped, Observations, Instant
  <2>2. PICK x \in Nat, y \in Nat : x = Instant /\ y = Instant' /\ x <= y
    BY <1>2, <2>1
  <2>3. x \div DayTicks <= y \div DayTicks /\ y \div DayTicks \in Int
    <3>1. x \div DayTicks <= y \div DayTicks
      BY <2>2, DivisionGrows
    <3>2. y \div DayTicks \in Nat
      BY Division
    <3> QED BY <3>1, <3>2
  <2> QED BY <2>2, <2>3 DEF FirstDate
<1>6. DatesNear(evalState.emitted, FirstDate)' /\ SentAreKnown(evalState.emitted, FirstDate)'
  BY <1>0, <1>5, FirstGrows DEF DatesNear, SentAreKnown
<1>7. OneSummaryPerDate' /\ BaselineAhead'
  BY <1>0 DEF RemindersInv, OneSummaryPerDate, BaselineAhead, DueTick
<1>8. SummaryIsAhead
  <2>1. \A d \in ReminderDates : summaries[d] \in Nat
    BY <1>0 DEF RemindersTyped
  <2> QED BY <1>0, <2>1 DEF SummaryIsAhead
<1> QED BY <1>4, <1>6, <1>7, <1>8 DEF RemindersInv

-----------------------------------------------------------------------------
\* What an evaluation reads of the calendar.
LEMMA TodayIs ==
    ASSUME RemindersInv, observed.pc = "ready"
    PROVE  /\ observed.at \in Nat /\ settings.shift \in Nat /\ settings.due \in 0..(DayTicks - 1)
           /\ Today \in Nat /\ FirstDate <= Today /\ Today <= FirstDate + Apart
           /\ Today \in ReminderDates
           /\ IsDue => (Today * DayTicks) + settings.due <= observed.at + settings.shift
           /\ ~IsDue => observed.at + settings.shift < (Today * DayTicks) + settings.due
           /\ observed.at + settings.shift < ((Today + 1) * DayTicks) + settings.due
<1> USE RemindersAssumption DEF RemindersAssumption
<1>1. PICK k \in Nat : k = Apart /\ k \in 1..2
  BY ApartIs
<1>2. PICK a \in Nat, s \in 0..(k * DayTicks), u \in 0..(DayTicks - 1) :
         a = observed.at /\ s = settings.shift /\ u = settings.due /\ a <= LastReminder
  <2>1. settings.shift \in Shifts /\ settings.due \in DueTimes
    BY DEF RemindersInv, RemindersTyped
  <2>2. settings.shift \in 0..(k * DayTicks) /\ settings.due \in 0..(DayTicks - 1)
    BY <1>1, <2>1, ApartIs
  <2>3. observed.at \in Nat /\ observed.at <= LastReminder
    BY DEF RemindersInv, RemindersTyped, Observations
  <2> QED BY <2>2, <2>3
<1>3. PICK b \in Nat : b = a + s
  BY <1>2
<1>4. PICK t \in Nat, v \in 0..(DayTicks - 1) : t = b \div DayTicks /\ v = b % DayTicks
                                                /\ b = (t * DayTicks) + v
  BY Division
<1>5. PICK f \in Nat, w \in 0..(DayTicks - 1) : f = a \div DayTicks /\ a = (f * DayTicks) + w
  <2>1. a = ((a \div DayTicks) * DayTicks) + (a % DayTicks) /\ (a % DayTicks) \in 0..(DayTicks - 1)
        /\ (a \div DayTicks) \in Nat
    BY Division
  <2> QED BY <2>1
<1>6. Today = t /\ (IsDue <=> v >= u) /\ FirstDate = f
  BY <1>2, <1>3, <1>4, <1>5 DEF Today, IsDue, FirstDate, Instant
<1>7. t >= f /\ t <= f + k
  <2>1. (a + s) \div DayTicks >= a \div DayTicks /\ (a + s) \div DayTicks <= (a \div DayTicks) + k
    BY ShiftedDivision
  <2> QED BY <1>3, <1>4, <1>5, <2>1
<1>8. (t + 1) * DayTicks = (t * DayTicks) + DayTicks
  OBVIOUS
<1>9. t \in ReminderDates
  <2>1. f <= f * DayTicks
    OBVIOUS
  <2>2. f <= LastReminder
    BY <1>2, <1>5, <2>1
  <2>3. k <= 2 * DayTicks
    BY <1>1
  <2> QED BY <1>7, <2>2, <2>3 DEF ReminderDates
<1>10. /\ v >= u => (t * DayTicks) + u <= a + s
       /\ ~(v >= u) => a + s < (t * DayTicks) + u
       /\ a + s < ((t + 1) * DayTicks) + u
  <2>1. PICK z \in Nat : z = t * DayTicks
    OBVIOUS
  <2> QED BY <1>3, <1>4, <1>8, <2>1
<1>11. observed.at \in Nat /\ settings.shift \in Nat /\ settings.due \in 0..(DayTicks - 1)
  <2>1. \A x \in 0..(k * DayTicks) : x \in Nat
    OBVIOUS
  <2> QED BY <1>2, <2>1
<1>12. /\ Today \in Nat /\ FirstDate <= Today /\ Today <= FirstDate + Apart /\ Today \in ReminderDates
  BY <1>1, <1>6, <1>7, <1>9
<1> QED BY <1>2, <1>6, <1>10, <1>11, <1>12

\* The first date a new schedule sends becomes due after it was first evaluated.
LEMMA BaselineIsAhead ==
    ASSUME RemindersInv, observed.pc = "ready"
    PROVE  /\ Baseline \in Int
           /\ observed.at < (Baseline * DayTicks) + settings.due - settings.shift
<1>1. PICK a \in Nat, s \in Nat, u \in Nat, t \in Nat : a = observed.at /\ s = settings.shift /\ u = settings.due /\ t = Today
  BY TodayIs, RemindersAssumption DEF RemindersAssumption
<1>2. /\ ~IsDue => a + s < (t * DayTicks) + u
      /\ a + s < ((t + 1) * DayTicks) + u
  BY <1>1, TodayIs
<1>3. PICK b \in Int : b = Baseline /\ (b = t + 1 \/ (b = t /\ ~IsDue))
  BY <1>1 DEF Baseline
<1>4. a + s < (b * DayTicks) + u
  BY <1>2, <1>3
<1>5. b * DayTicks \in Int
  BY RemindersAssumption DEF RemindersAssumption
<1> QED BY <1>1, <1>3, <1>4, <1>5

\* More dates than there are near a date cannot be near it.
LEMMA TooManyDates ==
    ASSUME NEW dates \in Seq(Nat), NEW f \in Nat, Len(dates) > (2 * Apart) + 1, DatesNear(dates, f)
    PROVE  dates[1] < f
<1>0. Apart \in Nat /\ Len(dates) \in Nat /\ \A i \in 1..Len(dates) : dates[i] \in Nat
  BY ApartIs
<1>1. PICK k \in Nat, n \in Nat, e \in Nat : k = Apart /\ n = Len(dates) /\ e = dates[1] /\ 1 \in 1..n
  BY SMTT(20), <1>0
<1>2. SUFFICES ASSUME e >= f PROVE FALSE
  BY <1>1
<1>3. \A i \in 1..n : dates[i] \in (e - k)..(e + k)
  <2>1. \A i \in 1..n : dates[i] <= f + k
    BY <1>1 DEF DatesNear
  <2>2. \A i \in 1..n : i > 1 => dates[i] >= e - k
    BY <1>1 DEF DatesNear
  <2> QED BY <1>0, <1>1, <1>2, <2>1, <2>2
<1>4. IsFiniteSet((e - k)..(e + k)) /\ Cardinality((e - k)..(e + k)) = (2 * k) + 1
  <2>1. e - k \in Int /\ e + k \in Int
    BY <1>1
  <2>2. /\ IsFiniteSet((e - k)..(e + k))
        /\ Cardinality((e - k)..(e + k)) = IF e - k > e + k THEN 0 ELSE (e + k) - (e - k) + 1
    BY <2>1, FS_Interval
  <2> QED BY <2>2
<1>5. IsFiniteSet(1..n) /\ Cardinality(1..n) = n
  <2>1. PICK o \in Int, m \in Int : o = 1 /\ m = n
    OBVIOUS
  <2>2. IsFiniteSet(o..m) /\ Cardinality(o..m) = IF o > m THEN 0 ELSE m - o + 1
    BY FS_Interval, Zenon
  <2> QED BY <1>1, <2>1, <2>2
<1>6. PICK g \in [1..n -> (e - k)..(e + k)] : \A i \in 1..n : g[i] = dates[i]
  <2>1. [i \in 1..n |-> dates[i]] \in [1..n -> (e - k)..(e + k)]
    BY <1>3
  <2> QED BY <2>1
<1>7. Cardinality((e - k)..(e + k)) < Cardinality(1..n)
  BY <1>1, <1>4, <1>5
<1>8. PICK i \in 1..n, j \in 1..n : i # j /\ g[i] = g[j]
  BY <1>4, <1>5, <1>7, FS_PigeonHole
<1>9. dates[i] = dates[j] /\ (i < j \/ j < i)
  BY <1>6, <1>8
<1> QED BY <1>1, <1>8, <1>9 DEF DatesNear

LEMMA AppendIs ==
    ASSUME NEW s \in Seq(Nat), NEW t \in Nat
    PROVE  /\ Append(s, t) \in Seq(Nat) /\ Len(s) \in Nat /\ Len(Append(s, t)) = Len(s) + 1
           /\ \A i \in 1..Len(s) : Append(s, t)[i] = s[i]
           /\ Append(s, t)[Len(s) + 1] = t
OBVIOUS

LEMMA TailIs ==
    ASSUME NEW s \in Seq(Nat), NEW n \in Nat, Len(s) = n + 1
    PROVE  /\ Tail(s) \in Seq(Nat) /\ Len(Tail(s)) = n
           /\ \A i \in 1..n : Tail(s)[i] = s[i + 1]
<1>1. s # << >>
  OBVIOUS
<1>2. Tail(s) \in Seq(Nat) /\ Len(Tail(s)) = n
  BY <1>1
<1>3. \A i \in 1..n : Tail(s)[i] = s[i + 1]
  BY <1>1
<1> QED BY <1>2, <1>3

\* Dates that are near, by their entries.
LEMMA NearBy ==
    ASSUME NEW dates, NEW f, NEW n, NEW k, n = Len(dates), k = Apart,
           \A i \in 1..n : dates[i] <= f + k,
           \A i, j \in 1..n : i < j => dates[j] # dates[i] /\ dates[j] >= dates[i] - k
    PROVE  DatesNear(dates, f)
BY DEF DatesNear

\* A date is remembered in place of one that is over.
LEMMA DateRemembered ==
    ASSUME RemindersInv, observed.pc = "ready", ~AlreadySent,
           NEW dates, dates = Remember(evalState.emitted, Today)
    PROVE  /\ dates \in Seq(Nat) /\ Len(dates) <= Remembered
           /\ DatesNear(dates, FirstDate)
           /\ \E i \in 1..Len(dates) : dates[i] = Today
           /\ \A i \in 1..Len(evalState.emitted) :
                 evalState.emitted[i] < FirstDate \/ \E j \in 1..Len(dates) : dates[j] = evalState.emitted[i]
<1>0. PICK s \in Seq(Nat), t \in Nat, f \in Nat, k \in Nat, r \in Nat :
        /\ s = evalState.emitted /\ t = Today /\ f = FirstDate /\ k = Apart /\ r = Remembered
        /\ f <= t /\ t <= f + k /\ r > 2 * k /\ Len(s) <= r /\ DatesNear(s, f)
  <2>1. evalState.emitted \in Seq(Nat) /\ Len(evalState.emitted) <= Remembered
        /\ DatesNear(evalState.emitted, FirstDate) /\ FirstDate \in Nat /\ Apart \in Nat /\ Remembered > 2 * Apart
    BY ApartIs, FirstTyped DEF RemindersInv, RemindersTyped, ReminderStates
  <2>2. Today \in Nat /\ FirstDate <= Today /\ Today <= FirstDate + Apart
    BY TodayIs
  <2> QED BY <2>1, <2>2, RemindersAssumption DEF RemindersAssumption
<1>1. \A i \in 1..Len(s) : s[i] # t
  BY <1>0 DEF AlreadySent
<1>2. PICK n \in Nat : n = Len(s)
  BY <1>0
<1>3. PICK l \in Seq(Nat) : /\ l = Append(s, t) /\ Len(l) = n + 1
                            /\ \A i \in 1..n : l[i] = s[i]
                            /\ l[n + 1] = t
  BY <1>2, AppendIs
<1>4. \A i \in 1..n : s[i] \in Nat /\ s[i] <= f + k
  BY <1>0, <1>2 DEF DatesNear
<1>5. \A i \in 1..(n + 1) : l[i] \in Nat /\ l[i] <= f + k
  <2>1. ASSUME NEW i \in 1..(n + 1) PROVE l[i] \in Nat /\ l[i] <= f + k
    <3>1. i \in 1..n \/ i = n + 1
      BY <1>2
    <3> QED BY <1>0, <1>3, <1>4, <3>1
  <2> QED BY <2>1
<1>6. \A i, j \in 1..(n + 1) : i < j => l[j] # l[i] /\ l[j] >= l[i] - k
  <2>1. ASSUME NEW i \in 1..(n + 1), NEW j \in 1..(n + 1), i < j
        PROVE  l[j] # l[i] /\ l[j] >= l[i] - k
    <3>1. i \in 1..n /\ l[i] = s[i] /\ (j \in 1..n \/ j = n + 1)
      BY <1>2, <1>3, <2>1
    <3>2. CASE j \in 1..n
      BY <1>0, <1>2, <1>3, <2>1, <3>1, <3>2 DEF DatesNear
    <3>3. CASE j = n + 1
      <4>1. l[j] = t /\ s[i] # t /\ s[i] <= f + k /\ s[i] \in Nat
        BY <1>1, <1>2, <1>3, <1>4, <3>1, <3>3
      <4>2. t >= s[i] - k
        <5>1. PICK e \in Nat : e = s[i] /\ e <= f + k
          BY <4>1
        <5>2. f <= t
          BY <1>0
        <5>3. t >= e - k
          BY <5>1, <5>2
        <5> QED BY <5>1, <5>3
      <4> QED BY <3>1, <4>1, <4>2
    <3> QED BY <3>1, <3>2, <3>3
  <2> QED BY <2>1
<1>7. DatesNear(l, f)
  <2>1. n + 1 = Len(l) /\ k = Apart
    BY <1>0, <1>3
  <2>2. \A i \in 1..(n + 1) : l[i] <= f + k
    BY <1>5
  <2> QED BY <1>6, <2>1, <2>2, NearBy
<1>8. CASE n + 1 > r
  <2>1. n = r /\ dates = Tail(l)
    BY <1>0, <1>2, <1>3, <1>8 DEF Remember
  <2>2. Len(l) > (2 * Apart) + 1
    BY <1>0, <1>3, <2>1
  <2>3. l[1] < f
    BY <1>0, <1>7, <2>2, TooManyDates
  <2>4. n > 0
    BY <1>0, <2>1
  <2>5. PICK d \in Seq(Nat) : /\ d = dates /\ Len(d) = n
                              /\ \A i \in 1..n : d[i] = l[i + 1]
    BY <1>3, <2>1, TailIs
  <2>6. DatesNear(d, f)
    <3>1. \A i \in 1..n : i + 1 \in 1..(n + 1)
      BY <1>2
    <3>2. \A i \in 1..n : d[i] <= f + k
      BY <1>5, <2>5, <3>1
    <3>3. \A i, j \in 1..n : i < j => d[j] # d[i] /\ d[j] >= d[i] - k
      <4>1. ASSUME NEW i \in 1..n, NEW j \in 1..n, i < j PROVE d[j] # d[i] /\ d[j] >= d[i] - k
        <5>1. PICK u \in 1..(n + 1), v \in 1..(n + 1) : u = i + 1 /\ v = j + 1 /\ u < v
          BY <3>1, <4>1
        <5>2. l[v] # l[u] /\ l[v] >= l[u] - k
          BY <1>6, <5>1
        <5>3. d[i] = l[u] /\ d[j] = l[v]
          BY <2>5, <5>1
        <5> QED BY <5>2, <5>3
      <4> QED BY <4>1
    <3>4. n = Len(d) /\ k = Apart
      BY <1>0, <2>5
    <3> QED BY <3>2, <3>3, <3>4, NearBy
  <2>7. \E i \in 1..n : d[i] = t
    BY <1>3, <2>4, <2>5
  <2>8. ASSUME NEW i \in 1..n PROVE s[i] < f \/ \E j \in 1..n : d[j] = s[i]
    <3>1. CASE i = 1
      BY <1>3, <2>3, <2>8, <3>1
    <3>2. CASE i # 1
      <4>1. i - 1 \in 1..n /\ (i - 1) + 1 = i
        BY <1>2, <2>8, <3>2
      <4>2. d[i - 1] = l[(i - 1) + 1]
        BY <2>5, <4>1
      <4>3. d[i - 1] = s[i]
        BY <1>3, <2>8, <4>1, <4>2
      <4> QED BY <4>1, <4>3
    <3> QED BY <3>1, <3>2
  <2> QED BY <1>0, <1>2, <2>1, <2>5, <2>6, <2>7, <2>8
<1>9. CASE ~(n + 1 > r)
  <2>1. dates = l
    BY <1>0, <1>2, <1>3, <1>9 DEF Remember
  <2>2. n + 1 \in 1..(n + 1) /\ \A i \in 1..n : i \in 1..(n + 1)
    BY <1>2
  <2> QED BY <1>0, <1>2, <1>3, <1>7, <1>9, <2>1, <2>2
<1> QED BY <1>8, <1>9

\* An evaluation: nothing, a new baseline, or the summary of a date never sent.
LEMMA EvaluationStep ==
    ASSUME RemindersInv, Evaluated
    PROVE  RemindersInv' /\ OneSummaryPerDate' /\ SummaryIsAhead
<1> USE RemindersAssumption DEF RemindersAssumption
<1>0. /\ RemindersTyped /\ observed.pc = "ready" /\ UNCHANGED <<tick, settings>> /\ observed' = NoObservation
      /\ evalState' = Decided /\ tick \in Nat
  BY DEF RemindersInv, RemindersTyped, Evaluated
<1>1. PICK a \in Nat, s \in Nat, u \in Nat, t \in Nat, f \in Nat :
        /\ a = observed.at /\ s = settings.shift /\ u = settings.due /\ t = Today /\ f = FirstDate /\ a <= tick
        /\ f <= t /\ t \in ReminderDates /\ (IsDue => (t * DayTicks) + u <= a + s)
  <2>1. Today \in Nat /\ FirstDate \in Nat /\ FirstDate <= Today /\ Today \in ReminderDates
    BY <1>0, FirstTyped, TodayIs
  <2>2. observed.at \in Nat /\ settings.shift \in Nat /\ settings.due \in Nat /\ observed.at <= tick
    BY <1>0, TodayIs DEF RemindersTyped
  <2>3. IsDue => (Today * DayTicks) + settings.due <= observed.at + settings.shift
    BY <1>0, TodayIs
  <2> QED BY <2>1, <2>2, <2>3
<1>2. PICK g \in Int : g = FirstDate' /\ f <= g
  <2>1. Instant = a /\ Instant' = tick
    BY <1>0, <1>1, NothingObserved DEF Instant
  <2>2. a \div DayTicks <= tick \div DayTicks /\ tick \div DayTicks \in Nat
    <3>1. a \div DayTicks <= tick \div DayTicks
      BY <1>0, <1>1, DivisionGrows
    <3>2. tick \div DayTicks \in Nat
      BY <1>0, Division
    <3> QED BY <3>1, <3>2
  <2> QED BY <1>0, <1>1, <2>1, <2>2 DEF FirstDate
<1>3. observed' \in Observations /\ observed'.at <= tick' /\ tick' \in 0..LastReminder
  BY <1>0, NothingObserved DEF RemindersTyped
<1>4. /\ evalState.emitted \in Seq(Nat) /\ evalState.rev \in Nat /\ evalState \in ReminderStates
      /\ \A d \in ReminderDates : summaries[d] \in Nat /\ summaries[d] <= 1 /\ d \in Int
      /\ summaries \in [ReminderDates -> Nat]
  <2>1. evalState \in ReminderStates /\ summaries \in [ReminderDates -> Nat]
        /\ \A d \in ReminderDates : summaries[d] <= 1
    BY DEF RemindersInv, RemindersTyped, OneSummaryPerDate
  <2>2. \A d \in ReminderDates : d \in Int
    BY DEF ReminderDates
  <2>3. evalState.emitted \in Seq(Nat) /\ evalState.rev \in Nat
    BY <2>1 DEF ReminderStates
  <2> QED BY <2>1, <2>2, <2>3
<1>5. CASE ~Sends
  <2>1. summaries' = summaries
    BY <1>5 DEF Evaluated
  <2>2. evalState'.emitted = evalState.emitted /\ evalState' \in ReminderStates /\ since' \in Nat /\ BaselineAhead'
    <3>1. CASE Usable /\ ~SameSchedule
      <4>1. PICK e \in ReminderStates : e = evalState
        BY <1>4
      <4>2. PICK v \in Nat, b \in Int : /\ v = settings.rev /\ b = Baseline
                                        /\ a < (b * DayTicks) + u - s
        BY <1>0, <1>1, BaselineIsAhead DEF RemindersTyped
      <4> DEFINE y == [e EXCEPT !.rev = v, !.shift = s, !.due = u, !.baseline = b]
      <4>3. /\ y \in ReminderStates /\ y.emitted = e.emitted /\ y.baseline = b /\ y.due = u /\ y.shift = s
        BY <1>1, <4>2 DEF ReminderStates
      <4>4. evalState' = y /\ since' = a
        BY <1>0, <1>1, <3>1, <4>1, <4>2 DEF Decided, Evaluated
      <4> HIDE DEF y
      <4>5. BaselineAhead'
        BY <4>2, <4>3, <4>4 DEF BaselineAhead, DueTick
      <4> QED BY <1>1, <4>1, <4>3, <4>4, <4>5
    <3>2. CASE ~(Usable /\ ~SameSchedule)
      <4>1. evalState' = evalState /\ since' = since
        BY <1>0, <1>5, <3>2 DEF Decided, Evaluated
      <4> QED BY <1>0, <1>4, <4>1 DEF RemindersInv, RemindersTyped, BaselineAhead, DueTick
    <3> QED BY <3>1, <3>2
  <2>3. RemindersTyped'
    BY <1>0, <1>3, <2>1, <2>2 DEF RemindersTyped
  <2>4. DatesNear(evalState.emitted, g) /\ SentAreKnown(evalState.emitted, g)
    BY <1>1, <1>2, FirstGrows
  <2>5. DatesNear(evalState.emitted, FirstDate)' /\ SentAreKnown(evalState.emitted, FirstDate)'
    BY <1>2, <2>1, <2>2, <2>4 DEF DatesNear, SentAreKnown
  <2>6. OneSummaryPerDate' /\ SummaryIsAhead
    BY <1>4, <2>1 DEF OneSummaryPerDate, SummaryIsAhead
  <2> QED BY <2>2, <2>3, <2>5, <2>6 DEF RemindersInv
<1>6. CASE Sends
  <2>1. Usable /\ SameSchedule /\ t >= evalState.baseline /\ IsDue /\ ~AlreadySent
    BY <1>1, <1>6 DEF Sends
  <2>2. summaries' = [summaries EXCEPT ![t] = summaries[t] + 1] /\ since' = since
    BY <1>1, <1>6, <2>1 DEF Evaluated
  <2>3. PICK dates \in Seq(Nat) : dates = Remember(evalState.emitted, Today)
    BY <1>0, <2>1, DateRemembered
  <2>4. /\ Len(dates) <= Remembered /\ DatesNear(dates, f)
        /\ \E i \in 1..Len(dates) : dates[i] = t
        /\ \A i \in 1..Len(evalState.emitted) :
              evalState.emitted[i] < f \/ \E j \in 1..Len(dates) : dates[j] = evalState.emitted[i]
    BY <1>0, <1>1, <2>1, <2>3, DateRemembered
  <2>5. PICK e \in ReminderStates : e = evalState
    BY <1>4
  <2> DEFINE y == [e EXCEPT !.last = t, !.emitted = dates]
  <2>6. /\ y \in ReminderStates /\ y.emitted = dates /\ y.baseline = e.baseline /\ y.due = e.due
        /\ y.shift = e.shift /\ y.rev = e.rev
    <3>1. PICK z \in Int : z = t
      BY <1>1
    <3>2. y = [e EXCEPT !.last = z, !.emitted = dates]
      BY <3>1
    <3> QED BY <3>2 DEF ReminderStates
  <2>7. evalState' = y
    BY <1>0, <1>1, <1>6, <2>1, <2>3, <2>5 DEF Decided
  <2> HIDE DEF y
  <2>8. RemindersTyped'
    <3>1. summaries' \in [ReminderDates -> Nat]
      BY <1>1, <1>4, <2>2
    <3> QED BY <1>0, <1>3, <2>2, <2>4, <2>6, <2>7, <3>1 DEF RemindersTyped
  <2>9. SentAreKnown(evalState.emitted, FirstDate)
    BY DEF RemindersInv
  <2>10. summaries[t] = 0
    <3>1. \A i \in 1..Len(evalState.emitted) : evalState.emitted[i] # t
      <4>1. DOMAIN evalState.emitted = 1..Len(evalState.emitted)
        BY <1>4
      <4>2. \A i \in DOMAIN evalState.emitted : evalState.emitted[i] # Today
        BY <2>1 DEF AlreadySent
      <4> QED BY <1>1, <4>1, <4>2
    <3>2. ~(summaries[t] > 0)
      BY <1>1, <2>9, <3>1 DEF SentAreKnown
    <3> QED BY <1>1, <1>4, <3>2
  <2>11. OneSummaryPerDate'
    BY <1>1, <1>4, <2>2, <2>10 DEF OneSummaryPerDate
  <2>12. BaselineAhead'
    BY <2>2, <2>5, <2>6, <2>7 DEF RemindersInv, BaselineAhead, DueTick
  <2>13. DatesNear(dates, g) /\ \A d \in ReminderDates : summaries'[d] > 0 => d < g \/ \E i \in 1..Len(dates) : dates[i] = d
    <3>1. DatesNear(dates, g)
      <4>1. \A i \in 1..Len(dates) : dates[i] \in Nat /\ dates[i] <= f + Apart
        BY <2>4 DEF DatesNear
      <4>2. \A i \in 1..Len(dates) : dates[i] <= g + Apart
        BY <1>2, <4>1, ApartIs
      <4> QED BY <2>4, <4>2 DEF DatesNear
    <3>2. ASSUME NEW d \in ReminderDates, summaries'[d] > 0
          PROVE  d < g \/ \E i \in 1..Len(dates) : dates[i] = d
      <4>1. CASE d = t
        BY <2>4, <4>1
      <4>2. CASE d # t
        <5>1. summaries[d] > 0
          BY <1>4, <2>2, <3>2, <4>2
        <5>2. d < f \/ \E i \in 1..Len(evalState.emitted) : evalState.emitted[i] = d
          BY <1>1, <2>9, <5>1 DEF SentAreKnown
        <5>3. d < f \/ \E i \in 1..Len(dates) : dates[i] = d
          BY <2>4, <5>2
        <5> QED BY <1>2, <1>4, <5>3
      <4> QED BY <4>1, <4>2
    <3> QED BY <3>1, <3>2
  <2>14. DatesNear(evalState.emitted, FirstDate)' /\ SentAreKnown(evalState.emitted, FirstDate)'
    BY <1>2, <2>6, <2>7, <2>13 DEF DatesNear, SentAreKnown
  <2>15. SummaryIsAhead
    <3>1. \A d \in ReminderDates : summaries'[d] > summaries[d] => d = t
      BY <1>4, <2>2
    <3>2. evalState.rev # 0 /\ evalState.shift = s /\ evalState.due = u
      BY <1>0, <1>1, <2>1 DEF SameSchedule, RemindersTyped
    <3>3. PICK b \in Int, n \in Nat : b = evalState.baseline /\ n = since
      BY <1>0, <1>4 DEF ReminderStates, RemindersTyped
    <3>4. n < (b * DayTicks) + u - s
      BY <3>2, <3>3 DEF RemindersInv, BaselineAhead, DueTick
    <3>5. b * DayTicks <= t * DayTicks /\ b * DayTicks \in Int /\ t * DayTicks \in Int
      BY <1>1, <2>1, <3>3
    <3>6. n < (t * DayTicks) + u - s /\ (t * DayTicks) + u - s <= a
      <4>1. PICK w \in Int, x \in Int : w = t * DayTicks /\ x = b * DayTicks /\ x <= w
        BY <3>5
      <4>2. n < x + u - s
        BY <3>4, <4>1
      <4>3. w + u <= a + s
        BY <1>1, <2>1, <4>1
      <4>4. n < w + u - s
        BY <4>1, <4>2
      <4>5. w + u - s <= a
        BY <4>3
      <4> QED BY <4>1, <4>4, <4>5
    <3>7. since < DueTick(t) /\ DueTick(t) <= observed.at
      BY <1>1, <3>2, <3>3, <3>6 DEF DueTick
    <3> QED BY <3>1, <3>7 DEF SummaryIsAhead
  <2> QED BY <2>8, <2>11, <2>12, <2>14, <2>15 DEF RemindersInv
<1> QED BY <1>5, <1>6

LEMMA RemindersStep ==
    ASSUME RemindersInv, RemindersNext
    PROVE  RemindersInv' /\ OneSummaryPerDate' /\ SummaryIsAhead
BY QuietReminder, EvaluationStep DEF RemindersNext

LEMMA RemindersStutter ==
    ASSUME RemindersInv, UNCHANGED reminderVars
    PROVE  RemindersInv'
BY DEF reminderVars, RemindersInv, RemindersTyped, OneSummaryPerDate, BaselineAhead, DueTick, DatesNear,
   SentAreKnown, FirstDate, Instant

\* The daily summaries, for any days, offsets, due times and revisions: one per local date,
\* and none whose due time had passed when its schedule was first evaluated.
THEOREM SummariesDue == MCSpec => SummariesAreDue
<1> DEFINE Kept == part = "reminders" => RemindersInv
           Current == part = "reminders" => OneSummaryPerDate' /\ SummaryIsAhead
<1>1. MCInit => Kept
  BY RemindersInitInv DEF MCInit
<1>2. Kept /\ [MCNext]_AllVars => Kept'
  BY RemindersStep, RemindersStutter DEF MCNext, AllVars
<1>3. ASSUME Kept, MCNext, part = "reminders"
      PROVE  OneSummaryPerDate' /\ SummaryIsAhead
  <2>1. RemindersNext /\ RemindersInv
    BY <1>3 DEF MCNext
  <2> QED BY <2>1, RemindersStep
<1>4. Kept /\ [MCNext]_AllVars => [Current]_reminderVars
  BY <1>3 DEF AllVars
<1> QED BY <1>1, <1>2, <1>4, PTL DEF MCSpec, SummariesAreDue, AllVars

\* SqliteExecutor, the thread under every repository, for any number of
\* callers and threads and any capacity.

\* A part of the invariant holds as long as nobody touches its variables.
LEMMA Frame ==
    ASSUME ExecutorInv
    PROVE  /\ UNCHANGED <<workers, queue, pc, kind, results, initialized, migrated>> => ShapeOK'
           /\ UNCHANGED <<worker, thread>> => LiveIsWorker'
           /\ UNCHANGED <<queue, worker, job>> => QueueServed'
           /\ UNCHANGED <<thread, running, job, posted, resolved>> => JobPlaces'
           /\ UNCHANGED <<loop, pc, job, answer>> => IdleHasNoJob'
           /\ UNCHANGED <<pc, kind, job, answer, initialized, migrated>> => SchemaKnown'
<1> USE DEF ExecutorInv
<1>1. UNCHANGED <<workers, queue, pc, kind, results, initialized, migrated>> => ShapeOK'
  BY DEF ShapeOK, workers, results
<1>2. UNCHANGED <<worker, thread>> => LiveIsWorker'
  BY DEF LiveIsWorker
<1>3. UNCHANGED <<queue, worker, job>> => QueueServed'
  BY DEF QueueServed
<1>4. UNCHANGED <<thread, running, job, posted, resolved>> => JobPlaces'
  BY DEF JobPlaces
<1>5. UNCHANGED <<loop, pc, job, answer>> => IdleHasNoJob'
  BY DEF IdleHasNoJob
<1>6. UNCHANGED <<pc, kind, job, answer, initialized, migrated>> => SchemaKnown'
  BY DEF SchemaKnown
<1> QED BY <1>1, <1>2, <1>3, <1>4, <1>5, <1>6

\* The new executor satisfies the inductive invariant.
LEMMA InitInv == Init => ExecutorInv
<1> SUFFICES ASSUME Init PROVE ExecutorInv
  OBVIOUS
<1> USE ExecutorConstants DEF Init
<1>1. ShapeOK
  <2>1. <<>> \in Seq(Callers)
    OBVIOUS
  <2>2. migrated \in BOOLEAN /\ initialized \in BOOLEAN
    OBVIOUS
  <2> QED BY <2>1, <2>2 DEF ShapeOK
<1>2. LiveIsWorker /\ QueueServed /\ JobPlaces /\ IdleHasNoJob
  BY DEF LiveIsWorker, QueueServed, JobPlaces, IdleHasNoJob
<1>3. SchemaKnown
  BY DEF SchemaKnown
<1> QED BY <1>1, <1>2, <1>3 DEF ExecutorInv

\* Every step of a caller, of the worker or of close() keeps the invariant.
LEMMA InvStep == ExecutorInv /\ [Next]_vars => ExecutorInv'
<1> SUFFICES ASSUME ExecutorInv, [Next]_vars PROVE ExecutorInv'
  OBVIOUS
<1>0. Nobody \notin Callers \cup Threads
  BY ExecutorConstants
<1> USE <1>0
<1>1. ASSUME NEW c \in Callers, Call(c) PROVE ExecutorInv'
  <2>1. LiveIsWorker' /\ QueueServed' /\ JobPlaces'
    BY <1>1, Frame DEF Call, Proceed, admission, workers, results, calls, schema
  <2>2. ShapeOK'
    BY <1>1 DEF ExecutorInv, ShapeOK, Settled, Call, Proceed, workers, results, schema
  <2>3. IdleHasNoJob'
    BY <1>1 DEF ExecutorInv, ShapeOK, QueueServed, JobPlaces, IdleHasNoJob, Settled,
       Call, Proceed, workers, results, schema
  <2>4. SchemaKnown'
    BY <1>1 DEF ExecutorInv, ShapeOK, QueueServed, JobPlaces, IdleHasNoJob, SchemaKnown,
       Settled, Call, Proceed, workers, results, schema
  <2> QED BY <2>1, <2>2, <2>3, <2>4 DEF ExecutorInv
<1>2. ASSUME NEW c \in Callers, EnterInit(c) PROVE ExecutorInv'
  <2>1. LiveIsWorker' /\ QueueServed' /\ JobPlaces'
    BY <1>2, Frame DEF EnterInit, Proceed, admission, workers, results, calls, schema
  <2>2. ShapeOK'
    BY <1>2 DEF ExecutorInv, ShapeOK, Settled, EnterInit, Proceed, workers, results,
       schema
  <2>3. IdleHasNoJob'
    BY <1>2 DEF ExecutorInv, ShapeOK, QueueServed, JobPlaces, IdleHasNoJob, Settled,
       EnterInit, Proceed, workers, results, schema
  <2>4. SchemaKnown'
    BY <1>2 DEF ExecutorInv, ShapeOK, QueueServed, JobPlaces, IdleHasNoJob, SchemaKnown,
       Settled, EnterInit, Proceed, workers, results, schema
  <2> QED BY <2>1, <2>2, <2>3, <2>4 DEF ExecutorInv
<1>3. ASSUME NEW c \in Callers, Accept(c) PROVE ExecutorInv'
  <2>1. ShapeOK'
    BY <1>3 DEF ExecutorInv, ShapeOK, Settled, Accept, Submit, workers, results, calls,
       schema
  <2>2. LiveIsWorker'
    BY <1>3 DEF ExecutorInv, ShapeOK, LiveIsWorker, Accept, Submit, workers, results,
       calls, schema
  <2>3. QueueServed'
    BY SMTT(20), <1>3 DEF ExecutorInv, ShapeOK, LiveIsWorker, QueueServed, JobPlaces,
       IdleHasNoJob, Settled, Accept, Submit, workers, results, calls, schema
  <2>4. JobPlaces'
    BY <1>3 DEF ExecutorInv, ShapeOK, LiveIsWorker, QueueServed, JobPlaces,
       IdleHasNoJob, Settled, Accept, Submit, workers, results, calls, schema
  <2>5. IdleHasNoJob'
    BY <1>3 DEF ExecutorInv, ShapeOK, QueueServed, JobPlaces, IdleHasNoJob, Settled,
       Accept, Submit, workers, results, calls, schema
  <2>6. SchemaKnown'
    BY <1>3 DEF ExecutorInv, ShapeOK, QueueServed, JobPlaces, IdleHasNoJob, SchemaKnown,
       Settled, Accept, Submit, workers, results, calls, schema
  <2> QED BY <2>1, <2>2, <2>3, <2>4, <2>5, <2>6 DEF ExecutorInv
<1>4. ASSUME NEW c \in Callers, Refuse(c) PROVE ExecutorInv'
  <2>1. LiveIsWorker' /\ QueueServed' /\ JobPlaces'
    BY <1>4, Frame DEF Refuse, Leave, admission, workers, results, calls, schema
  <2>2. ShapeOK'
    BY <1>4 DEF ExecutorInv, ShapeOK, Settled, Refuse, Leave, workers, results, calls,
       schema
  <2>3. IdleHasNoJob'
    BY <1>4 DEF ExecutorInv, ShapeOK, QueueServed, JobPlaces, IdleHasNoJob, Settled,
       Refuse, Leave, workers, results, calls, schema
  <2>4. SchemaKnown'
    BY <1>4 DEF ExecutorInv, ShapeOK, QueueServed, JobPlaces, IdleHasNoJob, SchemaKnown,
       Settled, Refuse, Leave, workers, results, calls, schema
  <2> QED BY <2>1, <2>2, <2>3, <2>4 DEF ExecutorInv
<1>5. ASSUME NEW c \in Callers, CancelEarly(c) PROVE ExecutorInv'
  <2>1. LiveIsWorker' /\ QueueServed' /\ JobPlaces'
    BY <1>5, Frame DEF CancelEarly, Leave, admission, workers, results, calls, schema
  <2>2. ShapeOK'
    BY <1>5 DEF ExecutorInv, ShapeOK, Settled, CancelEarly, Leave, workers, results,
       calls, schema
  <2>3. IdleHasNoJob'
    BY <1>5 DEF ExecutorInv, ShapeOK, QueueServed, JobPlaces, IdleHasNoJob, Settled,
       CancelEarly, Leave, workers, results, calls, schema
  <2>4. SchemaKnown'
    BY <1>5 DEF ExecutorInv, ShapeOK, QueueServed, JobPlaces, IdleHasNoJob, SchemaKnown,
       Settled, CancelEarly, Leave, workers, results, calls, schema
  <2> QED BY <2>1, <2>2, <2>3, <2>4 DEF ExecutorInv
<1>6. ASSUME NEW c \in Callers, CancelWaiting(c) PROVE ExecutorInv'
  <2>1. ShapeOK' /\ LiveIsWorker' /\ QueueServed' /\ JobPlaces' /\ IdleHasNoJob' /\ SchemaKnown'
    BY <1>6, Frame DEF CancelWaiting, admission, workers, results, calls, schema
  <2> QED BY <2>1 DEF ExecutorInv
<1>7. ASSUME NEW c \in Callers, Return(c) PROVE ExecutorInv'
  <2>1. LiveIsWorker'
    BY <1>7, Frame DEF Return, Resume, Proceed, admission, workers, results, calls, schema
  <2>2. ShapeOK'
    <3>1. pc' \in [Callers -> {"idle", "lock", "slot", "wait", "gone"}]
      BY SMTT(20), <1>7 DEF ExecutorInv, ShapeOK, Return, Resume, Proceed
    <3>2. kind' \in [Callers -> {"initialize", "operation"}] /\ initialized' \in BOOLEAN
      BY <1>7 DEF ExecutorInv, ShapeOK, Return, Resume, Proceed
    <3>3. /\ job' \in [Callers -> {"none", "queued", "open"} \cup Settled]
          /\ answer' \in [Callers -> {"none", "result", "error"}]
          /\ resolved' \subseteq Callers
      BY <1>7 DEF ExecutorInv, ShapeOK, Return, Resume
    <3> QED BY <1>7, <3>1, <3>2, <3>3 DEF ExecutorInv, ShapeOK, Return, Resume, workers
  <2>3. QueueServed'
    BY <1>7 DEF ExecutorInv, ShapeOK, LiveIsWorker, QueueServed, JobPlaces,
       IdleHasNoJob, Settled, Return, Resume, Proceed, workers, results, schema
  <2>4. JobPlaces'
    BY <1>7 DEF ExecutorInv, ShapeOK, LiveIsWorker, QueueServed, JobPlaces,
       IdleHasNoJob, Settled, Return, Resume, Proceed, workers, results, schema
  <2>5. IdleHasNoJob'
    BY <1>7 DEF ExecutorInv, ShapeOK, QueueServed, JobPlaces, IdleHasNoJob, Settled,
       Return, Resume, Proceed, workers, results, schema
  <2>6. SchemaKnown'
    BY <1>7 DEF ExecutorInv, ShapeOK, QueueServed, JobPlaces, IdleHasNoJob, SchemaKnown,
       Settled, Return, Resume, Proceed, workers, results, schema
  <2> QED BY <2>1, <2>2, <2>3, <2>4, <2>5, <2>6 DEF ExecutorInv
<1>8. ASSUME NEW c \in Callers, Finish(c) PROVE ExecutorInv'
  <2>1. LiveIsWorker' /\ QueueServed' /\ IdleHasNoJob' /\ SchemaKnown'
    BY <1>8, Frame DEF Finish, admission, workers, results, calls, schema
  <2>2. ShapeOK'
    BY <1>8 DEF ExecutorInv, ShapeOK, Settled, Finish, workers, results, calls, schema
  <2>3. JobPlaces'
    BY <1>8 DEF ExecutorInv, ShapeOK, LiveIsWorker, QueueServed, JobPlaces,
       IdleHasNoJob, Settled, Finish, workers, results, calls, schema
  <2> QED BY <2>1, <2>2, <2>3 DEF ExecutorInv
<1>9. ASSUME NEW t \in Threads, Get(t) PROVE ExecutorInv'
  <2>1. ShapeOK'
    BY <1>9 DEF ExecutorInv, ShapeOK, Settled, Get, workers, results, calls, schema
  <2>2. LiveIsWorker'
    BY <1>9 DEF ExecutorInv, ShapeOK, LiveIsWorker, Get, workers, results, calls, schema
  <2>3. QueueServed'
    BY <1>9 DEF ExecutorInv, ShapeOK, LiveIsWorker, QueueServed, JobPlaces,
       IdleHasNoJob, Settled, Get, workers, results, calls, schema
  <2>4. JobPlaces'
    BY <1>9 DEF ExecutorInv, ShapeOK, LiveIsWorker, QueueServed, JobPlaces,
       IdleHasNoJob, Settled, Get, workers, results, calls, schema
  <2>5. IdleHasNoJob'
    BY <1>9 DEF ExecutorInv, ShapeOK, QueueServed, JobPlaces, IdleHasNoJob, Settled,
       Get, workers, results, calls, schema
  <2>6. SchemaKnown'
    BY <1>9 DEF ExecutorInv, ShapeOK, QueueServed, JobPlaces, IdleHasNoJob, SchemaKnown,
       Settled, Get, workers, results, calls, schema
  <2> QED BY <2>1, <2>2, <2>3, <2>4, <2>5, <2>6 DEF ExecutorInv
<1>10. ASSUME NEW t \in Threads, GetTimesOut(t) PROVE ExecutorInv'
  <2>1. QueueServed' /\ IdleHasNoJob' /\ SchemaKnown'
    BY <1>10, Frame DEF GetTimesOut, admission, workers, results, calls, schema
  <2>2. ShapeOK'
    BY <1>10 DEF ExecutorInv, ShapeOK, Settled, GetTimesOut, workers, results, calls,
       schema
  <2>3. LiveIsWorker'
    BY <1>10 DEF ExecutorInv, ShapeOK, LiveIsWorker, GetTimesOut, workers, results,
       calls, schema
  <2>4. JobPlaces'
    BY <1>10 DEF ExecutorInv, ShapeOK, LiveIsWorker, QueueServed, JobPlaces,
       IdleHasNoJob, Settled, GetTimesOut, workers, results, calls, schema
  <2> QED BY <2>1, <2>2, <2>3, <2>4 DEF ExecutorInv
<1>11. ASSUME NEW t \in Threads, IdleExit(t) PROVE ExecutorInv'
  <2>1. IdleHasNoJob' /\ SchemaKnown'
    BY <1>11, Frame DEF IdleExit, admission, workers, results, calls, schema
  <2>2. ShapeOK'
    BY <1>11 DEF ExecutorInv, ShapeOK, Settled, IdleExit, workers, results, calls,
       schema
  <2>3. LiveIsWorker'
    BY <1>11 DEF ExecutorInv, ShapeOK, LiveIsWorker, IdleExit, workers, results, calls,
       schema
  <2>4. QueueServed'
    BY <1>11 DEF ExecutorInv, ShapeOK, LiveIsWorker, QueueServed, JobPlaces,
       IdleHasNoJob, Settled, IdleExit, workers, results, calls, schema
  <2>5. JobPlaces'
    BY <1>11 DEF ExecutorInv, ShapeOK, LiveIsWorker, QueueServed, JobPlaces,
       IdleHasNoJob, Settled, IdleExit, workers, results, calls, schema
  <2> QED BY <2>1, <2>2, <2>3, <2>4, <2>5 DEF ExecutorInv
<1>12. ASSUME NEW t \in Threads, RunJob(t) PROVE ExecutorInv'
  <2>1. ShapeOK'
    <3>1. migrated' \in BOOLEAN
      BY <1>12 DEF ExecutorInv, ShapeOK, RunJob
    <3>2. /\ job' \in [Callers -> {"none", "queued", "open"} \cup Settled]
          /\ answer' \in [Callers -> {"none", "result", "error"}]
          /\ thread' \in [Threads -> {"dead", "get", "empty", "run", "complete"}]
      BY <1>12 DEF ExecutorInv, ShapeOK, RunJob, Settled
    <3> QED BY <1>12, <3>1, <3>2 DEF ExecutorInv, ShapeOK, RunJob, calls
  <2>2. LiveIsWorker'
    BY <1>12 DEF ExecutorInv, ShapeOK, LiveIsWorker, RunJob, workers, results, calls,
       schema
  <2>3. QueueServed'
    BY <1>12 DEF ExecutorInv, ShapeOK, LiveIsWorker, QueueServed, JobPlaces,
       IdleHasNoJob, Settled, RunJob, workers, results, calls, schema
  <2>4. JobPlaces'
    BY <1>12 DEF ExecutorInv, ShapeOK, LiveIsWorker, QueueServed, JobPlaces,
       IdleHasNoJob, Settled, RunJob, workers, results, calls, schema
  <2>5. IdleHasNoJob'
    BY <1>12 DEF ExecutorInv, ShapeOK, QueueServed, JobPlaces, IdleHasNoJob, Settled,
       RunJob, workers, results, calls, schema
  <2>6. SchemaKnown'
    <3> DEFINE r == running[t]
    <3>1. r \in Callers /\ job[r] = "open"
      BY <1>12 DEF ExecutorInv, JobPlaces, RunJob
    <3>2. migrated => migrated'
      BY <1>12 DEF RunJob
    <3>3. kind[r] = "initialize" /\ answer'[r] = "result" => migrated'
      BY <1>12, <3>1 DEF ExecutorInv, ShapeOK, RunJob
    <3>4. \A c \in Callers \ {r} : job'[c] = job[c] /\ answer'[c] = answer[c]
      BY <1>12 DEF ExecutorInv, ShapeOK, RunJob
    <3>5. kind[r] = "operation" => migrated
      BY <3>1 DEF ExecutorInv, SchemaKnown
    <3> QED
      BY <1>12, <3>1, <3>2, <3>3, <3>4, <3>5 DEF ExecutorInv, ShapeOK, SchemaKnown, RunJob, calls
  <2> QED BY <2>1, <2>2, <2>3, <2>4, <2>5, <2>6 DEF ExecutorInv
<1>13. ASSUME NEW t \in Threads, Complete(t) PROVE ExecutorInv'
  <2>1. QueueServed' /\ IdleHasNoJob' /\ SchemaKnown'
    BY <1>13, Frame DEF Complete, admission, workers, results, calls, schema
  <2>2. ShapeOK'
    BY <1>13 DEF ExecutorInv, ShapeOK, JobPlaces, Settled, Complete, workers, results,
       calls, schema
  <2>3. LiveIsWorker'
    BY <1>13 DEF ExecutorInv, ShapeOK, LiveIsWorker, Complete, workers, results, calls,
       schema
  <2>4. JobPlaces'
    BY <1>13 DEF ExecutorInv, ShapeOK, LiveIsWorker, QueueServed, JobPlaces,
       IdleHasNoJob, Settled, Complete, workers, results, calls, schema
  <2> QED BY <2>1, <2>2, <2>3, <2>4 DEF ExecutorInv
<1>14. ASSUME Close PROVE ExecutorInv'
  <2>1. ShapeOK' /\ LiveIsWorker' /\ QueueServed' /\ JobPlaces' /\ IdleHasNoJob' /\ SchemaKnown'
    BY <1>14, Frame DEF Close, admission, workers, results, calls, schema
  <2> QED BY <2>1 DEF ExecutorInv
<1>15. ASSUME CloseDone PROVE ExecutorInv'
  <2>1. ShapeOK' /\ LiveIsWorker' /\ QueueServed' /\ JobPlaces' /\ IdleHasNoJob' /\ SchemaKnown'
    BY <1>15, Frame DEF CloseDone, admission, workers, results, calls, schema
  <2> QED BY <2>1 DEF ExecutorInv
<1>16. ASSUME CloseTimesOut PROVE ExecutorInv'
  <2>1. ShapeOK' /\ LiveIsWorker' /\ QueueServed' /\ JobPlaces' /\ IdleHasNoJob' /\ SchemaKnown'
    BY <1>16, Frame DEF CloseTimesOut, admission, workers, results, calls, schema
  <2> QED BY <2>1 DEF ExecutorInv
<1>17. ASSUME LoopLost PROVE ExecutorInv'
  <2>1. LiveIsWorker' /\ QueueServed'
    BY <1>17, Frame DEF LoopLost, admission, workers, results, calls, schema
  <2>2. ShapeOK'
    BY <1>17 DEF ExecutorInv, ShapeOK, Settled, LoopLost, workers, results, calls,
       schema
  <2>3. JobPlaces'
    BY <1>17 DEF ExecutorInv, ShapeOK, LiveIsWorker, QueueServed, JobPlaces,
       IdleHasNoJob, Settled, LoopLost, workers, results, calls, schema
  <2>4. IdleHasNoJob'
    BY <1>17 DEF ExecutorInv, ShapeOK, QueueServed, JobPlaces, IdleHasNoJob, Settled,
       LoopLost, workers, results, calls, schema
  <2>5. SchemaKnown'
    BY <1>17 DEF ExecutorInv, ShapeOK, QueueServed, JobPlaces, IdleHasNoJob,
       SchemaKnown, Settled, LoopLost, workers, results, calls, schema
  <2> QED BY <2>1, <2>2, <2>3, <2>4, <2>5 DEF ExecutorInv
<1>18. CASE Over \/ UNCHANGED vars
  BY <1>18, Frame DEF ExecutorInv, Over, vars, workers, results
<1> QED BY <1>1, <1>2, <1>3, <1>4, <1>5, <1>6, <1>7, <1>8, <1>9, <1>10, <1>11, <1>12, <1>13, <1>14,
     <1>15, <1>16, <1>17, <1>18 DEF Next, Caller, Worker

\* The inductive invariant holds in every reachable state.
THEOREM Invariant == Spec => []ExecutorInv
BY InitInv, InvStep, PTL DEF Spec

\* Two worker threads never live at the same time, whatever the race between an
\* idle exit and a submission (_submit, _work).
THEOREM AtMostOneWorker == Spec => []OneWorker
<1>1. ExecutorInv => OneWorker
  BY DEF ExecutorInv, LiveIsWorker, OneWorker
<1> QED BY <1>1, Invariant, PTL

\* A queued job always has a live worker (_submit, _work).
THEOREM QueuedJobsAreServed == Spec => []NoStrandedJob
<1>1. ExecutorInv => NoStrandedJob
  BY DEF ExecutorInv, ShapeOK, LiveIsWorker, QueueServed, NoStrandedJob
<1> QED BY <1>1, Invariant, PTL

\* No operation runs before an initialization has committed (_ensure_initialized).
THEOREM OperationsFindTheirSchema == Spec => []OperationAfterInit
<1>1. ExecutorInv => OperationAfterInit
  BY DEF ExecutorInv, JobPlaces, SchemaKnown, OperationAfterInit, Busy, Settled
<1> QED BY <1>1, Invariant, PTL

\* A caller leaves _submit only after its transaction was settled, cancelled or
\* not.
THEOREM CallersLeaveSettled == Spec => SettledFirst
<1> DEFINE Leaves(c) == pc[c] = "wait" /\ pc'[c] \notin {"wait", "gone"}
<1>1. ASSUME ExecutorInv, [Next]_vars, NEW c \in Callers, Leaves(c)
      PROVE  job[c] \in Settled
  <2>1. ASSUME NEW d \in Callers, Caller(d) PROVE c \in resolved
    BY <1>1, <2>1 DEF ExecutorInv, ShapeOK, Caller, Call, EnterInit, Proceed, Accept, Submit,
       Refuse, CancelEarly, Leave, CancelWaiting, Return, Resume, Finish, calls
  <2>2. ASSUME NEW t \in Threads, Worker(t) PROVE FALSE
    BY <1>1, <2>2 DEF Worker, Get, GetTimesOut, IdleExit, RunJob, Complete, calls
  <2>3. ~(Close \/ CloseDone \/ CloseTimesOut \/ LoopLost \/ Over \/ UNCHANGED vars)
    BY <1>1 DEF Close, CloseDone, CloseTimesOut, LoopLost, Over, calls, vars
  <2>4. c \in resolved
    BY <1>1, <2>1, <2>2, <2>3 DEF Next
  <2> QED BY <1>1, <2>4 DEF ExecutorInv, JobPlaces
<1>2. ExecutorInv /\ [Next]_vars
          => [\A c \in Callers : Leaves(c) => job[c] \in Settled]_vars
  BY <1>1
<1> QED BY <1>2, Invariant, PTL DEF Spec, SettledFirst, Settled

\* Counting.

\* The sets that are counted are finite.
LEMMA Countable ==
    ASSUME ExecutorInv
    PROVE  /\ IsFiniteSet(posted) /\ Cardinality(posted) \in Nat
           /\ IsFiniteSet(Accepted) /\ Cardinality(Accepted) \in Nat
<1>1. posted \in SUBSET Callers /\ Accepted \in SUBSET Callers
  BY DEF ExecutorInv, ShapeOK, Accepted
<1>2. IsFiniteSet(posted) /\ IsFiniteSet(Accepted)
  BY <1>1, FS_Subset, ExecutorConstants
<1> QED BY <1>2, FS_CardinalityType

\* A step that moves no job keeps the counts, and closes only what is empty.
LEMMA QuietCounts ==
    ASSUME CountsAgree, UNCHANGED <<outstanding, slots, queue, posted, loop>>,
           Accepted' = Accepted, Taken' = Taken,
           state' = "CLOSED" => state = "CLOSED" \/ outstanding = 0
    PROVE  CountsAgree'
BY DEF CountsAgree

\* A caller without an accepted job can change its place outside of wait.
LEMMA SameAccepted ==
    ASSUME ExecutorInv, NEW c \in Callers, c \notin Accepted, resolved' \subseteq resolved,
           \A d \in Callers \ {c} : pc'[d] = pc[d] /\ (d \in resolved' <=> d \in resolved),
           pc'[c] # "wait"
    PROVE  Accepted' = Accepted
BY DEF Accepted

\* The worker's steps outside of Get and Complete move no job.
LEMMA SameTaken ==
    ASSUME NEW t \in Threads, thread \in [Threads -> {"dead", "get", "empty", "run", "complete"}],
           NEW p \in {"dead", "get", "empty", "run", "complete"},
           thread' = [thread EXCEPT ![t] = p],
           thread[t] \in {"run", "complete"} <=> p \in {"run", "complete"}
    PROVE  Taken' = Taken
<1>1. \A u \in Threads : Busy(u)' <=> Busy(u)
  BY DEF Busy
<1> QED BY <1>1 DEF Taken

\* Every step keeps the counters in agreement with the jobs.
LEMMA CountStep ==
    ASSUME ExecutorInv, CountsAgree, [Next]_vars, ExecutorInv'
    PROVE  CountsAgree'
<1> USE ExecutorConstants
<1>0. UNCHANGED thread => Taken' = Taken
  BY DEF Taken, Busy
<1>1. ASSUME NEW c \in Callers, Call(c) \/ EnterInit(c) \/ Refuse(c) \/ CancelEarly(c) PROVE CountsAgree'
  <2>1. Accepted' = Accepted
    <3>1. c \notin Accepted /\ pc'[c] # "wait"
      BY <1>1 DEF ExecutorInv, ShapeOK, Accepted, Call, EnterInit, Proceed, Refuse, CancelEarly, Leave
    <3>2. resolved' = resolved /\ \A d \in Callers \ {c} : pc'[d] = pc[d]
      BY <1>1 DEF ExecutorInv, ShapeOK, Call, EnterInit, Proceed, Refuse, CancelEarly, Leave, results
    <3> QED BY <3>1, <3>2, SameAccepted
  <2> QED
    BY <1>0, <1>1, <2>1, QuietCounts DEF Call, EnterInit, Refuse, CancelEarly, Leave, admission,
       workers, results
<1>2. ASSUME NEW c \in Callers, Return(c) PROVE CountsAgree'
  <2>1. Accepted' = Accepted
    <3>1. c \notin Accepted /\ pc'[c] # "wait"
      BY <1>2 DEF ExecutorInv, ShapeOK, Accepted, Return, Resume, Proceed
    <3>2. \A d \in Callers \ {c} : pc'[d] = pc[d]
      BY <1>2 DEF ExecutorInv, ShapeOK, Return, Resume, Proceed
    <3>3. resolved' = resolved \ {c}
      BY <1>2 DEF Return, Resume
    <3> QED BY <3>1, <3>2, <3>3, SameAccepted
  <2> QED BY <1>0, <1>2, <2>1, QuietCounts DEF Return, Resume, admission, workers
<1>3. ASSUME NEW c \in Callers, CancelWaiting(c) PROVE CountsAgree'
  BY <1>0, <1>3, QuietCounts DEF CancelWaiting, admission, workers, results, Accepted
<1>4. ASSUME NEW c \in Callers, Accept(c) PROVE CountsAgree'
  <2>1. c \notin Accepted /\ Accepted' = Accepted \cup {c}
    <3>1. job[c] = "none"
      BY <1>4 DEF ExecutorInv, IdleHasNoJob, Accept
    <3>2. c \notin resolved
      BY <3>1 DEF ExecutorInv, JobPlaces, Settled
    <3> QED BY <1>4, <3>2 DEF ExecutorInv, ShapeOK, Accepted, Accept, Submit
  <2>2. Cardinality(Accepted') = Cardinality(Accepted) + 1
    BY <2>1, Countable, FS_AddElement
  <2>3. Taken' = Taken
    <3>1. CASE worker = Nobody
      <4>1. PICK t \in Threads : thread[t] = "dead" /\ thread' = [thread EXCEPT ![t] = "get"]
        BY <1>4, <3>1 DEF Accept, Submit
      <4> QED BY <4>1, SameTaken DEF ExecutorInv, ShapeOK
    <3>2. CASE worker # Nobody
      BY <1>0, <1>4, <3>2 DEF Accept, Submit
    <3> QED BY <3>1, <3>2
  <2>4. Len(queue') = Len(queue) + 1 /\ Len(queue) \in Nat
    BY <1>4 DEF ExecutorInv, ShapeOK, Accept, Submit
  <2>5. loop /\ loop' = loop /\ posted' = posted /\ state' = "OPEN" /\ slots > 0
        /\ outstanding' = outstanding + 1 /\ slots' = slots - 1
    BY <1>4 DEF Accept, Submit
  <2>6. Taken \in {0, 1}
    BY DEF Taken
  <2>7. /\ outstanding = Len(queue) + Taken + Cardinality(posted)
        /\ outstanding = Cardinality(Accepted)
        /\ slots + outstanding = Capacity
        /\ slots \in Nat /\ outstanding \in Nat
    BY <2>5 DEF CountsAgree
  <2>8. outstanding' \in Nat /\ slots' \in 0..Capacity /\ slots' + outstanding' = Capacity
    BY <2>5, <2>7
  <2>9. outstanding' = Len(queue') + Taken' + Cardinality(posted')
    BY <2>3, <2>4, <2>5, <2>6, <2>7, Countable
  <2>10. outstanding' = Cardinality(Accepted')
    BY <2>2, <2>5, <2>7
  <2> QED BY <2>5, <2>8, <2>9, <2>10 DEF CountsAgree
<1>5. ASSUME NEW c \in Callers, Finish(c) PROVE CountsAgree'
  <2>1. c \in Accepted
    <3>1. job[c] # "none" /\ c \notin resolved
      BY <1>5 DEF ExecutorInv, JobPlaces, Settled, Finish
    <3> QED BY <1>5, <3>1 DEF ExecutorInv, IdleHasNoJob, Accepted, Finish
  <2>2. Accepted' = Accepted \ {c} /\ posted' = posted \ {c} /\ c \in posted
    BY <1>5 DEF Accepted, Finish, calls
  <2>3. Cardinality(Accepted') = Cardinality(Accepted) - 1
    BY <2>1, <2>2, Countable, FS_RemoveElement
  <2>4. Cardinality(posted') = Cardinality(posted) - 1
    BY <2>2, Countable, FS_RemoveElement
  <2>5. Cardinality(posted') \in Nat /\ Cardinality(posted) # 0
    BY <2>2, <2>4, Countable, FS_EmptySet, FS_RemoveElement, FS_CardinalityType
  <2>6. Len(queue) \in Nat /\ Taken \in {0, 1} /\ Taken' = Taken
    BY <1>0, <1>5 DEF ExecutorInv, ShapeOK, Taken, Finish, workers
  <2>7. loop /\ loop' = loop /\ state' = state /\ queue' = queue
        /\ outstanding' = outstanding - 1 /\ slots' = slots + 1
    BY <1>5 DEF Finish
  <2>8. /\ outstanding = Len(queue) + Taken + Cardinality(posted)
        /\ outstanding = Cardinality(Accepted)
        /\ slots + outstanding = Capacity
        /\ slots \in Nat /\ outstanding \in Nat
    BY <2>7 DEF CountsAgree
  <2>9. outstanding > 0
    BY <2>5, <2>6, <2>8, Countable
  <2>10. outstanding' \in Nat /\ slots' \in 0..Capacity /\ slots' + outstanding' = Capacity
    BY <2>7, <2>8, <2>9
  <2>11. outstanding' = Len(queue') + Taken' + Cardinality(posted')
    BY <2>4, <2>5, <2>6, <2>7, <2>8, Countable
  <2>12. outstanding' = Cardinality(Accepted')
    BY <2>3, <2>7, <2>8
  <2> QED BY <2>7, <2>9, <2>10, <2>11, <2>12 DEF CountsAgree
<1>6. ASSUME NEW t \in Threads, Get(t) PROVE CountsAgree'
  <2>1. Taken = 0
    BY <1>6 DEF ExecutorInv, ShapeOK, LiveIsWorker, Taken, Busy, Get
  <2>2. Taken' = 1
    BY <1>6 DEF ExecutorInv, ShapeOK, Taken, Busy, Get
  <2>3. Len(queue') = Len(queue) - 1 /\ Len(queue) \in Nat
    BY <1>6 DEF ExecutorInv, ShapeOK, Get
  <2>4. Accepted' = Accepted
    BY <1>6 DEF Accepted, Get, calls
  <2> QED BY <1>6, <2>1, <2>2, <2>3, <2>4, Countable DEF CountsAgree, Get, admission
<1>7. ASSUME NEW t \in Threads, GetTimesOut(t) \/ IdleExit(t) \/ RunJob(t) PROVE CountsAgree'
  <2>1. Taken' = Taken
    <3>1. PICK p \in {"dead", "get", "empty", "run", "complete"} :
             /\ thread' = [thread EXCEPT ![t] = p]
             /\ thread[t] \in {"run", "complete"} <=> p \in {"run", "complete"}
      BY <1>7 DEF GetTimesOut, IdleExit, RunJob
    <3> QED BY <3>1, SameTaken DEF ExecutorInv, ShapeOK
  <2>2. Accepted' = Accepted
    BY <1>7 DEF Accepted, GetTimesOut, IdleExit, RunJob, calls, results
  <2> QED BY <1>7, <2>1, <2>2, QuietCounts DEF GetTimesOut, IdleExit, RunJob, admission, results
<1>8. ASSUME NEW t \in Threads, Complete(t) PROVE CountsAgree'
  <2>1. Taken = 1
    BY <1>8 DEF Taken, Busy, Complete
  <2>2. Taken' = 0
    BY <1>8 DEF ExecutorInv, ShapeOK, LiveIsWorker, Taken, Busy, Complete
  <2>3. Len(queue) \in Nat /\ Len(queue') = Len(queue) /\ slots' = slots /\ loop' = loop
    BY <1>8 DEF ExecutorInv, ShapeOK, Complete
  <2>4. Accepted' = Accepted
    BY <1>8 DEF Accepted, Complete, calls
  <2>5. CASE loop
    <3>1. running[t] \notin posted
      BY <1>8 DEF ExecutorInv, JobPlaces, Complete
    <3>2. posted' = posted \cup {running[t]} /\ outstanding' = outstanding /\ state' = state
      BY <1>8, <2>5 DEF Complete
    <3>3. Cardinality(posted') = Cardinality(posted) + 1
      BY <3>1, <3>2, Countable, FS_AddElement
    <3> QED BY SMTT(20), <2>1, <2>2, <2>3, <2>4, <2>5, <3>2, <3>3, Countable DEF CountsAgree
  <2>6. CASE ~loop
    BY <1>8, <2>1, <2>2, <2>3, <2>6 DEF CountsAgree, Complete, CountOut
  <2> QED BY <2>5, <2>6
<1>9. ASSUME Close \/ CloseDone \/ CloseTimesOut PROVE CountsAgree'
  <2>1. Accepted' = Accepted
    BY <1>9 DEF Accepted, Close, CloseDone, CloseTimesOut, calls, results
  <2> QED BY <1>0, <1>9, <2>1, QuietCounts DEF Close, CloseDone, CloseTimesOut, workers, results
<1>10. CASE LoopLost
  <2>1. Len(queue) \in Nat /\ Taken \in {0, 1} /\ Taken' = Taken
    BY <1>0, <1>10 DEF ExecutorInv, ShapeOK, Taken, LoopLost, workers
  <2> QED BY <1>10, <2>1, Countable DEF CountsAgree, LoopLost
<1>11. CASE Over \/ UNCHANGED vars
  BY <1>0, <1>11, QuietCounts DEF Over, vars, Accepted
<1> QED
  BY <1>1, <1>2, <1>3, <1>4, <1>5, <1>6, <1>7, <1>8, <1>9, <1>10, <1>11 DEF Next, Caller, Worker

\* The counters agree with the jobs in every reachable state.
THEOREM Counting == Spec => []CountsAgree
<1>1. Init => CountsAgree
  <2> SUFFICES ASSUME Init PROVE CountsAgree
    OBVIOUS
  <2>1. Accepted = {} /\ posted = {} /\ Taken = 0 /\ Len(queue) = 0
    BY DEF Init, Accepted, Taken, Busy
  <2> QED BY <2>1, FS_EmptySet, ExecutorConstants DEF Init, CountsAgree
<1> QED BY <1>1, CountStep, Invariant, PTL DEF Spec

\* The remaining variables keep their types.
LEMMA TypeStep ==
    ASSUME TypeOK, [Next]_vars, ExecutorInv', CountsAgree'
    PROVE  TypeOK'
<1> DEFINE RestOK == /\ state \in {"OPEN", "CLOSING", "CLOSED"}
                     /\ cancelled \in [Callers -> BOOLEAN]
                     /\ initLock \in Callers \cup {Nobody}
                     /\ closer \in BOOLEAN
                     /\ loop \in BOOLEAN
<1>1. ASSUME NEW c \in Callers, Caller(c) PROVE RestOK'
  BY <1>1 DEF TypeOK, Caller, Call, EnterInit, Accept, Submit, Refuse, CancelEarly, Leave,
     CancelWaiting, Return, Resume, ReleaseInit, Finish, admission, calls, schema
<1>2. ASSUME NEW t \in Threads, Worker(t) PROVE RestOK'
  BY <1>2 DEF TypeOK, Worker, Get, GetTimesOut, IdleExit, RunJob, Complete, CountOut, admission,
     calls, schema
<1>3. ASSUME Close \/ CloseDone \/ CloseTimesOut \/ LoopLost PROVE RestOK'
  BY <1>3 DEF TypeOK, Close, CloseDone, CloseTimesOut, LoopLost, calls, schema
<1>4. ASSUME Over \/ UNCHANGED vars PROVE RestOK'
  BY <1>4 DEF TypeOK, Over, vars
<1>5. RestOK'
  BY <1>1, <1>2, <1>3, <1>4 DEF Next
<1> QED BY <1>5 DEF ExecutorInv, ShapeOK, CountsAgree, TypeOK, Settled

\* Every variable stays in its type; the count of outstanding jobs never falls
\* below zero, whoever counts a job out (_complete, finish).
THEOREM TypeCorrect == Spec => []TypeOK
<1>1. Init => TypeOK
  <2> SUFFICES ASSUME Init PROVE TypeOK
    OBVIOUS
  <2>1. <<>> \in Seq(Callers)
    OBVIOUS
  <2>2. migrated \in BOOLEAN /\ initialized \in BOOLEAN /\ closer \in BOOLEAN /\ loop \in BOOLEAN
    BY DEF Init
  <2> QED BY <2>1, <2>2, ExecutorConstants DEF Init, TypeOK
<1> QED BY <1>1, TypeStep, Invariant, Counting, PTL DEF Spec

\* put_nowait never meets a full queue (_submit).
THEOREM QueueNeverFull == Spec => []QueueHasRoom
<1>1. ExecutorInv /\ CountsAgree => QueueHasRoom
  <2> SUFFICES ASSUME ExecutorInv, CountsAgree, slots > 0 PROVE Len(queue) < Capacity
    BY DEF QueueHasRoom
  <2>1. Len(queue) \in Nat /\ Taken \in {0, 1}
    BY DEF ExecutorInv, ShapeOK, Taken
  <2> QED BY <2>1, Countable, ExecutorConstants DEF CountsAgree
<1> QED BY <1>1, Invariant, Counting, PTL

\* Permits are neither lost nor minted (_submit, finish).
THEOREM PermitsAreBalanced == Spec => []PermitsBalance
<1>1. CountsAgree => PermitsBalance
  BY DEF CountsAgree, PermitsBalance
<1> QED BY <1>1, Counting, PTL

\* A CLOSED executor has no job left: the storage may be moved (close).
THEOREM ClosedMeansDrained == Spec => []ClosedIsDrained
<1>1. ExecutorInv /\ CountsAgree => ClosedIsDrained
  <2> SUFFICES ASSUME ExecutorInv, CountsAgree, state = "CLOSED"
               PROVE  /\ queue = <<>>
                      /\ \A t \in Threads : ~Busy(t)
                      /\ loop => Accepted = {}
    BY DEF ClosedIsDrained
  <2>1. Len(queue) \in Nat /\ Taken \in {0, 1}
    BY DEF ExecutorInv, ShapeOK, Taken
  <2>2. outstanding = 0
    BY DEF CountsAgree
  <2>3. Len(queue) = 0 /\ Taken = 0
    BY <2>1, <2>2, Countable DEF CountsAgree
  <2>4. queue = <<>>
    BY <2>3 DEF ExecutorInv, ShapeOK
  <2>5. \A t \in Threads : ~Busy(t)
    BY <2>3 DEF Taken
  <2>6. loop => Accepted = {}
    BY <2>2, Countable, FS_EmptySet DEF CountsAgree
  <2> QED BY <2>4, <2>5, <2>6
<1> QED BY <1>1, Invariant, Counting, PTL

\* The whole invariant of the executor run, for any callers, threads and capacity:
\* what _submit, _work, _complete and close promise of the queue and its worker.
THEOREM ExecutorSafe == Spec => []ExecutorIsSafe
  BY TypeCorrect, AtMostOneWorker, QueuedJobsAreServed, QueueNeverFull, PermitsAreBalanced,
     ClosedMeansDrained, OperationsFindTheirSchema, PTL DEF ExecutorIsSafe
=============================================================================
