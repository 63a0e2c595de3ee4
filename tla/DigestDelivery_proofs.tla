----------------------- MODULE DigestDelivery_proofs -----------------------
(***************************************************************************)
(* Proofs about DigestDelivery, for any members, dispatchers, digests,     *)
(* rebuilds, attempts and faults: one digest is at most one message, it is *)
(* never requeued once it may have been delivered, and the Host is entered *)
(* with the content and the authority of the moment.                       *)
(*                                                                         *)
(* The argument is about the claim.  A dispatcher whose attempt is         *)
(* persisted either still holds the envelope or has lost it to the         *)
(* recovery of an expired claim, which leaves the envelope UNKNOWN for     *)
(* good; so whoever settles the envelope is the one that may have sent it. *)
(***************************************************************************)
EXTENDS DigestDelivery, TLAPS

\* The inductive invariant.

EnvTyped ==
    /\ env \in [public: BOOLEAN, st: EnvelopeStates, members: SUBSET Members, att: Nat,
                retry: BOOLEAN]
    /\ env.members = {} <=> env.st \in {"NONE", "CANCELLED"}
    /\ env.retry => env.st = "FAILED"
    /\ holder \in Dispatchers \cup {Nobody}
    /\ read \subseteq Dispatchers
    /\ expired \subseteq Dispatchers
    /\ joined \subseteq Members
    /\ evst \in [Members -> EventStates]

WorldTyped ==
    /\ auth \in [Members -> Authorities]
    /\ open \in BOOLEAN
    /\ gate \in Dispatchers \cup {Nobody}
    /\ up \in BOOLEAN
    /\ faults \in Nat
    /\ delivered \in Nat

TaskTyped ==
    /\ pc \in [Dispatchers -> PCs]
    /\ round \in [Dispatchers -> 0..Rebuilds]
    /\ todo \in [Dispatchers -> SUBSET Members]
    /\ ok \in [Dispatchers -> SUBSET Members]
    /\ prior \in [Dispatchers -> SUBSET Members]
    /\ batch \in [Dispatchers -> SUBSET Members]
    /\ lease \in [Dispatchers -> BOOLEAN]
    /\ stop \in [Dispatchers -> BOOLEAN]
    /\ receipt \in [Dispatchers -> MessageStatus]

Typed == EnvTyped /\ WorldTyped /\ TaskTyped

\* A dispatch starts with no claim made, and claims while it may rebuild.
RoundsBound(d) ==
    /\ pc[d] \in {"idle", "reopen", "raised", "absent"} => round[d] = 0
    /\ pc[d] = "claim" => round[d] < Rebuilds

LeaseIsOpen(d) == lease[d] => open

\* A persisted attempt is the dispatcher's own, or lost for good.
OwnsOrLost(d) ==
    pc[d] \in Owning => Holds(d, "SENDING") \/ (d \in expired /\ env.st = "UNKNOWN")

\* What it goes through, and what it has rendered, is the envelope's.
PassIsCurrent(d) ==
    /\ pc[d] \in {"check", "recheck", "final"} /\ Holds(d, "CLAIMED")
         => todo[d] \cup ok[d] \subseteq env.members
    /\ pc[d] \in {"render", "recheck", "approve", "final", "begin"} /\ Holds(d, "CLAIMED")
         => batch[d] = env.members
    /\ pc[d] \in {"claimed", "queued", "io"} /\ Holds(d, "SENDING") => batch[d] = env.members

\* The last proof before the Host is entered is made and used under the gate.
ProofStands(d) ==
    pc[d] = "io" => gate = d /\ \A m \in batch[d] : auth[m] \in {"live", "expired"}

\* What the holder knows of the delivery.
KnowsDelivery(d) ==
    /\ pc[d] = "inflight" => delivered = 0
    /\ Holds(d, "SENDING") =>
         /\ pc[d] \in Owning \ {"receipt"} => delivered = 0
         /\ pc[d] = "receipt" => /\ receipt[d] = "ACCEPTED" => delivered = 1
                                 /\ receipt[d] = "FAILED" => delivered = 0

TaskOk(d) ==
    /\ RoundsBound(d) /\ LeaseIsOpen(d) /\ OwnsOrLost(d) /\ PassIsCurrent(d) /\ ProofStands(d)
    /\ KnowsDelivery(d)

ReadIsFailed == read # {} => env.st = "FAILED"
OneInFlight ==
    \A d, e \in Dispatchers : pc[d] = "inflight" /\ pc[e] = "inflight" => d = e
DownIsIdle == ~up => \A d \in Dispatchers : pc[d] \in {"idle", "absent"}

\* The member events of an aggregate, also before it is sealed and while the
\* process is down; an event that contributed exists.
EventsFollow ==
    /\ \A m \in joined \cup env.members : evst[m] # "NONE"
    /\ env.public =>
         /\ env.st = "NONE" => \A m \in joined : evst[m] = "PENDING"
         /\ \A m \in env.members :
               /\ env.st \in {"SENT", "FAILED", "SENDING"} => evst[m] = env.st
               /\ env.st \in {"READY", "CLAIMED"} => evst[m] \in {"PENDING", "FAILED"}
               /\ env.st = "UNKNOWN" => evst[m] \in {"UNKNOWN", "SENDING"}

EnvOk ==
    /\ ReadIsFailed /\ OneInFlight /\ DownIsIdle /\ EventsFollow
    /\ OneMessage /\ RequeuedIsUnsent

DigestInv == Typed /\ EnvOk /\ \A d \in Dispatchers : TaskOk(d)

\* What one step leaves alone.

\* The step is not of dispatcher e.
RowSame(e) ==
    /\ pc'[e] = pc[e] /\ round'[e] = round[e] /\ todo'[e] = todo[e] /\ ok'[e] = ok[e]
    /\ batch'[e] = batch[e] /\ receipt'[e] = receipt[e]
    /\ lease'[e] => lease[e]

\* The step leaves what dispatcher e relies on: its claim, what it has proved
\* under the gate, and what it knows of the delivery.
Spares(e) ==
    /\ lease'[e] /\ open => open'
    /\ holder = e /\ env.st = "SENDING" =>
         \/ holder' = e /\ env'.st = "SENDING"
         \/ e \in expired' /\ env'.st = "UNKNOWN"
    /\ e \in expired /\ env.st = "UNKNOWN" => e \in expired' /\ env'.st = "UNKNOWN"
    /\ holder' = e /\ env'.st \in {"CLAIMED", "SENDING"} =>
         holder = e /\ env.st = env'.st /\ env'.members = env.members
    /\ pc[e] = "io" =>
         /\ gate = e => gate' = e
         /\ \A m \in Members : auth[m] \in {"live", "expired"} => auth'[m] \in {"live", "expired"}
    /\ \/ delivered' = delivered
       \/ pc[e] # "inflight" /\ ~(holder' = e /\ env'.st = "SENDING")

\* A dispatcher the step spares is as well after it as before.
LEMMA SparedIsOk ==
  ASSUME NEW e \in Dispatchers, TaskTyped, TaskOk(e), RowSame(e), Spares(e)
  PROVE  TaskOk(e)'
<1>1. RoundsBound(e)'
  BY DEF TaskOk, RoundsBound, RowSame
<1>2. LeaseIsOpen(e)'
  BY DEF TaskOk, LeaseIsOpen, RowSame, Spares
<1>3. OwnsOrLost(e)'
  BY DEF TaskOk, OwnsOrLost, RowSame, Spares, Holds
<1>4. PassIsCurrent(e)'
  <2>1. CASE holder' = e /\ env'.st \in {"CLAIMED", "SENDING"}
    <3>1. holder = e /\ env.st = env'.st /\ env'.members = env.members
      BY <2>1 DEF Spares
    <3> QED BY <3>1 DEF TaskOk, PassIsCurrent, RowSame, Holds
  <2>2. CASE ~(holder' = e /\ env'.st \in {"CLAIMED", "SENDING"})
    BY <2>2 DEF PassIsCurrent, Holds
  <2> QED BY <2>1, <2>2
<1>5. ProofStands(e)'
  <2> SUFFICES ASSUME pc[e] = "io"
      PROVE  gate' = e /\ \A m \in batch[e] : auth'[m] \in {"live", "expired"}
    BY DEF ProofStands, RowSame
  <2>1. batch[e] \subseteq Members
    BY DEF TaskTyped
  <2>2. gate = e /\ \A m \in batch[e] : auth[m] \in {"live", "expired"}
    BY DEF TaskOk, ProofStands
  <2> QED BY <2>1, <2>2 DEF Spares
<1>6. KnowsDelivery(e)'
  <2>1. holder' = e /\ env'.st = "SENDING" => holder = e /\ env.st = "SENDING"
    BY DEF Spares
  <2>2. CASE delivered' = delivered
    BY <2>1, <2>2 DEF TaskOk, KnowsDelivery, RowSame, Holds
  <2>3. CASE pc[e] # "inflight" /\ ~(holder' = e /\ env'.st = "SENDING")
    BY <2>3 DEF KnowsDelivery, RowSame, Holds
  <2> QED BY <2>2, <2>3 DEF Spares
<1> QED BY <1>1, <1>2, <1>3, <1>4, <1>5, <1>6 DEF TaskOk

\* A dispatcher that is between two dispatches relies on nothing.
LEMMA RestingIsOk ==
  ASSUME NEW d \in Dispatchers, pc'[d] \in {"idle", "raised", "absent"}, round'[d] = 0,
         lease'[d] => open'
  PROVE  TaskOk(d)'
<1>1. pc'[d] \notin Owning /\ pc'[d] \notin {"check", "recheck", "final", "render", "approve",
                                              "begin", "claim"}
  BY DEF Owning
<1>2. RoundsBound(d)' /\ LeaseIsOpen(d)' /\ OwnsOrLost(d)' /\ ProofStands(d)'
  BY <1>1 DEF RoundsBound, LeaseIsOpen, OwnsOrLost, ProofStands, Owning
<1>3. PassIsCurrent(d)' /\ KnowsDelivery(d)'
  BY <1>1 DEF PassIsCurrent, KnowsDelivery, Owning
<1> QED BY <1>2, <1>3 DEF TaskOk

\* The coroutine that ends resets its own variables and leaves the gate.
LEMMA EndStep ==
  ASSUME NEW d \in Dispatchers, NEW to \in {"idle", "raised"}, TaskTyped, End(d, to)
  PROVE  /\ TaskTyped'
         /\ pc'[d] = to /\ round'[d] = 0 /\ ~lease'[d]
         /\ \A e \in Dispatchers \ {d} : RowSame(e)
         /\ gate' = gate \/ gate = d
         /\ gate \in Dispatchers \cup {Nobody} => gate' \in Dispatchers \cup {Nobody}
         /\ TaskOk(d)'
<1>1. to \in PCs /\ 0 \in 0..Rebuilds /\ {} \in SUBSET Members /\ "UNKNOWN" \in MessageStatus
  BY DigestConstants DEF PCs, MessageStatus
<1>2. TaskTyped'
  BY <1>1 DEF TaskTyped, End, Goto
<1>3. pc'[d] = to /\ round'[d] = 0 /\ ~lease'[d]
  BY DEF TaskTyped, End, Goto
<1>4. \A e \in Dispatchers \ {d} : RowSame(e)
  BY DEF TaskTyped, End, Goto, RowSame
<1>5. /\ gate' = gate \/ gate = d
      /\ gate \in Dispatchers \cup {Nobody} => gate' \in Dispatchers \cup {Nobody}
  BY DEF End, LeaveGate
<1>6. TaskOk(d)'
  BY <1>3, RestingIsOk
<1> QED BY <1>2, <1>3, <1>4, <1>5, <1>6

\* A dispatcher that has begun runs in a process that is up.
LEMMA BusyIsUp ==
  ASSUME DigestInv, NEW d \in Dispatchers, pc[d] \notin {"idle", "absent"}
  PROVE  up = TRUE
BY DEF DigestInv, EnvOk, DownIsIdle, Typed, WorldTyped

\* A step of one dispatcher that writes nothing in the tables.

LEMMA QuietStep ==
  ASSUME DigestInv, NEW d \in Dispatchers,
         UNCHANGED <<table, expired, auth, open, up, delivered>>,
         faults' \in Nat, gate' \in Dispatchers \cup {Nobody}, TaskTyped',
         \A e \in Dispatchers \ {d} : RowSame(e),
         gate' = gate \/ gate = d \/ gate = Nobody,
         up,
         pc'[d] = "inflight" => pc[d] = "inflight" \/ Holds(d, "SENDING"),
         TaskOk(d)'
  PROVE  DigestInv'
<1>1. Typed'
  BY DEF DigestInv, Typed, EnvTyped, WorldTyped, table
<1>2. ASSUME NEW e \in Dispatchers, e # d PROVE Spares(e)
  <2>1. pc[e] = "io" => gate = e /\ e # Nobody
    BY DigestConstants DEF DigestInv, TaskOk, ProofStands
  <2> QED BY <1>2, <2>1 DEF Spares, RowSame, table
<1>3. ASSUME NEW e \in Dispatchers PROVE TaskOk(e)'
  <2>1. CASE e = d
    BY <2>1
  <2>2. CASE e # d
    BY <2>2, <1>2, SparedIsOk DEF DigestInv, Typed
  <2> QED BY <2>1, <2>2
<1>4. OneInFlight'
  <2> SUFFICES ASSUME NEW e \in Dispatchers, e # d, pc'[d] = "inflight", pc'[e] = "inflight"
      PROVE  FALSE
    BY DEF OneInFlight, DigestInv, EnvOk, RowSame
  <2>1. pc[e] = "inflight"
    BY DEF RowSame
  <2>2. OwnsOrLost(e)
    BY DEF DigestInv, TaskOk
  <2>3. holder = e \/ env.st = "UNKNOWN"
    BY <2>1, <2>2 DEF OwnsOrLost, Owning, Holds
  <2>4. pc[d] # "inflight"
    BY <2>1 DEF DigestInv, EnvOk, OneInFlight
  <2> QED BY <2>3, <2>4 DEF Holds
<1>5. ReadIsFailed' /\ EventsFollow' /\ OneMessage' /\ RequeuedIsUnsent'
  BY DEF DigestInv, EnvOk, ReadIsFailed, EventsFollow, OneMessage, RequeuedIsUnsent, table
<1>6. DownIsIdle'
  BY DEF DownIsIdle
<1> QED BY <1>1, <1>3, <1>4, <1>5, <1>6 DEF DigestInv, EnvOk

\* A dispatch that ends without a write.
LEMMA QuietEnd ==
  ASSUME DigestInv, NEW d \in Dispatchers, NEW to \in {"idle", "raised"}, End(d, to),
         pc[d] \notin {"idle", "absent"},
         UNCHANGED <<table, expired, auth, open, up, delivered>>, faults' \in Nat
  PROVE  DigestInv'
<1>1. TaskTyped /\ gate \in Dispatchers \cup {Nobody}
  BY DEF DigestInv, Typed, WorldTyped
<1>2. up
  BY BusyIsUp
<1>3. /\ TaskTyped' /\ pc'[d] = to /\ \A e \in Dispatchers \ {d} : RowSame(e)
      /\ gate' = gate \/ gate = d
      /\ gate' \in Dispatchers \cup {Nobody}
      /\ TaskOk(d)'
  BY <1>1, EndStep
<1> QED BY <1>2, <1>3, QuietStep

\* The facts that a step of d starts from.
LEMMA DispatcherFacts ==
  ASSUME DigestInv, NEW d \in Dispatchers
  PROVE  /\ TaskTyped /\ EnvTyped /\ WorldTyped
         /\ gate \in Dispatchers \cup {Nobody} /\ faults \in Nat
         /\ RoundsBound(d) /\ LeaseIsOpen(d) /\ OwnsOrLost(d) /\ PassIsCurrent(d)
         /\ ProofStands(d) /\ KnowsDelivery(d)
         /\ todo[d] \subseteq Members /\ ok[d] \subseteq Members /\ batch[d] \subseteq Members
         /\ round[d] \in 0..Rebuilds /\ receipt[d] \in MessageStatus
BY DEF DigestInv, Typed, WorldTyped, TaskOk, TaskTyped

LEMMA GotoStep ==
  ASSUME TaskTyped, NEW d \in Dispatchers, NEW to \in PCs, Goto(d, to)
  PROVE  /\ pc' \in [Dispatchers -> PCs]
         /\ pc'[d] = to
         /\ \A e \in Dispatchers \ {d} : pc'[e] = pc[e]
BY DEF TaskTyped, Goto

\* A dispatcher that only goes on, its other variables unchanged.
LEMMA QuietGoto ==
  ASSUME DigestInv, NEW d \in Dispatchers, NEW to \in PCs, Goto(d, to),
         pc[d] \notin {"idle", "absent"},
         UNCHANGED <<table, expired, auth, open, up, delivered>>,
         UNCHANGED <<pass, prior, lease, sending>>,
         faults' \in Nat, gate' \in Dispatchers \cup {Nobody},
         gate' = gate \/ gate = d \/ gate = Nobody,
         to = "inflight" => Holds(d, "SENDING"),
         TaskOk(d)'
  PROVE  DigestInv'
<1>1. up
  BY BusyIsUp
<1>2. TaskTyped' /\ \A e \in Dispatchers \ {d} : RowSame(e)
  BY GotoStep DEF DigestInv, Typed, TaskTyped, RowSame, pass, sending
<1>3. pc'[d] = to
  BY GotoStep DEF DigestInv, Typed
<1> QED BY <1>1, <1>2, <1>3, QuietStep

LEMMA CheckKeeps ==
  ASSUME DigestInv, NEW d \in Dispatchers, NEW m \in Members, CheckMember(d, m)
  PROVE  DigestInv'
<1> USE DispatcherFacts
<1>1. /\ pc[d] = "check" /\ m \in todo[d] /\ todo' = [todo EXCEPT ![d] = todo[d] \ {m}]
      /\ UNCHANGED <<table, expired, world, pc, round, batch, lease, sending, delivered>>
  BY DEF CheckMember
<1>2. /\ ok' \in [Dispatchers -> SUBSET Members]
      /\ ok'[d] \subseteq ok[d] \cup {m}
      /\ \A e \in Dispatchers \ {d} : ok'[e] = ok[e]
      /\ prior' \in [Dispatchers -> SUBSET Members]
  BY DEF CheckMember, TaskTyped
<1>3. todo' \in [Dispatchers -> SUBSET Members]
  BY <1>1 DEF TaskTyped
<1>4. TaskTyped'
  BY <1>1, <1>2, <1>3 DEF TaskTyped, sending
<1>5. \A e \in Dispatchers \ {d} : RowSame(e)
  BY <1>1, <1>2 DEF TaskTyped, sending, RowSame
<1>6. TaskOk(d)'
  <2>1. PassIsCurrent(d)'
    BY <1>1, <1>2 DEF PassIsCurrent, TaskTyped, table, Holds
  <2>2. RoundsBound(d)' /\ LeaseIsOpen(d)' /\ OwnsOrLost(d)' /\ ProofStands(d)' /\ KnowsDelivery(d)'
    BY <1>1 DEF RoundsBound, LeaseIsOpen, OwnsOrLost, ProofStands, KnowsDelivery, table, world,
                sending, Holds, Owning
  <2> QED BY <2>1, <2>2 DEF TaskOk
<1>7. up
  BY <1>1, BusyIsUp
<1> QED BY <1>1, <1>4, <1>5, <1>6, <1>7, QuietStep DEF world

LEMMA RecheckKeeps ==
  ASSUME DigestInv, NEW d \in Dispatchers, NEW m \in Members, RecheckMember(d, m)
  PROVE  DigestInv'
<1> USE DispatcherFacts
<1>1. /\ pc[d] \in {"recheck", "final"} /\ m \in todo[d]
      /\ UNCHANGED <<table, expired, auth, open, up, faults, delivered>>
  BY DEF RecheckMember
<1>2. CASE pc[d] = "recheck" /\ ~lease[d]
  <2>1. End(d, "raised")
    BY <1>2 DEF RecheckMember
  <2> QED BY <1>1, <2>1, QuietEnd
<1>3. CASE ~(pc[d] = "recheck" /\ ~lease[d])
  <2>1. /\ todo' = [todo EXCEPT ![d] = todo[d] \ {m}]
        /\ ok' = [ok EXCEPT ![d] = ok[d] \cup {m}] \/ ok' = ok
        /\ UNCHANGED <<pc, gate, round, batch, prior, lease, sending>>
    BY <1>3 DEF RecheckMember
  <2>2. /\ ok' \in [Dispatchers -> SUBSET Members]
        /\ ok'[d] \subseteq ok[d] \cup {m}
        /\ \A e \in Dispatchers \ {d} : ok'[e] = ok[e]
    BY <2>1 DEF TaskTyped
  <2>3. todo' \in [Dispatchers -> SUBSET Members]
    BY <2>1 DEF TaskTyped
  <2>4. TaskTyped'
    BY <2>1, <2>2, <2>3 DEF TaskTyped, sending
  <2>5. \A e \in Dispatchers \ {d} : RowSame(e)
    BY <2>1, <2>2 DEF TaskTyped, sending, RowSame
  <2>6. PassIsCurrent(d)'
    BY <1>1, <2>1, <2>2 DEF PassIsCurrent, TaskTyped, table, Holds
  <2>7. RoundsBound(d)' /\ LeaseIsOpen(d)' /\ OwnsOrLost(d)' /\ ProofStands(d)' /\ KnowsDelivery(d)'
    BY <1>1, <2>1 DEF RoundsBound, LeaseIsOpen, OwnsOrLost, ProofStands, KnowsDelivery, table,
                sending, Holds, Owning
  <2>8. TaskOk(d)'
    BY <2>6, <2>7 DEF TaskOk
  <2>9. up
    BY <1>1, BusyIsUp
  <2> QED BY <1>1, <2>1, <2>4, <2>5, <2>8, <2>9, QuietStep
<1> QED BY <1>2, <1>3

\* A pass over the batch begins: of the second check, or of the final one.
LEMMA PassBegins ==
  ASSUME DigestInv, NEW d \in Dispatchers, NEW to \in {"recheck", "final"}, Goto(d, to),
         pc[d] \in {"render", "approve"},
         StartPass(d, batch[d]), UNCHANGED <<round, batch, prior, lease, sending>>,
         UNCHANGED <<table, expired, auth, open, up, faults, delivered>>,
         gate' = gate \/ (gate = Nobody /\ gate' = d)
  PROVE  DigestInv'
<1> USE DispatcherFacts
<1>1. to \in PCs /\ to \notin Owning
  BY DEF PCs, BeforeSend, Owning
<1>2. /\ pc' \in [Dispatchers -> PCs] /\ pc'[d] = to
      /\ \A e \in Dispatchers \ {d} : pc'[e] = pc[e]
  BY <1>1, GotoStep
<1>3. /\ todo' \in [Dispatchers -> SUBSET Members] /\ todo'[d] = batch[d]
      /\ ok' \in [Dispatchers -> SUBSET Members] /\ ok'[d] = {}
      /\ \A e \in Dispatchers \ {d} : ok'[e] = ok[e] /\ todo'[e] = todo[e]
  BY DEF StartPass, TaskTyped
<1>4. TaskTyped'
  BY <1>2, <1>3 DEF TaskTyped, sending
<1>5. \A e \in Dispatchers \ {d} : RowSame(e)
  BY <1>2, <1>3 DEF sending, RowSame
<1>6. PassIsCurrent(d)'
  <2>1. Holds(d, "CLAIMED") => batch[d] = env.members
    BY DEF PassIsCurrent
  <2> QED BY <2>1, <1>2, <1>3 DEF PassIsCurrent, table, Holds
<1>7. RoundsBound(d)' /\ LeaseIsOpen(d)' /\ OwnsOrLost(d)' /\ ProofStands(d)' /\ KnowsDelivery(d)'
  BY <1>1, <1>2 DEF RoundsBound, LeaseIsOpen, OwnsOrLost, ProofStands, KnowsDelivery, Owning
<1>8. TaskOk(d)'
  BY <1>6, <1>7 DEF TaskOk
<1>9. up
  BY BusyIsUp
<1> QED BY <1>2, <1>4, <1>5, <1>8, <1>9, QuietStep

LEMMA RenderKeeps ==
  ASSUME DigestInv, NEW d \in Dispatchers, Render(d)
  PROVE  DigestInv'
<1>1. pc[d] = "render" /\ UNCHANGED <<table, expired, auth, open, up, faults, delivered>>
  BY DEF Render
<1>2. CASE /\ Goto(d, "recheck") /\ StartPass(d, batch[d])
           /\ UNCHANGED <<gate, round, batch, prior, lease, sending>>
  <2>1. pc[d] \in {"render", "approve"} /\ gate' = gate
    BY <1>1, <1>2
  <2>2. UNCHANGED <<round, batch, prior, lease, sending>>
    BY <1>2
  <2> QED BY <1>1, <1>2, <2>1, <2>2, PassBegins
<1>3. CASE Goto(d, "failed") /\ UNCHANGED <<gate, pass, prior, lease, sending>>
  <2>1. "failed" \in PCs /\ "failed" \notin Owning
    BY DEF PCs, BeforeSend, Owning
  <2>2. pc'[d] = "failed"
    BY <2>1, <1>3, GotoStep, DispatcherFacts
  <2>3. TaskOk(d)'
    BY <1>1, <1>3, <2>2, <2>1, DispatcherFacts DEF TaskOk, RoundsBound, LeaseIsOpen, OwnsOrLost, PassIsCurrent,
          ProofStands, KnowsDelivery, Owning
  <2> QED BY <1>1, <1>3, <2>1, <2>3, QuietGoto, DispatcherFacts
<1>4. CASE End(d, "raised")
  BY <1>1, <1>4, QuietEnd, DispatcherFacts
<1> QED BY <1>2, <1>3, <1>4 DEF Render

LEMMA ApproveKeeps ==
  ASSUME DigestInv, NEW d \in Dispatchers, Approve(d)
  PROVE  DigestInv'
<1> USE DispatcherFacts
<1>1. /\ pc[d] = "approve" /\ gate = Nobody
      /\ UNCHANGED <<table, expired, auth, open, up, faults, delivered>>
  BY DEF Approve
<1>2. CASE /\ gate' = d /\ Goto(d, "final") /\ StartPass(d, batch[d])
           /\ UNCHANGED <<round, batch, prior, lease, sending>>
  BY <1>1, <1>2, PassBegins
<1>3. CASE End(d, "idle")
  BY <1>1, <1>3, QuietEnd
<1> QED BY <1>2, <1>3 DEF Approve

LEMMA RefusedKeeps ==
  ASSUME DigestInv, NEW d \in Dispatchers, BeginRefused(d)
  PROVE  DigestInv'
<1> USE DispatcherFacts
<1>1. /\ pc[d] \in {"begin", "drop", "failed"}
      /\ UNCHANGED <<table, expired, auth, open, up, faults, delivered>>
  BY DEF BeginRefused
<1>2. CASE /\ round[d] < Rebuilds /\ Goto(d, "claim") /\ LeaveGate(d)
           /\ UNCHANGED <<pass, prior, lease, sending>>
  <2>1. "claim" \in PCs /\ "claim" \notin Owning
    BY DEF PCs, BeforeSend, Owning
  <2>2. pc'[d] = "claim"
    BY <2>1, <1>2, GotoStep
  <2>3. TaskOk(d)'
    BY <1>1, <1>2, <2>2, <2>1 DEF TaskOk, RoundsBound, LeaseIsOpen, OwnsOrLost, PassIsCurrent,
          ProofStands, KnowsDelivery, Owning, pass
  <2>4. gate' \in Dispatchers \cup {Nobody} /\ (gate' = gate \/ gate = d)
    BY <1>2 DEF LeaveGate
  <2> QED BY <1>1, <1>2, <2>1, <2>3, <2>4, QuietGoto
<1>3. CASE End(d, "idle")
  BY <1>1, <1>3, QuietEnd
<1> QED BY <1>2, <1>3 DEF BeginRefused

\* Between the persisted attempt and the Host: the dispatcher moves on with its
\* attempt, which stays its own.
LEMMA OwnerMoves ==
  ASSUME DigestInv, NEW d \in Dispatchers, NEW to \in Owning \ {"receipt"}, Goto(d, to),
         pc[d] \in {"claimed", "queued", "io"},
         UNCHANGED <<table, expired, auth, open, up, faults, delivered>>,
         UNCHANGED <<pass, prior, lease, sending>>,
         gate' \in Dispatchers \cup {Nobody}, gate' = gate \/ gate = d \/ gate = Nobody,
         to = "io" => gate' = d /\ \A m \in batch[d] : auth[m] \in {"live", "expired"},
         to = "inflight" => Holds(d, "SENDING")
  PROVE  DigestInv'
<1> USE DispatcherFacts
<1>1. to \in PCs /\ pc[d] \in Owning \ {"receipt", "inflight"}
  BY DEF PCs, Owning
<1>2. pc'[d] = to
  BY <1>1, GotoStep
<1>3. RoundsBound(d)' /\ LeaseIsOpen(d)'
  BY <1>2 DEF RoundsBound, LeaseIsOpen, Owning
<1>4. OwnsOrLost(d)'
  BY <1>1 DEF OwnsOrLost, Holds, table
<1>5. PassIsCurrent(d)'
  BY <1>2 DEF PassIsCurrent, Holds, table, pass, Owning
<1>6. ProofStands(d)'
  BY <1>2 DEF ProofStands, pass
<1>7. KnowsDelivery(d)'
  BY <1>1, <1>2 DEF KnowsDelivery, Holds, table
<1>8. TaskOk(d)'
  BY <1>3, <1>4, <1>5, <1>6, <1>7 DEF TaskOk
<1> QED BY <1>1, <1>8, QuietGoto

LEMMA PermitKeeps ==
  ASSUME DigestInv, NEW d \in Dispatchers, Permit(d)
  PROVE  DigestInv'
<1> USE DispatcherFacts
<1>1. /\ pc[d] = "claimed"
      /\ UNCHANGED <<table, expired, auth, open, up, faults, delivered>>
      /\ UNCHANGED <<pass, prior, lease, sending>>
  BY DEF Permit
<1>2. PICK to \in {"queued", "dropped", "abort"} : Goto(d, to)
  BY DEF Permit
<1>3. gate' \in Dispatchers \cup {Nobody} /\ (gate' = gate \/ gate = d)
  BY DEF Permit, LeaveGate
<1>4. to \in Owning \ {"receipt"}
  BY DEF Owning
<1> QED BY <1>1, <1>2, <1>3, <1>4, OwnerMoves

LEMMA StartIoKeeps ==
  ASSUME DigestInv, NEW d \in Dispatchers, StartIo(d)
  PROVE  DigestInv'
<1> USE DispatcherFacts
<1>1. /\ pc[d] = "queued" /\ gate = Nobody /\ gate' = d
      /\ UNCHANGED <<table, expired, auth, open, up, faults, delivered>>
      /\ UNCHANGED <<pass, prior, lease, sending>>
  BY DEF StartIo
<1>2. "io" \in Owning \ {"receipt"} /\ "abort" \in Owning \ {"receipt"}
  BY DEF Owning
<1>3. CASE CurrentForSend(d) /\ Goto(d, "io")
  <2>1. batch[d] = env.members
    BY <1>1, <1>3 DEF PassIsCurrent, CurrentForSend
  <2>2. \A m \in batch[d] : auth[m] \in {"live", "expired"}
    BY <1>3, <2>1 DEF CurrentForSend, AllIncluded, Included
  <2> QED BY <1>1, <1>2, <1>3, <2>2, OwnerMoves
<1>4. CASE Goto(d, "abort")
  BY <1>1, <1>2, <1>4, OwnerMoves
<1> QED BY <1>3, <1>4 DEF StartIo

LEMMA IoEnterKeeps ==
  ASSUME DigestInv, NEW d \in Dispatchers, IoEnter(d)
  PROVE  DigestInv'
<1> USE DispatcherFacts
<1>1. /\ pc[d] = "io"
      /\ UNCHANGED <<table, expired, auth, open, up, faults, delivered>>
      /\ UNCHANGED <<pass, prior, lease, sending>>
  BY DEF IoEnter
<1>2. "inflight" \in Owning \ {"receipt"} /\ "abort" \in Owning \ {"receipt"} /\ "io" \in Owning
  BY DEF Owning
<1>3. CASE d \notin expired /\ Goto(d, "inflight") /\ LeaveGate(d)
  <2>1. Holds(d, "SENDING")
    BY <1>1, <1>2, <1>3 DEF OwnsOrLost
  <2>2. gate' \in Dispatchers \cup {Nobody} /\ (gate' = gate \/ gate = d)
    BY <1>3 DEF LeaveGate
  <2> QED BY <1>1, <1>2, <1>3, <2>1, <2>2, OwnerMoves
<1>4. CASE Goto(d, "abort") /\ UNCHANGED gate
  BY <1>1, <1>2, <1>4, OwnerMoves
<1> QED BY <1>3, <1>4 DEF IoEnter

LEMMA CancelDispatchKeeps ==
  ASSUME DigestInv, NEW d \in Dispatchers, CancelDispatch(d)
  PROVE  DigestInv'
<1> USE DispatcherFacts
<1>1. /\ pc[d] \notin {"idle", "absent"} /\ faults' \in Nat
      /\ UNCHANGED <<table, expired, auth, open, up, delivered>>
  BY DEF CancelDispatch, BeforeSend, Fault
<1>2. PICK to \in {"idle", "raised"} : End(d, to)
  BY DEF CancelDispatch
<1> QED BY <1>1, <1>2, QuietEnd

LEMMA CancelSenderKeeps ==
  ASSUME DigestInv, NEW d \in Dispatchers, CancelSender(d)
  PROVE  DigestInv'
<1> USE DispatcherFacts
<1>1. /\ pc[d] \in {"queued", "io"} /\ Goto(d, "abort") /\ UNCHANGED gate
      /\ UNCHANGED <<table, expired, auth, open, up, faults, delivered>>
      /\ UNCHANGED <<pass, prior, lease, sending>>
  BY DEF CancelSender, world
<1>2. "abort" \in Owning \ {"receipt"}
  BY DEF Owning
<1> QED BY <1>1, <1>2, OwnerMoves

LEMMA StopSendKeeps ==
  ASSUME DigestInv, NEW d \in Dispatchers, StopSend(d)
  PROVE  DigestInv'
<1> USE DispatcherFacts
<1>1. /\ pc[d] \in {"queued", "io"}
      /\ UNCHANGED <<table, expired, world, pc, pass, prior, lease, receipt, delivered>>
      /\ stop' = [stop EXCEPT ![d] = TRUE]
  BY DEF StopSend
<1>2. TaskTyped'
  BY <1>1 DEF TaskTyped, pass
<1>3. \A e \in Dispatchers : RowSame(e)
  BY <1>1 DEF RowSame, pass
<1>4. Spares(d)
  BY <1>1 DEF Spares, table, world
<1>5. TaskOk(d)'
  BY <1>3, <1>4, SparedIsOk DEF TaskOk
<1>6. up
  BY <1>1, BusyIsUp
<1> QED BY <1>1, <1>2, <1>3, <1>5, <1>6, QuietStep DEF world

LEMMA SettleFailsKeeps ==
  ASSUME DigestInv, NEW d \in Dispatchers, SettleFails(d)
  PROVE  DigestInv'
<1> USE DispatcherFacts
<1>1. /\ pc[d] \notin {"idle", "absent"} /\ faults' \in Nat
      /\ UNCHANGED <<table, expired, auth, open, up, delivered>>
  BY DEF SettleFails, Fault
<1>2. PICK to \in {"idle", "raised"} : End(d, to)
  BY DEF SettleFails
<1> QED BY <1>1, <1>2, QuietEnd

\* Steps that write the envelope.

\* What Write leaves in the row.
LEMMA WriteStep ==
  ASSUME EnvTyped, NEW st \in EnvelopeStates, NEW members \in SUBSET Members, NEW att \in Nat,
         NEW retry \in BOOLEAN, Write(st, members, att, retry)
  PROVE  /\ env' \in [public: BOOLEAN, st: EnvelopeStates, members: SUBSET Members, att: Nat,
                      retry: BOOLEAN]
         /\ env'.st = st /\ env'.members = members /\ env'.retry = retry
         /\ env'.public = env.public
         /\ read' = {}
<1>1. env' = [env EXCEPT !.st = st, !.members = members, !.att = att, !.retry = retry]
  BY DEF Write
<1>2. env \in [public: BOOLEAN, st: EnvelopeStates, members: SUBSET Members, att: Nat,
               retry: BOOLEAN]
  BY DEF EnvTyped
<1> QED BY <1>1, <1>2 DEF Write

\* A write of a dispatcher that holds the envelope concerns no other one.
LEMMA HolderStep ==
  ASSUME DigestInv, NEW d \in Dispatchers, Holds(d, "CLAIMED") \/ Holds(d, "SENDING"),
         UNCHANGED <<expired, joined, auth, open, up, delivered>>,
         holder' \in {d, Nobody}, EnvTyped', ReadIsFailed', EventsFollow', RequeuedIsUnsent',
         faults' \in Nat, gate' \in Dispatchers \cup {Nobody},
         gate' = gate \/ gate = d,
         TaskTyped', \A e \in Dispatchers \ {d} : RowSame(e),
         pc[d] \notin {"idle", "absent"}, pc'[d] # "inflight", TaskOk(d)'
  PROVE  DigestInv'
<1>1. up = TRUE
  BY BusyIsUp
<1>2. Typed'
  BY DEF DigestInv, Typed, WorldTyped
<1>3. ASSUME NEW e \in Dispatchers, e # d PROVE Spares(e) /\ RowSame(e)
  <2>1. holder # e /\ holder' # e /\ env.st # "UNKNOWN"
    BY <1>3, DigestConstants DEF Holds
  <2>2. pc[e] = "io" => gate = e
    BY DEF DigestInv, TaskOk, ProofStands
  <2> QED BY <1>3, <2>1, <2>2 DEF Spares
<1>4. ASSUME NEW e \in Dispatchers PROVE TaskOk(e)'
  <2>1. CASE e = d
    BY <2>1
  <2>2. CASE e # d
    BY <2>2, <1>3, SparedIsOk DEF DigestInv, Typed
  <2> QED BY <2>1, <2>2
<1>5. OneInFlight' /\ OneMessage' /\ DownIsIdle'
  BY <1>1 DEF DigestInv, EnvOk, OneInFlight, OneMessage, DownIsIdle, RowSame
<1> QED BY <1>2, <1>4, <1>5 DEF DigestInv, EnvOk

\* Such a write that also ends the dispatch.
LEMMA HolderEnds ==
  ASSUME DigestInv, NEW d \in Dispatchers, Holds(d, "CLAIMED") \/ Holds(d, "SENDING"),
         UNCHANGED <<expired, joined, auth, open, up, faults, delivered>>,
         holder' \in {d, Nobody}, EnvTyped', ReadIsFailed', EventsFollow', RequeuedIsUnsent',
         pc[d] \notin {"idle", "absent"},
         NEW to \in {"idle", "raised"}, End(d, to)
  PROVE  DigestInv'
<1>1. TaskTyped /\ gate \in Dispatchers \cup {Nobody} /\ faults' \in Nat
  BY DispatcherFacts
<1>2. /\ TaskTyped' /\ pc'[d] = to /\ \A e \in Dispatchers \ {d} : RowSame(e)
      /\ gate' = gate \/ gate = d
      /\ gate' \in Dispatchers \cup {Nobody}
      /\ TaskOk(d)'
  BY <1>1, EndStep
<1>3. pc'[d] # "inflight"
  BY <1>2
<1> QED BY <1>1, <1>2, <1>3, HolderStep

\* reconcile_envelope_members keeps some of the members, or cancels.
LEMMA ReconcileWrites ==
  ASSUME DigestInv, NEW d \in Dispatchers, Holds(d, "CLAIMED"),
         pc[d] \in {"check", "recheck", "final"}, Reconcile(d),
         UNCHANGED <<joined, evst, expired, delivered>>
  PROVE  /\ holder' \in {d, Nobody}
         /\ EnvTyped' /\ ReadIsFailed' /\ EventsFollow' /\ RequeuedIsUnsent'
         /\ Survivors(d) # {} => env'.members = Survivors(d) /\ env'.st = "CLAIMED"
         /\ Survivors(d) \subseteq Members
         /\ env'.members \subseteq env.members
<1> USE DispatcherFacts
<1>1. Survivors(d) \subseteq env.members /\ env.members \subseteq Members /\ env.att \in Nat
  BY DEF PassIsCurrent, Survivors, EnvTyped
<1>2. env.st = "CLAIMED" /\ holder = d
  BY DEF Holds
<1>3. {"CLAIMED", "CANCELLED"} \subseteq EnvelopeStates
  BY DEF EnvelopeStates
<1>4. ASSUME NEW st \in {"CLAIMED", "CANCELLED"}, NEW S \in SUBSET env.members,
             Write(st, S, env.att, FALSE), holder' \in {d, Nobody},
             S = {} <=> st = "CANCELLED"
      PROVE  /\ EnvTyped' /\ ReadIsFailed' /\ EventsFollow' /\ RequeuedIsUnsent'
             /\ env'.members = S /\ env'.st = st
  <2>1. /\ env' \in [public: BOOLEAN, st: EnvelopeStates, members: SUBSET Members, att: Nat,
                     retry: BOOLEAN]
        /\ env'.st = st /\ env'.members = S /\ env'.retry = FALSE
        /\ env'.public = env.public
        /\ read' = {}
    BY <1>1, <1>3, <1>4, WriteStep
  <2>2. EnvTyped'
    BY <2>1, <1>4 DEF EnvTyped
  <2>3. ReadIsFailed' /\ RequeuedIsUnsent'
    BY <2>1, <1>2 DEF ReadIsFailed, RequeuedIsUnsent, DigestInv, EnvOk
  <2>4. EventsFollow'
    BY <2>1, <1>2, <1>4 DEF EventsFollow, DigestInv, EnvOk
  <2> QED BY <2>1, <2>2, <2>3, <2>4
<1>5. CASE Survivors(d) = {}
  <2>1. Write("CANCELLED", {}, env.att, FALSE) /\ holder' = Nobody
    BY <1>5 DEF Reconcile
  <2> QED BY <1>1, <1>4, <1>5, <2>1
<1>6. CASE Survivors(d) # {}
  <2>1. Write("CLAIMED", Survivors(d), env.att, FALSE) /\ holder' = d
    BY <1>2, <1>6 DEF Reconcile
  <2> QED BY <1>1, <1>4, <1>6, <2>1
<1> QED BY <1>5, <1>6

\* A reconciliation after which the dispatcher goes on with the survivors.
LEMMA ReconcileGoesOn ==
  ASSUME DigestInv, NEW d \in Dispatchers, Holds(d, "CLAIMED"),
         pc[d] \in {"check", "recheck", "final"}, Reconcile(d), Survivors(d) # {},
         UNCHANGED <<joined, evst, expired, auth, open, up, faults, delivered>>,
         UNCHANGED <<gate, round, todo, ok, prior, sending>>,
         NEW to \in {"render", "approve", "begin", "drop"}, Goto(d, to),
         to # "drop" => batch'[d] = Survivors(d),
         batch' \in [Dispatchers -> SUBSET Members], lease' \in [Dispatchers -> BOOLEAN],
         \A e \in Dispatchers \ {d} : batch'[e] = batch[e] /\ (lease'[e] => lease[e]),
         lease'[d] => open
  PROVE  DigestInv'
<1> USE DispatcherFacts
<1>1. /\ holder' \in {d, Nobody}
      /\ EnvTyped' /\ ReadIsFailed' /\ EventsFollow' /\ RequeuedIsUnsent'
      /\ env'.members = Survivors(d) /\ env'.st = "CLAIMED"
  BY ReconcileWrites
<1>2. to \in PCs /\ to \notin Owning
  BY DEF PCs, BeforeSend, Owning
<1>3. /\ pc' \in [Dispatchers -> PCs] /\ pc'[d] = to
      /\ \A e \in Dispatchers \ {d} : pc'[e] = pc[e]
  BY <1>2, GotoStep
<1>4. TaskTyped'
  BY <1>3 DEF TaskTyped, sending
<1>5. \A e \in Dispatchers \ {d} : RowSame(e)
  BY <1>3 DEF sending, RowSame
<1>6. PassIsCurrent(d)'
  BY <1>1, <1>3 DEF PassIsCurrent, Holds
<1>7. RoundsBound(d)' /\ LeaseIsOpen(d)' /\ OwnsOrLost(d)' /\ ProofStands(d)' /\ KnowsDelivery(d)'
  BY <1>1, <1>2, <1>3 DEF RoundsBound, LeaseIsOpen, OwnsOrLost, ProofStands, KnowsDelivery, Owning
<1>8. TaskOk(d)' /\ pc'[d] # "inflight"
  BY <1>3, <1>6, <1>7 DEF TaskOk
<1> QED BY <1>1, <1>4, <1>5, <1>8, HolderStep

LEMMA FirstReconcileKeeps ==
  ASSUME DigestInv, NEW d \in Dispatchers, FirstReconcile(d)
  PROVE  DigestInv'
<1> USE DispatcherFacts
<1>1. pc[d] = "check" /\ UNCHANGED <<expired, joined, evst, auth, open, up, faults, delivered>>
  BY DEF FirstReconcile
<1>2. CASE ~Holds(d, "CLAIMED")
  <2>1. End(d, "raised") /\ UNCHANGED <<env, read, holder>>
    BY <1>2 DEF FirstReconcile
  <2> QED BY <1>1, <2>1, QuietEnd DEF table
<1>3. CASE Holds(d, "CLAIMED")
  <2>1. Reconcile(d)
    BY <1>3 DEF FirstReconcile
  <2>2. /\ holder' \in {d, Nobody}
        /\ EnvTyped' /\ ReadIsFailed' /\ EventsFollow' /\ RequeuedIsUnsent'
        /\ Survivors(d) \subseteq Members
    BY <1>1, <1>3, <2>1, ReconcileWrites
  <2>3. CASE Survivors(d) = {} \/ ~open
    <3>1. PICK to \in {"idle", "raised"} : End(d, to)
      BY <1>3, <2>3 DEF FirstReconcile
    <3> QED BY <1>1, <1>3, <2>2, <3>1, HolderEnds
  <2>4. CASE Survivors(d) # {} /\ open
    <3>1. /\ Goto(d, "render") /\ batch' = [batch EXCEPT ![d] = Survivors(d)]
          /\ lease' = [lease EXCEPT ![d] = TRUE]
          /\ UNCHANGED <<gate, round, todo, ok, prior, sending>>
      BY <1>3, <2>4 DEF FirstReconcile
    <3>2. /\ batch' \in [Dispatchers -> SUBSET Members] /\ batch'[d] = Survivors(d)
          /\ lease' \in [Dispatchers -> BOOLEAN]
          /\ \A e \in Dispatchers \ {d} : batch'[e] = batch[e] /\ (lease'[e] => lease[e])
      BY <2>2, <3>1 DEF TaskTyped
    <3> QED BY <1>1, <1>3, <2>1, <2>4, <3>1, <3>2, ReconcileGoesOn
  <2> QED BY <2>3, <2>4
<1> QED BY <1>2, <1>3

LEMMA SecondReconcileKeeps ==
  ASSUME DigestInv, NEW d \in Dispatchers, SecondReconcile(d)
  PROVE  DigestInv'
<1> USE DispatcherFacts
<1>1. pc[d] = "recheck" /\ UNCHANGED <<expired, joined, evst, auth, open, up, faults, delivered>>
  BY DEF SecondReconcile
<1>2. CASE ~Holds(d, "CLAIMED")
  <2>1. End(d, "raised") /\ UNCHANGED <<env, read, holder>>
    BY <1>2 DEF SecondReconcile
  <2> QED BY <1>1, <2>1, QuietEnd DEF table
<1>3. CASE Holds(d, "CLAIMED")
  <2>1. Reconcile(d)
    BY <1>3 DEF SecondReconcile
  <2>2. /\ holder' \in {d, Nobody}
        /\ EnvTyped' /\ ReadIsFailed' /\ EventsFollow' /\ RequeuedIsUnsent'
        /\ Survivors(d) \subseteq Members
    BY <1>1, <1>3, <2>1, ReconcileWrites
  <2>3. CASE Survivors(d) = {} \/ ~lease[d]
    <3>1. PICK to \in {"idle", "raised"} : End(d, to)
      BY <1>3, <2>3 DEF SecondReconcile
    <3> QED BY <1>1, <1>3, <2>2, <3>1, HolderEnds
  <2>4. CASE Survivors(d) # {} /\ lease[d]
    <3>1. /\ batch' = [batch EXCEPT ![d] = Survivors(d)]
          /\ UNCHANGED <<gate, round, todo, ok, prior, lease, sending>>
      BY <1>3, <2>4 DEF SecondReconcile
    <3>2. PICK to \in {"approve", "render"} : Goto(d, to)
      BY <1>3, <2>4 DEF SecondReconcile
    <3>3. /\ batch' \in [Dispatchers -> SUBSET Members] /\ batch'[d] = Survivors(d)
          /\ \A e \in Dispatchers \ {d} : batch'[e] = batch[e]
      BY <2>2, <3>1 DEF TaskTyped
    <3>4. /\ lease' \in [Dispatchers -> BOOLEAN] /\ (lease'[d] => open)
          /\ \A e \in Dispatchers \ {d} : lease'[e] => lease[e]
      BY <3>1 DEF TaskTyped, LeaseIsOpen
    <3> QED BY <1>1, <1>3, <2>1, <2>4, <3>1, <3>2, <3>3, <3>4, ReconcileGoesOn
  <2> QED BY <2>3, <2>4
<1> QED BY <1>2, <1>3

LEMMA FinalReconcileKeeps ==
  ASSUME DigestInv, NEW d \in Dispatchers, FinalReconcile(d)
  PROVE  DigestInv'
<1> USE DispatcherFacts
<1>1. pc[d] = "final" /\ UNCHANGED <<expired, joined, evst, auth, open, up, faults, delivered>>
  BY DEF FinalReconcile
<1>2. CASE ~Holds(d, "CLAIMED")
  <2>1. End(d, "idle") /\ UNCHANGED <<env, read, holder>>
    BY <1>2 DEF FinalReconcile
  <2> QED BY <1>1, <2>1, QuietEnd DEF table
<1>3. CASE Holds(d, "CLAIMED")
  <2>1. Reconcile(d)
    BY <1>3 DEF FinalReconcile
  <2>2. /\ holder' \in {d, Nobody}
        /\ EnvTyped' /\ ReadIsFailed' /\ EventsFollow' /\ RequeuedIsUnsent'
    BY <1>1, <1>3, <2>1, ReconcileWrites
  <2>3. CASE Survivors(d) = {}
    <3>1. End(d, "idle")
      BY <1>3, <2>3 DEF FinalReconcile
    <3> QED BY <1>1, <1>3, <2>2, <3>1, HolderEnds
  <2>4. CASE Survivors(d) # {}
    <3>1. /\ Goto(d, IF Survivors(d) = batch[d] THEN "begin" ELSE "drop")
          /\ UNCHANGED <<gate, pass, prior, lease, sending>>
      BY <1>3, <2>4 DEF FinalReconcile
    <3>2. PICK to \in {"begin", "drop"} : Goto(d, to) /\ (to # "drop" => Survivors(d) = batch[d])
      BY <3>1
    <3>3. /\ batch' \in [Dispatchers -> SUBSET Members]
          /\ lease' \in [Dispatchers -> BOOLEAN] /\ (lease'[d] => open)
          /\ \A e \in Dispatchers \ {d} : batch'[e] = batch[e] /\ (lease'[e] => lease[e])
          /\ to # "drop" => batch'[d] = Survivors(d)
          /\ UNCHANGED <<gate, round, todo, ok, prior, sending>>
      BY <3>1, <3>2 DEF TaskTyped, LeaseIsOpen, pass
    <3> QED BY <1>1, <1>3, <2>1, <2>4, <3>2, <3>3, ReconcileGoesOn
  <2> QED BY <2>3, <2>4
<1> QED BY <1>2, <1>3

\* The writes that project onto the member events: begin, complete and abort.
LEMMA ProjectWrites ==
  ASSUME DigestInv, NEW d \in Dispatchers, Holds(d, "CLAIMED") \/ Holds(d, "SENDING"),
         NEW st \in {"SENDING", "SENT", "FAILED", "UNKNOWN", "READY"}, NEW att \in Nat,
         NEW retry \in BOOLEAN, retry => st = "FAILED",
         NEW ev \in {"SENDING", "SENT", "FAILED", "UNKNOWN"},
         IF st = "READY" THEN ev = "FAILED" ELSE ev = st,
         Write(st, env.members, att, retry), Project(ev), holder' \in {d, Nobody},
         UNCHANGED <<joined, expired, delivered>>,
         st \in {"READY", "FAILED"} => delivered = 0, st = "SENT" => delivered = 1
  PROVE  /\ EnvTyped' /\ ReadIsFailed' /\ EventsFollow' /\ RequeuedIsUnsent'
         /\ env'.st = st /\ env'.members = env.members
<1> USE DispatcherFacts
<1>1. env.st \in {"CLAIMED", "SENDING"} /\ env.members \subseteq Members /\ env.members # {}
  BY DEF Holds, EnvTyped
<1>2. st \in EnvelopeStates /\ ev \in EventStates
  BY DEF EnvelopeStates, EventStates
<1>3. /\ env' \in [public: BOOLEAN, st: EnvelopeStates, members: SUBSET Members, att: Nat,
                   retry: BOOLEAN]
      /\ env'.st = st /\ env'.members = env.members /\ env'.retry = retry
      /\ env'.public = env.public
      /\ read' = {}
  BY <1>1, <1>2, WriteStep
<1>4. /\ evst' \in [Members -> EventStates]
      /\ \A m \in Members : evst[m] # "NONE" => evst'[m] # "NONE"
      /\ env.public => \A m \in env.members : evst'[m] = ev
  BY <1>1, <1>2 DEF Project, EnvTyped
<1>5. EnvTyped'
  BY <1>1, <1>3, <1>4 DEF EnvTyped
<1>6. ReadIsFailed' /\ RequeuedIsUnsent'
  BY <1>3 DEF ReadIsFailed, RequeuedIsUnsent
<1>7. EventsFollow'
  <2>1. \A m \in joined' \cup env'.members : evst'[m] # "NONE"
    BY <1>1, <1>3, <1>4 DEF EventsFollow, DigestInv, EnvOk, EnvTyped
  <2> QED BY <1>3, <1>4, <2>1 DEF EventsFollow
<1> QED BY <1>3, <1>5, <1>6, <1>7

LEMMA BeginSendKeeps ==
  ASSUME DigestInv, NEW d \in Dispatchers, BeginSend(d)
  PROVE  DigestInv'
<1> USE DispatcherFacts
<1>1. /\ pc[d] \in {"begin", "drop", "failed"} /\ Holds(d, "CLAIMED")
      /\ Write("SENDING", env.members, env.att + 1, FALSE) /\ Project("SENDING")
      /\ UNCHANGED <<holder, expired, joined, auth, open, gate, up, pass, prior, lease, sending,
                     delivered>>
  BY DEF BeginSend, CanBegin
<1>2. /\ faults' \in Nat
      /\ \E to \in {"claimed", "dropped", "failing", "abort"} :
            Goto(d, to) /\ (to = "claimed" => pc[d] = "begin")
  BY <1>1 DEF BeginSend, Fault
<1>3. PICK to \in {"claimed", "dropped", "failing", "abort"} :
         Goto(d, to) /\ (to = "claimed" => pc[d] = "begin")
  BY <1>2
<1>4. holder = d /\ env.st = "CLAIMED" /\ env.att + 1 \in Nat /\ delivered = 0
  BY <1>1 DEF Holds, EnvTyped, DigestInv, EnvOk, RequeuedIsUnsent
<1>5. /\ EnvTyped' /\ ReadIsFailed' /\ EventsFollow' /\ RequeuedIsUnsent'
      /\ env'.st = "SENDING" /\ env'.members = env.members
  BY <1>1, <1>4, ProjectWrites
<1>6. to \in PCs /\ to \in Owning
  BY DEF PCs, Owning
<1>7. /\ pc' \in [Dispatchers -> PCs] /\ pc'[d] = to
      /\ \A e \in Dispatchers \ {d} : pc'[e] = pc[e]
  BY <1>3, <1>6, GotoStep
<1>8. TaskTyped' /\ \A e \in Dispatchers \ {d} : RowSame(e)
  BY <1>1, <1>7 DEF TaskTyped, RowSame, pass, sending
<1>9. RoundsBound(d)' /\ LeaseIsOpen(d)' /\ OwnsOrLost(d)' /\ ProofStands(d)'
  BY <1>1, <1>4, <1>5, <1>7 DEF RoundsBound, LeaseIsOpen, OwnsOrLost, ProofStands, Holds
<1>10. PassIsCurrent(d)'
  BY <1>1, <1>3, <1>5, <1>7 DEF PassIsCurrent, Holds, pass
<1>11. KnowsDelivery(d)'
  BY <1>1, <1>4, <1>7 DEF KnowsDelivery
<1>12. TaskOk(d)' /\ pc'[d] # "inflight"
  BY <1>7, <1>9, <1>10, <1>11 DEF TaskOk
<1> QED BY <1>1, <1>2, <1>4, <1>5, <1>8, <1>12, HolderStep

\* complete_envelope_send, of a receipt or of an attempt that did not leave.
LEMMA CompleteEnds ==
  ASSUME DigestInv, NEW d \in Dispatchers, pc[d] \in {"receipt", "failing"},
         NEW st \in {"SENT", "FAILED", "UNKNOWN"}, Complete(d, st), End(d, "idle"),
         Holds(d, "SENDING") => (st = "FAILED" => delivered = 0) /\ (st = "SENT" => delivered = 1),
         UNCHANGED <<expired, joined, auth, open, up, faults, delivered>>
  PROVE  DigestInv'
<1> USE DispatcherFacts
<1>1. CASE ~Holds(d, "SENDING")
  <2>1. UNCHANGED <<env, read, evst, holder>>
    BY <1>1 DEF Complete
  <2> QED BY <2>1, QuietEnd DEF table
<1>2. CASE Holds(d, "SENDING")
  <2>1. PICK r \in RetryPolicy : Write(st, env.members, env.att, st = "FAILED" /\ r)
    BY <1>2 DEF Complete
  <2>2. Project(st) /\ holder' = Nobody
    BY <1>2 DEF Complete
  <2>3. PICK b \in BOOLEAN : b = (st = "FAILED" /\ r)
    OBVIOUS
  <2>4. env.att \in Nat /\ (b => st = "FAILED")
    BY <2>3 DEF EnvTyped
  <2>5. Write(st, env.members, env.att, b)
    BY <2>1, <2>3
  <2>6. EnvTyped' /\ ReadIsFailed' /\ EventsFollow' /\ RequeuedIsUnsent'
    BY <1>2, <2>2, <2>4, <2>5, ProjectWrites
  <2> QED BY <1>2, <2>2, <2>6, HolderEnds
<1> QED BY <1>1, <1>2

LEMMA CommitReceiptKeeps ==
  ASSUME DigestInv, NEW d \in Dispatchers, CommitReceipt(d)
  PROVE  DigestInv'
<1> USE DispatcherFacts
<1>1. /\ pc[d] = "receipt" /\ Complete(d, StateOf(receipt[d])) /\ End(d, "idle")
      /\ UNCHANGED <<expired, joined, auth, open, up, faults, delivered>>
  BY DEF CommitReceipt
<1>2. PICK st \in {"SENT", "FAILED", "UNKNOWN"} :
         /\ st = StateOf(receipt[d])
         /\ st = "SENT" => receipt[d] = "ACCEPTED"
         /\ st = "FAILED" => receipt[d] = "FAILED"
  BY DEF StateOf, MessageStatus
<1>3. Holds(d, "SENDING") => (st = "FAILED" => delivered = 0) /\ (st = "SENT" => delivered = 1)
  BY <1>1, <1>2 DEF KnowsDelivery
<1> QED BY <1>1, <1>2, <1>3, CompleteEnds

LEMMA FailUnsentKeeps ==
  ASSUME DigestInv, NEW d \in Dispatchers, FailUnsent(d)
  PROVE  DigestInv'
<1> USE DispatcherFacts
<1>1. /\ pc[d] = "failing" /\ Complete(d, "FAILED") /\ End(d, "idle")
      /\ UNCHANGED <<expired, joined, auth, open, up, faults, delivered>>
  BY DEF FailUnsent
<1>2. Holds(d, "SENDING") => delivered = 0
  BY <1>1 DEF KnowsDelivery, Owning
<1> QED BY <1>1, <1>2, CompleteEnds

\* abort_envelope_send by a dispatcher whose claim still stands.
LEMMA AbortWrites ==
  ASSUME DigestInv, NEW d \in Dispatchers, pc[d] \in {"abort", "dropped"}, AbortSend(d),
         Holds(d, "SENDING"), UNCHANGED <<expired, joined, delivered>>
  PROVE  /\ EnvTyped' /\ ReadIsFailed' /\ EventsFollow' /\ RequeuedIsUnsent'
         /\ holder' \in {d, Nobody} /\ env'.st = "READY"
<1> USE DispatcherFacts
<1>1. /\ Write("READY", env.members, env.att, FALSE) /\ Project("FAILED")
      /\ holder' = Nobody
  BY DEF AbortSend
<1>2. delivered = 0 /\ env.att \in Nat
  BY DEF KnowsDelivery, Owning, EnvTyped
<1> QED BY <1>1, <1>2, ProjectWrites

LEMMA AbortEnds ==
  ASSUME DigestInv, NEW d \in Dispatchers, pc[d] \in {"abort", "dropped"}, AbortSend(d),
         End(d, "idle"), UNCHANGED <<expired, joined, auth, open, up, faults, delivered>>
  PROVE  DigestInv'
<1> USE DispatcherFacts
<1>1. CASE ~Holds(d, "SENDING")
  <2>1. UNCHANGED <<env, read, evst, holder>>
    BY <1>1 DEF AbortSend
  <2> QED BY <2>1, QuietEnd DEF table
<1>2. CASE Holds(d, "SENDING")
  <2>1. /\ EnvTyped' /\ ReadIsFailed' /\ EventsFollow' /\ RequeuedIsUnsent'
        /\ holder' \in {d, Nobody}
    BY <1>2, AbortWrites
  <2> QED BY <1>2, <2>1, HolderEnds
<1> QED BY <1>1, <1>2

LEMMA AbortKeeps ==
  ASSUME DigestInv, NEW d \in Dispatchers, Abort(d)
  PROVE  DigestInv'
BY AbortEnds DEF Abort

LEMMA RerenderKeeps ==
  ASSUME DigestInv, NEW d \in Dispatchers, Rerender(d)
  PROVE  DigestInv'
<1> USE DispatcherFacts
<1>1. /\ pc[d] = "dropped" /\ AbortSend(d)
      /\ UNCHANGED <<expired, joined, auth, open, up, faults, delivered>>
  BY DEF Rerender
<1>2. CASE ~(round[d] < Rebuilds)
  BY <1>1, <1>2, AbortEnds DEF Rerender
<1>3. CASE round[d] < Rebuilds
  <2>1. Goto(d, "claim") /\ LeaveGate(d) /\ UNCHANGED <<pass, prior, lease, sending>>
    BY <1>3 DEF Rerender
  <2>2. "claim" \in PCs /\ "claim" \notin Owning
    BY DEF PCs, BeforeSend, Owning
  <2>3. /\ pc' \in [Dispatchers -> PCs] /\ pc'[d] = "claim"
        /\ \A e \in Dispatchers \ {d} : pc'[e] = pc[e]
    BY <2>1, <2>2, GotoStep
  <2>4. TaskOk(d)'
    BY <1>1, <1>3, <2>1, <2>2, <2>3 DEF TaskOk, RoundsBound, LeaseIsOpen, OwnsOrLost,
          PassIsCurrent, ProofStands, KnowsDelivery, Owning, pass
  <2>5. gate' \in Dispatchers \cup {Nobody} /\ (gate' = gate \/ gate = d)
    BY <2>1 DEF LeaveGate
  <2>6. CASE ~Holds(d, "SENDING")
    <3>1. UNCHANGED <<env, read, evst, holder>>
      BY <1>1, <2>6 DEF AbortSend
    <3> QED BY <1>1, <2>1, <2>2, <2>4, <2>5, <3>1, QuietGoto DEF table
  <2>7. CASE Holds(d, "SENDING")
    <3>1. /\ EnvTyped' /\ ReadIsFailed' /\ EventsFollow' /\ RequeuedIsUnsent'
          /\ holder' \in {d, Nobody}
      BY <1>1, <2>7, AbortWrites
    <3>2. TaskTyped' /\ \A e \in Dispatchers \ {d} : RowSame(e)
      BY <2>1, <2>3 DEF TaskTyped, RowSame, pass, sending
    <3>3. pc'[d] # "inflight" /\ pc[d] \notin {"idle", "absent"} /\ faults' \in Nat
      BY <1>1, <2>3
    <3> QED BY <1>1, <2>4, <2>5, <2>7, <3>1, <3>2, <3>3, HolderStep
  <2> QED BY <2>6, <2>7
<1> QED BY <1>2, <1>3

\* Reading, reopening and claiming.

\* A step of d on an envelope that nobody holds, whatever it writes.
LEMMA FreeStep ==
  ASSUME DigestInv, NEW d \in Dispatchers,
         env.st \in {"NONE", "READY", "FAILED"},
         UNCHANGED <<joined, evst, auth, open, up, faults, gate, delivered>>, up,
         EnvTyped', ReadIsFailed', EventsFollow', RequeuedIsUnsent',
         \A e \in Dispatchers \ {d} : holder' # e \/ env'.st \notin {"CLAIMED", "SENDING"},
         TaskTyped', \A e \in Dispatchers \ {d} : RowSame(e), pc'[d] # "inflight", TaskOk(d)'
  PROVE  DigestInv'
<1>1. Typed'
  BY DEF DigestInv, Typed, WorldTyped
<1>2. ASSUME NEW e \in Dispatchers, e # d PROVE TaskOk(e)'
  <2>1. Spares(e)
    BY <1>2 DEF Spares
  <2> QED BY <1>2, <2>1, SparedIsOk DEF DigestInv, Typed
<1>3. \A e \in Dispatchers : TaskOk(e)'
  BY <1>2
<1>4. OneInFlight' /\ OneMessage' /\ DownIsIdle'
  BY DEF DigestInv, EnvOk, OneInFlight, OneMessage, DownIsIdle, RowSame
<1> QED BY <1>1, <1>3, <1>4 DEF DigestInv, EnvOk

\* A dispatcher that is about to reopen or to claim relies on its round alone.
LEMMA StartingIsOk ==
  ASSUME NEW d \in Dispatchers, pc'[d] \in {"reopen", "claim"},
         pc'[d] = "reopen" => round'[d] = 0, pc'[d] = "claim" => round'[d] < Rebuilds,
         lease'[d] => open'
  PROVE  TaskOk(d)'
<1>1. pc'[d] \notin Owning
  BY DEF Owning
<1>2. RoundsBound(d)' /\ LeaseIsOpen(d)' /\ OwnsOrLost(d)' /\ ProofStands(d)'
  BY <1>1 DEF RoundsBound, LeaseIsOpen, OwnsOrLost, ProofStands
<1>3. PassIsCurrent(d)' /\ KnowsDelivery(d)'
  BY <1>1 DEF PassIsCurrent, KnowsDelivery, Owning
<1> QED BY <1>2, <1>3 DEF TaskOk

LEMMA BeginKeeps ==
  ASSUME DigestInv, NEW d \in Dispatchers, Begin(d)
  PROVE  DigestInv'
<1> USE DispatcherFacts
<1>1. /\ up /\ pc[d] = "idle"
      /\ UNCHANGED <<env, holder, expired, joined, evst, world, pass, prior, lease, sending, delivered>>
  BY DEF Begin
<1>2. PICK to \in {"claim", "reopen"} : Goto(d, to)
  BY DEF Begin
<1>3. /\ env.st \in {"NONE", "READY", "FAILED"}
      /\ read' \subseteq Dispatchers
      /\ read' # {} => env.st = "FAILED"
  BY DEF Begin, EnvTyped, DigestInv, EnvOk, ReadIsFailed
<1>4. to \in PCs
  BY DEF PCs, BeforeSend
<1>5. /\ pc' \in [Dispatchers -> PCs] /\ pc'[d] = to
      /\ \A e \in Dispatchers \ {d} : pc'[e] = pc[e]
  BY <1>2, <1>4, GotoStep
<1>6. TaskTyped' /\ \A e \in Dispatchers \ {d} : RowSame(e)
  BY <1>1, <1>5 DEF TaskTyped, RowSame, pass, sending
<1>7. round[d] = 0 /\ 0 < Rebuilds
  BY <1>1, DigestConstants DEF RoundsBound
<1>8. TaskOk(d)'
  BY <1>1, <1>5, <1>7, StartingIsOk DEF LeaseIsOpen, pass, world
<1>9. EnvTyped' /\ ReadIsFailed' /\ EventsFollow' /\ RequeuedIsUnsent'
  BY <1>1, <1>3 DEF EnvTyped, ReadIsFailed, EventsFollow, RequeuedIsUnsent, DigestInv, EnvOk
<1>10. \A e \in Dispatchers \ {d} : holder' # e \/ env'.st \notin {"CLAIMED", "SENDING"}
  BY <1>1, <1>3
<1>11. pc'[d] # "inflight"
  BY <1>5
<1> QED BY <1>1, <1>3, <1>6, <1>8, <1>9, <1>10, <1>11, FreeStep DEF world

LEMMA ReopenKeeps ==
  ASSUME DigestInv, NEW d \in Dispatchers, Reopen(d)
  PROVE  DigestInv'
<1> USE DispatcherFacts
<1>1. pc[d] = "reopen" /\ UNCHANGED <<holder, expired, joined, evst, auth, open, up, faults, delivered>>
  BY DEF Reopen
<1>2. CASE End(d, "idle") /\ UNCHANGED <<env, read>>
  BY <1>1, <1>2, QuietEnd DEF table
<1>3. CASE /\ d \in read /\ Write("READY", env.members, env.att, FALSE) /\ Goto(d, "claim")
           /\ UNCHANGED <<pass, prior, lease, sending, gate>>
  <2>1. env.st = "FAILED" /\ env.members \subseteq Members /\ env.members # {} /\ env.att \in Nat
    BY <1>3 DEF DigestInv, EnvOk, ReadIsFailed, EnvTyped
  <2>2. "READY" \in EnvelopeStates /\ "claim" \in PCs
    BY DEF EnvelopeStates, PCs, BeforeSend
  <2>3. /\ env' \in [public: BOOLEAN, st: EnvelopeStates, members: SUBSET Members, att: Nat,
                     retry: BOOLEAN]
        /\ env'.st = "READY" /\ env'.members = env.members /\ env'.retry = FALSE
        /\ env'.public = env.public
        /\ read' = {}
    BY <1>3, <2>1, <2>2, WriteStep
  <2>4. EnvTyped'
    BY <1>1, <2>1, <2>3 DEF EnvTyped
  <2>5. ReadIsFailed' /\ RequeuedIsUnsent'
    BY <1>1, <2>1, <2>3 DEF ReadIsFailed, RequeuedIsUnsent, DigestInv, EnvOk
  <2>6. EventsFollow'
    BY <1>1, <2>1, <2>3 DEF EventsFollow, DigestInv, EnvOk
  <2>7. /\ pc' \in [Dispatchers -> PCs] /\ pc'[d] = "claim"
        /\ \A e \in Dispatchers \ {d} : pc'[e] = pc[e]
    BY <1>3, <2>2, GotoStep
  <2>8. TaskTyped' /\ \A e \in Dispatchers \ {d} : RowSame(e)
    BY <1>3, <2>7 DEF TaskTyped, RowSame, pass, sending
  <2>9. round[d] = 0 /\ 0 < Rebuilds
    BY <1>1, DigestConstants DEF RoundsBound
  <2>10. TaskOk(d)'
    BY <1>1, <1>3, <2>7, <2>9, StartingIsOk DEF LeaseIsOpen, pass
  <2>11. up /\ pc'[d] # "inflight"
    BY <1>1, <2>7, BusyIsUp
  <2>12. \A e \in Dispatchers \ {d} : holder' # e \/ env'.st \notin {"CLAIMED", "SENDING"}
    BY <2>3
  <2> QED BY <1>1, <1>3, <2>1, <2>4, <2>5, <2>6, <2>8, <2>10, <2>11, <2>12, FreeStep
<1> QED BY <1>2, <1>3 DEF Reopen

LEMMA ClaimKeeps ==
  ASSUME DigestInv, NEW d \in Dispatchers, Claim(d)
  PROVE  DigestInv'
<1> USE DispatcherFacts
<1>1. pc[d] = "claim" /\ UNCHANGED <<joined, evst, auth, open, up, faults, delivered>>
  BY DEF Claim
<1>2. CASE End(d, "idle") /\ UNCHANGED <<env, read, holder, expired>>
  BY <1>1, <1>2, QuietEnd DEF table
<1>3. CASE /\ env.st \in {"NONE", "READY"} /\ SomeIncluded(Sealed)
           /\ Write("CLAIMED", Sealed, env.att, FALSE)
           /\ holder' = d
           /\ expired' = expired \ {d}
           /\ Goto(d, "check")
           /\ StartPass(d, Sealed)
           /\ round' = [round EXCEPT ![d] = @ + 1]
           /\ prior' = [prior EXCEPT ![d] = {}]
           /\ UNCHANGED <<batch, lease, sending, gate>>
  <2>1. Sealed \subseteq Members /\ Sealed # {} /\ env.att \in Nat
    BY <1>3 DEF Sealed, SomeIncluded, EnvTyped
  <2>2. "CLAIMED" \in EnvelopeStates /\ "check" \in PCs /\ "check" \notin Owning
    BY DEF EnvelopeStates, PCs, BeforeSend, Owning
  <2>3. /\ env' \in [public: BOOLEAN, st: EnvelopeStates, members: SUBSET Members, att: Nat,
                     retry: BOOLEAN]
        /\ env'.st = "CLAIMED" /\ env'.members = Sealed /\ env'.retry = FALSE
        /\ env'.public = env.public
        /\ read' = {}
    BY <1>3, <2>1, <2>2, WriteStep
  <2>4. EnvTyped'
    BY <1>1, <1>3, <2>1, <2>3 DEF EnvTyped
  <2>5. ReadIsFailed' /\ RequeuedIsUnsent'
    BY <1>1, <1>3, <2>3 DEF ReadIsFailed, RequeuedIsUnsent, DigestInv, EnvOk
  <2>6. EventsFollow'
    <3>1. CASE env.st = "NONE"
      BY <1>1, <3>1, <2>3 DEF EventsFollow, DigestInv, EnvOk, Sealed
    <3>2. CASE env.st = "READY"
      BY <1>1, <3>2, <2>3 DEF EventsFollow, DigestInv, EnvOk, Sealed
    <3> QED BY <1>3, <3>1, <3>2
  <2>7. /\ pc' \in [Dispatchers -> PCs] /\ pc'[d] = "check"
        /\ \A e \in Dispatchers \ {d} : pc'[e] = pc[e]
    BY <1>3, <2>2, GotoStep
  <2>8. /\ todo' \in [Dispatchers -> SUBSET Members] /\ todo'[d] = Sealed
        /\ ok' \in [Dispatchers -> SUBSET Members] /\ ok'[d] = {}
        /\ \A e \in Dispatchers \ {d} : ok'[e] = ok[e] /\ todo'[e] = todo[e]
    BY <1>3, <2>1 DEF StartPass, TaskTyped
  <2>9. round' \in [Dispatchers -> 0..Rebuilds] /\ \A e \in Dispatchers \ {d} : round'[e] = round[e]
    <3>1. round[d] + 1 \in 0..Rebuilds
      BY <1>1, DigestConstants DEF RoundsBound
    <3> QED BY <1>3, <3>1 DEF TaskTyped
  <2>10. TaskTyped'
    BY <1>3, <2>7, <2>8, <2>9 DEF TaskTyped, sending
  <2>11. \A e \in Dispatchers \ {d} : RowSame(e)
    BY <1>3, <2>7, <2>8, <2>9 DEF RowSame, sending
  <2>12. TaskOk(d)'
    <3>1. PassIsCurrent(d)'
      BY <2>3, <2>7, <2>8 DEF PassIsCurrent, Holds
    <3>2. /\ RoundsBound(d)' /\ LeaseIsOpen(d)' /\ OwnsOrLost(d)' /\ ProofStands(d)'
          /\ KnowsDelivery(d)'
      BY <1>1, <1>3, <2>2, <2>3, <2>7 DEF RoundsBound, LeaseIsOpen, OwnsOrLost, ProofStands,
            KnowsDelivery, Holds
    <3> QED BY <3>1, <3>2 DEF TaskOk
  <2>13. up /\ pc'[d] # "inflight"
    BY <1>1, <2>7, BusyIsUp
  <2>14. \A e \in Dispatchers \ {d} : holder' # e \/ env'.st \notin {"CLAIMED", "SENDING"}
    BY <1>3
  <2> QED BY <1>1, <1>3, <2>4, <2>5, <2>6, <2>10, <2>11, <2>12, <2>13, <2>14, FreeStep
<1> QED BY <1>2, <1>3 DEF Claim

\* The Host answers: the one dispatcher in flight learns what it can.

LEMMA HostReturnsKeeps ==
  ASSUME DigestInv, NEW d \in Dispatchers, HostReturns(d)
  PROVE  DigestInv'
<1> USE DispatcherFacts
<1>1. /\ pc[d] = "inflight" /\ Goto(d, "receipt")
      /\ UNCHANGED <<table, expired, world, pass, prior, lease, stop>>
  BY DEF HostReturns
<1>2. PICK r \in MessageStatus, sent \in {0, 1} :
         /\ r = "ACCEPTED" => sent = 1
         /\ r = "FAILED" => sent = 0
         /\ receipt' = [receipt EXCEPT ![d] = r]
         /\ delivered' = delivered + sent
  BY DEF HostReturns
<1>3. delivered = 0
  BY <1>1 DEF KnowsDelivery
<1>4. Holds(d, "SENDING") \/ (d \in expired /\ env.st = "UNKNOWN")
  BY <1>1 DEF OwnsOrLost, Owning
<1>5. "receipt" \in PCs /\ "receipt" \in Owning
  BY DEF PCs, Owning
<1>6. /\ pc' \in [Dispatchers -> PCs] /\ pc'[d] = "receipt"
      /\ \A e \in Dispatchers \ {d} : pc'[e] = pc[e]
  BY <1>1, <1>5, GotoStep
<1>7. /\ receipt' \in [Dispatchers -> MessageStatus] /\ receipt'[d] = r
      /\ \A e \in Dispatchers \ {d} : receipt'[e] = receipt[e]
  BY <1>2 DEF TaskTyped
<1>8. TaskTyped' /\ \A e \in Dispatchers \ {d} : RowSame(e)
  BY <1>1, <1>6, <1>7 DEF TaskTyped, RowSame, pass
<1>9. Typed'
  BY <1>1, <1>2, <1>3, <1>8 DEF Typed, EnvTyped, WorldTyped, table, world
<1>10. TaskOk(d)'
  <2>1. KnowsDelivery(d)'
    BY <1>2, <1>3, <1>6, <1>7 DEF KnowsDelivery, Holds
  <2>2. OwnsOrLost(d)'
    BY <1>1, <1>4 DEF OwnsOrLost, Holds, table
  <2>3. RoundsBound(d)' /\ LeaseIsOpen(d)' /\ ProofStands(d)' /\ PassIsCurrent(d)'
    BY <1>1, <1>6 DEF RoundsBound, LeaseIsOpen, ProofStands, PassIsCurrent, world
  <2> QED BY <2>1, <2>2, <2>3 DEF TaskOk
<1>11. ASSUME NEW e \in Dispatchers, e # d PROVE TaskOk(e)'
  <2>1. pc[e] # "inflight"
    BY <1>1, <1>11 DEF DigestInv, EnvOk, OneInFlight
  <2>2. ~(holder' = e /\ env'.st = "SENDING")
    BY <1>1, <1>4, <1>11 DEF Holds, table
  <2>3. Spares(e)
    BY <1>1, <2>1, <2>2 DEF Spares, table, world
  <2>4. RowSame(e)
    BY <1>8, <1>11
  <2> QED BY <2>3, <2>4, SparedIsOk DEF DigestInv
<1>12. \A e \in Dispatchers : TaskOk(e)'
  BY <1>10, <1>11
<1>13. up = TRUE
  BY <1>1, BusyIsUp
<1>14. OneInFlight' /\ DownIsIdle'
  BY <1>1, <1>6, <1>13 DEF OneInFlight, DownIsIdle, DigestInv, EnvOk, world
<1>15. OneMessage'
  BY <1>2, <1>3 DEF OneMessage
<1>16. RequeuedIsUnsent'
  BY <1>1, <1>4 DEF RequeuedIsUnsent, Holds, table
<1>17. ReadIsFailed' /\ EventsFollow'
  BY <1>1 DEF ReadIsFailed, EventsFollow, DigestInv, EnvOk, table
<1> QED BY <1>9, <1>12, <1>14, <1>15, <1>16, <1>17 DEF DigestInv, EnvOk

\* Steps of nobody's dispatch: contributions, commands, clocks, recovery.

LEMMA WorldStep ==
  ASSUME DigestInv, Typed', UNCHANGED <<pc, pass, receipt, up, delivered>>,
         \A e \in Dispatchers : (lease'[e] => lease[e]) /\ Spares(e),
         ReadIsFailed', EventsFollow', RequeuedIsUnsent'
  PROVE  DigestInv'
<1>1. ASSUME NEW e \in Dispatchers PROVE TaskOk(e)'
  <2>1. RowSame(e)
    BY DEF RowSame, pass
  <2> QED BY <2>1, SparedIsOk DEF DigestInv, Typed
<1>2. OneInFlight' /\ OneMessage' /\ DownIsIdle'
  BY DEF DigestInv, EnvOk, OneInFlight, OneMessage, DownIsIdle
<1> QED BY <1>1, <1>2 DEF DigestInv, EnvOk

LEMMA ContributeKeeps ==
  ASSUME DigestInv, NEW m \in Members, Contribute(m)
  PROVE  DigestInv'
<1>1. /\ evst[m] = "NONE"
      /\ UNCHANGED <<env, holder, read, expired, world, pc, pass, prior, lease, sending, delivered>>
  BY DEF Contribute
<1>2. PICK st \in {"CANCELLED", "PENDING"} :
         /\ evst' = [evst EXCEPT ![m] = st]
         /\ joined' \subseteq joined \cup {m}
         /\ m \in joined' /\ env.public => st = "PENDING" /\ env.st = "NONE"
  <2>1. m \notin joined
    BY <1>1 DEF DigestInv, EnvOk, EventsFollow
  <2>2. CASE env.public /\ (env.st # "NONE" \/ Cardinality(joined) >= MemberLimit)
    BY <2>1, <2>2 DEF Contribute
  <2>3. CASE ~(env.public /\ (env.st # "NONE" \/ Cardinality(joined) >= MemberLimit))
    <3>1. /\ evst' = [evst EXCEPT ![m] = "PENDING"] /\ joined' = joined \cup {m}
          /\ env.public => env.st = "NONE"
      BY <2>3 DEF Contribute
    <3> QED BY <3>1
  <2> QED BY <2>2, <2>3
<1>3. /\ evst \in [Members -> EventStates] /\ st \in EventStates
      /\ joined \subseteq Members /\ env.members \subseteq Members
  BY DEF DigestInv, Typed, EnvTyped, EventStates
<1>4. /\ evst' \in [Members -> EventStates] /\ evst'[m] = st
      /\ \A n \in Members \ {m} : evst'[n] = evst[n]
  BY <1>2, <1>3
<1>5. Typed'
  <2>1. EnvTyped'
    BY <1>1, <1>2, <1>3, <1>4 DEF DigestInv, Typed, EnvTyped
  <2> QED BY <1>1, <2>1 DEF DigestInv, Typed, WorldTyped, TaskTyped, world, pass, sending
<1>6. m \notin env.members
  BY <1>1 DEF DigestInv, EnvOk, EventsFollow
<1>7. EventsFollow'
  <2>1. \A n \in joined' \cup env'.members : evst'[n] # "NONE"
    BY <1>1, <1>2, <1>3, <1>4 DEF DigestInv, EnvOk, EventsFollow
  <2>2. env'.public /\ env'.st = "NONE" => \A n \in joined' : evst'[n] = "PENDING"
    BY <1>1, <1>2, <1>3, <1>4 DEF DigestInv, EnvOk, EventsFollow
  <2>3. \A n \in env'.members : evst'[n] = evst[n]
    BY <1>1, <1>3, <1>4, <1>6
  <2> QED BY <1>1, <2>1, <2>2, <2>3 DEF DigestInv, EnvOk, EventsFollow
<1>8. ReadIsFailed' /\ RequeuedIsUnsent'
  BY <1>1 DEF DigestInv, EnvOk, ReadIsFailed, RequeuedIsUnsent
<1>9. \A e \in Dispatchers : (lease'[e] => lease[e]) /\ Spares(e)
  BY <1>1 DEF Spares, world
<1> QED BY <1>1, <1>5, <1>7, <1>8, <1>9, WorldStep DEF world, sending

\* The authority of one member changes, in the table or by the clock.
LEMMA AuthorityKeeps ==
  ASSUME DigestInv, NEW m \in Members, NEW a \in Authorities, auth' = [auth EXCEPT ![m] = a],
         gate = Nobody \/ (auth[m] = "live" /\ a = "expired") \/ auth[m] \notin {"live", "expired"},
         UNCHANGED <<table, expired, open, gate, up, faults, pc, pass, prior, lease, sending,
                     delivered>>
  PROVE  DigestInv'
<1>1. auth \in [Members -> Authorities]
  BY DEF DigestInv, Typed, WorldTyped
<1>2. auth' \in [Members -> Authorities] /\ auth'[m] = a /\ \A n \in Members \ {m} : auth'[n] = auth[n]
  BY <1>1
<1>3. Typed'
  BY <1>2 DEF DigestInv, Typed, EnvTyped, WorldTyped, TaskTyped, table, pass, sending
<1>4. ReadIsFailed' /\ EventsFollow' /\ RequeuedIsUnsent'
  BY DEF DigestInv, EnvOk, ReadIsFailed, EventsFollow, RequeuedIsUnsent, table
<1>5. ASSUME NEW e \in Dispatchers PROVE (lease'[e] => lease[e]) /\ Spares(e)
  <2>1. pc[e] = "io" => gate = e /\ e # Nobody
    BY DigestConstants DEF DigestInv, TaskOk, ProofStands
  <2>2. pc[e] = "io" => \A n \in Members : auth[n] \in {"live", "expired"} => auth'[n] \in {"live", "expired"}
    BY <1>2, <2>1
  <2> QED BY <2>2 DEF Spares, table
<1> QED BY <1>3, <1>4, <1>5, WorldStep DEF sending

LEMMA CancelSubscriptionKeeps ==
  ASSUME DigestInv, NEW m \in Members, CancelSubscription(m)
  PROVE  DigestInv'
<1>1. "cancelled" \in Authorities
  BY DEF Authorities
<1> QED BY <1>1, AuthorityKeeps DEF CancelSubscription

LEMMA MoveFenceKeeps ==
  ASSUME DigestInv, NEW m \in Members, MoveFence(m)
  PROVE  DigestInv'
<1>1. PICK a \in {"fenced", "cancelled"} : auth' = [auth EXCEPT ![m] = a]
  BY DEF MoveFence, DigestInv, Typed, WorldTyped
<1>2. a \in Authorities
  BY DEF Authorities
<1> QED BY <1>1, <1>2, AuthorityKeeps DEF MoveFence

LEMMA ExpireGrantKeeps ==
  ASSUME DigestInv, NEW m \in Members, ExpireGrant(m)
  PROVE  DigestInv'
<1>1. PICK a \in {"expired", "cancelled"} :
         auth' = [auth EXCEPT ![m] = a] /\ (auth[m] = "live" => a = "expired")
  BY DEF ExpireGrant, DigestInv, Typed, WorldTyped
<1>2. a \in Authorities /\ auth[m] \in {"live", "fenced"}
  BY DEF Authorities, ExpireGrant
<1>3. (auth[m] = "live" /\ a = "expired") \/ auth[m] \notin {"live", "expired"}
  BY <1>1, <1>2
<1> QED BY <1>1, <1>2, <1>3, AuthorityKeeps DEF ExpireGrant

LEMMA RevokeGrantKeeps ==
  ASSUME DigestInv, NEW m \in Members, RevokeGrant(m)
  PROVE  DigestInv'
<1>1. /\ gate = Nobody /\ ~env.public /\ auth' = [auth EXCEPT ![m] = "cancelled"]
      /\ UNCHANGED <<expired, evst, open, gate, up, faults, pc, pass, prior, lease, sending, delivered>>
      /\ joined' \subseteq joined
  BY DEF RevokeGrant
<1>2. EnvTyped /\ WorldTyped /\ TaskTyped
  BY DEF DigestInv, Typed
<1>3. auth' \in [Members -> Authorities]
  BY <1>1, <1>2 DEF WorldTyped, Authorities
<1>4. ASSUME NEW e \in Dispatchers PROVE pc[e] # "io"
  BY <1>1, DigestConstants DEF DigestInv, TaskOk, ProofStands
<1>5. CASE env.st \in {"READY", "CLAIMED", "FAILED"} /\ m \in env.members
  <2> DEFINE left == env.members \ {m}
             st == IF left = {} THEN "CANCELLED" ELSE IF env.st = "CLAIMED" THEN "READY" ELSE env.st
  <2>1. Write(st, left, env.att, env.retry /\ left # {}) /\ holder' = Nobody
    BY <1>5 DEF RevokeGrant
  <2>2. PICK b \in BOOLEAN : b = (env.retry /\ left # {})
    OBVIOUS
  <2>3. /\ left \in SUBSET Members /\ left \subseteq env.members
        /\ st \in {"CANCELLED", "READY", "FAILED"} /\ (st = "CANCELLED" <=> left = {})
        /\ b => st = "FAILED"
        /\ env.att \in Nat
    BY <1>2, <1>5, <2>2 DEF EnvTyped
  <2>4. st \in EnvelopeStates
    BY <2>3 DEF EnvelopeStates
  <2>5. Write(st, left, env.att, b)
    BY <2>1, <2>2
  <2> HIDE DEF left, st
  <2>6. /\ env' \in [public: BOOLEAN, st: EnvelopeStates, members: SUBSET Members, att: Nat,
                     retry: BOOLEAN]
        /\ env'.st = st /\ env'.members = left /\ env'.retry = b
        /\ env'.public = env.public
        /\ read' = {}
    BY <1>2, <2>3, <2>4, <2>5, WriteStep
  <2>7. EnvTyped'
    BY <1>1, <1>2, <2>1, <2>3, <2>6 DEF EnvTyped
  <2>8. Typed'
    BY <1>1, <1>2, <1>3, <2>7 DEF Typed, WorldTyped, TaskTyped, pass, sending
  <2>9. ReadIsFailed' /\ RequeuedIsUnsent'
    BY <1>1, <1>5, <2>3, <2>6 DEF ReadIsFailed, RequeuedIsUnsent, DigestInv, EnvOk
  <2>10. EventsFollow'
    BY <1>1, <2>3, <2>6 DEF EventsFollow, DigestInv, EnvOk
  <2>11. \A e \in Dispatchers : (lease'[e] => lease[e]) /\ Spares(e)
    BY <1>1, <1>4, <1>5, <2>1, <2>3, <2>6 DEF Spares
  <2> QED BY <1>1, <2>8, <2>9, <2>10, <2>11, WorldStep DEF sending
<1>6. CASE ~(env.st \in {"READY", "CLAIMED", "FAILED"} /\ m \in env.members)
  <2>1. UNCHANGED <<env, read, holder>>
    BY <1>6 DEF RevokeGrant
  <2>2. Typed'
    BY <1>1, <1>2, <1>3, <2>1 DEF Typed, EnvTyped, WorldTyped, TaskTyped, pass, sending
  <2>3. ReadIsFailed' /\ RequeuedIsUnsent' /\ EventsFollow'
    BY <1>1, <2>1 DEF ReadIsFailed, RequeuedIsUnsent, EventsFollow, DigestInv, EnvOk
  <2>4. \A e \in Dispatchers : (lease'[e] => lease[e]) /\ Spares(e)
    BY <1>1, <1>4, <2>1 DEF Spares
  <2> QED BY <1>1, <2>2, <2>3, <2>4, WorldStep DEF sending
<1> QED BY <1>5, <1>6

LEMMA ExpireClaimKeeps ==
  ASSUME DigestInv, NEW d \in Dispatchers, ExpireClaim(d)
  PROVE  DigestInv'
<1>1. /\ expired' = expired \cup {d}
      /\ UNCHANGED <<table, world, pc, pass, prior, lease, sending, delivered>>
  BY DEF ExpireClaim
<1>2. Typed'
  BY <1>1 DEF DigestInv, Typed, EnvTyped, WorldTyped, TaskTyped, table, world, pass, sending
<1>3. ReadIsFailed' /\ RequeuedIsUnsent' /\ EventsFollow'
  BY <1>1 DEF ReadIsFailed, RequeuedIsUnsent, EventsFollow, DigestInv, EnvOk, table
<1>4. \A e \in Dispatchers : (lease'[e] => lease[e]) /\ Spares(e)
  BY <1>1 DEF Spares, table, world
<1> QED BY <1>1, <1>2, <1>3, <1>4, WorldStep DEF sending, world

\* Recovery releases a claim that was not begun, and gives up one that was.
LEMMA ReleaseWrites ==
  ASSUME DigestInv, env.st \in {"CLAIMED", "SENDING"}, Write(Released, env.members, env.att, FALSE),
         holder' = Nobody, UNCHANGED <<expired, joined, delivered>>,
         evst' \in [Members -> EventStates],
         \A n \in Members : \/ evst'[n] = evst[n]
                            \/ evst[n] = "SENDING" /\ evst'[n] = "UNKNOWN"
  PROVE  /\ EnvTyped' /\ ReadIsFailed' /\ EventsFollow' /\ RequeuedIsUnsent'
         /\ env.st = "SENDING" => env'.st = "UNKNOWN"
         /\ env'.st \notin {"CLAIMED", "SENDING"}
<1>1. /\ EnvTyped /\ Released \in EnvelopeStates /\ env.members \in SUBSET Members /\ env.att \in Nat
      /\ env.members # {}
  BY DEF DigestInv, Typed, EnvTyped, Released, EnvelopeStates
<1>2. /\ Released \in {"READY", "UNKNOWN"} /\ (Released = "READY" => env.st = "CLAIMED")
      /\ (Released = "UNKNOWN" => env.st = "SENDING")
  BY DEF Released
<1>3. /\ env' \in [public: BOOLEAN, st: EnvelopeStates, members: SUBSET Members, att: Nat,
                   retry: BOOLEAN]
      /\ env'.st = Released /\ env'.members = env.members /\ env'.retry = FALSE
      /\ env'.public = env.public
      /\ read' = {}
  BY <1>1, WriteStep
<1>4. EnvTyped'
  BY <1>1, <1>2, <1>3 DEF EnvTyped
<1>5. ReadIsFailed' /\ RequeuedIsUnsent'
  BY <1>2, <1>3 DEF ReadIsFailed, RequeuedIsUnsent, DigestInv, EnvOk
<1>6. EventsFollow'
  <2>1. \A n \in joined' \cup env'.members : evst'[n] # "NONE"
    BY <1>1, <1>3 DEF EventsFollow, DigestInv, EnvOk, EnvTyped
  <2>2. CASE env.st = "CLAIMED"
    BY <1>1, <1>2, <1>3, <2>1, <2>2 DEF EventsFollow, DigestInv, EnvOk
  <2>3. CASE env.st = "SENDING"
    BY <1>1, <1>2, <1>3, <2>1, <2>3 DEF EventsFollow, DigestInv, EnvOk
  <2> QED BY <2>2, <2>3
<1> QED BY <1>2, <1>3, <1>4, <1>5, <1>6

LEMMA RecoverExpiredKeeps ==
  ASSUME DigestInv, RecoverExpired
  PROVE  DigestInv'
<1>1. /\ holder \in expired /\ env.st \in {"CLAIMED", "SENDING"} /\ holder' = Nobody
      /\ Write(Released, env.members, env.att, FALSE)
      /\ UNCHANGED <<expired, joined, evst, world, pc, pass, prior, lease, sending, delivered>>
  BY DEF RecoverExpired
<1>2. evst \in [Members -> EventStates]
  BY DEF DigestInv, Typed, EnvTyped
<1>3. /\ EnvTyped' /\ ReadIsFailed' /\ EventsFollow' /\ RequeuedIsUnsent'
      /\ env.st = "SENDING" => env'.st = "UNKNOWN"
      /\ env'.st \notin {"CLAIMED", "SENDING"}
  BY <1>1, <1>2, ReleaseWrites
<1>4. Typed'
  BY <1>1, <1>3 DEF DigestInv, Typed, WorldTyped, TaskTyped, world, pass, sending
<1>5. \A e \in Dispatchers : (lease'[e] => lease[e]) /\ Spares(e)
  BY <1>1, <1>3 DEF Spares, world
<1> QED BY <1>1, <1>3, <1>4, <1>5, WorldStep DEF sending, world

LEMMA CloseModuleKeeps ==
  ASSUME DigestInv, CloseModule
  PROVE  DigestInv'
<1>1. /\ lease' = [d \in Dispatchers |-> FALSE] /\ prior' = [d \in Dispatchers |-> {}]
      /\ open' = FALSE
      /\ UNCHANGED <<table, expired, auth, gate, up, faults, pc, pass, sending, delivered>>
  BY DEF CloseModule
<1>2. Typed'
  BY <1>1 DEF DigestInv, Typed, EnvTyped, WorldTyped, TaskTyped, table, pass, sending
<1>3. ReadIsFailed' /\ RequeuedIsUnsent' /\ EventsFollow'
  BY <1>1 DEF ReadIsFailed, RequeuedIsUnsent, EventsFollow, DigestInv, EnvOk, table
<1>4. \A e \in Dispatchers : ~lease'[e] /\ Spares(e)
  BY <1>1 DEF Spares, table
<1> QED BY <1>1, <1>2, <1>3, <1>4, WorldStep DEF sending

LEMMA OpenModuleKeeps ==
  ASSUME DigestInv, OpenModule
  PROVE  DigestInv'
<1>1. /\ open' = TRUE
      /\ UNCHANGED <<table, expired, auth, gate, up, faults, pc, pass, prior, lease, sending, delivered>>
  BY DEF OpenModule
<1>2. Typed'
  BY <1>1 DEF DigestInv, Typed, EnvTyped, WorldTyped, TaskTyped, table, pass, sending
<1>3. ReadIsFailed' /\ RequeuedIsUnsent' /\ EventsFollow'
  BY <1>1 DEF ReadIsFailed, RequeuedIsUnsent, EventsFollow, DigestInv, EnvOk, table
<1>4. \A e \in Dispatchers : (lease'[e] => lease[e]) /\ Spares(e)
  BY <1>1 DEF Spares, table
<1> QED BY <1>1, <1>2, <1>3, <1>4, WorldStep DEF sending

\* Crash and restart.

LEMMA CrashKeeps ==
  ASSUME DigestInv, Crash
  PROVE  DigestInv'
<1>1. /\ up' = FALSE /\ gate' = Nobody /\ read' = {}
      /\ pc' = [d \in Dispatchers |-> IF pc[d] = "absent" THEN "absent" ELSE "idle"]
      /\ round' = [d \in Dispatchers |-> 0]
      /\ todo' = [d \in Dispatchers |-> {}]
      /\ ok' = [d \in Dispatchers |-> {}]
      /\ prior' = [d \in Dispatchers |-> {}]
      /\ batch' = [d \in Dispatchers |-> {}]
      /\ lease' = [d \in Dispatchers |-> FALSE]
      /\ stop' = [d \in Dispatchers |-> FALSE]
      /\ receipt' = [d \in Dispatchers |-> "UNKNOWN"]
      /\ UNCHANGED <<env, holder, expired, joined, evst, auth, open>>
  BY DEF Crash
<1>2. faults' \in Nat
  BY DEF Crash, Fault, DigestInv, Typed, WorldTyped
<1>3. /\ delivered' \in Nat
      /\ \/ delivered' = delivered
         \/ \E d \in Dispatchers : pc[d] = "inflight" /\ delivered' <= delivered + 1
  BY DEF Crash, DigestInv, Typed, WorldTyped
<1>4. OneMessage' /\ RequeuedIsUnsent'
  <2>1. CASE delivered' = delivered
    BY <1>1, <2>1 DEF OneMessage, RequeuedIsUnsent, DigestInv, EnvOk
  <2>2. CASE \E d \in Dispatchers : pc[d] = "inflight" /\ delivered' <= delivered + 1
    <3>1. PICK d \in Dispatchers : pc[d] = "inflight" /\ delivered' <= delivered + 1
      BY <2>2
    <3>2. delivered = 0 /\ env.st \in {"SENDING", "UNKNOWN"}
      BY <3>1, DispatcherFacts DEF KnowsDelivery, OwnsOrLost, Owning, Holds
    <3> QED BY <1>1, <1>3, <3>1, <3>2 DEF OneMessage, RequeuedIsUnsent
  <2> QED BY <1>3, <2>1, <2>2
<1>5. TaskTyped'
  <2>1. {"absent", "idle"} \subseteq PCs /\ 0 \in 0..Rebuilds /\ "UNKNOWN" \in MessageStatus
    BY DigestConstants DEF PCs, MessageStatus
  <2> QED BY <1>1, <2>1 DEF TaskTyped
<1>6. Typed'
  BY <1>1, <1>2, <1>3, <1>5 DEF DigestInv, Typed, EnvTyped, WorldTyped
<1>7. ASSUME NEW d \in Dispatchers PROVE TaskOk(d)'
  <2>1. pc'[d] \in {"idle", "raised", "absent"} /\ round'[d] = 0 /\ ~lease'[d]
    BY <1>1
  <2> QED BY <2>1, RestingIsOk
<1>8. OneInFlight' /\ DownIsIdle'
  BY <1>1 DEF OneInFlight, DownIsIdle
<1>9. ReadIsFailed' /\ EventsFollow'
  BY <1>1 DEF ReadIsFailed, EventsFollow, DigestInv, EnvOk
<1> QED BY <1>4, <1>6, <1>7, <1>8, <1>9 DEF DigestInv, EnvOk

LEMMA RestartKeeps ==
  ASSUME DigestInv, Restart
  PROVE  DigestInv'
<1>1. /\ ~up /\ up' = TRUE
      /\ evst' = [m \in Members |-> IF evst[m] = "SENDING" THEN "UNKNOWN" ELSE evst[m]]
      /\ UNCHANGED <<expired, joined, auth, open, gate, faults, pc, pass, prior, lease, sending,
                     delivered>>
  BY DEF Restart
<1>2. /\ evst' \in [Members -> EventStates]
      /\ \A n \in Members : \/ evst'[n] = evst[n]
                            \/ evst[n] = "SENDING" /\ evst'[n] = "UNKNOWN"
  BY <1>1 DEF DigestInv, Typed, EnvTyped, EventStates
<1>3. EnvTyped' /\ ReadIsFailed' /\ EventsFollow' /\ RequeuedIsUnsent'
  <2>1. CASE env.st \in {"CLAIMED", "SENDING"}
    BY <1>1, <1>2, <2>1, ReleaseWrites DEF Restart
  <2>2. CASE env.st \notin {"CLAIMED", "SENDING"}
    <3>1. UNCHANGED <<env, read, holder>>
      BY <2>2 DEF Restart
    <3>2. EnvTyped'
      BY <1>1, <1>2, <3>1 DEF DigestInv, Typed, EnvTyped
    <3>3. ReadIsFailed' /\ RequeuedIsUnsent'
      BY <1>1, <3>1 DEF ReadIsFailed, RequeuedIsUnsent, DigestInv, EnvOk
    <3>4. env.members \subseteq Members /\ joined \subseteq Members
      BY DEF DigestInv, Typed, EnvTyped
    <3>5. EventsFollow'
      BY <1>1, <1>2, <2>2, <3>1, <3>4 DEF EventsFollow, DigestInv, EnvOk
    <3> QED BY <3>2, <3>3, <3>5
  <2> QED BY <2>1, <2>2
<1>4. Typed'
  BY <1>1, <1>3 DEF DigestInv, Typed, WorldTyped, TaskTyped, pass, sending
<1>5. ASSUME NEW d \in Dispatchers PROVE TaskOk(d)'
  <2>1. pc[d] \in {"idle", "absent"}
    BY <1>1 DEF DigestInv, EnvOk, DownIsIdle
  <2>2. round[d] = 0 /\ (lease[d] => open)
    BY <2>1, DispatcherFacts DEF RoundsBound, LeaseIsOpen
  <2>3. pc'[d] \in {"idle", "raised", "absent"} /\ round'[d] = 0 /\ (lease'[d] => open')
    BY <1>1, <2>1, <2>2 DEF pass
  <2> QED BY <2>3, RestingIsOk
<1>6. OneInFlight' /\ DownIsIdle' /\ OneMessage'
  BY <1>1 DEF OneInFlight, DownIsIdle, OneMessage, DigestInv, EnvOk
<1> QED BY <1>3, <1>4, <1>5, <1>6 DEF DigestInv, EnvOk

\* The invariant holds.

LEMMA InitInv == Init => DigestInv
<1> SUFFICES ASSUME Init PROVE DigestInv
  OBVIOUS
<1>1. PICK g \in Digests :
         /\ env = [public |-> g.public, st |-> "NONE", members |-> {}, att |-> 0, retry |-> FALSE]
         /\ evst = [m \in Members |-> IF m \in g.who THEN "NONE" ELSE "CANCELLED"]
         /\ pc = [d \in Dispatchers |-> IF d \in g.by THEN "idle" ELSE "absent"]
  BY DEF Init
<1>2. /\ holder = Nobody /\ read = {} /\ expired = {} /\ joined = {}
      /\ auth = [m \in Members |-> "live"]
      /\ open = TRUE /\ gate = Nobody /\ up = TRUE /\ faults = 0 /\ delivered = 0
      /\ round = [d \in Dispatchers |-> 0]
      /\ todo = [d \in Dispatchers |-> {}]
      /\ ok = [d \in Dispatchers |-> {}]
      /\ prior = [d \in Dispatchers |-> {}]
      /\ batch = [d \in Dispatchers |-> {}]
      /\ lease = [d \in Dispatchers |-> FALSE]
      /\ stop = [d \in Dispatchers |-> FALSE]
      /\ receipt = [d \in Dispatchers |-> "UNKNOWN"]
  BY DEF Init
<1>3. g.public \in BOOLEAN
  BY DigestConstants
<1>4. /\ env \in [public: BOOLEAN, st: EnvelopeStates, members: SUBSET Members, att: Nat,
                  retry: BOOLEAN]
      /\ env.st = "NONE" /\ env.members = {} /\ env.retry = FALSE
  BY <1>1, <1>3 DEF EnvelopeStates
<1>5. EnvTyped
  BY <1>1, <1>2, <1>4 DEF EnvTyped, EventStates
<1>6. WorldTyped
  BY <1>2 DEF WorldTyped, Authorities
<1>7. TaskTyped
  <2>1. {"absent", "idle"} \subseteq PCs /\ 0 \in 0..Rebuilds /\ "UNKNOWN" \in MessageStatus
    BY DigestConstants DEF PCs, MessageStatus
  <2> QED BY <1>1, <1>2, <2>1 DEF TaskTyped
<1>8. EnvOk
  BY <1>1, <1>2, <1>4 DEF EnvOk, ReadIsFailed, OneInFlight, DownIsIdle, EventsFollow, OneMessage,
        RequeuedIsUnsent
<1>9. ASSUME NEW d \in Dispatchers PROVE TaskOk(d)
  <2>1. pc[d] \in {"idle", "absent"} /\ pc[d] \notin Owning
    BY <1>1 DEF Owning
  <2>2. round[d] = 0 /\ lease[d] = FALSE
    BY <1>2
  <2> QED
    BY <2>1, <2>2 DEF TaskOk, RoundsBound, LeaseIsOpen, OwnsOrLost, PassIsCurrent, ProofStands,
          KnowsDelivery
<1> QED BY <1>5, <1>6, <1>7, <1>8, <1>9 DEF DigestInv, Typed

LEMMA AdvanceKeeps ==
  ASSUME DigestInv, NEW d \in Dispatchers, Advance(d)
  PROVE  DigestInv'
<1>1. CASE \E m \in Members : CheckMember(d, m) \/ RecheckMember(d, m)
  BY <1>1, CheckKeeps, RecheckKeeps
<1>2. CASE Reopen(d) \/ Claim(d) \/ FirstReconcile(d) \/ Render(d) \/ SecondReconcile(d)
  BY <1>2, ReopenKeeps, ClaimKeeps, FirstReconcileKeeps, RenderKeeps, SecondReconcileKeeps
<1>3. CASE Approve(d) \/ FinalReconcile(d) \/ BeginSend(d) \/ BeginRefused(d) \/ Permit(d)
  BY <1>3, ApproveKeeps, FinalReconcileKeeps, BeginSendKeeps, RefusedKeeps, PermitKeeps
<1>4. CASE StartIo(d) \/ IoEnter(d) \/ HostReturns(d)
  BY <1>4, StartIoKeeps, IoEnterKeeps, HostReturnsKeeps
<1>5. CASE CommitReceipt(d) \/ FailUnsent(d) \/ Abort(d) \/ Rerender(d)
  BY <1>5, CommitReceiptKeeps, FailUnsentKeeps, AbortKeeps, RerenderKeeps
<1> QED BY <1>1, <1>2, <1>3, <1>4, <1>5 DEF Advance

LEMMA StutterKeeps ==
  ASSUME DigestInv, UNCHANGED vars
  PROVE  DigestInv'
<1>1. \A e \in Dispatchers : (lease'[e] => lease[e]) /\ Spares(e)
  BY DEF Spares, vars
<1>2. Typed'
  BY DEF DigestInv, Typed, EnvTyped, WorldTyped, TaskTyped, vars
<1>3. ReadIsFailed' /\ EventsFollow' /\ RequeuedIsUnsent'
  BY DEF DigestInv, EnvOk, ReadIsFailed, EventsFollow, RequeuedIsUnsent, vars
<1> QED BY <1>1, <1>2, <1>3, WorldStep DEF vars, pass

LEMMA NextKeeps == DigestInv /\ [Next]_vars => DigestInv'
<1> SUFFICES ASSUME DigestInv, [Next]_vars PROVE DigestInv'
  OBVIOUS
<1>1. ASSUME NEW m \in Members, Contribute(m) \/ Command(m) PROVE DigestInv'
  BY <1>1, ContributeKeeps, CancelSubscriptionKeeps, MoveFenceKeeps, RevokeGrantKeeps,
     ExpireGrantKeeps DEF Command
<1>2. ASSUME NEW d \in Dispatchers, Begin(d) \/ Advance(d) \/ Disturb(d) \/ ExpireClaim(d)
      PROVE  DigestInv'
  BY <1>2, BeginKeeps, AdvanceKeeps, CancelDispatchKeeps, CancelSenderKeeps, StopSendKeeps,
     SettleFailsKeeps, ExpireClaimKeeps DEF Disturb
<1>3. CASE RecoverExpired \/ CloseModule \/ OpenModule
  BY <1>3, RecoverExpiredKeeps, CloseModuleKeeps, OpenModuleKeeps
<1>4. CASE Crash \/ Restart
  BY <1>4, CrashKeeps, RestartKeeps
<1>5. CASE Rest \/ UNCHANGED vars
  BY <1>5, StutterKeeps DEF Rest
<1> QED BY <1>1, <1>2, <1>3, <1>4, <1>5 DEF Next

\* One digest is at most one message however dispatchers, expired claims,
\* retries and restarts of dispatch_digest interleave; whatever can still be
\* dispatched has not been delivered; the member events of an aggregate follow.
THEOREM DigestSafe == Spec => []DigestIsSafe
<1>1. DigestInv => DigestIsSafe
  <2> SUFFICES ASSUME DigestInv PROVE DigestIsSafe
    OBVIOUS
  <2>1. TypeOK
    BY DEF DigestInv, Typed, EnvTyped, WorldTyped, TaskTyped, TypeOK
  <2>2. MembersFollow
    BY DEF DigestInv, EnvOk, EventsFollow, MembersFollow
  <2> QED BY <2>1, <2>2 DEF DigestInv, EnvOk, DigestIsSafe
<1> QED BY <1>1, InitInv, NextKeeps, PTL DEF Spec

\* The two action properties.

\* Only IoEnter puts a dispatcher in flight.
LEMMA EntersCurrent ==
  ASSUME DigestInv, Next, NEW d \in Dispatchers, pc[d] # "inflight", pc'[d] = "inflight"
  PROVE  /\ open /\ Holds(d, "SENDING") /\ batch[d] = env.members
         /\ \A m \in batch[d] : auth[m] = "live"
<1> USE DispatcherFacts
<1>1. IoEnter(d)
  <2>1. ASSUME UNCHANGED pc PROVE FALSE
    BY <2>1
  <2>2. ASSUME NEW e \in Dispatchers, NEW to \in PCs \ {"inflight"}, Goto(e, to) PROVE FALSE
    BY <2>2 DEF Goto, TaskTyped
  <2>3. ASSUME NEW e \in Dispatchers, NEW to \in PCs \ {"inflight"}, End(e, to) PROVE FALSE
    BY <2>2, <2>3 DEF End
  <2>4. PCs = {"idle", "raised", "absent", "reopen", "claim", "check", "render", "recheck",
               "approve", "final", "begin", "drop", "failed", "claimed", "queued", "io",
               "inflight", "receipt", "abort", "dropped", "failing"}
    BY DEF PCs, BeforeSend, Owning
  <2>5. ASSUME NEW m \in Members, Contribute(m) \/ Command(m) PROVE FALSE
    BY <2>1, <2>5 DEF Contribute, Command, CancelSubscription, MoveFence, RevokeGrant, ExpireGrant
  <2>6. ASSUME RecoverExpired \/ CloseModule \/ OpenModule \/ Restart \/ Rest PROVE FALSE
    BY <2>1, <2>6 DEF RecoverExpired, CloseModule, OpenModule, Restart, Rest, vars
  <2>7. ASSUME Crash PROVE FALSE
    BY <2>7 DEF Crash
  <2>8. ASSUME NEW e \in Dispatchers, Begin(e) \/ Disturb(e) \/ ExpireClaim(e) PROVE FALSE
    <3>1. CASE Begin(e) \/ CancelSender(e)
      BY <2>2, <2>4, <3>1 DEF Begin, CancelSender
    <3>2. CASE StopSend(e) \/ ExpireClaim(e)
      BY <2>1, <3>2 DEF StopSend, ExpireClaim
    <3>3. CASE CancelDispatch(e) \/ SettleFails(e)
      BY <2>3, <2>4, <3>3 DEF CancelDispatch, SettleFails
    <3> QED BY <2>8, <3>1, <3>2, <3>3 DEF Disturb
  <2>9. ASSUME NEW e \in Dispatchers, Advance(e) PROVE IoEnter(d)
    <3>1. CASE \E m \in Members : CheckMember(e, m) \/ RecheckMember(e, m)
      BY <2>1, <2>3, <2>4, <3>1 DEF CheckMember, RecheckMember
    <3>2. CASE Reopen(e) \/ Claim(e) \/ Render(e) \/ Approve(e)
      BY <2>2, <2>3, <2>4, <3>2 DEF Reopen, Claim, Render, Approve
    <3>3. CASE FirstReconcile(e) \/ SecondReconcile(e) \/ FinalReconcile(e)
      BY <2>2, <2>3, <2>4, <3>3 DEF FirstReconcile, SecondReconcile, FinalReconcile
    <3>4. CASE BeginSend(e) \/ BeginRefused(e) \/ Permit(e)
      BY <2>2, <2>3, <2>4, <3>4 DEF BeginSend, BeginRefused, Permit
    <3>5. CASE StartIo(e) \/ HostReturns(e)
      BY <2>2, <2>4, <3>5 DEF StartIo, HostReturns
    <3>6. CASE CommitReceipt(e) \/ FailUnsent(e) \/ Abort(e) \/ Rerender(e)
      BY <2>2, <2>3, <2>4, <3>6 DEF CommitReceipt, FailUnsent, Abort, Rerender
    <3>7. CASE IoEnter(e)
      <4>1. CASE e = d
        BY <3>7, <4>1
      <4>2. CASE e # d
        <5>1. pc'[d] = pc[d]
          BY <3>7, <4>2 DEF IoEnter, Goto, TaskTyped
        <5> QED BY <5>1
      <4> QED BY <4>1, <4>2
    <3> QED BY <2>9, <3>1, <3>2, <3>3, <3>4, <3>5, <3>6, <3>7 DEF Advance
  <2> QED BY <2>5, <2>6, <2>7, <2>8, <2>9 DEF Next
<1>2. /\ pc[d] = "io" /\ lease[d] /\ d \notin expired
      /\ \A m \in batch[d] : auth[m] # "expired"
  BY <1>1 DEF IoEnter, Goto, TaskTyped
<1>3. Holds(d, "SENDING")
  BY <1>2 DEF OwnsOrLost, Owning
<1>4. batch[d] = env.members
  BY <1>2, <1>3 DEF PassIsCurrent
<1> QED BY <1>2, <1>3, <1>4 DEF ProofStands, LeaseIsOpen

\* A write of the envelope with the members it has, or fewer.
LEMMA WriteShrinks ==
  ASSUME EnvTyped, NEW st, NEW members, members \subseteq env.members, NEW att, NEW retry,
         Write(st, members, att, retry)
  PROVE  env'.members \subseteq env.members
BY DEF Write, EnvTyped

LEMMA StepShrinks ==
  ASSUME DigestInv, Next, env.st # "NONE"
  PROVE  env'.members \subseteq env.members
<1>0. EnvTyped
  BY DEF DigestInv, Typed
<1>1. CASE UNCHANGED env
  BY <1>1
<1>2. ASSUME NEW m \in Members, Contribute(m) \/ Command(m) PROVE env'.members \subseteq env.members
  <2>1. CASE RevokeGrant(m)
    BY <1>0, <1>1, <2>1, WriteShrinks DEF RevokeGrant
  <2> QED
    BY <1>1, <1>2, <2>1 DEF Contribute, Command, CancelSubscription, MoveFence, ExpireGrant, table
<1>3. CASE RecoverExpired \/ CloseModule \/ OpenModule \/ Crash \/ Restart \/ Rest
  BY <1>0, <1>1, <1>3, WriteShrinks DEF RecoverExpired, CloseModule, OpenModule, Crash, Restart,
     Rest, vars, table
<1>4. ASSUME NEW d \in Dispatchers, Begin(d) \/ Disturb(d) \/ ExpireClaim(d)
      PROVE  env'.members \subseteq env.members
  BY <1>1, <1>4 DEF Begin, Disturb, CancelDispatch, CancelSender, StopSend, SettleFails,
     ExpireClaim, table
<1>5. ASSUME NEW d \in Dispatchers, Advance(d) PROVE env'.members \subseteq env.members
  <2>1. CASE \E m \in Members : CheckMember(d, m) \/ RecheckMember(d, m)
    BY <1>1, <2>1 DEF CheckMember, RecheckMember, table
  <2>2. CASE Render(d) \/ Approve(d) \/ BeginRefused(d) \/ Permit(d) \/ StartIo(d) \/ IoEnter(d)
             \/ HostReturns(d)
    BY <1>1, <2>2 DEF Render, Approve, BeginRefused, Permit, StartIo, IoEnter, HostReturns, table
  <2>3. CASE Reopen(d) \/ BeginSend(d)
    BY <1>0, <1>1, <2>3, WriteShrinks DEF Reopen, BeginSend
  <2>4. CASE Claim(d)
    BY <1>0, <1>1, <2>4, WriteShrinks DEF Claim, Sealed
  <2>5. CASE CommitReceipt(d) \/ FailUnsent(d)
    BY <1>0, <1>1, <2>5, WriteShrinks DEF CommitReceipt, FailUnsent, Complete
  <2>6. CASE Abort(d) \/ Rerender(d)
    BY <1>0, <1>1, <2>6, WriteShrinks DEF Abort, Rerender, AbortSend
  <2>7. CASE FirstReconcile(d) \/ SecondReconcile(d) \/ FinalReconcile(d)
    <3>1. pc[d] \in {"check", "recheck", "final"} /\ UNCHANGED <<joined, evst, expired, delivered>>
      BY <2>7 DEF FirstReconcile, SecondReconcile, FinalReconcile
    <3>2. CASE Holds(d, "CLAIMED")
      <4>1. Reconcile(d)
        BY <2>7, <3>2 DEF FirstReconcile, SecondReconcile, FinalReconcile
      <4> QED BY <3>1, <3>2, <4>1, ReconcileWrites
    <3>3. CASE ~Holds(d, "CLAIMED")
      BY <1>1, <2>7, <3>3 DEF FirstReconcile, SecondReconcile, FinalReconcile
    <3> QED BY <3>2, <3>3
  <2> QED BY <1>5, <2>1, <2>2, <2>3, <2>4, <2>5, <2>6, <2>7 DEF Advance
<1> QED BY <1>2, <1>3, <1>4, <1>5 DEF Next

\* MessagePort.send is entered only by the claim's holder, with a payload of
\* exactly the envelope's members, all still authorized, and the module open;
\* and the first claim of an envelope seals its membership.
THEOREM DigestStepsCurrent == Spec => DigestStepsAreCurrent
<1>1. DigestInv /\ [Next]_vars =>
        [\A d \in Dispatchers :
           pc[d] # "inflight" /\ pc'[d] = "inflight" =>
               /\ open
               /\ Holds(d, "SENDING")
               /\ batch[d] = env.members
               /\ \A m \in batch[d] : auth[m] = "live"]_vars
  BY EntersCurrent
<1>2. DigestInv /\ [Next]_vars => [env.st # "NONE" => env'.members \subseteq env.members]_vars
  BY StepShrinks
<1> QED
  BY <1>1, <1>2, InitInv, NextKeeps, PTL DEF Spec, DigestStepsAreCurrent, EntersWithCurrentContent,
     MembershipSealed

=============================================================================
