----------------------- MODULE MCCredentials_proofs ------------------------
(***************************************************************************)
(* Proofs about credentials: a login, once superseded, makes no grant      *)
(* active; a request to a source carries a current credential and stays    *)
(* within its window's limit; and the vault keeps what is referred to and  *)
(* opens what is live, through every key change, failed commit and crash.  *)
(* The three models share no state, so each has an invariant of its own    *)
(* and MCSpec keeps the one of the component that runs.                    *)
(***************************************************************************)
EXTENDS MCCredentials, FiniteSetTheorems, SequenceTheorems, WellFoundedInduction, TLAPS

\* The login: the inductive invariant.

Outcomes == {"pending", "completed", "cancelled", "expired"}
GrantRows == [rev: Nat, st: {"none", "active", "expired", "revoked"}, secret: Nat]
LoginPcs == {"idle", "issued", "begin_in", "complete_in", "revoke_in", "verify", "plan",
             "commit", "revoking", "secret", "again", "granted"} \cup Entrances
LoginWork == [pc: LoginPcs, svc: LoginServices \cup {NoTask}, ref: Nat, gen: Nat,
              expected: Nat, secret: Nat, past: BOOLEAN]

\* What a task holds: a reference of the row as it is or was, an old one if the
\* grant was revoked since; nothing while it is idle, a service once it asked.
Known(w, rev) ==
    /\ w.ref <= rev
    /\ w.past => w.ref < rev
    /\ w.pc = "idle" => w.ref = 0 /\ ~w.past
    /\ w.pc \in Entrances => w.svc \in LoginServices

LoginRows ==
    /\ sessions \in Seq(Outcomes)
    /\ grantRow \in GrantRows
    /\ grantRow.st = "none" => grantRow.rev = 0
    /\ voided \subseteq DOMAIN sessions
    /\ \A g \in voided : sessions[g] # "pending"

LoginTasksKnow ==
    /\ account \in [LoginTasks -> LoginWork]
    /\ \A t \in LoginTasks : Known(account[t], grantRow.rev)

Remembers == memory \in [LoginServices -> [gen: Nat, cur: Nat]]

LoginInv == LoginRows /\ LoginTasksKnow /\ Remembers

\* A login session keeps its place, and one that is settled stays settled.
Settles == DOMAIN sessions \subseteq DOMAIN sessions' /\ \A g \in DOMAIN sessions : sessions[g] # "pending" => sessions'[g] # "pending"

\* The row's revision never goes back.
Moves == grantRow'.rev >= grantRow.rev

\* One task goes on with work that fits the row.
LEMMA TaskGoesOn ==
    ASSUME LoginTasksKnow, GrantRows # {}, grantRow \in GrantRows, grantRow' \in GrantRows, Moves,
           NEW t \in LoginTasks, NEW w \in LoginWork,
           account' = [account EXCEPT ![t] = w],
           Known(w, grantRow'.rev),
           w.pc = "granted" => ~account[t].past
    PROVE  LoginTasksKnow' /\ RevokedStaysOut
<1>1. account' \in [LoginTasks -> LoginWork]
  BY DEF LoginTasksKnow
<1>2. \A u \in LoginTasks : account'[u] = IF u = t THEN w ELSE account[u]
  BY DEF LoginTasksKnow
<1>3. \A u \in LoginTasks : Known(account'[u], grantRow'.rev)
  <2> SUFFICES ASSUME NEW u \in LoginTasks, u # t
               PROVE  Known(account[u], grantRow'.rev)
    BY <1>2
  <2>1. account[u] \in LoginWork /\ Known(account[u], grantRow.rev)
    BY DEF LoginTasksKnow
  <2>2. grantRow.rev \in Nat /\ grantRow'.rev \in Nat
    BY DEF GrantRows
  <2>3. account[u].ref \in Nat
    BY <2>1 DEF LoginWork
  <2> QED BY <2>1, <2>2, <2>3 DEF Known, Moves
<1>4. RevokedStaysOut
  BY <1>2 DEF RevokedStaysOut
<1> QED BY <1>1, <1>3, <1>4 DEF LoginTasksKnow

\* Ending, and going on at another place with the same reference.
LEMMA TaskEnds ==
    ASSUME LoginTasksKnow, grantRow \in GrantRows, grantRow' \in GrantRows, Moves,
           NEW t \in LoginTasks, Ends(t)
    PROVE  LoginTasksKnow' /\ RevokedStaysOut
<1>1. NoWork \in LoginWork /\ NoWork.pc # "granted"
  BY DEF NoWork, LoginWork, LoginPcs
<1>2. Known(NoWork, grantRow'.rev)
  BY DEF Known, NoWork, GrantRows, Entrances
<1> QED BY <1>1, <1>2, TaskGoesOn DEF Ends

LEMMA TaskKeepsReference ==
    ASSUME LoginTasksKnow, grantRow \in GrantRows, grantRow' \in GrantRows, Moves,
           NEW t \in LoginTasks, NEW w \in LoginWork,
           account' = [account EXCEPT ![t] = w],
           w.ref = account[t].ref, w.past = account[t].past, w.pc # "idle",
           w.pc \in Entrances => w.svc \in LoginServices,
           w.pc = "granted" => ~account[t].past
    PROVE  LoginTasksKnow' /\ RevokedStaysOut
<1>1. account[t] \in LoginWork /\ Known(account[t], grantRow.rev)
  BY DEF LoginTasksKnow
<1>2. account[t].ref \in Nat /\ grantRow.rev \in Nat /\ grantRow'.rev \in Nat
  BY <1>1 DEF LoginWork, GrantRows
<1>3. Known(w, grantRow'.rev)
  BY <1>1, <1>2 DEF Known, Moves
<1> QED BY <1>3, TaskGoesOn

LEMMA TaskProceeds ==
    ASSUME LoginTasksKnow, grantRow \in GrantRows, grantRow' \in GrantRows, Moves,
           NEW t \in LoginTasks, NEW to \in LoginPcs \ ({"idle", "granted"} \cup Entrances),
           account' = [account EXCEPT ![t].pc = to]
    PROVE  LoginTasksKnow' /\ RevokedStaysOut
<1> DEFINE w == [account[t] EXCEPT !.pc = to]
<1>1. account[t] \in LoginWork
  BY DEF LoginTasksKnow
<1>2. w \in LoginWork /\ w.ref = account[t].ref /\ w.past = account[t].past /\ w.pc = to
  BY <1>1 DEF LoginWork
<1>3. account' = [account EXCEPT ![t] = w]
  OBVIOUS
<1> HIDE DEF w
<1> QED BY <1>2, <1>3, TaskKeepsReference

\* Reading the row, late or in time.
LEMMA RowRead ==
    ASSUME grantRow \in GrantRows, grantRow.st = "none" => grantRow.rev = 0,
           NEW late \in BOOLEAN
    PROVE  /\ ReadGrant(late) \in GrantRows
           /\ ReadGrant(late).rev >= grantRow.rev
           /\ ReadGrant(late).st = "none" => ReadGrant(late).rev = 0
           /\ ReadGrant(late).st = "active" => ReadGrant(late).rev = grantRow.rev
<1>1. grantRow.rev \in Nat /\ grantRow.rev + 1 \in Nat
  BY DEF GrantRows
<1>2. CASE late /\ grantRow.st = "active" /\ grantRow.rev < MaxGrantRevision
  <2> DEFINE n == grantRow.rev + 1
  <2>1. ReadGrant(late) = [grantRow EXCEPT !.st = "expired", !.rev = n]
    BY <1>2 DEF ReadGrant
  <2>2. n \in Nat /\ n >= grantRow.rev
    BY <1>1
  <2> HIDE DEF n
  <2> QED BY <2>1, <2>2 DEF GrantRows
<1>3. CASE ~(late /\ grantRow.st = "active" /\ grantRow.rev < MaxGrantRevision)
  BY <1>1, <1>3 DEF ReadGrant
<1> QED BY <1>2, <1>3

\* A function over an initial interval is a sequence of its values.
LEMMA OfFunction ==
    ASSUME NEW S, NEW n \in Nat, NEW s \in [1..n -> S]
    PROVE  s \in Seq(S) /\ Len(s) = n
<1>1. s \in Seq(S)
  BY SeqDef
<1>2. DOMAIN s = 1..Len(s) /\ Len(s) \in Nat
  BY <1>1, LenProperties
<1>3. DOMAIN s = 1..n
  OBVIOUS
<1> QED BY <1>1, <1>2, <1>3

\* Reading a session, and closing what is pending, settle and never reopen.
LEMMA SessionRead ==
    ASSUME sessions \in Seq(Outcomes), NEW g, NEW late, sessions' = ReadSession(g, late)
    PROVE  sessions' \in Seq(Outcomes) /\ Settles
<1>1. CASE late /\ sessions[g] = "pending"
  <2>1. sessions' = [sessions EXCEPT ![g] = "expired"]
    BY <1>1 DEF ReadSession
  <2>2. sessions \in [1..Len(sessions) -> Outcomes] /\ Len(sessions) \in Nat
    BY LenProperties
  <2>3. sessions' \in [1..Len(sessions) -> Outcomes]
    BY <2>1, <2>2 DEF Outcomes
  <2>4. sessions' \in Seq(Outcomes) /\ DOMAIN sessions' = DOMAIN sessions
    BY <2>2, <2>3, OfFunction
  <2> QED BY <2>1, <2>4 DEF Settles
<1>2. CASE ~(late /\ sessions[g] = "pending")
  BY <1>2 DEF ReadSession, Settles
<1> QED BY <1>1, <1>2

LEMMA SessionsClosed ==
    ASSUME sessions \in Seq(Outcomes), NEW as \in Outcomes \ {"pending"}
    PROVE  /\ Closed(as) \in Seq(Outcomes) /\ Len(Closed(as)) = Len(sessions)
           /\ DOMAIN Closed(as) = DOMAIN sessions
           /\ \A g \in DOMAIN sessions : Closed(as)[g] # "pending"
<1>1. DOMAIN sessions = 1..Len(sessions) /\ Len(sessions) \in Nat
  OBVIOUS
<1>2. \A g \in 1..Len(sessions) : sessions[g] \in Outcomes
  OBVIOUS
<1>3. Closed(as) \in [1..Len(sessions) -> Outcomes]
  BY <1>1, <1>2 DEF Closed
<1>4. Closed(as) \in Seq(Outcomes) /\ Len(Closed(as)) = Len(sessions)
  BY <1>1, <1>3, OfFunction
<1> QED BY <1>1, <1>4 DEF Closed

LEMMA VoidedStay ==
    ASSUME LoginRows, Settles, sessions' \in Seq(Outcomes), voided' = voided
    PROVE  voided' \subseteq DOMAIN sessions' /\ \A g \in voided' : sessions'[g] # "pending"
  BY DEF LoginRows, Settles

\* A step that reads rows, or none, and settles sessions.
LEMMA RowsRead ==
    ASSUME LoginRows, voided' = voided,
           \/ sessions' = sessions
           \/ \E g \in Nat, late \in BOOLEAN : sessions' = ReadSession(g, late),
           \/ grantRow' = grantRow
           \/ \E late \in BOOLEAN : grantRow' = ReadGrant(late)
    PROVE  /\ LoginRows' /\ Moves /\ LoginIsCurrent
           /\ grantRow' \in GrantRows /\ grantRow \in GrantRows
<1>1. /\ grantRow' \in GrantRows /\ Moves /\ (grantRow'.st = "none" => grantRow'.rev = 0)
      /\ grantRow'.st = "active" => grantRow'.rev = grantRow.rev
  <2>1. grantRow.rev \in Nat
    BY DEF LoginRows, GrantRows
  <2>2. CASE grantRow' = grantRow
    BY <2>1, <2>2 DEF LoginRows, Moves
  <2>3. CASE \E late \in BOOLEAN : grantRow' = ReadGrant(late)
    <3>1. PICK late \in BOOLEAN : grantRow' = ReadGrant(late)
      BY <2>3
    <3> QED BY <3>1, RowRead DEF LoginRows, Moves
  <2> QED BY <2>2, <2>3
<1>2. sessions' \in Seq(Outcomes) /\ Settles
  <2>1. CASE sessions' = sessions
    BY <2>1 DEF LoginRows, Settles
  <2>2. CASE \E g \in Nat, late \in BOOLEAN : sessions' = ReadSession(g, late)
    BY <2>2, SessionRead DEF LoginRows
  <2> QED BY <2>1, <2>2
<1> QED BY <1>1, <1>2, VoidedStay DEF LoginRows, LoginIsCurrent

\* One step of the login.

LoginHolds == LoginInv' /\ LoginIsCurrent /\ RevokedStaysOut

\* A step that reads rows and changes one task.
LEMMA ReadAndEnd ==
    ASSUME LoginInv, voided' = voided, NEW t \in LoginTasks, Ends(t), Remembers',
           \/ sessions' = sessions
           \/ \E g \in Nat, late \in BOOLEAN : sessions' = ReadSession(g, late),
           \/ grantRow' = grantRow
           \/ \E late \in BOOLEAN : grantRow' = ReadGrant(late)
    PROVE  LoginHolds
<1>1. LoginRows' /\ Moves /\ LoginIsCurrent /\ grantRow' \in GrantRows /\ grantRow \in GrantRows
  BY RowsRead DEF LoginInv
<1>2. LoginTasksKnow' /\ RevokedStaysOut
  BY <1>1, TaskEnds DEF LoginInv
<1> QED BY <1>1, <1>2 DEF LoginInv, LoginHolds

LEMMA ReadAndProceed ==
    ASSUME LoginInv, voided' = voided, NEW t \in LoginTasks,
           NEW to \in LoginPcs \ ({"idle", "granted"} \cup Entrances),
           account' = [account EXCEPT ![t].pc = to], Remembers',
           \/ sessions' = sessions
           \/ \E g \in Nat, late \in BOOLEAN : sessions' = ReadSession(g, late),
           \/ grantRow' = grantRow
           \/ \E late \in BOOLEAN : grantRow' = ReadGrant(late)
    PROVE  LoginHolds
<1>1. LoginRows' /\ Moves /\ LoginIsCurrent /\ grantRow' \in GrantRows /\ grantRow \in GrantRows
  BY RowsRead DEF LoginInv
<1>2. LoginTasksKnow' /\ RevokedStaysOut
  BY <1>1, TaskProceeds DEF LoginInv
<1> QED BY <1>1, <1>2 DEF LoginInv, LoginHolds

LEMMA ReadAndKeep ==
    ASSUME LoginInv, voided' = voided, NEW t \in LoginTasks, NEW w \in LoginWork,
           account' = [account EXCEPT ![t] = w],
           w.ref = account[t].ref, w.past = account[t].past, w.pc # "idle", w.pc # "granted",
           w.pc \in Entrances => w.svc \in LoginServices, Remembers',
           \/ sessions' = sessions
           \/ \E g \in Nat, late \in BOOLEAN : sessions' = ReadSession(g, late),
           \/ grantRow' = grantRow
           \/ \E late \in BOOLEAN : grantRow' = ReadGrant(late)
    PROVE  LoginHolds
<1>1. LoginRows' /\ Moves /\ LoginIsCurrent /\ grantRow' \in GrantRows /\ grantRow \in GrantRows
  BY RowsRead DEF LoginInv
<1>2. LoginTasksKnow' /\ RevokedStaysOut
  BY <1>1, TaskKeepsReference DEF LoginInv
<1> QED BY <1>1, <1>2 DEF LoginInv, LoginHolds

\* Issued: the reference is the row's revision, and not of the past.
LEMMA StatusHolds ==
    ASSUME LoginInv, NEW t \in LoginTasks, NEW s \in LoginServices,
           NEW usable \in BOOLEAN, NEW late \in BOOLEAN,
           Status(t, s, usable, late)
    PROVE  LoginHolds
<1> DEFINE r == IF usable THEN grantRow.rev ELSE 0
<1> DEFINE w == [account[t] EXCEPT !.pc = "issued", !.ref = r]
<1>1. account[t] \in LoginWork /\ ~account[t].past
  BY DEF LoginInv, LoginTasksKnow, Known, Status
<1>2. grantRow.rev \in Nat /\ r \in Nat /\ r <= grantRow.rev
  BY DEF LoginInv, LoginRows, GrantRows
<1>3. account' = [account EXCEPT ![t] = w]
  BY DEF Status
<1>4. sessions' = sessions \/ \E g \in Nat, l \in BOOLEAN : sessions' = ReadSession(g, l)
  <2>1. memory[s].cur \in Nat
    BY DEF LoginInv, Remembers
  <2> QED BY <2>1 DEF Status
<1>5. grantRow' = grantRow /\ voided' = voided /\ Remembers'
  BY DEF Status, LoginInv, Remembers
<1> HIDE DEF r
<1>6. w \in LoginWork /\ w.pc = "issued" /\ w.ref = r /\ w.past = account[t].past
  BY <1>1, <1>2 DEF LoginWork, LoginPcs
<1> HIDE DEF w
<1>7. Known(w, grantRow'.rev)
  BY <1>1, <1>2, <1>5, <1>6 DEF Known, Entrances
<1>8. LoginRows' /\ Moves /\ LoginIsCurrent /\ grantRow' \in GrantRows /\ grantRow \in GrantRows
  BY <1>4, <1>5, RowsRead DEF LoginInv
<1>9. LoginTasksKnow' /\ RevokedStaysOut
  BY <1>3, <1>6, <1>7, <1>8, TaskGoesOn DEF LoginInv
<1> QED BY <1>5, <1>8, <1>9 DEF LoginInv, LoginHolds

LEMMA RequestHolds ==
    ASSUME LoginInv, NEW t \in LoginTasks, NEW act \in Entrances, NEW s \in LoginServices,
           NEW g \in 1..MaxGenerations, Request(t, act, s, g)
    PROVE  LoginHolds
<1> DEFINE h == IF act = "complete" THEN g ELSE 0
<1> DEFINE w == [account[t] EXCEPT !.pc = act, !.svc = s, !.gen = h]
<1>1. account[t] \in LoginWork
  BY DEF LoginInv, LoginTasksKnow
<1>2. h \in Nat
  OBVIOUS
<1>3. account' = [account EXCEPT ![t] = w] /\ UNCHANGED <<sessions, grantRow, voided>>
  BY DEF Request
<1> HIDE DEF h
<1>4. w \in LoginWork /\ w.pc = act /\ w.ref = account[t].ref /\ w.past = account[t].past /\ w.svc = s
  BY <1>1, <1>2 DEF LoginWork, LoginPcs
<1> HIDE DEF w
<1>5. Remembers'
  BY DEF LoginInv, Remembers, Request
<1> QED BY <1>3, <1>4, <1>5, ReadAndKeep DEF Entrances

LEMMA EnterHolds ==
    ASSUME LoginInv, NEW t \in LoginTasks, EnterGate(t)
    PROVE  LoginHolds
<1> DEFINE e == IF account[t].pc = "begin" THEN memory[account[t].svc].gen ELSE 0
<1> DEFINE i == Inside[account[t].pc]
<1> DEFINE w == [account[t] EXCEPT !.pc = i, !.expected = e]
<1>1. account[t] \in LoginWork
  BY DEF LoginInv, LoginTasksKnow
<1>2. e \in Nat
  BY DEF LoginInv, LoginTasksKnow, Known, EnterGate, Remembers
<1>3. i \in {"begin_in", "complete_in", "revoke_in"}
  BY DEF EnterGate, Entrances, Inside
<1>4. account' = [account EXCEPT ![t] = w] /\ UNCHANGED <<sessions, grantRow, voided>>
  BY DEF EnterGate
<1> HIDE DEF e, i
<1>5. w \in LoginWork /\ w.pc = i /\ w.ref = account[t].ref /\ w.past = account[t].past
  BY <1>1, <1>2, <1>3 DEF LoginWork, LoginPcs
<1> HIDE DEF w
<1>6. Remembers'
  BY DEF LoginInv, Remembers, EnterGate
<1> QED BY <1>3, <1>4, <1>5, <1>6, ReadAndKeep DEF Entrances

\* The generation the database has, after a conflict.
LEMMA ConflictHolds ==
    ASSUME LoginInv, NEW t \in LoginTasks, GenerationConflict(t)
    PROVE  LoginHolds
<1> DEFINE e == Len(sessions)
<1> DEFINE w == [account[t] EXCEPT !.expected = e]
<1>1. account[t] \in LoginWork /\ account[t].pc = "begin_in"
  BY DEF LoginInv, LoginTasksKnow, GenerationConflict
<1>2. e \in Nat
  BY LenProperties DEF LoginInv, LoginRows
<1>3. account' = [account EXCEPT ![t] = w] /\ UNCHANGED <<sessions, grantRow, voided>> /\ Remembers'
  BY DEF GenerationConflict, LoginInv, Remembers
<1> HIDE DEF e
<1>4. w \in LoginWork /\ w.pc = "begin_in" /\ w.ref = account[t].ref /\ w.past = account[t].past
  BY <1>1, <1>2 DEF LoginWork
<1> HIDE DEF w
<1> QED BY <1>3, <1>4, ReadAndKeep DEF Entrances

\* A new session settles the pending one, and is in no history yet.
LEMMA NextGenerationHolds ==
    ASSUME LoginInv, NEW t \in LoginTasks, NEW live \in BOOLEAN, NextGeneration(t, live)
    PROVE  LoginHolds
<1> DEFINE c == Closed("cancelled")
<1>1. c \in Seq(Outcomes) /\ Len(c) = Len(sessions) /\ DOMAIN c = DOMAIN sessions
      /\ \A g \in DOMAIN sessions : c[g] # "pending"
  BY SessionsClosed DEF LoginInv, LoginRows, Outcomes
<1>2. sessions' = Append(c, "pending")
  BY DEF NextGeneration
<1> HIDE DEF c
<1>3. sessions' \in Seq(Outcomes) /\ Settles
  <2>1. sessions' \in Seq(Outcomes) /\ Len(sessions') = Len(c) + 1 /\ Len(c) \in Nat
        /\ \A g \in 1..Len(c) : sessions'[g] = c[g]
    BY <1>1, <1>2 DEF Outcomes
  <2>2. DOMAIN c = 1..Len(c) /\ DOMAIN sessions' = 1..(Len(c) + 1)
    BY <1>1, <2>1, LenProperties
  <2> QED BY <1>1, <2>1, <2>2 DEF Settles
<1>4. grantRow' = grantRow /\ voided' = voided /\ Ends(t)
  BY DEF NextGeneration, Leaves
<1>5. LoginRows' /\ LoginIsCurrent
  BY <1>3, <1>4, VoidedStay DEF LoginInv, LoginRows, LoginIsCurrent
<1>6. grantRow \in GrantRows /\ grantRow' \in GrantRows /\ Moves
  BY <1>4 DEF LoginInv, LoginRows, GrantRows, Moves
<1>7. LoginTasksKnow' /\ RevokedStaysOut
  BY <1>4, <1>6, TaskEnds DEF LoginInv
<1>8. Remembers'
  <2>1. Len(sessions) + 1 \in Nat
    BY LenProperties DEF LoginInv, LoginRows
  <2> DEFINE n == Len(sessions) + 1
  <2>2. n \in Nat
    BY <2>1
  <2>3. memory' = memory \/ memory' = Remembered(t, n)
    BY DEF NextGeneration
  <2> HIDE DEF n
  <2> QED BY <2>2, <2>3 DEF LoginInv, Remembers, Remembered
<1> QED BY <1>5, <1>7, <1>8 DEF LoginInv, LoginHolds

LEMMA CompleteReadHolds ==
    ASSUME LoginInv, NEW t \in LoginTasks, NEW ok \in BOOLEAN, NEW late \in BOOLEAN,
           CompleteRead(t, ok, late)
    PROVE  LoginHolds
<1>1. UNCHANGED <<grantRow, voided>> /\ Remembers'
  BY DEF CompleteRead, LoginInv, Remembers
<1>2. account[t].gen \in Nat
  BY DEF LoginInv, LoginTasksKnow, LoginWork
<1>3. \E g \in Nat, l \in BOOLEAN : sessions' = ReadSession(g, l)
  BY <1>2 DEF CompleteRead
<1>4. Ends(t) \/ account' = [account EXCEPT ![t].pc = "verify"]
  BY DEF CompleteRead, Leaves, Proceeds
<1> QED BY <1>1, <1>3, <1>4, ReadAndEnd, ReadAndProceed DEF LoginPcs, Entrances

LEMMA PlanHolds ==
    ASSUME LoginInv, NEW t \in LoginTasks, NEW same \in BOOLEAN, NEW late \in BOOLEAN,
           PlanGrant(t, same, late)
    PROVE  LoginHolds
<1>1. UNCHANGED <<sessions, voided>> /\ Remembers'
  BY DEF PlanGrant, LoginInv, Remembers
<1>2. grantRow' = grantRow \/ \E l \in BOOLEAN : grantRow' = ReadGrant(l)
  BY DEF PlanGrant
<1>3. CASE Ends(t)
  BY <1>1, <1>2, <1>3, ReadAndEnd
<1>4. CASE ~Ends(t)
  <2> DEFINE e == IF grantRow'.st = "revoked" \/ (same /\ grantRow'.st = "active")
                  THEN grantRow'.rev ELSE 0
  <2> DEFINE w == [account[t] EXCEPT !.pc = "commit", !.expected = e]
  <2>1. account' = [account EXCEPT ![t] = w]
    BY <1>4 DEF PlanGrant, Leaves
  <2>2. e \in Nat
    <3>1. grantRow' \in GrantRows
      BY <1>1, <1>2, RowsRead DEF LoginInv
    <3> QED BY <3>1 DEF GrantRows
  <2>3. account[t] \in LoginWork
    BY DEF LoginInv, LoginTasksKnow
  <2> HIDE DEF e
  <2>4. w \in LoginWork /\ w.pc = "commit" /\ w.ref = account[t].ref /\ w.past = account[t].past
    BY <2>2, <2>3 DEF LoginWork, LoginPcs
  <2> HIDE DEF w
  <2> QED BY <1>1, <1>2, <2>1, <2>4, ReadAndKeep DEF Entrances
<1> QED BY <1>3, <1>4

\* The completion: the newest session, still pending, and so in no history.
LEMMA CommitHolds ==
    ASSUME LoginInv, NEW t \in LoginTasks, CompleteCommit(t)
    PROVE  LoginHolds
<1> DEFINE g == account[t].gen
<1> DEFINE e == account[t].expected
<1>1. g = Len(sessions) /\ sessions[g] = "pending" /\ GrantAccepts(e) /\ g \in Nat /\ e \in Nat
  BY DEF CompleteCommit, SessionCompletes, LoginInv, LoginTasksKnow, LoginWork
<1>2. sessions' = [sessions EXCEPT ![g] = "completed"]
      /\ grantRow' = [rev |-> e + 1, st |-> "active", secret |-> g]
      /\ memory' = AfterCompletion(t) /\ voided' = voided /\ Ends(t)
  BY DEF CompleteCommit, Leaves
<1>3. Remembers'
  BY <1>1, <1>2 DEF AfterCompletion, Remembered, LoginInv, Remembers
<1> HIDE DEF g, e
<1>4. grantRow \in GrantRows /\ grantRow.rev <= e /\ grantRow.rev \in Nat
  BY <1>1 DEF GrantAccepts, LoginInv, LoginRows, GrantRows
<1>5. grantRow' \in GrantRows /\ grantRow'.rev = e + 1 /\ grantRow'.st = "active" /\ grantRow'.secret = g
  BY <1>1, <1>2 DEF GrantRows
<1>6. Moves
  BY <1>1, <1>4, <1>5 DEF Moves
<1>7. g \notin voided
  BY <1>1 DEF LoginInv, LoginRows
<1>8. sessions' \in Seq(Outcomes) /\ Settles
  <2>1. sessions \in [1..Len(sessions) -> Outcomes] /\ Len(sessions) \in Nat
    BY LenProperties DEF LoginInv, LoginRows
  <2>2. sessions' \in [1..Len(sessions) -> Outcomes]
    BY <1>2, <2>1 DEF Outcomes
  <2>3. sessions' \in Seq(Outcomes) /\ DOMAIN sessions' = DOMAIN sessions
    BY <2>1, <2>2, OfFunction
  <2> QED BY <1>2, <2>3 DEF Settles
<1>9. LoginRows' /\ LoginIsCurrent
  BY <1>1, <1>2, <1>5, <1>7, <1>8, VoidedStay DEF LoginInv, LoginRows, LoginIsCurrent
<1>10. LoginTasksKnow' /\ RevokedStaysOut
  BY <1>2, <1>4, <1>5, <1>6, TaskEnds DEF LoginInv
<1> QED BY <1>3, <1>9, <1>10 DEF LoginInv, LoginHolds

LEMMA RevokeReadHolds ==
    ASSUME LoginInv, NEW t \in LoginTasks, NEW ok \in BOOLEAN, NEW late \in BOOLEAN,
           RevokeRead(t, ok, late)
    PROVE  LoginHolds
<1>1. UNCHANGED <<sessions, voided>> /\ Remembers' /\ grantRow' = ReadGrant(late)
  BY DEF RevokeRead, LoginInv, Remembers
<1>2. Ends(t) \/ account' = [account EXCEPT ![t].pc = "revoking"]
  BY DEF RevokeRead, Leaves, Proceeds
<1> QED BY <1>1, <1>2, ReadAndEnd, ReadAndProceed DEF LoginPcs, Entrances

\* The revocation: every reference issued so far is of the past, and every
\* session so far is settled.
LEMMA RevokeHolds ==
    ASSUME LoginInv, NEW t \in LoginTasks, RevokeCommit(t)
    PROVE  LoginHolds
<1> DEFINE n == grantRow.rev + 1
<1> DEFINE c == Closed("cancelled")
<1>1. grantRow' = [grantRow EXCEPT !.rev = n, !.st = "revoked"] /\ sessions' = c
      /\ voided' = voided \cup DOMAIN sessions
  BY DEF RevokeCommit, RevokeInUnit
<1>2. c \in Seq(Outcomes) /\ DOMAIN c = DOMAIN sessions
      /\ \A g \in DOMAIN sessions : c[g] # "pending"
  BY SessionsClosed DEF LoginInv, LoginRows, Outcomes
<1>3. grantRow \in GrantRows /\ grantRow.rev \in Nat /\ n \in Nat /\ grantRow.rev < n
  BY DEF LoginInv, LoginRows, GrantRows
<1>4. account' = [u \in LoginTasks |-> IF u = t THEN NoWork
                     ELSE [account[u] EXCEPT !.past = account[u].ref > 0]]
  BY DEF RevokeCommit
<1>5. Remembers'
  <2>1. memory' = [memory EXCEPT ![account[t].svc].cur = 0]
    BY DEF RevokeCommit
  <2>2. \A s \in LoginServices : [memory[s] EXCEPT !.cur = 0] \in [gen: Nat, cur: Nat]
    BY DEF LoginInv, Remembers
  <2> QED BY <2>1, <2>2 DEF LoginInv, Remembers
<1> HIDE DEF n, c
<1>6. grantRow' \in GrantRows /\ grantRow'.rev = n /\ grantRow'.st = "revoked"
  BY <1>1, <1>3 DEF GrantRows
<1>7. LoginRows' /\ LoginIsCurrent
  <2>1. voided' \subseteq DOMAIN sessions' /\ \A g \in voided' : sessions'[g] # "pending"
    BY <1>1, <1>2 DEF LoginInv, LoginRows
  <2> QED BY <1>1, <1>2, <1>6, <2>1 DEF LoginRows, LoginIsCurrent
<1>8. \A u \in LoginTasks : account'[u] \in LoginWork /\ Known(account'[u], n)
  <2> SUFFICES ASSUME NEW u \in LoginTasks
               PROVE  account'[u] \in LoginWork /\ Known(account'[u], n)
    OBVIOUS
  <2>1. CASE u = t
    <3>1. account'[u] = NoWork
      BY <1>4, <2>1
    <3>2. NoWork \in LoginWork
      BY DEF NoWork, LoginWork, LoginPcs
    <3>3. Known(NoWork, n)
      BY <1>3 DEF NoWork, Known, Entrances
    <3> QED BY <3>1, <3>2, <3>3
  <2>2. CASE u # t
    <3> DEFINE p == account[u].ref > 0
    <3> DEFINE w == [account[u] EXCEPT !.past = p]
    <3>1. account'[u] = w
      BY <1>4, <2>2
    <3>2. account[u] \in LoginWork /\ Known(account[u], grantRow.rev) /\ account[u].ref \in Nat
      BY DEF LoginInv, LoginTasksKnow, LoginWork
    <3>3. p \in BOOLEAN /\ (p <=> account[u].ref > 0)
      OBVIOUS
    <3> HIDE DEF p
    <3>4. w \in LoginWork /\ w.ref = account[u].ref /\ w.past = p /\ w.pc = account[u].pc
          /\ w.svc = account[u].svc
      BY <3>2, <3>3 DEF LoginWork
    <3> HIDE DEF w
    <3>5. w.ref <= n /\ w.ref < n
      BY <1>3, <3>2, <3>4 DEF Known
    <3>6. w.pc = "idle" => w.ref = 0 /\ ~w.past
      BY <3>2, <3>3, <3>4 DEF Known
    <3>7. Known(w, n)
      BY <3>2, <3>4, <3>5, <3>6 DEF Known
    <3> QED BY <3>1, <3>4, <3>7
  <2> QED BY <2>1, <2>2
<1>9. LoginTasksKnow'
  BY <1>4, <1>6, <1>8 DEF LoginTasksKnow
<1>10. RevokedStaysOut
  <2>1. \A u \in LoginTasks : account'[u].pc = "granted" => account[u].pc = "granted"
    <3> SUFFICES ASSUME NEW u \in LoginTasks, account'[u].pc = "granted"
                 PROVE  account[u].pc = "granted"
      OBVIOUS
    <3>1. u # t
      BY <1>4 DEF NoWork
    <3>2. account[u] \in LoginWork
      BY DEF LoginInv, LoginTasksKnow
    <3>3. account'[u].pc = account[u].pc
      BY <1>4, <3>1, <3>2 DEF LoginWork
    <3> QED BY <3>3
  <2> QED BY <2>1 DEF RevokedStaysOut
<1> QED BY <1>5, <1>7, <1>9, <1>10 DEF LoginInv, LoginHolds

\* The reads of a use: granted only with the revision the row has now.
LEMMA UseReadHolds ==
    ASSUME LoginInv, NEW t \in LoginTasks, NEW ok \in BOOLEAN, NEW late \in BOOLEAN,
           UseRead(t, ok, late)
    PROVE  LoginHolds
<1>1. UNCHANGED <<sessions, voided>> /\ Remembers' /\ grantRow' = ReadGrant(late)
  BY DEF UseRead, LoginInv, Remembers
<1>2. CASE Ends(t)
  BY <1>1, <1>2, ReadAndEnd
<1>3. CASE ~Ends(t)
  <2> DEFINE s == grantRow.secret
  <2> DEFINE w == [account[t] EXCEPT !.pc = "secret", !.secret = s]
  <2>1. account' = [account EXCEPT ![t] = w]
    BY <1>3 DEF UseRead
  <2>2. account[t] \in LoginWork /\ s \in Nat
    BY DEF LoginInv, LoginTasksKnow, LoginRows, GrantRows
  <2> HIDE DEF s
  <2>3. w \in LoginWork /\ w.pc = "secret" /\ w.ref = account[t].ref /\ w.past = account[t].past
    BY <2>2 DEF LoginWork, LoginPcs
  <2> HIDE DEF w
  <2> QED BY <1>1, <2>1, <2>3, ReadAndKeep DEF Entrances
<1> QED BY <1>2, <1>3

LEMMA UseAgainHolds ==
    ASSUME LoginInv, NEW t \in LoginTasks, NEW ok \in BOOLEAN, NEW late \in BOOLEAN,
           UseAgain(t, ok, late)
    PROVE  LoginHolds
<1>1. UNCHANGED <<sessions, voided>> /\ Remembers' /\ grantRow' = ReadGrant(late)
  BY DEF UseAgain, LoginInv, Remembers
<1>2. CASE Ends(t)
  BY <1>1, <1>2, ReadAndEnd
<1>3. CASE ~Ends(t)
  <2> DEFINE w == [account[t] EXCEPT !.pc = "granted"]
  <2>1. account' = [account EXCEPT ![t] = w] /\ grantRow'.rev = account[t].ref
    BY <1>3 DEF UseAgain, GrantIsCurrent, SameGrant
  <2>2. account[t] \in LoginWork /\ Known(account[t], grantRow.rev)
    BY DEF LoginInv, LoginTasksKnow
  <2>3. w \in LoginWork /\ w.pc = "granted" /\ w.ref = account[t].ref /\ w.past = account[t].past
    BY <2>2 DEF LoginWork, LoginPcs
  <2> HIDE DEF w
  <2>4. LoginRows' /\ Moves /\ LoginIsCurrent /\ grantRow' \in GrantRows /\ grantRow \in GrantRows
    BY <1>1, RowsRead DEF LoginInv
  <2>5. ~account[t].past
    <3>1. grantRow.rev \in Nat /\ grantRow'.rev \in Nat
      BY <2>4 DEF GrantRows
    <3> QED BY <2>1, <2>2, <2>4, <3>1 DEF Known, Moves
  <2>6. LoginTasksKnow' /\ RevokedStaysOut
    BY <2>1, <2>3, <2>4, <2>5, TaskKeepsReference DEF LoginInv, Entrances
  <2> QED BY <1>1, <2>4, <2>6 DEF LoginInv, LoginHolds
<1> QED BY <1>2, <1>3

LEMMA RestartHolds ==
    ASSUME LoginInv, RestartLogins
    PROVE  LoginHolds
<1> DEFINE c == Closed("expired")
<1>1. UNCHANGED grantRow /\ sessions' = c /\ voided' = voided \cup DOMAIN sessions
      /\ account' = [t \in LoginTasks |-> NoWork] /\ memory' = [s \in LoginServices |-> NoMemory]
  BY DEF RestartLogins
<1>2. c \in Seq(Outcomes) /\ DOMAIN c = DOMAIN sessions
      /\ \A g \in DOMAIN sessions : c[g] # "pending"
  BY SessionsClosed DEF LoginInv, LoginRows, Outcomes
<1> HIDE DEF c
<1>3. LoginRows' /\ LoginIsCurrent
  BY <1>1, <1>2 DEF LoginInv, LoginRows, LoginIsCurrent
<1>4. NoWork \in LoginWork /\ NoWork.pc # "granted"
  BY DEF NoWork, LoginWork, LoginPcs
<1>5. Known(NoWork, grantRow.rev)
  BY DEF NoWork, Known, Entrances, LoginInv, LoginRows, GrantRows
<1>6. LoginTasksKnow' /\ RevokedStaysOut
  BY <1>1, <1>4, <1>5 DEF LoginTasksKnow, RevokedStaysOut
<1>7. Remembers'
  BY <1>1 DEF Remembers, NoMemory
<1> QED BY <1>3, <1>6, <1>7 DEF LoginInv, LoginHolds

\* A step of a task that only goes on, and one that only ends.
LEMMA PlainStepHolds ==
    ASSUME LoginInv, NEW t \in LoginTasks, NEW ok \in BOOLEAN,
           \/ Denied(t) \/ VerifyExchange(t, ok) \/ CompleteRefused(t) \/ RevokeRefused(t)
           \/ UseSecret(t, ok) \/ UseDone(t)
    PROVE  LoginHolds
<1>1. UNCHANGED <<sessions, grantRow, voided>> /\ Remembers'
  BY DEF Denied, VerifyExchange, CompleteRefused, RevokeRefused, UseSecret, UseDone, LoginInv, Remembers
<1>2. \/ Ends(t) \/ account' = [account EXCEPT ![t].pc = "plan"]
      \/ account' = [account EXCEPT ![t].pc = "again"]
  BY DEF Denied, VerifyExchange, CompleteRefused, RevokeRefused, UseSecret, UseDone, Leaves, Proceeds
<1> QED BY <1>1, <1>2, ReadAndEnd, ReadAndProceed DEF LoginPcs, Entrances

LEMMA LoginStep ==
    ASSUME LoginInv, AccountNext
    PROVE  LoginHolds
<1>1. CASE \E t \in LoginTasks, ok, late \in BOOLEAN, s \in LoginServices : Status(t, s, ok, late)
  BY <1>1, StatusHolds
<1>2. CASE \E t \in LoginTasks, ok, late \in BOOLEAN :
             CompleteRead(t, ok, late) \/ PlanGrant(t, ok, late) \/ RevokeRead(t, ok, late)
  BY <1>2, CompleteReadHolds, PlanHolds, RevokeReadHolds
<1>3. CASE \E t \in LoginTasks, ok, late \in BOOLEAN :
             \/ UseRead(t, ok, late) \/ UseScheduled(t, ok, late) \/ UseAgain(t, ok, late)
             \/ \E child \in BOOLEAN : UseDependency(t, ok, child, late)
  <2>1. PICK t \in LoginTasks, ok \in BOOLEAN, late \in BOOLEAN :
             \/ UseRead(t, ok, late) \/ UseScheduled(t, ok, late) \/ UseAgain(t, ok, late)
             \/ \E child \in BOOLEAN : UseDependency(t, ok, child, late)
    BY <1>3
  <2>2. \A child \in BOOLEAN : (ok /\ child) \in BOOLEAN
    OBVIOUS
  <2> QED BY <2>1, <2>2, UseReadHolds, UseAgainHolds DEF UseDependency, UseScheduled
<1>4. CASE \E t \in LoginTasks, ok \in BOOLEAN :
             NextGeneration(t, ok) \/ VerifyExchange(t, ok) \/ UseSecret(t, ok)
  BY <1>4, NextGenerationHolds, PlainStepHolds
<1>5. CASE \E t \in LoginTasks, act \in Entrances, s \in LoginServices, g \in 1..MaxGenerations :
             Request(t, act, s, g)
  BY <1>5, RequestHolds
<1>6. CASE \E t \in LoginTasks :
             \/ Denied(t) \/ EnterGate(t) \/ GenerationConflict(t)
             \/ CompleteCommit(t) \/ CompleteRefused(t)
             \/ RevokeCommit(t) \/ RevokeRefused(t) \/ UseDone(t)
  BY <1>6, PlainStepHolds, EnterHolds, ConflictHolds, CommitHolds, RevokeHolds
<1>7. CASE RestartLogins
  BY <1>7, RestartHolds
<1> QED BY <1>1, <1>2, <1>3, <1>4, <1>5, <1>6, <1>7 DEF AccountNext

LEMMA LoginStarts == AccountInit => LoginInv
<1> SUFFICES ASSUME AccountInit PROVE LoginInv
  OBVIOUS
<1>1. LoginRows
  BY EmptySeq DEF AccountInit, LoginRows, GrantRows
<1>2. LoginTasksKnow
  BY DEF AccountInit, LoginTasksKnow, LoginWork, LoginPcs, NoWork, Known, Entrances
<1>3. Remembers
  BY DEF AccountInit, Remembers, NoMemory
<1> QED BY <1>1, <1>2, <1>3 DEF LoginInv

\* However logins, revocations, authorizations and restarts interleave, no login
\* that was superseded makes the grant active (complete_login), and no invocation
\* issued under a revoked grant is told it holds one (_current_grant).
THEOREM AccountCurrent == MCSpec => AccountIsCurrent
<1> DEFINE Login == keeper = "login" => LoginInv
<1>1. MCInit => Login
  BY LoginStarts DEF MCInit
<1>2. Login /\ [MCNext]_<<keeper, vars, loginVars, sourceVars>>
      => Login' /\ [keeper = "login" => LoginIsCurrent /\ RevokedStaysOut]_loginVars
  <2> SUFFICES ASSUME Login, [MCNext]_<<keeper, vars, loginVars, sourceVars>>
               PROVE  Login' /\ [keeper = "login" => LoginIsCurrent /\ RevokedStaysOut]_loginVars
    OBVIOUS
  <2>1. CASE keeper = "login" /\ MCNext /\ AccountNext
    <3>1. LoginHolds /\ keeper' = keeper
      BY <2>1, LoginStep DEF MCNext
    <3> QED BY <3>1 DEF LoginHolds
  <2>2. CASE keeper' = keeper /\ UNCHANGED loginVars
    <3>1. LoginInv' = LoginInv
      BY <2>2 DEF loginVars, LoginInv, LoginRows, LoginTasksKnow, Remembers
    <3> QED BY <2>2, <3>1
  <2> QED BY <2>1, <2>2 DEF MCNext
<1> QED BY <1>1, <1>2, PTL DEF MCSpec, AccountIsCurrent

\* Requests to a source: counting rows.  A count is a sum over the instants
\* up to MaxTicks; what holds of every prefix is shown at the first instant
\* where it would fail.

RowsOf(a, T) ==
    LET rows[t \in 0..MaxTicks] == (IF t \in T THEN a[t] ELSE 0)
                                  + (IF t = 0 THEN 0 ELSE rows[t - 1])
    IN rows[MaxTicks]

Share(a, T, t) == IF t \in T THEN a[t] ELSE 0

\* g counts the rows of T up to each instant of 0..k.
Counts(g, k, a, T) ==
    g = [t \in 0..k |-> Share(a, T, t) + (IF t = 0 THEN 0 ELSE g[t - 1])]

\* A set of numbers has a first one.
LEMMA FirstOne ==
    ASSUME NEW T \in SUBSET Nat, T # {}
    PROVE  \E n \in T : \A m \in T : n <= m
<1>1. PICK n \in T : \A m \in T : ~(<<m, n>> \in OpToRel(<, Nat))
  BY NatLessThanWellFounded, WFMin
<1>2. \A m \in T : ~(m < n)
  BY <1>1 DEF OpToRel
<1> QED BY <1>2

Countable(j, a, T) == \E g \in [0..j -> Nat] : Counts(g, j, a, T)

LEMMA CountExists ==
    ASSUME NEW k \in Nat, NEW a \in [0..k -> Nat], NEW T
    PROVE  Countable(k, a, T)
<1> DEFINE Bad == {j \in 0..k : ~Countable(j, a, T)}
<1>0. Bad \in SUBSET Nat /\ \A j \in 0..k : j \in Bad <=> ~Countable(j, a, T)
  OBVIOUS
<1>6. \A j \in Bad : j \in 0..k
  OBVIOUS
<1> HIDE DEF Bad
<1> SUFFICES ASSUME Bad # {} PROVE FALSE
  BY <1>0
<1>1. PICK n \in Bad : \A m \in Bad : n <= m
  BY <1>0, FirstOne
<1>2. n \in Nat /\ n \in 0..k /\ n <= k /\ ~Countable(n, a, T)
  BY <1>0, <1>1, <1>6
<1>3. \A t \in 0..k : Share(a, T, t) \in Nat
  BY DEF Share
<1>4. CASE n = 0
  <2> DEFINE g == [t \in 0..n |-> Share(a, T, t)]
  <2>1. g \in [0..n -> Nat]
    BY <1>2, <1>3
  <2>2. Counts(g, n, a, T)
    BY <1>3, <1>4 DEF Counts
  <2> QED BY <1>2, <2>1, <2>2 DEF Countable
<1>5. CASE n # 0
  <2>1. n - 1 \in 0..k /\ n - 1 \notin Bad
    <3>1. n - 1 \in 0..k /\ ~(n <= n - 1)
      BY <1>2, <1>5
    <3> QED BY <1>1, <3>1
  <2>2. PICK h \in [0..(n - 1) -> Nat] : Counts(h, n - 1, a, T)
    BY <1>0, <2>1 DEF Countable
  <2> DEFINE g == [t \in 0..n |-> IF t = n THEN Share(a, T, n) + h[n - 1] ELSE h[t]]
  <2>3. n \in 0..k /\ n - 1 \in 0..(n - 1)
    BY <1>2, <1>5
  <2>4. Share(a, T, n) \in Nat /\ h[n - 1] \in Nat
    BY <1>3, <2>3
  <2>5. g \in [0..n -> Nat]
    BY <1>2, <2>4
  <2>6. \A t \in 0..n : g[t] = Share(a, T, t) + (IF t = 0 THEN 0 ELSE g[t - 1])
    <3> SUFFICES ASSUME NEW t \in 0..n
                 PROVE  g[t] = Share(a, T, t) + (IF t = 0 THEN 0 ELSE g[t - 1])
      OBVIOUS
    <3>1. CASE t = n
      BY <1>2, <1>5, <2>3, <3>1
    <3>2. CASE t # n
      <4>1. t \in 0..(n - 1) /\ (t # 0 => t - 1 \in 0..n /\ t - 1 # n)
        BY <1>2, <3>2
      <4>2. h[t] = Share(a, T, t) + (IF t = 0 THEN 0 ELSE h[t - 1])
        BY <2>2, <4>1 DEF Counts
      <4> QED BY <3>2, <4>1, <4>2
    <3> QED BY <3>1, <3>2
  <2> HIDE DEF g
  <2>7. Counts(g, n, a, T)
    BY <2>5, <2>6 DEF Counts
  <2> QED BY <1>2, <2>5, <2>7 DEF Countable
<1> QED BY <1>4, <1>5

\* The count of the model is the last of some function that counts.
LEMMA RowsCounted ==
    ASSUME MaxTicks \in Nat, NEW a \in [0..MaxTicks -> Nat], NEW T
    PROVE  \E g : g \in [0..MaxTicks -> Nat] /\ Counts(g, MaxTicks, a, T) /\ RowsOf(a, T) = g[MaxTicks]
<1> DEFINE g == CHOOSE g : g = [t \in 0..MaxTicks |-> (IF t \in T THEN a[t] ELSE 0)
                                                    + (IF t = 0 THEN 0 ELSE g[t - 1])]
<1>1. \E h : h = [t \in 0..MaxTicks |-> (IF t \in T THEN a[t] ELSE 0)
                                                    + (IF t = 0 THEN 0 ELSE h[t - 1])]
  <2>1. PICK h \in [0..MaxTicks -> Nat] : Counts(h, MaxTicks, a, T)
    BY CountExists DEF Countable
  <2> QED BY <2>1 DEF Counts, Share
<1>2. g = [t \in 0..MaxTicks |-> (IF t \in T THEN a[t] ELSE 0)
                                                    + (IF t = 0 THEN 0 ELSE g[t - 1])]
  BY <1>1
<1>3. RowsOf(a, T) = g[MaxTicks]
  BY DEF RowsOf
<1> HIDE DEF g
<1>4. Counts(g, MaxTicks, a, T)
  BY <1>2 DEF Counts, Share
<1>5. g \in [0..MaxTicks -> Nat]
  <2> DEFINE Bad == {t \in 0..MaxTicks : g[t] \notin Nat}
  <2> SUFFICES ASSUME Bad # {} PROVE FALSE
    BY <1>2
  <2>5. Bad \in SUBSET Nat
    OBVIOUS
  <2>1. PICK n \in Bad : \A m \in Bad : n <= m
    BY <2>5, FirstOne
  <2>2. n \in 0..MaxTicks /\ g[n] \notin Nat /\ Share(a, T, n) \in Nat
    BY <2>1 DEF Share
  <2>3. g[n] = Share(a, T, n) + (IF n = 0 THEN 0 ELSE g[n - 1])
    BY <1>4, <2>2 DEF Counts
  <2>4. n # 0 => g[n - 1] \in Nat
    <3>1. n # 0 => n - 1 \in 0..MaxTicks /\ ~(n <= n - 1)
      BY <2>2
    <3>2. n # 0 => n - 1 \notin Bad
      BY <2>1, <3>1
    <3> QED BY <3>1, <3>2
  <2> QED BY <2>2, <2>3, <2>4
<1> QED BY <1>3, <1>4, <1>5

\* Where no instant has more rows, and one instant at most d more, there are at
\* most d more rows in all.
LEMMA RowsCompare ==
    ASSUME MaxTicks \in Nat, NEW a \in [0..MaxTicks -> Nat], NEW b \in [0..MaxTicks -> Nat],
           NEW S, NEW T, NEW n \in 0..MaxTicks, NEW d \in Nat,
           \A t \in 0..MaxTicks : Share(b, T, t) <= Share(a, S, t) + (IF t = n THEN d ELSE 0)
    PROVE  RowsOf(b, T) <= RowsOf(a, S) + d
<1>1. PICK g \in [0..MaxTicks -> Nat] : Counts(g, MaxTicks, a, S) /\ RowsOf(a, S) = g[MaxTicks]
  BY RowsCounted
<1>2. PICK h \in [0..MaxTicks -> Nat] : Counts(h, MaxTicks, b, T) /\ RowsOf(b, T) = h[MaxTicks]
  BY RowsCounted
<1> DEFINE Bad == {t \in 0..MaxTicks : ~(h[t] <= g[t] + (IF n <= t THEN d ELSE 0))}
<1>3. Bad = {}
  <2> SUFFICES ASSUME Bad # {} PROVE FALSE
    OBVIOUS
  <2>8. Bad \in SUBSET Nat
    OBVIOUS
  <2>1. PICK m \in Bad : \A l \in Bad : m <= l
    BY <2>8, FirstOne
  <2>2. m \in 0..MaxTicks /\ ~(h[m] <= g[m] + (IF n <= m THEN d ELSE 0))
    BY <2>1
  <2>3. g[m] = Share(a, S, m) + (IF m = 0 THEN 0 ELSE g[m - 1])
        /\ h[m] = Share(b, T, m) + (IF m = 0 THEN 0 ELSE h[m - 1])
    BY <1>1, <1>2, <2>2 DEF Counts
  <2>4. Share(a, S, m) \in Nat /\ Share(b, T, m) \in Nat
    BY <2>2 DEF Share
  <2>5. Share(b, T, m) <= Share(a, S, m) + (IF m = n THEN d ELSE 0)
    BY <2>2
  <2>6. CASE m = 0
    BY <2>2, <2>3, <2>4, <2>5, <2>6
  <2>7. CASE m # 0
    <3>4. m - 1 \in 0..MaxTicks /\ ~(m <= m - 1)
      BY <2>2, <2>7
    <3>1. m - 1 \in 0..MaxTicks /\ m - 1 \notin Bad
      BY <2>1, <3>4
    <3>2. h[m - 1] <= g[m - 1] + (IF n <= m - 1 THEN d ELSE 0)
      BY <3>1
    <3>3. h[m - 1] \in Nat /\ g[m - 1] \in Nat
      BY <3>1
    <3>5. g[m] = Share(a, S, m) + g[m - 1] /\ h[m] = Share(b, T, m) + h[m - 1] /\ m \in Nat /\ n \in Nat
      BY <2>2, <2>3, <2>7
    <3> DEFINE sa == Share(a, S, m)
    <3> DEFINE sb == Share(b, T, m)
    <3> DEFINE gm == g[m - 1]
    <3> DEFINE hm == h[m - 1]
    <3>6. sa \in Nat /\ sb \in Nat /\ gm \in Nat /\ hm \in Nat
      BY <2>4, <3>3
    <3>7. hm <= gm + (IF n <= m - 1 THEN d ELSE 0) /\ sb <= sa + (IF m = n THEN d ELSE 0)
      BY <2>5, <3>2
    <3>8. g[m] = sa + gm /\ h[m] = sb + hm
      BY <3>5
    <3>9. ~(h[m] <= g[m] + (IF n <= m THEN d ELSE 0)) /\ m \in Nat /\ n \in Nat
      BY <2>2, <3>5
    <3> HIDE DEF sa, sb, gm, hm
    <3>10. CASE m = n
      BY <3>6, <3>7, <3>8, <3>9, <3>10
    <3>11. CASE n < m
      BY <3>6, <3>7, <3>8, <3>9, <3>11
    <3>12. CASE m < n
      BY <3>6, <3>7, <3>8, <3>9, <3>12
    <3> QED BY <3>9, <3>10, <3>11, <3>12
  <2> QED BY <2>6, <2>7
<1>4. MaxTicks \in 0..MaxTicks
  OBVIOUS
<1>5. h[MaxTicks] <= g[MaxTicks] + (IF n <= MaxTicks THEN d ELSE 0)
  BY <1>3, <1>4
<1> QED BY <1>1, <1>2, <1>5

\* Requests to a source: the inductive invariant.

\* Between the lock and the lease.
Inner == {"reference", "material", "exchange", "exchanged", "verified"}
FetchPcs == Inner \cup {"idle", "permit", "lease", "reserve", "reserving", "sending", "sent",
                       "invalidate"}
Leased == [ver: Nat, live: BOOLEAN]
FetchWork == [pc: FetchPcs, since: Nat, ver: Nat, lease: Leased, now: 0..MaxTicks, again: BOOLEAN]

\* What a fetch knows fits the secret, the lock and the token: it asked no later
\* than now, what it read is no older than that, and what it may take from the
\* cache is no older than what it read.
Fits(w, f, ver, lock, tk) ==
    /\ w.since <= ver
    /\ w.lease.ver # 0 => w.since <= w.lease.ver
    /\ w.pc \in Inner => lock = f
    /\ w.pc \in Inner \ {"reference"} => w.since <= w.ver
    /\ w.pc = "material" /\ policy = "oauth" /\ tk.held => w.ver <= tk.ver

SourceRows ==
    /\ secret \in [ver: Nat, on: BOOLEAN]
    /\ token \in [ver: Nat, held: BOOLEAN]
    /\ clock \in 0..MaxTicks
    /\ attempts \in [0..MaxTicks -> Nat]
    /\ fetch \in [Fetches -> FetchWork]

FetchesFit == \A f \in Fetches : Fits(fetch[f], f, secret.ver, tokenLock, token)

SourceInv == SourceRows /\ FetchesFit /\ BudgetHolds

\* A fetch that another one's step leaves alone, or makes the lease of stale.
Same(old, new) == new = old \/ new = [old EXCEPT !.lease.live = FALSE]

LEMMA SameFits ==
    ASSUME SourceRows, SourceRows', NEW f \in Fetches, Fits(fetch[f], f, secret.ver, tokenLock, token),
           Same(fetch[f], fetch'[f]), secret'.ver >= secret.ver, policy' = policy,
           tokenLock = f => tokenLock' = f /\ (token' = token \/ ~token'.held)
    PROVE  Fits(fetch[f], f, secret.ver, tokenLock, token)'
<1> DEFINE w == fetch[f]
<1> DEFINE v == fetch'[f]
<1>1. w \in FetchWork /\ w.lease \in Leased
  BY DEF SourceRows, FetchWork
<1>2. v.since = w.since /\ v.pc = w.pc /\ v.ver = w.ver /\ v.lease.ver = w.lease.ver
  BY <1>1 DEF Same, FetchWork, Leased
<1>3. secret.ver \in Nat /\ secret'.ver \in Nat /\ w.since \in Nat
  BY <1>1 DEF SourceRows, FetchWork
<1> HIDE DEF w, v
<1>4. v.since <= secret'.ver
  BY <1>2, <1>3 DEF Fits, w
<1>5. v.lease.ver # 0 => v.since <= v.lease.ver
  BY <1>2 DEF Fits, w
<1>6. v.pc \in Inner => tokenLock = f /\ tokenLock' = f
  BY <1>2 DEF Fits, w
<1>7. v.pc \in Inner \ {"reference"} => v.since <= v.ver
  BY <1>2 DEF Fits, w
<1>8. v.pc = "material" /\ policy' = "oauth" /\ token'.held => v.ver <= token'.ver
  <2> SUFFICES ASSUME v.pc = "material", policy' = "oauth", token'.held
               PROVE  v.ver <= token'.ver
    OBVIOUS
  <2>1. tokenLock = f
    BY <1>6 DEF Inner
  <2>2. token' = token
    BY <2>1
  <2> QED BY <1>2, <2>2 DEF Fits, w
<1> QED BY <1>4, <1>5, <1>6, <1>7, <1>8 DEF Fits, v

\* A step of one fetch.
LEMMA FetchMoves ==
    ASSUME SourceInv, SourceRows', NEW f \in Fetches,
           \A g \in Fetches \ {f} : Same(fetch[g], fetch'[g]),
           \A g \in Fetches \ {f} : tokenLock = g => tokenLock' = g /\ (token' = token \/ ~token'.held),
           UNCHANGED <<policy, secret>>,
           Fits(fetch'[f], f, secret.ver, tokenLock', token')
    PROVE  FetchesFit'
<1> SUFFICES ASSUME NEW g \in Fetches
             PROVE  Fits(fetch[g], g, secret.ver, tokenLock, token)'
  BY DEF FetchesFit
<1>1. CASE g = f
  BY <1>1 DEF Fits
<1>2. CASE g # f
  <2>1. secret'.ver >= secret.ver
    BY DEF SourceInv, SourceRows
  <2> QED BY <1>2, <2>1, SameFits DEF SourceInv, FetchesFit
<1> QED BY <1>1, <1>2

\* A step of nobody's.
LEMMA NobodyMoves ==
    ASSUME SourceInv, SourceRows',
           \A g \in Fetches : Same(fetch[g], fetch'[g]),
           tokenLock' = tokenLock, token' = token \/ ~token'.held,
           policy' = policy, secret'.ver >= secret.ver
    PROVE  FetchesFit'
<1> SUFFICES ASSUME NEW g \in Fetches
             PROVE  Fits(fetch[g], g, secret.ver, tokenLock, token)'
  BY DEF FetchesFit
<1> QED BY SameFits DEF SourceInv, FetchesFit

\* The fetches after one went on, the others as they were or with stale leases.
LEMMA FetchGoes ==
    ASSUME SourceRows, NEW f \in Fetches, NEW w \in FetchWork,
           NEW base \in {fetch, Bumped}, fetch' = [base EXCEPT ![f] = w]
    PROVE  /\ fetch' \in [Fetches -> FetchWork] /\ fetch'[f] = w
           /\ \A g \in Fetches \ {f} : Same(fetch[g], fetch'[g])
<1>1. Bumped \in [Fetches -> FetchWork] /\ \A g \in Fetches : Same(fetch[g], Bumped[g])
  BY DEF SourceRows, Bumped, Same, FetchWork, Leased
<1>2. fetch \in [Fetches -> FetchWork] /\ \A g \in Fetches : Same(fetch[g], fetch[g])
  BY DEF SourceRows, Same
<1> QED BY <1>1, <1>2

\* A fetch that goes on at another place outside the lock.
LEMMA FetchGoesOn ==
    ASSUME SourceInv, UNCHANGED <<policy, secret, token, tokenLock, attempts, clock>>,
           NEW f \in Fetches, NEW w \in FetchWork, fetch' = [fetch EXCEPT ![f] = w],
           w.since = fetch[f].since, w.lease = fetch[f].lease, w.pc \notin Inner
    PROVE  SourceRows' /\ FetchesFit'
<1>1. fetch' \in [Fetches -> FetchWork] /\ fetch'[f] = w
      /\ \A g \in Fetches \ {f} : Same(fetch[g], fetch'[g])
  BY FetchGoes DEF SourceInv
<1>2. SourceRows'
  BY <1>1 DEF SourceInv, SourceRows
<1>3. Fits(fetch[f], f, secret.ver, tokenLock, token)
  BY DEF SourceInv, FetchesFit
<1>4. Fits(w, f, secret.ver, tokenLock, token)
  BY <1>3 DEF Fits, Inner
<1> QED BY <1>1, <1>2, <1>4, FetchMoves

\* A fetch ends: the lock goes back if it is the holder.
LEMMA FetchEnds ==
    ASSUME SourceInv, SourceAssumption, UNCHANGED <<policy, secret, token, attempts, clock>>,
           NEW f \in Fetches, FetchLeaves(f)
    PROVE  SourceRows' /\ FetchesFit'
<1>1. NoFetch \in FetchWork
  BY SourceAssumption DEF NoFetch, NoLease, FetchWork, Leased, FetchPcs
<1>2. fetch' \in [Fetches -> FetchWork] /\ fetch'[f] = NoFetch
      /\ \A g \in Fetches \ {f} : Same(fetch[g], fetch'[g])
  BY <1>1, FetchGoes DEF SourceInv, FetchLeaves
<1>3. SourceRows'
  BY <1>2 DEF SourceInv, SourceRows
<1>4. Fits(NoFetch, f, secret.ver, tokenLock', token')
  BY DEF Fits, NoFetch, NoLease, Inner, SourceInv, SourceRows
<1>5. \A g \in Fetches \ {f} : tokenLock = g => tokenLock' = g
  BY DEF FetchLeaves
<1> QED BY <1>2, <1>3, <1>4, <1>5, FetchMoves
\* The count in the model is the count of the lemmas.
LEMMA RowsAre == \A T : RowsIn(T) = RowsOf(attempts, T)
  BY DEF RowsIn, RowsOf

LEMMA BudgetKept ==
    ASSUME BudgetHolds, attempts' = attempts
    PROVE  BudgetHolds'
  BY DEF BudgetHolds, RowsIn

\* A row is added where the window that counts it had room: every window of the
\* limit's length that sees the new row is part of what reserve counted.
LEMMA BudgetReserved ==
    ASSUME SourceAssumption, SourceInv, NEW f \in Fetches, Available(fetch[f].now),
           attempts' = [attempts EXCEPT ![fetch[f].now] = @ + 1]
    PROVE  BudgetHolds' /\ attempts' \in [0..MaxTicks -> Nat]
<1> DEFINE n == fetch[f].now
<1> DEFINE C == Counted(n)
<1> DEFINE Seen(t) == {u \in 0..MaxTicks : u <= t /\ u + Window > t}
<1>1. n \in 0..MaxTicks /\ attempts \in [0..MaxTicks -> Nat]
  BY DEF SourceInv, SourceRows, FetchWork
<1>2. MaxTicks \in Nat /\ PerWindow \in Nat /\ Window \in Nat
  BY SourceAssumption DEF SourceAssumption
<1>3. C = {t \in 0..MaxTicks : t + Window > n /\ attempts[t] > 0}
  BY DEF Counted
<1>4. RowsOf(attempts, C) < PerWindow
  BY RowsAre DEF Available
<1>5. attempts' = [attempts EXCEPT ![n] = attempts[n] + 1] /\ attempts[n] + 1 \in Nat
  BY <1>1
<1>6. attempts' \in [0..MaxTicks -> Nat]
  BY <1>1, <1>5
<1> HIDE DEF n, C
<1>7. \A t \in 0..MaxTicks : RowsOf(attempts', Seen(t)) <= PerWindow
  <2> SUFFICES ASSUME NEW t \in 0..MaxTicks
               PROVE  RowsOf(attempts', Seen(t)) <= PerWindow
    OBVIOUS
  <2>1. RowsOf(attempts, C) \in Nat /\ RowsOf(attempts, Seen(t)) \in Nat /\ RowsOf(attempts', Seen(t)) \in Nat
    <3>1. ASSUME NEW a \in [0..MaxTicks -> Nat], NEW T
          PROVE  RowsOf(a, T) \in Nat
      <4>1. PICK g : g \in [0..MaxTicks -> Nat] /\ RowsOf(a, T) = g[MaxTicks]
        BY <1>2, RowsCounted
      <4>2. MaxTicks \in 0..MaxTicks
        BY <1>2
      <4> QED BY <4>1, <4>2
    <3> QED BY <1>1, <1>6, <3>1
  <2>2. CASE n \in Seen(t)
    <3>1. \A u \in 0..MaxTicks : Share(attempts', Seen(t), u) <= Share(attempts, C, u) + (IF u = n THEN 1 ELSE 0)
      <4> SUFFICES ASSUME NEW u \in 0..MaxTicks
                   PROVE  Share(attempts', Seen(t), u) <= Share(attempts, C, u) + (IF u = n THEN 1 ELSE 0)
        OBVIOUS
      <4>1. attempts[u] \in Nat /\ attempts'[u] = attempts[u] + (IF u = n THEN 1 ELSE 0)
        BY <1>1, <1>5
      <4>2. Share(attempts, C, u) \in Nat
        BY <4>1 DEF Share
      <4>3. CASE u \notin Seen(t)
        BY <4>2, <4>3 DEF Share
      <4>4. CASE u \in Seen(t)
        <5>1. u + Window > n
          BY <1>1, <1>2, <2>2, <4>4
        <5>2. u \in C \/ attempts[u] = 0
          BY <1>3, <4>1, <5>1
        <5>3. Share(attempts, C, u) = attempts[u]
          BY <5>2 DEF Share
        <5>4. Share(attempts', Seen(t), u) = attempts'[u]
          BY <4>4 DEF Share
        <5> QED BY <4>1, <5>3, <5>4
      <4> QED BY <4>3, <4>4
    <3>2. RowsOf(attempts', Seen(t)) <= RowsOf(attempts, C) + 1
      BY <1>1, <1>2, <1>6, <3>1, RowsCompare
    <3> QED BY <1>2, <1>4, <2>1, <3>2
  <2>3. CASE n \notin Seen(t)
    <3>1. \A u \in 0..MaxTicks : Share(attempts', Seen(t), u) <= Share(attempts, Seen(t), u) + (IF u = n THEN 0 ELSE 0)
      BY <1>1, <1>5, <2>3 DEF Share
    <3>2. RowsOf(attempts', Seen(t)) <= RowsOf(attempts, Seen(t)) + 0
      BY <1>1, <1>2, <1>6, <3>1, RowsCompare
    <3>3. RowsOf(attempts, Seen(t)) <= PerWindow
      BY RowsAre DEF SourceInv, BudgetHolds
    <3> QED BY <1>2, <2>1, <3>2, <3>3
  <2> QED BY <2>2, <2>3
<1>8. \A T : RowsIn(T)' = RowsOf(attempts', T)
  BY DEF RowsIn, RowsOf
<1>9. BudgetHolds'
  BY <1>7, <1>8 DEF BudgetHolds
<1> QED BY <1>6, <1>9
\* One step of the requests.

\* A step that ends a fetch, or moves it on outside the lock.
LEMMA PlainFetchHolds ==
    ASSUME SourceAssumption, SourceInv, NEW f \in Fetches,
           \/ FetchStarts(f) \/ FetchFails(f) \/ TransportSends(f) \/ ResponseGood(f)
           \/ ResponseUnauthorized(f) \/ ResponseLimited(f)
    PROVE  SourceInv'
<1>1. UNCHANGED <<policy, secret, token, attempts, clock>>
  BY DEF FetchStarts, FetchFails, TransportSends, ResponseGood, ResponseUnauthorized, ResponseLimited
<1>2. \/ FetchLeaves(f)
      \/ tokenLock' = tokenLock /\ \E to \in {"permit", "sent", "invalidate"} : Goto(f, to)
  BY DEF FetchStarts, FetchFails, TransportSends, ResponseGood, ResponseUnauthorized, ResponseLimited
<1>3. SourceRows' /\ FetchesFit'
  <2>1. CASE FetchLeaves(f)
    BY <1>1, <2>1, FetchEnds
  <2>2. CASE tokenLock' = tokenLock /\ \E to \in {"permit", "sent", "invalidate"} : Goto(f, to)
    <3>1. PICK to \in {"permit", "sent", "invalidate"} : fetch' = [fetch EXCEPT ![f].pc = to]
      BY <2>2 DEF Goto
    <3> DEFINE w == [fetch[f] EXCEPT !.pc = to]
    <3>2. fetch[f] \in FetchWork
      BY DEF SourceInv, SourceRows
    <3>3. w \in FetchWork /\ w.since = fetch[f].since /\ w.lease = fetch[f].lease /\ w.pc \notin Inner
      BY <3>2 DEF FetchWork, FetchPcs, Inner
    <3>4. fetch' = [fetch EXCEPT ![f] = w]
      BY <3>1
    <3> HIDE DEF w
    <3> QED BY <1>1, <2>2, <3>3, <3>4, FetchGoesOn
  <2> QED BY <1>2, <2>1, <2>2
<1>4. BudgetHolds'
  BY <1>1, BudgetKept DEF SourceInv
<1> QED BY <1>3, <1>4 DEF SourceInv

\* Admitted: the call asks for a lease now.
LEMMA AdmittedHolds ==
    ASSUME SourceAssumption, SourceInv, NEW f \in Fetches, FetchAdmitted(f)
    PROVE  SourceInv'
<1> DEFINE v == secret.ver
<1> DEFINE w == [NoFetch EXCEPT !.pc = "lease", !.since = v]
<1>1. UNCHANGED <<policy, secret, token, tokenLock, attempts, clock>> /\ fetch' = [fetch EXCEPT ![f] = w]
  BY DEF FetchAdmitted
<1>2. v \in Nat
  BY DEF SourceInv, SourceRows
<1> HIDE DEF v
<1>3. w \in FetchWork /\ w.since = v /\ w.pc = "lease" /\ w.lease.ver = 0
  <2>1. NoFetch \in FetchWork /\ NoFetch.lease.ver = 0
    BY SourceAssumption DEF SourceAssumption, NoFetch, NoLease, FetchWork, Leased, FetchPcs
  <2> HIDE DEF NoFetch
  <2> QED BY <1>2, <2>1 DEF FetchWork, FetchPcs
<1>4. fetch' \in [Fetches -> FetchWork] /\ fetch'[f] = w
      /\ \A g \in Fetches \ {f} : Same(fetch[g], fetch'[g])
  <2> HIDE DEF w
  <2> QED BY <1>1, <1>3, FetchGoes DEF SourceInv
<1>5. SourceRows'
  BY <1>1, <1>4 DEF SourceInv, SourceRows
<1>6. Fits(w, f, secret.ver, tokenLock', token')
  <2> HIDE DEF w
  <2> QED BY <1>2, <1>3 DEF Fits, Inner, v
<1>7. FetchesFit'
  <2> HIDE DEF w
  <2> QED BY <1>1, <1>4, <1>5, <1>6, FetchMoves
<1>8. BudgetHolds'
  BY <1>1, BudgetKept DEF SourceInv
<1> QED BY <1>5, <1>7, <1>8 DEF SourceInv

LEMMA LeaseEntersHolds ==
    ASSUME SourceAssumption, SourceInv, NEW f \in Fetches, LeaseEnters(f)
    PROVE  SourceInv'
<1> DEFINE w == [fetch[f] EXCEPT !.pc = "reference"]
<1>1. UNCHANGED <<policy, secret, token, attempts, clock>> /\ fetch' = [fetch EXCEPT ![f] = w]
      /\ tokenLock = "free" /\ tokenLock' = f
  BY DEF LeaseEnters, Goto
<1>2. fetch[f] \in FetchWork /\ Fits(fetch[f], f, secret.ver, tokenLock, token)
  BY DEF SourceInv, SourceRows, FetchesFit
<1>3. w \in FetchWork /\ w.since = fetch[f].since /\ w.pc = "reference" /\ w.lease = fetch[f].lease
  BY <1>2 DEF FetchWork, FetchPcs, Inner
<1> HIDE DEF w
<1>4. fetch' \in [Fetches -> FetchWork] /\ fetch'[f] = w
      /\ \A g \in Fetches \ {f} : Same(fetch[g], fetch'[g])
  BY <1>1, <1>3, FetchGoes DEF SourceInv
<1>5. SourceRows'
  BY <1>1, <1>4 DEF SourceInv, SourceRows
<1>6. Fits(w, f, secret.ver, tokenLock', token')
  BY <1>1, <1>2, <1>3 DEF Fits, Inner
<1>7. \A g \in Fetches \ {f} : tokenLock # g
  BY <1>1, SourceAssumption DEF SourceAssumption
<1>8. FetchesFit'
  BY <1>1, <1>4, <1>5, <1>6, <1>7, FetchMoves
<1>9. BudgetHolds'
  BY <1>1, BudgetKept DEF SourceInv
<1> QED BY <1>5, <1>8, <1>9 DEF SourceInv

\* A step inside the lock: nobody else holds it.
LEMMA InnerMoves ==
    ASSUME SourceAssumption, SourceInv, NEW f \in Fetches, fetch[f].pc \in Inner,
           UNCHANGED <<policy, secret, attempts, clock>>, token' \in [ver: Nat, held: BOOLEAN],
           NEW w \in FetchWork, NEW base \in {fetch, Bumped}, fetch' = [base EXCEPT ![f] = w],
           Fits(w, f, secret.ver, tokenLock', token')
    PROVE  SourceInv'
<1>1. fetch' \in [Fetches -> FetchWork] /\ fetch'[f] = w
      /\ \A g \in Fetches \ {f} : Same(fetch[g], fetch'[g])
  BY FetchGoes DEF SourceInv
<1>2. SourceRows'
  BY <1>1 DEF SourceInv, SourceRows
<1>3. tokenLock = f
  BY DEF SourceInv, FetchesFit, Fits
<1>4. \A g \in Fetches \ {f} : tokenLock # g
  BY <1>3
<1>5. FetchesFit'
  BY <1>1, <1>2, <1>4, FetchMoves
<1>6. BudgetHolds'
  BY BudgetKept DEF SourceInv
<1> QED BY <1>2, <1>5, <1>6 DEF SourceInv

LEMMA ReferenceHolds ==
    ASSUME SourceAssumption, SourceInv, NEW f \in Fetches, ReferenceRead(f)
    PROVE  SourceInv'
<1> DEFINE v == secret.ver
<1>1. fetch[f] \in FetchWork /\ fetch[f].pc = "reference" /\ v \in Nat
      /\ Fits(fetch[f], f, v, tokenLock, token) /\ token \in [ver: Nat, held: BOOLEAN]
  BY DEF SourceInv, SourceRows, FetchesFit, ReferenceRead, In
<1>2. UNCHANGED <<policy, secret, attempts, clock, tokenLock>>
  BY DEF ReferenceRead
<1>3. CASE policy = "oauth" /\ token.ver # v
  <2> DEFINE b == Bumped[f]
  <2> DEFINE w == [b EXCEPT !.pc = "material", !.ver = v]
  <2>1. token' = [ver |-> v, held |-> FALSE] /\ fetch' = [Bumped EXCEPT ![f].pc = "material", ![f].ver = v]
    BY <1>3 DEF ReferenceRead
  <2>2. fetch' = [Bumped EXCEPT ![f] = w]
    BY <2>1
  <2>3. b \in FetchWork /\ b.since = fetch[f].since /\ b.lease.ver = fetch[f].lease.ver
    BY <1>1 DEF Bumped, FetchWork, Leased
  <2> HIDE DEF b
  <2>4. w \in FetchWork /\ w.since = fetch[f].since /\ w.lease = b.lease /\ w.pc = "material" /\ w.ver = v
    BY <1>1, <2>3 DEF FetchWork, FetchPcs, Inner
  <2> HIDE DEF w
  <2>5. token' \in [ver: Nat, held: BOOLEAN] /\ ~token'.held
    BY <1>1, <2>1
  <2>6. Fits(w, f, secret.ver, tokenLock', token')
    BY <1>1, <1>2, <2>3, <2>4, <2>5 DEF Fits, Inner
  <2> QED BY <1>1, <1>2, <2>2, <2>4, <2>5, <2>6, InnerMoves DEF Inner
<1>4. CASE ~(policy = "oauth" /\ token.ver # v)
  <2> DEFINE w == [fetch[f] EXCEPT !.pc = "material", !.ver = v]
  <2>1. token' = token /\ fetch' = [fetch EXCEPT ![f].pc = "material", ![f].ver = v]
    BY <1>4 DEF ReferenceRead
  <2>2. fetch' = [fetch EXCEPT ![f] = w]
    BY <2>1
  <2>4. w \in FetchWork /\ w.since = fetch[f].since /\ w.lease = fetch[f].lease /\ w.pc = "material" /\ w.ver = v
    BY <1>1 DEF FetchWork, FetchPcs, Inner
  <2> HIDE DEF w
  <2>6. Fits(w, f, secret.ver, tokenLock', token')
    BY <1>1, <1>2, <1>4, <2>1, <2>4 DEF Fits, Inner
  <2> QED BY <1>1, <1>2, <2>1, <2>2, <2>4, <2>6, InnerMoves DEF Inner
<1> QED BY <1>3, <1>4

\* Going on inside the lock.
LEMMA InnerGoes ==
    ASSUME SourceAssumption, SourceInv, NEW f \in Fetches, fetch[f].pc \in Inner \ {"reference"},
           UNCHANGED <<policy, secret, token, tokenLock, attempts, clock>>,
           NEW to \in {"exchange", "exchanged", "verified"}, Goto(f, to)
    PROVE  SourceInv'
<1> DEFINE w == [fetch[f] EXCEPT !.pc = to]
<1>1. fetch' = [fetch EXCEPT ![f] = w]
  BY DEF Goto
<1>2. fetch[f] \in FetchWork /\ Fits(fetch[f], f, secret.ver, tokenLock, token)
  BY DEF SourceInv, SourceRows, FetchesFit
<1>3. w \in FetchWork /\ w.since = fetch[f].since /\ w.pc = to /\ w.lease = fetch[f].lease
      /\ w.ver = fetch[f].ver
  BY <1>2 DEF FetchWork, FetchPcs, Inner
<1> HIDE DEF w
<1>4. Fits(w, f, secret.ver, tokenLock', token')
  BY <1>2, <1>3 DEF Fits, Inner
<1>5. token' \in [ver: Nat, held: BOOLEAN]
  BY DEF SourceInv, SourceRows
<1> QED BY <1>1, <1>3, <1>4, <1>5, InnerMoves

\* A lease of something no older than what the call read, and so than its question.
LEMMA LeaseGiven ==
    ASSUME SourceAssumption, SourceInv, NEW f \in Fetches, fetch[f].pc \in Inner,
           UNCHANGED <<policy, secret, attempts, clock>>, token' \in [ver: Nat, held: BOOLEAN],
           NEW v \in Nat, fetch[f].since <= v, NEW base \in {fetch, Bumped},
           fetch' = [base EXCEPT ![f].pc = "reserve", ![f].lease = [ver |-> v, live |-> TRUE]]
    PROVE  SourceInv'
<1> DEFINE b == base[f]
<1> DEFINE ls == [ver |-> v, live |-> TRUE]
<1> DEFINE w == [b EXCEPT !.pc = "reserve", !.lease = ls]
<1>1. fetch' = [base EXCEPT ![f] = w]
  OBVIOUS
<1>2. fetch[f] \in FetchWork /\ Fits(fetch[f], f, secret.ver, tokenLock, token)
  BY DEF SourceInv, SourceRows, FetchesFit
<1>3. b \in FetchWork /\ b.since = fetch[f].since
  BY <1>2 DEF Bumped, FetchWork, Leased
<1>4. ls \in Leased /\ ls.ver = v
  BY DEF Leased
<1> HIDE DEF b, ls
<1>5. w \in FetchWork /\ w.since = fetch[f].since /\ w.lease = ls /\ w.pc = "reserve"
  BY <1>3, <1>4 DEF FetchWork, FetchPcs
<1> HIDE DEF w
<1>6. Fits(w, f, secret.ver, tokenLock', token')
  BY <1>2, <1>4, <1>5 DEF Fits, Inner
<1> QED BY <1>1, <1>5, <1>6, InnerMoves

LEMMA MaterialHolds ==
    ASSUME SourceAssumption, SourceInv, NEW f \in Fetches, MaterialRead(f)
    PROVE  SourceInv'
<1>1. fetch[f].pc = "material" /\ policy = "oauth" /\ UNCHANGED <<policy, secret, token, attempts, clock>>
  BY DEF MaterialRead, In
<1>2. fetch[f] \in FetchWork /\ Fits(fetch[f], f, secret.ver, tokenLock, token)
      /\ token \in [ver: Nat, held: BOOLEAN]
  BY DEF SourceInv, SourceRows, FetchesFit
<1>3. CASE token.held /\ Leases(f, token.ver)
  <2>1. token.ver \in Nat /\ fetch[f].since \in Nat /\ fetch[f].ver \in Nat
    BY <1>2 DEF FetchWork
  <2>2. fetch[f].since <= fetch[f].ver /\ fetch[f].ver <= token.ver
    BY <1>1, <1>2, <1>3 DEF Fits, Inner
  <2>3. fetch[f].since <= token.ver
    BY <2>1, <2>2
  <2>4. fetch[f].pc \in Inner
    BY <1>1 DEF Inner
  <2>5. fetch' = [fetch EXCEPT ![f].pc = "reserve", ![f].lease = [ver |-> token.ver, live |-> TRUE]]
    BY <1>3 DEF Leases
  <2> QED BY <1>1, <1>2, <2>1, <2>3, <2>4, <2>5, LeaseGiven
<1>4. CASE Goto(f, "exchange") /\ UNCHANGED tokenLock
  BY <1>1, <1>4, InnerGoes DEF Inner
<1> QED BY <1>3, <1>4 DEF MaterialRead

LEMMA ExchangeSentHolds ==
    ASSUME SourceAssumption, SourceInv, NEW f \in Fetches, ExchangeSent(f)
    PROVE  SourceInv'
<1>1. fetch[f].pc = "exchange" /\ UNCHANGED <<policy, secret, token, tokenLock, attempts, clock>>
      /\ Goto(f, "exchanged")
  BY DEF ExchangeSent, In
<1> QED BY <1>1, InnerGoes DEF Inner

LEMMA VerifiedHolds ==
    ASSUME SourceAssumption, SourceInv, NEW f \in Fetches, ExchangeVerified(f)
    PROVE  SourceInv'
<1>1. fetch[f].pc = "exchanged" /\ UNCHANGED <<policy, secret, attempts, clock>>
  BY DEF ExchangeVerified, In
<1>2. CASE secret.on /\ secret.ver = fetch[f].ver
  <2>1. Goto(f, "verified") /\ UNCHANGED <<token, tokenLock>>
    BY <1>2 DEF ExchangeVerified
  <2> QED BY <1>1, <2>1, InnerGoes DEF Inner
<1>3. CASE ~(secret.on /\ secret.ver = fetch[f].ver)
  <2>1. token' = [ver |-> 0, held |-> FALSE] /\ fetch' = [Bumped EXCEPT ![f] = NoFetch]
    BY <1>3 DEF ExchangeVerified
  <2>2. NoFetch \in FetchWork
    BY SourceAssumption DEF SourceAssumption, NoFetch, NoLease, FetchWork, Leased, FetchPcs
  <2>3. Fits(NoFetch, f, secret.ver, tokenLock', token')
    BY DEF Fits, NoFetch, NoLease, Inner, SourceInv, SourceRows
  <2>4. token' \in [ver: Nat, held: BOOLEAN] /\ fetch[f].pc \in Inner
    BY <1>1, <2>1 DEF Inner
  <2> HIDE DEF NoFetch
  <2> QED BY <1>1, <2>1, <2>2, <2>3, <2>4, InnerMoves
<1> QED BY <1>2, <1>3

LEMMA StoredHolds ==
    ASSUME SourceAssumption, SourceInv, NEW f \in Fetches, TokenStored(f) \/ StaticLeased(f)
    PROVE  SourceInv'
<1> DEFINE v == fetch[f].ver
<1>1. fetch[f].pc \in {"verified", "material"} /\ UNCHANGED <<policy, secret, attempts, clock>>
  BY DEF TokenStored, StaticLeased, In
<1>2. fetch[f] \in FetchWork /\ Fits(fetch[f], f, secret.ver, tokenLock, token)
      /\ token \in [ver: Nat, held: BOOLEAN]
  BY DEF SourceInv, SourceRows, FetchesFit
<1>3. v \in Nat /\ fetch[f].since <= v /\ fetch[f].pc \in Inner
  BY <1>1, <1>2 DEF Fits, Inner, FetchWork
<1>4. \E base \in {fetch, Bumped} :
         fetch' = [base EXCEPT ![f].pc = "reserve", ![f].lease = [ver |-> v, live |-> TRUE]]
  BY DEF TokenStored, StaticLeased, Leases
<1>5. token' = token \/ token' = [ver |-> v, held |-> TRUE]
  BY DEF TokenStored, StaticLeased
<1> HIDE DEF v
<1>6. token' \in [ver: Nat, held: BOOLEAN]
  <2>1. [ver |-> v, held |-> TRUE] \in [ver: Nat, held: BOOLEAN]
    BY <1>3
  <2> QED BY <1>2, <1>5, <2>1
<1> QED BY <1>1, <1>3, <1>4, <1>6, LeaseGiven

LEMMA WithoutHolds ==
    ASSUME SourceAssumption, SourceInv, NEW f \in Fetches, StaticWithout(f)
    PROVE  SourceInv'
<1> DEFINE w == [fetch[f] EXCEPT !.pc = "reserve", !.lease = NoLease]
<1>1. fetch[f].pc \in Inner /\ UNCHANGED <<policy, secret, token, attempts, clock>>
      /\ fetch' = [fetch EXCEPT ![f] = w]
  BY DEF StaticWithout, In, Inner
<1>2. fetch[f] \in FetchWork /\ Fits(fetch[f], f, secret.ver, tokenLock, token)
      /\ token' \in [ver: Nat, held: BOOLEAN]
  BY <1>1 DEF SourceInv, SourceRows, FetchesFit
<1>3. NoLease \in Leased /\ NoLease.ver = 0
  BY DEF NoLease, Leased
<1>4. w \in FetchWork /\ w.since = fetch[f].since /\ w.lease = NoLease /\ w.pc = "reserve"
  <2> HIDE DEF NoLease
  <2> QED BY <1>2, <1>3 DEF FetchWork, FetchPcs
<1> HIDE DEF w
<1>5. Fits(w, f, secret.ver, tokenLock', token')
  BY <1>2, <1>3, <1>4 DEF Fits, Inner
<1> QED BY <1>1, <1>2, <1>4, <1>5, InnerMoves

\* Called: the clock is read.
LEMMA CalledHolds ==
    ASSUME SourceAssumption, SourceInv, NEW f \in Fetches, ReserveCalled(f)
    PROVE  SourceInv'
<1> DEFINE n == clock
<1> DEFINE w == [fetch[f] EXCEPT !.pc = "reserving", !.now = n]
<1>1. UNCHANGED <<policy, secret, token, tokenLock, attempts, clock>> /\ fetch' = [fetch EXCEPT ![f] = w]
  BY DEF ReserveCalled
<1>2. fetch[f] \in FetchWork /\ n \in 0..MaxTicks
  BY DEF SourceInv, SourceRows
<1> HIDE DEF n
<1>3. w \in FetchWork /\ w.since = fetch[f].since /\ w.lease = fetch[f].lease /\ w.pc \notin Inner
  BY <1>2 DEF FetchWork, FetchPcs, Inner
<1> HIDE DEF w
<1>4. SourceRows' /\ FetchesFit'
  BY <1>1, <1>3, FetchGoesOn
<1> QED BY <1>1, <1>4, BudgetKept DEF SourceInv

LEMMA RedirectsHolds ==
    ASSUME SourceAssumption, SourceInv, NEW f \in Fetches, ResponseRedirects(f)
    PROVE  SourceInv'
<1> DEFINE w == [fetch[f] EXCEPT !.pc = "reserve", !.again = TRUE]
<1>1. UNCHANGED <<policy, secret, token, tokenLock, attempts, clock>> /\ fetch' = [fetch EXCEPT ![f] = w]
  BY DEF ResponseRedirects
<1>2. fetch[f] \in FetchWork
  BY DEF SourceInv, SourceRows
<1>3. w \in FetchWork /\ w.since = fetch[f].since /\ w.lease = fetch[f].lease /\ w.pc \notin Inner
  BY <1>2 DEF FetchWork, FetchPcs, Inner
<1> HIDE DEF w
<1>4. SourceRows' /\ FetchesFit'
  BY <1>1, <1>3, FetchGoesOn
<1> QED BY <1>1, <1>4, BudgetKept DEF SourceInv

\* Reserved: a row is added where there was room, or the request is refused.
LEMMA ReservedHolds ==
    ASSUME SourceAssumption, SourceInv, NEW f \in Fetches, Reserved(f)
    PROVE  SourceInv'
<1>1. UNCHANGED <<policy, secret, token, clock>>
  BY DEF Reserved
<1>2. CASE ~Available(fetch[f].now)
  <2>1. FetchLeaves(f) /\ attempts' = attempts
    BY <1>2 DEF Reserved
  <2> QED BY <1>1, <2>1, FetchEnds, BudgetKept DEF SourceInv
<1>3. CASE Available(fetch[f].now)
  <2> DEFINE w == [fetch[f] EXCEPT !.pc = "sending"]
  <2>1. fetch' = [fetch EXCEPT ![f] = w] /\ tokenLock' = tokenLock
      /\ attempts' = [attempts EXCEPT ![fetch[f].now] = @ + 1]
    BY <1>3 DEF Reserved, Goto
  <2>2. BudgetHolds' /\ attempts' \in [0..MaxTicks -> Nat]
    BY <1>3, <2>1, BudgetReserved
  <2>3. fetch[f] \in FetchWork /\ Fits(fetch[f], f, secret.ver, tokenLock, token)
    BY DEF SourceInv, SourceRows, FetchesFit
  <2>4. w \in FetchWork /\ w.since = fetch[f].since /\ w.lease = fetch[f].lease /\ w.pc = "sending"
    BY <2>3 DEF FetchWork, FetchPcs, Inner
  <2> HIDE DEF w
  <2>5. fetch' \in [Fetches -> FetchWork] /\ fetch'[f] = w
        /\ \A g \in Fetches \ {f} : Same(fetch[g], fetch'[g])
    BY <2>1, <2>4, FetchGoes DEF SourceInv
  <2>6. SourceRows'
    BY <1>1, <2>2, <2>5 DEF SourceInv, SourceRows
  <2>7. Fits(w, f, secret.ver, tokenLock', token')
    BY <1>1, <2>1, <2>3, <2>4 DEF Fits, Inner
  <2>8. FetchesFit'
    BY <1>1, <2>1, <2>5, <2>6, <2>7, FetchMoves
  <2> QED BY <2>2, <2>6, <2>8 DEF SourceInv
<1> QED BY <1>2, <1>3

\* Invalidated: the token goes if it is the lease's, and the call asks again or ends.
LEMMA InvalidatedHolds ==
    ASSUME SourceAssumption, SourceInv, NEW f \in Fetches, LeaseInvalidated(f)
    PROVE  SourceInv'
<1> DEFINE v == secret.ver
<1> DEFINE r == [NoFetch EXCEPT !.pc = "lease", !.since = v, !.again = TRUE]
<1>1. UNCHANGED <<policy, secret, tokenLock, attempts, clock>> /\ tokenLock = "free"
      /\ token' \in {token, [token EXCEPT !.held = FALSE]}
  BY DEF LeaseInvalidated
<1>2. PICK base \in {fetch, Bumped}, w \in {r, NoFetch} : fetch' = [base EXCEPT ![f] = w]
  BY DEF LeaseInvalidated
<1>3. v \in Nat /\ token \in [ver: Nat, held: BOOLEAN]
  BY DEF SourceInv, SourceRows
<1>4. NoFetch \in FetchWork /\ NoFetch.since = 0 /\ NoFetch.pc = "idle" /\ NoFetch.lease.ver = 0
  BY SourceAssumption DEF SourceAssumption, NoFetch, NoLease, FetchWork, Leased, FetchPcs
<1> HIDE DEF v
<1>5. r \in FetchWork /\ r.since = v /\ r.pc = "lease" /\ r.lease.ver = 0
  <2> HIDE DEF NoFetch
  <2> QED BY <1>3, <1>4 DEF FetchWork, FetchPcs
<1> HIDE DEF r
<1>6. w \in FetchWork /\ w.since <= v /\ w.pc \notin Inner /\ w.lease.ver = 0
  BY <1>2, <1>3, <1>4, <1>5 DEF Inner
<1>7. fetch' \in [Fetches -> FetchWork] /\ fetch'[f] = w
      /\ \A g \in Fetches \ {f} : Same(fetch[g], fetch'[g])
  BY <1>2, <1>6, FetchGoes DEF SourceInv
<1>8. token' \in [ver: Nat, held: BOOLEAN]
  BY <1>1, <1>3
<1>9. SourceRows'
  BY <1>1, <1>7, <1>8 DEF SourceInv, SourceRows
<1>10. Fits(w, f, secret.ver, tokenLock', token')
  BY <1>6 DEF Fits, Inner, v
<1>11. \A g \in Fetches \ {f} : tokenLock # g
  BY <1>1, SourceAssumption DEF SourceAssumption
<1>12. FetchesFit'
  BY <1>1, <1>7, <1>9, <1>10, <1>11, FetchMoves
<1> QED BY <1>1, <1>9, <1>12, BudgetKept DEF SourceInv

\* The administrator, the lifecycle and the clock.
LEMMA OutsideHolds ==
    ASSUME SourceAssumption, SourceInv,
           \/ TokenExpires \/ CredentialChanges \/ CredentialsClose \/ CredentialsCleared
           \/ CredentialsRetire \/ TransportCloses \/ ClockTicks
    PROVE  SourceInv'
<1>1. UNCHANGED <<policy, tokenLock, attempts>> /\ (fetch' = fetch \/ fetch' = Bumped)
  BY DEF TokenExpires, CredentialChanges, CredentialsClose, CredentialsCleared, CredentialsRetire,
         TransportCloses, ClockTicks
<1>2. clock' \in 0..MaxTicks
  <2>1. clock \in 0..MaxTicks /\ MaxTicks \in Nat
    BY SourceAssumption DEF SourceInv, SourceRows, SourceAssumption
  <2>2. clock' = clock \/ (clock < MaxTicks /\ clock' = clock + 1)
    BY DEF TokenExpires, CredentialChanges, CredentialsClose, CredentialsCleared, CredentialsRetire,
           TransportCloses, ClockTicks
  <2> QED BY <2>1, <2>2
<1>3. secret' \in [ver: Nat, on: BOOLEAN] /\ secret'.ver >= secret.ver
  <2> DEFINE n == secret.ver + 1
  <2>1. secret \in [ver: Nat, on: BOOLEAN] /\ secret.ver \in Nat /\ n \in Nat /\ n >= secret.ver
    BY DEF SourceInv, SourceRows
  <2>2. secret' = secret \/ \E on \in BOOLEAN : secret' = [ver |-> n, on |-> on]
    BY DEF TokenExpires, CredentialChanges, CredentialsClose, CredentialsCleared, CredentialsRetire,
           TransportCloses, ClockTicks
  <2> HIDE DEF n
  <2> QED BY <2>1, <2>2
<1>4. token' \in [ver: Nat, held: BOOLEAN] /\ (token' = token \/ ~token'.held)
  <2>1. token \in [ver: Nat, held: BOOLEAN]
    BY DEF SourceInv, SourceRows
  <2>2. token' \in {token, [token EXCEPT !.held = FALSE], [ver |-> 0, held |-> FALSE]}
    BY DEF TokenExpires, CredentialChanges, CredentialsClose, CredentialsCleared, CredentialsRetire,
           TransportCloses, ClockTicks
  <2>3. CASE token' = token
    BY <2>1, <2>3
  <2>4. CASE token' = [token EXCEPT !.held = FALSE]
    BY <2>1, <2>4
  <2>5. CASE token' = [ver |-> 0, held |-> FALSE]
    BY <2>5
  <2> QED BY <2>2, <2>3, <2>4, <2>5
<1>5. fetch' \in [Fetches -> FetchWork] /\ \A g \in Fetches : Same(fetch[g], fetch'[g])
  <2>1. CASE fetch' = fetch
    BY <2>1 DEF SourceInv, SourceRows, Same
  <2>2. CASE fetch' = Bumped
    <3>1. \A g \in Fetches : fetch[g] \in FetchWork
      BY DEF SourceInv, SourceRows
    <3>2. \A g \in Fetches : [fetch[g] EXCEPT !.lease.live = FALSE] \in FetchWork
      BY <3>1 DEF FetchWork, Leased
    <3> QED BY <2>2, <3>2 DEF Bumped, Same
  <2> QED BY <1>1, <2>1, <2>2
<1>6. SourceRows'
  BY <1>1, <1>2, <1>3, <1>4, <1>5 DEF SourceInv, SourceRows
<1>7. FetchesFit'
  BY <1>1, <1>3, <1>4, <1>5, <1>6, NobodyMoves
<1> QED BY <1>1, <1>6, <1>7, BudgetKept DEF SourceInv

LEMMA SourceStep ==
    ASSUME SourceInv, SourceNext
    PROVE  SourceInv'
<1>1. CASE \E f \in Fetches :
             \/ FetchStarts(f) \/ FetchFails(f) \/ TransportSends(f) \/ ResponseGood(f)
             \/ ResponseUnauthorized(f) \/ ResponseLimited(f)
  BY <1>1, SourceAssumption, PlainFetchHolds
<1>2. CASE \E f \in Fetches :
             \/ FetchAdmitted(f) \/ LeaseEnters(f) \/ ReferenceRead(f) \/ MaterialRead(f)
             \/ ExchangeSent(f) \/ ExchangeVerified(f)
  BY <1>2, SourceAssumption, AdmittedHolds, LeaseEntersHolds, ReferenceHolds, MaterialHolds,
     ExchangeSentHolds, VerifiedHolds
<1>3. CASE \E f \in Fetches :
             \/ TokenStored(f) \/ StaticLeased(f) \/ StaticWithout(f) \/ ReserveCalled(f)
             \/ Reserved(f) \/ ResponseRedirects(f) \/ LeaseInvalidated(f)
  BY <1>3, SourceAssumption, StoredHolds, WithoutHolds, CalledHolds, ReservedHolds, RedirectsHolds,
     InvalidatedHolds
<1>4. CASE \/ TokenExpires \/ CredentialChanges \/ CredentialsClose \/ CredentialsCleared
           \/ CredentialsRetire \/ TransportCloses \/ ClockTicks
  BY <1>4, SourceAssumption, OutsideHolds
<1> QED BY <1>1, <1>2, <1>3, <1>4 DEF SourceNext

LEMMA SourceStarts == SourceInit => SourceInv
<1> SUFFICES ASSUME SourceInit PROVE SourceInv
  OBVIOUS
<1>0. MaxTicks \in Nat /\ PerWindow \in Nat
  BY SourceAssumption DEF SourceAssumption
<1>1. SourceRows
  BY <1>0 DEF SourceInit, SourceRows, NoFetch, NoLease, FetchWork, Leased, FetchPcs
<1>2. FetchesFit
  BY DEF SourceInit, FetchesFit, Fits, NoFetch, NoLease, Inner
<1>3. BudgetHolds
  <2> SUFFICES ASSUME NEW T PROVE RowsOf(attempts, T) <= PerWindow
    BY RowsAre DEF BudgetHolds
  <2>1. attempts \in [0..MaxTicks -> Nat] /\ \A t \in 0..MaxTicks : attempts[t] = 0
    BY DEF SourceInit
  <2>2. PICK g : g \in [0..MaxTicks -> Nat] /\ Counts(g, MaxTicks, attempts, T)
                 /\ RowsOf(attempts, T) = g[MaxTicks]
    BY <1>0, <2>1, RowsCounted
  <2> DEFINE Bad == {t \in 0..MaxTicks : g[t] # 0}
  <2>3. Bad = {}
    <3> SUFFICES ASSUME Bad # {} PROVE FALSE
      OBVIOUS
    <3>1. Bad \in SUBSET Nat
      OBVIOUS
    <3>2. PICK m \in Bad : \A l \in Bad : m <= l
      BY <3>1, FirstOne
    <3>3. m \in 0..MaxTicks /\ g[m] # 0 /\ Share(attempts, T, m) = 0
      BY <2>1, <3>2 DEF Share
    <3>4. g[m] = Share(attempts, T, m) + (IF m = 0 THEN 0 ELSE g[m - 1])
      BY <2>2, <3>3 DEF Counts
    <3>5. m # 0 => g[m - 1] = 0
      <4>1. m # 0 => m - 1 \in 0..MaxTicks /\ ~(m <= m - 1)
        BY <1>0, <3>3
      <4>2. m # 0 => m - 1 \notin Bad
        BY <3>2, <4>1
      <4> QED BY <4>1, <4>2
    <3> QED BY <3>3, <3>4, <3>5
  <2>4. MaxTicks \in 0..MaxTicks
    BY <1>0
  <2>5. g[MaxTicks] = 0
    BY <2>3, <2>4
  <2> QED BY <1>0, <2>2, <2>5
<1> QED BY <1>1, <1>2, <1>3 DEF SourceInv

\* What a fetch is leased is current.
LEMMA SourceCovers ==
    ASSUME SourceInv
    PROVE  LeaseIsCurrent /\ BudgetHolds
<1>1. LeaseIsCurrent
  <2> SUFFICES ASSUME NEW f \in Fetches, fetch[f].lease.ver # 0
               PROVE  fetch[f].lease.ver >= fetch[f].since
    BY DEF LeaseIsCurrent
  <2>1. fetch[f] \in FetchWork /\ Fits(fetch[f], f, secret.ver, tokenLock, token)
    BY DEF SourceInv, SourceRows, FetchesFit
  <2>2. fetch[f].since \in Nat /\ fetch[f].lease.ver \in Nat
    BY <2>1 DEF FetchWork, Leased
  <2> QED BY <2>1, <2>2 DEF Fits
<1> QED BY <1>1 DEF SourceInv

\* A request to a source carries a credential that is current for the call, and
\* reserve keeps the attempts of every window within the limit.
THEOREM RequestsCovered == MCSpec => []RequestsAreCovered
<1> DEFINE Source == keeper = "source" => SourceInv
<1>1. MCInit => Source
  BY SourceStarts DEF MCInit
<1>2. Source /\ [MCNext]_<<keeper, vars, loginVars, sourceVars>> => Source'
  <2> SUFFICES ASSUME Source, [MCNext]_<<keeper, vars, loginVars, sourceVars>>
               PROVE  Source'
    OBVIOUS
  <2>1. CASE keeper = "source" /\ MCNext /\ SourceNext
    BY <2>1, SourceStep DEF MCNext
  <2>2. CASE keeper' = keeper /\ UNCHANGED sourceVars
    <3>1. UNCHANGED <<policy, secret, token, tokenLock, attempts, clock, fetch>> /\ keeper' = keeper
      BY <2>2 DEF sourceVars
    <3>2. SourceRows' = SourceRows
      BY <3>1 DEF SourceRows
    <3>3. FetchesFit' = FetchesFit
      BY <3>1 DEF FetchesFit, Fits
    <3>4. BudgetHolds => BudgetHolds'
      BY <3>1, BudgetKept
    <3>5. keeper' = "source" => keeper = "source"
      BY <3>1
    <3>6. SourceInv => SourceInv'
      BY <3>2, <3>3, <3>4 DEF SourceInv
    <3> QED BY <3>5, <3>6
  <2> QED BY <2>1, <2>2 DEF MCNext
<1>3. Source => RequestsAreCovered
  BY SourceCovers DEF RequestsAreCovered
<1> QED BY <1>1, <1>2, <1>3, PTL DEF MCSpec

\* The vault: the inductive invariant.

Material == Kids \cup {"kEnv", "kNew"}
Selections == [source: {"unselected", "environment", "managed"}, gen: Nat, rev: Nat,
               key: Material \cup {None}, kid: Kids \cup {None}]
States == LiveStates \cup {None, "tombstoned"}
Receipts == [state: States, gen: Nat, exp: Nat, by: Admins \cup {None}]
UpdatePcs == {"reserve", "write", "stage", "enter", "claim", "commit", "observe", "finalize",
              "delete", "orphan", "compensate", "undo", "undoDelete", "undoOrphan"}
Updates == [pc: UpdatePcs, mode: {"replace", "clear"}, tok: Tokens \cup {None}, exp: Nat,
            old: Tokens \cup {None}, claimed: BOOLEAN]

\* A receipt and its blob under a selection: of no later generation; before the
\* first selection an old one; and under the selected key if of its generation.
Opens(r, b, s) ==
    /\ r.gen <= s.gen
    /\ s.source = "unselected" => r.state \in {None, "active"}
    /\ s.source # "unselected" /\ r.state # None /\ r.gen = s.gen /\ b # None => b = s.key

KeyTyped ==
    /\ sel \in Selections
    /\ keyFile \in [Kids -> Material \cup {None, "bad"}]
    /\ env \in {None, "kEnv", "kNew", "bad"}
    /\ sel.source = "unselected" <=> sel.gen = 0
    /\ sel.source # "unselected" => sel.key \in Material
    /\ sel.source = "managed" => sel.kid \in Kids

StoreTyped ==
    /\ rcpt \in [Tokens -> Receipts]
    /\ blob \in [Tokens -> Material \cup {None}]
    /\ conf \in [rev: Nat, tok: Tokens \cup {None}]
    /\ \A t \in Tokens : Opens(rcpt[t], blob[t], sel)

KeyInv == KeyTyped /\ SelectedKeyIsDurable

\* A request for a key, as it goes on.
Asked(k) == DOMAIN k = {"pc", "kind", "key", "cand", "gen", "rev", "dig"}
Going == {"rotate", "activate"}

\* The journalled operation names a candidate.
Shaped(o) == DOMAIN o = {"kind", "purpose", "cand", "gen", "rev", "dig"}
OperationShape == op # NoOp => Shaped(op) /\ op.cand \in Kids

\* A request keeps what was checked for it, and goes on with it.
RequestInv ==
    /\ \/ kop.pc = "idle"
       \/ /\ kop.pc = "recover" /\ DOMAIN kop = {"pc", "todo"} /\ phase = "recover"
          /\ \A t \in Tokens : t \in kop.todo => rcpt[t].state # None
       \/ kop.pc \in {"prepare", "finish"} \cup Going /\ Asked(kop)
    /\ kop.pc \in {"prepare"} \cup Going /\ kop.kind = "restore" => kop.key \in Material
    /\ kop.pc \in Going /\ kop.kind = "restore" => sel.source = "unselected" \/ kop.key = sel.key
    /\ kop.pc \in Going /\ kop.kind = "adopt" => sel.source = "environment"
    /\ OperationShape

Working(u) == upd[u].pc \notin {"idle", "done"}
Held == {"claim", "commit", "observe", "finalize", "delete", "orphan", "compensate"}

\* What an update holds: its token is its own, stored before it is claimed, and
\* referred to only once it is committed; what it replaces is not.
UpdateFits(u, w) ==
    /\ w.pc \in Held => mutex = u
    /\ w.tok # None => rcpt[w.tok].by = u /\ rcpt[w.tok].state # None
    /\ w.mode = "clear" => w.tok = None
    /\ w.pc \in {"reserve", "write", "stage", "claim", "finalize"} => w.mode = "replace"
    /\ w.mode = "replace" /\ w.pc \in {"write", "stage", "enter", "claim", "commit", "finalize"} => w.tok # None
    /\ w.mode = "replace" /\ w.pc \in {"stage", "enter", "claim", "commit"} => blob[w.tok] # None
    /\ w.tok # None /\ conf.tok = w.tok =>
           w.pc \in {"finalize", "delete", "orphan"} \/ (w.pc = "observe" /\ conf.rev > w.exp)
    /\ w.old # None => rcpt[w.old].state # None
    /\ w.old # None /\ w.pc \in {"finalize", "delete", "orphan"} => conf.tok # w.old

UpdateInv ==
    /\ upd \in [Admins -> Updates \cup {NoUpd, [pc |-> "done"]}]
    /\ phase # "up" => \A u \in Admins : ~Working(u)
    /\ \A u \in Admins : Working(u) => UpdateFits(u, upd[u])
    /\ \A u, v \in Admins : Working(u) /\ Working(v) /\ upd[v].old # None => upd[v].old # upd[u].tok
    /\ ReferenceIsKept

VaultInv == KeyInv /\ StoreTyped /\ RequestInv /\ UpdateInv

\* Steps of a key operation.

\* What no key step takes from an update: its mutation, its quiet start.
PhaseGoes == phase' = phase \/ (phase = "starting" /\ phase' = "recover") \/ phase' = "up"
MutexStays == \A u \in Admins : mutex = u => mutex' = u

LEMMA UpdatesStay ==
    ASSUME UpdateInv, upd' = upd, blob' = blob, PhaseGoes, MutexStays,
           \A t \in Tokens : rcpt'[t].by = rcpt[t].by /\ (rcpt[t].state # None => rcpt'[t].state # None),
           conf \in [rev: Nat, tok: Tokens \cup {None}], conf' \in [rev: Nat, tok: Tokens \cup {None}],
           conf' = conf \/ (conf'.tok = None /\ conf'.rev >= conf.rev),
           ReferenceIsKept'
    PROVE  UpdateInv'
<1>1. \A u \in Admins : Working(u)' = Working(u)
  BY DEF Working
<1>2. phase' # "up" => \A u \in Admins : ~Working(u)'
  BY <1>1 DEF UpdateInv, PhaseGoes
<1>3. ASSUME NEW u \in Admins, Working(u)
      PROVE  UpdateFits(u, upd[u])'
  <2> DEFINE w == upd[u]
  <2>1. w \in Updates /\ UpdateFits(u, w)
    BY <1>3 DEF UpdateInv, Working, NoUpd
  <2>2. w.exp \in Nat /\ w.tok \in Tokens \cup {None} /\ w.old \in Tokens \cup {None} /\ conf.rev \in Nat /\ conf'.rev \in Nat
    BY <2>1 DEF Updates
  <2>3. upd'[u] = w
    OBVIOUS
  <2> HIDE DEF w
  <2>4. w.pc \in Held => mutex' = u
    BY <2>1 DEF UpdateFits, MutexStays
  <2>5. w.tok # None => rcpt'[w.tok].by = u /\ rcpt'[w.tok].state # None
    BY <2>1, <2>2 DEF UpdateFits
  <2>6. w.old # None => rcpt'[w.old].state # None
    BY <2>1, <2>2 DEF UpdateFits
  <2>7. w.tok # None /\ conf'.tok = w.tok => conf' = conf
    OBVIOUS
  <2>8. w.tok # None /\ conf'.tok = w.tok =>
           w.pc \in {"finalize", "delete", "orphan"} \/ (w.pc = "observe" /\ conf'.rev > w.exp)
    BY <2>1, <2>7 DEF UpdateFits
  <2>9. w.old # None /\ w.pc \in {"finalize", "delete", "orphan"} => conf'.tok # w.old
    BY <2>1 DEF UpdateFits
  <2>10. UpdateFits(u, w) => UpdateFits(u, w)'
    BY <2>3, <2>4, <2>5, <2>6, <2>8, <2>9 DEF UpdateFits, w
  <2> QED BY <2>1, <2>10 DEF w
<1>4. \A u, v \in Admins : Working(u)' /\ Working(v)' /\ upd'[v].old # None => upd'[v].old # upd'[u].tok
  BY <1>1 DEF UpdateInv
<1> QED BY <1>1, <1>2, <1>3, <1>4 DEF UpdateInv

\* A step that leaves keys, receipts and updates alone.
LEMMA QuietStep ==
    ASSUME VaultInv, UNCHANGED <<sel, keyFile, rcpt, blob, conf, upd>>, PhaseGoes, MutexStays,
           env' \in {None, "kEnv", "kNew", "bad"}, RequestInv'
    PROVE  VaultInv'
<1>1. KeyInv'
  BY DEF VaultInv, KeyInv, KeyTyped, SelectedKeyIsDurable
<1>2. StoreTyped'
  BY DEF VaultInv, StoreTyped, Opens
<1>3. ReferenceIsKept'
  BY DEF VaultInv, UpdateInv, ReferenceIsKept
<1>4. UpdateInv'
  BY <1>3, UpdatesStay DEF VaultInv, StoreTyped
<1> QED BY <1>1, <1>2, <1>4 DEF VaultInv

\* A request that goes on.
LEMMA RequestGoes ==
    ASSUME RequestInv, kop.pc \in {"prepare"} \cup Going, NEW p \in {"finish"} \cup Going, NEW c,
           KeyNext(p, c), OperationShape',
           p \in Going => sel' = sel,
           p \in Going /\ kop.kind = "restore" => sel.source = "unselected" \/ kop.key = sel.key,
           p \in Going /\ kop.kind = "adopt" => sel.source = "environment"
    PROVE  RequestInv'
<1>1. Asked(kop)
  BY DEF RequestInv, Going
<1>2. Asked(kop') /\ kop'.pc = p /\ kop'.kind = kop.kind /\ kop'.key = kop.key
  <2>1. kop' = [kop EXCEPT !.pc = p, !.cand = c]
    BY DEF KeyNext
  <2> QED BY <1>1, <2>1 DEF Asked
<1>3. kop.kind = "restore" => kop.key \in Material
  BY DEF RequestInv
<1> QED
  <2>1. kop'.pc # "idle" /\ kop'.pc # "recover" /\ kop'.pc \in {"finish"} \cup Going
    BY <1>2 DEF Going
  <2>2. kop'.pc \in {"prepare"} \cup Going /\ kop'.kind = "restore" => kop'.key \in Material
    BY <1>2, <1>3
  <2>3. kop'.pc \in Going /\ kop'.kind = "restore" => sel'.source = "unselected" \/ kop'.key = sel'.key
    BY <1>2
  <2>4. kop'.pc \in Going /\ kop'.kind = "adopt" => sel'.source = "environment"
    BY <1>2
  <2> QED BY <1>2, <2>1, <2>2, <2>3, <2>4 DEF RequestInv, Asked

\* A request that ends.
LEMMA RequestEnds ==
    ASSUME kop' = NoKop, OperationShape'
    PROVE  RequestInv'
    BY DEF RequestInv, NoKop, Going

\* A new candidate is a key file's name.
LEMMA Fresh ==
    ASSUME FreshKids # {}
    PROVE  FreshKid \in Kids
    BY DEF FreshKid, FreshKids

LEMMA JournalShape ==
    ASSUME FreshKids # {}, NEW kind, NEW purpose, NEW d, op' = Prepared(kind, purpose, FreshKid, d)
    PROVE  OperationShape'
<1> DEFINE c == FreshKid
<1>1. c \in Kids
  BY Fresh
<1>2. op' = [kind |-> kind, purpose |-> purpose, cand |-> c, gen |-> sel.gen, rev |-> sel.rev, dig |-> d]
  BY DEF Prepared
<1> HIDE DEF c
<1>3. Shaped(op') /\ op'.cand = c
  BY <1>2 DEF Shaped
<1> QED BY <1>1, <1>3 DEF OperationShape, Shaped

\* Receipts of the first selection open under the key that was checked for all.
LEMMA FirstOpens ==
    ASSUME KeyTyped, StoreTyped, sel.source = "unselected", NEW key, DecryptAll(key),
           rcpt' = GenerationOne, blob' = blob,
           sel'.gen = 1, sel'.source # "unselected", sel'.key = key
    PROVE  /\ rcpt' \in [Tokens -> Receipts]
           /\ \A t \in Tokens : Opens(rcpt'[t], blob'[t], sel') /\ rcpt'[t].state = rcpt[t].state /\ rcpt'[t].by = rcpt[t].by
<1>1. sel.gen = 0
  BY DEF KeyTyped
<1>2. ASSUME NEW t \in Tokens
      PROVE  /\ rcpt'[t] \in Receipts /\ rcpt'[t].gen = 1
             /\ rcpt'[t].state = rcpt[t].state /\ rcpt'[t].by = rcpt[t].by
  <2>1. rcpt[t] \in Receipts
    BY DEF StoreTyped
  <2>2. rcpt'[t] = [rcpt[t] EXCEPT !.gen = 1]
    BY DEF GenerationOne
  <2> QED BY <2>1, <2>2 DEF Receipts
<1>3. ASSUME NEW t \in Tokens
      PROVE  Opens(rcpt'[t], blob'[t], sel')
  <2>1. rcpt[t] \in Receipts /\ Opens(rcpt[t], blob[t], sel) /\ rcpt[t].gen \in Nat
    BY DEF StoreTyped, Receipts
  <2>2. rcpt[t].state # None => rcpt[t].state = "active"
    BY <2>1 DEF Opens
  <2>3. ~Retired(t)
    BY <1>1, <2>1 DEF Retired
  <2>4. rcpt[t].state # None => t \in Live
    BY <2>2, <2>3 DEF Live, Rows, LiveStates
  <2>5. rcpt[t].state # None => blob[t] = key
    BY <2>4 DEF DecryptAll
  <2> QED BY <1>2, <2>5 DEF Opens
<1>4. rcpt' \in [Tokens -> Receipts]
  BY <1>2 DEF GenerationOne
<1> QED BY <1>2, <1>3, <1>4

\* The same key and generation go on to open; a new generation has no receipts.
LEMMA StillOpens ==
    ASSUME StoreTyped, sel.source # "unselected", sel'.source # "unselected",
           sel'.gen = sel.gen, sel'.key = sel.key, rcpt' = rcpt, blob' = blob
    PROVE  \A t \in Tokens : Opens(rcpt'[t], blob'[t], sel')
  BY DEF StoreTyped, Opens

LEMMA NextOpens ==
    ASSUME KeyTyped, StoreTyped, sel'.source # "unselected", sel'.gen = sel.gen + 1,
           \A t \in Tokens : rcpt'[t].gen = rcpt[t].gen
    PROVE  \A t \in Tokens : Opens(rcpt'[t], blob'[t], sel')
<1> SUFFICES ASSUME NEW t \in Tokens PROVE Opens(rcpt'[t], blob'[t], sel')
  OBVIOUS
<1>1. rcpt[t].gen \in Nat /\ sel.gen \in Nat /\ rcpt[t].gen <= sel.gen
  BY DEF KeyTyped, StoreTyped, Selections, Receipts, Opens
<1>2. rcpt'[t].gen <= sel'.gen /\ rcpt'[t].gen # sel'.gen
  BY <1>1
<1> QED BY <1>2 DEF Opens

\* A step that selects a key and leaves the references in their states, or gives
\* them all up.
LEMMA SelectStep ==
    ASSUME VaultInv, KeyTyped', SelectedKeyIsDurable', RequestInv', rcpt' \in [Tokens -> Receipts],
           \A t \in Tokens : Opens(rcpt'[t], blob'[t], sel'),
           \A t \in Tokens : rcpt'[t].by = rcpt[t].by /\ (rcpt[t].state # None => rcpt'[t].state # None),
           UNCHANGED <<blob, upd, mutex, phase>>,
           \/ conf' = conf /\ \A t \in Tokens : rcpt'[t].state = rcpt[t].state
           \/ conf'.tok = None /\ conf'.rev >= conf.rev /\ conf' \in [rev: Nat, tok: Tokens \cup {None}]
    PROVE  VaultInv'
<1>1. StoreTyped'
  BY DEF VaultInv, StoreTyped
<1>2. ReferenceIsKept'
  BY DEF VaultInv, UpdateInv, StoreTyped, ReferenceIsKept
<1>3. UpdateInv'
  BY <1>1, <1>2, UpdatesStay DEF VaultInv, StoreTyped, PhaseGoes, MutexStays
<1> QED BY <1>1, <1>3 DEF VaultInv, KeyInv

LEMMA SelectEnvironmentHolds ==
    ASSUME VaultInv, SelectEnvironment, MayAdoptAtStart, env # "bad", kop.pc = "prepare",
           UNCHANGED <<env, upd, mutex, phase>>
    PROVE  VaultInv'
<1> DEFINE n == sel.rev + 1
<1> DEFINE k == env
<1>1. sel \in Selections /\ sel.source = "unselected" /\ DecryptAll(k) /\ k \in Material /\ n \in Nat
  BY DEF VaultInv, KeyInv, KeyTyped, MayAdoptAtStart, Material, Selections
<1>2. sel' = [sel EXCEPT !.source = "environment", !.key = k, !.gen = 1, !.rev = n]
  BY DEF SelectEnvironment
<1>3. rcpt' = GenerationOne /\ KeyNext("finish", kop.cand) /\ UNCHANGED <<op, keyFile, blob, conf>>
  BY DEF SelectEnvironment
<1>4. k = env /\ env' = env
  OBVIOUS
<1> HIDE DEF n, k
<1>5. sel' \in Selections /\ sel'.source = "environment" /\ sel'.gen = 1 /\ sel'.key = k
  BY <1>1, <1>2 DEF Selections
<1>6. KeyTyped' /\ SelectedKeyIsDurable'
  BY <1>1, <1>3, <1>4, <1>5 DEF VaultInv, KeyInv, KeyTyped, SelectedKeyIsDurable
<1>7. /\ rcpt' \in [Tokens -> Receipts]
      /\ \A t \in Tokens : Opens(rcpt'[t], blob'[t], sel') /\ rcpt'[t].state = rcpt[t].state /\ rcpt'[t].by = rcpt[t].by
  BY <1>1, <1>3, <1>5, FirstOpens DEF VaultInv, KeyInv
<1>8. OperationShape'
  BY <1>3 DEF VaultInv, RequestInv, OperationShape
<1>9. RequestInv'
  BY <1>3, <1>8, RequestGoes DEF VaultInv, Going
<1> QED BY <1>3, <1>6, <1>7, <1>9, SelectStep

LEMMA RestoreToEnvironmentHolds ==
    ASSUME VaultInv, RestoreToEnvironment, RestoreOk, env # None, kop.pc = "prepare", kop.kind = "restore",
           UNCHANGED <<env, upd, mutex, phase>>
    PROVE  VaultInv'
<1> DEFINE n == sel.rev + 1
<1> DEFINE k == env
<1> DEFINE g == IF sel.gen = 0 THEN 1 ELSE sel.gen
<1>1. sel \in Selections /\ DecryptAll(k) /\ k \in Material /\ n \in Nat /\ g \in Nat /\ g # 0
      /\ (sel.source = "unselected" <=> sel.gen = 0)
      /\ (sel.source # "unselected" => k = sel.key)
  BY DEF VaultInv, KeyInv, KeyTyped, RestoreOk, RequestInv, Selections
<1>2. sel' = [sel EXCEPT !.source = "environment", !.key = k, !.kid = None, !.gen = g, !.rev = n]
  BY DEF RestoreToEnvironment
<1>3. rcpt' = (IF sel.gen = 0 THEN GenerationOne ELSE rcpt) /\ KeyNext("finish", kop.cand)
      /\ UNCHANGED <<op, keyFile, blob, conf>>
  BY DEF RestoreToEnvironment
<1>4. k = env /\ env' = env /\ g = IF sel.gen = 0 THEN 1 ELSE sel.gen
  OBVIOUS
<1> HIDE DEF n, k, g
<1>5. sel' \in Selections /\ sel'.source = "environment" /\ sel'.gen = g /\ sel'.key = k
  BY <1>1, <1>2 DEF Selections
<1>6. KeyTyped' /\ SelectedKeyIsDurable'
  BY <1>1, <1>3, <1>4, <1>5 DEF VaultInv, KeyInv, KeyTyped, SelectedKeyIsDurable
<1>7. /\ rcpt' \in [Tokens -> Receipts]
      /\ \A t \in Tokens : Opens(rcpt'[t], blob'[t], sel')
      /\ \A t \in Tokens : rcpt'[t].state = rcpt[t].state /\ rcpt'[t].by = rcpt[t].by
  <2>1. CASE sel.gen = 0
    BY <1>1, <1>3, <1>4, <1>5, <2>1, FirstOpens DEF VaultInv, KeyInv
  <2>2. CASE sel.gen # 0
    <3>1. \A t \in Tokens : Opens(rcpt'[t], blob'[t], sel')
      BY <1>1, <1>3, <1>4, <1>5, <2>2, StillOpens DEF VaultInv
    <3> QED BY <1>3, <2>2, <3>1 DEF VaultInv, StoreTyped
  <2> QED BY <2>1, <2>2
<1>8. OperationShape'
  BY <1>3 DEF VaultInv, RequestInv, OperationShape
<1>9. RequestInv'
  BY <1>3, <1>8, RequestGoes DEF VaultInv, Going
<1> QED BY <1>3, <1>6, <1>7, <1>9, SelectStep

\* The material of a candidate that may be activated.
LEMMA CandidateMaterial ==
    ASSUME VaultInv, kop.pc = "activate", Journalled,
           kop.kind = "adopt" => env = sel.key,
           keyFile[op.cand] # "bad" \/ kop.kind \in {"restore", "adopt"}
    PROVE  op.cand \in Kids /\ CandidateKey \in Material
<1>1. op.cand \in Kids
  BY DEF Journalled, VaultInv, RequestInv, OperationShape
<1>2. keyFile[op.cand] \in Material \cup {None, "bad"}
  BY <1>1 DEF VaultInv, KeyInv, KeyTyped
<1>3. CASE kop.kind = "restore"
  BY <1>1, <1>3 DEF CandidateKey, VaultInv, RequestInv, Going
<1>4. CASE kop.kind = "adopt"
  <2>1. sel.source = "environment"
    BY <1>4 DEF VaultInv, RequestInv, Going
  <2>2. sel.key \in Material
    BY <2>1 DEF VaultInv, KeyInv, KeyTyped
  <2> QED BY <1>1, <1>4, <2>2 DEF CandidateKey
<1>5. CASE kop.kind # "restore" /\ kop.kind # "adopt"
  <2>1. CandidateKey = IF keyFile[op.cand] = None THEN op.cand ELSE keyFile[op.cand]
    BY <1>5 DEF CandidateKey
  <2> QED BY <1>1, <1>2, <1>5, <2>1 DEF Material
<1> QED BY <1>3, <1>4, <1>5

LEMMA ActivateHolds ==
    ASSUME VaultInv, Activate
    PROVE  VaultInv'
<1> DEFINE c == op.cand
<1> DEFINE k == CandidateKey
<1> DEFINE n == sel.rev + 1
<1> DEFINE g == CASE kop.kind = "adopt" -> sel.gen
                  [] kop.kind = "restore" -> IF sel.gen = 0 THEN 1 ELSE sel.gen
                  [] OTHER -> sel.gen + 1
<1>1. kop.pc = "activate" /\ Journalled /\ UNCHANGED <<blob, env, upd, mutex, phase>>
      /\ KeyNext("finish", c) /\ op' = NoOp
  BY DEF Activate, MayActivate
<1>2. /\ kop.kind = "adopt" => env = sel.key
      /\ kop.kind \in {"restore", "adopt"} => DecryptAll(k)
      /\ keyFile[c] \in {None, k} \ {"bad"}
  BY DEF Activate, MayActivate
<1>3. c \in Kids /\ k \in Material
  BY <1>1, <1>2, CandidateMaterial
<1>4. sel' = [source |-> "managed", kid |-> c, key |-> k, rev |-> n, gen |-> g]
  BY DEF Activate, SelectManaged
<1>5. keyFile' = [keyFile EXCEPT ![c] = IF keyFile[c] = None THEN k ELSE keyFile[c]]
  BY DEF Activate
<1>6. sel \in Selections /\ n \in Nat /\ sel.gen \in Nat /\ (sel.source = "unselected" <=> sel.gen = 0)
      /\ keyFile \in [Kids -> Material \cup {None, "bad"}]
  BY DEF VaultInv, KeyInv, KeyTyped, Selections
<1>7. /\ kop.kind = "restore" => sel.source = "unselected" \/ k = sel.key
      /\ kop.kind = "adopt" => sel.source = "environment" /\ k = sel.key
  BY <1>1, <1>2 DEF VaultInv, RequestInv, Going, CandidateKey
<1>8. /\ kop.kind = "adopt" => g = sel.gen
      /\ kop.kind = "restore" => g = IF sel.gen = 0 THEN 1 ELSE sel.gen
      /\ kop.kind \notin {"adopt", "restore"} => g = sel.gen + 1
  OBVIOUS
<1>9. g \in Nat /\ g # 0
  BY <1>6, <1>7, <1>8
<1>10. \/ kop.kind = "reset" /\ GiveUp
       \/ kop.kind # "reset" /\ rcpt' = (IF kop.kind = "restore" /\ sel.gen = 0 THEN GenerationOne ELSE rcpt) /\ conf' = conf
  BY DEF Activate
<1> HIDE DEF c, k, n, g
<1>11. sel' \in Selections /\ sel'.source = "managed" /\ sel'.kid = c /\ sel'.key = k /\ sel'.gen = g
  BY <1>3, <1>4, <1>6, <1>9 DEF Selections
<1>12. keyFile' \in [Kids -> Material \cup {None, "bad"}] /\ keyFile'[c] = k
  BY <1>2, <1>3, <1>5, <1>6 DEF Material
<1>13. KeyTyped' /\ SelectedKeyIsDurable'
  BY <1>1, <1>3, <1>9, <1>11, <1>12 DEF VaultInv, KeyInv, KeyTyped, SelectedKeyIsDurable
<1>14. RequestInv'
  BY <1>1, RequestGoes DEF VaultInv, OperationShape, Going
<1>15. CASE kop.kind = "reset"
  <2>1. \A t \in Tokens : /\ rcpt'[t] \in Receipts /\ rcpt'[t].gen = rcpt[t].gen /\ rcpt'[t].by = rcpt[t].by
                          /\ rcpt[t].state # None => rcpt'[t].state # None
    <3> SUFFICES ASSUME NEW t \in Tokens
                 PROVE  /\ rcpt'[t] \in Receipts /\ rcpt'[t].gen = rcpt[t].gen /\ rcpt'[t].by = rcpt[t].by
                        /\ rcpt[t].state # None => rcpt'[t].state # None
      OBVIOUS
    <3>1. rcpt[t] \in Receipts
      BY DEF VaultInv, StoreTyped
    <3>2. rcpt'[t] = rcpt[t] \/ rcpt'[t] = [rcpt[t] EXCEPT !.state = "tombstoned"]
      BY <1>10, <1>15 DEF GiveUp
    <3> QED BY <3>1, <3>2 DEF Receipts, States, None
  <2>2. rcpt' \in [Tokens -> Receipts]
    BY <1>10, <1>15, <2>1 DEF GiveUp
  <2>3. \A t \in Tokens : Opens(rcpt'[t], blob'[t], sel')
    BY <1>8, <1>11, <1>15, <2>1, NextOpens DEF VaultInv, KeyInv
  <2>4. conf'.tok = None /\ conf'.rev >= conf.rev /\ conf' \in [rev: Nat, tok: Tokens \cup {None}]
    <3> DEFINE m == conf.rev + 1
    <3>1. conf \in [rev: Nat, tok: Tokens \cup {None}] /\ conf.rev \in Nat /\ m \in Nat /\ m >= conf.rev
      BY DEF VaultInv, StoreTyped
    <3>2. conf' = IF conf.tok = None THEN conf ELSE [rev |-> m, tok |-> None]
      BY <1>10, <1>15 DEF GiveUp
    <3> HIDE DEF m
    <3> QED BY <3>1, <3>2
  <2> QED BY <1>1, <1>13, <1>14, <2>1, <2>2, <2>3, <2>4, SelectStep
<1>16. CASE kop.kind = "restore" /\ sel.gen = 0
  <2>1. rcpt' = GenerationOne /\ conf' = conf /\ sel'.gen = 1 /\ sel.source = "unselected"
    BY <1>6, <1>8, <1>10, <1>11, <1>16
  <2>2. DecryptAll(k)
    BY <1>2, <1>16
  <2>3. /\ rcpt' \in [Tokens -> Receipts]
        /\ \A t \in Tokens : Opens(rcpt'[t], blob'[t], sel') /\ rcpt'[t].state = rcpt[t].state /\ rcpt'[t].by = rcpt[t].by
    BY <1>1, <1>11, <2>1, <2>2, FirstOpens DEF VaultInv, KeyInv
  <2> QED BY <1>1, <1>13, <1>14, <2>1, <2>3, SelectStep
<1>17. CASE kop.kind # "reset" /\ ~(kop.kind = "restore" /\ sel.gen = 0)
  <2>1. rcpt' = rcpt /\ conf' = conf
    BY <1>10, <1>17
  <2>2. \A t \in Tokens : Opens(rcpt'[t], blob'[t], sel')
    <3>1. CASE kop.kind \in {"restore", "adopt"}
      <4>1. sel'.gen = sel.gen /\ sel'.key = sel.key /\ sel.source # "unselected"
        BY <1>6, <1>7, <1>8, <1>11, <1>17, <3>1
      <4> QED BY <1>1, <1>11, <2>1, <4>1, StillOpens DEF VaultInv
    <3>2. CASE kop.kind \notin {"restore", "adopt"}
      BY <1>8, <1>11, <2>1, <3>2, NextOpens DEF VaultInv, KeyInv
    <3> QED BY <3>1, <3>2
  <2> QED BY <1>1, <1>13, <1>14, <2>1, <2>2, SelectStep DEF VaultInv, StoreTyped
<1> QED BY <1>15, <1>16, <1>17

\* A candidate's file is written, and the request ends: the selected file is not it.
LEMMA FileStep ==
    ASSUME VaultInv, UNCHANGED <<sel, op, rcpt, blob, conf, env, upd>>, kop' = NoKop,
           mutex' = IF mutex = "key" THEN None ELSE mutex,
           phase' = IF phase = "starting" THEN "recover" ELSE phase,
           \/ keyFile' = keyFile
           \/ \E c \in Kids, v \in Material \cup {"bad"} :
                 keyFile[c] = None /\ keyFile' = [keyFile EXCEPT ![c] = v]
    PROVE  VaultInv'
<1>1. KeyTyped' /\ SelectedKeyIsDurable'
  <2>1. CASE keyFile' = keyFile
    BY <2>1 DEF VaultInv, KeyInv, KeyTyped, SelectedKeyIsDurable
  <2>2. CASE \E c \in Kids, v \in Material \cup {"bad"} :
                 keyFile[c] = None /\ keyFile' = [keyFile EXCEPT ![c] = v]
    <3>1. PICK c \in Kids, v \in Material \cup {"bad"} :
                 keyFile[c] = None /\ keyFile' = [keyFile EXCEPT ![c] = v]
      BY <2>2
    <3>2. None \notin Material
      BY VaultAssumption DEF VaultAssumption, Material, None
    <3>3. sel.source = "managed" => sel.kid \in Kids /\ keyFile[sel.kid] = sel.key /\ sel.key \in Material
      BY DEF VaultInv, KeyInv, KeyTyped, SelectedKeyIsDurable
    <3>4. sel.source = "managed" => sel.kid # c
      BY <3>1, <3>2, <3>3
    <3>5. keyFile' \in [Kids -> Material \cup {None, "bad"}]
      BY <3>1 DEF VaultInv, KeyInv, KeyTyped
    <3>6. SelectedKeyIsDurable'
      BY <3>1, <3>3, <3>4 DEF VaultInv, KeyInv, KeyTyped, SelectedKeyIsDurable
    <3> QED BY <3>5, <3>6 DEF VaultInv, KeyInv, KeyTyped
  <2> QED BY <2>1, <2>2
<1>2. StoreTyped'
  BY DEF VaultInv, StoreTyped, Opens
<1>3. ReferenceIsKept'
  BY DEF VaultInv, UpdateInv, ReferenceIsKept
<1>4. MutexStays
  BY VaultAssumption DEF VaultAssumption, MutexStays
<1>5. UpdateInv'
  BY <1>3, <1>4, UpdatesStay DEF VaultInv, StoreTyped, PhaseGoes
<1>6. RequestInv'
  BY RequestEnds DEF VaultInv, RequestInv, OperationShape
<1> QED BY <1>1, <1>2, <1>5, <1>6 DEF VaultInv, KeyInv

LEMMA TornHolds ==
    ASSUME VaultInv, ActivateTorn \/ RefuseActivate
    PROVE  VaultInv'
<1>1. UNCHANGED <<sel, op, rcpt, blob, conf, env, upd>> /\ kop' = NoKop /\ kop.pc = "activate"
      /\ mutex' = (IF mutex = "key" THEN None ELSE mutex)
      /\ phase' = (IF phase = "starting" THEN "recover" ELSE phase)
  BY DEF ActivateTorn, RefuseActivate
<1>2. CASE ActivateTorn
  <2>1. Journalled /\ keyFile[op.cand] = None /\ (kop.kind = "adopt" => env = sel.key)
        /\ \E v \in {CandidateKey, "bad"} : keyFile' = [keyFile EXCEPT ![op.cand] = v]
    BY <1>2 DEF ActivateTorn, MayActivate
  <2>2. op.cand \in Kids /\ CandidateKey \in Material
    <3>1. keyFile[op.cand] # "bad"
      BY <2>1 DEF None
    <3> QED BY <1>1, <2>1, <3>1, CandidateMaterial
  <2> QED BY <1>1, <2>1, <2>2, FileStep
<1>3. CASE RefuseActivate
  <2>1. CASE Journalled /\ kop.kind \in {"startup", "retry"}
    <3>1. keyFile' = [keyFile EXCEPT ![op.cand] = CandidateKey]
      BY <1>3, <2>1 DEF RefuseActivate
    <3>2. op.cand \in Kids
      BY <2>1 DEF Journalled, VaultInv, RequestInv, OperationShape
    <3>3. CASE keyFile[op.cand] = None
      <4>1. CandidateKey = op.cand
        BY <2>1, <3>3 DEF CandidateKey
      <4> QED BY <1>1, <3>1, <3>2, <3>3, <4>1, FileStep DEF Material
    <3>4. CASE keyFile[op.cand] # None
      <4>1. CandidateKey = keyFile[op.cand]
        BY <2>1, <3>4 DEF CandidateKey
      <4>2. keyFile' = keyFile
        BY <3>1, <4>1 DEF VaultInv, KeyInv, KeyTyped
      <4> QED BY <1>1, <4>2, FileStep
    <3> QED BY <3>3, <3>4
  <2>2. CASE ~(Journalled /\ kop.kind \in {"startup", "retry"})
    <3>1. keyFile' = keyFile
      BY <1>3, <2>2 DEF RefuseActivate
    <3> QED BY <1>1, <3>1, FileStep
  <2> QED BY <2>1, <2>2
<1> QED BY <1>2, <1>3

\* A request goes on and nothing else of the invariant moves.
LEMMA GoesQuietly ==
    ASSUME VaultInv, kop.pc \in {"prepare"} \cup Going, NEW p \in {"finish"} \cup Going, NEW c, KeyNext(p, c),
           UNCHANGED <<sel, keyFile, rcpt, blob, conf, env, upd, mutex, phase>>, OperationShape',
           p \in Going /\ kop.kind = "restore" => sel.source = "unselected" \/ kop.key = sel.key,
           p \in Going /\ kop.kind = "adopt" => sel.source = "environment"
    PROVE  VaultInv'
<1>1. RequestInv'
  BY RequestGoes DEF VaultInv
<1>2. PhaseGoes /\ MutexStays
  BY DEF PhaseGoes, MutexStays
<1>3. env' \in {None, "kEnv", "kNew", "bad"}
  BY DEF VaultInv, KeyInv, KeyTyped
<1> QED BY <1>1, <1>2, <1>3, QuietStep

LEMMA JournalHolds ==
    ASSUME VaultInv, kop.pc = "prepare", NEW kind, NEW purpose, Journal(kind, purpose),
           UNCHANGED <<env, upd, mutex, phase>>,
           kop.kind = "restore" => sel.source = "unselected" \/ kop.key = sel.key,
           kop.kind = "adopt" => sel.source = "environment"
    PROVE  VaultInv'
<1>1. FreshKids # {} /\ op' = Prepared(kind, purpose, FreshKid, Digest) /\ KeyNext("rotate", FreshKid)
      /\ UNCHANGED <<sel, keyFile, rcpt, blob, conf>>
  BY DEF Journal
<1>2. OperationShape'
  BY <1>1, JournalShape
<1> QED BY <1>1, <1>2, GoesQuietly DEF Going

LEMMA ResumeHolds ==
    ASSUME VaultInv, kop.pc \in {"prepare"} \cup Going, NEW p \in {"finish"} \cup Going, NEW c, KeyNext(p, c),
           UNCHANGED db, UNCHANGED <<env, upd, mutex, phase>>,
           p \in Going /\ kop.kind = "restore" => sel.source = "unselected" \/ kop.key = sel.key,
           p \in Going /\ kop.kind = "adopt" => sel.source = "environment"
    PROVE  VaultInv'
<1>1. UNCHANGED <<sel, op, keyFile, rcpt, blob, conf>>
  BY DEF db
<1>2. OperationShape'
  BY <1>1 DEF VaultInv, RequestInv, OperationShape
<1> QED BY <1>1, <1>2, GoesQuietly

\* A request ends, or another one begins.
LEMMA RequestStep ==
    ASSUME VaultInv, UNCHANGED <<sel, op, keyFile, rcpt, blob, conf, env, upd>>,
           PhaseGoes, MutexStays,
           \/ kop' = NoKop
           \/ /\ Asked(kop') /\ kop'.pc = "prepare"
              /\ kop'.kind = "restore" => kop'.key \in Material
    PROVE  VaultInv'
<1>1. OperationShape'
  BY DEF VaultInv, RequestInv, OperationShape
<1>2. RequestInv'
  <2>1. CASE kop' = NoKop
    BY <1>1, <2>1, RequestEnds
  <2>2. CASE Asked(kop') /\ kop'.pc = "prepare" /\ (kop'.kind = "restore" => kop'.key \in Material)
    BY <1>1, <2>2 DEF RequestInv, Going
  <2> QED BY <2>1, <2>2
<1>3. env' \in {None, "kEnv", "kNew", "bad"}
  BY DEF VaultInv, KeyInv, KeyTyped
<1> QED BY <1>2, <1>3, QuietStep

LEMMA RaiseHolds ==
    ASSUME VaultInv, KeyRaise
    PROVE  VaultInv'
<1>1. UNCHANGED <<sel, op, keyFile, rcpt, blob, conf, env, upd>> /\ kop' = NoKop /\ PhaseGoes
  BY DEF KeyRaise, db, PhaseGoes
<1>2. MutexStays
  BY VaultAssumption DEF VaultAssumption, MutexStays, KeyRaise
<1> QED BY <1>1, <1>2, RequestStep

LEMMA FinishHolds ==
    ASSUME VaultInv, FinishKey
    PROVE  VaultInv'
<1>1. UNCHANGED <<sel, op, keyFile, rcpt, blob, conf, env, upd>> /\ kop' = NoKop /\ PhaseGoes
  BY DEF FinishKey, db, PhaseGoes
<1>2. MutexStays
  BY VaultAssumption DEF VaultAssumption, MutexStays, FinishKey
<1> QED BY <1>1, <1>2, RequestStep

LEMMA AskHolds ==
    ASSUME VaultInv, NEW kind, NEW key, RequestKey(kind, key), kind = "restore" => key \in Material
    PROVE  VaultInv'
<1>1. UNCHANGED <<sel, op, keyFile, rcpt, blob, conf, env, upd, mutex, phase>>
  BY DEF RequestKey, db
<1>2. Asked(kop') /\ kop'.pc = "prepare" /\ kop'.kind = kind /\ kop'.key = key
  BY DEF RequestKey, Asked
<1> QED BY <1>1, <1>2, RequestStep DEF PhaseGoes, MutexStays

LEMMA EnterHoldsKey ==
    ASSUME VaultInv, EnterKey
    PROVE  VaultInv'
<1>1. UNCHANGED <<sel, op, keyFile, rcpt, blob, conf, env, upd, kop, phase>> /\ mutex = None /\ mutex' = "key"
  BY DEF EnterKey, db
<1>2. RequestInv'
  BY <1>1 DEF VaultInv, RequestInv, OperationShape
<1>3. MutexStays
  BY <1>1, VaultAssumption DEF VaultAssumption, MutexStays, None
<1>4. env' \in {None, "kEnv", "kNew", "bad"}
  BY <1>1 DEF VaultInv, KeyInv, KeyTyped
<1> QED BY <1>1, <1>2, <1>3, <1>4, QuietStep DEF PhaseGoes

LEMMA StartupHolds ==
    ASSUME VaultInv, StartupPrepare
    PROVE  VaultInv'
<1>1. kop.pc = "prepare" /\ kop.kind = "startup" /\ UNCHANGED <<env, upd, mutex, phase>>
  BY DEF StartupPrepare
<1>2. CASE Blocked
  BY <1>1, <1>2, ResumeHolds DEF Blocked, Going
<1>3. CASE Resume
  BY <1>1, <1>3, ResumeHolds DEF Resume, Going
<1>4. CASE SelectEnvironment /\ MayAdoptAtStart /\ env # "bad"
  BY <1>1, <1>4, SelectEnvironmentHolds
<1>5. CASE Journal("initialize", "legacy")
  BY <1>1, <1>5, JournalHolds
<1> QED BY <1>2, <1>3, <1>4, <1>5 DEF StartupPrepare

LEMMA PrepareHolds ==
    ASSUME VaultInv, PrepareKey
    PROVE  VaultInv'
<1>1. kop.pc = "prepare" /\ UNCHANGED <<env, upd, mutex, phase>>
  BY DEF PrepareKey
<1>2. CASE RetryPrepare
  <2>1. kop.kind = "retry"
    BY <1>2 DEF RetryPrepare
  <2>2. CASE Resume
    BY <1>1, <2>1, <2>2, ResumeHolds DEF Resume, Going
  <2>3. CASE kop' = [kop EXCEPT !.kind = "startup"] /\ UNCHANGED db
    <3>1. Asked(kop)
      BY <1>1 DEF VaultInv, RequestInv, Going
    <3>2. Asked(kop') /\ kop'.pc = "prepare" /\ kop'.kind = "startup"
      BY <1>1, <2>3, <3>1 DEF Asked
    <3> QED BY <1>1, <2>3, <3>2, RequestStep DEF db, PhaseGoes, MutexStays
  <2> QED BY <1>2, <2>2, <2>3 DEF RetryPrepare
<1>3. CASE RestorePrepare
  <2>1. kop.kind = "restore" /\ RestoreOk /\ (sel.source = "unselected" \/ kop.key = sel.key)
    BY <1>3 DEF RestorePrepare, RestoreOk
  <2>2. CASE Resume
    BY <1>1, <2>1, <2>2, ResumeHolds DEF Resume, Going
  <2>3. CASE env # None /\ RestoreToEnvironment
    BY <1>1, <2>1, <2>3, RestoreToEnvironmentHolds
  <2>4. CASE Journal("restore", "legacy")
    BY <1>1, <2>1, <2>4, JournalHolds
  <2> QED BY <1>3, <2>2, <2>3, <2>4 DEF RestorePrepare
<1>4. CASE AdoptPrepare
  <2>1. kop.kind = "adopt"
    BY <1>4 DEF AdoptPrepare
  <2>2. CASE Adopted /\ KeyNext("finish", kop.cand) /\ UNCHANGED db
    BY <1>1, <2>1, <2>2, ResumeHolds DEF Going
  <2>3. CASE AdoptOk /\ Resume
    <3>1. sel.source = "environment"
      BY <2>3 DEF AdoptOk
    <3> QED BY <1>1, <2>1, <2>3, <3>1, ResumeHolds DEF Resume, Going
  <2>4. CASE AdoptOk /\ Journal("restore", "environment_adoption")
    <3>1. sel.source = "environment"
      BY <2>4 DEF AdoptOk
    <3> QED BY <1>1, <2>1, <2>4, <3>1, JournalHolds
  <2> QED BY <1>4, <2>2, <2>3, <2>4 DEF AdoptPrepare
<1>5. CASE ResetPrepare
  <2>1. kop.kind = "reset"
    BY <1>5 DEF ResetPrepare
  <2>2. CASE Journal("reset", "legacy")
    BY <1>1, <2>1, <2>2, JournalHolds
  <2>3. CASE Resume
    BY <1>1, <2>1, <2>3, ResumeHolds DEF Resume, Going
  <2> QED BY <1>5, <2>2, <2>3 DEF ResetPrepare
<1> QED BY <1>2, <1>3, <1>4, <1>5 DEF PrepareKey

LEMMA RotateHolds ==
    ASSUME VaultInv, RotateCandidate
    PROVE  VaultInv'
<1>1. kop.pc = "rotate" /\ UNCHANGED <<env, upd, mutex, phase>> /\ Journalled
  BY DEF RotateCandidate
<1>2. /\ kop.kind = "restore" => sel.source = "unselected" \/ kop.key = sel.key
      /\ kop.kind = "adopt" => sel.source = "environment"
  BY <1>1 DEF VaultInv, RequestInv, Going
<1>3. CASE KeyNext("activate", op.cand) /\ UNCHANGED db
  BY <1>1, <1>2, <1>3, ResumeHolds DEF Going
<1>4. CASE Abandon
  <2> DEFINE c == FreshKid
  <2> DEFINE d == [Digest EXCEPT ![7] = @ \cup {op.cand}]
  <2>1. op' = [op EXCEPT !.cand = c, !.dig = d] /\ KeyNext("activate", c)
        /\ UNCHANGED <<sel, keyFile, rcpt, blob, conf>> /\ c \in Kids
    BY <1>4, Fresh DEF Abandon
  <2>2. Shaped(op)
    BY <1>1 DEF Journalled, VaultInv, RequestInv, OperationShape
  <2> HIDE DEF c, d
  <2>3. Shaped(op') /\ op'.cand = c
    BY <2>1, <2>2 DEF Shaped
  <2>4. OperationShape'
    BY <2>1, <2>3 DEF OperationShape, Shaped
  <2> QED BY <1>1, <1>2, <2>1, <2>4, GoesQuietly DEF Going
<1> QED BY <1>3, <1>4 DEF RotateCandidate

LEMMA KeyStepHolds ==
    ASSUME VaultInv, KeyStep
    PROVE  VaultInv'
<1>1. CASE \E kind \in {"retry", "adopt", "reset"} : RequestKey(kind, None)
  BY <1>1, AskHolds
<1>2. CASE \E key \in {"kEnv", "kNew", sel.key} \ {None} : RequestKey("restore", key)
  <2>1. PICK key \in {"kEnv", "kNew", sel.key} \ {None} : RequestKey("restore", key)
    BY <1>2
  <2>2. key \in Material
    BY <2>1 DEF VaultInv, KeyInv, KeyTyped, Selections, Material
  <2> QED BY <2>1, <2>2, AskHolds
<1>3. CASE EnterKey \/ StartupPrepare \/ PrepareKey
  BY <1>3, EnterHoldsKey, StartupHolds, PrepareHolds
<1>4. CASE RefusePrepare \/ RefuseRotate
  BY <1>4, RaiseHolds DEF RefusePrepare, RefuseRotate
<1>5. CASE RotateCandidate \/ FinishKey
  BY <1>5, RotateHolds, FinishHolds
<1>6. CASE Activate \/ ActivateTorn \/ RefuseActivate
  BY <1>6, ActivateHolds, TornHolds
<1> QED BY <1>1, <1>2, <1>3, <1>4, <1>5, <1>6 DEF KeyStep

\* Steps of an update.

Done == [pc |-> "done"]

Moved(u) == \E w \in Updates \cup {Done} : upd' = [upd EXCEPT ![u] = w]

\* What a step of update u leaves to the others, and to the references.
Yields(u) ==
    /\ UNCHANGED <<sel, op, keyFile, env, kop, phase>>
    /\ phase = "up"
    /\ Moved(u)
    /\ \A t \in Tokens : rcpt[t].state # None => rcpt'[t].state # None /\ rcpt'[t].by = rcpt[t].by
    /\ \A v \in Admins \ {u} : mutex = v => mutex' = v
    /\ \A t \in Tokens : blob[t] # None => blob'[t] # None
                                          \/ (Working(u) /\ (t = upd[u].tok \/ t = upd[u].old))
    /\ conf' = conf \/ (Working(u) /\ mutex = u /\ (conf'.tok = None \/ conf'.tok = upd[u].tok))

\* The update that made the step fits what it goes on with.
GoesOn(u) ==
    Working(u)' =>
       /\ UpdateFits(u, upd[u])'
       /\ upd'[u].old # None => upd'[u].old # upd'[u].tok
       /\ \/ upd'[u].tok = None
          \/ rcpt[upd'[u].tok].state = None
          \/ Working(u) /\ upd'[u].tok = upd[u].tok
       /\ \/ upd'[u].old = None
          \/ mutex = None /\ upd'[u].old = conf.tok
          \/ Working(u) /\ upd'[u].old = upd[u].old

LEMMA Apart ==
    ASSUME UpdateInv, NEW u \in Admins, NEW v \in Admins, u # v, Working(u), Working(v), upd[v].tok # None
    PROVE  upd[u].tok # upd[v].tok
  BY DEF UpdateInv, UpdateFits

LEMMA Enrolled ==
    ASSUME UpdateInv, NEW u \in Admins, Working(u)
    PROVE  /\ upd[u] \in Updates /\ UpdateFits(u, upd[u]) /\ phase = "up"
           /\ upd[u].exp \in Nat /\ upd[u].tok \in Tokens \cup {None} /\ upd[u].old \in Tokens \cup {None}
           /\ upd[u].pc \in UpdatePcs /\ upd[u].mode \in {"replace", "clear"}
           /\ upd[u].old # None => upd[u].old # upd[u].tok
<1>1. upd[u] \in Updates
  BY DEF UpdateInv, Working, NoUpd
<1> QED BY <1>1 DEF UpdateInv, Updates

LEMMA OthersFit ==
    ASSUME VaultInv, NEW u \in Admins, Yields(u), NEW v \in Admins, v # u, Working(v)
    PROVE  UpdateFits(v, upd[v])'
<1> DEFINE w == upd[v]
<1>1. UpdateFits(v, w) /\ w.tok \in Tokens \cup {None} /\ w.old \in Tokens \cup {None}
  BY Enrolled DEF VaultInv
<1>2. upd'[v] = w
  BY DEF Yields, Moved, VaultInv, UpdateInv
<1>3. w.tok # None /\ Working(u) => w.tok # upd[u].tok /\ w.tok # upd[u].old
  BY Apart DEF VaultInv, UpdateInv
<1> HIDE DEF w
<1>4. w.pc \in Held => mutex = v /\ mutex' = v
  BY <1>1 DEF Yields, UpdateFits
<1>5. w.tok # None => rcpt'[w.tok].by = v /\ rcpt'[w.tok].state # None
  BY <1>1 DEF UpdateFits, Yields
<1>6. w.tok # None /\ blob[w.tok] # None => blob'[w.tok] # None
  BY <1>1, <1>3 DEF Yields
<1>7. w.mode = "replace" /\ w.pc \in {"stage", "enter", "claim", "commit"} => blob'[w.tok] # None
  <2>1. w.mode = "replace" /\ w.pc \in {"stage", "enter", "claim", "commit"} => w.tok # None
    BY <1>1 DEF UpdateFits
  <2> QED BY <1>1, <1>6, <2>1 DEF UpdateFits
<1>8. w.tok # None /\ conf'.tok = w.tok => conf' = conf
  BY <1>3 DEF Yields
<1>9. w.tok # None /\ conf'.tok = w.tok =>
           w.pc \in {"finalize", "delete", "orphan"} \/ (w.pc = "observe" /\ conf'.rev > w.exp)
  BY <1>1, <1>8 DEF UpdateFits
<1>10. w.old # None => rcpt'[w.old].state # None
  BY <1>1 DEF UpdateFits, Yields
<1>11. w.old # None /\ w.pc \in {"finalize", "delete", "orphan"} => conf'.tok # w.old
  <2>1. w.pc \in {"finalize", "delete", "orphan"} => conf' = conf
    BY <1>4 DEF Held, Yields
  <2> QED BY <1>1, <2>1 DEF UpdateFits
<1>12. UpdateFits(v, w) => UpdateFits(v, upd[v])'
  BY <1>2, <1>4, <1>5, <1>7, <1>9, <1>10, <1>11 DEF UpdateFits
<1> QED BY <1>1, <1>12

LEMMA UpdateMoves ==
    ASSUME VaultInv, NEW u \in Admins, Yields(u), GoesOn(u), StoreTyped', ReferenceIsKept'
    PROVE  VaultInv'
<1>1. KeyInv'
  BY DEF VaultInv, KeyInv, KeyTyped, SelectedKeyIsDurable, Yields
<1>2. RequestInv'
  BY DEF VaultInv, RequestInv, OperationShape, Yields
<1>3. upd' \in [Admins -> Updates \cup {NoUpd, Done}]
  BY DEF VaultInv, UpdateInv, Yields, Moved, Done
<1>4. \A v \in Admins \ {u} : upd'[v] = upd[v] /\ Working(v)' = Working(v)
  BY DEF VaultInv, UpdateInv, Yields, Moved, Working
<1>5. \A v \in Admins : Working(v)' => UpdateFits(v, upd[v])'
  BY <1>4, OthersFit DEF GoesOn
<1>6. ASSUME NEW x \in Admins, NEW y \in Admins, Working(x)', Working(y)', upd'[y].old # None
      PROVE  upd'[y].old # upd'[x].tok
  <2>1. CASE x = u /\ y = u
    BY <1>6, <2>1 DEF GoesOn
  <2>2. CASE x # u /\ y # u
    <3>1. Working(x) /\ Working(y) /\ upd'[x] = upd[x] /\ upd'[y] = upd[y]
      BY <1>4, <1>6, <2>2
    <3> QED BY <1>6, <3>1 DEF VaultInv, UpdateInv
  <2>3. CASE x = u /\ y # u
    <3>1. Working(y) /\ upd'[y] = upd[y]
      BY <1>4, <1>6, <2>3
    <3>2. rcpt[upd[y].old].state # None
      BY <1>6, <3>1, Enrolled DEF VaultInv, UpdateFits
    <3>3. Working(u) => upd[y].old # upd[u].tok
      BY <1>6, <3>1 DEF VaultInv, UpdateInv
    <3> QED BY <1>6, <2>3, <3>1, <3>2, <3>3 DEF GoesOn
  <2>4. CASE x # u /\ y = u
    <3>1. Working(x) /\ upd'[x] = upd[x]
      BY <1>4, <1>6, <2>4
    <3>2. mutex = None => upd[x].tok = None \/ upd[x].tok # conf.tok
      <4>1. None \notin Admins
        BY VaultAssumption DEF VaultAssumption, None
      <4> QED BY <3>1, <4>1, Enrolled DEF VaultInv, UpdateFits, Held
    <3>3. Working(u) /\ upd[u].old # None => upd[u].old # upd[x].tok
      BY <3>1 DEF VaultInv, UpdateInv
    <3> QED BY <1>6, <2>4, <3>1, <3>2, <3>3 DEF GoesOn
  <2> QED BY <2>1, <2>2, <2>3, <2>4
<1>7. phase' = "up"
  BY DEF Yields
<1>8. UpdateInv'
  BY <1>3, <1>5, <1>6, <1>7 DEF UpdateInv, Done
<1> QED BY <1>1, <1>2, <1>8 DEF VaultInv

\* A receipt, or its blob, changes under a selected generation.
LEMMA ReceiptSet ==
    ASSUME StoreTyped, KeyTyped, NEW t \in Tokens, NEW s \in States, s # None, sel.source # "unselected",
           rcpt' = [rcpt EXCEPT ![t].state = s], rcpt[t].state # None,
           blob' = blob \/ blob' = [blob EXCEPT ![t] = None], sel' = sel, conf' = conf
    PROVE  /\ StoreTyped'
           /\ \A x \in Tokens : rcpt[x].state # None => rcpt'[x].state # None /\ rcpt'[x].by = rcpt[x].by
           /\ rcpt'[t].state = s
           /\ \A x \in Tokens \ {t} : rcpt'[x] = rcpt[x] /\ blob'[x] = blob[x]
<1>1. rcpt \in [Tokens -> Receipts] /\ rcpt[t] \in Receipts
  BY DEF StoreTyped
<1> DEFINE r == [rcpt[t] EXCEPT !.state = s]
<1>2. r \in Receipts /\ r.state = s /\ r.by = rcpt[t].by /\ r.gen = rcpt[t].gen
  BY <1>1 DEF Receipts
<1>3. rcpt' = [rcpt EXCEPT ![t] = r]
  OBVIOUS
<1> HIDE DEF r
<1>4. rcpt' \in [Tokens -> Receipts] /\ rcpt'[t] = r /\ \A x \in Tokens \ {t} : rcpt'[x] = rcpt[x]
  BY <1>1, <1>2, <1>3
<1>5. blob' \in [Tokens -> Material \cup {None}] /\ (blob'[t] = blob[t] \/ blob'[t] = None)
      /\ \A x \in Tokens \ {t} : blob'[x] = blob[x]
  BY DEF StoreTyped
<1>6. Opens(rcpt'[t], blob'[t], sel')
  BY <1>2, <1>4, <1>5 DEF StoreTyped, Opens
<1>7. \A x \in Tokens : Opens(rcpt'[x], blob'[x], sel')
  BY <1>4, <1>5, <1>6 DEF StoreTyped
<1> QED BY <1>2, <1>4, <1>5, <1>7 DEF StoreTyped


LEMMA PcSet ==
    ASSUME UpdateInv, NEW u \in Admins, Working(u), NEW p \in UpdatePcs, GoOn(u, p)
    PROVE  /\ Moved(u) /\ upd'[u].pc = p
           /\ upd'[u].mode = upd[u].mode /\ upd'[u].tok = upd[u].tok /\ upd'[u].exp = upd[u].exp
           /\ upd'[u].old = upd[u].old
<1>1. upd[u] \in Updates /\ u \in DOMAIN upd
  BY Enrolled DEF UpdateInv
<1> DEFINE w == [upd[u] EXCEPT !.pc = p]
<1>2. w \in Updates /\ w.pc = p /\ w.mode = upd[u].mode /\ w.tok = upd[u].tok /\ w.exp = upd[u].exp
      /\ w.old = upd[u].old
  BY <1>1 DEF Updates
<1>3. upd' = [upd EXCEPT ![u] = w]
  BY DEF GoOn
<1> HIDE DEF w
<1>4. upd'[u] = w
  BY <1>1, <1>3
<1>5. Moved(u)
  BY <1>2, <1>3 DEF Moved
<1> QED BY <1>2, <1>4, <1>5

\* The parts of Yields that a step with unchanged keys has still to show.
Beside == UNCHANGED <<sel, op, keyFile, env, kop, phase>>
Tended(u) ==
    /\ \A t \in Tokens : rcpt[t].state # None => rcpt'[t].state # None /\ rcpt'[t].by = rcpt[t].by
    /\ \A t \in Tokens : blob[t] # None => blob'[t] # None \/ t = upd[u].tok \/ t = upd[u].old

LEMMA Yielding ==
    ASSUME NEW u \in Admins, Beside, Tended(u), Moved(u), phase = "up",
           \A v \in Admins \ {u} : mutex = v => mutex' = v,
           blob' = blob \/ upd[u].pc \notin {"idle", "done"},
           \/ conf' = conf
           \/ upd[u].pc \notin {"idle", "done"} /\ mutex = u /\ (conf'.tok = None \/ conf'.tok = upd[u].tok)
    PROVE  Yields(u)
<1>1. UNCHANGED <<sel, op, keyFile, env, kop, phase>>
  BY DEF Beside
<1>2.  \A t \in Tokens : rcpt[t].state # None => rcpt'[t].state # None /\ rcpt'[t].by = rcpt[t].by
  BY DEF Tended
<1>3. \A t \in Tokens : blob[t] # None => blob'[t] # None
                                         \/ (Working(u) /\ (t = upd[u].tok \/ t = upd[u].old))
  <2>1. CASE blob' = blob
    BY <2>1
  <2>2. CASE upd[u].pc \notin {"idle", "done"}
    BY <2>2 DEF Tended, Working
  <2> QED BY <2>1, <2>2
<1>4. conf' = conf \/ (Working(u) /\ mutex = u /\ (conf'.tok = None \/ conf'.tok = upd[u].tok))
  BY DEF Working
<1> QED BY <1>1, <1>2, <1>3, <1>4 DEF Yields

LEMMA UpdateEnds ==
    ASSUME VaultInv, NEW u \in Admins, Working(u), FailWith(u, "done"), Beside, Tended(u),
           conf' = conf \/ (mutex = u /\ (conf'.tok = None \/ conf'.tok = upd[u].tok)),
           StoreTyped', ReferenceIsKept'
    PROVE  VaultInv'
<1>1. upd' = [upd EXCEPT ![u] = Done] /\ mutex' = (IF mutex = u THEN None ELSE mutex)
  <2>1. Finished(u) /\ mutex' = (IF mutex = u THEN None ELSE mutex)
    BY DEF FailWith
  <2> QED BY <2>1 DEF Finished, Done
<1>2. upd'[u] = Done
  BY <1>1 DEF VaultInv, UpdateInv
<1>3. ~Working(u)'
  BY <1>2 DEF Working, Done
<1>4. phase = "up"
  BY Enrolled DEF VaultInv
<1>5. Yields(u)
  <2>1. Moved(u)
    BY <1>1 DEF Moved
  <2>2. \A v \in Admins \ {u} : mutex = v => mutex' = v
    BY <1>1
  <2> QED BY <1>4, <2>1, <2>2, Yielding DEF Working
<1> QED BY <1>3, <1>5, UpdateMoves DEF GoesOn

LEMMA UpdateGoes ==
    ASSUME VaultInv, NEW u \in Admins, Working(u), NEW p \in UpdatePcs, GoOn(u, p), Beside, Tended(u),
           StoreTyped', ReferenceIsKept',
           \A v \in Admins \ {u} : mutex = v => mutex' = v,
           p \in Held => mutex' = u,
           p \in {"reserve", "write", "stage", "claim", "finalize"} => upd[u].mode = "replace",
           upd[u].mode = "replace" /\ p \in {"write", "stage", "enter", "claim", "commit", "finalize"} => upd[u].tok # None,
           upd[u].mode = "replace" /\ p \in {"stage", "enter", "claim", "commit"} => blob'[upd[u].tok] # None,
           upd[u].tok # None /\ conf'.tok = upd[u].tok =>
              p \in {"finalize", "delete", "orphan"} \/ (p = "observe" /\ conf'.rev > upd[u].exp),
           upd[u].old # None /\ p \in {"finalize", "delete", "orphan"} => conf'.tok # upd[u].old,
           conf' = conf \/ (mutex = u /\ (conf'.tok = None \/ conf'.tok = upd[u].tok))
    PROVE  VaultInv'
<1>1. /\ Moved(u) /\ upd'[u].pc = p
      /\ upd'[u].mode = upd[u].mode /\ upd'[u].tok = upd[u].tok /\ upd'[u].exp = upd[u].exp
      /\ upd'[u].old = upd[u].old
  BY PcSet DEF VaultInv
<1>2. /\ UpdateFits(u, upd[u]) /\ phase = "up" /\ upd[u].tok \in Tokens \cup {None} /\ upd[u].old \in Tokens \cup {None}
      /\ upd[u].old # None => upd[u].old # upd[u].tok
  BY Enrolled DEF VaultInv
<1>3. Yields(u)
  BY <1>1, <1>2, Yielding DEF Working
<1>4. upd[u].tok # None => rcpt'[upd[u].tok].by = u /\ rcpt'[upd[u].tok].state # None
  BY <1>2 DEF UpdateFits, Tended
<1>5. upd[u].old # None => rcpt'[upd[u].old].state # None
  BY <1>2 DEF UpdateFits, Tended
<1>6. upd[u].mode = "clear" => upd[u].tok = None
  BY <1>2 DEF UpdateFits
<1>7. UpdateFits(u, upd[u])'
  BY <1>1, <1>4, <1>5, <1>6 DEF UpdateFits
<1>8. GoesOn(u)
  BY <1>1, <1>2, <1>7 DEF GoesOn
<1> QED BY <1>3, <1>8, UpdateMoves

\* An update that fails before its commit goes to its compensation.
LEMMA UpdateFails ==
    ASSUME VaultInv, NEW u \in Admins, Working(u), FailWith(u, "undo"), Beside, Tended(u), UNCHANGED conf,
           upd[u].pc \notin {"finalize", "delete", "orphan", "observe"},
           StoreTyped', ReferenceIsKept'
    PROVE  VaultInv'
<1>1. GoOn(u, "undo") /\ (\A v \in Admins \ {u} : mutex = v => mutex' = v)
  BY DEF FailWith
<1>2. UpdateFits(u, upd[u])
  BY Enrolled DEF VaultInv
<1>3. ~(upd[u].tok # None /\ conf'.tok = upd[u].tok)
  BY <1>2 DEF UpdateFits
<1> QED BY <1>1, <1>3, UpdateGoes DEF Held, UpdatePcs

\* Steps that leave every receipt, blob and reference alone.
LEMMA Untouched ==
    ASSUME VaultInv, UNCHANGED <<sel, rcpt, blob, conf>>, NEW u \in Admins
    PROVE  StoreTyped' /\ ReferenceIsKept' /\ Tended(u)
  BY DEF VaultInv, StoreTyped, Opens, UpdateInv, ReferenceIsKept, Tended

LEMMA SubmitHolds ==
    ASSUME VaultInv, NEW u \in Admins, NEW mode \in {"replace", "clear"}, Submit(u, mode)
    PROVE  VaultInv'
<1> DEFINE e == conf.rev
<1> DEFINE p == IF mode = "replace" THEN "reserve" ELSE "enter"
<1> DEFINE w == [pc |-> p, mode |-> mode, tok |-> None, exp |-> e, old |-> None, claimed |-> FALSE]
<1>1. e \in Nat
  BY DEF VaultInv, StoreTyped
<1>2. phase = "up" /\ upd' = [upd EXCEPT ![u] = w] /\ Beside /\ UNCHANGED <<rcpt, blob, conf, mutex>>
  BY DEF Submit, Beside, Rest, db
<1>3. p \in {"reserve", "enter"} /\ (p = "enter" => mode = "clear") /\ (p = "reserve" => mode = "replace")
  OBVIOUS
<1> HIDE DEF e, p
<1>4. w \in Updates
  BY <1>1, <1>3 DEF Updates, UpdatePcs
<1>5. w.pc = p /\ w.mode = mode /\ w.tok = None /\ w.old = None
  OBVIOUS
<1> HIDE DEF w
<1>6. upd'[u] = w
  BY <1>2 DEF VaultInv, UpdateInv
<1>7. Tended(u) /\ StoreTyped' /\ ReferenceIsKept'
  BY <1>2, Untouched DEF Beside
<1>8. Yields(u)
  <2>1. Moved(u)
    BY <1>2, <1>4 DEF Moved
  <2> QED BY <1>2, <1>7, <2>1, Yielding
<1>9. UpdateFits(u, upd[u])'
  BY <1>3, <1>5, <1>6 DEF UpdateFits, Held
<1> QED BY <1>5, <1>6, <1>7, <1>8, <1>9, UpdateMoves DEF GoesOn

LEMMA CancelHolds ==
    ASSUME VaultInv, NEW u \in Admins, CancelUpdate(u)
    PROVE  VaultInv'
<1>1. Working(u) /\ FailWith(u, "done") /\ Beside /\ UNCHANGED <<rcpt, blob, conf>>
  BY DEF CancelUpdate, Working, Beside, Rest, db
<1>2. Tended(u) /\ StoreTyped' /\ ReferenceIsKept'
  BY <1>1, Untouched DEF Beside
<1> QED BY <1>1, <1>2, UpdateEnds

LEMMA ObserveHolds ==
    ASSUME VaultInv, NEW u \in Admins, Observe(u)
    PROVE  VaultInv'
<1>1. Working(u) /\ Beside /\ UNCHANGED <<rcpt, blob, conf>> /\ upd[u].pc = "observe"
  BY DEF Observe, Working, Beside, Rest, db
<1>2. CASE conf.rev > upd[u].exp /\ FailWith(u, "done")
  <2>1. Tended(u) /\ StoreTyped' /\ ReferenceIsKept'
    BY <1>1, Untouched DEF Beside
  <2> QED BY <1>1, <1>2, <2>1, UpdateEnds
<1>3. CASE ~(conf.rev > upd[u].exp) /\ GoOn(u, "compensate") /\ UNCHANGED mutex
  <2>1. UpdateFits(u, upd[u])
    BY <1>1, Enrolled DEF VaultInv
  <2>2. mutex = u /\ ~(upd[u].tok # None /\ conf'.tok = upd[u].tok)
    BY <1>1, <1>3, <2>1 DEF UpdateFits, Held
  <2>3. Tended(u) /\ StoreTyped' /\ ReferenceIsKept'
    BY <1>1, Untouched DEF Beside
  <2> QED BY <1>1, <1>3, <2>2, <2>3, UpdateGoes DEF UpdatePcs
<1> QED BY <1>2, <1>3 DEF Observe

\* A receipt of the update's own, or of what it replaces, is set.
Sets(u, t, s) ==
    /\ rcpt' = [rcpt EXCEPT ![t].state = s] /\ blob' = blob /\ Beside /\ conf' = conf
    /\ t \in Tokens /\ rcpt[t].state # None /\ sel.source # "unselected"
    /\ conf.tok = t => s \in {"claimed", "active"}

LEMMA SetHolds ==
    ASSUME VaultInv, NEW u \in Admins, NEW t, NEW s \in States, s # None, Sets(u, t, s)
    PROVE  Tended(u) /\ StoreTyped' /\ ReferenceIsKept'
<1>1. t \in Tokens /\ s # None /\ sel.source # "unselected" /\ rcpt' = [rcpt EXCEPT ![t].state = s]
      /\ rcpt[t].state # None /\ blob' = blob /\ conf' = conf /\ sel' = sel
  BY DEF Sets, Beside
<1>2. /\ StoreTyped'
      /\ \A x \in Tokens : rcpt[x].state # None => rcpt'[x].state # None /\ rcpt'[x].by = rcpt[x].by
      /\ rcpt'[t].state = s
      /\ \A x \in Tokens \ {t} : rcpt'[x] = rcpt[x] /\ blob'[x] = blob[x]
  BY <1>1, ReceiptSet DEF VaultInv, KeyInv
<1>3. Tended(u)
  BY <1>1, <1>2 DEF Tended
<1>4. ReferenceIsKept'
  BY <1>1, <1>2 DEF Sets, VaultInv, StoreTyped, UpdateInv, ReferenceIsKept
<1> QED BY <1>2, <1>3, <1>4

LEMMA StageHolds ==
    ASSUME VaultInv, NEW u \in Admins, Stage(u)
    PROVE  VaultInv'
<1> DEFINE t == upd[u].tok
<1>1. Working(u) /\ Beside /\ UNCHANGED <<blob, conf>> /\ upd[u].pc = "stage"
  BY DEF Stage, Working, Beside, Rest, Keep
<1>2. UpdateFits(u, upd[u]) /\ t \in Tokens \cup {None} /\ upd[u].mode \in {"replace", "clear"}
  BY <1>1, Enrolled DEF VaultInv
<1>3. CASE FailWith(u, "undo") /\ UNCHANGED rcpt
  <2>1. Tended(u) /\ StoreTyped' /\ ReferenceIsKept'
    BY <1>1, <1>3, Untouched DEF Beside
  <2> QED BY <1>1, <1>3, <2>1, UpdateFails
<1>4. CASE GenerationOk /\ SetState(t, "staged") /\ GoOn(u, "enter") /\ UNCHANGED mutex
  <2>1. t # None /\ rcpt[t].state # None /\ blob[t] # None /\ conf.tok # t /\ upd[u].mode = "replace"
    BY <1>1, <1>2 DEF UpdateFits
  <2>2. Sets(u, t, "staged")
    BY <1>1, <1>2, <1>4, <2>1 DEF Sets, SetState, GenerationOk
  <2>3. Tended(u) /\ StoreTyped' /\ ReferenceIsKept'
    BY <2>2, SetHolds DEF States, LiveStates, None
  <2> QED BY <1>1, <1>4, <2>1, <2>3, UpdateGoes DEF UpdatePcs, Held
<1> QED BY <1>3, <1>4 DEF Stage

LEMMA FinalizeHolds ==
    ASSUME VaultInv, NEW u \in Admins, FinalizeActive(u)
    PROVE  VaultInv'
<1> DEFINE t == upd[u].tok
<1>1. Working(u) /\ Beside /\ UNCHANGED <<blob, conf>> /\ upd[u].pc = "finalize"
  BY DEF FinalizeActive, Working, Beside, Rest, Keep
<1>2. UpdateFits(u, upd[u]) /\ t \in Tokens \cup {None} /\ upd[u].mode \in {"replace", "clear"}
  BY <1>1, Enrolled DEF VaultInv
<1>3. CASE FailWith(u, "done") /\ UNCHANGED rcpt
  <2>1. Tended(u) /\ StoreTyped' /\ ReferenceIsKept'
    BY <1>1, <1>3, Untouched DEF Beside
  <2> QED BY <1>1, <1>3, <2>1, UpdateEnds
<1>4. CASE MayFinalize(t) /\ SetState(t, "active") /\ GoOn(u, "delete") /\ UNCHANGED mutex
  <2>1. t # None /\ rcpt[t].state # None /\ mutex = u
        /\ (upd[u].old # None => conf.tok # upd[u].old)
    BY <1>1, <1>2 DEF UpdateFits, Held
  <2>2. Sets(u, t, "active")
    BY <1>1, <1>2, <1>4, <2>1 DEF Sets, SetState, MayFinalize, GenerationOk
  <2>3. Tended(u) /\ StoreTyped' /\ ReferenceIsKept'
    BY <2>2, SetHolds DEF States, LiveStates, None
  <2> QED BY <1>1, <1>4, <2>1, <2>3, UpdateGoes DEF UpdatePcs
<1> QED BY <1>3, <1>4 DEF FinalizeActive

LEMMA CompensateHolds ==
    ASSUME VaultInv, NEW u \in Admins, Compensate(u)
    PROVE  VaultInv'
<1> DEFINE t == upd[u].tok
<1>1. Working(u) /\ Beside /\ UNCHANGED <<blob, conf, mutex>> /\ upd[u].pc \in {"compensate", "undo"}
      /\ GoOn(u, "undoDelete")
  BY DEF Compensate, Working, Beside, Rest, Keep
<1>2. UpdateFits(u, upd[u]) /\ t \in Tokens \cup {None}
  BY <1>1, Enrolled DEF VaultInv
<1>3. t # None => conf.tok # t
  BY <1>1, <1>2 DEF UpdateFits
<1>4. Tended(u) /\ StoreTyped' /\ ReferenceIsKept'
  <2>1. CASE UNCHANGED rcpt
    BY <1>1, <2>1, Untouched DEF Beside
  <2>2. CASE t # None /\ (\E s \in {"claimed", "recoverable"} : Owned(u, s)) /\ SetState(t, "cas_conflict")
    <3>1. rcpt[t].state \in {"claimed", "recoverable"} /\ Opens(rcpt[t], blob[t], sel)
      BY <1>2, <2>2 DEF Owned, VaultInv, StoreTyped
    <3>2. sel.source # "unselected" /\ rcpt[t].state # None
      BY <3>1 DEF Opens, None
    <3>3. Sets(u, t, "cas_conflict")
      BY <1>1, <1>2, <1>3, <2>2, <3>2 DEF Sets, SetState
    <3> QED BY <3>3, SetHolds DEF States, LiveStates, None
  <2> QED BY <2>1, <2>2 DEF Compensate
<1> QED BY <1>1, <1>3, <1>4, UpdateGoes DEF UpdatePcs, Held

LEMMA OrphanHolds ==
    ASSUME VaultInv, NEW u \in Admins, MarkOrphan(u)
    PROVE  VaultInv'
<1> DEFINE t == Victim(u)
<1>1. Working(u) /\ Beside /\ UNCHANGED <<blob, conf>> /\ upd[u].pc \in {"orphan", "undoOrphan"}
      /\ FailWith(u, "done")
  BY DEF MarkOrphan, Working, Beside, Rest, Keep
<1>2. UpdateFits(u, upd[u]) /\ t \in Tokens \cup {None}
  BY <1>1, Enrolled DEF VaultInv, Victim
<1>3. t # None => conf.tok # t /\ rcpt[t].state # None
  BY <1>1, <1>2 DEF UpdateFits, Victim
<1>4. Tended(u) /\ StoreTyped' /\ ReferenceIsKept'
  <2>1. CASE UNCHANGED rcpt
    BY <1>1, <2>1, Untouched DEF Beside
  <2>2. CASE MayDelete(t) /\ rcpt[t].state # "tombstoned" /\ SetState(t, "orphan")
    <3>1. CASE t # None
      <4>1. Sets(u, t, "orphan")
        BY <1>1, <1>2, <1>3, <2>2, <3>1 DEF Sets, SetState, MayDelete, GenerationOk
      <4> QED BY <4>1, SetHolds DEF States, LiveStates, None
    <3>2. CASE t = None
      <4>1. None \notin Tokens
        BY VaultAssumption DEF VaultAssumption, None
      <4>2. UNCHANGED rcpt
        BY <2>2, <3>2, <4>1 DEF SetState, VaultInv, StoreTyped
      <4> QED BY <1>1, <4>2, Untouched DEF Beside
    <3> QED BY <3>1, <3>2
  <2> QED BY <2>1, <2>2 DEF MarkOrphan
<1> QED BY <1>1, <1>4, UpdateEnds

LEMMA ClaimHolds ==
    ASSUME VaultInv, NEW u \in Admins, Claim(u)
    PROVE  VaultInv'
<1> DEFINE t == upd[u].tok
<1>1. Working(u) /\ Beside /\ UNCHANGED <<blob, conf>> /\ upd[u].pc = "claim"
  BY DEF Claim, Working, Beside, Rest, Keep
<1>2. /\ UpdateFits(u, upd[u]) /\ t \in Tokens \cup {None} /\ upd[u] \in Updates /\ phase = "up"
      /\ upd[u].old \in Tokens \cup {None}
      /\ upd[u].old # None => upd[u].old # t
  BY <1>1, Enrolled DEF VaultInv
<1>3. CASE FailWith(u, "undo") /\ UNCHANGED rcpt
  <2>1. Tended(u) /\ StoreTyped' /\ ReferenceIsKept'
    BY <1>1, <1>3, Untouched DEF Beside
  <2> QED BY <1>1, <1>3, <2>1, UpdateFails
<1>4. CASE Claimable(t) /\ SetState(t, "claimed")
           /\ upd' = [upd EXCEPT ![u].pc = "commit", ![u].claimed = TRUE] /\ UNCHANGED mutex
  <2>1. t # None /\ rcpt[t].state # None /\ blob[t] # None /\ conf.tok # t /\ upd[u].mode = "replace" /\ mutex = u
        /\ rcpt[t].by = u /\ (upd[u].old # None => rcpt[upd[u].old].state # None)
    BY <1>1, <1>2 DEF UpdateFits, Held
  <2>2. Sets(u, t, "claimed")
    BY <1>1, <1>2, <1>4, <2>1 DEF Sets, SetState, Claimable, GenerationOk
  <2>3. Tended(u) /\ StoreTyped' /\ ReferenceIsKept'
    BY <2>2, SetHolds DEF States, LiveStates, None
  <2> DEFINE w == [upd[u] EXCEPT !.pc = "commit", !.claimed = TRUE]
  <2>4. w \in Updates /\ w.pc = "commit" /\ w.mode = "replace" /\ w.tok = t /\ w.old = upd[u].old
    BY <1>2, <2>1 DEF Updates, UpdatePcs
  <2>5. upd' = [upd EXCEPT ![u] = w]
    BY <1>4
  <2> HIDE DEF w
  <2>6. upd'[u] = w /\ Moved(u)
    BY <2>4, <2>5 DEF Moved, VaultInv, UpdateInv
  <2>7. Yields(u)
    BY <1>1, <1>2, <1>4, <2>3, <2>6, Yielding
  <2>8. rcpt'[t].by = u /\ rcpt'[t].state # None /\ (upd[u].old # None => rcpt'[upd[u].old].state # None)
    BY <1>2, <2>1, <2>3 DEF Tended
  <2>9. UpdateFits(u, upd[u])'
    BY <1>1, <1>4, <2>1, <2>4, <2>6, <2>8 DEF UpdateFits, Held
  <2>10. GoesOn(u)
    BY <1>1, <1>2, <2>4, <2>6, <2>9 DEF GoesOn
  <2> QED BY <2>3, <2>7, <2>10, UpdateMoves
<1> QED BY <1>3, <1>4 DEF Claim

LEMMA EnterUpdateHolds ==
    ASSUME VaultInv, NEW u \in Admins, EnterUpdate(u)
    PROVE  VaultInv'
<1> DEFINE t == upd[u].tok
<1>1. Working(u) /\ Beside /\ UNCHANGED <<rcpt, blob, conf>> /\ upd[u].pc = "enter" /\ mutex = None
  BY DEF EnterUpdate, Working, Beside, Rest, db
<1>2. UpdateFits(u, upd[u]) /\ t \in Tokens \cup {None} /\ upd[u] \in Updates /\ phase = "up"
      /\ upd[u].mode \in {"replace", "clear"}
  BY <1>1, Enrolled DEF VaultInv
<1>3. Tended(u) /\ StoreTyped' /\ ReferenceIsKept'
  BY <1>1, Untouched DEF Beside
<1>4. None \notin Admins
  BY VaultAssumption DEF VaultAssumption, None
<1>5. t # None => conf.tok # t
  BY <1>1, <1>2 DEF UpdateFits
<1>6. CASE GoOn(u, "undo") /\ UNCHANGED mutex
  BY <1>1, <1>3, <1>5, <1>6, UpdateGoes DEF UpdatePcs, Held
<1>7. CASE mutex' = u /\ upd' = [upd EXCEPT ![u].old = conf.tok,
                         ![u].pc = IF upd[u].mode = "replace" THEN "claim" ELSE "commit"]
  <2> DEFINE p == IF upd[u].mode = "replace" THEN "claim" ELSE "commit"
  <2> DEFINE o == conf.tok
  <2> DEFINE w == [upd[u] EXCEPT !.old = o, !.pc = p]
  <2>1. o \in Tokens \cup {None} /\ o = conf.tok
    BY DEF VaultInv, StoreTyped
  <2>2. p \in {"claim", "commit"} /\ (p = "claim" => upd[u].mode = "replace")
    BY <1>2
  <2>3. upd' = [upd EXCEPT ![u].old = o, ![u].pc = p]
    BY <1>7
  <2>4. o # None => rcpt[o].state # None
    BY DEF VaultInv, UpdateInv, ReferenceIsKept, None
  <2> HIDE DEF p, o
  <2>5. w \in Updates /\ w.pc = p /\ w.mode = upd[u].mode /\ w.tok = t /\ w.old = o
    BY <1>2, <2>1, <2>2 DEF Updates, UpdatePcs
  <2>6. upd' = [upd EXCEPT ![u] = w]
    BY <2>3
  <2> HIDE DEF w
  <2>7. upd'[u] = w /\ Moved(u)
    BY <2>5, <2>6 DEF Moved, VaultInv, UpdateInv
  <2>8. Yields(u)
    BY <1>1, <1>2, <1>3, <1>4, <1>7, <2>7, Yielding
  <2>9. /\ w.mode = "clear" => t = None
        /\ w.mode = "replace" => t # None /\ blob'[t] # None
        /\ t # None => rcpt'[t].by = u /\ rcpt'[t].state # None
    BY <1>1, <1>2, <2>5 DEF UpdateFits
  <2>10. UpdateFits(u, upd[u])'
    BY <1>1, <1>5, <1>7, <2>2, <2>4, <2>5, <2>7, <2>9 DEF UpdateFits, Held
  <2>11. GoesOn(u)
    BY <1>1, <1>5, <2>1, <2>5, <2>7, <2>10 DEF GoesOn
  <2> QED BY <1>3, <2>8, <2>11, UpdateMoves
<1> QED BY <1>6, <1>7 DEF EnterUpdate

LEMMA ReserveHolds ==
    ASSUME VaultInv, NEW u \in Admins, Reserve(u)
    PROVE  VaultInv'
<1>1. Working(u) /\ Beside /\ UNCHANGED <<blob, conf>> /\ upd[u].pc = "reserve"
  BY DEF Reserve, Working, Beside, Rest, Keep
<1>2. UpdateFits(u, upd[u]) /\ upd[u] \in Updates /\ phase = "up" /\ upd[u].exp \in Nat
      /\ upd[u].old \in Tokens \cup {None}
  BY <1>1, Enrolled DEF VaultInv
<1>3. CASE FailWith(u, "undo") /\ UNCHANGED rcpt
  <2>1. Tended(u) /\ StoreTyped' /\ ReferenceIsKept'
    BY <1>1, <1>3, Untouched DEF Beside
  <2> QED BY <1>1, <1>3, <2>1, UpdateFails
<1>4. CASE GenerationOk /\ Free # {} /\ UNCHANGED mutex
           /\ \E t \in Free :
                 /\ rcpt' = [rcpt EXCEPT ![t] = [state |-> "recoverable", gen |-> sel.gen,
                                                 exp |-> upd[u].exp, by |-> u]]
                 /\ upd' = [upd EXCEPT ![u].pc = "write", ![u].tok = t]
  <2> DEFINE g == sel.gen
  <2> DEFINE x == upd[u].exp
  <2>1. PICK t \in Free : /\ rcpt' = [rcpt EXCEPT ![t] = [state |-> "recoverable", gen |-> g, exp |-> x, by |-> u]]
                          /\ upd' = [upd EXCEPT ![u].pc = "write", ![u].tok = t]
    BY <1>4
  <2>2. t \in Tokens /\ rcpt[t].state = None /\ blob[t] = None /\ sel.source # "unselected"
    BY <1>4 DEF Free, GenerationOk
  <2>3. g \in Nat /\ x \in Nat /\ g = sel.gen
    BY <1>2 DEF VaultInv, KeyInv, KeyTyped, Selections
  <2> HIDE DEF g, x
  <2> DEFINE r == [state |-> "recoverable", gen |-> g, exp |-> x, by |-> u]
  <2>4. r \in Receipts /\ r.state = "recoverable" /\ r.gen = g /\ r.by = u /\ r.state # None
    BY <2>3 DEF Receipts, States, LiveStates, None
  <2>5. rcpt' = [rcpt EXCEPT ![t] = r]
    BY <2>1
  <2> HIDE DEF r
  <2>6. rcpt' \in [Tokens -> Receipts] /\ rcpt'[t] = r /\ \A y \in Tokens \ {t} : rcpt'[y] = rcpt[y]
    BY <2>2, <2>4, <2>5 DEF VaultInv, StoreTyped
  <2>7. Opens(rcpt'[t], blob'[t], sel')
    BY <1>1, <2>2, <2>3, <2>4, <2>6 DEF Opens, Beside
  <2>8. \A y \in Tokens : Opens(rcpt'[y], blob'[y], sel')
    BY <1>1, <2>6, <2>7 DEF VaultInv, StoreTyped, Beside
  <2>9. StoreTyped'
    BY <1>1, <2>6, <2>8 DEF VaultInv, StoreTyped
  <2>10. conf.tok # t
    BY <2>2, VaultAssumption DEF VaultInv, UpdateInv, ReferenceIsKept, VaultAssumption, None
  <2>11. ReferenceIsKept'
    BY <1>1, <2>6, <2>10 DEF VaultInv, StoreTyped, UpdateInv, ReferenceIsKept
  <2>12. Tended(u)
    BY <1>1, <2>2, <2>6 DEF Tended
  <2> DEFINE w == [upd[u] EXCEPT !.pc = "write", !.tok = t]
  <2>13. w \in Updates /\ w.pc = "write" /\ w.mode = upd[u].mode /\ w.tok = t /\ w.old = upd[u].old
    BY <1>2, <2>2 DEF Updates, UpdatePcs
  <2>14. upd' = [upd EXCEPT ![u] = w]
    BY <2>1
  <2> HIDE DEF w
  <2>15. upd'[u] = w /\ Moved(u)
    BY <2>13, <2>14 DEF Moved, VaultInv, UpdateInv
  <2>16. Yields(u)
    BY <1>1, <1>2, <1>4, <2>12, <2>15, Yielding
  <2>17. upd[u].old # None => rcpt[upd[u].old].state # None /\ upd[u].old # t
    BY <1>2, <2>2 DEF UpdateFits
  <2>18. upd[u].old # None => rcpt'[upd[u].old].state # None
    BY <1>2, <2>6, <2>17
  <2>19. w.mode = "replace"
    BY <1>1, <1>2, <2>13 DEF UpdateFits, Updates
  <2>20. UpdateFits(u, upd[u])'
    <3>1. rcpt'[t].by = u /\ rcpt'[t].state # None /\ conf'.tok # t
      BY <1>1, <2>4, <2>6, <2>10
    <3>2. w.pc = "write" /\ w.mode = "replace" /\ w.tok = t /\ t # None
      BY <2>2, <2>13, <2>19, VaultAssumption DEF VaultAssumption, None
    <3> QED BY <2>13, <2>15, <2>18, <3>1, <3>2 DEF UpdateFits, Held
  <2>21. GoesOn(u)
    BY <1>1, <2>2, <2>13, <2>15, <2>17, <2>20 DEF GoesOn
  <2> QED BY <2>9, <2>11, <2>16, <2>21, UpdateMoves
<1> QED
  <2>1. Free # {} => (CHOOSE f \in Free : TRUE) \in Free
    OBVIOUS
  <2> QED BY <1>3, <1>4, <2>1 DEF Reserve

LEMMA Handed ==
    ASSUME KeyTyped, GetKey # None
    PROVE  GetKey = sel.key /\ sel.source # "unselected" /\ sel.key \in Material
<1>1. GetKey = Reachable
  BY DEF GetKey
<1>2. CASE sel.source = "environment" /\ env = sel.key
  BY <1>1, <1>2 DEF Reachable, KeyTyped
<1>3. CASE sel.source = "managed" /\ keyFile[sel.kid] = sel.key /\ env \in {None, sel.key}
  BY <1>1, <1>3 DEF Reachable, KeyTyped
<1>4. CASE /\ ~(sel.source = "environment" /\ env = sel.key)
           /\ ~(sel.source = "managed" /\ keyFile[sel.kid] = sel.key /\ env \in {None, sel.key})
  BY <1>1, <1>4 DEF Reachable
<1> QED BY <1>2, <1>3, <1>4

LEMMA WriteHolds ==
    ASSUME VaultInv, NEW u \in Admins, WritePayload(u)
    PROVE  VaultInv'
<1> DEFINE t == upd[u].tok
<1>1. Working(u) /\ Beside /\ UNCHANGED <<rcpt, conf>> /\ upd[u].pc = "write"
  BY DEF WritePayload, Working, Beside, Rest, Keep
<1>2. UpdateFits(u, upd[u]) /\ t \in Tokens \cup {None} /\ upd[u].mode \in {"replace", "clear"}
  BY <1>1, Enrolled DEF VaultInv
<1>3. CASE FailWith(u, "undo") /\ UNCHANGED blob
  <2>1. Tended(u) /\ StoreTyped' /\ ReferenceIsKept'
    BY <1>1, <1>3, Untouched DEF Beside
  <2> QED BY <1>1, <1>3, <2>1, UpdateFails
<1>4. CASE GetKey # None /\ blob' = [blob EXCEPT ![t] = GetKey] /\ GoOn(u, "stage") /\ UNCHANGED mutex
  <2> DEFINE k == GetKey
  <2>1. k = sel.key /\ sel.source # "unselected" /\ k \in Material /\ k # None
    BY <1>4, Handed DEF VaultInv, KeyInv
  <2>2. blob' = [blob EXCEPT ![t] = k]
    BY <1>4
  <2> HIDE DEF k
  <2>3. t \in Tokens /\ conf.tok # t /\ upd[u].mode = "replace"
    BY <1>1, <1>2 DEF UpdateFits
  <2>4. blob' \in [Tokens -> Material \cup {None}] /\ blob'[t] = k /\ \A x \in Tokens \ {t} : blob'[x] = blob[x]
    BY <2>1, <2>2, <2>3 DEF VaultInv, StoreTyped
  <2>5. \A x \in Tokens : Opens(rcpt'[x], blob'[x], sel')
    <3>1. Opens(rcpt'[t], blob'[t], sel')
      BY <1>1, <2>1, <2>3, <2>4 DEF VaultInv, StoreTyped, Opens, Beside
    <3> QED BY <1>1, <2>4, <3>1 DEF VaultInv, StoreTyped, Beside
  <2>6. StoreTyped'
    BY <1>1, <2>4, <2>5 DEF VaultInv, StoreTyped
  <2>7. ReferenceIsKept'
    BY <1>1, <2>3, <2>4 DEF VaultInv, StoreTyped, UpdateInv, ReferenceIsKept
  <2>8. Tended(u)
    BY <1>1, <2>1, <2>4 DEF Tended
  <2>9. blob'[t] # None /\ t # None
    BY <2>1, <2>3, <2>4, VaultAssumption DEF VaultAssumption, None
  <2> QED BY <1>1, <1>4, <2>3, <2>6, <2>7, <2>8, <2>9, UpdateGoes DEF UpdatePcs, Held
<1> QED BY <1>3, <1>4 DEF WritePayload

\* A deletion, refused or not, of what nothing refers to.
LEMMA DeletedHolds ==
    ASSUME VaultInv, NEW t \in Tokens, Deleted(t), conf.tok # t, rcpt[t].state # None, UNCHANGED <<sel, conf>>
    PROVE  /\ StoreTyped' /\ ReferenceIsKept'
           /\ \A x \in Tokens : rcpt[x].state # None => rcpt'[x].state # None /\ rcpt'[x].by = rcpt[x].by
           /\ \A x \in Tokens \ {t} : blob'[x] = blob[x]
<1>1. CASE UNCHANGED <<blob, rcpt>>
  BY <1>1 DEF VaultInv, StoreTyped, UpdateInv, ReferenceIsKept
<1>2. CASE MayDelete(t) /\ (blob' = blob \/ blob' = [blob EXCEPT ![t] = None])
           /\ (SetState(t, "tombstoned") \/ SetState(t, "delete_failed"))
  <2>1. PICK s \in {"tombstoned", "delete_failed"} : rcpt' = [rcpt EXCEPT ![t].state = s]
    BY <1>2 DEF SetState
  <2>2. s \in States /\ s # None /\ sel.source # "unselected"
    BY <1>2 DEF States, LiveStates, None, MayDelete, GenerationOk
  <2>3. /\ StoreTyped'
        /\ \A x \in Tokens : rcpt[x].state # None => rcpt'[x].state # None /\ rcpt'[x].by = rcpt[x].by
        /\ \A x \in Tokens \ {t} : rcpt'[x] = rcpt[x] /\ blob'[x] = blob[x]
    BY <1>2, <2>1, <2>2, ReceiptSet DEF VaultInv, KeyInv
  <2>4. ReferenceIsKept'
    BY <2>3 DEF VaultInv, StoreTyped, UpdateInv, ReferenceIsKept
  <2> QED BY <2>3, <2>4
<1> QED BY <1>1, <1>2 DEF Deleted

LEMMA CleanUpHolds ==
    ASSUME VaultInv, NEW u \in Admins, CleanUp(u)
    PROVE  VaultInv'
<1> DEFINE t == Victim(u)
<1>1. Working(u) /\ Beside /\ UNCHANGED conf /\ upd[u].pc \in {"delete", "undoDelete"}
  BY DEF CleanUp, Working, Beside, Rest, Keep
<1>2. UpdateFits(u, upd[u]) /\ t \in Tokens \cup {None} /\ (t = upd[u].tok \/ t = upd[u].old)
  BY <1>1, Enrolled DEF VaultInv, Victim
<1>3. t # None => conf.tok # t /\ rcpt[t].state # None
  BY <1>1, <1>2 DEF UpdateFits, Victim
<1>4. CASE t = None
  <2>1. FailWith(u, "done") /\ UNCHANGED <<blob, rcpt>>
    BY <1>4 DEF CleanUp
  <2>2. Tended(u) /\ StoreTyped' /\ ReferenceIsKept'
    BY <1>1, <2>1, Untouched DEF Beside
  <2> QED BY <1>1, <2>1, <2>2, UpdateEnds
<1>5. CASE t # None
  <2>1. Deleted(t)
    BY <1>5 DEF CleanUp
  <2>2. sel' = sel
    BY <1>1 DEF Beside
  <2>3. /\ StoreTyped' /\ ReferenceIsKept'
        /\ \A x \in Tokens : rcpt[x].state # None => rcpt'[x].state # None /\ rcpt'[x].by = rcpt[x].by
        /\ \A x \in Tokens \ {t} : blob'[x] = blob[x]
    BY <1>1, <1>2, <1>3, <1>5, <2>1, <2>2, DeletedHolds
  <2>4. Tended(u)
    BY <1>2, <2>3 DEF Tended
  <2>5. CASE FailWith(u, "done")
    BY <1>1, <2>3, <2>4, <2>5, UpdateEnds
  <2>6. CASE GoOn(u, IF upd[u].pc = "delete" THEN "orphan" ELSE "undoOrphan") /\ UNCHANGED mutex
    <3>1. CASE upd[u].pc = "delete"
      <4>1. GoOn(u, "orphan") /\ mutex = u /\ (upd[u].old # None => conf.tok # upd[u].old)
        BY <1>2, <2>6, <3>1 DEF UpdateFits, Held
      <4> QED BY <1>1, <2>3, <2>4, <2>6, <4>1, UpdateGoes DEF UpdatePcs
    <3>2. CASE upd[u].pc = "undoDelete"
      <4>1. GoOn(u, "undoOrphan") /\ (upd[u].tok # None => conf.tok # upd[u].tok)
        BY <1>2, <2>6, <3>2 DEF UpdateFits
      <4> QED BY <1>1, <2>3, <2>4, <2>6, <4>1, UpdateGoes DEF UpdatePcs, Held
    <3> QED BY <1>1, <3>1, <3>2
  <2> QED BY <1>5, <2>5, <2>6 DEF CleanUp
<1> QED BY <1>4, <1>5

LEMMA CommitUpdateHolds ==
    ASSUME VaultInv, NEW u \in Admins, Commit(u)
    PROVE  VaultInv'
<1> DEFINE t == upd[u].tok
<1> DEFINE n == NewConf(u)
<1>1. Working(u) /\ Beside /\ UNCHANGED <<rcpt, blob>> /\ upd[u].pc = "commit"
  BY DEF Commit, Working, Beside, Rest, Keep
<1>2. /\ UpdateFits(u, upd[u]) /\ t \in Tokens \cup {None} /\ upd[u].mode \in {"replace", "clear"}
      /\ upd[u].exp \in Nat
      /\ upd[u].old # None => upd[u].old # upd[u].tok
  BY <1>1, Enrolled DEF VaultInv
<1>3. mutex = u /\ (t # None => conf.tok # t)
  BY <1>1, <1>2 DEF UpdateFits, Held
<1>4. conf \in [rev: Nat, tok: Tokens \cup {None}] /\ conf.rev \in Nat
  BY DEF VaultInv, StoreTyped
<1>5. /\ n \in [rev: Nat, tok: Tokens \cup {None}] /\ n.rev = conf.rev + 1
      /\ n.tok = IF upd[u].mode = "replace" THEN t ELSE None
  <2> DEFINE m == conf.rev + 1
  <2> DEFINE x == IF upd[u].mode = "replace" THEN t ELSE None
  <2>1. m \in Nat /\ x \in Tokens \cup {None} /\ n = [rev |-> m, tok |-> x]
    BY <1>2, <1>4 DEF NewConf
  <2> HIDE DEF m, x
  <2>2. n \in [rev: Nat, tok: Tokens \cup {None}] /\ n.rev = m /\ n.tok = x
    BY <2>1
  <2> QED BY <2>2 DEF m, x
<1>6. Tended(u)
  BY <1>1 DEF Tended
<1> HIDE DEF n
<1>7. ASSUME conf' = conf \/ (MayCommit(u) /\ conf' = n)
      PROVE  StoreTyped' /\ ReferenceIsKept'
             /\ (conf' = conf \/ (mutex = u /\ (conf'.tok = None \/ conf'.tok = t)))
  <2>1. CASE conf' = conf
    BY <1>1, <2>1, Untouched DEF Beside
  <2>2. CASE MayCommit(u) /\ conf' = n
    <3>1. StoreTyped'
      BY <1>1, <1>5, <2>2 DEF VaultInv, StoreTyped, Beside
    <3>2. upd[u].mode = "replace" => rcpt[t].state = "claimed" /\ blob[t] # None
      BY <1>1, <1>2, <2>2 DEF MayCommit, Owned, UpdateFits
    <3>3. ReferenceIsKept'
      BY <1>1, <1>5, <2>2, <3>2 DEF ReferenceIsKept
    <3> QED BY <1>3, <1>5, <2>2, <3>1, <3>3
  <2> QED BY <1>7, <2>1, <2>2
<1>8. CASE MayCommit(u) /\ conf' = n /\ UNCHANGED mutex
           /\ GoOn(u, IF upd[u].mode = "replace" THEN "finalize" ELSE "delete")
  <2>1. StoreTyped' /\ ReferenceIsKept' /\ (mutex = u /\ (conf'.tok = None \/ conf'.tok = t))
    BY <1>3, <1>5, <1>7, <1>8
  <2>2. CASE upd[u].mode = "replace"
    <3>1. GoOn(u, "finalize") /\ t # None /\ conf'.tok = t /\ mutex' = u
      BY <1>1, <1>2, <1>3, <1>5, <1>8, <2>2 DEF UpdateFits
    <3>2. upd[u].old # None => conf'.tok # upd[u].old
      BY <1>2, <3>1
    <3> QED BY <1>1, <1>3, <1>6, <2>1, <2>2, <3>1, <3>2, UpdateGoes DEF UpdatePcs
  <2>3. CASE upd[u].mode = "clear"
    <3>1. GoOn(u, "delete") /\ conf'.tok = None /\ mutex' = u
      BY <1>3, <1>5, <1>8, <2>3
    <3> QED BY <1>1, <1>3, <1>6, <2>1, <2>3, <3>1, UpdateGoes DEF UpdatePcs
  <2> QED BY <1>2, <2>2, <2>3
<1>9. CASE (conf' = conf \/ (MayCommit(u) /\ conf' = n)) /\ GoOn(u, "observe") /\ UNCHANGED mutex
  <2>1. StoreTyped' /\ ReferenceIsKept'
        /\ (conf' = conf \/ (mutex = u /\ (conf'.tok = None \/ conf'.tok = t)))
    BY <1>7, <1>9
  <2>2. t # None /\ conf'.tok = t => conf'.rev > upd[u].exp
    <3>1. CASE conf' = conf
      BY <1>3, <3>1
    <3>2. CASE MayCommit(u) /\ conf' = n
      BY <1>2, <1>4, <1>5, <3>2 DEF MayCommit
    <3> QED BY <1>9, <3>1, <3>2
  <2>3. mutex' = u
    BY <1>3, <1>9
  <2> QED BY <1>1, <1>3, <1>6, <1>9, <2>1, <2>2, <2>3, UpdateGoes DEF UpdatePcs
<1>10. CASE (conf' = conf \/ (MayCommit(u) /\ conf' = n)) /\ FailWith(u, "done")
  <2>1. StoreTyped' /\ ReferenceIsKept'
        /\ (conf' = conf \/ (mutex = u /\ (conf'.tok = None \/ conf'.tok = t)))
    BY <1>7, <1>10
  <2> QED BY <1>1, <1>6, <1>10, <2>1, UpdateEnds
<1> QED BY <1>8, <1>9, <1>10 DEF Commit, n

LEMMA UpdateStepHolds ==
    ASSUME VaultInv, NEW u \in Admins, UpdateStep(u)
    PROVE  VaultInv'
  BY SubmitHolds, ReserveHolds, WriteHolds, StageHolds, EnterUpdateHolds, ClaimHolds, CommitUpdateHolds, ObserveHolds,
     FinalizeHolds, CleanUpHolds, OrphanHolds, CompensateHolds, CancelHolds DEF UpdateStep

\* No update works, and keys, receipts and references stay.
LEMMA IdleStep ==
    ASSUME VaultInv, \A u \in Admins : ~Working(u), UNCHANGED <<sel, keyFile, rcpt, blob, conf, upd>>,
           env' \in {None, "kEnv", "kNew", "bad"}, RequestInv'
    PROVE  VaultInv'
<1>1. KeyInv'
  BY DEF VaultInv, KeyInv, KeyTyped, SelectedKeyIsDurable
<1>2. StoreTyped'
  BY DEF VaultInv, StoreTyped, Opens
<1>3. ReferenceIsKept'
  BY DEF VaultInv, UpdateInv, ReferenceIsKept
<1>4. \A u \in Admins : ~Working(u)'
  BY DEF Working
<1>5. UpdateInv'
  BY <1>3, <1>4 DEF VaultInv, UpdateInv
<1> QED BY <1>1, <1>2, <1>5 DEF VaultInv

LEMMA GrantHolds ==
    ASSUME VaultInv, GrantExpires \/ GrantRevoked
    PROVE  VaultInv'
<1>1. UNCHANGED <<sel, keyFile, rcpt, blob, conf, env, upd, kop, mutex, phase>> /\ (op' = op \/ op' = NoOp)
  BY DEF GrantExpires, GrantRevoked
<1>2. OperationShape'
  BY <1>1 DEF VaultInv, RequestInv, OperationShape
<1>3. RequestInv'
  BY <1>1, <1>2 DEF VaultInv, RequestInv
<1>4. env' \in {None, "kEnv", "kNew", "bad"}
  BY <1>1 DEF VaultInv, KeyInv, KeyTyped
<1> QED BY <1>1, <1>3, <1>4, QuietStep DEF PhaseGoes, MutexStays

LEMMA CrashHolds ==
    ASSUME VaultInv, Crash
    PROVE  VaultInv'
<1>1. /\ UNCHANGED <<sel, op, keyFile, rcpt, conf, env>> /\ kop' = NoKop
      /\ upd' = [u \in Admins |-> IF upd[u] = NoUpd THEN NoUpd ELSE Done]
  BY DEF Crash, Done
<1>2. \/ blob' = blob
      \/ \E t \in Tokens : blob' = [blob EXCEPT ![t] = None] /\ t # conf.tok
  <2>1. \/ blob' = blob
        \/ \E u \in Admins : /\ upd[u].pc \in {"delete", "undoDelete"} /\ Victim(u) # None
                             /\ blob' = [blob EXCEPT ![Victim(u)] = None]
    BY DEF Crash
  <2>2. ASSUME NEW u \in Admins, upd[u].pc \in {"delete", "undoDelete"}, Victim(u) # None
        PROVE  Victim(u) \in Tokens /\ Victim(u) # conf.tok
    <3>1. Working(u)
      BY <2>2 DEF Working
    <3>2. UpdateFits(u, upd[u]) /\ upd[u].tok \in Tokens \cup {None} /\ upd[u].old \in Tokens \cup {None}
      BY <3>1, Enrolled DEF VaultInv
    <3> QED BY <2>2, <3>2 DEF UpdateFits, Victim
  <2> QED BY <2>1, <2>2
<1>3. KeyInv'
  BY <1>1 DEF VaultInv, KeyInv, KeyTyped, SelectedKeyIsDurable
<1>4. /\ blob' \in [Tokens -> Material \cup {None}]
      /\ \A t \in Tokens : blob'[t] = blob[t] \/ (blob'[t] = None /\ t # conf.tok)
  BY <1>2 DEF VaultInv, StoreTyped
<1>5. StoreTyped'
  BY <1>1, <1>4 DEF VaultInv, StoreTyped, Opens
<1>6. ReferenceIsKept'
  BY <1>1, <1>4 DEF VaultInv, StoreTyped, UpdateInv, ReferenceIsKept
<1>7. OperationShape'
  BY <1>1 DEF VaultInv, RequestInv, OperationShape
<1>8. RequestInv'
  BY <1>1, <1>7, RequestEnds
<1>9. upd' \in [Admins -> Updates \cup {NoUpd, Done}] /\ \A u \in Admins : ~Working(u)'
  BY <1>1 DEF NoUpd, Done, Working
<1>10. UpdateInv'
  BY <1>6, <1>9 DEF UpdateInv, Done
<1> QED BY <1>3, <1>5, <1>8, <1>10 DEF VaultInv

LEMMA RestartHoldsKeys ==
    ASSUME VaultInv, Restart
    PROVE  VaultInv'
<1>1. /\ UNCHANGED <<sel, op, keyFile, rcpt, blob, conf, upd>> /\ phase = "down"
      /\ env' \in {None, "kEnv", "kNew", "bad"}
      /\ Asked(kop') /\ kop'.pc = "prepare" /\ kop'.kind = "startup"
  BY DEF Restart, db, Asked
<1>2. \A u \in Admins : ~Working(u)
  BY <1>1 DEF VaultInv, UpdateInv
<1>3. OperationShape'
  BY <1>1 DEF VaultInv, RequestInv, OperationShape
<1>4. RequestInv'
  BY <1>1, <1>3 DEF RequestInv, Going
<1> QED BY <1>1, <1>2, <1>4, IdleStep

LEMMA BeginHolds ==
    ASSUME VaultInv, BeginRecovery
    PROVE  VaultInv'
<1> DEFINE d == {t \in Tokens : t # grant.tok /\ rcpt[t].state \in PendingStates}
<1>1. UNCHANGED <<sel, op, keyFile, rcpt, blob, conf, env, upd, mutex, phase>> /\ phase = "recover"
      /\ kop' = [pc |-> "recover", todo |-> d]
  BY DEF BeginRecovery, db
<1>2. \A t \in Tokens : t \in d => rcpt[t].state # None
  BY DEF PendingStates, None
<1> HIDE DEF d
<1>3. kop'.pc = "recover" /\ DOMAIN kop' = {"pc", "todo"} /\ kop'.todo = d
  BY <1>1
<1>4. OperationShape'
  BY <1>1 DEF VaultInv, RequestInv, OperationShape
<1>5. RequestInv'
  BY <1>1, <1>2, <1>3, <1>4 DEF RequestInv, Going
<1>6. env' \in {None, "kEnv", "kNew", "bad"}
  BY <1>1 DEF VaultInv, KeyInv, KeyTyped
<1> QED BY <1>1, <1>5, <1>6, QuietStep DEF PhaseGoes, MutexStays

LEMMA EndHolds ==
    ASSUME VaultInv, EndRecovery
    PROVE  VaultInv'
<1>1. UNCHANGED <<sel, op, keyFile, rcpt, blob, conf, env, upd, mutex>> /\ kop' = NoKop /\ phase' = "up"
  BY DEF EndRecovery, db
<1> QED BY <1>1, RequestStep DEF PhaseGoes, MutexStays

LEMMA RecoverHolds ==
    ASSUME VaultInv, NEW t \in Tokens, RecoverOne(t)
    PROVE  VaultInv'
<1> DEFINE d == kop.todo \ {t}
<1>1. UNCHANGED <<sel, op, keyFile, conf, env, upd, mutex, phase>> /\ kop.pc = "recover" /\ t \in kop.todo
      /\ kop' = [kop EXCEPT !.todo = d]
  BY DEF RecoverOne, Keep
<1>2. DOMAIN kop = {"pc", "todo"} /\ phase = "recover" /\ \A x \in Tokens : x \in kop.todo => rcpt[x].state # None
  BY <1>1 DEF VaultInv, RequestInv, Going
<1>3. /\ StoreTyped' /\ ReferenceIsKept'
      /\ \A x \in Tokens : rcpt[x].state # None => rcpt'[x].state # None /\ rcpt'[x].by = rcpt[x].by
  <2>1. CASE conf.tok # t /\ Deleted(t)
    BY <1>1, <1>2, <2>1, DeletedHolds
  <2>2. CASE conf.tok = t /\ UNCHANGED blob /\ MayFinalize(t) /\ SetState(t, "active")
    <3>1. sel.source # "unselected" /\ rcpt' = [rcpt EXCEPT ![t].state = "active"] /\ rcpt[t].state # None
      BY <1>1, <1>2, <2>2 DEF MayFinalize, GenerationOk, SetState
    <3>2. "active" \in States /\ "active" # None
      BY DEF States, LiveStates, None
    <3>3. /\ StoreTyped'
          /\ \A x \in Tokens : rcpt[x].state # None => rcpt'[x].state # None /\ rcpt'[x].by = rcpt[x].by
          /\ rcpt'[t].state = "active"
      BY <1>1, <2>2, <3>1, <3>2, ReceiptSet DEF VaultInv, KeyInv
    <3>4. ReferenceIsKept'
      BY <1>1, <2>2, <3>3 DEF VaultInv, UpdateInv, ReferenceIsKept
    <3> QED BY <3>3, <3>4
  <2>3. CASE UNCHANGED <<blob, rcpt>>
    BY <1>1, <2>3 DEF VaultInv, StoreTyped, UpdateInv, ReferenceIsKept
  <2> QED BY <2>1, <2>2, <2>3 DEF RecoverOne
<1> HIDE DEF d
<1>4. kop'.pc = "recover" /\ DOMAIN kop' = {"pc", "todo"} /\ kop'.todo = d
  BY <1>1, <1>2
<1>5. \A x \in Tokens : x \in d => rcpt'[x].state # None
  BY <1>2, <1>3 DEF d
<1>6. OperationShape'
  BY <1>1 DEF VaultInv, RequestInv, OperationShape
<1>7. RequestInv'
  BY <1>1, <1>2, <1>4, <1>5, <1>6 DEF RequestInv, Going
<1>8. KeyInv'
  BY <1>1 DEF VaultInv, KeyInv, KeyTyped, SelectedKeyIsDurable
<1>9. \A u \in Admins : ~Working(u) /\ ~Working(u)'
  BY <1>1, <1>2 DEF VaultInv, UpdateInv, Working
<1>10. UpdateInv'
  BY <1>1, <1>3, <1>9 DEF VaultInv, UpdateInv
<1> QED BY <1>3, <1>7, <1>8, <1>10 DEF VaultInv

LEMMA VaultStep ==
    ASSUME VaultInv, Next
    PROVE  VaultInv'
  BY KeyStepHolds, UpdateStepHolds, GrantHolds, CrashHolds, RestartHoldsKeys, BeginHolds, EndHolds, RecoverHolds
     DEF Next

LEMMA VaultStarts == Init => VaultInv
<1> SUFFICES ASSUME Init PROVE VaultInv
  OBVIOUS
<1>1. sel = [source |-> "unselected", gen |-> 0, rev |-> 0, key |-> None, kid |-> None]
  BY DEF Init
<1>2. /\ sel \in Selections /\ sel.source = "unselected" /\ sel.gen = 0
  BY <1>1 DEF Selections
<1>3. KeyInv
  BY <1>2 DEF Init, KeyInv, KeyTyped, SelectedKeyIsDurable
<1>4. RequestInv
  BY DEF Init, RequestInv, OperationShape, NoKop, Going
<1>5. NoReceipt \in Receipts /\ NoReceipt.state = None /\ NoReceipt.gen = 0
  BY DEF NoReceipt, Receipts, States
<1>6. Legacy \in Receipts /\ Legacy.state = "active" /\ Legacy.gen = 0
  BY DEF Legacy, Receipts, States, LiveStates
<1>7. StoreTyped /\ ReferenceIsKept
  <2>1. CASE /\ rcpt = [t \in Tokens |-> NoReceipt] /\ blob = [t \in Tokens |-> None]
             /\ conf = [rev |-> 0, tok |-> None]
    <3>1. \A t \in Tokens : Opens(rcpt[t], blob[t], sel)
      BY <1>2, <1>5, <2>1 DEF Opens
    <3>2. conf \in [rev: Nat, tok: Tokens \cup {None}] /\ conf.tok = None
      BY <2>1
    <3> QED BY <1>5, <2>1, <3>1, <3>2 DEF StoreTyped, ReferenceIsKept
  <2>2. CASE \E g \in Tokens : /\ rcpt = [t \in Tokens |-> IF t = g THEN Legacy ELSE NoReceipt]
                               /\ blob = [t \in Tokens |-> IF t = g THEN "kEnv" ELSE None]
                               /\ conf = [rev |-> 1, tok |-> g] \/ conf = [rev |-> 0, tok |-> None]
    <3>1. PICK g \in Tokens : /\ rcpt = [t \in Tokens |-> IF t = g THEN Legacy ELSE NoReceipt]
                              /\ blob = [t \in Tokens |-> IF t = g THEN "kEnv" ELSE None]
                              /\ conf = [rev |-> 1, tok |-> g] \/ conf = [rev |-> 0, tok |-> None]
      BY <2>2
    <3>2. \A t \in Tokens : Opens(rcpt[t], blob[t], sel)
      BY <1>2, <1>5, <1>6, <3>1 DEF Opens
    <3>3. conf \in [rev: Nat, tok: Tokens \cup {None}] /\ (conf.tok = None \/ conf.tok = g)
      BY <3>1
    <3>4. rcpt \in [Tokens -> Receipts] /\ blob \in [Tokens -> Material \cup {None}]
      BY <1>5, <1>6, <3>1 DEF Material
    <3>5. rcpt[g].state = "active" /\ blob[g] # None
      BY <1>6, <3>1 DEF None
    <3> QED BY <3>2, <3>3, <3>4, <3>5 DEF StoreTyped, ReferenceIsKept
  <2>3. (CHOOSE t \in Tokens : TRUE) \in Tokens
    BY VaultAssumption DEF VaultAssumption
  <2> QED BY <2>1, <2>2, <2>3 DEF Init
<1>8. upd = [u \in Admins |-> NoUpd] /\ \A u \in Admins : ~Working(u)
  BY DEF Init, Working, NoUpd
<1>9. UpdateInv
  BY <1>7, <1>8 DEF UpdateInv
<1> QED BY <1>3, <1>4, <1>7, <1>9 DEF VaultInv

LEMMA VaultCovers ==
    ASSUME VaultInv
    PROVE  VaultHolds
<1>1. LiveSecretsOpen
  <2> SUFFICES ASSUME GetKey # None, NEW t \in Tokens,
                      rcpt[t].state \in LiveStates, rcpt[t].gen = sel.gen, blob[t] # None
               PROVE  blob[t] = GetKey
    BY DEF LiveSecretsOpen
  <2>1. GetKey = sel.key /\ sel.source # "unselected"
    BY Handed DEF VaultInv, KeyInv
  <2> QED BY <2>1 DEF VaultInv, StoreTyped, Opens, LiveStates, None
<1> QED BY <1>1 DEF VaultInv, KeyInv, UpdateInv, VaultHolds

\* However key operations, credential changes, commits that fail, crashes and
\* restarts interleave, a secret that is live can be opened, the reference a row
\* holds is kept, and the selected key is the durable one.
THEOREM VaultSound == MCSpec => []VaultIsSound
<1> DEFINE Vault == keeper = "vault" => VaultInv
<1>1. MCInit => Vault
  BY VaultStarts DEF MCInit
<1>2. Vault /\ [MCNext]_<<keeper, vars, loginVars, sourceVars>> => Vault'
  <2> SUFFICES ASSUME Vault, [MCNext]_<<keeper, vars, loginVars, sourceVars>>
               PROVE  Vault'
    OBVIOUS
  <2>1. CASE keeper = "vault" /\ MCNext /\ Next
    BY <2>1, VaultStep DEF MCNext
  <2>2. CASE keeper' = keeper /\ UNCHANGED vars
    <3>1. UNCHANGED <<sel, op, keyFile, rcpt, blob, conf, env, upd, kop, mutex, phase>> /\ keeper' = keeper
      BY <2>2 DEF vars, db
    <3>2. VaultInv => VaultInv'
      <4> SUFFICES ASSUME VaultInv PROVE VaultInv'
        OBVIOUS
      <4>1. RequestInv'
        BY <3>1 DEF VaultInv, RequestInv, OperationShape
      <4>2. env' \in {None, "kEnv", "kNew", "bad"}
        BY <3>1 DEF VaultInv, KeyInv, KeyTyped
      <4> QED BY <3>1, <4>1, <4>2, QuietStep DEF PhaseGoes, MutexStays
    <3> QED BY <3>1, <3>2
  <2> QED BY <2>1, <2>2 DEF MCNext
<1>3. Vault => VaultIsSound
  BY VaultCovers DEF VaultIsSound
<1> QED BY <1>1, <1>2, <1>3, PTL DEF MCSpec
=============================================================================
