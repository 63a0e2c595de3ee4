---------------------------- MODULE AccountLogin ----------------------------
(***************************************************************************)
(* Account authorization: the login sessions and the grant of one          *)
(* principal, module and account.  AuthorizationService holds, per build   *)
(* of the module's services, the session it began last; the database holds *)
(* the sessions by generation and the grant row by revision.               *)
(*                                                                         *)
(* A task carries one invocation.  Logins and revocations hold the         *)
(* admission mutation gate over several storage calls and over the         *)
(* external exchange; uses of the grant (a command, a dependency call, a   *)
(* scheduled run) take no gate and read the row twice.  An action is what  *)
(* runs between two awaits.  Time is a choice: a read may find a session    *)
(* or the grant past its expiry, and a check of the invocation's lease, of *)
(* a dependency's parent lease or of the conversation may fail.            *)
(***************************************************************************)
EXTENDS Naturals, Sequences, FiniteSets

CONSTANTS
    LoginTasks,      \* tasks with an invocation of the account's owner
    LoginServices,   \* AuthorizationService instances over one database
    MaxGenerations,  \* bound on login sessions
    MaxGrantRevision,\* bound on the grant row's revision
    MaxRestarts      \* bound on process restarts

NoTask == "nobody"

ASSUME LoginAssumption ==
    /\ IsFiniteSet(LoginTasks) /\ NoTask \notin LoginTasks
    /\ MaxGenerations \in Nat /\ MaxGrantRevision \in Nat /\ MaxRestarts \in Nat

VARIABLES
    sessions,    \* generation -> status of the login session
    grantRow,    \* the grants row: revision, status, secret (the login it is from)
    memory,      \* service -> _generations (gen) and _current_sessions (cur)
    accountGate, \* holder of AdmissionController.mutation
    account,     \* task -> invocation and coroutine
    voided,      \* history: generations closed by a revocation or a restart
    restarts

loginVars == <<sessions, grantRow, memory, accountGate, account, voided, restarts>>

Entrances == {"begin", "complete", "revoke"}

NoWork == [pc |-> "idle", svc |-> NoTask, ref |-> 0, gen |-> 0, expected |-> 0,
           secret |-> 0, past |-> FALSE]
NoMemory == [gen |-> 0, cur |-> 0]

AccountInit ==
    /\ sessions = <<>>
    /\ grantRow = [rev |-> 0, st |-> "none", secret |-> 0]
    /\ memory = [s \in LoginServices |-> NoMemory]
    /\ accountGate = NoTask
    /\ account = [t \in LoginTasks |-> NoWork]
    /\ voided = {}
    /\ restarts = 0

Ends(t) == account' = [account EXCEPT ![t] = NoWork]
Leaves(t) == Ends(t) /\ accountGate' = NoTask
Proceeds(t, pc) == account' = [account EXCEPT ![t].pc = pc] /\ UNCHANGED accountGate

\* current_grant: reading an active row past its expiry expires it in place.
ReadGrant(late) ==
    IF late /\ grantRow.st = "active" /\ grantRow.rev < MaxGrantRevision
    THEN [grantRow EXCEPT !.st = "expired", !.rev = @ + 1]
    ELSE grantRow

\* login_sessions.current: reading a pending session past its expiry expires it.
ReadSession(g, late) ==
    IF late /\ sessions[g] = "pending"
    THEN [sessions EXCEPT ![g] = "expired"]
    ELSE sessions

\* The update that closes whatever login is still pending.
Closed(as) == [g \in DOMAIN sessions |->
                  IF sessions[g] = "pending" THEN as ELSE sessions[g]]

-----------------------------------------------------------------------------
\* Invocations.

\* status_details, status: the module learns the reference of the one active,
\* unexpired grant whose secret can be read; the session the service
\* remembers is read, and expired if its time has passed.
Status(t, s, usable, late) ==
    /\ account[t].pc = "idle"
    /\ usable => grantRow.st = "active"
    /\ account' = [account EXCEPT ![t].pc = "issued",
                                  ![t].ref = IF usable THEN grantRow.rev ELSE 0]
    /\ sessions' = IF memory[s].cur = 0 THEN sessions
                   ELSE ReadSession(memory[s].cur, late)
    /\ UNCHANGED <<grantRow, memory, accountGate, voided, restarts>>

\* A lease, scope or conversation check fails before the gate is taken.
Denied(t) ==
    /\ account[t].pc \in {"issued"} \cup Entrances
    /\ Ends(t)
    /\ UNCHANGED <<sessions, grantRow, memory, accountGate, voided, restarts>>

\* _scope: an underived command reaches one of the account operations.
Request(t, op, s, g) ==
    /\ account[t].pc = "issued"
    /\ op = "complete" => g \in DOMAIN sessions
    /\ op # "complete" => g = 1
    /\ op = "revoke" => account[t].ref > 0
    /\ account' = [account EXCEPT ![t].pc = op, ![t].svc = s,
                                  ![t].gen = IF op = "complete" THEN g ELSE 0]
    /\ UNCHANGED <<sessions, grantRow, memory, accountGate, voided, restarts>>

\* Where an operation goes on once it holds the gate.
Inside == [begin |-> "begin_in", complete |-> "complete_in", revoke |-> "revoke_in"]

\* _mutation, then _check_live under the gate.
EnterGate(t) ==
    /\ account[t].pc \in Entrances
    /\ accountGate = NoTask
    /\ account' = [account EXCEPT ![t].pc = Inside[@],
                       ![t].expected = IF account[t].pc = "begin"
                                       THEN memory[account[t].svc].gen ELSE 0]
    /\ accountGate' = t
    /\ UNCHANGED <<sessions, grantRow, memory, voided, restarts>>

-----------------------------------------------------------------------------
\* Beginning a login.

\* next_generation refuses a generation that is not the last; the service
\* takes the actual one from the conflict and tries again.
GenerationConflict(t) ==
    /\ account[t].pc = "begin_in"
    /\ account[t].expected # Len(sessions)
    /\ account' = [account EXCEPT ![t].expected = Len(sessions)]
    /\ UNCHANGED <<sessions, grantRow, memory, accountGate, voided, restarts>>

Remembered(t, g) == [memory EXCEPT ![account[t].svc] = [gen |-> g, cur |-> g]]

\* next_generation: cancel what is pending, insert the next session.  The
\* service remembers it only if the invocation is still live.
NextGeneration(t, live) ==
    /\ account[t].pc = "begin_in"
    /\ account[t].expected = Len(sessions)
    /\ Len(sessions) < MaxGenerations
    /\ sessions' = Append(Closed("cancelled"), "pending")
    /\ memory' = IF live THEN Remembered(t, Len(sessions) + 1) ELSE memory
    /\ Leaves(t)
    /\ UNCHANGED <<grantRow, voided, restarts>>

-----------------------------------------------------------------------------
\* Completing a login.

\* The session is pending and in time and is the one this service remembers
\* (the conversation that began it is one of the checks that may fail).
CompleteAllowed(t, ss) ==
    LET g == account[t].gen  mem == memory[account[t].svc] IN
    /\ ss[g] = "pending"
    /\ mem.cur = g /\ mem.gen = g

CompleteRead(t, ok, late) ==
    /\ account[t].pc = "complete_in"
    /\ sessions' = ReadSession(account[t].gen, late)
    /\ IF ok /\ CompleteAllowed(t, sessions') THEN Proceeds(t, "verify") ELSE Leaves(t)
    /\ UNCHANGED <<grantRow, memory, voided, restarts>>

\* The external exchange answers with an active grant whose secret can be
\* read, or the login fails; the gate is held meanwhile.
VerifyExchange(t, ok) ==
    /\ account[t].pc = "verify"
    /\ IF ok THEN Proceeds(t, "plan") ELSE Leaves(t)
    /\ UNCHANGED <<sessions, grantRow, memory, voided, restarts>>

\* The row to write: an active grant under its own id is rotated, a revoked
\* row of the account is taken up again, an expired row under its own id is
\* a conflict, anything else is an insert at revision 1.  `same` says whether
\* the verifier answered with the row's id.
PlanGrant(t, same, late) ==
    /\ account[t].pc = "plan"
    /\ grantRow' = IF same THEN ReadGrant(late) ELSE grantRow
    /\ IF same /\ grantRow'.st = "expired"
       THEN Leaves(t)
       ELSE /\ account' = [account EXCEPT ![t].pc = "commit",
                  ![t].expected = IF grantRow'.st = "revoked" \/ (same /\ grantRow'.st = "active")
                                  THEN grantRow'.rev ELSE 0]
            /\ UNCHANGED accountGate
    /\ UNCHANGED <<sessions, memory, voided, restarts>>

\* repositories_auth.complete_login: the session must be the newest and pending.
SessionCompletes(g) == g = Len(sessions) /\ sessions[g] = "pending"

\* An insert meets neither an active row (conflict) nor another row of the
\* account (not unique); an update meets the revision it was planned for.
GrantAccepts(expected) ==
    IF expected = 0 THEN grantRow.st = "none"
    ELSE grantRow.rev = expected /\ grantRow.st \in {"active", "revoked"}

\* The service keeps the completed session unless it knows a newer one.
AfterCompletion(t) ==
    IF memory[account[t].svc].gen <= account[t].gen
    THEN Remembered(t, account[t].gen) ELSE memory

\* The session and the grant in one transaction, then the service's memory.
CompleteCommit(t) ==
    LET w == account[t] IN
    /\ w.pc = "commit"
    /\ SessionCompletes(w.gen) /\ GrantAccepts(w.expected)
    /\ w.expected < MaxGrantRevision
    /\ sessions' = [sessions EXCEPT ![w.gen] = "completed"]
    /\ grantRow' = [rev |-> w.expected + 1, st |-> "active", secret |-> w.gen]
    /\ memory' = AfterCompletion(t)
    /\ Leaves(t)
    /\ UNCHANGED <<voided, restarts>>

\* A check of the transaction fails, the session or the grant is past its
\* expiry, or _check_grant_key finds that the master key moved since the
\* secret was sealed: nothing is written.
CompleteRefused(t) ==
    /\ account[t].pc = "commit"
    /\ Leaves(t)
    /\ UNCHANGED <<sessions, grantRow, memory, voided, restarts>>

-----------------------------------------------------------------------------
\* Revocation.

RevokeRead(t, ok, late) ==
    /\ account[t].pc = "revoke_in"
    /\ grantRow' = ReadGrant(late)
    /\ IF ok /\ grantRow'.rev = account[t].ref /\ grantRow'.st # "revoked"
       THEN Proceeds(t, "revoking") ELSE Leaves(t)
    /\ UNCHANGED <<sessions, memory, voided, restarts>>

\* _revoke_grant_in_unit: the row is revoked and every pending login of the
\* owner is cancelled with it.
RevokeInUnit_KeepsLogins ==
    /\ grantRow' = [grantRow EXCEPT !.rev = @ + 1, !.st = "revoked"]
    /\ sessions' = sessions

RevokeInUnit ==
    /\ grantRow' = [grantRow EXCEPT !.rev = @ + 1, !.st = "revoked"]
    /\ sessions' = Closed("cancelled")

RevokeCommit(t) ==
    LET w == account[t] IN
    /\ w.pc = "revoking"
    /\ grantRow.rev = w.ref /\ grantRow.st = "active"
    /\ grantRow.rev < MaxGrantRevision
    /\ RevokeInUnit
    /\ memory' = [memory EXCEPT ![w.svc].cur = 0]
    /\ account' = [u \in LoginTasks |->
                      IF u = t THEN NoWork
                      ELSE [account[u] EXCEPT !.past = account[u].ref > 0]]
    /\ accountGate' = NoTask
    /\ voided' = voided \cup DOMAIN sessions
    /\ UNCHANGED restarts

RevokeRefused(t) ==
    /\ account[t].pc = "revoking"
    /\ Leaves(t)
    /\ UNCHANGED <<sessions, grantRow, memory, voided, restarts>>

-----------------------------------------------------------------------------
\* Uses of the grant: require_current_grant, require_dependency_grant and
\* require_scheduled_grant share the read, secret, read again sequence.

\* _current_grant refuses another revision than the invocation's.
SameGrant(row, t) == row.rev = account[t].ref

GrantIsCurrent(row, t) == SameGrant(row, t) /\ row.st = "active"

UseRead(t, ok, late) ==
    /\ account[t].pc = "issued" /\ account[t].ref > 0
    /\ grantRow' = ReadGrant(late)
    /\ IF ok /\ GrantIsCurrent(grantRow', t)
       THEN account' = [account EXCEPT ![t].pc = "secret", ![t].secret = grantRow.secret]
       ELSE Ends(t)
    /\ UNCHANGED <<sessions, memory, accountGate, voided, restarts>>

\* A dependency call checks the parent's and the child's lease at each step.
UseDependency(t, parent, child, late) == UseRead(t, parent /\ child, late)

\* A scheduled run takes no command scope: its own lease is what it checks.
UseScheduled(t, lease, late) == UseRead(t, lease, late)

\* _has_secret: the sealed value can be read, or not.
UseSecret(t, readable) ==
    /\ account[t].pc = "secret"
    /\ IF readable THEN Proceeds(t, "again") ELSE Ends(t) /\ UNCHANGED accountGate
    /\ UNCHANGED <<sessions, grantRow, memory, voided, restarts>>

\* The second read: same revision, still active, same secret.
UseAgain(t, ok, late) ==
    /\ account[t].pc = "again"
    /\ grantRow' = ReadGrant(late)
    /\ IF ok /\ GrantIsCurrent(grantRow', t) /\ grantRow.secret = account[t].secret
       THEN account' = [account EXCEPT ![t].pc = "granted"]
       ELSE Ends(t)
    /\ UNCHANGED <<sessions, memory, accountGate, voided, restarts>>

\* The caller goes on with the grant.
UseDone(t) ==
    /\ account[t].pc = "granted"
    /\ Ends(t)
    /\ UNCHANGED <<sessions, grantRow, memory, accountGate, voided, restarts>>

-----------------------------------------------------------------------------
\* CoreRuntime.start expires what the last process left pending; tasks and
\* services are gone with it.
RestartLogins ==
    /\ restarts < MaxRestarts
    /\ restarts' = restarts + 1
    /\ sessions' = Closed("expired")
    /\ memory' = [s \in LoginServices |-> NoMemory]
    /\ account' = [t \in LoginTasks |-> NoWork]
    /\ accountGate' = NoTask
    /\ voided' = voided \cup DOMAIN sessions
    /\ UNCHANGED grantRow

AccountNext ==
    \/ \E t \in LoginTasks, ok, late \in BOOLEAN :
          \/ \E s \in LoginServices : Status(t, s, ok, late)
          \/ CompleteRead(t, ok, late) \/ PlanGrant(t, ok, late)
          \/ RevokeRead(t, ok, late) \/ UseRead(t, ok, late)
          \/ \E child \in BOOLEAN : UseDependency(t, ok, child, late)
          \/ UseScheduled(t, ok, late) \/ UseAgain(t, ok, late)
    \/ \E t \in LoginTasks, ok \in BOOLEAN :
          NextGeneration(t, ok) \/ VerifyExchange(t, ok) \/ UseSecret(t, ok)
    \/ \E t \in LoginTasks :
          \/ \E op \in Entrances, s \in LoginServices, g \in 1..MaxGenerations : Request(t, op, s, g)
          \/ Denied(t) \/ EnterGate(t) \/ GenerationConflict(t)
          \/ CompleteCommit(t) \/ CompleteRefused(t)
          \/ RevokeCommit(t) \/ RevokeRefused(t) \/ UseDone(t)
    \/ RestartLogins

AccountSpec == AccountInit /\ [][AccountNext]_loginVars

-----------------------------------------------------------------------------
\* A login that was superseded by a newer one, or begun before a revocation
\* or a restart, never makes the grant active again: complete_login accepts
\* only the newest generation, and revocation and restart close the others.
LoginIsCurrent ==
    (grantRow'.st = "active" /\ grantRow'.rev # grantRow.rev) =>
           /\ grantRow'.secret = Len(sessions)
           /\ grantRow'.secret \notin voided

\* An invocation issued under a grant that was revoked since is never told it
\* holds a grant, not even after the account is authorized again
\* (_current_grant compares revisions and the read is repeated after the
\* secret).
RevokedStaysOut ==
    \A t \in LoginTasks :
          (account'[t].pc = "granted" /\ account[t].pc # "granted") => ~account[t].past
=============================================================================
