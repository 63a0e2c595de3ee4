---------------------------- MODULE SecretVault ----------------------------
(***************************************************************************)
(* Encrypted configuration secrets: the managed master key and its         *)
(* journal (infrastructure/managed_key_manager.py), the receipt ledger and *)
(* blob store (infrastructure/secret_store.py), the configuration update   *)
(* that stages, claims, commits and cleans up secrets                      *)
(* (services/configuration/operations.py, repositories_config.py) and the  *)
(* start-up recovery.  One sensitive field and one grant are modelled; a   *)
(* transaction is one action, and so is every file operation between two.  *)
(***************************************************************************)
EXTENDS Naturals, FiniteSets, TLC

CONSTANTS Admins,      \* concurrent configuration updates
          Tokens,      \* secret tokens, handed out once
          Kids,        \* managed key file ids, handed out once
          MaxRevision, \* selections after which no key change is asked for
          MaxCrashes,  \* process deaths
          MaxFaults    \* input/output errors and lost transaction results

ASSUME VaultAssumption ==
    /\ IsFiniteSet(Admins) /\ IsFiniteSet(Tokens) /\ IsFiniteSet(Kids)
    /\ {"none", "key"} \cap Admins = {} /\ "none" \notin Tokens \cup Kids
    /\ Tokens # {} /\ Kids # {}
    /\ MaxCrashes \in Nat /\ MaxFaults \in Nat /\ MaxRevision \in Nat

VARIABLES sel,        \* managed_master_key: the selected source and key
          op,         \* the operation in state 'preparing', or NoOp
          keyFile,    \* contents of master-<id>.key
          known,      \* ids recorded as retired or abandoned candidates
          resetSeen,  \* a reset operation has committed
          rcpt,       \* secret_receipts
          blob,       \* <token>.blob: the key it is encrypted under
          conf,       \* config_state revision and the entry's secret token
          grant,      \* one grants row holding a secret
          env,        \* YGL_SECRET_KEY of this process
          mem,        \* ManagedKeyManager._generation and _revision
          upd,        \* configuration updates in flight
          kop,        \* the key operation in flight
          mutex,      \* holder of admission.mutation
          phase,      \* the process: down, starting, recovering, up
          crashes, faults

db   == <<sel, op, keyFile, known, resetSeen, rcpt, blob, conf, grant>>
vars == <<db, env, mem, upd, kop, mutex, phase, crashes, faults>>

None == "none"

NoOp == [kind |-> None]
NoKop == [pc |-> "idle"]
NoUpd == [pc |-> "idle"]
Unset == <<>>

----------------------------------------------------------------------------
\* The inventory that every key operation checks and fences.

LiveStates == {"recoverable", "staged", "claimed", "active",
               "cas_conflict", "orphan", "delete_failed"}
Rows == {t \in Tokens : rcpt[t].state # None}

Retired(t) == resetSeen /\ rcpt[t].gen < sel.gen
Live == {t \in Rows : rcpt[t].state \in LiveStates /\ ~Retired(t)}
KeyNames == {k \in Kids : keyFile[k] # None}
PendingKid == IF op = NoOp THEN None ELSE op.cand
SelectedKid == IF sel.source = "managed" THEN sel.kid ELSE None

\* valid_reference: an active receipt of this generation whose file exists.
ValidReference(t) ==
    /\ rcpt[t].state = "active"
    /\ rcpt[t].gen = sel.gen
    /\ blob[t] # None

\* The unknown count of _inventory is positive.
Unknown ==
    \/ \E t \in Rows : Retired(t) /\ rcpt[t].state \in LiveStates
    \/ \E t \in Live : blob[t] = None
    \/ \E t \in {conf.tok, grant.tok} \ {None} : ~ValidReference(t)
    \/ \E k \in KeyNames : k \notin {PendingKid, SelectedKid} \cup known

\* What inventory_digest covers: everything but the pending candidate's file.
Digest == <<sel.gen, sel.source,
            [t \in Rows |-> <<rcpt[t].state, rcpt[t].gen>>],
            {t \in Tokens : blob[t] # None},
            conf.tok, grant, KeyNames \ {PendingKid}>>

DecryptAll_Referenced(key) == \A t \in Live \cap {conf.tok} : blob[t] = key
DecryptAll(key) == \A t \in Live : blob[t] = key

\* The key of the selection as this process can reach it, or None.
Reachable ==
    CASE sel.source = "environment" /\ env = sel.key -> sel.key
      [] /\ sel.source = "managed"
         /\ keyFile[sel.kid] = sel.key
         /\ env \in {None, sel.key} -> sel.key
      [] OTHER -> None

Ready == /\ ~Unknown
         /\ env # "bad"
         /\ op = NoOp
         /\ Reachable # None
         /\ DecryptAll(Reachable)

\* get_key: the material handed to the codec, or None when refused.
GetKey == IF mem = <<sel.gen, sel.rev>> /\ op = NoOp /\ env # "bad"
          THEN Reachable ELSE None

\* _key_generation_in: transactions of the store run only on the generation
\* and revision this process has confirmed.
GenerationOk == /\ sel.source # "unselected"
                /\ mem = <<sel.gen, sel.rev>>
                /\ op = NoOp

----------------------------------------------------------------------------
\* Key operations.  The request carries what an earlier status() returned.

FreshKids == Kids \ (KeyNames \cup known \cup {PendingKid, SelectedKid})
FreshKid == CHOOSE k \in FreshKids : TRUE
Prepared(kind, purpose, cand, dig) ==
    [kind |-> kind, purpose |-> purpose, cand |-> cand,
     gen |-> sel.gen, rev |-> sel.rev, dig |-> dig]
Expected == kop.gen = sel.gen /\ kop.rev = sel.rev /\ kop.dig = Digest
Journalled == op # NoOp /\ op.cand = kop.cand
              /\ <<op.gen, op.rev, op.dig>> = <<sel.gen, sel.rev, Digest>>
              /\ ~Unknown

\* Leaving with an error: nothing of the transaction is kept, and the key
\* manager does not confirm a new generation.
KeyRaise == /\ kop' = NoKop
            /\ mutex' = IF mutex = "key" THEN None ELSE mutex
            /\ phase' = IF phase = "starting" THEN "recover" ELSE phase
            /\ UNCHANGED <<db, env, mem, upd, crashes, faults>>

KeyNext(pc, cand) == kop' = [kop EXCEPT !.pc = pc, !.cand = cand]

\* An administrator reads the status and asks for a change with it.
RequestKey(kind, key) ==
    /\ phase = "up" /\ kop.pc = "idle"
    /\ kop' = [pc |-> "prepare", kind |-> kind, key |-> key, cand |-> None,
               gen |-> sel.gen, rev |-> sel.rev, dig |-> Digest]
    /\ UNCHANGED <<db, env, mem, upd, mutex, phase, crashes, faults>>

EnterKey == /\ kop.pc = "prepare" /\ kop.kind # "startup"
            /\ mutex = None /\ mutex' = "key"
            /\ UNCHANGED <<db, env, mem, upd, kop, phase, crashes, faults>>

\* A new candidate is journalled before any key file is written.
Journal(kind, purpose) ==
    /\ FreshKids # {}
    /\ op' = Prepared(kind, purpose, FreshKid, Digest)
    /\ KeyNext("rotate", FreshKid)
    /\ UNCHANGED <<sel, keyFile, known, resetSeen, rcpt, blob, conf, grant>>

Resume == /\ KeyNext("rotate", op.cand)
          /\ UNCHANGED db

GenerationOne == [t \in Tokens |-> [rcpt[t] EXCEPT !.gen = 1]]

\* startup's prepare: keep a ready selection, resume an interrupted
\* initialization, adopt a decrypting environment key, or begin a fresh one.
Blocked == KeyNext("finish", kop.cand) /\ UNCHANGED db
MayResume == /\ op # NoOp /\ op.kind = "initialize" /\ op.purpose = "legacy"
             /\ sel.source = "unselected" /\ env = None
             /\ Live = {} /\ \A t \in Tokens : blob[t] = None
             /\ op.dig = Digest
MayAdoptAtStart == op = NoOp /\ sel.source = "unselected"
                   /\ env # None /\ DecryptAll(env)
MayInitialize == /\ op = NoOp /\ sel.source = "unselected" /\ env = None
                 /\ Live = {} /\ KeyNames = {}
                 /\ \A t \in Tokens : blob[t] = None

SelectEnvironment ==
    /\ sel' = [sel EXCEPT !.source = "environment", !.key = env, !.gen = 1,
                          !.rev = @ + 1]
    /\ rcpt' = GenerationOne
    /\ KeyNext("finish", kop.cand)
    /\ UNCHANGED <<op, keyFile, known, resetSeen, blob, conf, grant>>

StartupPrepare ==
    /\ kop.pc = "prepare" /\ kop.kind = "startup"
    /\ IF Ready \/ Unknown \/ env = "bad" THEN Blocked
       ELSE IF MayResume THEN Resume
       ELSE IF MayAdoptAtStart THEN SelectEnvironment
       ELSE IF MayInitialize THEN Journal("initialize", "legacy")
       ELSE Blocked
    /\ UNCHANGED <<env, mem, upd, mutex, phase, crashes, faults>>

SameRequest == <<op.gen, op.rev, op.dig>> = <<kop.gen, kop.rev, kop.dig>>
\* retry: resume an interrupted initialization, or run startup again.
RetryOk == Expected /\ (op = NoOp \/ op.kind = "initialize")
RetryPrepare ==
    /\ kop.kind = "retry" /\ RetryOk
    /\ \/ op = NoOp /\ kop' = [kop EXCEPT !.kind = "startup"] /\ UNCHANGED db
       \/ op # NoOp /\ Resume

\* restore: the key must open every live secret; it becomes the environment
\* source at once, or a managed candidate file.
RestoreOk ==
    /\ Expected /\ ~Unknown
    /\ env \in {None, kop.key}
    /\ sel.source = "unselected" \/ kop.key = sel.key
    /\ DecryptAll(kop.key)
    /\ IF op = NoOp THEN env # None \/ sel.source # "environment"
       ELSE op.kind = "restore" /\ op.purpose = "legacy" /\ SameRequest
RestoreToEnvironment ==
    /\ sel' = [sel EXCEPT !.source = "environment", !.key = env, !.kid = None,
                          !.gen = IF @ = 0 THEN 1 ELSE @, !.rev = @ + 1]
    /\ known' = IF sel.source = "managed" THEN known \cup {sel.kid} ELSE known
    /\ rcpt' = IF sel.gen = 0 THEN GenerationOne ELSE rcpt
    /\ KeyNext("finish", kop.cand)
    /\ UNCHANGED <<op, keyFile, resetSeen, blob, conf, grant>>
RestorePrepare ==
    /\ kop.kind = "restore" /\ RestoreOk
    /\ \/ op # NoOp /\ Resume
       \/ op = NoOp /\ env # None /\ RestoreToEnvironment
       \/ op = NoOp /\ env = None /\ Journal("restore", "legacy")

\* adopt_environment: the selected environment key becomes a managed file.
Adopted == Expected /\ Ready /\ sel.source = "managed"
AdoptOk == /\ Expected /\ ~Unknown
           /\ sel.source = "environment" /\ env = sel.key
           /\ DecryptAll(env)
           /\ op # NoOp => op.purpose = "environment_adoption" /\ SameRequest
AdoptPrepare ==
    /\ kop.kind = "adopt"
    /\ \/ Adopted /\ KeyNext("finish", kop.cand) /\ UNCHANGED db
       \/ AdoptOk /\ op # NoOp /\ Resume
       \/ AdoptOk /\ op = NoOp /\ Journal("restore", "environment_adoption")

\* reset: a confirmed new key; every encrypted credential is given up.
ResetOk == /\ Expected /\ ~Unknown /\ sel.source # "environment" /\ env = None
           /\ op # NoOp => op.kind = "reset" /\ SameRequest
ResetPrepare ==
    /\ kop.kind = "reset" /\ ResetOk
    /\ \/ op = NoOp /\ Journal("reset", "legacy")
       \/ op # NoOp /\ Resume

PrepareKey ==
    /\ kop.pc = "prepare" /\ mutex = "key"
    /\ RetryPrepare \/ RestorePrepare \/ AdoptPrepare \/ ResetPrepare
    /\ UNCHANGED <<env, mem, upd, mutex, phase, crashes, faults>>
Refused == CASE kop.kind = "retry" -> ~RetryOk
             [] kop.kind = "restore" -> ~RestoreOk
             [] kop.kind = "adopt" -> ~Adopted /\ ~AdoptOk
             [] kop.kind = "reset" -> ~ResetOk
             [] OTHER -> FALSE
RefusePrepare == /\ kop.pc = "prepare" /\ mutex = "key"
                 /\ Refused
                 /\ KeyRaise

\* _rotate_abandoned_candidate: a half written candidate file is never reused.
Abandon ==
    /\ FreshKids # {}
    /\ known' = known \cup {op.cand}
    /\ op' = [op EXCEPT !.cand = FreshKid,
                        !.dig = [Digest EXCEPT ![7] = @ \cup {op.cand}]]
    /\ KeyNext("activate", FreshKid)
    /\ UNCHANGED <<sel, keyFile, resetSeen, rcpt, blob, conf, grant>>
RotateCandidate ==
    /\ kop.pc = "rotate"
    /\ Journalled
    /\ IF keyFile[op.cand] = "bad" THEN Abandon
       ELSE KeyNext("activate", op.cand) /\ UNCHANGED db
    /\ UNCHANGED <<env, mem, upd, mutex, phase, crashes, faults>>
RefuseRotate == kop.pc = "rotate" /\ ~Journalled /\ KeyRaise

\* The material the candidate must hold: fresh, or the key being kept.
CandidateKey == CASE kop.kind = "restore" -> kop.key
                  [] kop.kind = "adopt" -> env
                  [] OTHER -> IF keyFile[op.cand] = None THEN op.cand
                              ELSE keyFile[op.cand]

\* What activate checks after the journal: the environment is as the
\* operation needs it, the key opens everything it keeps, and a candidate
\* file that is already there holds that very key.
MayActivate ==
    /\ Journalled
    /\ IF kop.kind = "adopt" THEN env = sel.key ELSE env = None
    /\ kop.kind \in {"restore", "adopt"} => DecryptAll(CandidateKey)
    /\ keyFile[op.cand] \in {None, CandidateKey} \ {"bad"}

SelectManaged ==
    [source |-> "managed", kid |-> op.cand, key |-> CandidateKey,
     rev |-> sel.rev + 1,
     gen |-> CASE kop.kind = "adopt" -> sel.gen
               [] kop.kind = "restore" -> IF sel.gen = 0 THEN 1 ELSE sel.gen
               [] OTHER -> sel.gen + 1]

\* reset gives up every reference and every receipt in the same transaction.
GiveUp ==
    /\ conf' = IF conf.tok = None THEN conf
               ELSE [rev |-> conf.rev + 1, tok |-> None]
    /\ grant' = IF grant.tok = None THEN grant
                ELSE [status |-> IF grant.status = "active" THEN "unavailable"
                                 ELSE grant.status,
                      rev |-> grant.rev + 1, tok |-> None]
    /\ rcpt' = [t \in Tokens |-> IF t \in Rows
                                 THEN [rcpt[t] EXCEPT !.state = "tombstoned"]
                                 ELSE rcpt[t]]
    /\ resetSeen' = TRUE

Activate ==
    /\ kop.pc = "activate" /\ MayActivate
    /\ sel' = SelectManaged
    /\ keyFile' = [keyFile EXCEPT ![op.cand] = IF @ = None THEN CandidateKey ELSE @]
    /\ known' = IF sel.source = "managed" THEN known \cup {sel.kid} ELSE known
    /\ op' = NoOp
    /\ \/ kop.kind = "reset" /\ GiveUp
       \/ /\ kop.kind # "reset"
          /\ rcpt' = IF kop.kind = "restore" /\ sel.gen = 0 THEN GenerationOne
                     ELSE rcpt
          /\ UNCHANGED <<conf, grant, resetSeen>>
    /\ KeyNext("finish", op.cand)
    /\ UNCHANGED <<blob, env, mem, upd, mutex, phase, crashes, faults>>

\* The candidate file is written inside the transaction, which then fails:
\* the file stays, whole or half written, and the journal still names it.
ActivateTorn_AfterCommit ==
    /\ kop.pc = "activate" /\ MayActivate /\ keyFile[op.cand] = None
    /\ faults < MaxFaults /\ faults' = faults + 1
    /\ sel' = SelectManaged /\ op' = NoOp
    /\ \E v \in {CandidateKey, "bad"} :
           keyFile' = [keyFile EXCEPT ![op.cand] = v]
    /\ kop' = NoKop
    /\ mutex' = IF mutex = "key" THEN None ELSE mutex
    /\ phase' = IF phase = "starting" THEN "recover" ELSE phase
    /\ UNCHANGED <<known, resetSeen, rcpt, blob, conf, grant, env, mem, upd, crashes>>
ActivateTorn ==
    /\ kop.pc = "activate" /\ MayActivate /\ keyFile[op.cand] = None
    /\ faults < MaxFaults /\ faults' = faults + 1
    /\ \E v \in {CandidateKey, "bad"} :
           keyFile' = [keyFile EXCEPT ![op.cand] = v]
    /\ kop' = NoKop
    /\ mutex' = IF mutex = "key" THEN None ELSE mutex
    /\ phase' = IF phase = "starting" THEN "recover" ELSE phase
    /\ UNCHANGED <<sel, op, known, resetSeen, rcpt, blob, conf, grant, env, mem,
                   upd, crashes>>

\* A fresh key is created before the environment is looked at again.
RefuseActivate ==
    /\ kop.pc = "activate" /\ ~MayActivate
    /\ keyFile' = IF Journalled /\ kop.kind \in {"startup", "retry"}
                  THEN [keyFile EXCEPT ![op.cand] = CandidateKey] ELSE keyFile
    /\ kop' = NoKop
    /\ mutex' = IF mutex = "key" THEN None ELSE mutex
    /\ phase' = IF phase = "starting" THEN "recover" ELSE phase
    /\ UNCHANGED <<sel, op, known, resetSeen, rcpt, blob, conf, grant, env, mem,
                   upd, crashes, faults>>

\* The closing status(): only a ready vault is confirmed in memory.
FinishKey ==
    /\ kop.pc = "finish"
    /\ mem' = IF Ready THEN <<sel.gen, sel.rev>> ELSE mem
    /\ kop' = NoKop
    /\ mutex' = IF mutex = "key" THEN None ELSE mutex
    /\ phase' = IF phase = "starting" THEN "recover" ELSE phase
    /\ UNCHANGED <<db, env, upd, crashes, faults>>

----------------------------------------------------------------------------
\* The store: one receipt per token, reserved before its blob is written.

Free == {t \in Tokens : rcpt[t].state = None /\ blob[t] = None}
SetState(t, s) == rcpt' = [rcpt EXCEPT ![t].state = s]
Keep == UNCHANGED <<sel, op, keyFile, known, resetSeen, grant>>

GoOn(u, pc) == upd' = [upd EXCEPT ![u].pc = pc]
\* The update fails.  Its mutation is left before the compensation begins.
Finished(u) == upd' = [upd EXCEPT ![u] = [pc |-> "done"]]
FailWith(u, pc) == /\ IF pc = "done" THEN Finished(u) ELSE GoOn(u, pc)
                   /\ mutex' = IF mutex = u THEN None ELSE mutex
Rest == UNCHANGED <<env, mem, kop, phase, crashes>>
NoFault == UNCHANGED faults
Fault == faults < MaxFaults /\ faults' = faults + 1

\* An administrator submits, once, a replacement or a clear of the field.
Submit(u, mode) ==
    /\ phase = "up" /\ upd[u].pc = "idle"
    /\ mode = "replace" => GetKey # None
    /\ upd' = [upd EXCEPT ![u] =
                 [pc |-> IF mode = "replace" THEN "reserve" ELSE "enter",
                  mode |-> mode, tok |-> None, exp |-> conf.rev, old |-> None,
                  claimed |-> FALSE]]
    /\ UNCHANGED <<db, mutex>> /\ Rest /\ NoFault

Reserve(u) ==
    /\ upd[u].pc = "reserve"
    /\ \/ /\ GenerationOk
          /\ Free # {}
          /\ LET t == CHOOSE f \in Free : TRUE IN
               /\ rcpt' = [rcpt EXCEPT ![t] =
                             [state |-> "recoverable", gen |-> sel.gen,
                              exp |-> upd[u].exp, by |-> u]]
               /\ upd' = [upd EXCEPT ![u].pc = "write", ![u].tok = t]
          /\ UNCHANGED mutex
       \/ ~GenerationOk /\ FailWith(u, "undo") /\ UNCHANGED rcpt
    /\ Keep /\ Rest /\ NoFault /\ UNCHANGED <<blob, conf>>

\* _write_payload: the key is fetched and used at once; a write may fail.
WritePayload(u) ==
    /\ upd[u].pc = "write"
    /\ \/ /\ GetKey # None
          /\ blob' = [blob EXCEPT ![upd[u].tok] = GetKey]
          /\ GoOn(u, "stage") /\ NoFault /\ UNCHANGED mutex
       \/ GetKey = None /\ FailWith(u, "undo") /\ NoFault /\ UNCHANGED blob
       \/ Fault /\ FailWith(u, "undo") /\ UNCHANGED blob
    /\ Keep /\ Rest /\ UNCHANGED <<rcpt, conf>>

Owned(u, s) == rcpt[upd[u].tok].state = s /\ rcpt[upd[u].tok].by = u

Stage(u) ==
    /\ upd[u].pc = "stage"
    /\ IF /\ GenerationOk /\ Owned(u, "recoverable")
          /\ rcpt[upd[u].tok].gen = sel.gen
       THEN SetState(upd[u].tok, "staged") /\ GoOn(u, "enter") /\ UNCHANGED mutex
       ELSE FailWith(u, "undo") /\ UNCHANGED rcpt
    /\ Keep /\ Rest /\ NoFault /\ UNCHANGED <<blob, conf>>

\* The mutation begins; the old reference is read under it (_old_refs).
EnterUpdate(u) ==
    /\ upd[u].pc = "enter" /\ mutex = None
    /\ IF conf.rev = upd[u].exp
       THEN /\ mutex' = u
            /\ upd' = [upd EXCEPT ![u].old = conf.tok,
                         ![u].pc = IF upd[u].mode = "replace" THEN "claim"
                                   ELSE "commit"]
       ELSE GoOn(u, "undo") /\ UNCHANGED mutex
    /\ Rest /\ NoFault /\ UNCHANGED db

Claimable(t) == GenerationOk /\ rcpt[t].gen = sel.gen /\ rcpt[t].state = "staged"
Claim(u) ==
    /\ upd[u].pc = "claim"
    /\ IF Claimable(upd[u].tok)
       THEN /\ SetState(upd[u].tok, "claimed")
            /\ upd' = [upd EXCEPT ![u].pc = "commit", ![u].claimed = TRUE]
            /\ UNCHANGED mutex
       ELSE FailWith(u, "undo") /\ UNCHANGED rcpt
    /\ Keep /\ Rest /\ NoFault /\ UNCHANGED <<blob, conf>>

\* What _run_update checks before _update_in_unit writes.
MayCommit(u) ==
    /\ op = NoOp
    /\ conf.rev = upd[u].exp
    /\ upd[u].mode = "replace" =>
         /\ Owned(u, "claimed")
         /\ GenerationOk /\ rcpt[upd[u].tok].gen = sel.gen
NewConf(u) == [rev |-> conf.rev + 1,
               tok |-> IF upd[u].mode = "replace" THEN upd[u].tok ELSE None]

\* The commit.  Its result may be lost after it took effect or before; an
\* executor error ends the update without any compensation.
Commit(u) ==
    /\ upd[u].pc = "commit"
    /\ \/ /\ MayCommit(u) /\ conf' = NewConf(u) /\ NoFault
          /\ GoOn(u, IF upd[u].mode = "replace" THEN "finalize" ELSE "delete")
          /\ UNCHANGED mutex
       \/ /\ MayCommit(u) /\ Fault /\ conf' \in {conf, NewConf(u)}
          /\ \E pc \in {"observe", "done"} :
               IF pc = "done" THEN FailWith(u, pc) ELSE GoOn(u, pc) /\ UNCHANGED mutex
       \/ ~MayCommit(u) /\ GoOn(u, "observe") /\ UNCHANGED <<conf, mutex>> /\ NoFault
    /\ Keep /\ Rest /\ UNCHANGED <<rcpt, blob>>

\* After an error the revision is read again: a commit that took effect is
\* left for recovery, anything else is compensated under the mutation.
Observe_Blind(u) ==
    /\ upd[u].pc = "observe"
    /\ GoOn(u, "compensate") /\ UNCHANGED mutex
    /\ Rest /\ NoFault /\ UNCHANGED db
Observe(u) ==
    /\ upd[u].pc = "observe"
    /\ IF conf.rev > upd[u].exp THEN FailWith(u, "done")
       ELSE GoOn(u, "compensate") /\ UNCHANGED mutex
    /\ Rest /\ NoFault /\ UNCHANGED db

MayFinalize(t) == GenerationOk /\ rcpt[t].gen = sel.gen /\ rcpt[t].state = "claimed"
FinalizeActive(u) ==
    /\ upd[u].pc = "finalize"
    /\ IF MayFinalize(upd[u].tok)
       THEN SetState(upd[u].tok, "active") /\ GoOn(u, "delete") /\ UNCHANGED mutex
       ELSE FailWith(u, "done") /\ UNCHANGED rcpt
    /\ Keep /\ Rest /\ NoFault /\ UNCHANGED <<blob, conf>>

\* delete: refused off the receipt's generation; otherwise the file goes
\* first and the receipt follows in the same transaction.
MayDelete(t) == GenerationOk /\ rcpt[t].gen = sel.gen
Deleted(t) ==
    \/ /\ MayDelete(t) /\ NoFault
       /\ blob' = [blob EXCEPT ![t] = None] /\ SetState(t, "tombstoned")
    \/ /\ MayDelete(t) /\ Fault
       /\ SetState(t, "delete_failed") /\ UNCHANGED blob
    \/ /\ ~MayDelete(t) /\ NoFault /\ UNCHANGED <<blob, rcpt>>

\* The token a clean-up step is about: the old one after a commit, else the
\* update's own.
Victim(u) == IF upd[u].pc \in {"delete", "orphan"} THEN upd[u].old ELSE upd[u].tok

\* _delete_old and the deletions of the compensations.  A file that cannot
\* be removed is marked orphan next, so that recovery finds it.
CleanUp(u) ==
    /\ upd[u].pc \in {"delete", "undoDelete"}
    /\ IF Victim(u) = None
       THEN FailWith(u, "done") /\ UNCHANGED <<blob, rcpt, faults>>
       ELSE /\ Deleted(Victim(u))
            /\ IF rcpt'[Victim(u)].state = "delete_failed"
               THEN /\ GoOn(u, IF upd[u].pc = "delete" THEN "orphan" ELSE "undoOrphan")
                    /\ UNCHANGED mutex
               ELSE FailWith(u, "done")
    /\ Keep /\ Rest /\ UNCHANGED conf

MarkOrphan(u) ==
    /\ upd[u].pc \in {"orphan", "undoOrphan"}
    /\ IF MayDelete(Victim(u)) /\ rcpt[Victim(u)].state # "tombstoned"
       THEN SetState(Victim(u), "orphan") ELSE UNCHANGED rcpt
    /\ FailWith(u, "done")
    /\ Keep /\ Rest /\ NoFault /\ UNCHANGED <<blob, conf>>

\* Compensation: a staged receipt is deleted, one that was claimed or never
\* finished staging is first marked cas_conflict.
Compensate(u) ==
    /\ upd[u].pc \in {"compensate", "undo"}
    /\ IF /\ upd[u].tok # None
          /\ \E s \in {"claimed", "recoverable"} : Owned(u, s)
       THEN SetState(upd[u].tok, "cas_conflict") ELSE UNCHANGED rcpt
    /\ GoOn(u, "undoDelete")
    /\ Keep /\ Rest /\ NoFault /\ UNCHANGED <<blob, conf, mutex>>

\* The request is cancelled before the shielded commit: nothing compensates.
CancelUpdate(u) ==
    /\ upd[u].pc \in {"reserve", "stage", "enter", "claim"}
    /\ Fault /\ FailWith(u, "done")
    /\ Rest /\ UNCHANGED db

----------------------------------------------------------------------------
\* Grants, restarts and recovery.

\* current_grant expires an active grant in place.
GrantExpires ==
    /\ phase = "up" /\ grant.status = "active"
    /\ grant' = [grant EXCEPT !.status = "expired", !.rev = @ + 1]
    /\ UNCHANGED <<sel, op, keyFile, known, resetSeen, rcpt, blob, conf, env, mem,
                   upd, kop, mutex, phase, crashes, faults>>

\* Revoking a grant that holds a secret abandons the pending key operation.
GrantRevoked ==
    /\ phase = "up" /\ grant.status = "active"
    /\ grant' = [grant EXCEPT !.status = "revoked", !.rev = @ + 1]
    /\ IF grant.tok # None /\ op # NoOp
       THEN op' = NoOp /\ known' = known \cup {op.cand}
       ELSE UNCHANGED <<op, known>>
    /\ UNCHANGED <<sel, keyFile, resetSeen, rcpt, blob, conf, env, mem, upd, kop,
                   mutex, phase, crashes, faults>>

\* The process dies; a deletion may have removed its file and not committed.
Crash ==
    /\ phase # "down" /\ crashes < MaxCrashes /\ crashes' = crashes + 1
    /\ blob' \in {blob} \cup
                 {[blob EXCEPT ![Victim(u)] = None] :
                    u \in {v \in Admins : /\ upd[v].pc \in {"delete", "undoDelete"}
                                          /\ Victim(v) # None
                                          /\ MayDelete(Victim(v))}}
    /\ phase' = "down" /\ mem' = Unset /\ mutex' = None
    /\ upd' = [u \in Admins |-> IF upd[u] = NoUpd THEN NoUpd ELSE [pc |-> "done"]]
    /\ kop' = NoKop
    /\ UNCHANGED <<sel, op, keyFile, known, resetSeen, rcpt, conf, grant, env, faults>>

Restart ==
    /\ phase = "down" /\ phase' = "starting"
    /\ env' \in {None, "kEnv", "kNew", "bad"}
    /\ kop' = [pc |-> "prepare", kind |-> "startup", key |-> None, cand |-> None,
               gen |-> 0, rev |-> 0, dig |-> <<>>]
    /\ UNCHANGED <<db, mem, upd, mutex, crashes, faults>>

PendingStates == {"staged", "claimed", "orphan", "delete_failed", "recoverable"}

\* recover_manifest_secrets lists the unfinished receipts of the field ...
BeginRecovery ==
    /\ phase = "recover" /\ kop = NoKop
    /\ kop' = [pc |-> "recover",
               todo |-> {t \in Tokens : t # grant.tok /\ rcpt[t].state \in PendingStates}]
    /\ UNCHANGED <<db, env, mem, upd, mutex, phase, crashes, faults>>

\* ... finishes a claim that the configuration refers to, and deletes what
\* it does not refer to; what either refuses stays unresolved.
RecoverOne(t) ==
    /\ kop.pc = "recover" /\ t \in kop.todo
    /\ \/ /\ conf.tok = t /\ NoFault /\ UNCHANGED blob
          /\ IF MayFinalize(t) THEN SetState(t, "active") ELSE UNCHANGED rcpt
       \/ conf.tok # t /\ Deleted(t)
    /\ kop' = [kop EXCEPT !.todo = @ \ {t}]
    /\ Keep /\ UNCHANGED <<conf, env, mem, upd, mutex, phase, crashes>>

EndRecovery ==
    /\ kop.pc = "recover" /\ kop.todo = {}
    /\ phase' = "up" /\ kop' = NoKop
    /\ UNCHANGED <<db, env, mem, upd, mutex, crashes, faults>>

----------------------------------------------------------------------------
Symmetry == Permutations(Admins)
NoReceipt == [state |-> None, gen |-> 0, exp |-> 0, by |-> None]
Legacy == [state |-> "active", gen |-> 0, exp |-> 0, by |-> None]

\* A new installation, or one whose secrets predate the managed key: then
\* the configuration and a grant hold tokens encrypted under the old key.
Init ==
    /\ sel = [source |-> "unselected", gen |-> 0, rev |-> 0, key |-> None, kid |-> None]
    /\ op = NoOp /\ keyFile = [k \in Kids |-> None] /\ known = {}
    /\ resetSeen = FALSE
    /\ \/ /\ rcpt = [t \in Tokens |-> NoReceipt] /\ blob = [t \in Tokens |-> None]
          /\ conf = [rev |-> 0, tok |-> None]
          /\ grant = [status |-> "absent", rev |-> 0, tok |-> None]
       \/ LET g == CHOOSE t \in Tokens : TRUE IN
          /\ rcpt = [t \in Tokens |-> IF t = g THEN Legacy ELSE NoReceipt]
          /\ blob = [t \in Tokens |-> IF t = g THEN "kEnv" ELSE None]
          /\ \/ /\ conf = [rev |-> 1, tok |-> g]
                /\ grant = [status |-> "absent", rev |-> 0, tok |-> None]
             \/ /\ conf = [rev |-> 0, tok |-> None]
                /\ grant = [status |-> "active", rev |-> 1, tok |-> g]
    /\ env = None /\ mem = Unset
    /\ upd = [u \in Admins |-> NoUpd] /\ kop = NoKop /\ mutex = None
    /\ phase = "down" /\ crashes = 0 /\ faults = 0

KeyStep ==
    \/ /\ sel.rev < MaxRevision
       /\ \/ \E kind \in {"retry", "adopt", "reset"} : RequestKey(kind, None)
          \/ \E key \in {"kEnv", "kNew", sel.key} \ {None} : RequestKey("restore", key)
    \/ EnterKey \/ StartupPrepare \/ PrepareKey \/ RefusePrepare
    \/ RotateCandidate \/ RefuseRotate
    \/ Activate \/ ActivateTorn \/ RefuseActivate \/ FinishKey

UpdateStep(u) ==
    \/ \E mode \in {"replace", "clear"} : Submit(u, mode)
    \/ Reserve(u) \/ WritePayload(u) \/ Stage(u) \/ EnterUpdate(u) \/ Claim(u)
    \/ Commit(u) \/ Observe(u) \/ FinalizeActive(u) \/ CleanUp(u) \/ MarkOrphan(u)
    \/ Compensate(u) \/ CancelUpdate(u)

Next == \/ KeyStep
        \/ \E u \in Admins : UpdateStep(u)
        \/ GrantExpires \/ GrantRevoked \/ Crash \/ Restart
        \/ BeginRecovery \/ EndRecovery \/ \E t \in Tokens : RecoverOne(t)

Spec == Init /\ [][Next]_vars

----------------------------------------------------------------------------
\* Every secret the codec can be asked for opens: while a key is handed out,
\* a live receipt of the selected generation whose blob exists is encrypted
\* under exactly that key, whatever key changes, crashes and half finished
\* updates came before.
LiveSecretsOpen ==
    GetKey # None =>
        \A t \in Tokens : /\ rcpt[t].state \in LiveStates
                          /\ rcpt[t].gen = sel.gen /\ blob[t] # None
                          => blob[t] = GetKey

\* A secret that the configuration refers to is never cleaned away: neither a
\* compensation of the update that stored it, nor the clean-up of another
\* update, nor recovery after a crash removes its blob or its receipt.
ReferenceIsKept ==
    conf.tok # None => /\ blob[conf.tok] # None
                       /\ rcpt[conf.tok].state \in {"claimed", "active"}

\* The selected managed key is durable: its file exists and holds the key
\* the selection recorded, through every torn or interrupted operation.
SelectedKeyIsDurable ==
    sel.source = "managed" => keyFile[sel.kid] = sel.key

\* The comment on stage and the docstring of recover_manifest_secrets: what
\* an interrupted update leaves is found and settled by restart recovery.
\* Once recovery has run no unfinished receipt of the field is left.
RecoverySettles ==
    /\ phase = "up" /\ crashes > 0 /\ faults = 0 /\ env = None
    /\ sel.source = "managed" /\ \A u \in Admins : upd[u].pc \in {"idle", "done"}
    => \A t \in Tokens \ {grant.tok} : rcpt[t].state \notin PendingStates

\* All three hold wherever an update, a key operation or the process stops.
VaultHolds == LiveSecretsOpen /\ ReferenceIsKept /\ SelectedKeyIsDurable
=============================================================================
