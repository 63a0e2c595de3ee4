---------------------------- MODULE AdminRequests ----------------------------
(***************************************************************************)
(* Requests of the dashboard's management pages (AdminPages): reading and  *)
(* changing the configuration of the modules, listing and unloading them.  *)
(* A request is issued a proof by the trusted source (TrustedAdminSource)  *)
(* and works under a grant minted from it (AdminAuthorizationService) that *)
(* AdminOperationsService checks again after its awaits, and SQLite as it  *)
(* commits.                                                                *)
(*                                                                         *)
(* The module switches themselves are ModuleActivation; here they only     *)
(* move the registry.  Secrets are SecretVault, health is ModuleHealth.    *)
(***************************************************************************)
EXTENDS Naturals, FiniteSets

CONSTANTS
    AdminCalls,    \* requests in flight
    AdminModules   \* modules with a configuration

ASSUME AdminAssumption ==
    IsFiniteSet(AdminCalls) /\ IsFiniteSet(AdminModules) /\ "free" \notin AdminCalls

Endpoints == {"update", "copy", "list", "status", "catalog", "read", "unload"}

VARIABLES
    pagesOpen,   \* ~AdminPages.closed
    accepting,   \* AdminOperationsService._accepting
    registered,  \* module -> its state in the registry and the lifecycle
    configured,  \* module -> the request that wrote its configuration last
    adminGate,   \* holder of the mutation gate, or "free"
    admin        \* request -> handler coroutine

adminVars == <<pagesOpen, accepting, registered, configured, adminGate, admin>>

NoAdmin == [at |-> "idle", kind |-> "none", mod |-> "none", proof |-> FALSE,
            same |-> FALSE, sel |-> FALSE, fresh |-> FALSE, seen |-> << >>, wrote |-> FALSE]

AdminInit ==
    /\ pagesOpen = TRUE /\ accepting = TRUE
    /\ registered = [p \in AdminModules |-> "on"]
    /\ configured = [p \in AdminModules |-> "boot"]
    /\ adminGate = "free"
    /\ admin = [a \in AdminCalls |-> NoAdmin]

-----------------------------------------------------------------------------
(* The proof of a request *)

\* _check: the proof is registered and its task is not being cancelled, the
\* dashboard session verifies again.  What ends any of these ends the proof
ProofHolds(a) == admin[a].proof

\* validate_generation: the grant is owned and within its lifetime, the source agrees
Validated(a) == ProofHolds(a)

\* authorize: what the source's proof covers becomes a grant
Authorized(a) == ProofHolds(a)

\* The commit guard of the grant, evaluated by SQLite under the source's lock
CommitFenced_EntryOnly(a) == TRUE
CommitFenced(a) == ProofHolds(a)

\* _require_same_selection: nothing published or detached the module since it was selected
SameSelection(a) == admin[a].sel

\* The registry snapshot taken by the request is still the published one
SameRegistry_Unchecked(a) == TRUE
SameRegistry(a) == admin[a].same

-----------------------------------------------------------------------------
(* Handler steps *)

AdminGoes(a, r) == admin' = [admin EXCEPT ![a] = r]
AdminAt(a, at) == [admin[a] EXCEPT !.at = at]
\* The outcome waits for the last check; of a refusal only the gate is left
Decides(a, good) == IF good THEN [NoAdmin EXCEPT !.at = "ending", !.proof = admin[a].proof] ELSE NoAdmin
Refused(a) == AdminGoes(a, NoAdmin)
LetsGo(a) == adminGate' = IF adminGate = a THEN "free" ELSE adminGate

\* The request verifies with the Host's dashboard server and is issued its proof
Enter(a) ==
    /\ admin[a].at = "idle" /\ pagesOpen
    /\ \E kind \in Endpoints, p \in AdminModules :
          AdminGoes(a, [NoAdmin EXCEPT !.at = "body", !.kind = kind, !.proof = TRUE,
                        !.mod = IF kind \in {"update", "copy", "unload"} THEN p ELSE "none"])
    /\ UNCHANGED <<pagesOpen, accepting, registered, configured, adminGate>>

\* The body was read: malformed, or the proof is checked again and the
\* disconnect watcher started
ReadBody(a) ==
    /\ admin[a].at = "body"
    /\ \/ Refused(a)
       \/ ProofHolds(a) /\ AdminGoes(a, AdminAt(a, "dispatch"))
    /\ UNCHANGED <<pagesOpen, accepting, registered, configured, adminGate>>

\* _selection for a write, with the revision the page shows: current or not
Selects(a, fresh) == [AdminAt(a, "waiting") EXCEPT !.sel = TRUE, !.fresh = fresh]

\* _invoke: the operation registers itself, authorizes and selects its module
Dispatch(a) ==
    /\ admin[a].at = "dispatch"
    /\ IF accepting /\ Authorized(a)
       THEN \/ admin[a].kind \in {"list", "status", "catalog", "read"} /\ AdminGoes(a, AdminAt(a, "waiting"))
            \/ /\ admin[a].kind \in {"update", "copy"} /\ registered[admin[a].mod] # "gone"
               /\ \E fresh \in BOOLEAN : AdminGoes(a, Selects(a, fresh))
            \/ admin[a].kind = "unload" /\ AdminGoes(a, AdminAt(a, "disabling"))
            \/ admin[a].mod # "none" /\ Refused(a)
       ELSE Refused(a)
    /\ UNCHANGED <<pagesOpen, accepting, registered, configured, adminGate>>

\* A request that finds the gate free enters it; what it validates first
Admits(a) ==
    CASE admin[a].kind = "update" ->
            registered[admin[a].mod] # "gone" /\ Validated(a) /\ SameSelection(a) /\ admin[a].fresh
      [] admin[a].kind \in {"copy", "catalog"} -> TRUE
      [] admin[a].kind = "read" -> Validated(a)
      [] admin[a].kind = "unload" -> accepting /\ Validated(a) /\ SameRegistry(a)
      [] OTHER -> accepting /\ Validated(a)

\* The registry snapshot is taken inside the gate, except by an unload
Inside(a) == IF admin[a].kind = "unload" THEN [AdminAt(a, "preparing") EXCEPT !.sel = TRUE]
    ELSE [AdminAt(a, "inside") EXCEPT !.same = admin[a].kind \in {"list", "status", "catalog"}]

GateFree_Ignored(a) == adminGate = "free" \/ admin[a].kind = "read"
GateFree(a) == adminGate = "free"

TakeGate(a) ==
    /\ admin[a].at = "waiting" /\ GateFree(a)
    /\ IF Admits(a) THEN AdminGoes(a, Inside(a)) /\ adminGate' = a
                    ELSE Refused(a) /\ UNCHANGED adminGate
    /\ UNCHANGED <<pagesOpen, accepting, registered, configured>>

-----------------------------------------------------------------------------
(* Reading *)

Sees(a, p) == [admin[a] EXCEPT !.seen = [q \in (DOMAIN admin[a].seen) \cup {p} |->
                    IF q = p THEN <<registered[p], configured[p]>> ELSE admin[a].seen[q]]]

\* _snapshot of one module, or its configuration row: one await each
ReadModule(a) ==
    /\ admin[a].at = "inside" /\ admin[a].kind \in {"list", "status", "read"}
    /\ \E p \in AdminModules \ DOMAIN admin[a].seen :
          IF admin[a].kind = "list" \/ Validated(a)
          THEN AdminGoes(a, Sees(a, p)) /\ UNCHANGED adminGate
          ELSE Refused(a) /\ LetsGo(a)
    /\ UNCHANGED <<pagesOpen, accepting, registered, configured>>

SeenAll(a) == admin[a].at = "inside" /\ DOMAIN admin[a].seen = AdminModules

ListDone(a) ==
    /\ admin[a].kind = "list" /\ SeenAll(a)
    /\ AdminGoes(a, Decides(a, Validated(a) /\ SameRegistry(a)))
    /\ LetsGo(a)
    /\ UNCHANGED <<pagesOpen, accepting, registered, configured>>

StatusDone(a) ==
    /\ admin[a].kind = "status" /\ SeenAll(a)
    /\ AdminGoes(a, Decides(a, Validated(a) /\ accepting /\ SameRegistry(a)))
    /\ LetsGo(a)
    /\ UNCHANGED <<pagesOpen, accepting, registered, configured>>

OrdinaryReadDone(a) ==
    /\ admin[a].kind = "read" /\ SeenAll(a)
    /\ AdminGoes(a, Decides(a, accepting /\ Validated(a)))
    /\ LetsGo(a)
    /\ UNCHANGED <<pagesOpen, accepting, registered, configured>>

\* The catalog is computed without an await
CatalogDone(a) ==
    /\ admin[a].kind = "catalog" /\ admin[a].at = "inside"
    /\ AdminGoes(a, Decides(a, Validated(a) /\ accepting /\ SameRegistry(a)))
    /\ LetsGo(a)
    /\ UNCHANGED <<pagesOpen, accepting, registered, configured>>

-----------------------------------------------------------------------------
(* Writing *)

\* The new row: every other page now shows an old revision
Written(a, p, next) ==
    /\ configured' = [configured EXCEPT ![p] = a]
    /\ admin' = [b \in AdminCalls |->
          IF b = a THEN [next EXCEPT !.wrote = TRUE]
          ELSE [admin[b] EXCEPT !.fresh = admin[b].fresh /\ admin[b].mod # p]]

\* update_authorized: fence and revision are checked in the transaction
UpdateCommits(a) ==
    LET p == admin[a].mod IN
    /\ admin[a].kind = "update" /\ admin[a].at = "inside"
    /\ IF CommitFenced(a) /\ admin[a].fresh
       THEN /\ Written(a, p, AdminAt(a, "publishing"))
            /\ UNCHANGED adminGate
       ELSE Refused(a) /\ LetsGo(a) /\ UNCHANGED configured
    /\ UNCHANGED <<pagesOpen, accepting, registered>>

\* The rest of commit_finalize_publish: a cancellation waits until it is done
UpdatePublishes(a) ==
    /\ admin[a].at = "publishing"
    /\ AdminGoes(a, AdminAt(a, "replying"))
    /\ LetsGo(a)
    /\ UNCHANGED <<pagesOpen, accepting, registered, configured>>

\* The row is read back outside the gate
UpdateReplies(a) ==
    /\ admin[a].at = "replying"
    /\ AdminGoes(a, Decides(a, admin[a].fresh /\ SameSelection(a) /\ Validated(a)))
    /\ UNCHANGED <<pagesOpen, accepting, registered, configured, adminGate>>

\* copy_legacy_if_absent with its fence inside the transaction; an update may
\* have set the field before
CopyCommits(a) ==
    /\ admin[a].kind = "copy" /\ admin[a].at = "inside"
    /\ IF accepting /\ SameSelection(a) /\ CommitFenced(a) /\ admin[a].fresh
       THEN /\ UNCHANGED adminGate
            /\ \/ AdminGoes(a, AdminAt(a, "copied")) /\ UNCHANGED configured
               \/ Written(a, admin[a].mod, AdminAt(a, "copied"))
       ELSE Refused(a) /\ LetsGo(a) /\ UNCHANGED configured
    /\ UNCHANGED <<pagesOpen, accepting, registered>>

CopyReplies(a) ==
    /\ admin[a].at = "copied"
    /\ AdminGoes(a, Decides(a, Validated(a) /\ SameSelection(a) /\ accepting))
    /\ LetsGo(a)
    /\ UNCHANGED <<pagesOpen, accepting, registered, configured>>

-----------------------------------------------------------------------------
(* Unloading *)

\* A publication of the registry: snapshots and selections of it are out of date
Moved(p, next) == [b \in AdminCalls |->
    [next[b] EXCEPT !.same = FALSE, !.sel = next[b].sel /\ next[b].mod # p]]

\* set_enabled(False) through the extension runtime: it may refuse
UnloadDisables(a) ==
    LET p == admin[a].mod
        off == [admin EXCEPT ![a].at = "waiting"]
    IN
    /\ admin[a].at = "disabling"
    /\ \/ Refused(a) /\ UNCHANGED registered
       \/ /\ ProofHolds(a) /\ accepting /\ adminGate = "free"
          /\ IF registered[p] \in {"on", "failed"}
             THEN /\ registered' = [registered EXCEPT ![p] = "off"]
                  /\ admin' = [Moved(p, off) EXCEPT ![a].same = TRUE]
             ELSE UNCHANGED registered /\ admin' = [off EXCEPT ![a].same = TRUE]
    /\ UNCHANGED <<pagesOpen, accepting, configured, adminGate>>

\* prepare_detach of a module not yet unloaded: credentials are retired and
\* caches dropped, or it fails
UnloadPrepares(a) ==
    /\ admin[a].at = "preparing"
    /\ IF registered[admin[a].mod] = "gone" THEN AdminGoes(a, Decides(a, TRUE)) /\ LetsGo(a)
       ELSE \/ Refused(a) /\ LetsGo(a)
            \/ AdminGoes(a, AdminAt(a, "detaching")) /\ UNCHANGED adminGate
    /\ UNCHANGED <<pagesOpen, accepting, registered, configured>>

\* Under the source's fence the stopped module leaves the registry
UnloadDetaches(a) ==
    LET p == admin[a].mod IN
    /\ admin[a].at = "detaching"
    /\ IF Validated(a) /\ SameRegistry(a) /\ SameSelection(a) /\ CommitFenced(a) /\ registered[p] = "off"
       THEN /\ registered' = [registered EXCEPT ![p] = "gone"]
            /\ admin' = Moved(p, [admin EXCEPT ![a] = Decides(a, TRUE)])
       ELSE Refused(a) /\ UNCHANGED registered
    /\ LetsGo(a)
    /\ UNCHANGED <<pagesOpen, accepting, configured>>

-----------------------------------------------------------------------------
(* The answer *)

\* After its last await the handler checks the proof once more and ends it:
\* answered, or denied after all
Responds(a) ==
    /\ admin[a].at = "ending"
    /\ AdminGoes(a, NoAdmin)
    /\ UNCHANGED <<pagesOpen, accepting, registered, configured, adminGate>>

-----------------------------------------------------------------------------
(* What happens to the requests *)

\* The session expires, is logged out, or its token stops verifying
SessionEnds(a) ==
    /\ admin[a].proof
    /\ AdminGoes(a, [admin[a] EXCEPT !.proof = FALSE])
    /\ UNCHANGED <<pagesOpen, accepting, registered, configured, adminGate>>

\* The watcher sees the browser disconnect: it ends the proof and cancels the
\* coroutine, which unwinds from its await, but not from the shielded commit
Disconnects(a) ==
    /\ admin[a].at \notin {"idle", "body"} /\ admin[a].proof
    /\ IF admin[a].at = "publishing"
       THEN AdminGoes(a, [admin[a] EXCEPT !.proof = FALSE]) /\ UNCHANGED adminGate
       ELSE Refused(a) /\ LetsGo(a)
    /\ UNCHANGED <<pagesOpen, accepting, registered, configured>>

\* close(): every request's proof ends; then Core stops accepting
ClosePages ==
    /\ pagesOpen /\ pagesOpen' = FALSE
    /\ admin' = [a \in AdminCalls |-> [admin[a] EXCEPT !.proof = FALSE]]
    /\ UNCHANGED <<accepting, registered, configured, adminGate>>

StopAccepting ==
    /\ ~pagesOpen /\ accepting /\ accepting' = FALSE
    /\ UNCHANGED <<pagesOpen, registered, configured, adminGate, admin>>

\* A new Core, once the old one's requests are quiet
OpenPages ==
    /\ ~pagesOpen /\ \A a \in AdminCalls : admin[a].at = "idle"
    /\ pagesOpen' = TRUE /\ accepting' = TRUE
    /\ UNCHANGED <<registered, configured, adminGate, admin>>

\* An external package came or went: the sources are registered anew
SourcesReissued ==
    /\ pagesOpen
    /\ admin' = [a \in AdminCalls |-> [admin[a] EXCEPT !.proof = FALSE]]
    /\ \E a \in AdminCalls : admin[a].proof
    /\ UNCHANGED <<pagesOpen, accepting, registered, configured, adminGate>>

\* A module switch publishes inside the gate
Switches(p) ==
    /\ adminGate = "free" /\ registered[p] \in {"off", "failed"}
    /\ registered' = [registered EXCEPT ![p] = "on"] /\ admin' = Moved(p, admin)
    /\ UNCHANGED <<pagesOpen, accepting, configured, adminGate>>

\* A scope that does not clean up in time isolates its module, in the gate or not
Isolates(p) ==
    /\ registered[p] = "on"
    /\ registered' = [registered EXCEPT ![p] = "failed"] /\ admin' = Moved(p, admin)
    /\ UNCHANGED <<pagesOpen, accepting, configured, adminGate>>

\* An unloaded owner is registered again, with a new generation
Restores(p) ==
    /\ adminGate = "free" /\ registered[p] = "gone"
    /\ registered' = [registered EXCEPT ![p] = "off"] /\ admin' = Moved(p, admin)
    /\ UNCHANGED <<pagesOpen, accepting, configured, adminGate>>

AdminNext ==
    \/ \E a \in AdminCalls :
          \/ Enter(a) \/ ReadBody(a) \/ Dispatch(a) \/ TakeGate(a)
          \/ ReadModule(a) \/ ListDone(a) \/ StatusDone(a) \/ OrdinaryReadDone(a) \/ CatalogDone(a)
          \/ UpdateCommits(a) \/ UpdatePublishes(a) \/ UpdateReplies(a)
          \/ CopyCommits(a) \/ CopyReplies(a)
          \/ UnloadDisables(a) \/ UnloadPrepares(a) \/ UnloadDetaches(a)
          \/ Responds(a) \/ SessionEnds(a) \/ Disconnects(a)
    \/ ClosePages \/ StopAccepting \/ OpenPages \/ SourcesReissued
    \/ \E p \in AdminModules : Switches(p) \/ Isolates(p) \/ Restores(p)

AdminSpec == AdminInit /\ [][AdminNext]_adminVars

-----------------------------------------------------------------------------
(* Properties *)

\* Lasting effects have an authority: a configuration row is written, and a
\* module leaves the registry, only in a step of a request whose proof was not
\* ended by then by its session, a disconnect, closed pages or a reissued
\* source, and a row only by a page that showed the revision it replaces
EffectsAreAuthorized ==
    \A p \in AdminModules :
        /\ configured'[p] # configured[p] =>
              LET a == configured'[p] IN
              /\ admin[a].proof /\ admin[a].fresh
              /\ registered[p] # "gone" /\ pagesOpen
        /\ (registered[p] # "gone" /\ registered'[p] = "gone") =>
              \E a \in AdminCalls :
                 /\ admin[a].kind = "unload" /\ admin[a].mod = p
                 /\ admin[a].proof /\ pagesOpen

\* What a successful answer says holds as it is decided: a listing shows every
\* module as the registry has it, a read shows the rows of one moment, an
\* update has written, an unloaded module is gone
AnswersTellTruth ==
    \A a \in AdminCalls :
        (admin[a].at # "ending" /\ admin'[a].at = "ending") =>
              /\ admin[a].kind \in {"list", "status"} =>
                    \A p \in AdminModules : admin[a].seen[p] = <<registered[p], configured[p]>>
              /\ admin[a].kind = "read" =>
                    \A p \in AdminModules : admin[a].seen[p][2] = configured[p]
              /\ admin[a].kind = "update" => admin[a].wrote
              /\ admin[a].kind = "unload" => registered'[admin[a].mod] = "gone"
=============================================================================
