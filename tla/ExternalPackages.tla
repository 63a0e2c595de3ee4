-------------------------- MODULE ExternalPackages --------------------------
(***************************************************************************)
(* ExternalPackageHost and ExternalInstallationTrust: another AstrBot      *)
(* plugin registers an extension package it ships, the host reads the      *)
(* files, binds the installation to what was approved, attaches the        *)
(* package to the runtime and restores its modules; it withdraws it when   *)
(* the plugin leaves, is reloaded or the registration fails.  Meanwhile    *)
(* the files change, the plugin is reloaded, an administrator approves     *)
(* what the files ask for, and the host closes.                            *)
(*                                                                         *)
(* One package of one plugin.  A version of its manifest stands for what   *)
(* it declares and asks for: a later one asks for more.  Edits are never   *)
(* undone, since a capture compares inode and times, not only bytes.       *)
(***************************************************************************)
EXTENDS Naturals, FiniteSets

CONSTANTS
    PackRequests,   \* calls of register_package and unregister_package
    PluginObjects,  \* instances of the outer plugin
    LastVersion,    \* bound on versions of the manifest and of the code
    BuildApproved,  \* version the build's own policy approves, 0 for none
    MaxGrantRows    \* bound on revisions of the installation grant

ASSUME PackagesAssumption ==
    /\ IsFiniteSet(PackRequests) /\ IsFiniteSet(PluginObjects) /\ "none" \notin PackRequests
    /\ {LastVersion, MaxGrantRows} \subseteq Nat \ {0} /\ BuildApproved \in Nat

VARIABLES
    disk,         \* [m, c]: versions of the manifest and of the code in the files
    star,         \* the plugin object AstrBot has registered and activated, or "none"
    hostOpen,     \* ExternalPackageHost: not closed
    hostTurn,     \* the request that holds ExternalPackageHost._lock, or "none"
    packLease,    \* the lease in _packages, NoLease when absent
    knownSource,  \* _known_sources: the fingerprint this process admitted
    attachments,  \* who holds the candidate: "sources", "runtime", "admin"
    code,         \* version of the code that runs, 0 for none
    exposed,      \* the public web bindings name the lease
    grantRow,     \* [rev, m]: extension_installation_grants
    policies,     \* the approved version loaded at start, 0 for none
    migrated,     \* the configuration value was raised to the new minimum
    packager,     \* request -> coroutine
    approval      \* the administrator's plan and approve calls

packageVars == <<disk, star, hostOpen, hostTurn, packLease, knownSource, attachments, code,
                 exposed, grantRow, policies, migrated, packager, approval>>

NoPrint == [m |-> 0, c |-> 0]
NoLease == [of |-> "none", print |-> NoPrint, connected |-> FALSE, complete |-> FALSE,
            cleanup |-> "none"]
NoPackRequest == [at |-> "idle", kind |-> "none", of |-> "none", print |-> NoPrint,
              then |-> "none", held |-> FALSE]
NoApproval == [at |-> "idle", m |-> 0, rev |-> 0, of |-> "none", writes |-> 0]

PackageInit ==
    /\ disk = [m |-> 1, c |-> 1]
    /\ star = "none" /\ hostOpen = TRUE /\ hostTurn = "none"
    /\ packLease = NoLease /\ knownSource = NoPrint
    /\ attachments = {} /\ code = 0 /\ exposed = FALSE
    /\ grantRow = [rev |-> 0, m |-> 0] /\ policies = BuildApproved
    /\ migrated = FALSE
    /\ packager = [r \in PackRequests |-> NoPackRequest]
    /\ approval = NoApproval

\* _owner_current: the registered plugin object is this one
OwnerCurrent(object) == star = object
\* _PackageLease.active
LeaseActive == /\ packLease # NoLease /\ packLease.connected
               /\ hostOpen /\ OwnerCurrent(packLease.of)
\* permits: a manifest that asks for no more than the approved one, or a package
\* nobody approved that needs no approval
Permits(m) == policies = 0 \/ m <= policies
\* capture_source_bundle: the code as it is now, of the manifest the scan sealed
Snapshot(m) == IF disk.m = m THEN disk.c ELSE 0

\* public_web_page_bindings: pages of a complete and active lease
Bindable(lease) == lease.complete /\ lease.connected /\ hostOpen /\ OwnerCurrent(lease.of)
\* _external_packages_changed: the bindings of this lease, left alone while closing
Refreshed(lease) == IF hostOpen THEN Bindable(lease) ELSE exposed

\* attach_host_package refuses a lease that is not active; what follows it is skipped
Attached(alive) == {"sources"} \cup (IF alive THEN {"runtime", "admin"} ELSE {})
\* detach_external_package, and the sources after it
LetGo == attachments \ {"admin", "sources"}

Release(r) == /\ hostTurn' = "none"
              /\ packager' = [packager EXCEPT ![r] = NoPackRequest]

-----------------------------------------------------------------------------
(* _withdraw, inside the lock *)

\* The lease is disconnected; a cleanup left behind is awaited before a new one
Withdrawing(r, then) ==
    /\ packLease' = [packLease EXCEPT !.connected = FALSE,
                        !.cleanup = IF @ = "none" THEN "running" ELSE @]
    /\ packager' = [packager EXCEPT ![r].then = then,
                        ![r].at = IF packLease.cleanup = "none" THEN "detach" ELSE "drain"]

\* detach_host_package: the runs are stopped, then the catalog lets go
DetachStops ==
    /\ packLease.cleanup = "running" /\ code # 0
    /\ code' = 0
    /\ UNCHANGED <<disk, star, hostOpen, hostTurn, packLease, knownSource, attachments,
                   exposed, grantRow, policies, migrated, packager, approval>>

DetachDone ==
    /\ packLease.cleanup = "running" /\ code = 0
    /\ packLease' = [packLease EXCEPT !.cleanup = "done"]
    /\ attachments' = attachments \ {"runtime"}
    /\ UNCHANGED <<disk, star, hostOpen, hostTurn, knownSource, code, exposed, grantRow,
                   policies, migrated, packager, approval>>

\* ExtensionCleanupPending, or cancelled by the timeout
DetachFails ==
    /\ packLease.cleanup = "running"
    /\ packLease' = [packLease EXCEPT !.cleanup = "failed"]
    /\ UNCHANGED <<disk, star, hostOpen, hostTurn, knownSource, attachments, code, exposed,
                   grantRow, policies, migrated, packager, approval>>

\* The cleanup an earlier withdrawal left: a finished one counts, another is repeated
Drained_Ended(r) == packLease.cleanup # "running"
Drained(r) == packLease.cleanup = "done"

DrainsCleanup(r) ==
    /\ packager[r].at = "drain" /\ packLease.cleanup # "running"
    /\ packager' = [packager EXCEPT ![r].at = "detach"]
    /\ packLease' = [packLease EXCEPT !.cleanup = IF Drained(r) THEN "done" ELSE "running"]
    /\ UNCHANGED <<disk, star, hostOpen, hostTurn, knownSource, attachments, code, exposed,
                   grantRow, policies, migrated, approval>>

\* A lease gone from _packages is no other request's any more
LeaseGone(next) == [x \in PackRequests |-> [next[x] EXCEPT !.held = FALSE]]

\* Once the runtime let go the administration and the sources do, and the lease is
\* dropped; a failed cleanup is raised with the lease still owned
Withdraws(r) ==
    /\ packager[r].at = "detach" /\ packLease.cleanup \in {"done", "failed"}
    /\ IF packLease.cleanup = "done"
       THEN /\ packLease' = NoLease
            /\ attachments' = LetGo
            /\ exposed' = Refreshed(NoLease)
            /\ IF packager[r].then = "capture"
               THEN /\ packager' = LeaseGone([packager EXCEPT ![r].at = "capture", ![r].then = "none"])
                    /\ UNCHANGED hostTurn
               ELSE /\ hostTurn' = "none"
                    /\ packager' = LeaseGone([packager EXCEPT ![r] = NoPackRequest])
       ELSE /\ Release(r)
            /\ UNCHANGED <<packLease, attachments, exposed>>
    /\ UNCHANGED <<disk, star, hostOpen, knownSource, code, grantRow, policies, migrated,
                   approval>>

-----------------------------------------------------------------------------
(* register_package *)

RequestsRegister(r) ==
    /\ packager[r].at = "idle" /\ star # "none"
    /\ packager' = [packager EXCEPT ![r] = [NoPackRequest EXCEPT !.at = "waiting",
                                              !.kind = "register", !.of = star]]
    /\ UNCHANGED <<disk, star, hostOpen, hostTurn, packLease, knownSource, attachments, code,
                   exposed, grantRow, policies, migrated, approval>>

\* _serialized, then the host and the plugin are checked and the root resolved
EntersRegister(r) ==
    /\ packager[r].at = "waiting" /\ packager[r].kind = "register" /\ hostTurn = "none"
    /\ IF hostOpen /\ OwnerCurrent(packager[r].of)
       THEN /\ hostTurn' = r
            /\ packager' = [packager EXCEPT ![r].at = "discover"]
       ELSE Release(r)
    /\ UNCHANGED <<disk, star, hostOpen, packLease, knownSource, attachments, code, exposed,
                   grantRow, policies, migrated, approval>>

\* _discover: the manifest is read and held against the approved permissions
Discovers(r) ==
    /\ packager[r].at = "discover"
    /\ IF Permits(disk.m)
       THEN /\ packager' = [packager EXCEPT ![r].at = "inspect", ![r].print.m = disk.m]
            /\ UNCHANGED hostTurn
       ELSE Release(r)
    /\ UNCHANGED <<disk, star, hostOpen, packLease, knownSource, attachments, code, exposed,
                   grantRow, policies, migrated, approval>>

\* One process runs one version of a package
Admissible(print) == print.c # 0 /\ (knownSource = NoPrint \/ knownSource = print)

\* inspect, and what follows it without a pause: the fingerprint, the owner and the
\* lease that is there; an intact lease of the same object is returned
Inspects(r) ==
    /\ packager[r].at = "inspect"
    /\ LET print == [m |-> packager[r].print.m, c |-> Snapshot(packager[r].print.m)] IN
       IF ~Admissible(print) \/ ~hostOpen \/ ~OwnerCurrent(packager[r].of)
       THEN Release(r) /\ UNCHANGED packLease
       ELSE IF packLease = NoLease
       THEN /\ packager' = [packager EXCEPT ![r].at = "capture", ![r].print = print]
            /\ UNCHANGED <<hostTurn, packLease>>
       ELSE IF packLease.of = packager[r].of /\ LeaseActive /\ packLease.complete
       THEN Release(r) /\ UNCHANGED packLease
       ELSE /\ packLease' = [packLease EXCEPT !.connected = FALSE,
                                !.cleanup = IF @ = "none" THEN "running" ELSE @]
            /\ packager' = [packager EXCEPT ![r].then = "capture", ![r].print = print,
                                ![r].at = IF packLease.cleanup = "none" THEN "detach" ELSE "drain"]
            /\ UNCHANGED hostTurn
    /\ UNCHANGED <<disk, star, hostOpen, knownSource, attachments, code, exposed, grantRow,
                   policies, migrated, approval>>

\* The runtime must have no candidate of this package; then the page resources are
\* captured under the same manifest
CapturesPages(r) ==
    /\ packager[r].at = "capture"
    /\ IF "runtime" \notin attachments /\ Snapshot(packager[r].print.m) # 0
       THEN /\ packager' = [packager EXCEPT ![r].at = IF policies = 0 THEN "publish" ELSE "bind"]
            /\ UNCHANGED hostTurn
       ELSE Release(r)
    /\ UNCHANGED <<disk, star, hostOpen, packLease, knownSource, attachments, code, exposed,
                   grantRow, policies, migrated, approval>>

\* bind: one transaction, while the host and the plugin are current, records what the
\* loaded policies approve and raises the configured value to the new minimum
Binds(r) ==
    /\ packager[r].at = "bind"
    /\ IF hostOpen /\ OwnerCurrent(packager[r].of)
       THEN /\ grantRow' = IF grantRow.rev = 0 THEN [rev |-> 1, m |-> policies] ELSE grantRow
            /\ migrated' = TRUE
            /\ packager' = [packager EXCEPT ![r].at = "publish"]
            /\ UNCHANGED hostTurn
       ELSE Release(r) /\ UNCHANGED <<grantRow, migrated>>
    /\ UNCHANGED <<disk, star, hostOpen, packLease, knownSource, attachments, code, exposed,
                   policies, approval>>

\* The lease is published and attached, to the runtime only while it is active
Publishes(r) ==
    /\ packager[r].at = "publish"
    /\ knownSource' = packager[r].print
    /\ LET alive == hostOpen /\ OwnerCurrent(packager[r].of) IN
       /\ packLease' = [of |-> packager[r].of, print |-> packager[r].print, connected |-> alive,
                        complete |-> FALSE, cleanup |-> IF alive THEN "none" ELSE "running"]
       /\ attachments' = attachments \cup Attached(alive)
       /\ exposed' = IF alive THEN FALSE ELSE exposed
       /\ packager' = [packager EXCEPT ![r] = [NoPackRequest EXCEPT !.kind = "register",
                            !.at = IF alive THEN "seed" ELSE "detach",
                            !.then = IF alive THEN "none" ELSE "fail"]]
    /\ UNCHANGED <<disk, star, hostOpen, hostTurn, code, grantRow, policies, migrated, approval>>

\* restore_host_package: the default intent is seeded while the lease is active
Seeds(r) ==
    /\ packager[r].at = "seed"
    /\ IF LeaseActive
       THEN /\ packager' = [packager EXCEPT ![r].at = "start"]
            /\ UNCHANGED packLease
       ELSE Withdrawing(r, "fail")
    /\ UNCHANGED <<disk, star, hostOpen, hostTurn, knownSource, attachments, code, exposed,
                   grantRow, policies, migrated, approval>>

\* What a start captures: the code whose digest the registration inspected
CodeCaptured_Any == Snapshot(packLease.print.m)
CodeCaptured == IF Snapshot(packLease.print.m) = packLease.print.c THEN packLease.print.c ELSE 0

\* The restored intent starts the module, unless it is disabled or the files moved
Restores(r) ==
    /\ packager[r].at = "start"
    /\ IF LeaseActive
       THEN /\ code' \in (IF code = 0 THEN {0, CodeCaptured} ELSE {code})
            /\ packager' = [packager EXCEPT ![r].at = "finish"]
            /\ UNCHANGED packLease
       ELSE Withdrawing(r, "fail") /\ UNCHANGED code
    /\ UNCHANGED <<disk, star, hostOpen, hostTurn, knownSource, attachments, exposed, grantRow,
                   policies, migrated, approval>>

\* Complete, and exposed by the refreshed bindings
Completes(r) ==
    /\ packager[r].at = "finish"
    /\ IF LeaseActive
       THEN /\ packLease' = [packLease EXCEPT !.complete = TRUE]
            /\ exposed' = Refreshed([packLease EXCEPT !.complete = TRUE])
            /\ Release(r)
       ELSE Withdrawing(r, "fail") /\ UNCHANGED <<hostTurn, exposed>>
    /\ UNCHANGED <<disk, star, hostOpen, knownSource, attachments, code, grantRow, policies,
                   migrated, approval>>

\* A timeout, an error or a cancellation: before the lease is published the request
\* leaves, after it the lease is withdrawn, during a withdrawal the lease stays owned
Interrupted(r) ==
    /\ packager[r].at \notin {"idle", "publish"}
    /\ \/ /\ packager[r].at = "waiting"
          /\ packager' = [packager EXCEPT ![r] = NoPackRequest]
          /\ UNCHANGED <<packLease, hostTurn>>
       \/ /\ packager[r].at \in {"discover", "inspect", "drain", "detach", "capture", "bind"}
          /\ Release(r)
          /\ UNCHANGED packLease
       \/ /\ packager[r].at \in {"seed", "start", "finish"}
          /\ Withdrawing(r, "fail")
          /\ UNCHANGED hostTurn
    /\ UNCHANGED <<disk, star, hostOpen, knownSource, attachments, code, exposed, grantRow,
                   policies, migrated, approval>>

-----------------------------------------------------------------------------
(* unregister_package, close *)

RequestsUnregister(r) ==
    /\ packager[r].at = "idle" /\ packLease # NoLease
    /\ packager' = [packager EXCEPT ![r] = [NoPackRequest EXCEPT !.at = "waiting",
                                              !.kind = "unregister", !.held = TRUE]]
    /\ UNCHANGED <<disk, star, hostOpen, hostTurn, packLease, knownSource, attachments, code,
                   exposed, grantRow, policies, migrated, approval>>

EntersUnregister(r) ==
    /\ packager[r].at = "waiting" /\ packager[r].kind = "unregister" /\ hostTurn = "none"
    /\ IF packager[r].held /\ hostOpen
       THEN Withdrawing(r, "done") /\ hostTurn' = r
       ELSE Release(r) /\ UNCHANGED packLease
    /\ UNCHANGED <<disk, star, hostOpen, knownSource, attachments, code, exposed, grantRow,
                   policies, migrated, approval>>

\* stop_accepting; the cancellations that follow are Interrupted
ClosesHost ==
    /\ hostOpen
    /\ hostOpen' = FALSE
    /\ packLease' = [packLease EXCEPT !.connected = FALSE]
    /\ UNCHANGED <<disk, star, hostTurn, knownSource, attachments, code, exposed, grantRow,
                   policies, migrated, packager, approval>>

\* A new process: load reads the approved policies
HostRestarts ==
    /\ star' = "none" /\ hostOpen' = TRUE /\ hostTurn' = "none"
    /\ packLease' = NoLease /\ knownSource' = NoPrint
    /\ attachments' = {} /\ code' = 0 /\ exposed' = FALSE
    /\ policies' = IF grantRow.rev > 0 THEN grantRow.m ELSE BuildApproved
    /\ packager' = [r \in PackRequests |-> NoPackRequest]
    /\ approval' = NoApproval
    /\ UNCHANGED <<disk, grantRow, migrated>>

-----------------------------------------------------------------------------
(* plan and approve *)

\* _candidate: the files and the plugin object, as they are now
PlanReadsFiles ==
    /\ approval.at = "idle" /\ star # "none" /\ grantRow.rev < MaxGrantRows
    /\ approval' = [NoApproval EXCEPT !.at = "row", !.m = disk.m, !.of = star]
    /\ UNCHANGED <<disk, star, hostOpen, hostTurn, packLease, knownSource, attachments, code,
                   exposed, grantRow, policies, migrated, packager>>

\* The row's revision completes the plan, which is shown
PlanReadsRow ==
    /\ approval.at = "row"
    /\ approval' = IF OwnerCurrent(approval.of)
                   THEN [approval EXCEPT !.at = "shown", !.rev = grantRow.rev] ELSE NoApproval
    /\ UNCHANGED <<disk, star, hostOpen, hostTurn, packLease, knownSource, attachments, code,
                   exposed, grantRow, policies, migrated, packager>>

\* approve plans again and compares the plan's digest and revision
ApproveReplans ==
    /\ approval.at \in {"shown", "replan"}
    /\ approval' = CASE approval.at = "shown" /\ star # "none" /\ disk.m = approval.m ->
                            [approval EXCEPT !.at = "replan", !.of = star]
                     [] approval.at = "replan" /\ OwnerCurrent(approval.of)
                                              /\ grantRow.rev = approval.rev ->
                            [approval EXCEPT !.at = "reread"]
                     [] OTHER -> NoApproval
    /\ UNCHANGED <<disk, star, hostOpen, hostTurn, packLease, knownSource, attachments, code,
                   exposed, grantRow, policies, migrated, packager>>

\* The files are read once more, and what is read must still be the plan
AsPlanned_Assumed == TRUE
AsPlanned == disk.m = approval.m

ApproveRereads ==
    /\ approval.at = "reread"
    /\ approval' = IF star # "none" /\ AsPlanned
                   THEN [approval EXCEPT !.at = "commit", !.of = star, !.writes = disk.m]
                   ELSE NoApproval
    /\ UNCHANGED <<disk, star, hostOpen, hostTurn, packLease, knownSource, attachments, code,
                   exposed, grantRow, policies, migrated, packager>>

\* The transaction, behind the object, the session and the revision
ApproveCommits ==
    /\ approval.at = "commit"
    /\ approval' = NoApproval
    /\ grantRow' = IF OwnerCurrent(approval.of) /\ grantRow.rev = approval.rev
                   THEN [rev |-> grantRow.rev + 1, m |-> approval.writes] ELSE grantRow
    /\ UNCHANGED <<disk, star, hostOpen, hostTurn, packLease, knownSource, attachments, code,
                   exposed, policies, migrated, packager>>

\* installation_operation: the session or its source ends
ApprovalDenied ==
    /\ approval.at # "idle"
    /\ approval' = NoApproval
    /\ UNCHANGED <<disk, star, hostOpen, hostTurn, packLease, knownSource, attachments, code,
                   exposed, grantRow, policies, migrated, packager>>

-----------------------------------------------------------------------------
(* The rest of the world *)

\* AstrBot loads, reloads or unloads the outer plugin
PluginReloads ==
    /\ \E object \in PluginObjects \cup {"none"} : object # star /\ star' = object
    /\ UNCHANGED <<disk, hostOpen, hostTurn, packLease, knownSource, attachments, code, exposed,
                   grantRow, policies, migrated, packager, approval>>

FilesChange ==
    /\ \/ disk.m < LastVersion /\ disk' = [disk EXCEPT !.m = @ + 1]
       \/ disk.c < LastVersion /\ disk' = [disk EXCEPT !.c = @ + 1]
    /\ UNCHANGED <<star, hostOpen, hostTurn, packLease, knownSource, attachments, code, exposed,
                   grantRow, policies, migrated, packager, approval>>

\* An administrator enables or disables the module of the attached package
ModuleSwitches ==
    /\ \/ /\ code = 0 /\ LeaseActive /\ "runtime" \in attachments
          /\ code' = CodeCaptured
       \/ code # 0 /\ code' = 0
    /\ UNCHANGED <<disk, star, hostOpen, hostTurn, packLease, knownSource, attachments, exposed,
                   grantRow, policies, migrated, packager, approval>>

PackageNext ==
    \/ \E r \in PackRequests :
        \/ RequestsRegister(r) \/ EntersRegister(r) \/ Discovers(r) \/ Inspects(r)
        \/ CapturesPages(r) \/ Binds(r) \/ Publishes(r) \/ Seeds(r) \/ Restores(r)
        \/ Completes(r) \/ Interrupted(r)
        \/ RequestsUnregister(r) \/ EntersUnregister(r) \/ DrainsCleanup(r) \/ Withdraws(r)
    \/ DetachStops \/ DetachDone \/ DetachFails \/ ClosesHost \/ HostRestarts
    \/ PlanReadsFiles \/ PlanReadsRow \/ ApproveReplans \/ ApproveRereads \/ ApproveCommits
    \/ ApprovalDenied \/ PluginReloads \/ FilesChange \/ ModuleSwitches

PackageSpec == PackageInit /\ [][PackageNext]_packageVars

-----------------------------------------------------------------------------
(* Properties *)

\* register_package, _withdraw and detach_host_package together, through failures,
\* timeouts and reloads of the plugin: while the runtime, the sources or the
\* administration hold a package, or its code runs, the lease that owns it is in
\* _packages, and the code is the version its registration inspected; pages are
\* exposed only for a lease that completed while the host is open.  "a replacement is never admitted over
\* an unfinished stop" (extension_runtime.py)
PackageIsOwned ==
    /\ attachments # {} => packLease # NoLease
    /\ code # 0 => "runtime" \in attachments /\ code = packLease.print.c
    /\ hostOpen /\ exposed => packLease.complete

\* approve, bind: a row of extension_installation_grants is only ever written with
\* what the administrator was shown and over the revision shown, or, for the first
\* one, with what this process loaded
ApprovedAsShown ==
    grantRow' # grantRow =>
         \/ grantRow'.m = approval.m /\ grantRow.rev = approval.rev
         \/ grantRow.rev = 0 /\ grantRow'.m = policies
=============================================================================
