---------------------------- MODULE MCCredentials ---------------------------
(***************************************************************************)
(* Credentials, for TLC: the vault that keeps them, the login a grant      *)
(* comes from, and the requests that carry them.  Their models share no    *)
(* state, so one run explores each by itself: keeper says which of them    *)
(* this behaviour is about.                                                *)
(***************************************************************************)
EXTENDS SecretVault, AccountLogin, SourceRequests, TLC

CONSTANTS t1, t2, s1, s2

VARIABLE keeper

CredentialSymmetry == Permutations({t1, t2}) \cup Permutations({s1, s2})

\* A component that does not run has no state
Off == "off"

MCInit ==
    /\ keeper \in {"vault", "login", "source"}
    /\ IF keeper = "vault" THEN Init
       ELSE /\ sel = Off /\ op = Off /\ keyFile = Off /\ known = Off /\ resetSeen = Off
            /\ rcpt = Off /\ blob = Off /\ conf = Off /\ grant = Off /\ env = Off
            /\ mem = Off /\ upd = Off /\ kop = Off /\ mutex = Off /\ phase = Off
            /\ crashes = Off /\ faults = Off
    /\ IF keeper = "login" THEN AccountInit
       ELSE /\ sessions = Off /\ grantRow = Off /\ memory = Off /\ accountGate = Off
            /\ account = Off /\ voided = Off /\ restarts = Off
    /\ IF keeper = "source" THEN SourceInit
       ELSE /\ policy = Off /\ secret = Off /\ token = Off /\ tokenLock = Off
            /\ retired = Off /\ attempts = Off /\ cooldown = Off /\ session = Off
            /\ clock = Off /\ fetch = Off

MCNext ==
    /\ UNCHANGED keeper
    /\ IF keeper = "vault" THEN Next ELSE UNCHANGED vars
    /\ IF keeper = "login" THEN AccountNext ELSE UNCHANGED loginVars
    /\ IF keeper = "source" THEN SourceNext ELSE UNCHANGED sourceVars

MCSpec == MCInit /\ [][MCNext]_<<keeper, vars, loginVars, sourceVars>>

-----------------------------------------------------------------------------
(* Properties *)

\* However key operations, credential changes, commits that fail, crashes and
\* restarts interleave, a secret that is live can be opened, the reference a row
\* holds is kept, and the selected key is the durable one.
VaultIsSound ==
    keeper = "vault" => VaultHolds

\* However logins, revocations, re-authorizations and restarts interleave, no
\* login that was superseded makes the grant active (complete_login), and no
\* invocation issued under a revoked grant is told it holds one (_current_grant).
AccountIsCurrent ==
    [][keeper = "login" => LoginIsCurrent /\ RevokedStaysOut]_loginVars

\* A request to a source carries a credential that is current for the call, and
\* reserve keeps the attempts of every window within the limit.
RequestsAreCovered ==
    keeper = "source" => LeaseIsCurrent /\ BudgetHolds
=============================================================================
