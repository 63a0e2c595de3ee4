--------------------------- MODULE SourceRequests ---------------------------
(***************************************************************************)
(* Requests of a module to one declared source: SourceHttpService.fetch    *)
(* with its two semaphores, the credential lease of                        *)
(* SourceCredentialService (a cached OAuth token or a static credential),  *)
(* the persisted request budget of SourceRequestBudget and the retry after *)
(* a refused token.  Every wait may end in the deadline, a cancellation or *)
(* a lost authority.  The administrator rotates or removes the credential  *)
(* at any time, and the module's services are closed or retired.           *)
(***************************************************************************)
EXTENDS Naturals, FiniteSets

CONSTANTS
    Fetches,        \* fetch coroutines of the module
    HttpSlots,      \* max_concurrency, and max_source_concurrency of the source
    PerWindow,      \* requests_per_minute
    Window,         \* that minute, in ticks
    MaxRotations,   \* bound on changes of the credential
    MaxTicks        \* bound on the clock

ASSUME SourceAssumption ==
    /\ IsFiniteSet(Fetches) /\ "free" \notin Fetches /\ HttpSlots \in Nat \ {0} /\ PerWindow \in Nat \ {0}
    /\ Window \in Nat \ {0} /\ MaxRotations \in Nat /\ MaxTicks \in Nat

VARIABLES
    policy,     \* kind of the credential policy: "oauth" or "static"
    secret,     \* the configured credential: [ver, on]
    token,      \* _TokenState: [ver, held]
    tokenLock,  \* _TokenState.lock: the fetch that holds it, or "free"
    retired,    \* _closed of the credential service
    attempts,   \* source_request_attempts: instant -> rows
    cooldown,   \* source_request_cooldowns.until_at
    session,    \* session of the shared transport: "none", "open" or "closed"
    clock,
    fetch       \* fetch -> coroutine

sourceVars == <<policy, secret, token, tokenLock, retired, attempts, cooldown, session, clock, fetch>>

NoLease == [ver |-> 0, live |-> FALSE]
NoFetch == [pc |-> "idle", since |-> 0, ver |-> 0, lease |-> NoLease, now |-> 0, again |-> FALSE]

SourceInit ==
    /\ policy \in {"oauth", "static"}
    /\ secret = [ver |-> 1, on |-> TRUE]
    /\ token = [ver |-> 0, held |-> FALSE]
    /\ tokenLock = "free"
    /\ retired = FALSE
    /\ attempts = [t \in 0..MaxTicks |-> 0]
    /\ cooldown = 0
    /\ session = "none"
    /\ clock = 0
    /\ fetch = [f \in Fetches |-> NoFetch]

In(f, pc) == fetch[f].pc = pc
Goto(f, pc) == fetch' = [fetch EXCEPT ![f].pc = pc]

-----------------------------------------------------------------------------
\* fetch: the global permit, then the one of the source.

Holding(pcs) == {f \in Fetches : fetch[f].pc \notin pcs}

FetchStarts(f) ==
    /\ In(f, "idle")
    /\ Cardinality(Holding({"idle"})) < HttpSlots
    /\ Goto(f, "permit")
    /\ UNCHANGED <<policy, secret, token, tokenLock, retired, attempts, cooldown, session, clock>>

\* The source's permit and the authority check; then authorize() is called.
FetchAdmitted(f) ==
    /\ In(f, "permit")
    /\ Cardinality(Holding({"idle", "permit"})) < HttpSlots
    /\ ~retired
    /\ fetch' = [fetch EXCEPT ![f] = [NoFetch EXCEPT !.pc = "lease", !.since = secret.ver]]
    /\ UNCHANGED <<policy, secret, token, tokenLock, retired, attempts, cooldown, session, clock>>

\* The finally clause: lock and permits go back.
FetchLeaves(f) ==
    /\ fetch' = [fetch EXCEPT ![f] = NoFetch]
    /\ tokenLock' = IF tokenLock = f THEN "free" ELSE tokenLock

\* Deadline, cancellation, lost authority, a refused read or a broken response.
FetchFails(f) ==
    /\ ~In(f, "idle")
    /\ FetchLeaves(f)
    /\ UNCHANGED <<policy, secret, token, retired, attempts, cooldown, session, clock>>

-----------------------------------------------------------------------------
\* authorize, under the lock of the source.

\* A change of generation makes every lease given before stale.
Bumped == [f \in Fetches |-> [fetch[f] EXCEPT !.lease.live = FALSE]]

\* The lock, and the secret's current reference.
LeaseEnters(f) ==
    /\ In(f, "lease") /\ tokenLock = "free" /\ ~retired
    /\ tokenLock' = f
    /\ Goto(f, "reference")
    /\ UNCHANGED <<policy, secret, token, retired, attempts, cooldown, session, clock>>

\* _current_secret_ref: exactly one active reference.  A token of another
\* secret is dropped.
ReferenceRead_KeepsToken(f) ==
    /\ In(f, "reference") /\ secret.on /\ ~retired
    /\ fetch' = [fetch EXCEPT ![f].pc = "material", ![f].ver = secret.ver]
    /\ UNCHANGED <<policy, secret, token, tokenLock, retired, attempts, cooldown, session, clock>>
ReferenceRead(f) ==
    /\ In(f, "reference") /\ secret.on /\ ~retired
    /\ IF policy = "oauth" /\ token.ver # secret.ver
       THEN /\ token' = [ver |-> secret.ver, held |-> FALSE]
            /\ fetch' = [Bumped EXCEPT ![f].pc = "material", ![f].ver = secret.ver]
       ELSE /\ fetch' = [fetch EXCEPT ![f].pc = "material", ![f].ver = secret.ver]
            /\ UNCHANGED token
    /\ UNCHANGED <<policy, secret, tokenLock, retired, attempts, cooldown, session, clock>>

\* _lease: the token of the state; the lock goes back.
Leases(f, v) ==
    /\ fetch' = [fetch EXCEPT ![f].pc = "reserve", ![f].lease = [ver |-> v, live |-> TRUE]]
    /\ tokenLock' = "free"

\* _read_material, then the cached token, or the exchange.
MaterialRead(f) ==
    /\ In(f, "material") /\ policy = "oauth" /\ ~retired
    /\ \/ token.held /\ Leases(f, token.ver)
       \/ Goto(f, "exchange") /\ UNCHANGED tokenLock
    /\ UNCHANGED <<policy, secret, token, retired, attempts, cooldown, session, clock>>

\* _get_session: one session, made on first use, none once closed.
SessionFor == IF session = "closed" THEN "refused" ELSE "open"

\* request_credential_exchange over the same transport.
ExchangeSent(f) ==
    /\ In(f, "exchange") /\ SessionFor = "open"
    /\ session' = "open"
    /\ Goto(f, "exchanged")
    /\ UNCHANGED <<policy, secret, token, tokenLock, retired, attempts, cooldown, clock>>

\* _exchange returned a token; the reference is read again.  Another one drops
\* the token, and the call fails.
ExchangeVerified(f) ==
    /\ In(f, "exchanged") /\ ~retired
    /\ IF secret.on /\ secret.ver = fetch[f].ver
       THEN Goto(f, "verified") /\ UNCHANGED <<token, tokenLock>>
       ELSE /\ token' = [ver |-> 0, held |-> FALSE]
            /\ fetch' = [Bumped EXCEPT ![f] = NoFetch]
            /\ tokenLock' = "free"
    /\ UNCHANGED <<policy, secret, retired, attempts, cooldown, session, clock>>

\* The material again, and the new token.
TokenStored(f) ==
    /\ In(f, "verified") /\ ~retired
    /\ token' = [ver |-> fetch[f].ver, held |-> TRUE]
    /\ tokenLock' = "free"
    /\ fetch' = [Bumped EXCEPT ![f].pc = "reserve", ![f].lease = [ver |-> fetch[f].ver, live |-> TRUE]]
    /\ UNCHANGED <<policy, secret, retired, attempts, cooldown, session, clock>>

\* _static_lease: the material, then the reference once more.
StaticLeased(f) ==
    /\ In(f, "material") /\ policy = "static" /\ ~retired
    /\ secret.on /\ secret.ver = fetch[f].ver
    /\ Leases(f, fetch[f].ver)
    /\ UNCHANGED <<policy, secret, token, retired, attempts, cooldown, session, clock>>

\* An optional credential that is not configured: the request goes without.
StaticWithout(f) ==
    /\ In(f, "reference") /\ policy = "static" /\ ~secret.on
    /\ fetch' = [fetch EXCEPT ![f].pc = "reserve", ![f].lease = NoLease]
    /\ tokenLock' = "free"
    /\ UNCHANGED <<policy, secret, token, retired, attempts, cooldown, session, clock>>

TokenExpires ==
    /\ token.held
    /\ token' = [token EXCEPT !.held = FALSE]
    /\ UNCHANGED <<policy, secret, tokenLock, retired, attempts, cooldown, session, clock, fetch>>

-----------------------------------------------------------------------------
\* _perform_resource_request: the budget, then the transport.

\* reserve() reads the clock, its transaction comes later.
ReserveCalled(f) ==
    /\ In(f, "reserve")
    /\ fetch' = [fetch EXCEPT ![f].pc = "reserving", ![f].now = clock]
    /\ UNCHANGED <<policy, secret, token, tokenLock, retired, attempts, cooldown, session, clock>>

\* _status: rows younger than the window, later ones included.
Counted_UpToNow(now) == {t \in 0..MaxTicks : t <= now /\ t + Window > now /\ attempts[t] > 0}
Counted(now) == {t \in 0..MaxTicks : t + Window > now /\ attempts[t] > 0}
RowsIn(T) ==
    LET rows[t \in 0..MaxTicks] == (IF t \in T THEN attempts[t] ELSE 0)
                                  + (IF t = 0 THEN 0 ELSE rows[t - 1])
    IN rows[MaxTicks]
Available(now) == cooldown <= now /\ RowsIn(Counted(now)) < PerWindow

Reserved(f) ==
    /\ In(f, "reserving")
    /\ IF Available(fetch[f].now)
       THEN /\ attempts' = [attempts EXCEPT ![fetch[f].now] = @ + 1]
            /\ Goto(f, "sending")
            /\ UNCHANGED tokenLock
       ELSE FetchLeaves(f) /\ UNCHANGED attempts
    /\ UNCHANGED <<policy, secret, token, retired, cooldown, session, clock>>

\* AioHttpTransport.request: the proof must be the one this channel made for
\* exactly these headers, so a lease and its request belong together.
TransportSends(f) ==
    /\ In(f, "sending")
    /\ IF SessionFor = "open"
       THEN session' = "open" /\ Goto(f, "sent") /\ UNCHANGED tokenLock
       ELSE FetchLeaves(f) /\ UNCHANGED session
    /\ UNCHANGED <<policy, secret, token, retired, attempts, cooldown, clock>>

TransportCloses ==
    /\ session # "closed" /\ retired
    /\ session' = "closed"
    /\ UNCHANGED <<policy, secret, token, tokenLock, retired, attempts, cooldown, clock, fetch>>

\* The response: an answer, a redirect of a source without credential (a new
\* request), a refused token, or the source's own limit.
ResponseGood(f) ==
    /\ In(f, "sent")
    /\ FetchLeaves(f)
    /\ UNCHANGED <<policy, secret, token, retired, attempts, cooldown, session, clock>>

ResponseRedirects(f) ==
    /\ In(f, "sent") /\ fetch[f].lease.ver = 0 /\ ~fetch[f].again
    /\ fetch' = [fetch EXCEPT ![f].pc = "reserve", ![f].again = TRUE]
    /\ UNCHANGED <<policy, secret, token, tokenLock, retired, attempts, cooldown, session, clock>>

ResponseUnauthorized(f) ==
    /\ In(f, "sent") /\ fetch[f].lease.ver # 0
    /\ Goto(f, "invalidate")
    /\ UNCHANGED <<policy, secret, token, tokenLock, retired, attempts, cooldown, session, clock>>

\* invalidate: only the token of this lease.  A GET asks for a new lease once.
Invalidates(f) == token.ver = fetch[f].lease.ver /\ fetch[f].lease.live
LeaseInvalidated(f) ==
    /\ In(f, "invalidate") /\ tokenLock = "free"
    /\ \E retry \in {~fetch[f].again, FALSE} :
         LET base == IF Invalidates(f) THEN Bumped ELSE fetch
         IN fetch' = [base EXCEPT ![f] = IF retry
                        THEN [NoFetch EXCEPT !.pc = "lease", !.since = secret.ver, !.again = TRUE]
                        ELSE NoFetch]
    /\ token' = IF Invalidates(f) THEN [token EXCEPT !.held = FALSE] ELSE token
    /\ UNCHANGED <<policy, secret, tokenLock, retired, attempts, cooldown, session, clock>>

\* 429: cool_down keeps the later instant; the request fails.
ResponseLimited(f) ==
    /\ In(f, "sent")
    /\ \E until \in {u \in clock + 1..clock + 2 : u <= MaxTicks} :
         cooldown' = IF cooldown > until THEN cooldown ELSE until
    /\ FetchLeaves(f)
    /\ UNCHANGED <<policy, secret, token, retired, attempts, session, clock>>

-----------------------------------------------------------------------------
\* The administrator, the lifecycle, the clock.

CredentialChanges ==
    /\ secret.ver <= MaxRotations
    /\ \E on \in BOOLEAN : secret' = [ver |-> secret.ver + 1, on |-> on]
    /\ UNCHANGED <<policy, token, tokenLock, retired, attempts, cooldown, session, clock, fetch>>

\* close() of the service marks it first and waits for each lock; the token goes
\* once no call is inside.
CredentialsClose ==
    /\ ~retired
    /\ retired' = TRUE
    /\ UNCHANGED <<policy, secret, token, tokenLock, attempts, cooldown, session, clock, fetch>>

CredentialsCleared ==
    /\ retired /\ tokenLock = "free" /\ token.ver # 0
    /\ token' = [ver |-> 0, held |-> FALSE]
    /\ fetch' = Bumped
    /\ UNCHANGED <<policy, secret, tokenLock, retired, attempts, cooldown, session, clock>>

\* retire(): the same without waiting.
CredentialsRetire ==
    /\ ~retired
    /\ retired' = TRUE
    /\ token' = [ver |-> 0, held |-> FALSE]
    /\ fetch' = Bumped
    /\ UNCHANGED <<policy, secret, tokenLock, attempts, cooldown, session, clock>>

ClockTicks ==
    /\ clock < MaxTicks
    /\ clock' = clock + 1
    /\ UNCHANGED <<policy, secret, token, tokenLock, retired, attempts, cooldown, session, fetch>>

SourceNext ==
    \/ \E f \in Fetches :
         \/ FetchStarts(f) \/ FetchAdmitted(f) \/ FetchFails(f) \/ LeaseEnters(f)
         \/ ReferenceRead(f) \/ MaterialRead(f) \/ ExchangeSent(f) \/ ExchangeVerified(f) \/ TokenStored(f)
         \/ StaticLeased(f) \/ StaticWithout(f) \/ ReserveCalled(f) \/ Reserved(f) \/ TransportSends(f)
         \/ ResponseGood(f) \/ ResponseRedirects(f) \/ ResponseUnauthorized(f)
         \/ LeaseInvalidated(f) \/ ResponseLimited(f)
    \/ TokenExpires \/ CredentialChanges \/ CredentialsClose \/ CredentialsCleared
    \/ CredentialsRetire \/ TransportCloses \/ ClockTicks

SourceSpec == SourceInit /\ [][SourceNext]_sourceVars

-----------------------------------------------------------------------------
\* A lease carries the credential the administrator configured: the secret it was
\* made from was still the current one when the call asked for it or became
\* current since, whatever token was cached and however long the exchange took.
LeaseIsCurrent ==
    \A f \in Fetches : fetch[f].lease.ver # 0 => fetch[f].lease.ver >= fetch[f].since

\* The budget is kept: the attempts recorded in any window of the limit's length
\* are at most the limit, although each call reads the clock before its
\* transaction runs and transactions run in another order.
BudgetHolds ==
    \A t \in 0..MaxTicks : RowsIn({u \in 0..MaxTicks : u <= t /\ u + Window > t}) <= PerWindow
=============================================================================
