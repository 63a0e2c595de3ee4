------------------------------- MODULE MCPaths ------------------------------
(***************************************************************************)
(* The path of a request through the host, for TLC: its invocation, and    *)
(* the route of its answer.  The models share no state, so one run         *)
(* explores each by itself: path says which of them this behaviour is      *)
(* about.                                                                  *)
(***************************************************************************)
EXTENDS InvocationGateway, RootOutput, TLC

VARIABLE path

\* A component that does not run has no state
Off == "off"

MCInit ==
    /\ path \in {"invocation", "output"}
    /\ IF path = "invocation" THEN InvokeInit
       ELSE /\ admission = Off /\ health = Off /\ grant = Off /\ core = Off /\ call = Off
            /\ view = Off /\ child = Off /\ work = Off /\ depwork = Off /\ source = Off
            /\ changes = Off
    /\ IF path = "output" THEN RouteInit
       ELSE /\ kind = Off /\ row = Off /\ claimGen = Off /\ routing = Off /\ send = Off
            /\ image = Off /\ routeLock = Off /\ current = Off /\ routeGrant = Off
            /\ event = Off /\ host = Off /\ up = Off /\ routeFaults = Off

MCNext ==
    /\ UNCHANGED path
    /\ IF path = "invocation" THEN InvokeNext ELSE UNCHANGED invokeVars
    /\ IF path = "output" THEN RouteNext ELSE UNCHANGED routeVars

MCSpec == MCInit /\ [][MCNext]_<<path, invokeVars, routeVars>>

\* asyncio runs every task that is ready, and every timer fires: the deadline, which
\* is a step of the call, and the cleanup bounds of the scopes of the handler and of
\* the dependency.  Handlers are foreign code and promise nothing: one may run for
\* ever, or swallow its cancellation.  Neither does a task that sends.
InvocationRuns(A) == path = "invocation" /\ A /\ UNCHANGED <<path, routeVars>>
OutputRuns(A) == path = "output" /\ A /\ UNCHANGED <<path, invokeVars>>
MCFairSpec ==
    /\ MCSpec
    /\ \A c \in Calls : /\ WF_invokeVars(InvocationRuns(CallProgress(c)))
                        /\ WF_invokeVars(InvocationRuns(HandlerStarts(c)))
                        /\ WF_invokeVars(InvocationRuns(CleanupTimeout(c)))
                        /\ WF_invokeVars(InvocationRuns(DependencyTimeout(c)))
    /\ \A c \in RouteCalls : WF_routeVars(OutputRuns(CallStep(c)))

-----------------------------------------------------------------------------
(* Properties *)

\* A request that returned, raised or was cancelled leaves no view, lease, proof or
\* derived view behind (ContextIssuer.release), and while a run of a module serves
\* no handler of an earlier run executes, not even one that ignored its cancellation.
AuthorityIsBounded ==
    path = "invocation" => AuthorityEndsWithCall /\ RunsDoNotOverlap

\* However often route is called for an invocation, across failed storage, lost
\* leases, cancellations and a restart: the host is asked at most once, the durable
\* outcome and every caller are told what happened, a revoked grant sends nothing,
\* and an image lives exactly as long as its send task may use it.
OutputTellsTruth ==
    path = "output" => OneDispatch /\ OutcomeTellsTruth /\ RevokedIsNotSent /\ ImageFollowsSend

\* A handler that ended after its grant was revoked never produces a private answer:
\* the Gateway reads the grant again after the handler.  And once close has fenced
\* the runtime no web or Tool request is answered with data any more.
AnswersAreAuthorized ==
    /\ [][path = "invocation" => FencedAnswersNothing]_invokeVars
    /\ \A c \in Calls :
          [](/\ path = "invocation" /\ call[c].pc = "check" /\ call[c].kind = "private"
             /\ GrantRead # view[c].grant
             => [](path = "invocation" => call[c].out # "ok"))

\* Every request and every call of route returns, whatever handlers, modules, the
\* storage and the host do, a handler and a dependency that both ignore their
\* cancellation included: the deadline and the cleanup bound of TaskScope.run and the
\* send timeout of route end every wait.
EveryCallReturns ==
    /\ \A c \in Calls :
          (path = "invocation" /\ call[c].pc \notin {"idle", "done"})
              ~> (path = "invocation" /\ call[c].pc = "done")
    /\ \A c \in RouteCalls :
          (path = "output" /\ routing[c].pc # "idle")
              ~> (path = "output" /\ routing[c].pc = "over")
=============================================================================
