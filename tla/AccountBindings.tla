-------------------------- MODULE AccountBindings --------------------------
(***************************************************************************)
(* Who an actor is and what it has bound: the principal provisioned at     *)
(* trusted ingress, the published conversation route, the identities       *)
(* stored for the principal, and its bindings with one default per         *)
(* conversation.  One actor, one module, one conversation; several         *)
(* commands of the actor run at once.                                      *)
(*                                                                         *)
(* Each storage call is one transaction and one step; binding operations   *)
(* hold the admission mutation gate from their snapshot to their write.    *)
(***************************************************************************)
EXTENDS Naturals, Sequences, FiniteSets

CONSTANTS
    BindTasks,      \* commands of the actor in flight
    Objects,        \* identities of the provider the actor may bind
    Routes,         \* delivery routes an ingress may name for the conversation
    MaxBindings     \* bound on binding rows ever created, and on default changes

None == "none"

ASSUME BindAssumption == IsFiniteSet(BindTasks) /\ IsFiniteSet(Objects)
                         /\ None \notin BindTasks \cup Routes /\ MaxBindings \in Nat

VARIABLES
    principals,  \* the principals row of (namespace, actor): an id or None
    route,       \* the conversations row: its delivery route or None
    identities,  \* object -> the principal its identities row names, or None
    bindings,    \* binding_id -> [owner, object, rev], the bindings table
    minted,      \* binding ids handed out (uuid4)
    chosen,      \* the binding_defaults row: [id, rev]
    bindGate,    \* holder of AdmissionController.mutation
    command      \* task -> coroutine

bindVars == <<principals, route, identities, bindings, minted, chosen, bindGate, command>>

NoCommand == [pc |-> "idle", who |-> None, route |-> None, obj |-> None,
              bid |-> 0, rev |-> 0, seen |-> 0]
NoDefault == [id |-> 0, rev |-> 0]

BindInit ==
    /\ principals = None
    /\ route = None
    /\ identities = [o \in Objects |-> None]
    /\ bindings = << >>
    /\ minted = 0
    /\ chosen = NoDefault
    /\ bindGate = None
    /\ command = [t \in BindTasks |-> NoCommand]

Stops(t) == command' = [command EXCEPT ![t] = NoCommand]
BindGoes(t, pc) == command' = [command EXCEPT ![t].pc = pc]

-----------------------------------------------------------------------------
\* Trusted ingress.

\* ensure: _find an existing principal.
FindPrincipal(t, r) ==
    /\ command[t].pc = "idle"
    /\ command' = [command EXCEPT ![t].who = principals, ![t].route = r,
                      ![t].pc = IF principals = None THEN "save" ELSE "publish"]
    /\ UNCHANGED <<principals, route, identities, bindings, minted, chosen, bindGate>>

\* save_principal: insert a candidate of this task, or a unique violation.
SavePrincipal_Replaces(t) ==
    principals' = t /\ command' = [command EXCEPT ![t].who = t, ![t].pc = "publish"]

SavePrincipal(t) ==
    IF principals = None
    THEN principals' = t /\ command' = [command EXCEPT ![t].who = t, ![t].pc = "publish"]
    ELSE UNCHANGED principals /\ BindGoes(t, "raced")

EnsurePrincipal(t) ==
    /\ command[t].pc = "save"
    /\ SavePrincipal(t)
    /\ UNCHANGED <<route, identities, bindings, minted, chosen, bindGate>>

\* ensure, after a unique violation: the row another ingress inserted.
FindRaced(t) ==
    /\ command[t].pc = "raced"
    /\ IF principals = None THEN Stops(t)
       ELSE command' = [command EXCEPT ![t].who = principals, ![t].pc = "publish"]
    /\ UNCHANGED <<principals, route, identities, bindings, minted, chosen, bindGate>>

\* publish: under the gate, insert the route; another route for the same
\* conversation is a unique violation and the ingress is refused.
PublishRoute(t) ==
    /\ command[t].pc = "publish" /\ bindGate = None
    /\ IF route \in {None, command[t].route}
       THEN route' = command[t].route /\ BindGoes(t, "scope")
       ELSE UNCHANGED route /\ Stops(t)
    /\ UNCHANGED <<principals, identities, bindings, minted, chosen, bindGate>>

\* _IdentityScope.invocation and principal_id: the conversation row exists,
\* the principal is read again and the invocation and its lease still hold.
ResolveScope(t, live) ==
    /\ command[t].pc = "scope"
    /\ IF live /\ route # None /\ principals # None
       THEN command' = [command EXCEPT ![t].who = principals, ![t].pc = "ready"]
       ELSE Stops(t)
    /\ UNCHANGED <<principals, route, identities, bindings, minted, chosen, bindGate>>

-----------------------------------------------------------------------------
\* Identities and bindings.

\* save_identity: the row is written once for its principal; a row of another
\* principal is a unique violation.
SaveIdentity(t, o) ==
    /\ command[t].pc = "ready"
    /\ command[t].who = principals        \* FOREIGN KEY principal_id
    /\ identities[o] = None
    /\ identities' = [identities EXCEPT ![o] = command[t].who]
    /\ UNCHANGED <<principals, route, bindings, minted, chosen, bindGate, command>>

\* default_identity, bindings: reads; an identity that is not the owner's is
\* not found.
ReadBindings(t) ==
    /\ command[t].pc = "ready"
    /\ Stops(t)
    /\ UNCHANGED <<principals, route, identities, bindings, minted, chosen, bindGate>>

\* bind: the identity is stored, and stored for this principal.
BindChecked(t, o) ==
    /\ command[t].pc = "ready"
    /\ IF identities[o] = command[t].who
       THEN command' = [command EXCEPT ![t].pc = "bind", ![t].obj = o]
       ELSE Stops(t)
    /\ UNCHANGED <<principals, route, identities, bindings, minted, chosen, bindGate>>

\* replace_default and unbind name a binding the user saw at some revision.
Named(t, op, b) ==
    /\ command[t].pc = "ready" /\ b \in DOMAIN bindings
    /\ command' = [command EXCEPT ![t].pc = op, ![t].bid = b, ![t].rev = bindings[b].rev]
    /\ UNCHANGED <<principals, route, identities, bindings, minted, chosen, bindGate>>

\* The write each operation makes under the gate.
Writing == [bind |-> "bind_write", replace |-> "replace_write", unbind |-> "unbind_write"]

\* _mutation, _recheck_command, then the reads under the gate: the named
\* binding is still there and the owner's, and the default's revision is taken.
Snapshot(t, live) ==
    LET c == command[t] IN
    /\ c.pc \in {"bind", "replace", "unbind"} /\ bindGate = None
    /\ IF /\ live
          /\ c.pc # "bind" => /\ c.bid \in DOMAIN bindings
                              /\ bindings[c.bid].owner = c.who
                              /\ identities[bindings[c.bid].object] = c.who
       THEN /\ command' = [command EXCEPT ![t].pc = Writing[@], ![t].seen = chosen.rev]
            /\ bindGate' = t
       ELSE Stops(t) /\ UNCHANGED bindGate
    /\ UNCHANGED <<principals, route, identities, bindings, minted, chosen>>

\* bind_default: insert the binding and move the default to it, both or
\* neither.  The object may be bound once (UNIQUE).
BindWrite(t) ==
    LET c == command[t]  b == minted + 1 IN
    /\ c.pc = "bind_write"
    /\ IF /\ chosen.rev = c.seen
          /\ b <= MaxBindings
          /\ \A x \in DOMAIN bindings : bindings[x].object # c.obj
       THEN /\ bindings' = [x \in DOMAIN bindings \cup {b} |->
                    IF x = b THEN [owner |-> c.who, object |-> c.obj, rev |-> 1]
                    ELSE bindings[x]]
            /\ minted' = b
            /\ chosen' = [id |-> b, rev |-> chosen.rev + 1]
       ELSE UNCHANGED <<bindings, minted, chosen>>
    /\ Stops(t) /\ bindGate' = None
    /\ UNCHANGED <<principals, route, identities>>

\* replace_default: compare and swap on the default's revision.
ReplaceWrite(t) ==
    LET c == command[t] IN
    /\ c.pc = "replace_write"
    /\ chosen' = IF c.bid \in DOMAIN bindings /\ chosen.rev = c.seen /\ chosen.rev <= MaxBindings
                 THEN [id |-> c.bid, rev |-> chosen.rev + 1] ELSE chosen
    /\ Stops(t) /\ bindGate' = None
    /\ UNCHANGED <<principals, route, identities, bindings, minted>>

\* delete: compare and swap on the binding's revision; a default that named
\* it goes with it (ON DELETE CASCADE).
UnbindWrite(t) ==
    LET c == command[t] IN
    /\ c.pc = "unbind_write"
    /\ IF c.bid \in DOMAIN bindings /\ bindings[c.bid].rev = c.rev
       THEN /\ bindings' = [x \in DOMAIN bindings \ {c.bid} |-> bindings[x]]
            /\ chosen' = IF chosen.id = c.bid THEN NoDefault ELSE chosen
       ELSE UNCHANGED <<bindings, chosen>>
    /\ Stops(t) /\ bindGate' = None
    /\ UNCHANGED <<principals, route, identities, minted>>

BindNext ==
    \E t \in BindTasks :
       \/ \E r \in Routes : FindPrincipal(t, r)
       \/ EnsurePrincipal(t) \/ FindRaced(t) \/ PublishRoute(t)
       \/ \E live \in BOOLEAN : ResolveScope(t, live) \/ Snapshot(t, live)
       \/ \E o \in Objects : SaveIdentity(t, o) \/ BindChecked(t, o)
       \/ ReadBindings(t)
       \/ \E op \in {"replace", "unbind"}, b \in 1..MaxBindings : Named(t, op, b)
       \/ BindWrite(t) \/ ReplaceWrite(t) \/ UnbindWrite(t)

BindSpec == BindInit /\ [][BindNext]_bindVars

-----------------------------------------------------------------------------
\* However many first messages of an actor race through ensure, every
\* identity and every binding stored for it belongs to the principal the
\* actor resolves to afterwards, and the default is one of them: nothing the
\* actor bound becomes unreachable.
OwnerKeepsBindings ==
    /\ \A o \in Objects : identities[o] \in {None, principals}
    /\ \A b \in DOMAIN bindings : bindings[b].owner = principals
    /\ chosen.id # 0 => chosen.id \in DOMAIN bindings
=============================================================================
