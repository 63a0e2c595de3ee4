----------------------- MODULE EventDelivery_proofs -----------------------
(***************************************************************************)
(* Proofs about EventDelivery, for any number of events, dispatchers,      *)
(* attempts, faults and module epochs.                                     *)
(***************************************************************************)
EXTENDS EventDelivery, TLAPS

\* The initial state satisfies the inductive invariant.
LEMMA InitInv == Init => DeliveryInv
<1> SUFFICES ASSUME Init PROVE DeliveryInv
  OBVIOUS
<1> USE DeliveryConstants DEF Init
<1>1. TypeOK
  BY DEF TypeOK, RowsOK, AuthorityOK, ProcessOK, LocalsOK, PCs, States,
         MessageStatus, Waiting, Settled, BeforeClaim, Owning
<1>2. OneOwner /\ SeenWaiting /\ GateHeld /\ DownIsIdle /\ OwnerKnows /\ ProofHolds
  BY DEF OneOwner, SeenWaiting, GateHeld, DownIsIdle, OwnerKnows, ProofHolds,
         BeforeClaim, Owning, Gated
<1>3. AtMostOnceDelivery /\ SentIsConfirmed /\ NoOrphanAttempt
  BY DEF AtMostOnceDelivery, SentIsConfirmed, NoOrphanAttempt
<1> QED BY <1>1, <1>2, <1>3 DEF DeliveryInv

\* Type correctness.

\* Variables that a step leaves alone keep their types.
LEMMA UnchangedTypes ==
    ASSUME TypeOK
    PROVE  /\ UNCHANGED rows => RowsOK'
           /\ UNCHANGED authority => AuthorityOK'
           /\ UNCHANGED process => ProcessOK'
           /\ UNCHANGED <<gate, pc, locals>> => LocalsOK'
<1>1. UNCHANGED rows => RowsOK'
  BY DEF TypeOK, RowsOK, rows
<1>2. UNCHANGED authority => AuthorityOK'
  BY DEF TypeOK, AuthorityOK, authority
<1>3. UNCHANGED process => ProcessOK'
  BY DEF TypeOK, ProcessOK, process
<1>4. UNCHANGED <<gate, pc, locals>> => LocalsOK'
  BY DEF TypeOK, LocalsOK, locals
<1> QED BY <1>1, <1>2, <1>3, <1>4

\* A dispatcher that returns leaves well-typed locals.
LEMMA FinishTypes ==
    ASSUME TypeOK, NEW d \in Dispatchers, Finish(d)
    PROVE  LocalsOK'
BY DeliveryConstants DEF TypeOK, LocalsOK, Finish, Goto, LeaveGate, PCs, States,
   MessageStatus

\* A stored row is well typed.
LEMMA SetRowTypes ==
    ASSUME TypeOK, NEW e \in Events, NEW s \in States, NEW n \in Nat, NEW r \in BOOLEAN,
           SetRow(e, s, n, r)
    PROVE  ev' \in [Events -> [st: States, att: Nat, retry: BOOLEAN]]
BY DEF TypeOK, RowsOK, SetRow

\* Every step keeps the variables in their types.
LEMMA TypeStep == TypeOK /\ [Next]_vars => TypeOK'
<1> SUFFICES ASSUME TypeOK, [Next]_vars PROVE TypeOK'
  OBVIOUS
<1> USE DeliveryConstants
<1>1. ASSUME NEW d \in Dispatchers, Check(d) PROVE TypeOK'
  <2>1. RowsOK'
    BY <1>1, UnchangedTypes DEF Check
  <2>2. AuthorityOK'
    BY <1>1, UnchangedTypes DEF Check
  <2>3. ProcessOK'
    BY <1>1, UnchangedTypes DEF Check
  <2>4. LocalsOK'
    BY <1>1 DEF Check, TypeOK, LocalsOK, AuthorityOK, locals, Goto, TakeGate, LeaveGate, PCs, BeforeClaim,
           Owning, MessageStatus
  <2> QED BY <2>1, <2>2, <2>3, <2>4 DEF TypeOK
<1>2. ASSUME NEW d \in Dispatchers, Render(d) PROVE TypeOK'
  <2>1. RowsOK'
    BY <1>2, UnchangedTypes DEF Render
  <2>2. AuthorityOK'
    BY <1>2, UnchangedTypes DEF Render
  <2>3. ProcessOK'
    BY <1>2, UnchangedTypes DEF Render
  <2>4. LocalsOK'
    BY <1>2 DEF Render, TypeOK, LocalsOK, AuthorityOK, locals, Goto, TakeGate, LeaveGate, PCs, BeforeClaim,
           Owning, MessageStatus
  <2> QED BY <2>1, <2>2, <2>3, <2>4 DEF TypeOK
<1>3. ASSUME NEW d \in Dispatchers, Recheck(d) PROVE TypeOK'
  <2>1. RowsOK'
    BY <1>3, UnchangedTypes DEF Recheck
  <2>2. AuthorityOK'
    BY <1>3, UnchangedTypes DEF Recheck
  <2>3. ProcessOK'
    BY <1>3, UnchangedTypes DEF Recheck
  <2>4. LocalsOK'
    BY <1>3 DEF Recheck, TypeOK, LocalsOK, AuthorityOK, locals, Goto, TakeGate, LeaveGate, PCs, BeforeClaim,
           Owning, MessageStatus
  <2> QED BY <2>1, <2>2, <2>3, <2>4 DEF TypeOK
<1>4. ASSUME NEW d \in Dispatchers, Approve(d) PROVE TypeOK'
  <2>1. RowsOK'
    BY <1>4, UnchangedTypes DEF Approve
  <2>2. AuthorityOK'
    BY <1>4, UnchangedTypes DEF Approve
  <2>3. ProcessOK'
    BY <1>4 DEF Approve, TypeOK, ProcessOK, PumpEnds
  <2>4. LocalsOK'
    <3>1. CASE Finish(d)
      BY <3>1, FinishTypes
    <3>2. CASE ~Finish(d)
      BY <1>4, <3>2 DEF Approve, TypeOK, LocalsOK, locals, TakeGate, Goto, PCs, BeforeClaim
    <3> QED BY <3>1, <3>2
  <2> QED BY <2>1, <2>2, <2>3, <2>4 DEF TypeOK
<1>5. ASSUME NEW d \in Dispatchers, FinalCheck(d) PROVE TypeOK'
  <2>1. RowsOK'
    BY <1>5, UnchangedTypes DEF FinalCheck
  <2>2. AuthorityOK'
    BY <1>5, UnchangedTypes DEF FinalCheck
  <2>3. ProcessOK'
    BY <1>5, UnchangedTypes DEF FinalCheck
  <2>4. LocalsOK'
    BY <1>5 DEF FinalCheck, TypeOK, LocalsOK, AuthorityOK, locals, Goto, TakeGate, LeaveGate, PCs, BeforeClaim,
           Owning, MessageStatus
  <2> QED BY <2>1, <2>2, <2>3, <2>4 DEF TypeOK
<1>6. ASSUME NEW d \in Dispatchers, ClaimSending(d) PROVE TypeOK'
  <2>0. job[d] \in Events /\ num[d] \in Nat /\ num[d] + 1 \in Nat /\ receipt[d] \in MessageStatus
    BY DEF TypeOK, LocalsOK
  <2>1. RowsOK'
    BY <1>6, <2>0, SetRowTypes DEF ClaimSending, TypeOK, RowsOK, States, Waiting, Settled
  <2>2. AuthorityOK'
    BY <1>6, UnchangedTypes DEF ClaimSending
  <2>3. ProcessOK'
    <3>1. faults' \in Nat /\ up' = up
      BY <1>6 DEF ClaimSending, TypeOK, ProcessOK, Fault
    <3>2. pump' = pump \/ pump' = FALSE
      BY <1>6, Zenon DEF ClaimSending, PumpMayEnd
    <3> QED BY <3>1, <3>2, Zenon DEF TypeOK, ProcessOK
  <2>4. LocalsOK'
    BY <1>6 DEF ClaimSending, TypeOK, LocalsOK, AuthorityOK, locals, Goto, TakeGate, LeaveGate, PCs, BeforeClaim,
           Owning, MessageStatus
  <2> QED BY <2>1, <2>2, <2>3, <2>4 DEF TypeOK
<1>7. ASSUME NEW d \in Dispatchers, ClaimLost(d) PROVE TypeOK'
  <2>1. RowsOK'
    BY <1>7, UnchangedTypes DEF ClaimLost
  <2>2. AuthorityOK'
    BY <1>7, UnchangedTypes DEF ClaimLost
  <2>3. ProcessOK'
    BY <1>7, UnchangedTypes DEF ClaimLost
  <2>4. LocalsOK'
    <3>1. CASE Finish(d)
      BY <3>1, FinishTypes
    <3>2. CASE ~Finish(d)
      BY <1>7, <3>2 DEF ClaimLost, TypeOK, LocalsOK, Goto, PCs, BeforeClaim, RowsOK
    <3> QED BY <3>1, <3>2
  <2> QED BY <2>1, <2>2, <2>3, <2>4 DEF TypeOK
<1>8. ASSUME NEW d \in Dispatchers, Permit(d) PROVE TypeOK'
  <2>1. RowsOK'
    BY <1>8, UnchangedTypes DEF Permit
  <2>2. AuthorityOK'
    BY <1>8, UnchangedTypes DEF Permit
  <2>3. ProcessOK'
    BY <1>8 DEF Permit, TypeOK, ProcessOK, PumpEnds
  <2>4. LocalsOK'
    BY <1>8 DEF Permit, TypeOK, LocalsOK, AuthorityOK, locals, Goto, TakeGate, LeaveGate, PCs, BeforeClaim,
           Owning, MessageStatus
  <2> QED BY <2>1, <2>2, <2>3, <2>4 DEF TypeOK
<1>9. ASSUME NEW d \in Dispatchers, StartIo(d) PROVE TypeOK'
  <2>1. RowsOK'
    BY <1>9, UnchangedTypes DEF StartIo
  <2>2. AuthorityOK'
    BY <1>9, UnchangedTypes DEF StartIo
  <2>3. ProcessOK'
    BY <1>9, UnchangedTypes DEF StartIo
  <2>4. LocalsOK'
    BY <1>9 DEF StartIo, TypeOK, LocalsOK, AuthorityOK, locals, Goto, TakeGate, LeaveGate, PCs, BeforeClaim,
           Owning, MessageStatus
  <2> QED BY <2>1, <2>2, <2>3, <2>4 DEF TypeOK
<1>10. ASSUME NEW d \in Dispatchers, IoEnter(d) PROVE TypeOK'
  <2>1. RowsOK'
    BY <1>10, UnchangedTypes DEF IoEnter
  <2>2. AuthorityOK'
    BY <1>10, UnchangedTypes DEF IoEnter
  <2>3. ProcessOK'
    BY <1>10, UnchangedTypes DEF IoEnter
  <2>4. LocalsOK'
    BY <1>10 DEF IoEnter, TypeOK, LocalsOK, AuthorityOK, locals, Goto, TakeGate, LeaveGate, PCs, BeforeClaim,
           Owning, MessageStatus
  <2> QED BY <2>1, <2>2, <2>3, <2>4 DEF TypeOK
<1>11. ASSUME NEW d \in Dispatchers, HostReturns(d) PROVE TypeOK'
  <2>1. RowsOK'
    BY <1>11 DEF HostReturns, TypeOK, RowsOK, LocalsOK
  <2>2. AuthorityOK'
    BY <1>11, UnchangedTypes DEF HostReturns
  <2>3. ProcessOK'
    BY <1>11, UnchangedTypes DEF HostReturns
  <2>4. LocalsOK'
    BY <1>11 DEF HostReturns, TypeOK, LocalsOK, AuthorityOK, locals, Goto, TakeGate, LeaveGate, PCs, BeforeClaim,
           Owning, MessageStatus
  <2> QED BY <2>1, <2>2, <2>3, <2>4 DEF TypeOK
<1>12. ASSUME NEW d \in Dispatchers, CommitReceipt(d) PROVE TypeOK'
  <2>0. job[d] \in Events /\ num[d] \in Nat /\ num[d] + 1 \in Nat /\ receipt[d] \in MessageStatus
    BY DEF TypeOK, LocalsOK
  <2>5. \A r \in RetryPolicy : StateOf(receipt[d]) \in States /\ (StateOf(receipt[d]) = "FAILED" /\ r) \in BOOLEAN
    BY <2>0 DEF StateOf, States, Waiting, Settled, MessageStatus
  <2>1. RowsOK'
    BY <1>12, <2>0, <2>5, SetRowTypes DEF CommitReceipt, TypeOK, RowsOK, States, Waiting, Settled
  <2>2. AuthorityOK'
    BY <1>12, UnchangedTypes DEF CommitReceipt
  <2>3. ProcessOK'
    BY <1>12, UnchangedTypes DEF CommitReceipt
  <2>4. LocalsOK'
    BY <1>12, FinishTypes DEF CommitReceipt
  <2> QED BY <2>1, <2>2, <2>3, <2>4 DEF TypeOK
<1>13. ASSUME NEW d \in Dispatchers, Abort(d) PROVE TypeOK'
  <2>0. job[d] \in Events /\ num[d] \in Nat /\ num[d] + 1 \in Nat /\ receipt[d] \in MessageStatus
    BY DEF TypeOK, LocalsOK
  <2>1. RowsOK'
    BY <1>13, <2>0, SetRowTypes DEF Abort, TypeOK, RowsOK, States, Waiting, Settled
  <2>2. AuthorityOK'
    BY <1>13, UnchangedTypes DEF Abort
  <2>3. ProcessOK'
    BY <1>13, UnchangedTypes DEF Abort
  <2>4. LocalsOK'
    BY <1>13, FinishTypes DEF Abort
  <2> QED BY <2>1, <2>2, <2>3, <2>4 DEF TypeOK
<1>14. ASSUME NEW d \in Dispatchers, Reject(d) PROVE TypeOK'
  <2>0. job[d] \in Events /\ num[d] \in Nat /\ num[d] + 1 \in Nat /\ receipt[d] \in MessageStatus
    BY DEF TypeOK, LocalsOK
  <2>1. RowsOK'
    BY <1>14, <2>0, SetRowTypes DEF Reject, TypeOK, RowsOK, States, Waiting, Settled
  <2>2. AuthorityOK'
    BY <1>14, UnchangedTypes DEF Reject
  <2>3. ProcessOK'
    BY <1>14, UnchangedTypes DEF Reject
  <2>4. LocalsOK'
    BY <1>14, FinishTypes DEF Reject
  <2> QED BY <2>1, <2>2, <2>3, <2>4 DEF TypeOK
<1>15. ASSUME NEW d \in Dispatchers, RenderFailed(d) PROVE TypeOK'
  <2>0. job[d] \in Events /\ num[d] \in Nat /\ num[d] + 1 \in Nat /\ receipt[d] \in MessageStatus
    BY DEF TypeOK, LocalsOK
  <2>1. RowsOK'
    BY <1>15, <2>0, SetRowTypes DEF RenderFailed, TypeOK, RowsOK, States, Waiting, Settled
  <2>2. AuthorityOK'
    BY <1>15, UnchangedTypes DEF RenderFailed
  <2>3. ProcessOK'
    BY <1>15, UnchangedTypes DEF RenderFailed
  <2>4. LocalsOK'
    BY <1>15, FinishTypes DEF RenderFailed
  <2> QED BY <2>1, <2>2, <2>3, <2>4 DEF TypeOK
<1>16. ASSUME NEW d \in Dispatchers, CancelDispatch(d) PROVE TypeOK'
  <2>1. RowsOK'
    BY <1>16, UnchangedTypes DEF CancelDispatch
  <2>2. AuthorityOK'
    BY <1>16, UnchangedTypes DEF CancelDispatch
  <2>3. ProcessOK'
    <3>1. faults' \in Nat /\ up' = up
      BY <1>16 DEF CancelDispatch, TypeOK, ProcessOK, Fault
    <3>2. pump' = pump \/ pump' = FALSE
      BY <1>16, Zenon DEF CancelDispatch, PumpEnds, PumpMayEnd
    <3> QED BY <3>1, <3>2, Zenon DEF TypeOK, ProcessOK
  <2>4. LocalsOK'
    BY <1>16, FinishTypes DEF CancelDispatch
  <2> QED BY <2>1, <2>2, <2>3, <2>4 DEF TypeOK
<1>17. ASSUME NEW d \in Dispatchers, CancelSender(d) PROVE TypeOK'
  <2>1. RowsOK'
    BY <1>17, UnchangedTypes DEF CancelSender
  <2>2. AuthorityOK'
    BY <1>17, UnchangedTypes DEF CancelSender
  <2>3. ProcessOK'
    BY <1>17, UnchangedTypes DEF CancelSender
  <2>4. LocalsOK'
    BY <1>17 DEF CancelSender, TypeOK, LocalsOK, AuthorityOK, locals, Goto, TakeGate, LeaveGate, PCs, BeforeClaim,
           Owning, MessageStatus
  <2> QED BY <2>1, <2>2, <2>3, <2>4 DEF TypeOK
<1>18. ASSUME NEW d \in Dispatchers, StopSend(d) PROVE TypeOK'
  <2>1. RowsOK'
    BY <1>18, UnchangedTypes DEF StopSend
  <2>2. AuthorityOK'
    BY <1>18, UnchangedTypes DEF StopSend
  <2>3. ProcessOK'
    BY <1>18 DEF StopSend, TypeOK, ProcessOK, PumpMayEnd
  <2>4. LocalsOK'
    BY <1>18 DEF StopSend, TypeOK, LocalsOK, AuthorityOK, locals, Goto, TakeGate, LeaveGate, PCs, BeforeClaim,
           Owning, MessageStatus
  <2> QED BY <2>1, <2>2, <2>3, <2>4 DEF TypeOK
<1>19. ASSUME NEW d \in Dispatchers, SettleFails(d) PROVE TypeOK'
  <2>1. RowsOK'
    BY <1>19 DEF SettleFails, TypeOK, RowsOK, LocalsOK
  <2>2. AuthorityOK'
    BY <1>19, UnchangedTypes DEF SettleFails
  <2>3. ProcessOK'
    BY <1>19 DEF SettleFails, TypeOK, ProcessOK, Fault
  <2>4. LocalsOK'
    BY <1>19, FinishTypes DEF SettleFails
  <2> QED BY <2>1, <2>2, <2>3, <2>4 DEF TypeOK
<1>20. ASSUME NEW d \in Dispatchers, NEW e \in Events, Begin(d, e) PROVE TypeOK'
  <2>1. RowsOK' /\ AuthorityOK' /\ ProcessOK'
    BY <1>20, UnchangedTypes DEF Begin
  <2>2. LocalsOK'
    BY <1>20 DEF Begin, TypeOK, LocalsOK, RowsOK, Goto, PCs, BeforeClaim
  <2> QED BY <2>1, <2>2 DEF TypeOK
<1>21. ASSUME NEW e \in Events, Enqueue(e) PROVE TypeOK'
  <2>1. RowsOK'
    BY <1>21, SetRowTypes DEF Enqueue, TypeOK, RowsOK, States, Waiting, Settled
  <2>2. AuthorityOK'
    BY <1>21, UnchangedTypes DEF Enqueue
  <2>3. ProcessOK' /\ LocalsOK'
    BY <1>21, UnchangedTypes DEF Enqueue
  <2> QED BY <2>1, <2>2, <2>3 DEF TypeOK
<1>22. ASSUME NEW e \in Events, CancelSubscription(e) PROVE TypeOK'
  <2>1. RowsOK'
    BY <1>22, UnchangedTypes DEF CancelSubscription
  <2>2. AuthorityOK'
    BY <1>22 DEF CancelSubscription, TypeOK, AuthorityOK
  <2>3. ProcessOK' /\ LocalsOK'
    BY <1>22, UnchangedTypes DEF CancelSubscription
  <2> QED BY <2>1, <2>2, <2>3 DEF TypeOK
<1>23. ASSUME NEW e \in Events, MoveFence(e) PROVE TypeOK'
  <2>1. RowsOK'
    BY <1>23, UnchangedTypes DEF MoveFence
  <2>2. AuthorityOK'
    BY <1>23 DEF MoveFence, TypeOK, AuthorityOK
  <2>3. ProcessOK' /\ LocalsOK'
    BY <1>23, UnchangedTypes DEF MoveFence
  <2> QED BY <2>1, <2>2, <2>3 DEF TypeOK
<1>24. ASSUME NEW e \in Events, RevokeGrant(e) PROVE TypeOK'
  <2>0. ev[e].att + 1 \in Nat
    BY DEF TypeOK, RowsOK
  <2>1. RowsOK'
    BY <1>24, <2>0, SetRowTypes DEF RevokeGrant, TypeOK, RowsOK, States, Waiting, Settled
  <2>2. AuthorityOK'
    BY <1>24 DEF RevokeGrant, TypeOK, AuthorityOK
  <2>3. ProcessOK' /\ LocalsOK'
    BY <1>24, UnchangedTypes DEF RevokeGrant
  <2> QED BY <2>1, <2>2, <2>3 DEF TypeOK
<1>25. ASSUME NEW e \in Events, ExpireGrant(e) PROVE TypeOK'
  <2>1. RowsOK'
    BY <1>25, UnchangedTypes DEF ExpireGrant
  <2>2. AuthorityOK'
    BY <1>25 DEF ExpireGrant, TypeOK, AuthorityOK
  <2>3. ProcessOK' /\ LocalsOK'
    BY <1>25, UnchangedTypes DEF ExpireGrant
  <2> QED BY <2>1, <2>2, <2>3 DEF TypeOK
<1>26. ASSUME CloseModule PROVE TypeOK'
  <2>1. AuthorityOK'
    <3>1. open' \in BOOLEAN
      BY <1>26, Zenon DEF CloseModule
    <3>2. epoch' \in Nat /\ UNCHANGED <<sub, fence, grant>>
      BY <1>26 DEF CloseModule, TypeOK, AuthorityOK
    <3> QED BY <3>1, <3>2 DEF TypeOK, AuthorityOK
  <2>2. RowsOK' /\ ProcessOK' /\ LocalsOK'
    BY <1>26, UnchangedTypes DEF CloseModule
  <2> QED BY <2>1, <2>2 DEF TypeOK
<1>27. ASSUME OpenModule PROVE TypeOK'
  <2>1. AuthorityOK'
    BY <1>27 DEF OpenModule, TypeOK, AuthorityOK
  <2>2. RowsOK' /\ ProcessOK' /\ LocalsOK'
    BY <1>27, UnchangedTypes DEF OpenModule
  <2> QED BY <2>1, <2>2 DEF TypeOK
<1>28. ASSUME Crash PROVE TypeOK'
  <2>1. RowsOK'
    BY <1>28 DEF Crash, TypeOK, RowsOK
  <2>2. AuthorityOK'
    BY <1>28, UnchangedTypes DEF Crash
  <2>3. ProcessOK'
    <3>1. up' \in BOOLEAN /\ pump' \in BOOLEAN
      BY <1>28, Zenon DEF Crash, PumpEnds
    <3>2. faults' \in Nat
      BY <1>28 DEF Crash, Fault, TypeOK, ProcessOK
    <3> QED BY <3>1, <3>2 DEF ProcessOK
  <2>4. LocalsOK'
    BY <1>28 DEF Crash, TypeOK, LocalsOK, PCs, States, MessageStatus
  <2> QED BY <2>1, <2>2, <2>3, <2>4 DEF TypeOK
<1>29. ASSUME Recover PROVE TypeOK'
  <2>1. RowsOK'
    <3>1. PICK future \in SUBSET {e \in Events : ev[e].st = "SENDING"} :
            /\ ev' = [e \in Events |->
                        IF ev[e].st = "SENDING" /\ e \notin future
                          THEN [ev[e] EXCEPT !.st = "UNKNOWN", !.retry = FALSE]
                          ELSE ev[e]]
            /\ lost' = [e \in Events |-> lost[e] \/ e \in future]
      BY <1>29 DEF Recover
    <3>2. \A e \in Events : ev'[e] \in [st: States, att: Nat, retry: BOOLEAN]
      BY <3>1 DEF TypeOK, RowsOK, States, Settled
    <3>3. lost' \in [Events -> BOOLEAN] /\ delivered' = delivered
      BY <1>29, <3>1 DEF Recover
    <3> QED BY <3>1, <3>2, <3>3 DEF TypeOK, RowsOK
  <2>2. AuthorityOK' /\ LocalsOK'
    BY <1>29, UnchangedTypes DEF Recover
  <2>3. ProcessOK'
    BY <1>29 DEF Recover, TypeOK, ProcessOK
  <2> QED BY <2>1, <2>2, <2>3 DEF TypeOK
<1>31. ASSUME PumpFails PROVE TypeOK'
  <2>1. RowsOK' /\ AuthorityOK' /\ LocalsOK'
    BY <1>31, UnchangedTypes DEF PumpFails
  <2>2. ProcessOK'
    BY <1>31 DEF PumpFails, PumpEnds, TypeOK, ProcessOK
  <2> QED BY <2>1, <2>2 DEF TypeOK
<1>30. ASSUME UNCHANGED vars PROVE TypeOK'
  BY <1>30, UnchangedTypes DEF vars, rows, authority, process, locals, TypeOK
<1> QED
  BY <1>1, <1>2, <1>3, <1>4, <1>5, <1>6, <1>7, <1>8, <1>9, <1>10, <1>11, <1>12, <1>13, <1>14, <1>15, <1>16, <1>17, <1>18, <1>19, <1>20, <1>21, <1>22, <1>23, <1>24, <1>25, <1>26, <1>27, <1>28, <1>29, <1>30, <1>31
  DEF Next, Advance, Disturb, Command, Rest
\* The inductive invariant.

\* What SetRow writes.
LEMMA RowAfter ==
    ASSUME TypeOK, NEW e \in Events, NEW s, NEW n, NEW r, SetRow(e, s, n, r)
    PROVE  /\ ev'[e] = [st |-> s, att |-> n, retry |-> r]
           /\ \A x \in Events \ {e} : ev'[x] = ev[x]
BY DEF TypeOK, RowsOK, SetRow

\* A dispatcher that returns is idle, holds no gate, and disturbs nobody else.
LEMMA AfterFinish ==
    ASSUME TypeOK, NEW d \in Dispatchers, Finish(d)
    PROVE  /\ pc'[d] = "idle"
           /\ \A c \in Dispatchers \ {d} :
                /\ pc'[c] = pc[c] /\ seen'[c] = seen[c] /\ num'[c] = num[c]
                /\ receipt'[c] = receipt[c]
                /\ gate = c => gate' = c
           /\ job' = job
BY DEF TypeOK, LocalsOK, Finish, Goto, LeaveGate

\* A step that moves authority only keeps everything but ProofHolds.
LEMMA FrameInv ==
    ASSUME DeliveryInv, TypeOK', UNCHANGED <<rows, up, gate, pc, job, seen, num, receipt>>
    PROVE  /\ OneOwner' /\ SeenWaiting' /\ GateHeld' /\ DownIsIdle' /\ OwnerKnows'
           /\ AtMostOnceDelivery' /\ SentIsConfirmed' /\ NoOrphanAttempt'
<1>1. OneOwner' /\ SeenWaiting' /\ GateHeld' /\ DownIsIdle'
  BY DEF DeliveryInv, OneOwner, SeenWaiting, GateHeld, DownIsIdle, rows
<1>2. OwnerKnows' /\ AtMostOnceDelivery' /\ SentIsConfirmed' /\ NoOrphanAttempt'
  BY DEF DeliveryInv, OwnerKnows, AtMostOnceDelivery, SentIsConfirmed,
         NoOrphanAttempt, rows
<1> QED BY <1>1, <1>2

\* Writing an outcome that agrees with what was delivered, into a row no other
\* dispatcher owns, keeps the five facts about rows and owners.
LEMMA SettleRow ==
    ASSUME DeliveryInv, TypeOK',
           NEW e \in Events, NEW s \in Settled \cup {"FAILED"}, NEW n, NEW r,
           SetRow(e, s, n, r), UNCHANGED <<delivered, lost, up>>,
           s \in {"FAILED", "CANCELLED"} => delivered[e] = 0,
           s = "SENT" => delivered[e] = 1,
           \A c \in Dispatchers : pc'[c] \in Owning =>
               /\ pc'[c] = pc[c] /\ job'[c] = job[c] /\ num'[c] = num[c]
               /\ receipt'[c] = receipt[c] /\ job[c] # e,
           \A c \in Dispatchers : pc[c] \in Owning /\ job[c] # e =>
               pc'[c] = pc[c] /\ job'[c] = job[c]
    PROVE  /\ OneOwner' /\ OwnerKnows' /\ AtMostOnceDelivery' /\ SentIsConfirmed'
           /\ NoOrphanAttempt'
<1>0. TypeOK
  BY DEF DeliveryInv
<1>a. ev'[e] = [st |-> s, att |-> n, retry |-> r] /\ \A x \in Events \ {e} : ev'[x] = ev[x]
  BY <1>0, RowAfter
<1>1. ev'[e].st = s /\ \A x \in Events \ {e} : ev'[x] = ev[x]
  BY <1>a
<1>2. \A c \in Dispatchers : job[c] \in Events
  BY <1>0 DEF TypeOK, LocalsOK
<1>3. OneOwner'
  BY <1>1, <1>2 DEF DeliveryInv, OneOwner
<1>4. OwnerKnows'
  BY <1>2 DEF DeliveryInv, OwnerKnows
<1>5. AtMostOnceDelivery' /\ SentIsConfirmed'
  BY <1>0, <1>1 DEF DeliveryInv, AtMostOnceDelivery, SentIsConfirmed, Settled, TypeOK, RowsOK
<1>6. NoOrphanAttempt'
  BY <1>1, <1>2 DEF DeliveryInv, NoOrphanAttempt, Settled
<1> QED BY <1>3, <1>4, <1>5, <1>6

\* A row that waits has not been delivered and has no owner.
LEMMA WaitingIsUndelivered ==
    ASSUME DeliveryInv, NEW e \in Events, ev[e].st \in Waiting
    PROVE  delivered[e] = 0 /\ \A c \in Dispatchers : pc[c] \in Owning => job[c] # e
<1>1. delivered[e] \in Nat /\ delivered[e] <= 1 /\ delivered[e] # 1
  BY DEF DeliveryInv, AtMostOnceDelivery, Waiting, TypeOK, RowsOK
<1>2. delivered[e] = 0
  BY <1>1
<1>3. \A c \in Dispatchers : pc[c] \in Owning => job[c] # e
  BY DEF DeliveryInv, OneOwner, Waiting
<1> QED BY <1>2, <1>3

\* Returning keeps the facts about reading, holding and being down.
LEMMA FinishInv ==
    ASSUME DeliveryInv, NEW d \in Dispatchers, Finish(d), UNCHANGED up,
           UNCHANGED <<sub, fence, grant>>
    PROVE  SeenWaiting' /\ GateHeld' /\ DownIsIdle' /\ ProofHolds'
<1>1. TypeOK
  BY DEF DeliveryInv
<1>2. SeenWaiting' /\ GateHeld' /\ DownIsIdle'
  BY <1>1, AfterFinish DEF DeliveryInv, SeenWaiting, GateHeld, DownIsIdle, BeforeClaim, Gated
<1>3. ProofHolds'
  BY <1>1, AfterFinish DEF DeliveryInv, ProofHolds, Qualified
<1> QED BY <1>2, <1>3

\* Every step preserves the inductive invariant.
LEMMA InvStep == DeliveryInv /\ [Next]_vars => DeliveryInv'
<1> SUFFICES ASSUME DeliveryInv, [Next]_vars PROVE DeliveryInv'
  OBVIOUS
<1>0. TypeOK /\ TypeOK'
  BY TypeStep DEF DeliveryInv
<1> USE DeliveryConstants, <1>0
<1>1. ASSUME NEW d \in Dispatchers, Check(d) PROVE DeliveryInv'
  <2> USE <1>1 DEF Check, DeliveryInv, TypeOK, RowsOK, LocalsOK, rows, authority, process,
         locals, Goto, TakeGate, LeaveGate, SetRow, Fault, Finish, Owning, BeforeClaim, Gated,
         Waiting
  <2>1. OneOwner'
    BY DEF OneOwner
  <2>2. OwnerKnows'
    BY DEF OwnerKnows
  <2>3. SeenWaiting' /\ GateHeld' /\ DownIsIdle'
    BY DEF SeenWaiting, GateHeld, DownIsIdle
  <2>4. ProofHolds'
    BY DEF ProofHolds, Qualified
  <2>5. AtMostOnceDelivery' /\ SentIsConfirmed'
    BY DEF AtMostOnceDelivery, SentIsConfirmed
  <2>6. NoOrphanAttempt'
    BY DEF NoOrphanAttempt
  <2> QED BY <2>1, <2>2, <2>3, <2>4, <2>5, <2>6 DEF DeliveryInv
<1>2. ASSUME NEW d \in Dispatchers, Render(d) PROVE DeliveryInv'
  <2> USE <1>2 DEF Render, DeliveryInv, TypeOK, RowsOK, LocalsOK, rows, authority, process,
         locals, Goto, TakeGate, LeaveGate, SetRow, Fault, Finish, Owning, BeforeClaim, Gated,
         Waiting
  <2>1. OneOwner'
    BY DEF OneOwner
  <2>2. OwnerKnows'
    BY DEF OwnerKnows
  <2>3. SeenWaiting' /\ GateHeld' /\ DownIsIdle'
    BY DEF SeenWaiting, GateHeld, DownIsIdle
  <2>4. ProofHolds'
    BY DEF ProofHolds, Qualified
  <2>5. AtMostOnceDelivery' /\ SentIsConfirmed'
    BY DEF AtMostOnceDelivery, SentIsConfirmed
  <2>6. NoOrphanAttempt'
    BY DEF NoOrphanAttempt
  <2> QED BY <2>1, <2>2, <2>3, <2>4, <2>5, <2>6 DEF DeliveryInv
<1>3. ASSUME NEW d \in Dispatchers, Recheck(d) PROVE DeliveryInv'
  <2> USE <1>3 DEF Recheck, DeliveryInv, TypeOK, RowsOK, LocalsOK, rows, authority, process,
         locals, Goto, TakeGate, LeaveGate, SetRow, Fault, Finish, Owning, BeforeClaim, Gated,
         Waiting
  <2>1. OneOwner'
    BY DEF OneOwner
  <2>2. OwnerKnows'
    BY DEF OwnerKnows
  <2>3. SeenWaiting' /\ GateHeld' /\ DownIsIdle'
    BY DEF SeenWaiting, GateHeld, DownIsIdle
  <2>4. ProofHolds'
    BY DEF ProofHolds, Qualified
  <2>5. AtMostOnceDelivery' /\ SentIsConfirmed'
    BY DEF AtMostOnceDelivery, SentIsConfirmed
  <2>6. NoOrphanAttempt'
    BY DEF NoOrphanAttempt
  <2> QED BY <2>1, <2>2, <2>3, <2>4, <2>5, <2>6 DEF DeliveryInv
<1>4. ASSUME NEW d \in Dispatchers, Approve(d) PROVE DeliveryInv'
  <2> USE <1>4 DEF Approve, DeliveryInv, TypeOK, RowsOK, LocalsOK, rows, authority, process,
         locals, Goto, TakeGate, LeaveGate, SetRow, Fault, Finish, Owning, BeforeClaim, Gated,
         Waiting
  <2>1. OneOwner'
    BY DEF OneOwner
  <2>2. OwnerKnows'
    BY DEF OwnerKnows
  <2>3. SeenWaiting' /\ GateHeld' /\ DownIsIdle'
    BY DEF SeenWaiting, GateHeld, DownIsIdle
  <2>4. ProofHolds'
    BY DEF ProofHolds, Qualified
  <2>5. AtMostOnceDelivery' /\ SentIsConfirmed'
    BY DEF AtMostOnceDelivery, SentIsConfirmed
  <2>6. NoOrphanAttempt'
    BY DEF NoOrphanAttempt
  <2> QED BY <2>1, <2>2, <2>3, <2>4, <2>5, <2>6 DEF DeliveryInv
<1>5. ASSUME NEW d \in Dispatchers, FinalCheck(d) PROVE DeliveryInv'
  <2> USE <1>5 DEF FinalCheck, DeliveryInv, TypeOK, RowsOK, LocalsOK, rows, authority, process,
         locals, Goto, TakeGate, LeaveGate, SetRow, Fault, Finish, Owning, BeforeClaim, Gated,
         Waiting
  <2>1. OneOwner'
    BY DEF OneOwner
  <2>2. OwnerKnows'
    BY DEF OwnerKnows
  <2>3. SeenWaiting' /\ GateHeld' /\ DownIsIdle'
    BY DEF SeenWaiting, GateHeld, DownIsIdle
  <2>4. ProofHolds'
    BY DEF ProofHolds, Qualified
  <2>5. AtMostOnceDelivery' /\ SentIsConfirmed'
    BY DEF AtMostOnceDelivery, SentIsConfirmed
  <2>6. NoOrphanAttempt'
    BY DEF NoOrphanAttempt
  <2> QED BY <2>1, <2>2, <2>3, <2>4, <2>5, <2>6 DEF DeliveryInv
<1>6. ASSUME NEW d \in Dispatchers, ClaimSending(d) PROVE DeliveryInv'
  <2> DEFINE e == job[d]
  <2>1. e \in Events /\ seen[d] \in Waiting /\ ev[e].st \in Waiting /\ ev[e].att = num[d]
    BY <1>6 DEF ClaimSending, CanClaim, DeliveryInv, SeenWaiting, BeforeClaim, TypeOK, LocalsOK
  <2>2. ev'[e] = [st |-> "SENDING", att |-> num[d] + 1, retry |-> FALSE]
        /\ \A x \in Events \ {e} : ev'[x] = ev[x]
    BY <1>6, <2>1, RowAfter DEF ClaimSending
  <2>3. \A c \in Dispatchers : pc[c] \in Owning => job[c] # e
    BY <2>1 DEF DeliveryInv, OneOwner, Waiting
  <2>4. /\ pc'[d] \in {"claimed", "abort"} /\ num'[d] = num[d] + 1
        /\ \A c \in Dispatchers \ {d} : pc'[c] = pc[c] /\ num'[c] = num[c]
        /\ UNCHANGED <<job, seen, receipt, delivered, lost, up, gate, sub, fence, grant>>
    BY <1>6 DEF ClaimSending, Goto, TypeOK, LocalsOK, authority
  <2>5. OneOwner'
    BY <2>1, <2>2, <2>3, <2>4 DEF DeliveryInv, OneOwner, TypeOK, LocalsOK
  <2>6. delivered[e] = 0
    BY <2>1, WaitingIsUndelivered
  <2>7. OwnerKnows'
    BY <2>4, <2>6 DEF DeliveryInv, OwnerKnows
  <2>8. SeenWaiting' /\ GateHeld' /\ DownIsIdle' /\ ProofHolds'
    BY <1>6, <2>4 DEF ClaimSending, DeliveryInv, SeenWaiting, GateHeld, DownIsIdle,
           ProofHolds, Qualified, BeforeClaim, Gated
  <2>9. AtMostOnceDelivery' /\ SentIsConfirmed'
    BY <2>2, <2>4, <2>6 DEF DeliveryInv, AtMostOnceDelivery, SentIsConfirmed
  <2>10. NoOrphanAttempt'
    BY <2>1, <2>2, <2>4 DEF DeliveryInv, NoOrphanAttempt, Owning
  <2> QED BY <2>5, <2>7, <2>8, <2>9, <2>10 DEF DeliveryInv
<1>7. ASSUME NEW d \in Dispatchers, ClaimLost(d) PROVE DeliveryInv'
  <2> USE <1>7 DEF ClaimLost, DeliveryInv, TypeOK, RowsOK, LocalsOK, rows, authority, process,
         locals, Goto, TakeGate, LeaveGate, SetRow, Fault, Finish, Owning, BeforeClaim, Gated,
         Waiting
  <2>1. OneOwner'
    BY DEF OneOwner
  <2>2. OwnerKnows'
    BY DEF OwnerKnows
  <2>3. SeenWaiting' /\ GateHeld' /\ DownIsIdle'
    BY DEF SeenWaiting, GateHeld, DownIsIdle
  <2>4. ProofHolds'
    BY DEF ProofHolds, Qualified
  <2>5. AtMostOnceDelivery' /\ SentIsConfirmed'
    BY DEF AtMostOnceDelivery, SentIsConfirmed
  <2>6. NoOrphanAttempt'
    BY DEF NoOrphanAttempt
  <2> QED BY <2>1, <2>2, <2>3, <2>4, <2>5, <2>6 DEF DeliveryInv
<1>8. ASSUME NEW d \in Dispatchers, Permit(d) PROVE DeliveryInv'
  <2> USE <1>8 DEF Permit, DeliveryInv, TypeOK, RowsOK, LocalsOK, rows, authority, process,
         locals, Goto, TakeGate, LeaveGate, SetRow, Fault, Finish, Owning, BeforeClaim, Gated,
         Waiting
  <2>1. OneOwner'
    BY DEF OneOwner
  <2>2. OwnerKnows'
    BY DEF OwnerKnows
  <2>3. SeenWaiting' /\ GateHeld' /\ DownIsIdle'
    BY DEF SeenWaiting, GateHeld, DownIsIdle
  <2>4. ProofHolds'
    BY DEF ProofHolds, Qualified
  <2>5. AtMostOnceDelivery' /\ SentIsConfirmed'
    BY DEF AtMostOnceDelivery, SentIsConfirmed
  <2>6. NoOrphanAttempt'
    BY DEF NoOrphanAttempt
  <2> QED BY <2>1, <2>2, <2>3, <2>4, <2>5, <2>6 DEF DeliveryInv
<1>9. ASSUME NEW d \in Dispatchers, StartIo(d) PROVE DeliveryInv'
  <2> USE <1>9 DEF StartIo, DeliveryInv, TypeOK, RowsOK, LocalsOK, rows, authority, process,
         locals, Goto, TakeGate, LeaveGate, SetRow, Fault, Finish, Owning, BeforeClaim, Gated,
         Waiting
  <2>1. ProofHolds'
    <3>1. \A c \in Dispatchers : pc[c] # "io"
      BY <1>9 DEF StartIo, TakeGate, DeliveryInv, GateHeld, Gated
    <3>2. pc'[d] = "io" => Qualified(job[d]) /\ grant[job[d]] = "live"
      BY <1>9 DEF StartIo, Goto, CurrentForSend, Eligible, TypeOK, LocalsOK
    <3>3. \A c \in Dispatchers \ {d} : pc'[c] = pc[c]
      BY <1>9 DEF StartIo, Goto, TypeOK, LocalsOK
    <3> QED BY <1>9, <3>1, <3>2, <3>3 DEF StartIo, ProofHolds, Qualified, authority, locals
  <2>2. OneOwner'
    BY DEF OneOwner
  <2>3. OwnerKnows'
    BY DEF OwnerKnows
  <2>4. SeenWaiting' /\ GateHeld' /\ DownIsIdle'
    BY DEF SeenWaiting, GateHeld, DownIsIdle
  <2>5. AtMostOnceDelivery' /\ SentIsConfirmed'
    BY DEF AtMostOnceDelivery, SentIsConfirmed
  <2>6. NoOrphanAttempt'
    BY DEF NoOrphanAttempt
  <2> QED BY <2>1, <2>2, <2>3, <2>4, <2>5, <2>6 DEF DeliveryInv
<1>10. ASSUME NEW d \in Dispatchers, IoEnter(d) PROVE DeliveryInv'
  <2> USE <1>10 DEF IoEnter, DeliveryInv, TypeOK, RowsOK, LocalsOK, rows, authority, process,
         locals, Goto, TakeGate, LeaveGate, SetRow, Fault, Finish, Owning, BeforeClaim, Gated,
         Waiting
  <2>1. OneOwner'
    BY DEF OneOwner
  <2>2. OwnerKnows'
    BY DEF OwnerKnows
  <2>3. SeenWaiting' /\ GateHeld' /\ DownIsIdle'
    BY DEF SeenWaiting, GateHeld, DownIsIdle
  <2>4. ProofHolds'
    BY DEF ProofHolds, Qualified
  <2>5. AtMostOnceDelivery' /\ SentIsConfirmed'
    BY DEF AtMostOnceDelivery, SentIsConfirmed
  <2>6. NoOrphanAttempt'
    BY DEF NoOrphanAttempt
  <2> QED BY <2>1, <2>2, <2>3, <2>4, <2>5, <2>6 DEF DeliveryInv
<1>11. ASSUME NEW d \in Dispatchers, HostReturns(d) PROVE DeliveryInv'
  <2> DEFINE e == job[d]
  <2>1. PICK r \in MessageStatus, sent \in {0, 1} :
          /\ r = "ACCEPTED" => sent = 1
          /\ r = "FAILED" => sent = 0
          /\ receipt' = [receipt EXCEPT ![d] = r]
          /\ delivered' = [delivered EXCEPT ![job[d]] = delivered[job[d]] + sent]
    BY <1>11, Zenon DEF HostReturns
  <2>2. e \in Events /\ delivered[e] = 0 /\ ev[e].st = "SENDING"
        /\ \A c \in Dispatchers \ {d} : pc[c] \in Owning => job[c] # e
    BY <1>11 DEF HostReturns, DeliveryInv, OwnerKnows, OneOwner, Owning, TypeOK, LocalsOK, RowsOK
  <2>3. /\ delivered'[e] = sent /\ \A x \in Events \ {e} : delivered'[x] = delivered[x]
        /\ receipt'[d] = r /\ \A c \in Dispatchers \ {d} : receipt'[c] = receipt[c]
        /\ pc'[d] = "receipt" /\ \A c \in Dispatchers \ {d} : pc'[c] = pc[c]
        /\ UNCHANGED <<ev, lost, job, seen, num, gate, up, sub, fence, grant>>
    BY <1>11, <2>1, <2>2 DEF HostReturns, Goto, TypeOK, LocalsOK, RowsOK, authority, process
  <2>4. OneOwner' /\ SeenWaiting' /\ GateHeld' /\ DownIsIdle' /\ ProofHolds'
    BY <1>11, <2>3 DEF HostReturns, DeliveryInv, OneOwner, SeenWaiting, GateHeld, DownIsIdle,
           ProofHolds, Qualified, BeforeClaim, Gated, Owning
  <2>5. OwnerKnows'
    BY <1>11, <2>1, <2>2, <2>3 DEF HostReturns, DeliveryInv, OwnerKnows, TypeOK, LocalsOK
  <2>6. AtMostOnceDelivery' /\ SentIsConfirmed'
    BY <2>2, <2>3 DEF DeliveryInv, AtMostOnceDelivery, SentIsConfirmed
  <2>7. NoOrphanAttempt'
    BY <1>11, <2>3 DEF HostReturns, DeliveryInv, NoOrphanAttempt, Owning
  <2> QED BY <2>4, <2>5, <2>6, <2>7 DEF DeliveryInv
<1>12. ASSUME NEW d \in Dispatchers, CommitReceipt(d) PROVE DeliveryInv'
  <2> DEFINE e == job[d]
  <2>1. /\ e \in Events /\ num[d] \in Nat /\ CanRecord(e, "SENDING", num[d])
        /\ \A c \in Dispatchers \ {d} : pc[c] \in Owning => job[c] # e
    BY <1>12 DEF CommitReceipt, DeliveryInv, OneOwner, Owning, CanRecord, TypeOK, LocalsOK

  <2>2. PICK r \in RetryPolicy :
          SetRow(e, StateOf(receipt[d]), num[d], StateOf(receipt[d]) = "FAILED" /\ r)
    BY <1>12, <2>1 DEF CommitReceipt
  <2>3. /\ StateOf(receipt[d]) \in Settled \cup {"FAILED"}
        /\ StateOf(receipt[d]) \in {"FAILED", "CANCELLED"} => delivered[e] = 0
        /\ StateOf(receipt[d]) = "SENT" => delivered[e] = 1
    BY <1>12 DEF CommitReceipt, StateOf, DeliveryInv, OwnerKnows, Owning, MessageStatus,
           Settled, TypeOK, LocalsOK
  <2>4. SeenWaiting' /\ GateHeld' /\ DownIsIdle' /\ ProofHolds'
    BY <1>12, FinishInv DEF CommitReceipt, process, authority
  <2>5. OneOwner' /\ OwnerKnows' /\ AtMostOnceDelivery' /\ SentIsConfirmed' /\ NoOrphanAttempt'
    BY <1>12, <2>1, <2>2, <2>3, SettleRow, AfterFinish DEF CommitReceipt, Owning, process
  <2> QED BY <2>4, <2>5 DEF DeliveryInv
<1>13. ASSUME NEW d \in Dispatchers, Abort(d) PROVE DeliveryInv'
  <2> DEFINE e == job[d]
  <2>1. /\ e \in Events /\ num[d] \in Nat /\ CanRecord(e, "SENDING", num[d])
        /\ \A c \in Dispatchers \ {d} : pc[c] \in Owning => job[c] # e
    BY <1>13 DEF Abort, DeliveryInv, OneOwner, Owning, CanRecord, TypeOK, LocalsOK

  <2>2. SetRow(e, "CANCELLED", num[d], FALSE)
    BY <1>13, <2>1 DEF Abort
  <2>3. "CANCELLED" \in Settled /\ delivered[e] = 0
    BY <1>13 DEF Abort, DeliveryInv, OwnerKnows, Owning, Settled
  <2>4. SeenWaiting' /\ GateHeld' /\ DownIsIdle' /\ ProofHolds'
    BY <1>13, FinishInv DEF Abort, process, authority
  <2>6. /\ \A c \in Dispatchers : pc'[c] \in Owning =>
              /\ pc'[c] = pc[c] /\ job'[c] = job[c] /\ num'[c] = num[c]
              /\ receipt'[c] = receipt[c] /\ job[c] # e
        /\ \A c \in Dispatchers : pc[c] \in Owning /\ job[c] # e =>
              pc'[c] = pc[c] /\ job'[c] = job[c]
        /\ UNCHANGED <<delivered, lost, up>>
    BY <1>13, <2>1, AfterFinish DEF Abort, Owning, process
  <2>5. OneOwner' /\ OwnerKnows' /\ AtMostOnceDelivery' /\ SentIsConfirmed' /\ NoOrphanAttempt'
    BY <2>1, <2>2, <2>3, <2>6, SettleRow
  <2> QED BY <2>4, <2>5 DEF DeliveryInv
<1>14. ASSUME NEW d \in Dispatchers, Reject(d) PROVE DeliveryInv'
  <2> DEFINE e == job[d]
  <2>1. e \in Events /\ seen[d] \in Waiting
    BY <1>14 DEF Reject, DeliveryInv, SeenWaiting, BeforeClaim, TypeOK, LocalsOK
  <2>4. SeenWaiting' /\ GateHeld' /\ DownIsIdle' /\ ProofHolds'
    BY <1>14, FinishInv DEF Reject, process, authority
  <2>5. OneOwner' /\ OwnerKnows' /\ AtMostOnceDelivery' /\ SentIsConfirmed' /\ NoOrphanAttempt'
    <3>1. CASE CanRecord(e, seen[d], num[d] + 1)
      <4>1. delivered[e] = 0 /\ \A c \in Dispatchers : pc[c] \in Owning => job[c] # e
        BY <2>1, <3>1, WaitingIsUndelivered DEF CanRecord
      <4>2. PICK r \in BOOLEAN : SetRow(e, "CANCELLED", num[d] + 1, r)
        BY <1>14, <3>1 DEF Reject
      <4> QED
        BY <1>14, <2>1, <4>1, <4>2, SettleRow, AfterFinish DEF Reject, Owning, process, Settled
    <3>2. CASE ~CanRecord(e, seen[d], num[d] + 1)
      <4>1. UNCHANGED <<ev, delivered, lost, up>>
        BY <1>14, <3>2 DEF Reject, process
      <4>2. pc[d] \notin Owning
        BY <1>14 DEF Reject, Owning
      <4>3. OneOwner' /\ OwnerKnows' /\ AtMostOnceDelivery' /\ SentIsConfirmed'
        BY <1>14, <4>1, <4>2, AfterFinish DEF Reject, Owning, DeliveryInv, OneOwner, OwnerKnows,
               AtMostOnceDelivery, SentIsConfirmed
      <4>4. NoOrphanAttempt'
        BY <1>14, <4>1, <4>2, AfterFinish DEF Reject, DeliveryInv, NoOrphanAttempt
      <4> QED BY <4>3, <4>4
    <3> QED BY <3>1, <3>2
  <2> QED BY <2>4, <2>5 DEF DeliveryInv
<1>15. ASSUME NEW d \in Dispatchers, RenderFailed(d) PROVE DeliveryInv'
  <2> DEFINE e == job[d]
  <2>1. e \in Events /\ seen[d] \in Waiting
    BY <1>15 DEF RenderFailed, DeliveryInv, SeenWaiting, BeforeClaim, TypeOK, LocalsOK
  <2>4. SeenWaiting' /\ GateHeld' /\ DownIsIdle' /\ ProofHolds'
    BY <1>15, FinishInv DEF RenderFailed, process, authority
  <2>5. OneOwner' /\ OwnerKnows' /\ AtMostOnceDelivery' /\ SentIsConfirmed' /\ NoOrphanAttempt'
    <3>1. CASE CanRecord(e, seen[d], num[d] + 1)
      <4>1. delivered[e] = 0 /\ \A c \in Dispatchers : pc[c] \in Owning => job[c] # e
        BY <2>1, <3>1, WaitingIsUndelivered DEF CanRecord
      <4>2. PICK r \in BOOLEAN : SetRow(e, "FAILED", num[d] + 1, r)
        BY <1>15, <3>1 DEF RenderFailed
      <4> QED
        BY <1>15, <2>1, <4>1, <4>2, SettleRow, AfterFinish DEF RenderFailed, Owning, process, Settled
    <3>2. CASE ~CanRecord(e, seen[d], num[d] + 1)
      <4>1. UNCHANGED <<ev, delivered, lost, up>>
        BY <1>15, <3>2 DEF RenderFailed, process
      <4>2. pc[d] \notin Owning
        BY <1>15 DEF RenderFailed, Owning
      <4>3. OneOwner' /\ OwnerKnows' /\ AtMostOnceDelivery' /\ SentIsConfirmed'
        BY <1>15, <4>1, <4>2, AfterFinish DEF RenderFailed, Owning, DeliveryInv, OneOwner, OwnerKnows,
               AtMostOnceDelivery, SentIsConfirmed
      <4>4. NoOrphanAttempt'
        BY <1>15, <4>1, <4>2, AfterFinish DEF RenderFailed, DeliveryInv, NoOrphanAttempt
      <4> QED BY <4>3, <4>4
    <3> QED BY <3>1, <3>2
  <2> QED BY <2>4, <2>5 DEF DeliveryInv
<1>16. ASSUME NEW d \in Dispatchers, CancelDispatch(d) PROVE DeliveryInv'
  <2> USE <1>16 DEF CancelDispatch, DeliveryInv, TypeOK, RowsOK, LocalsOK, rows, authority,
         process, locals, Goto, TakeGate, LeaveGate, SetRow, Fault, Finish, Owning, BeforeClaim,
         Gated, Waiting
  <2>1. OneOwner'
    BY DEF OneOwner
  <2>2. OwnerKnows'
    BY DEF OwnerKnows
  <2>3. SeenWaiting' /\ GateHeld' /\ DownIsIdle'
    BY DEF SeenWaiting, GateHeld, DownIsIdle
  <2>4. ProofHolds'
    BY DEF ProofHolds, Qualified
  <2>5. AtMostOnceDelivery' /\ SentIsConfirmed'
    BY DEF AtMostOnceDelivery, SentIsConfirmed
  <2>6. NoOrphanAttempt'
    BY DEF NoOrphanAttempt
  <2> QED BY <2>1, <2>2, <2>3, <2>4, <2>5, <2>6 DEF DeliveryInv
<1>17. ASSUME NEW d \in Dispatchers, CancelSender(d) PROVE DeliveryInv'
  <2> USE <1>17 DEF CancelSender, DeliveryInv, TypeOK, RowsOK, LocalsOK, rows, authority,
         process, locals, Goto, TakeGate, LeaveGate, SetRow, Fault, Finish, Owning, BeforeClaim,
         Gated, Waiting
  <2>1. OneOwner'
    BY DEF OneOwner
  <2>2. OwnerKnows'
    BY DEF OwnerKnows
  <2>3. SeenWaiting' /\ GateHeld' /\ DownIsIdle'
    BY DEF SeenWaiting, GateHeld, DownIsIdle
  <2>4. ProofHolds'
    BY DEF ProofHolds, Qualified
  <2>5. AtMostOnceDelivery' /\ SentIsConfirmed'
    BY DEF AtMostOnceDelivery, SentIsConfirmed
  <2>6. NoOrphanAttempt'
    BY DEF NoOrphanAttempt
  <2> QED BY <2>1, <2>2, <2>3, <2>4, <2>5, <2>6 DEF DeliveryInv
<1>18. ASSUME NEW d \in Dispatchers, StopSend(d) PROVE DeliveryInv'
  <2> USE <1>18 DEF StopSend, DeliveryInv, TypeOK, RowsOK, LocalsOK, rows, authority, process,
         locals, Goto, TakeGate, LeaveGate, SetRow, Fault, Finish, Owning, BeforeClaim, Gated,
         Waiting
  <2>1. OneOwner'
    BY DEF OneOwner
  <2>2. OwnerKnows'
    BY DEF OwnerKnows
  <2>3. SeenWaiting' /\ GateHeld' /\ DownIsIdle'
    BY DEF SeenWaiting, GateHeld, DownIsIdle
  <2>4. ProofHolds'
    BY DEF ProofHolds, Qualified
  <2>5. AtMostOnceDelivery' /\ SentIsConfirmed'
    BY DEF AtMostOnceDelivery, SentIsConfirmed
  <2>6. NoOrphanAttempt'
    BY DEF NoOrphanAttempt
  <2> QED BY <2>1, <2>2, <2>3, <2>4, <2>5, <2>6 DEF DeliveryInv
<1>19. ASSUME NEW d \in Dispatchers, SettleFails(d) PROVE DeliveryInv'
  <2> USE <1>19 DEF SettleFails, DeliveryInv, TypeOK, RowsOK, LocalsOK, rows, authority,
         process, locals, Goto, TakeGate, LeaveGate, SetRow, Fault, Finish, Owning, BeforeClaim,
         Gated, Waiting
  <2>1. OneOwner'
    BY DEF OneOwner
  <2>2. OwnerKnows'
    BY DEF OwnerKnows
  <2>3. SeenWaiting' /\ GateHeld' /\ DownIsIdle'
    BY DEF SeenWaiting, GateHeld, DownIsIdle
  <2>4. ProofHolds'
    BY DEF ProofHolds, Qualified
  <2>5. AtMostOnceDelivery' /\ SentIsConfirmed'
    BY DEF AtMostOnceDelivery, SentIsConfirmed
  <2>6. NoOrphanAttempt'
    BY DEF NoOrphanAttempt
  <2> QED BY <2>1, <2>2, <2>3, <2>4, <2>5, <2>6 DEF DeliveryInv
<1>20. ASSUME NEW d \in Dispatchers, NEW e \in Events, Begin(d, e) PROVE DeliveryInv'
  <2> USE <1>20 DEF Begin, DeliveryInv, TypeOK, RowsOK, LocalsOK, rows, authority, process,
         locals, Goto, TakeGate, LeaveGate, SetRow, Fault, Finish, Owning, BeforeClaim, Gated,
         Waiting
  <2>1. OneOwner'
    BY DEF OneOwner
  <2>2. OwnerKnows'
    BY DEF OwnerKnows
  <2>3. SeenWaiting' /\ GateHeld' /\ DownIsIdle'
    BY DEF SeenWaiting, GateHeld, DownIsIdle
  <2>4. ProofHolds'
    BY DEF ProofHolds, Qualified
  <2>5. AtMostOnceDelivery' /\ SentIsConfirmed'
    BY DEF AtMostOnceDelivery, SentIsConfirmed
  <2>6. NoOrphanAttempt'
    BY DEF NoOrphanAttempt
  <2> QED BY <2>1, <2>2, <2>3, <2>4, <2>5, <2>6 DEF DeliveryInv
<1>21. ASSUME NEW e \in Events, Enqueue(e) PROVE DeliveryInv'
  <2> USE <1>21 DEF Enqueue, DeliveryInv, TypeOK, RowsOK, LocalsOK, rows, authority, process,
         locals, Goto, TakeGate, LeaveGate, SetRow, Fault, Finish, Owning, BeforeClaim, Gated,
         Waiting
  <2>1. OneOwner'
    BY DEF OneOwner
  <2>2. OwnerKnows'
    BY DEF OwnerKnows
  <2>3. SeenWaiting' /\ GateHeld' /\ DownIsIdle'
    BY DEF SeenWaiting, GateHeld, DownIsIdle
  <2>4. ProofHolds'
    BY DEF ProofHolds, Qualified
  <2>5. AtMostOnceDelivery' /\ SentIsConfirmed'
    BY DEF AtMostOnceDelivery, SentIsConfirmed
  <2>6. NoOrphanAttempt'
    BY DEF NoOrphanAttempt
  <2> QED BY <2>1, <2>2, <2>3, <2>4, <2>5, <2>6 DEF DeliveryInv
<1>22. ASSUME NEW e \in Events, CancelSubscription(e) PROVE DeliveryInv'
  <2>1. ProofHolds'
    BY <1>22 DEF CancelSubscription, DeliveryInv, ProofHolds, GateHeld, Gated, TypeOK, LocalsOK, locals
  <2> QED BY <1>22, <2>1, FrameInv DEF CancelSubscription, locals, process, DeliveryInv
<1>23. ASSUME NEW e \in Events, MoveFence(e) PROVE DeliveryInv'
  <2>1. ProofHolds'
    BY <1>23 DEF MoveFence, DeliveryInv, ProofHolds, GateHeld, Gated, TypeOK, LocalsOK, locals
  <2> QED BY <1>23, <2>1, FrameInv DEF MoveFence, locals, process, DeliveryInv
<1>24. ASSUME NEW e \in Events, ExpireGrant(e) PROVE DeliveryInv'
  <2>1. ProofHolds'
    BY <1>24 DEF ExpireGrant, DeliveryInv, ProofHolds, Qualified, TypeOK, LocalsOK, AuthorityOK, locals
  <2> QED BY <1>24, <2>1, FrameInv DEF ExpireGrant, locals, process, DeliveryInv
<1>25. ASSUME NEW e \in Events, RevokeGrant(e) PROVE DeliveryInv'
  <2>1. ProofHolds'
    BY <1>25 DEF RevokeGrant, DeliveryInv, ProofHolds, GateHeld, Gated, TypeOK, LocalsOK, locals
  <2>2. CASE ev[e].st = "PENDING" \/ (ev[e].st = "FAILED" /\ ev[e].retry)
    <3>1. SetRow(e, "CANCELLED", ev[e].att + 1, FALSE)
      BY <1>25, <2>2 DEF RevokeGrant
    <3>2. delivered[e] = 0 /\ \A c \in Dispatchers : pc[c] \in Owning => job[c] # e
      BY <2>2, WaitingIsUndelivered DEF Waiting
    <3>3. OneOwner' /\ OwnerKnows' /\ AtMostOnceDelivery' /\ SentIsConfirmed' /\ NoOrphanAttempt'
      BY <1>25, <3>1, <3>2, SettleRow DEF RevokeGrant, locals, process, Settled
    <3>4. SeenWaiting' /\ GateHeld' /\ DownIsIdle'
      BY <1>25 DEF RevokeGrant, locals, process, DeliveryInv, SeenWaiting, GateHeld, DownIsIdle
    <3> QED BY <2>1, <3>3, <3>4 DEF DeliveryInv
  <2>3. CASE ~(ev[e].st = "PENDING" \/ (ev[e].st = "FAILED" /\ ev[e].retry))
    BY <1>25, <2>1, <2>3, FrameInv DEF RevokeGrant, rows, locals, process, DeliveryInv
  <2> QED BY <2>2, <2>3
<1>26. ASSUME CloseModule PROVE DeliveryInv'
  <2>1. ProofHolds'
    BY <1>26 DEF CloseModule, DeliveryInv, ProofHolds, Qualified, locals
  <2> QED BY <1>26, <2>1, FrameInv DEF CloseModule, locals, process, DeliveryInv
<1>27. ASSUME OpenModule PROVE DeliveryInv'
  <2>1. ProofHolds'
    BY <1>27 DEF OpenModule, DeliveryInv, ProofHolds, Qualified, locals
  <2> QED BY <1>27, <2>1, FrameInv DEF OpenModule, locals, process, DeliveryInv
<1>28. ASSUME Crash PROVE DeliveryInv'
  <2>1. PICK sent \in SUBSET {job[d] : d \in {x \in Dispatchers : pc[x] = "inflight"}} :
          delivered' = [e \in Events |-> delivered[e] + IF e \in sent THEN 1 ELSE 0]
    BY <1>28 DEF Crash
  <2>2. \A e \in sent : delivered[e] = 0 /\ ev[e].st = "SENDING"
    BY DEF DeliveryInv, OwnerKnows, OneOwner, Owning, TypeOK, LocalsOK, RowsOK
  <2>3. \A e \in Events : delivered[e] \in Nat
                          /\ delivered'[e] = IF e \in sent THEN 1 ELSE delivered[e]
    BY <2>1, <2>2 DEF TypeOK, RowsOK
  <2>4. ev' = ev /\ ~up' /\ \A d \in Dispatchers : pc'[d] = "idle"
    BY <1>28 DEF Crash
  <2>5. OneOwner' /\ SeenWaiting' /\ GateHeld' /\ DownIsIdle' /\ OwnerKnows' /\ ProofHolds'
    BY <2>4 DEF OneOwner, SeenWaiting, GateHeld, DownIsIdle, OwnerKnows, ProofHolds,
           Owning, BeforeClaim, Gated
  <2>6. AtMostOnceDelivery' /\ SentIsConfirmed'
    BY <2>2, <2>3, <2>4 DEF DeliveryInv, AtMostOnceDelivery, SentIsConfirmed
  <2>7. NoOrphanAttempt'
    BY <2>4 DEF NoOrphanAttempt
  <2> QED BY <2>5, <2>6, <2>7 DEF DeliveryInv
<1>29. ASSUME Recover PROVE DeliveryInv'
  <2>1. PICK future \in SUBSET {e \in Events : ev[e].st = "SENDING"} :
          /\ ev' = [e \in Events |->
                      IF ev[e].st = "SENDING" /\ e \notin future
                        THEN [ev[e] EXCEPT !.st = "UNKNOWN", !.retry = FALSE]
                        ELSE ev[e]]
          /\ lost' = [e \in Events |-> lost[e] \/ e \in future]
    BY <1>29 DEF Recover
  <2>2. \A e \in Events : ev'[e].st = IF ev[e].st = "SENDING" /\ e \notin future
                                        THEN "UNKNOWN" ELSE ev[e].st
    BY <2>1 DEF TypeOK, RowsOK
  <2>3. delivered' = delivered /\ pc' = pc /\ \A d \in Dispatchers : pc'[d] = "idle"
    BY <1>29 DEF Recover, DeliveryInv, DownIsIdle
  <2>4. OneOwner' /\ SeenWaiting' /\ GateHeld' /\ DownIsIdle' /\ OwnerKnows' /\ ProofHolds'
    BY <2>3 DEF OneOwner, SeenWaiting, GateHeld, DownIsIdle, OwnerKnows, ProofHolds,
           Owning, BeforeClaim, Gated
  <2>5. AtMostOnceDelivery' /\ SentIsConfirmed'
    BY <2>2, <2>3 DEF DeliveryInv, AtMostOnceDelivery, SentIsConfirmed
  <2>a. \A e \in future : lost'[e]
    BY <2>1
  <2>6. NoOrphanAttempt'
    BY <2>2, <2>a DEF NoOrphanAttempt
  <2> QED BY <2>4, <2>5, <2>6 DEF DeliveryInv
<1>31. ASSUME PumpFails PROVE DeliveryInv'
  <2>1. ProofHolds'
    BY <1>31 DEF PumpFails, rows, authority, locals, DeliveryInv, ProofHolds, Qualified
  <2> QED BY <1>31, <2>1, FrameInv DEF PumpFails, rows, locals, DeliveryInv
<1>30. ASSUME UNCHANGED vars PROVE DeliveryInv'
  <2>1. ProofHolds'
    BY <1>30 DEF vars, DeliveryInv, ProofHolds, Qualified
  <2> QED BY <1>30, <2>1, FrameInv DEF vars, rows, DeliveryInv
<1> QED
  BY <1>1, <1>2, <1>3, <1>4, <1>5, <1>6, <1>7, <1>8, <1>9, <1>10, <1>11, <1>12, <1>13, <1>14, <1>15, <1>16, <1>17, <1>18, <1>19, <1>20, <1>21, <1>22, <1>23, <1>24, <1>25, <1>26, <1>27, <1>28, <1>29, <1>30, <1>31
  DEF Next, Advance, Disturb, Command, Rest

\* The specification keeps the inductive invariant.
THEOREM Invariant == Spec => []DeliveryInv
BY InitInv, InvStep, PTL DEF Spec

\* Every variable keeps its type, for every value of the constants.
THEOREM TypeCorrect == Spec => []TypeOK
<1>1. DeliveryInv => TypeOK
  BY DEF DeliveryInv
<1> QED BY <1>1, Invariant, PTL

\* The platform never delivers an event twice, whatever the number of dispatchers,
\* retries, crashes and restarts; and no delivered event is offered again.
THEOREM DeliversAtMostOnce == Spec => []AtMostOnceDelivery
<1>1. DeliveryInv => AtMostOnceDelivery
  BY DEF DeliveryInv
<1> QED BY <1>1, Invariant, PTL

\* SENT is never claimed for a message that did not go out.
THEOREM SentMeansDelivered == Spec => []SentIsConfirmed
<1>1. DeliveryInv => SentIsConfirmed
  BY DEF DeliveryInv
<1> QED BY <1>1, Invariant, PTL

\* An unsettled attempt has exactly one owner, or its settling write failed.
THEOREM AttemptsAreOwned == Spec => [](OneOwner /\ NoOrphanAttempt)
<1>1. DeliveryInv => OneOwner /\ NoOrphanAttempt
  BY DEF DeliveryInv
<1> QED BY <1>1, Invariant, PTL

\* The send entry.

\* A step either is IoEnter of some dispatcher or lets nobody enter the Host call.
LEMMA OnlyIoEnters ==
    ASSUME TypeOK, [Next]_vars, NEW c \in Dispatchers,
           pc[c] # "inflight", pc'[c] = "inflight"
    PROVE  IoEnter(c)
<1> USE DEF TypeOK, LocalsOK, Goto, Finish
<1>1. ASSUME NEW d \in Dispatchers, Check(d) PROVE IoEnter(c)
  BY <1>1 DEF Check
<1>2. ASSUME NEW d \in Dispatchers, Render(d) PROVE IoEnter(c)
  BY <1>2 DEF Render
<1>3. ASSUME NEW d \in Dispatchers, Recheck(d) PROVE IoEnter(c)
  BY <1>3 DEF Recheck
<1>4. ASSUME NEW d \in Dispatchers, Approve(d) PROVE IoEnter(c)
  BY <1>4 DEF Approve, locals
<1>5. ASSUME NEW d \in Dispatchers, FinalCheck(d) PROVE IoEnter(c)
  BY <1>5 DEF FinalCheck
<1>6. ASSUME NEW d \in Dispatchers, ClaimSending(d) PROVE IoEnter(c)
  BY <1>6 DEF ClaimSending
<1>7. ASSUME NEW d \in Dispatchers, ClaimLost(d) PROVE IoEnter(c)
  BY <1>7 DEF ClaimLost
<1>8. ASSUME NEW d \in Dispatchers, Permit(d) PROVE IoEnter(c)
  BY <1>8 DEF Permit
<1>9. ASSUME NEW d \in Dispatchers, StartIo(d) PROVE IoEnter(c)
  BY <1>9 DEF StartIo
<1>10. ASSUME NEW d \in Dispatchers, HostReturns(d) PROVE IoEnter(c)
  BY <1>10 DEF HostReturns
<1>11. ASSUME NEW d \in Dispatchers, CommitReceipt(d) PROVE IoEnter(c)
  BY <1>11 DEF CommitReceipt
<1>12. ASSUME NEW d \in Dispatchers, Abort(d) PROVE IoEnter(c)
  BY <1>12 DEF Abort
<1>13. ASSUME NEW d \in Dispatchers, Reject(d) PROVE IoEnter(c)
  BY <1>13 DEF Reject
<1>14. ASSUME NEW d \in Dispatchers, RenderFailed(d) PROVE IoEnter(c)
  BY <1>14 DEF RenderFailed
<1>15. ASSUME NEW d \in Dispatchers, CancelDispatch(d) PROVE IoEnter(c)
  BY <1>15 DEF CancelDispatch
<1>16. ASSUME NEW d \in Dispatchers, CancelSender(d) PROVE IoEnter(c)
  BY <1>16 DEF CancelSender
<1>17. ASSUME NEW d \in Dispatchers, StopSend(d) PROVE IoEnter(c)
  BY <1>17 DEF StopSend
<1>18. ASSUME NEW d \in Dispatchers, SettleFails(d) PROVE IoEnter(c)
  BY <1>18 DEF SettleFails
<1>19. ASSUME NEW d \in Dispatchers, IoEnter(d) PROVE IoEnter(c)
  BY <1>19 DEF IoEnter
<1>20. ASSUME NEW d \in Dispatchers, NEW e \in Events, Begin(d, e) PROVE IoEnter(c)
  BY <1>20 DEF Begin
<1>21. ASSUME NEW e \in Events, Command(e) PROVE IoEnter(c)
  BY <1>21 DEF Command, Enqueue, CancelSubscription, MoveFence, RevokeGrant, ExpireGrant
<1>22. ASSUME CloseModule \/ OpenModule \/ PumpFails \/ Crash \/ Recover \/ UNCHANGED vars
      PROVE IoEnter(c)
  BY <1>22 DEF CloseModule, OpenModule, PumpFails, Crash, Recover, vars
<1> QED
  BY <1>1, <1>2, <1>3, <1>4, <1>5, <1>6, <1>7, <1>8, <1>9, <1>10, <1>11, <1>12, <1>13, <1>14, <1>15, <1>16, <1>17, <1>18, <1>19, <1>20, <1>21, <1>22 DEF Next, Advance, Disturb, Rest

\* MessagePort.send is only ever entered with current authority.
THEOREM SendsOnlyWhileCurrent == Spec => EnteredWhileCurrent
<1>1. DeliveryInv /\ [Next]_vars =>
        [\A d \in Dispatchers :
            pc[d] # "inflight" /\ pc'[d] = "inflight" => SendCurrent(d)]_vars
  <2> SUFFICES ASSUME DeliveryInv, [Next]_vars, NEW d \in Dispatchers,
                      pc[d] # "inflight", pc'[d] = "inflight"
               PROVE  SendCurrent(d)
    OBVIOUS
  <2>1. IoEnter(d)
    BY OnlyIoEnters DEF DeliveryInv
  <2>2. LeaseCurrent(d) /\ grant[job[d]] # "expired" /\ pc[d] = "io"
    BY <2>1 DEF IoEnter, Goto, DeliveryInv, TypeOK, LocalsOK
  <2>3. Qualified(job[d]) /\ grant[job[d]] # "revoked"
    BY <2>2 DEF DeliveryInv, ProofHolds
  <2>4. grant[job[d]] = "live"
    BY <2>2, <2>3 DEF DeliveryInv, TypeOK, AuthorityOK, LocalsOK
  <2>5. ev[job[d]].st = "SENDING" /\ ev[job[d]].att = num[d]
    BY <2>2 DEF DeliveryInv, OneOwner, Owning
  <2> QED BY <2>2, <2>3, <2>4, <2>5 DEF SendCurrent, CurrentForSend
<1> QED BY <1>1, Invariant, PTL DEF Spec, EnteredWhileCurrent

\* The dispatch protocol implements DeliveryContract.

\* A step that leaves the rows alone is a stutter of the contract.
LEMMA RowsStutter ==
    ASSUME UNCHANGED rows, NEW x \in Events
    PROVE  Contract!Step(ev[x].st, ev'[x].st, delivered[x], delivered'[x])
BY DEF rows, Contract!Step

\* Giving up a waiting row, or marking it failed, is a step of the contract.
LEMMA GiveUp ==
    ASSUME TypeOK, NEW e \in Events, NEW s \in {"FAILED", "CANCELLED"}, NEW n, NEW r,
           ev[e].st \in Waiting, SetRow(e, s, n, r), delivered' = delivered,
           NEW x \in Events
    PROVE  Contract!Step(ev[x].st, ev'[x].st, delivered[x], delivered'[x])
<1>1. ev'[e] = [st |-> s, att |-> n, retry |-> r] /\ \A y \in Events \ {e} : ev'[y] = ev[y]
  BY RowAfter
<1>2. ev'[e].st = s
  BY <1>1
<1> QED BY <1>1, <1>2 DEF Contract!Step, Waiting

\* Every step is, for every event, a step of the contract.
LEMMA ContractStep ==
    ASSUME DeliveryInv, [Next]_vars, NEW x \in Events
    PROVE  Contract!Step(ev[x].st, ev'[x].st, delivered[x], delivered'[x])
<1> DEFINE Goal == Contract!Step(ev[x].st, ev'[x].st, delivered[x], delivered'[x])
<1>0. TypeOK
  BY DEF DeliveryInv
<1> USE <1>0
<1>1. ASSUME NEW d \in Dispatchers, \/ Check(d) \/ Render(d) \/ Recheck(d) \/ Approve(d) \/ FinalCheck(d) \/ ClaimLost(d)
                              \/ Permit(d) \/ StartIo(d) \/ IoEnter(d) \/ CancelDispatch(d) \/ CancelSender(d) \/ StopSend(d) PROVE Goal
  BY <1>1, RowsStutter DEF Check, Render, Recheck, Approve, FinalCheck, ClaimLost, Permit,
         StartIo, IoEnter, CancelDispatch, CancelSender, StopSend
<1>2. ASSUME NEW d \in Dispatchers, SettleFails(d) PROVE Goal
  BY <1>2 DEF SettleFails, Contract!Step
<1>3. ASSUME NEW d \in Dispatchers, NEW e \in Events, Begin(d, e) PROVE Goal
  BY <1>3, RowsStutter DEF Begin
<1>4. ASSUME NEW d \in Dispatchers, ClaimSending(d) PROVE Goal
  <2>1. job[d] \in Events /\ ev[job[d]].st \in Waiting
    BY <1>4 DEF ClaimSending, CanClaim, DeliveryInv, SeenWaiting, BeforeClaim, TypeOK, LocalsOK
  <2>2. ev'[job[d]] = [st |-> "SENDING", att |-> num[d] + 1, retry |-> FALSE]
        /\ \A y \in Events \ {job[d]} : ev'[y] = ev[y]
    BY <1>4, <2>1, RowAfter DEF ClaimSending
  <2>3. ev'[job[d]].st = "SENDING"
    BY <2>2
  <2> QED BY <1>4, <2>1, <2>2, <2>3 DEF ClaimSending, Contract!Step, Waiting
<1>5. ASSUME NEW d \in Dispatchers, HostReturns(d) PROVE Goal
  <2>1. job[d] \in Events /\ delivered[job[d]] = 0 /\ ev[job[d]].st = "SENDING"
    BY <1>5 DEF HostReturns, DeliveryInv, OwnerKnows, OneOwner, Owning, LocalsOK, TypeOK
  <2>2. PICK sent \in {0, 1} :
          delivered' = [delivered EXCEPT ![job[d]] = delivered[job[d]] + sent]
    BY <1>5, Zenon DEF HostReturns
  <2>3. delivered'[job[d]] \in {0, 1} /\ \A y \in Events \ {job[d]} : delivered'[y] = delivered[y]
    BY <2>1, <2>2 DEF TypeOK, RowsOK
  <2>4. ev' = ev
    BY <1>5 DEF HostReturns
  <2> QED BY <2>1, <2>3, <2>4 DEF Contract!Step
<1>6. ASSUME NEW d \in Dispatchers, CommitReceipt(d) PROVE Goal
  <2> DEFINE e == job[d]
  <2>1. e \in Events /\ ev[e].st = "SENDING" /\ CanRecord(e, "SENDING", num[d])
    BY <1>6 DEF CommitReceipt, DeliveryInv, OneOwner, Owning, CanRecord, TypeOK, LocalsOK
  <2>2. PICK r \in RetryPolicy :
          SetRow(e, StateOf(receipt[d]), num[d], StateOf(receipt[d]) = "FAILED" /\ r)
    BY <1>6, <2>1 DEF CommitReceipt
  <2>3. ev'[e] = [st |-> StateOf(receipt[d]), att |-> num[d],
                  retry |-> StateOf(receipt[d]) = "FAILED" /\ r]
        /\ \A y \in Events \ {e} : ev'[y] = ev[y]
    BY <2>1, <2>2, RowAfter
  <2>4. ev'[e].st = StateOf(receipt[d]) /\ delivered' = delivered
    BY <1>6, <2>3 DEF CommitReceipt
  <2>5. \/ receipt[d] = "ACCEPTED" /\ delivered[e] = 1
        \/ receipt[d] = "FAILED" /\ delivered[e] = 0
        \/ receipt[d] = "UNKNOWN"
    BY <1>6 DEF CommitReceipt, DeliveryInv, OwnerKnows, Owning, MessageStatus, TypeOK, LocalsOK
  <2> QED BY <2>1, <2>3, <2>4, <2>5 DEF Contract!Step, StateOf
<1>7. ASSUME NEW d \in Dispatchers, Abort(d) PROVE Goal
  <2> DEFINE e == job[d]
  <2>1. e \in Events /\ ev[e].st = "SENDING" /\ CanRecord(e, "SENDING", num[d]) /\ delivered[e] = 0
    BY <1>7 DEF Abort, DeliveryInv, OneOwner, OwnerKnows, Owning, CanRecord, TypeOK, LocalsOK
  <2>2. SetRow(e, "CANCELLED", num[d], FALSE)
    BY <1>7, <2>1 DEF Abort
  <2>3. ev'[e] = [st |-> "CANCELLED", att |-> num[d], retry |-> FALSE]
        /\ \A y \in Events \ {e} : ev'[y] = ev[y]
    BY <2>1, <2>2, RowAfter
  <2>4. ev'[e].st = "CANCELLED" /\ delivered' = delivered
    BY <1>7, <2>3 DEF Abort
  <2> QED BY <2>1, <2>3, <2>4 DEF Contract!Step
<1>8. ASSUME NEW d \in Dispatchers, Reject(d) PROVE Goal
  <2>1. job[d] \in Events /\ seen[d] \in Waiting
    BY <1>8 DEF Reject, DeliveryInv, SeenWaiting, BeforeClaim, TypeOK, LocalsOK
  <2>2. CASE CanRecord(job[d], seen[d], num[d] + 1)
    <3>1. PICK r \in BOOLEAN : SetRow(job[d], "CANCELLED", num[d] + 1, r)
      BY <1>8, <2>2, DeliveryConstants DEF Reject
    <3> QED BY <1>8, <2>1, <2>2, <3>1, GiveUp DEF Reject, CanRecord
  <2>3. CASE ~CanRecord(job[d], seen[d], num[d] + 1)
    BY <1>8, <2>3, RowsStutter DEF Reject, rows
  <2> QED BY <2>2, <2>3
<1>9. ASSUME NEW d \in Dispatchers, RenderFailed(d) PROVE Goal
  <2>1. job[d] \in Events /\ seen[d] \in Waiting
    BY <1>9 DEF RenderFailed, DeliveryInv, SeenWaiting, BeforeClaim, TypeOK, LocalsOK
  <2>2. CASE CanRecord(job[d], seen[d], num[d] + 1)
    <3>1. PICK r \in BOOLEAN : SetRow(job[d], "FAILED", num[d] + 1, r)
      BY <1>9, <2>2, DeliveryConstants DEF RenderFailed
    <3> QED BY <1>9, <2>1, <2>2, <3>1, GiveUp DEF RenderFailed, CanRecord
  <2>3. CASE ~CanRecord(job[d], seen[d], num[d] + 1)
    BY <1>9, <2>3, RowsStutter DEF RenderFailed, rows
  <2> QED BY <2>2, <2>3
<1>10. ASSUME NEW e \in Events, Enqueue(e) PROVE Goal
  <2>1. ev'[e] = [st |-> "PENDING", att |-> 0, retry |-> FALSE]
        /\ \A y \in Events \ {e} : ev'[y] = ev[y]
    BY <1>10, RowAfter DEF Enqueue
  <2>2. ev'[e].st = "PENDING" /\ ev[e].st = "NONE" /\ delivered' = delivered
    BY <1>10, <2>1 DEF Enqueue
  <2> QED BY <2>1, <2>2 DEF Contract!Step
<1>11. ASSUME NEW e \in Events, RevokeGrant(e) PROVE Goal
  <2>1. CASE ev[e].st = "PENDING" \/ (ev[e].st = "FAILED" /\ ev[e].retry)
    <3>1. ev[e].st \in Waiting /\ SetRow(e, "CANCELLED", ev[e].att + 1, FALSE)
      BY <1>11, <2>1 DEF RevokeGrant, Waiting
    <3>2. delivered' = delivered
      BY <1>11 DEF RevokeGrant
    <3> QED BY <3>1, <3>2, GiveUp
  <2>2. CASE ~(ev[e].st = "PENDING" \/ (ev[e].st = "FAILED" /\ ev[e].retry))
    BY <1>11, <2>2, RowsStutter DEF RevokeGrant, rows
  <2> QED BY <2>1, <2>2
<1>12. ASSUME NEW e \in Events, CancelSubscription(e) \/ MoveFence(e) \/ ExpireGrant(e) PROVE Goal
  BY <1>12, RowsStutter DEF CancelSubscription, MoveFence, ExpireGrant
<1>13. ASSUME CloseModule \/ OpenModule PROVE Goal
  BY <1>13, RowsStutter DEF CloseModule, OpenModule
<1>14. ASSUME Crash PROVE Goal
  <2>1. PICK sent \in SUBSET {job[d] : d \in {y \in Dispatchers : pc[y] = "inflight"}} :
          delivered' = [e \in Events |-> delivered[e] + IF e \in sent THEN 1 ELSE 0]
    BY <1>14 DEF Crash
  <2>2. x \in sent => delivered[x] = 0 /\ ev[x].st = "SENDING"
    BY DEF DeliveryInv, OwnerKnows, OneOwner, Owning, TypeOK, LocalsOK, RowsOK
  <2>3. delivered[x] \in Nat /\ delivered'[x] = IF x \in sent THEN 1 ELSE delivered[x]
    BY <2>1, <2>2 DEF TypeOK, RowsOK
  <2>4. ev' = ev
    BY <1>14 DEF Crash
  <2> QED BY <2>2, <2>3, <2>4 DEF Contract!Step
<1>15. ASSUME Recover PROVE Goal
  <2>1. ev'[x].st = ev[x].st \/ (ev[x].st = "SENDING" /\ ev'[x].st = "UNKNOWN")
    <3>1. PICK future \in SUBSET {e \in Events : ev[e].st = "SENDING"} :
            ev' = [e \in Events |->
                      IF ev[e].st = "SENDING" /\ e \notin future
                        THEN [ev[e] EXCEPT !.st = "UNKNOWN", !.retry = FALSE]
                        ELSE ev[e]]
      BY <1>15 DEF Recover
    <3> QED BY <3>1 DEF TypeOK, RowsOK
  <2>2. delivered' = delivered
    BY <1>15 DEF Recover
  <2> QED BY <2>1, <2>2 DEF Contract!Step
<1>16. ASSUME PumpFails \/ UNCHANGED vars PROVE Goal
  BY <1>16, RowsStutter DEF PumpFails, vars, rows
<1> QED
  BY <1>1, <1>2, <1>3, <1>4, <1>5, <1>6, <1>7, <1>8, <1>9, <1>10, <1>11, <1>12, <1>13, <1>14, <1>15, <1>16
  DEF Next, Advance, Disturb, Command, Rest

\* The dispatch protocol, with its gate, leases, retries and crashes, implements
\* the outbox contract under the mapping state[e] <- ev[e].st.
THEOREM Refinement == Spec => ImplementsContract
<1>1. Init => Contract!Init
  BY DEF Init, Contract!Init
<1>2. DeliveryInv /\ DeliveryInv' /\ [Next]_vars => [Contract!Next]_(Contract!contract)
  <2> SUFFICES ASSUME DeliveryInv, DeliveryInv', [Next]_vars PROVE Contract!Next
    BY DEF Contract!contract
  <2>1. [e \in Events |-> ev'[e].st] \in
            [Events -> {"NONE", "PENDING", "SENDING", "FAILED", "SENT", "UNKNOWN", "CANCELLED"}]
    BY DEF DeliveryInv, TypeOK, RowsOK, States, Waiting, Settled
  <2>2. delivered' \in [Events -> {0, 1}]
    <3>1. \A e \in Events : delivered'[e] \in Nat /\ delivered'[e] <= 1
      BY DEF DeliveryInv, TypeOK, RowsOK, AtMostOnceDelivery
    <3>2. \A e \in Events : delivered'[e] \in {0, 1}
      BY <3>1
    <3> QED BY <3>2 DEF DeliveryInv, TypeOK, RowsOK
  <2>3. \A x \in Events : Contract!Step(ev[x].st, ev'[x].st, delivered[x], delivered'[x])
    BY ContractStep
  <2> QED BY <2>1, <2>2, <2>3 DEF Contract!Next
<1> QED BY <1>1, <1>2, Invariant, PTL DEF Spec, ImplementsContract, Contract!Spec

\* The whole invariant of the delivery run, for any events, dispatchers and bounds:
\* whatever dispatch_event, its sender, the commands and recovery do, each row is
\* delivered at most once, SENT only when it was, and owned while it is in flight.
THEOREM DeliverySafe == Spec => []DeliveryIsSafe
  BY TypeCorrect, DeliversAtMostOnce, SentMeansDelivered, AttemptsAreOwned, PTL DEF DeliveryIsSafe
=============================================================================
