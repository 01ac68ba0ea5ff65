----------------------- MODULE MessageDeliveryProofs -----------------------
(***************************************************************************)
(* Theorems about MessageDelivery for every set of agents and messages and *)
(* every number of faults.                                                 *)
(***************************************************************************)
EXTENDS MessageDelivery, FiniteSetTheorems, TLAPS

\* What notify may do, without the router's definitions.
LEMMA NotifyEffect ==
  ASSUME NEW a, TypeOK, Router!Notify(a)
  PROVE  /\ queueOf' = queueOf
         /\ tokens' \in [Agents -> Nat]
         /\ \A b \in Agents : tokens'[b] >= tokens[b]
         /\ a \in Agents /\ queueOf[a] = a => tokens'[a] > 0
<1>1. CASE Router!Dropped(a)
  BY <1>1, DeliveryAssumption DEF Router!Notify, Router!Dropped, TypeOK
<1>2. CASE Router!Pushed(a)
  <2>1. PICK q : q = queueOf[a] /\ tokens' = [tokens EXCEPT ![q] = @ + 1]
    BY <1>2 DEF Router!Pushed
  <2>2. tokens \in [Agents -> Nat]
    BY DEF TypeOK
  <2>3. /\ tokens' \in [Agents -> Nat]
        /\ \A b \in Agents : tokens'[b] >= tokens[b]
    <3>1. CASE q \in Agents
      BY <2>1, <2>2, <3>1
    <3>2. CASE q \notin Agents
      <4>1. tokens' = tokens
        BY <2>1, <2>2, <3>2
      <4> QED
        BY <2>2, <4>1
    <3> QED
      BY <3>1, <3>2
  <2>4. ASSUME a \in Agents, queueOf[a] = a PROVE tokens'[a] > 0
    BY <2>1, <2>2, <2>4
  <2> QED
    BY <2>3, <2>4 DEF Router!Notify
<1> QED
  BY <1>1, <1>2 DEF Router!Notify

(***************************************************************************)
(* Type correctness.  Every action preserves it by itself.                 *)
(***************************************************************************)
\* No row, queue or transaction exists at first.
LEMMA TypeInit == Init => TypeOK
  BY DeliveryAssumption DEF Init, TypeOK, Places

\* One step per action of Next.
LEMMA TypeStep == TypeOK /\ [Next]_vars => TypeOK'
<1> SUFFICES ASSUME TypeOK, [Next]_vars PROVE TypeOK'
  OBVIOUS
<1> USE DeliveryAssumption DEF TypeOK, Places, MayWrite, Write, Released
<1>1. CASE Start
  BY <1>1 DEF Start, txVars, dbVars
<1>2. CASE StartReplay
  <2>1. \A a \in Agents : Cardinality(Undelivered(a)) \in Nat
    BY FS_Subset, FS_CardinalityType DEF Undelivered
  <2> QED
    BY <1>2, <2>1 DEF StartReplay, txVars, dbVars
<1>3. ASSUME NEW m \in Messages, NEW a \in Agents, ApiSend(m, a) PROVE TypeOK'
  BY <1>3 DEF ApiSend, txVars
<1>4. ASSUME NEW m \in Messages, NEW a \in Agents, AssignWake(m, a) PROVE TypeOK'
  <2>1. queueOf' = queueOf /\ tokens' \in [Agents -> Nat]
    BY <1>4, NotifyEffect DEF AssignWake
  <2>2. assigning' \in SUBSET Messages /\ activating' \in SUBSET assigning'
    BY <1>4 DEF AssignWake
  <2> QED
    BY <1>4, <2>1, <2>2 DEF AssignWake, txVars
<1>5. ASSUME NEW m \in Messages, ApiNotify(m) PROVE TypeOK'
  BY <1>5, NotifyEffect DEF ApiNotify, txVars, dbVars
<1>6. ASSUME NEW m \in Messages, AssignCommit(m) PROVE TypeOK'
  BY <1>6 DEF AssignCommit, txVars
<1>7. ASSUME NEW m \in Messages, AssignAbort(m) PROVE TypeOK'
  BY <1>7 DEF AssignAbort, txVars
<1>8. ASSUME NEW m \in Messages, RetryStuck(m) PROVE TypeOK'
  BY <1>8, NotifyEffect DEF RetryStuck, txVars, dbVars
<1>9. ASSUME NEW a \in Agents, CycleStep(a) \/ EndSession(a) PROVE TypeOK'
  <2>1. CASE WorkerReady(a)
    BY <2>1 DEF WorkerReady, Router!Register, txVars, dbVars
  <2>2. CASE WorkerWake(a)
    BY <2>2 DEF WorkerWake, Router!Take, txVars, dbVars
  <2>3. CASE BeginSession(a)
    BY <2>3 DEF BeginSession, txVars, dbVars
  <2>4. CASE Bootstrap(a)
    BY <2>4 DEF Bootstrap, Unread, dbVars
  <2>5. CASE EndSession(a)
    BY <2>5 DEF EndSession, txVars, dbVars
  <2>6. CASE Commit(a)
    BY <2>6 DEF Commit, CloseTx, Settled
  <2>9. CASE Claim(a)
    BY <2>9 DEF Claim, dbVars
  <2>10. CASE ToolFlush(a)
    <3>1. wants[a] \in Agents \cup {NoAgent}
      OBVIOUS
    <3> QED
      BY <2>10, <3>1 DEF ToolFlush, dbVars
  <2>7. CASE Rollback(a)
    BY <2>7 DEF Rollback, CloseTx, Discard
  <2>8. CASE Respawn(a)
    BY <2>8 DEF Respawn, txVars, dbVars
  <2> QED
    BY <1>9, <2>1, <2>2, <2>3, <2>4, <2>5, <2>6, <2>7, <2>8, <2>9, <2>10
    DEF CycleStep
<1>10. ASSUME NEW a \in Agents, ApiWake(a) PROVE TypeOK'
  BY <1>10, NotifyEffect DEF ApiWake, txVars, dbVars
<1>11. ASSUME NEW a \in Agents, MidLoopRead(a) PROVE TypeOK'
  BY <1>11 DEF MidLoopRead, Unread, procVars, dbVars
<1>12. ASSUME NEW a \in Agents, CommitFail(a) PROVE TypeOK'
  BY <1>12 DEF CommitFail, CloseTx, Discard
<1>13. ASSUME NEW a \in Agents, SessionError(a) PROVE TypeOK'
  BY <1>13 DEF SessionError, txVars, dbVars
<1>14. ASSUME NEW a \in Agents, WorkerCrash(a) PROVE TypeOK'
  BY <1>14 DEF WorkerCrash, CloseTx, Discard, Router!Unregister
<1>15. ASSUME NEW a \in Agents, Interrupt(a) PROVE TypeOK'
  BY <1>15 DEF Interrupt, txVars, dbVars
<1>16. ASSUME NEW a \in Agents, FixStuckAgent(a) PROVE TypeOK'
  BY <1>16 DEF FixStuckAgent, procVars, txVars
<1>17. ASSUME NEW a \in Agents, NEW b \in Agents, NEW m \in Messages, ToolSend(a, m, b)
       PROVE TypeOK'
  BY <1>17, NotifyEffect DEF ToolSend
<1>20. ASSUME NEW m \in Messages, AssignFlush(m) PROVE TypeOK'
  BY <1>20 DEF AssignFlush, procVars, dbVars
<1>21. ASSUME NEW a \in Agents, ToolUpdateMemory(a) PROVE TypeOK'
  BY <1>21 DEF ToolUpdateMemory, dbVars
<1>22. ASSUME NEW a \in Agents, NEW b \in Agents, NEW m \in Messages,
              ToolAbortTask(a, m, b)
       PROVE TypeOK'
  BY <1>22 DEF ToolAbortTask
<1>23. ASSUME NEW a \in Agents, NEW b \in Agents, NEW m \in Messages,
              ToolAssign(a, m, b)
       PROVE TypeOK'
  BY <1>23, NotifyEffect DEF ToolAssign
<1>18. CASE Crash
  BY <1>18 DEF Crash
<1>19. CASE UNCHANGED vars
  BY <1>19 DEF vars, procVars, txVars, dbVars
<1> QED
  BY <1>1, <1>2, <1>3, <1>4, <1>5, <1>6, <1>7, <1>8, <1>9, <1>10, <1>11, <1>12,
     <1>13, <1>14, <1>15, <1>16, <1>17, <1>18, <1>19, <1>20, <1>21, <1>22, <1>23
  DEF Next

(***************************************************************************)
(* The inductive invariant.                                                *)
(***************************************************************************)
\* No transaction is open and no row is locked at first.
LEMMA IndInit == Init => IndInv
  BY TypeInit, DeliveryAssumption DEF Init, IndInv, WorkersRegistered, TransactionsIsolated,
     RowsAddressed, LocksOwned, DownIsDown, Undisturbed, UnreadUntilCommit

\* A step that only notifies, on behalf of an API send or of nobody, touches
\* nothing the invariant speaks of.
LEMMA NotifyOnlyStep ==
  ASSUME IndInv, TypeOK', posted' \subseteq posted, queueOf' = queueOf,
         UNCHANGED <<phase, pc, interrupt, assigning, activating, txVars, dbVars,
                     viaApi, faults>>
  PROVE  IndInv'
<1> USE DEF IndInv, txVars, dbVars
<1>1. WorkersRegistered' /\ DownIsDown' /\ Undisturbed'
  BY DEF WorkersRegistered, DownIsDown, Undisturbed
<1>2. TransactionsIsolated' /\ UnreadUntilCommit'
  BY DEF TransactionsIsolated, UnreadUntilCommit
<1>3. RowsAddressed'
  BY DEF RowsAddressed
<1>4. LocksOwned'
  BY DEF LocksOwned
<1> QED
  BY <1>1, <1>2, <1>3, <1>4

\* One step per action of Next, the larger ones split by conjunct.
LEMMA IndStep == IndInv /\ [Next]_vars => IndInv'
<1> SUFFICES ASSUME IndInv, [Next]_vars PROVE IndInv'
  OBVIOUS
<1> DEFINE Parts ==
      /\ WorkersRegistered /\ TransactionsIsolated /\ RowsAddressed
      /\ LocksOwned /\ DownIsDown /\ Undisturbed /\ UnreadUntilCommit
<1>1. TypeOK /\ TypeOK' /\ Parts
  BY TypeStep DEF IndInv
<1>35. ASSUME posted' \subseteq posted, queueOf' = queueOf,
              UNCHANGED <<phase, pc, interrupt, assigning, activating, txVars,
                          dbVars, viaApi, faults>>
       PROVE  Parts'
  BY <1>1, <1>35, NotifyOnlyStep DEF IndInv
<1> USE DeliveryAssumption DEF TypeOK, Places, WorkersRegistered,
      TransactionsIsolated, RowsAddressed, LocksOwned, DownIsDown, Undisturbed,
      UnreadUntilCommit, MayWrite, Write, Released
<1>2. ASSUME Start PROVE Parts'
  <2>1. WorkersRegistered' /\ DownIsDown' /\ Undisturbed'
    BY <1>1, <1>2 DEF Start
  <2>2. TransactionsIsolated' /\ UnreadUntilCommit'
    BY <1>1, <1>2 DEF Start, txVars, dbVars
  <2>3. RowsAddressed' /\ LocksOwned'
    BY <1>1, <1>2 DEF Start, txVars, dbVars
  <2> QED
    BY <2>1, <2>2, <2>3
<1>3. ASSUME StartReplay PROVE Parts'
  BY <1>1, <1>3 DEF StartReplay, txVars, dbVars
<1>4. ASSUME NEW m \in Messages, NEW a \in Agents, ApiSend(m, a) PROVE Parts'
  <2>1. WorkersRegistered' /\ DownIsDown' /\ Undisturbed'
    BY <1>1, <1>4 DEF ApiSend
  <2>2. TransactionsIsolated' /\ UnreadUntilCommit'
    BY <1>1, <1>4 DEF ApiSend, txVars, Fresh
  <2>3. RowsAddressed'
    BY <1>1, <1>4 DEF ApiSend, Fresh
  <2>4. LocksOwned'
    BY <1>1, <1>4 DEF ApiSend, txVars, Fresh
  <2> QED
    BY <2>1, <2>2, <2>3, <2>4
<1>5. ASSUME NEW m \in Messages, NEW a \in Agents, AssignWake(m, a) PROVE Parts'
  <2>1. queueOf' = queueOf
    BY <1>1, <1>5, NotifyEffect DEF AssignWake
  <2>2. WorkersRegistered' /\ DownIsDown' /\ Undisturbed'
    BY <1>1, <1>5, <2>1 DEF AssignWake, txVars, Fresh
  <2>3. TransactionsIsolated' /\ RowsAddressed' /\ UnreadUntilCommit'
    BY <1>1, <1>5 DEF AssignWake, txVars, Fresh
  <2>4. LocksOwned'
    BY <1>1, <1>5 DEF AssignWake, txVars, Fresh
  <2> QED
    BY <2>2, <2>3, <2>4
<1>6. ASSUME NEW m \in Messages, ApiNotify(m) PROVE Parts'
  <2>1. queueOf' = queueOf /\ posted' \subseteq posted
    BY <1>1, <1>6, NotifyEffect DEF ApiNotify
  <2> QED
    BY <1>35, <1>6, <2>1 DEF ApiNotify
<1>7. ASSUME NEW m \in Messages, AssignCommit(m) PROVE Parts'
  BY <1>1, <1>7 DEF AssignCommit, txVars
<1>8. ASSUME NEW m \in Messages, AssignAbort(m) PROVE Parts'
  BY <1>1, <1>8 DEF AssignAbort, txVars
<1>9. ASSUME NEW m \in Messages, RetryStuck(m) PROVE Parts'
  <2>1. queueOf' = queueOf
    BY <1>1, <1>9, NotifyEffect DEF RetryStuck
  <2> QED
    BY <1>35, <1>9, <2>1 DEF RetryStuck
<1>10. ASSUME NEW a \in Agents, WorkerReady(a) PROVE Parts'
  BY <1>1, <1>10 DEF WorkerReady, Router!Register, txVars, dbVars
<1>11. ASSUME NEW a \in Agents, WorkerWake(a) PROVE Parts'
  BY <1>1, <1>11 DEF WorkerWake, Router!Take, txVars, dbVars
<1>12. ASSUME NEW a \in Agents, BeginSession(a) PROVE Parts'
  BY <1>1, <1>12 DEF BeginSession, txVars, dbVars
<1>13. ASSUME NEW a \in Agents, Bootstrap(a) PROVE Parts'
  <2>1. PICK R \in SUBSET Unread(a), p \in {"loop", "ending"} :
          /\ recv' = [recv EXCEPT ![a] = @ \cup R]
          /\ pc' = [pc EXCEPT ![a] = p]
    BY <1>13 DEF Bootstrap
  <2>2. pc[a] = "boot" /\ UNCHANGED <<phase, queueOf, assigning, viaApi, faults>>
    BY <1>13 DEF Bootstrap
  <2>3. WorkersRegistered' /\ DownIsDown' /\ Undisturbed'
    BY <1>1, <2>1, <2>2
  <2>4. TransactionsIsolated'
    BY <1>1, <1>13, <2>1 DEF Bootstrap, dbVars
  <2>5. UnreadUntilCommit'
    BY <1>1, <1>13, <2>1 DEF Bootstrap, Unread, dbVars
  <2>6. RowsAddressed' /\ LocksOwned'
    BY <1>1, <1>13, <2>1 DEF Bootstrap, dbVars
  <2> QED
    BY <2>3, <2>4, <2>5, <2>6
<1>14. ASSUME NEW a \in Agents, EndSession(a) PROVE Parts'
  BY <1>1, <1>14 DEF EndSession, txVars, dbVars
<1>15. ASSUME NEW a \in Agents, Commit(a) PROVE Parts'
  BY <1>1, <1>15 DEF Commit, CloseTx
<1>16. ASSUME NEW a \in Agents, Rollback(a) PROVE Parts'
  <2>1. WorkersRegistered' /\ DownIsDown' /\ Undisturbed'
    BY <1>1, <1>16 DEF Rollback
  <2>2. TransactionsIsolated' /\ UnreadUntilCommit'
    BY <1>1, <1>16 DEF Rollback, CloseTx, Discard
  <2>3. RowsAddressed'
    BY <1>1, <1>16 DEF Rollback, Discard
  <2>4. LocksOwned'
    BY <1>1, <1>16 DEF Rollback, CloseTx, Discard
  <2> QED
    BY <2>1, <2>2, <2>3, <2>4
<1>17. ASSUME NEW a \in Agents, Respawn(a) PROVE Parts'
  BY <1>1, <1>17 DEF Respawn, txVars, dbVars
<1>18. ASSUME NEW a \in Agents, ApiWake(a) PROVE Parts'
  <2>1. queueOf' = queueOf
    BY <1>1, <1>18, NotifyEffect DEF ApiWake
  <2> QED
    BY <1>35, <1>18, <2>1 DEF ApiWake
<1>19. ASSUME NEW a \in Agents, MidLoopRead(a) PROVE Parts'
  BY <1>1, <1>19 DEF MidLoopRead, Unread, procVars, dbVars
<1>20. ASSUME NEW a \in Agents, CommitFail(a) PROVE Parts'
  BY <1>1, <1>20 DEF CommitFail, CloseTx, Discard
<1>21. ASSUME NEW a \in Agents, SessionError(a) PROVE Parts'
  BY <1>1, <1>21 DEF SessionError, txVars, dbVars
<1>22. ASSUME NEW a \in Agents, WorkerCrash(a) PROVE Parts'
  BY <1>1, <1>22 DEF WorkerCrash, CloseTx, Discard, Router!Unregister
<1>23. ASSUME NEW a \in Agents, Interrupt(a) PROVE Parts'
  BY <1>1, <1>23 DEF Interrupt, txVars, dbVars
<1>24. ASSUME NEW a \in Agents, FixStuckAgent(a) PROVE Parts'
  BY <1>1, <1>24 DEF FixStuckAgent, procVars, txVars
<1>25. ASSUME NEW a \in Agents, NEW b \in Agents, NEW m \in Messages, ToolSend(a, m, b) PROVE Parts'
  <2>1. queueOf' = queueOf
    BY <1>1, <1>25, NotifyEffect DEF ToolSend
  <2>2. WorkersRegistered' /\ DownIsDown' /\ Undisturbed'
    BY <1>1, <1>25, <2>1 DEF ToolSend, Fresh
  <2>3. TransactionsIsolated' /\ RowsAddressed' /\ UnreadUntilCommit'
    BY <1>1, <1>25 DEF ToolSend, Fresh
  <2>4. LocksOwned'
    BY <1>1, <1>25 DEF ToolSend, Fresh
  <2> QED
    BY <2>2, <2>3, <2>4
<1>29. ASSUME NEW m \in Messages, AssignFlush(m) PROVE Parts'
  BY <1>1, <1>29 DEF AssignFlush, procVars, dbVars
<1>30. ASSUME NEW a \in Agents, Claim(a) PROVE Parts'
  BY <1>1, <1>30 DEF Claim, dbVars
<1>31. ASSUME NEW a \in Agents, ToolFlush(a) PROVE Parts'
  BY <1>1, <1>31 DEF ToolFlush, dbVars
<1>32. ASSUME NEW a \in Agents, ToolUpdateMemory(a) PROVE Parts'
  BY <1>1, <1>32 DEF ToolUpdateMemory, dbVars
<1>33. ASSUME NEW a \in Agents, NEW b \in Agents, NEW m \in Messages,
              ToolAbortTask(a, m, b)
       PROVE Parts'
  BY <1>1, <1>33 DEF ToolAbortTask, Fresh
<1>34. ASSUME NEW a \in Agents, NEW b \in Agents, NEW m \in Messages,
              ToolAssign(a, m, b)
       PROVE Parts'
  <2>1. queueOf' = queueOf
    BY <1>1, <1>34, NotifyEffect DEF ToolAssign
  <2>2. WorkersRegistered' /\ DownIsDown' /\ Undisturbed'
    BY <1>1, <1>34, <2>1 DEF ToolAssign, Fresh
  <2>3. TransactionsIsolated' /\ RowsAddressed' /\ UnreadUntilCommit'
    BY <1>1, <1>34 DEF ToolAssign, Fresh
  <2>4. LocksOwned'
    BY <1>1, <1>34 DEF ToolAssign, Fresh
  <2> QED
    BY <2>2, <2>3, <2>4
<1>26. ASSUME Crash PROVE Parts'
  BY <1>1, <1>26 DEF Crash
<1>27. ASSUME UNCHANGED vars PROVE Parts'
  BY <1>1, <1>27 DEF vars, procVars, txVars, dbVars
<1>28. Parts'
  BY <1>2, <1>3, <1>4, <1>5, <1>6, <1>7, <1>8, <1>9, <1>10, <1>11, <1>12,
     <1>13, <1>14, <1>15, <1>16, <1>17, <1>18, <1>19, <1>20, <1>21, <1>22,
     <1>23, <1>24, <1>25, <1>26, <1>27, <1>29, <1>30, <1>31, <1>32, <1>33, <1>34
  DEF Next, CycleStep
<1> QED
  BY <1>1, <1>28 DEF IndInv

\* IndInv is an invariant; the safety invariants among its conjuncts follow.
THEOREM Invariance == Spec => []IndInv
<1>1. Init => IndInv
  BY IndInit
<1>2. IndInv /\ [Next]_vars => IndInv'
  BY IndStep
<1> QED
  BY <1>1, <1>2, PTL DEF Spec

\* Every variable stays in its type.
THEOREM TypeCorrect == Spec => []TypeOK
<1>1. IndInv => TypeOK
  BY DEF IndInv
<1> QED
  BY <1>1, Invariance, PTL

\* However many sessions run at once, what one has marked as read is addressed
\* to its agent and not yet consumed by anybody.
THEOREM UnreadSafe == Spec => []UnreadUntilCommit
<1>1. IndInv => UnreadUntilCommit
  BY DEF IndInv
<1> QED
  BY <1>1, Invariance, PTL

\* Sessions keep the rows they have written and wait for others: with one
\* manager, whoever blocks the blocker of a cycle waits for no cycle itself.
THEOREM LockChainsSafe == Spec => []LockChainsEnd
<1>1. IndInv => LockChainsEnd
  <2> SUFFICES ASSUME IndInv, NEW M \in Agents, Managers \subseteq {M},
                      NEW a \in Agents, Blocker(a) \in Agents,
                      Blocker(Blocker(a)) \in Agents
               PROVE  Blocker(Blocker(Blocker(a))) \notin Agents
    BY DEF LockChainsEnd
  <2> DEFINE Wanted(x) == IF pc[x] = "locking" THEN wants[x] ELSE x
  \* Who blocks x has written the row x wants, and is not x.
  <2>1. ASSUME NEW x \in Agents, Blocker(x) \in Agents
        PROVE  /\ Wanted(x) \in Agents
               /\ Blocker(x) = holder[Wanted(x)]
               /\ Blocker(x) # x
               /\ pc[x] \in {"claiming", "ending", "aborting", "locking"}
    BY <2>1, DeliveryAssumption DEF Blocker, MayWrite, IndInv, TypeOK, LocksOwned
  \* So it is the manager, or x is and wants the row of the blocker.
  <2>2. ASSUME NEW x \in Agents, Blocker(x) \in Agents
        PROVE  Blocker(x) = M \/ (x = M /\ Wanted(x) = Blocker(x))
    BY <2>1, <2>2 DEF IndInv, LocksOwned, TypeOK
  <2> HIDE DEF Wanted
  \* The manager's blocker holds its own row, so the manager is not blocking it.
  <2>3. Blocker(M) \in Agents => Blocker(Blocker(M)) \notin Agents
    <3> SUFFICES ASSUME Blocker(M) \in Agents, Blocker(Blocker(M)) \in Agents
                 PROVE  FALSE
      OBVIOUS
    <3> DEFINE b == Blocker(M)
    <3>1. b # M /\ holder[b] = b
      BY <2>1, <2>2
    <3>2. Blocker(b) = M
      BY <2>2, <3>1
    <3>3. holder[Wanted(b)] = M /\ Wanted(b) = b
      BY <2>1, <3>1, <3>2 DEF Wanted, IndInv, LocksOwned
    <3> QED
      BY <3>1, <3>3
  <2> QED
    BY <2>2, <2>3
<1> QED
  BY <1>1, Invariance, PTL

(***************************************************************************)
(* A failed turn leaves nothing behind.                                    *)
(***************************************************************************)
AbortLeavesNothing(a) ==
  pc[a] = "aborting" /\ pc'[a] # "aborting" =>
    /\ \A m \in recv[a] \ out[a] : status'[m] = "sent"
    /\ \A m \in out[a] : status'[m] = "unused"

\* Only Rollback, WorkerCrash and Crash end an aborted turn.
LEMMA AbortStep ==
  ASSUME IndInv, [Next]_vars, NEW a \in Agents
  PROVE  AbortLeavesNothing(a)
<1> SUFFICES ASSUME pc[a] = "aborting", pc'[a] # "aborting", status' = status
             PROVE  AbortLeavesNothing(a)
  <2> SUFFICES ASSUME pc[a] = "aborting", pc'[a] # "aborting" PROVE status' = status
    BY DEF AbortLeavesNothing
  <2>1. CASE Start
    BY <2>1 DEF Start, dbVars
  <2>2. CASE StartReplay \/ \E m \in Messages : ApiNotify(m) \/ RetryStuck(m)
    BY <2>2 DEF StartReplay, ApiNotify, RetryStuck, dbVars
  <2>3. CASE \E m \in Messages, b \in Agents : ApiSend(m, b) \/ AssignWake(m, b)
    BY <2>3 DEF ApiSend, AssignWake
  <2>4. CASE \E m \in Messages : AssignFlush(m) \/ AssignCommit(m) \/ AssignAbort(m)
    BY <2>4 DEF AssignFlush, AssignCommit, AssignAbort, dbVars
  <2>5. ASSUME NEW b \in Agents, CycleStep(b) \/ EndSession(b) PROVE status' = status
    <3>1. CASE Commit(b)
      BY <2>5, <3>1 DEF Commit, IndInv, TypeOK
    <3>2. CASE ~Commit(b)
      BY <2>5, <3>2 DEF CycleStep, WorkerReady, WorkerWake, BeginSession, Claim,
         Bootstrap, ToolFlush, EndSession, Rollback, Respawn, dbVars
    <3> QED
      BY <3>1, <3>2
  <2>6. CASE \E b \in Agents : \/ ApiWake(b) \/ MidLoopRead(b) \/ CommitFail(b)
                               \/ SessionError(b) \/ WorkerCrash(b) \/ Interrupt(b)
                               \/ FixStuckAgent(b) \/ ToolUpdateMemory(b)
    BY <2>6 DEF ToolUpdateMemory, ApiWake, MidLoopRead, CommitFail, SessionError, WorkerCrash, Interrupt,
       FixStuckAgent, dbVars
  <2>7. CASE \/ \E b, c \in Agents, m \in Messages :
                  ToolSend(b, m, c) \/ ToolAbortTask(b, m, c) \/ ToolAssign(b, m, c)
             \/ Crash
    BY <2>7 DEF ToolSend, ToolAbortTask, ToolAssign, Crash
  <2>8. CASE UNCHANGED vars
    BY <2>8 DEF vars, dbVars
  <2> QED
    BY <2>1, <2>2, <2>3, <2>4, <2>5, <2>6, <2>7, <2>8 DEF Next
<1> QED
  BY DEF AbortLeavesNothing, IndInv, TypeOK, UnreadUntilCommit, TransactionsIsolated

\* Whatever ends an aborted turn, the cleanup, its failure or the end of the
\* process: the messages it read are unread again, those it wrote are gone.
THEOREM AbortSafe == Spec => AbortedTurnLeavesNothing
<1>1. IndInv /\ [Next]_vars => [\A a \in Agents : AbortLeavesNothing(a)]_vars
  BY AbortStep
<1> QED
  BY <1>1, Invariance, PTL DEF Spec, AbortedTurnLeavesNothing, AbortLeavesNothing

(***************************************************************************)
(* No message is stranded.                                                 *)
(***************************************************************************)

\* A read is never cut by get_unread_for_agent's limit.
NoBacklog == \A S \in SUBSET Messages : Cardinality(S) <= ReadLimit

\* Every step leaves the wake-up of a committed API message on its way.
LEMMA StrandedStep ==
  ASSUME NoBacklog, IndInv, NoStranded, [Next]_vars
  PROVE  NoStranded'
<1> SUFFICES ASSUME NEW m \in viaApi', faults' = 0, status'[m] = "sent",
                    phase' = "up", m \notin posted', tokens'[addr'[m]] = 0,
                    pc'[addr'[m]] \notin {"loading", "claiming", "boot"},
                    m \notin recv'[addr'[m]]
             PROVE  FALSE
  <2>1. IndInv'
    BY IndStep
  <2>2. \A m \in viaApi' : addr'[m] \in Agents
    BY <2>1 DEF IndInv, TypeOK, RowsAddressed
  <2> QED
    BY <2>1, <2>2 DEF NoStranded, WakePending, IndInv, TypeOK
<1> DEFINE b == addr[m]
\* The message was there before and its wake-up pending.
<1>1. ASSUME m \in viaApi, status[m] = "sent", faults = 0, phase = "up"
      PROVE  /\ b \in Agents
             /\ queueOf[b] = b
             /\ pc[b] \notin {"dead", "spawned", "aborting"}
             /\ \/ m \in posted
                \/ tokens[b] > 0
                \/ pc[b] \in {"loading", "claiming", "boot"}
                \/ m \in recv[b]
  BY <1>1 DEF NoStranded, WakePending, IndInv, RowsAddressed, Undisturbed,
     WorkersRegistered, TypeOK
<1> USE DEF IndInv, TypeOK
<1>2. ASSUME Start PROVE FALSE
  BY <1>2 DEF Start
<1>3. ASSUME StartReplay PROVE FALSE
  BY <1>3 DEF StartReplay, Undisturbed
<1>4. ASSUME NEW n \in Messages, NEW a \in Agents, ApiSend(n, a) PROVE FALSE
  BY <1>1, <1>4 DEF ApiSend, Fresh, txVars
<1>5. ASSUME NEW n \in Messages, NEW a \in Agents, AssignWake(n, a) PROVE FALSE
  BY <1>1, <1>5, NotifyEffect DEF AssignWake, Fresh, txVars
<1>6. ASSUME NEW n \in Messages, ApiNotify(n) PROVE FALSE
  BY <1>1, <1>6, NotifyEffect DEF ApiNotify, txVars, dbVars
<1>7. ASSUME NEW n \in Messages, AssignCommit(n) PROVE FALSE
  BY <1>1, <1>7 DEF AssignCommit, RowsAddressed, txVars
<1>8. ASSUME NEW n \in Messages, AssignAbort(n) PROVE FALSE
  BY <1>1, <1>8 DEF AssignAbort, RowsAddressed, txVars
<1>9. ASSUME NEW n \in Messages, RetryStuck(n) PROVE FALSE
  BY <1>1, <1>9, NotifyEffect DEF RetryStuck, txVars, dbVars
<1>10. ASSUME NEW a \in Agents, WorkerReady(a) PROVE FALSE
  BY <1>1, <1>10 DEF WorkerReady, txVars, dbVars
<1>11. ASSUME NEW a \in Agents, WorkerWake(a) PROVE FALSE
  BY <1>1, <1>11 DEF WorkerWake, Router!Take, txVars, dbVars
<1>12. ASSUME NEW a \in Agents, BeginSession(a) PROVE FALSE
  BY <1>1, <1>12 DEF BeginSession, txVars, dbVars
\* The bootstrap reads everything there is.
<1>13. ASSUME NEW a \in Agents, Bootstrap(a) PROVE FALSE
  <2>1. Unread(a) \in SUBSET Messages
    BY DEF Unread
  <2>2. recv' = [recv EXCEPT ![a] = @ \cup Unread(a)]
    BY <1>13, <2>1 DEF Bootstrap, IsBatch, NoBacklog
  <2> QED
    BY <1>1, <1>13, <2>2 DEF Bootstrap, Unread, dbVars
<1>14. ASSUME NEW a \in Agents, EndSession(a) PROVE FALSE
  BY <1>1, <1>14 DEF EndSession, txVars, dbVars
\* A commit consumes what the session has read; nothing via the API is in out.
<1>15. ASSUME NEW a \in Agents, Commit(a) PROVE FALSE
  BY <1>1, <1>15 DEF Commit, CloseTx, TransactionsIsolated, RowsAddressed
<1>16. ASSUME NEW a \in Agents, Rollback(a) PROVE FALSE
  BY <1>1, <1>16 DEF Rollback, Undisturbed
<1>17. ASSUME NEW a \in Agents, Respawn(a) PROVE FALSE
  BY <1>1, <1>17 DEF Respawn, txVars, dbVars
<1>18. ASSUME NEW a \in Agents, ApiWake(a) PROVE FALSE
  BY <1>1, <1>18, NotifyEffect DEF ApiWake, txVars, dbVars
<1>19. ASSUME NEW a \in Agents, MidLoopRead(a) PROVE FALSE
  BY <1>1, <1>19 DEF MidLoopRead, procVars, dbVars
<1>20. ASSUME NEW a \in Agents, NEW c \in Agents, NEW n \in Messages, ToolSend(a, n, c)
       PROVE FALSE
  BY <1>1, <1>20, NotifyEffect DEF ToolSend, Fresh
<1>21. ASSUME NEW a \in Agents, FixStuckAgent(a) PROVE FALSE
  BY <1>1, <1>21 DEF FixStuckAgent, procVars, txVars
\* Every fault counts.
<1>22. ASSUME NEW a \in Agents,
              CommitFail(a) \/ SessionError(a) \/ WorkerCrash(a) \/ Interrupt(a)
       PROVE FALSE
  BY <1>22 DEF CommitFail, SessionError, WorkerCrash, Interrupt
<1>23. ASSUME UNCHANGED vars PROVE FALSE
  BY <1>1, <1>23 DEF vars, procVars, txVars, dbVars
<1>24. ASSUME Crash PROVE FALSE
  BY <1>24 DEF Crash
<1>25. ASSUME NEW n \in Messages, AssignFlush(n) PROVE FALSE
  BY <1>1, <1>25 DEF AssignFlush, procVars, dbVars
<1>26. ASSUME NEW a \in Agents, Claim(a) PROVE FALSE
  BY <1>1, <1>26 DEF Claim, dbVars
<1>27. ASSUME NEW a \in Agents, ToolFlush(a) \/ ToolUpdateMemory(a) PROVE FALSE
  BY <1>1, <1>27 DEF ToolFlush, ToolUpdateMemory, dbVars
<1>28. ASSUME NEW a \in Agents, NEW c \in Agents, NEW n \in Messages,
              ToolAbortTask(a, n, c)
       PROVE FALSE
  BY <1>1, <1>28 DEF ToolAbortTask, Fresh
<1>29. ASSUME NEW a \in Agents, NEW c \in Agents, NEW n \in Messages,
              ToolAssign(a, n, c)
       PROVE FALSE
  BY <1>1, <1>29, NotifyEffect DEF ToolAssign, Fresh
<1> QED
  BY <1>2, <1>3, <1>4, <1>5, <1>6, <1>7, <1>8, <1>9, <1>10, <1>11, <1>12, <1>13,
     <1>14, <1>15, <1>16, <1>17, <1>18, <1>19, <1>20, <1>21, <1>22, <1>23, <1>24,
     <1>25, <1>26, <1>27, <1>28, <1>29
  DEF Next, CycleStep

\* Without faults, and unless an agent's backlog exceeds the read limit, an API
\* message never depends on the reconciler: there is no interleaving of sends,
\* assignments, tool sends and wake cycles in which its wake-up is used up
\* before the message can be seen.
THEOREM StrandedSafe ==
  ASSUME NoBacklog
  PROVE  Spec => []NoStranded
<1>1. Init => NoStranded
  BY DEF Init, NoStranded
<1>2. IndInv /\ NoStranded /\ [Next]_vars => NoStranded'
  BY StrandedStep
<1> QED
  BY <1>1, <1>2, Invariance, PTL DEF Spec

(***************************************************************************)
(* The committed rows implement Mailbox.                                   *)
(***************************************************************************)

\* The abstract addr: the address of a row is seen when the row is.
Shown == [m \in Messages |-> IF status[m] = "unused" THEN NoAgent ELSE addr[m]]

\* An empty channel_messages table is an empty mailbox.
LEMMA BoxInit == Init => Box!Init
  BY DEF Init, Box!Init

\* Everything but sends from outside and the commit of a turn is a stutter.
LEMMA BoxStutter ==
  ASSUME IndInv, status' = status,
         \A m \in Messages : status[m] # "unused" => addr'[m] = addr[m]
  PROVE  UNCHANGED <<status, Shown>>
  BY DEF Shown

\* An insert becomes visible on its own: Post.
LEMMA BoxPost ==
  ASSUME IndInv, NEW m \in Messages, status[m] = "unused",
         status' = [status EXCEPT ![m] = "sent"],
         NEW a \in Agents, addr' = [addr EXCEPT ![m] = a]
  PROVE  Box!Next
<1>1. Box!Post(m, a)
  BY DEF Box!Post, IndInv, TypeOK
<1> QED
  BY <1>1 DEF Box!Next

\* A commit is the turn of its agent.
LEMMA BoxTurn ==
  ASSUME IndInv, NEW a \in Agents, Commit(a)
  PROVE  Box!Next
<1> DEFINE f == [m \in out[a] |-> addr[m]]
<1>1. recv[a] \in SUBSET Messages /\ out[a] \in SUBSET Messages
  BY DEF IndInv, TypeOK
<1>2. f \in [out[a] -> Agents]
  BY DEF IndInv, TransactionsIsolated
<1>3. Box!Turn(a, recv[a], out[a], f)
  <2>1. \A m \in out[a] : status[m] = "unused"
    BY DEF IndInv, TransactionsIsolated
  <2>2. \A m \in recv[a] : /\ addr[m] = a
                           /\ m \notin out[a] => status[m] = "sent"
    BY DEF IndInv, UnreadUntilCommit
  <2>3. /\ addr' = addr
        /\ status' = [m \in Messages |-> IF m \in recv[a] THEN "received"
                                         ELSE IF m \in out[a] THEN "sent" ELSE status[m]]
    BY DEF Commit
  <2>4. Shown' = [m \in Messages |-> IF m \in out[a] THEN f[m] ELSE Shown[m]]
    BY <1>1, <2>1, <2>2, <2>3 DEF Shown
  <2> QED
    BY <1>1, <2>1, <2>2, <2>3, <2>4 DEF Box!Turn, Shown
<1> HIDE DEF f
<1>4. \E g \in [out[a] -> Agents] : Box!Turn(a, recv[a], out[a], g)
  BY <1>2, <1>3 DEF Box!Turn
<1>5. \E S \in SUBSET Messages : \E g \in [S -> Agents] : Box!Turn(a, recv[a], S, g)
  BY <1>1, <1>4, Zenon DEF Box!Turn
<1>6. \E R, S \in SUBSET Messages : \E g \in [S -> Agents] : Box!Turn(a, R, S, g)
  BY <1>1, <1>5, Zenon DEF Box!Turn
<1> QED
  BY <1>6, Zenon DEF Box!Next, Box!Turn

\* The actions sorted by what the committed rows show of them.
LEMMA BoxStep == IndInv /\ [Next]_vars => [Box!Next]_<<status, Shown>>
<1> SUFFICES ASSUME IndInv, [Next]_vars
             PROVE  Box!Next \/ UNCHANGED <<status, Shown>>
  OBVIOUS
<1>1. CASE Start \/ StartReplay
  BY <1>1, BoxStutter DEF Start, StartReplay, dbVars
<1>2. ASSUME NEW m \in Messages, NEW a \in Agents, ApiSend(m, a) PROVE Box!Next
  BY <1>2, BoxPost DEF ApiSend, Fresh
<1>3. ASSUME NEW m \in Messages, NEW a \in Agents, AssignWake(m, a)
      PROVE UNCHANGED <<status, Shown>>
  BY <1>3, BoxStutter DEF AssignWake, Fresh, IndInv, TypeOK
<1>4. ASSUME NEW m \in Messages, AssignCommit(m) PROVE Box!Next
  <2>1. addr[m] \in Agents /\ addr' = [addr EXCEPT ![m] = addr[m]]
    BY <1>4 DEF AssignCommit, IndInv, RowsAddressed, TypeOK
  <2>2. status[m] = "unused" /\ status' = [status EXCEPT ![m] = "sent"]
    BY <1>4 DEF AssignCommit, IndInv, RowsAddressed
  <2> QED
    BY <2>1, <2>2, BoxPost
<1>5. ASSUME NEW m \in Messages,
             ApiNotify(m) \/ AssignFlush(m) \/ AssignAbort(m) \/ RetryStuck(m)
      PROVE UNCHANGED <<status, Shown>>
  BY <1>5, BoxStutter DEF ApiNotify, AssignFlush, AssignAbort, RetryStuck, IndInv, TypeOK,
     RowsAddressed, dbVars
<1>6. ASSUME NEW a \in Agents, Commit(a) PROVE Box!Next
  BY <1>6, BoxTurn
<1>7. ASSUME NEW a \in Agents, CycleStep(a) \/ EndSession(a), ~Commit(a)
      PROVE UNCHANGED <<status, Shown>>
  <2>1. CASE Rollback(a)
    BY <2>1, BoxStutter DEF Rollback, Discard, IndInv, TransactionsIsolated
  <2>2. CASE ~Rollback(a)
    BY <1>7, <2>2, BoxStutter DEF CycleStep, WorkerReady, WorkerWake, BeginSession,
       Claim, Bootstrap, ToolFlush, EndSession, Respawn, txVars, dbVars
  <2> QED
    BY <2>1, <2>2
<1>8. ASSUME NEW a \in Agents,
             \/ ApiWake(a) \/ MidLoopRead(a) \/ SessionError(a) \/ Interrupt(a)
             \/ FixStuckAgent(a) \/ ToolUpdateMemory(a)
      PROVE UNCHANGED <<status, Shown>>
  BY <1>8, BoxStutter DEF ToolUpdateMemory, ApiWake, MidLoopRead, SessionError, Interrupt,
     FixStuckAgent, dbVars
<1>9. ASSUME NEW a \in Agents, CommitFail(a) \/ WorkerCrash(a)
      PROVE UNCHANGED <<status, Shown>>
  BY <1>9, BoxStutter DEF CommitFail, WorkerCrash, Discard, IndInv,
     TransactionsIsolated
<1>10. ASSUME NEW a \in Agents, NEW b \in Agents, NEW m \in Messages,
              ToolSend(a, m, b) \/ ToolAbortTask(a, m, b) \/ ToolAssign(a, m, b)
       PROVE UNCHANGED <<status, Shown>>
  BY <1>10, BoxStutter DEF ToolSend, ToolAbortTask, ToolAssign, Fresh, IndInv, TypeOK
<1>11. CASE Crash
  BY <1>11, BoxStutter DEF Crash
<1>12. CASE UNCHANGED vars
  BY <1>12, BoxStutter DEF vars, dbVars
<1> QED
  BY <1>1, <1>2, <1>3, <1>4, <1>5, <1>6, <1>7, <1>8, <1>9, <1>10, <1>11, <1>12
  DEF Next

\* Nobody who sees only committed rows can tell the system from one in which
\* agents act in atomic turns.
THEOREM MailboxImplemented == Spec => ImplementsMailbox
<1>1. Init => Box!Init
  BY BoxInit
<1>2. IndInv /\ [Next]_vars => [Box!Next]_<<status, Shown>>
  BY BoxStep
<1> QED
  BY <1>1, <1>2, Invariance, PTL DEF Spec, ImplementsMailbox, Box!Spec, Shown
=============================================================================
