---------------------- MODULE EquipmentTransferProof ----------------------
(***************************************************************************)
(* Proofs about EquipmentTransfer for any calls, equipment, laboratories   *)
(* and requests.  IInv (TransferProperties) is shown inductive, one lemma  *)
(* per conjunct and in it one step per action or group of actions that can *)
(* disturb the conjunct; the safety properties follow from it.             *)
(***************************************************************************)
EXTENDS TransferProperties, TLAPS

USE DEF database, locks, PCs, TxStates, Failures, Unknown, Outcomes, Verdicts

(* Every step keeps the types; the row that COMMIT adds is a record.       *)
LEMMA TypeStep == IInv /\ [Next]_vars => TypeOK'
<1> SUFFICES ASSUME TypeOK, LocksHeld, [Next]_vars PROVE TypeOK'
    BY DEF IInv
<1> USE ConstantsAssumption DEF TypeOK, LocksHeld, Writing
<1>1. ASSUME NEW a \in Attempts, CallerEnds(a) PROVE TypeOK'
    BY <1>1 DEF CallerEnds, EndTx
<1>2. ASSUME NEW a \in Attempts,
             RefuseInput(a) \/ RefuseActive(a) \/ OpenFails(a)
      PROVE  TypeOK'
    BY <1>2 DEF RefuseInput, Return, RefuseActive, OpenFails
<1>3. ASSUME NEW a \in Attempts, Begin(a) PROVE TypeOK'
    BY <1>3 DEF Begin
<1>4. ASSUME NEW a \in Attempts, BeginFails(a) PROVE TypeOK'
    <2>1. CASE Return(a, "DATABASE_ERROR", "open") /\ UNCHANGED tx
        BY <1>4, <2>1 DEF BeginFails, Return
    <2>2. ASSUME NEW s \in {"none", "open"},
                 Return(a, "DATABASE_ERROR", "lost"),
                 tx' = [tx EXCEPT ![a] = s]
          PROVE  TypeOK'
        BY <1>4, <2>2 DEF BeginFails, Return
    <2>. QED
        BY <1>4, <2>1, <2>2 DEF BeginFails
<1>5. ASSUME NEW a \in Attempts, SelectEquipment(a) PROVE TypeOK'
    BY <1>5 DEF SelectEquipment
<1>6. ASSUME NEW a \in Attempts,
             EquipmentMissing(a) \/ RefuseStale(a) \/ RefuseSame(a)
               \/ TargetMissing(a) \/ ClockRefused(a) \/ DuplicateId(a)
               \/ AskForKey(a)
      PROVE  TypeOK'
    BY <1>6 DEF EquipmentMissing, Raise, RefuseStale, RefuseSame,
        TargetMissing, SourceAccepted, ClockRefused, DuplicateId, AskForKey
<1>7. ASSUME NEW a \in Attempts, ShareTarget(a) PROVE TypeOK'
    BY <1>7 DEF ShareTarget, SourceAccepted
<1>8. ASSUME NEW a \in Attempts, UpdateLocation(a) PROVE TypeOK'
    <2>1. req[a].target \in LabIds
        BY <1>8 DEF UpdateLocation
    <2>2. rowLock' \in [Equipment -> Attempts \cup {None}]
        BY <1>8 DEF UpdateLocation
    <2>3. labShare' \in [LabIds -> SUBSET Attempts]
        BY <1>8, <2>1 DEF UpdateLocation
    <2>. QED
        BY <1>8, <2>2, <2>3 DEF UpdateLocation
<1>9. ASSUME NEW a \in Attempts, ReadClock(a) PROVE TypeOK'
    BY <1>9 DEF ReadClock
<1>10. ASSUME NEW a \in Attempts, InsertHistory(a) PROVE TypeOK'
    BY <1>10 DEF InsertHistory
<1>11. ASSUME NEW a \in Attempts, StatementFails(a) PROVE TypeOK'
    <2>1. /\ pc' \in [Attempts -> PCs] /\ outcome' \in [Attempts -> Outcomes]
          /\ conn' \in [Attempts -> {"open", "lost", "closed"}]
        BY <1>11 DEF StatementFails, Raise, EndTx
    <2>2. CASE UNCHANGED <<tx, rowLock, labShare, keyShare>>
        BY <1>11, <2>1, <2>2 DEF StatementFails
    <2>3. CASE EndTx(a, "aborted")
        BY <1>11, <2>1, <2>3 DEF StatementFails, EndTx
    <2>. QED
        BY <1>11, <2>2, <2>3 DEF StatementFails
<1>12. ASSUME NEW a \in Attempts, RollbackReturns(a) PROVE TypeOK'
    BY <1>12 DEF RollbackReturns, Return, EndTx
<1>13. ASSUME NEW a \in Attempts,
             RollbackRaises(a) \/ CommitReturns(a) \/ CommitRaises(a)
      PROVE  TypeOK'
    BY <1>13 DEF RollbackRaises, Return, CommitReturns, CommitRaises
<1>14. ASSUME NEW a \in Attempts, SendCommit(a) PROVE TypeOK'
    BY <1>14 DEF SendCommit
<1>15. ASSUME NEW a \in Attempts, ServerCommit(a) PROVE TypeOK'
    <2>1. /\ req[a].equipment \in Equipment
          /\ ValidInput(req[a])
          /\ req[a] \in RequestType
        BY <1>15 DEF ServerCommit, LocksHeld, Writing
    <2>2. Row(a) \in Records
        BY <2>1 DEF Row, Records, RequestType, ValidInput
    <2>3. location' \in [Equipment -> LabIds]
        BY <1>15, <2>1 DEF ServerCommit, RequestType, ValidInput
    <2>. QED
        BY <1>15, <2>2, <2>3 DEF ServerCommit, EndTx
<1>16. ASSUME NEW a \in Attempts, ServerAbort(a) PROVE TypeOK'
    BY <1>16 DEF ServerAbort, EndTx
<1>17. ASSUME NEW a \in Attempts, ClientCrash(a) PROVE TypeOK'
    BY <1>17 DEF ClientCrash
<1>18. ASSUME NEW a \in Attempts, Reconcile(a) PROVE TypeOK'
    BY <1>18 DEF Reconcile
<1>19. ASSUME NEW a \in Attempts, NEW e \in Equipment, CallerBegins(a, e)
      PROVE  TypeOK'
    BY <1>19 DEF CallerBegins
<1>20. ASSUME NEW l \in LabIds, DropLab(l) \/ AddLab(l)
      PROVE  TypeOK'
    BY <1>20 DEF DropLab, AddLab
<1>21. CASE UNCHANGED vars
    BY <1>21 DEF vars
<1>. QED
    BY <1>1, <1>2, <1>3, <1>4, <1>5, <1>6, <1>7, <1>8, <1>9, <1>10, <1>11,
       <1>12, <1>13, <1>14, <1>15, <1>16, <1>17, <1>18, <1>19, <1>20, <1>21
    DEF Next, ClientNext, ServerNext, LabsNext, Proceed

(* Client and server progress stay in step (PhaseAgrees).                  *)
LEMMA PhaseAgreesStep ==
    TypeOK /\ TypeOK' /\ IInv /\ [Next]_vars => PhaseAgrees'
<1> SUFFICES ASSUME TypeOK, TypeOK', PhaseAgrees, AbortIsNoticed, [Next]_vars
             PROVE  PhaseAgrees'
    BY DEF IInv
<1> USE ConstantsAssumption DEF TypeOK, PhaseAgrees, AbortIsNoticed
<1>1. ASSUME NEW a \in Attempts, CallerEnds(a) PROVE PhaseAgrees'
    BY <1>1 DEF CallerEnds, EndTx
<1>2. ASSUME NEW a \in Attempts,
             RefuseInput(a) \/ RefuseActive(a) \/ OpenFails(a)
      PROVE  PhaseAgrees'
    BY <1>2 DEF RefuseInput, Return, RefuseActive, OpenFails
<1>3. ASSUME NEW a \in Attempts, Begin(a) PROVE PhaseAgrees'
    BY <1>3 DEF Begin
<1>4. ASSUME NEW a \in Attempts, BeginFails(a) PROVE PhaseAgrees'
    BY <1>4 DEF BeginFails, Return
<1>5. ASSUME NEW a \in Attempts, SelectEquipment(a) PROVE PhaseAgrees'
    BY <1>5 DEF SelectEquipment
<1>6. ASSUME NEW a \in Attempts,
             EquipmentMissing(a) \/ RefuseStale(a) \/ RefuseSame(a)
               \/ TargetMissing(a) \/ ClockRefused(a) \/ DuplicateId(a)
               \/ AskForKey(a)
      PROVE  PhaseAgrees'
    BY <1>6 DEF EquipmentMissing, Raise, RefuseStale, RefuseSame,
        TargetMissing, SourceAccepted, ClockRefused, DuplicateId, AskForKey
<1>7. ASSUME NEW a \in Attempts, ShareTarget(a) PROVE PhaseAgrees'
    BY <1>7 DEF ShareTarget, SourceAccepted
<1>8. ASSUME NEW a \in Attempts, UpdateLocation(a) PROVE PhaseAgrees'
    BY <1>8 DEF UpdateLocation
<1>9. ASSUME NEW a \in Attempts, ReadClock(a) PROVE PhaseAgrees'
    BY <1>9 DEF ReadClock
<1>10. ASSUME NEW a \in Attempts, InsertHistory(a) PROVE PhaseAgrees'
    BY <1>10 DEF InsertHistory
<1>11. ASSUME NEW a \in Attempts, StatementFails(a) PROVE PhaseAgrees'
    BY <1>11 DEF StatementFails, Raise, EndTx, Outstanding, SourceAccepted
<1>12. ASSUME NEW a \in Attempts, RollbackReturns(a) PROVE PhaseAgrees'
    BY <1>12 DEF RollbackReturns, Return, EndTx
<1>13. ASSUME NEW a \in Attempts,
             RollbackRaises(a) \/ CommitReturns(a) \/ CommitRaises(a)
      PROVE  PhaseAgrees'
    BY <1>13 DEF RollbackRaises, Return, CommitReturns, CommitRaises
<1>14. ASSUME NEW a \in Attempts, SendCommit(a) PROVE PhaseAgrees'
    BY <1>14 DEF SendCommit
<1>15. ASSUME NEW a \in Attempts, ServerCommit(a) PROVE PhaseAgrees'
    BY <1>15 DEF ServerCommit, EndTx
<1>16. ASSUME NEW a \in Attempts, ServerAbort(a) PROVE PhaseAgrees'
    BY <1>16 DEF ServerAbort, EndTx
<1>17. ASSUME NEW a \in Attempts, ClientCrash(a) PROVE PhaseAgrees'
    BY <1>17 DEF ClientCrash
<1>18. ASSUME NEW a \in Attempts, Reconcile(a) PROVE PhaseAgrees'
    BY <1>18 DEF Reconcile
<1>19. ASSUME NEW a \in Attempts, NEW e \in Equipment, CallerBegins(a, e)
      PROVE  PhaseAgrees'
    BY <1>19 DEF CallerBegins
<1>20. ASSUME NEW l \in LabIds, DropLab(l) \/ AddLab(l)
      PROVE  PhaseAgrees'
    BY <1>20 DEF DropLab, AddLab
<1>21. CASE UNCHANGED vars
    BY <1>21 DEF vars
<1>. QED
    BY <1>1, <1>2, <1>3, <1>4, <1>5, <1>6, <1>7, <1>8, <1>9, <1>10, <1>11,
       <1>12, <1>13, <1>14, <1>15, <1>16, <1>17, <1>18, <1>19, <1>20, <1>21
    DEF Next, ClientNext, ServerNext, LabsNext, Proceed

(* A call cannot go on over a transaction the server has ended.            *)
LEMMA AbortIsNoticedStep ==
    TypeOK /\ TypeOK' /\ IInv /\ [Next]_vars => AbortIsNoticed'
<1> SUFFICES ASSUME TypeOK, TypeOK', AbortIsNoticed, PhaseAgrees, [Next]_vars
             PROVE  AbortIsNoticed'
    BY DEF IInv
<1> USE ConstantsAssumption DEF TypeOK, AbortIsNoticed, PhaseAgrees
<1>1. ASSUME NEW a \in Attempts, CallerEnds(a) PROVE AbortIsNoticed'
    BY <1>1 DEF CallerEnds, EndTx
<1>2. ASSUME NEW a \in Attempts,
             RefuseInput(a) \/ RefuseActive(a) \/ OpenFails(a)
      PROVE  AbortIsNoticed'
    BY <1>2 DEF RefuseInput, Return, RefuseActive, OpenFails
<1>3. ASSUME NEW a \in Attempts, Begin(a) PROVE AbortIsNoticed'
    BY <1>3 DEF Begin
<1>4. ASSUME NEW a \in Attempts, BeginFails(a) PROVE AbortIsNoticed'
    BY <1>4 DEF BeginFails, Return
<1>5. ASSUME NEW a \in Attempts, SelectEquipment(a) PROVE AbortIsNoticed'
    BY <1>5 DEF SelectEquipment
<1>6. ASSUME NEW a \in Attempts,
             EquipmentMissing(a) \/ RefuseStale(a) \/ RefuseSame(a)
               \/ TargetMissing(a) \/ ClockRefused(a) \/ DuplicateId(a)
               \/ AskForKey(a)
      PROVE  AbortIsNoticed'
    BY <1>6 DEF EquipmentMissing, Raise, RefuseStale, RefuseSame,
        TargetMissing, SourceAccepted, ClockRefused, DuplicateId, AskForKey
<1>7. ASSUME NEW a \in Attempts, ShareTarget(a) PROVE AbortIsNoticed'
    BY <1>7 DEF ShareTarget, SourceAccepted
<1>8. ASSUME NEW a \in Attempts, UpdateLocation(a) PROVE AbortIsNoticed'
    BY <1>8 DEF UpdateLocation
<1>9. ASSUME NEW a \in Attempts, ReadClock(a) PROVE AbortIsNoticed'
    BY <1>9 DEF ReadClock
<1>10. ASSUME NEW a \in Attempts, InsertHistory(a) PROVE AbortIsNoticed'
    BY <1>10 DEF InsertHistory
<1>11. ASSUME NEW a \in Attempts, StatementFails(a) PROVE AbortIsNoticed'
    BY <1>11 DEF StatementFails, Raise, EndTx, Outstanding, SourceAccepted
<1>12. ASSUME NEW a \in Attempts, RollbackReturns(a) PROVE AbortIsNoticed'
    BY <1>12 DEF RollbackReturns, Return, EndTx
<1>13. ASSUME NEW a \in Attempts,
             RollbackRaises(a) \/ CommitReturns(a) \/ CommitRaises(a)
      PROVE  AbortIsNoticed'
    BY <1>13 DEF RollbackRaises, Return, CommitReturns, CommitRaises
<1>14. ASSUME NEW a \in Attempts, SendCommit(a) PROVE AbortIsNoticed'
    BY <1>14 DEF SendCommit
<1>15. ASSUME NEW a \in Attempts, ServerCommit(a) PROVE AbortIsNoticed'
    BY <1>15 DEF ServerCommit, EndTx
<1>16. ASSUME NEW a \in Attempts, ServerAbort(a) PROVE AbortIsNoticed'
    BY <1>16 DEF ServerAbort, EndTx
<1>17. ASSUME NEW a \in Attempts, ClientCrash(a) PROVE AbortIsNoticed'
    BY <1>17 DEF ClientCrash
<1>18. ASSUME NEW a \in Attempts, Reconcile(a) PROVE AbortIsNoticed'
    BY <1>18 DEF Reconcile
<1>19. ASSUME NEW a \in Attempts, NEW e \in Equipment, CallerBegins(a, e)
      PROVE  AbortIsNoticed'
    BY <1>19 DEF CallerBegins
<1>20. ASSUME NEW l \in LabIds, DropLab(l) \/ AddLab(l)
      PROVE  AbortIsNoticed'
    BY <1>20 DEF DropLab, AddLab
<1>21. CASE UNCHANGED vars
    BY <1>21 DEF vars
<1>. QED
    BY <1>1, <1>2, <1>3, <1>4, <1>5, <1>6, <1>7, <1>8, <1>9, <1>10, <1>11,
       <1>12, <1>13, <1>14, <1>15, <1>16, <1>17, <1>18, <1>19, <1>20, <1>21
    DEF Next, ClientNext, ServerNext, LabsNext, Proceed

(* Locks are held by live transactions only.                               *)
LEMMA LocksBelongStep ==
    TypeOK /\ TypeOK' /\ IInv /\ [Next]_vars => LocksBelong'
<1> SUFFICES ASSUME TypeOK, TypeOK', LocksBelong, PhaseAgrees, LocksHeld,
                    AbortIsNoticed, [Next]_vars PROVE LocksBelong'
    BY DEF IInv
<1> USE ConstantsAssumption DEF TypeOK, LocksBelong, PhaseAgrees, LocksHeld,
        AbortIsNoticed, Active, Writing, Inserted, KeyPending
<1>1. ASSUME NEW a \in Attempts, CallerEnds(a) PROVE LocksBelong'
    BY <1>1 DEF CallerEnds, EndTx
<1>2. ASSUME NEW a \in Attempts, Begin(a) PROVE LocksBelong'
    BY <1>2 DEF Begin
<1>3. ASSUME NEW a \in Attempts, BeginFails(a) PROVE LocksBelong'
    <2>1. CASE UNCHANGED tx
        BY <1>3, <2>1 DEF BeginFails
    <2>2. ASSUME NEW s \in {"none", "open"}, tx' = [tx EXCEPT ![a] = s]
          PROVE  LocksBelong'
        <3>1. tx[a] = "none" /\ UNCHANGED <<rowLock, labShare, keyShare, req>>
            BY <1>3 DEF BeginFails
        <3>2. \A b \in Attempts \ {a} : tx'[b] = tx[b]
            BY <2>2
        <3>3. \A e \in Equipment : rowLock[e] # a
            BY <3>1
        <3>4. \A l \in LabIds : a \notin labShare[l]
            BY <3>1
        <3>5. a \notin keyShare
            BY <3>1
        <3>6. \A b \in keyShare' : b \in Attempts /\ b # a
            BY <3>1, <3>5
        <3>7. \A b \in keyShare' : Writing(b)'
            BY <3>1, <3>2, <3>6
        <3>8. \A e \in Equipment, b \in Attempts : rowLock'[e] = b =>
                 tx'[b] = "caller" \/ (Active(b)' /\ e = req'[b].equipment)
            BY <3>1, <3>2, <3>3
        <3>9. \A l \in LabIds, b \in Attempts :
                 b \in labShare'[l] => Active(b)' /\ l = req'[b].target
            BY <3>1, <3>2, <3>4
        <3>. QED
            BY <3>7, <3>8, <3>9
    <2>. QED
        BY <1>3, <2>1, <2>2 DEF BeginFails
<1>4. ASSUME NEW a \in Attempts, SelectEquipment(a) PROVE LocksBelong'
    BY <1>4 DEF SelectEquipment
<1>5. ASSUME NEW a \in Attempts, ShareTarget(a) PROVE LocksBelong'
    BY <1>5 DEF ShareTarget, SourceAccepted
<1>6. ASSUME NEW a \in Attempts, UpdateLocation(a) PROVE LocksBelong'
    BY <1>6 DEF UpdateLocation
<1>7. ASSUME NEW a \in Attempts, InsertHistory(a) PROVE LocksBelong'
    BY <1>7 DEF InsertHistory
<1>8. ASSUME NEW a \in Attempts, StatementFails(a) PROVE LocksBelong'
    BY <1>8 DEF StatementFails, Raise, EndTx, Outstanding, SourceAccepted
<1>9. ASSUME NEW a \in Attempts, RollbackReturns(a) PROVE LocksBelong'
    BY <1>9 DEF RollbackReturns, Return, EndTx
<1>10. ASSUME NEW a \in Attempts, SendCommit(a) PROVE LocksBelong'
    BY <1>10 DEF SendCommit
<1>11. ASSUME NEW a \in Attempts, ServerCommit(a) PROVE LocksBelong'
    BY <1>11 DEF ServerCommit, EndTx
<1>12. ASSUME NEW a \in Attempts, ServerAbort(a) PROVE LocksBelong'
    BY <1>12 DEF ServerAbort, EndTx
<1>13. ASSUME NEW a \in Attempts,
             RefuseInput(a) \/ RefuseActive(a) \/ OpenFails(a)
               \/ EquipmentMissing(a) \/ RefuseStale(a) \/ RefuseSame(a)
               \/ TargetMissing(a) \/ ReadClock(a) \/ ClockRefused(a)
               \/ DuplicateId(a) \/ AskForKey(a) \/ RollbackRaises(a)
               \/ CommitReturns(a)
               \/ CommitRaises(a) \/ ClientCrash(a) \/ Reconcile(a)
      PROVE  LocksBelong'
    BY <1>13 DEF RefuseInput, Return, RefuseActive, OpenFails,
        EquipmentMissing, Raise, RefuseStale, RefuseSame, TargetMissing,
        SourceAccepted, ReadClock, ClockRefused, DuplicateId, AskForKey,
        RollbackRaises,
        CommitReturns, CommitRaises, ClientCrash, Reconcile
<1>14. ASSUME NEW a \in Attempts, NEW e \in Equipment, CallerBegins(a, e)
      PROVE  LocksBelong'
    BY <1>14 DEF CallerBegins
<1>15. ASSUME NEW l \in LabIds, DropLab(l) \/ AddLab(l)
      PROVE  LocksBelong'
    BY <1>15 DEF DropLab, AddLab
<1>16. CASE UNCHANGED vars
    BY <1>16 DEF vars
<1>. QED
    BY <1>1, <1>2, <1>3, <1>4, <1>5, <1>6, <1>7, <1>8, <1>9, <1>10, <1>11,
       <1>12, <1>13, <1>14, <1>15, <1>16
    DEF Next, ClientNext, ServerNext, LabsNext, Proceed

(* What FOR UPDATE and FOR SHARE saw stays true while they are held:       *)
(* another call's COMMIT writes another row.                               *)
LEMMA LocksHeldStep ==
    TypeOK /\ TypeOK' /\ IInv /\ [Next]_vars => LocksHeld'
<1> SUFFICES ASSUME TypeOK, TypeOK', LocksHeld, PhaseAgrees, AbortIsNoticed,
                    LocksBelong, ReferencesResolve, [Next]_vars
             PROVE  LocksHeld'
    BY DEF IInv
<1> USE ConstantsAssumption DEF TypeOK, LocksHeld, PhaseAgrees, AbortIsNoticed,
        LocksBelong, ReferencesResolve, Writing
<1>1. ASSUME NEW a \in Attempts, CallerEnds(a) PROVE LocksHeld'
    BY <1>1 DEF CallerEnds, EndTx
<1>2. ASSUME NEW a \in Attempts,
             RefuseInput(a) \/ RefuseActive(a) \/ OpenFails(a)
      PROVE  LocksHeld'
    BY <1>2 DEF RefuseInput, Return, RefuseActive, OpenFails
<1>3. ASSUME NEW a \in Attempts, Begin(a) PROVE LocksHeld'
    BY <1>3 DEF Begin
<1>4. ASSUME NEW a \in Attempts, BeginFails(a) PROVE LocksHeld'
    BY <1>4 DEF BeginFails, Return
<1>5. ASSUME NEW a \in Attempts, SelectEquipment(a) PROVE LocksHeld'
    BY <1>5 DEF SelectEquipment
<1>6. ASSUME NEW a \in Attempts,
             EquipmentMissing(a) \/ RefuseStale(a) \/ RefuseSame(a)
               \/ TargetMissing(a) \/ ClockRefused(a) \/ DuplicateId(a)
               \/ AskForKey(a)
      PROVE  LocksHeld'
    BY <1>6 DEF EquipmentMissing, Raise, RefuseStale, RefuseSame,
        TargetMissing, SourceAccepted, ClockRefused, DuplicateId, AskForKey
<1>7. ASSUME NEW a \in Attempts, ShareTarget(a) PROVE LocksHeld'
    BY <1>7 DEF ShareTarget, SourceAccepted
<1>8. ASSUME NEW a \in Attempts, UpdateLocation(a) PROVE LocksHeld'
    BY <1>8 DEF UpdateLocation
<1>9. ASSUME NEW a \in Attempts, ReadClock(a) PROVE LocksHeld'
    BY <1>9 DEF ReadClock
<1>10. ASSUME NEW a \in Attempts, InsertHistory(a) PROVE LocksHeld'
    BY <1>10 DEF InsertHistory
<1>11. ASSUME NEW a \in Attempts, StatementFails(a) PROVE LocksHeld'
    BY <1>11 DEF StatementFails, Raise, EndTx, Outstanding, SourceAccepted
<1>12. ASSUME NEW a \in Attempts, RollbackReturns(a) PROVE LocksHeld'
    BY <1>12 DEF RollbackReturns, Return, EndTx
<1>13. ASSUME NEW a \in Attempts,
             RollbackRaises(a) \/ CommitReturns(a) \/ CommitRaises(a)
      PROVE  LocksHeld'
    BY <1>13 DEF RollbackRaises, Return, CommitReturns, CommitRaises
<1>14. ASSUME NEW a \in Attempts, SendCommit(a) PROVE LocksHeld'
    BY <1>14 DEF SendCommit
<1>15. ASSUME NEW a \in Attempts, ServerCommit(a) PROVE LocksHeld'
    BY <1>15 DEF ServerCommit, EndTx
<1>16. ASSUME NEW a \in Attempts, ServerAbort(a) PROVE LocksHeld'
    BY <1>16 DEF ServerAbort, EndTx
<1>17. ASSUME NEW a \in Attempts, ClientCrash(a) PROVE LocksHeld'
    BY <1>17 DEF ClientCrash
<1>18. ASSUME NEW a \in Attempts, Reconcile(a) PROVE LocksHeld'
    BY <1>18 DEF Reconcile
<1>19. ASSUME NEW a \in Attempts, NEW e \in Equipment, CallerBegins(a, e)
      PROVE  LocksHeld'
    BY <1>19 DEF CallerBegins
<1>20. ASSUME NEW l \in LabIds, DropLab(l) \/ AddLab(l)
      PROVE  LocksHeld'
    BY <1>20 DEF DropLab, AddLab
<1>21. CASE UNCHANGED vars
    BY <1>21 DEF vars
<1>. QED
    BY <1>1, <1>2, <1>3, <1>4, <1>5, <1>6, <1>7, <1>8, <1>9, <1>10, <1>11,
       <1>12, <1>13, <1>14, <1>15, <1>16, <1>17, <1>18, <1>19, <1>20, <1>21
    DEF Next, ClientNext, ServerNext, LabsNext, Proceed

(* An uncommitted identifier stays unused: the INSERT waits for others.    *)
LEMMA PendingKeysStep ==
    TypeOK /\ TypeOK' /\ IInv /\ [Next]_vars => PendingKeys'
<1> SUFFICES ASSUME TypeOK, TypeOK', PendingKeys, PhaseAgrees, AbortIsNoticed,
                    [Next]_vars PROVE PendingKeys'
    BY DEF IInv
<1> USE ConstantsAssumption DEF TypeOK, PendingKeys, PhaseAgrees,
        AbortIsNoticed, Inserted, KeyPending, Row
<1>1. ASSUME NEW a \in Attempts, CallerEnds(a) PROVE PendingKeys'
    BY <1>1 DEF CallerEnds, EndTx
<1>2. ASSUME NEW a \in Attempts, Begin(a) PROVE PendingKeys'
    BY <1>2 DEF Begin
<1>3. ASSUME NEW a \in Attempts, BeginFails(a) PROVE PendingKeys'
    BY <1>3 DEF BeginFails, Return
<1>4. ASSUME NEW a \in Attempts, UpdateLocation(a) PROVE PendingKeys'
    BY <1>4 DEF UpdateLocation
<1>5. ASSUME NEW a \in Attempts, InsertHistory(a) PROVE PendingKeys'
    BY <1>5 DEF InsertHistory, InsertWaitsFor, KeyUsed
<1>6. ASSUME NEW a \in Attempts, StatementFails(a) PROVE PendingKeys'
    BY <1>6 DEF StatementFails, Raise, EndTx, Outstanding, SourceAccepted
<1>7. ASSUME NEW a \in Attempts, RollbackReturns(a) PROVE PendingKeys'
    BY <1>7 DEF RollbackReturns, Return, EndTx
<1>8. ASSUME NEW a \in Attempts, SendCommit(a) PROVE PendingKeys'
    BY <1>8 DEF SendCommit
<1>9. ASSUME NEW a \in Attempts, ServerCommit(a) PROVE PendingKeys'
    BY <1>9 DEF ServerCommit, EndTx
<1>10. ASSUME NEW a \in Attempts, ServerAbort(a) PROVE PendingKeys'
    BY <1>10 DEF ServerAbort, EndTx
<1>11. ASSUME NEW a \in Attempts,
             RefuseInput(a) \/ RefuseActive(a) \/ OpenFails(a)
               \/ SelectEquipment(a) \/ EquipmentMissing(a) \/ RefuseStale(a)
               \/ RefuseSame(a) \/ TargetMissing(a) \/ ShareTarget(a)
               \/ ReadClock(a) \/ ClockRefused(a) \/ DuplicateId(a)
               \/ AskForKey(a)
               \/ RollbackRaises(a) \/ CommitReturns(a) \/ CommitRaises(a)
               \/ ClientCrash(a) \/ Reconcile(a)
      PROVE  PendingKeys'
    BY <1>11 DEF RefuseInput, Return, RefuseActive, OpenFails, SelectEquipment,
        EquipmentMissing, Raise, RefuseStale, RefuseSame, TargetMissing,
        SourceAccepted, ShareTarget, ReadClock, ClockRefused, DuplicateId,
        AskForKey,
        RollbackRaises, CommitReturns, CommitRaises, ClientCrash, Reconcile
<1>12. ASSUME NEW a \in Attempts, NEW e \in Equipment, CallerBegins(a, e)
      PROVE  PendingKeys'
    BY <1>12 DEF CallerBegins
<1>13. ASSUME NEW l \in LabIds, DropLab(l) \/ AddLab(l)
      PROVE  PendingKeys'
    BY <1>13 DEF DropLab, AddLab
<1>14. CASE UNCHANGED vars
    BY <1>14 DEF vars
<1>. QED
    BY <1>1, <1>2, <1>3, <1>4, <1>5, <1>6, <1>7, <1>8, <1>9, <1>10, <1>11,
       <1>12, <1>13, <1>14
    DEF Next, ClientNext, ServerNext, LabsNext, Proceed

(* Who asked for a shared lock on an identifier met a record of it, which  *)
(* is committed, uncommitted or rolled back.                               *)
LEMMA SharesHaveCauseStep ==
    TypeOK /\ TypeOK' /\ IInv /\ [Next]_vars => SharesHaveCause'
<1> SUFFICES ASSUME TypeOK, TypeOK', SharesHaveCause, PhaseAgrees,
                    AbortIsNoticed, [Next]_vars PROVE SharesHaveCause'
    BY DEF IInv
<1> DEFINE Met(c) == Inserted(c) \/ tx[c] = "aborted"
<1> USE ConstantsAssumption DEF TypeOK, PhaseAgrees, AbortIsNoticed, Inserted
<1>1. ASSUME UNCHANGED req, history \subseteq history',
             \A b \in Attempts : Met(b) => Met(b)'
                 \/ \E h \in history' : h.id = req[b].id,
             \A b \in keyShare' \ keyShare : KeyUsed(b) \/ KeyPending(b)
      PROVE  SharesHaveCause'
    BY <1>1 DEF SharesHaveCause, KeyUsed, KeyPending
<1>2. ASSUME NEW a \in Attempts, AskForKey(a) PROVE SharesHaveCause'
    BY <1>1, <1>2 DEF AskForKey
<1>3. ASSUME NEW a \in Attempts, DuplicateId(a) PROVE SharesHaveCause'
    BY <1>1, <1>3 DEF DuplicateId
<1>4. ASSUME NEW a \in Attempts, ServerCommit(a) PROVE SharesHaveCause'
    <2>1. Row(a) \in history' /\ Row(a).id = req[a].id
        BY <1>4 DEF ServerCommit, Row
    <2>2. \A b \in Attempts : Met(b) => Met(b)'
                 \/ \E h \in history' : h.id = req[b].id
        BY <1>4, <2>1 DEF ServerCommit, EndTx
    <2> QED
        BY <1>1, <1>4, <2>2 DEF ServerCommit, EndTx
<1>5. ASSUME NEW a \in Attempts,
             CallerEnds(a) \/ StatementFails(a) \/ RollbackReturns(a)
               \/ ServerAbort(a)
      PROVE  SharesHaveCause'
    BY <1>1, <1>5 DEF CallerEnds, StatementFails, Outstanding, SourceAccepted,
        RollbackReturns, ServerAbort, EndTx
<1>6. ASSUME NEW a \in Attempts,
             Begin(a) \/ BeginFails(a) \/ UpdateLocation(a)
               \/ InsertHistory(a) \/ SendCommit(a)
      PROVE  SharesHaveCause'
    BY <1>1, <1>6 DEF Begin, BeginFails, UpdateLocation, InsertHistory,
        SendCommit
<1>7. ASSUME NEW a \in Attempts, NEW e \in Equipment, CallerBegins(a, e)
      PROVE  SharesHaveCause'
    BY <1>1, <1>7 DEF CallerBegins
<1>8. CASE UNCHANGED <<history, keyShare, req, tx>>
    BY <1>1, <1>8
<1> QED
    BY <1>2, <1>3, <1>4, <1>5, <1>6, <1>7, <1>8
    DEF Next, ClientNext, ServerNext, LabsNext, Proceed, RefuseInput,
        RefuseActive, OpenFails, SelectEquipment, EquipmentMissing,
        RefuseStale, RefuseSame, TargetMissing, ShareTarget, ReadClock,
        ClockRefused, RollbackRaises, CommitReturns, CommitRaises,
        ClientCrash, Reconcile, DropLab, AddLab, vars

(* Answers stay true of what the server did.                               *)
LEMMA AnswerAgreesStep ==
    TypeOK /\ TypeOK' /\ IInv /\ [Next]_vars => AnswerAgrees'
<1> SUFFICES ASSUME TypeOK, TypeOK', AnswerAgrees, PhaseAgrees, HistoryExact,
                    [Next]_vars PROVE AnswerAgrees'
    BY DEF IInv
<1> USE ConstantsAssumption DEF TypeOK, AnswerAgrees, PhaseAgrees,
        HistoryExact, Row
<1>1. ASSUME NEW a \in Attempts, CallerEnds(a) PROVE AnswerAgrees'
    BY <1>1 DEF CallerEnds, EndTx
<1>2. ASSUME NEW a \in Attempts,
             RefuseInput(a) \/ RefuseActive(a) \/ OpenFails(a)
      PROVE  AnswerAgrees'
    BY <1>2 DEF RefuseInput, Return, RefuseActive, OpenFails
<1>3. ASSUME NEW a \in Attempts, Begin(a) PROVE AnswerAgrees'
    BY <1>3 DEF Begin
<1>4. ASSUME NEW a \in Attempts, BeginFails(a) PROVE AnswerAgrees'
    BY <1>4 DEF BeginFails, Return
<1>5. ASSUME NEW a \in Attempts, SelectEquipment(a) PROVE AnswerAgrees'
    BY <1>5 DEF SelectEquipment
<1>6. ASSUME NEW a \in Attempts,
             EquipmentMissing(a) \/ RefuseStale(a) \/ RefuseSame(a)
               \/ TargetMissing(a) \/ ClockRefused(a) \/ DuplicateId(a)
               \/ AskForKey(a)
      PROVE  AnswerAgrees'
    BY <1>6 DEF EquipmentMissing, Raise, RefuseStale, RefuseSame,
        TargetMissing, SourceAccepted, ClockRefused, DuplicateId, AskForKey
<1>7. ASSUME NEW a \in Attempts, ShareTarget(a) PROVE AnswerAgrees'
    BY <1>7 DEF ShareTarget, SourceAccepted
<1>8. ASSUME NEW a \in Attempts, UpdateLocation(a) PROVE AnswerAgrees'
    BY <1>8 DEF UpdateLocation
<1>9. ASSUME NEW a \in Attempts, ReadClock(a) PROVE AnswerAgrees'
    BY <1>9 DEF ReadClock
<1>10. ASSUME NEW a \in Attempts, InsertHistory(a) PROVE AnswerAgrees'
    BY <1>10 DEF InsertHistory
<1>11. ASSUME NEW a \in Attempts, StatementFails(a) PROVE AnswerAgrees'
    BY <1>11 DEF StatementFails, Raise, EndTx, Outstanding, SourceAccepted
<1>12. ASSUME NEW a \in Attempts, RollbackReturns(a) PROVE AnswerAgrees'
    BY <1>12 DEF RollbackReturns, Return, EndTx
<1>13. ASSUME NEW a \in Attempts,
             RollbackRaises(a) \/ CommitReturns(a) \/ CommitRaises(a)
      PROVE  AnswerAgrees'
    BY <1>13 DEF RollbackRaises, Return, CommitReturns, CommitRaises
<1>14. ASSUME NEW a \in Attempts, SendCommit(a) PROVE AnswerAgrees'
    BY <1>14 DEF SendCommit
<1>15. ASSUME NEW a \in Attempts, ServerCommit(a) PROVE AnswerAgrees'
    BY <1>15 DEF ServerCommit, EndTx
<1>16. ASSUME NEW a \in Attempts, ServerAbort(a) PROVE AnswerAgrees'
    BY <1>16 DEF ServerAbort, EndTx
<1>17. ASSUME NEW a \in Attempts, ClientCrash(a) PROVE AnswerAgrees'
    BY <1>17 DEF ClientCrash
<1>18. ASSUME NEW a \in Attempts, Reconcile(a) PROVE AnswerAgrees'
    BY <1>18 DEF Reconcile
<1>19. ASSUME NEW a \in Attempts, NEW e \in Equipment, CallerBegins(a, e)
      PROVE  AnswerAgrees'
    BY <1>19 DEF CallerBegins
<1>20. ASSUME NEW l \in LabIds, DropLab(l) \/ AddLab(l)
      PROVE  AnswerAgrees'
    BY <1>20 DEF DropLab, AddLab
<1>21. CASE UNCHANGED vars
    BY <1>21 DEF vars
<1>. QED
    BY <1>1, <1>2, <1>3, <1>4, <1>5, <1>6, <1>7, <1>8, <1>9, <1>10, <1>11,
       <1>12, <1>13, <1>14, <1>15, <1>16, <1>17, <1>18, <1>19, <1>20, <1>21
    DEF Next, ClientNext, ServerNext, LabsNext, Proceed

(* One committed call per identifier, one record per committed call.       *)
LEMMA AppliedOnceStep ==
    TypeOK /\ TypeOK' /\ IInv /\ [Next]_vars => AppliedOnce'
<1> SUFFICES ASSUME TypeOK, TypeOK', AppliedOnce, PhaseAgrees, HistoryExact,
                    PendingKeys, [Next]_vars PROVE AppliedOnce'
    BY DEF IInv
<1> USE ConstantsAssumption DEF TypeOK, AppliedOnce, PhaseAgrees, HistoryExact,
        PendingKeys, Row
<1>1. ASSUME NEW a \in Attempts, CallerEnds(a) PROVE AppliedOnce'
    BY <1>1 DEF CallerEnds, EndTx
<1>2. ASSUME NEW a \in Attempts, Begin(a) PROVE AppliedOnce'
    BY <1>2 DEF Begin
<1>3. ASSUME NEW a \in Attempts, BeginFails(a) PROVE AppliedOnce'
    BY <1>3 DEF BeginFails, Return
<1>4. ASSUME NEW a \in Attempts, UpdateLocation(a) PROVE AppliedOnce'
    BY <1>4 DEF UpdateLocation
<1>5. ASSUME NEW a \in Attempts, ReadClock(a) PROVE AppliedOnce'
    BY <1>5 DEF ReadClock
<1>6. ASSUME NEW a \in Attempts, InsertHistory(a) PROVE AppliedOnce'
    BY <1>6 DEF InsertHistory
<1>7. ASSUME NEW a \in Attempts, StatementFails(a) PROVE AppliedOnce'
    <2>1. UNCHANGED <<history, req, stamp>> /\ tx[a] # "committed"
        BY <1>7 DEF StatementFails, Outstanding, SourceAccepted
    <2>2. \A b \in Attempts : tx'[b] = "committed" <=> tx[b] = "committed"
        BY <1>7, <2>1 DEF StatementFails, EndTx
    <2>. QED
        BY <2>1, <2>2
<1>8. ASSUME NEW a \in Attempts, RollbackReturns(a) PROVE AppliedOnce'
    BY <1>8 DEF RollbackReturns, Return, EndTx
<1>9. ASSUME NEW a \in Attempts, SendCommit(a) PROVE AppliedOnce'
    BY <1>9 DEF SendCommit
<1>10. ASSUME NEW a \in Attempts, ServerCommit(a) PROVE AppliedOnce'
    <2>1. /\ history' = history \cup {Row(a)}
          /\ tx[a] = "committing" /\ tx' = [tx EXCEPT ![a] = "committed"]
          /\ UNCHANGED <<req, stamp>>
        BY <1>10 DEF ServerCommit, EndTx
    <2>2. Row(a).id = req[a].id /\ \A b \in Attempts : Row(b)' = Row(b)
        BY <2>1 DEF Row
    <2>3. \A b \in Attempts :
             tx'[b] = "committed" <=> b = a \/ tx[b] = "committed"
        BY <2>1
    <2>4. \A h \in history : h.id # req[a].id
        BY <2>1
    <2>5. \A b \in Attempts : tx[b] = "committed" => req[b].id # req[a].id
        <3> SUFFICES ASSUME NEW b \in Attempts, tx[b] = "committed"
                     PROVE  req[b].id # req[a].id
            OBVIOUS
        <3>1. Row(b) \in history
            OBVIOUS
        <3>2. Row(b).id = req[b].id
            BY DEF Row
        <3>. QED
            BY <3>1, <3>2, <2>4
    <2>6. \A b, c \in Attempts :
             tx'[b] = "committed" /\ tx'[c] = "committed"
               /\ req'[b].id = req'[c].id => b = c
        BY <2>1, <2>3, <2>5
    <2>7. \A h \in history' \ InitHistory :
             \E b \in Attempts : tx'[b] = "committed" /\ h = Row(b)'
        BY <2>1, <2>2, <2>3
    <2>8. \A g, h \in history' : g.id = h.id => g = h
        BY <2>1, <2>2, <2>4
    <2>. QED
        BY <2>6, <2>7, <2>8
<1>11. ASSUME NEW a \in Attempts, ServerAbort(a) PROVE AppliedOnce'
    BY <1>11 DEF ServerAbort, EndTx
<1>12. CASE UNCHANGED <<history, req, stamp, tx>>
    BY <1>12
<1>13. ASSUME NEW a \in Attempts, NEW e \in Equipment, CallerBegins(a, e)
      PROVE  AppliedOnce'
    BY <1>13 DEF CallerBegins
<1>14. ASSUME NEW l \in LabIds, DropLab(l) \/ AddLab(l)
      PROVE  AppliedOnce'
    BY <1>14 DEF DropLab, AddLab
<1>15. CASE UNCHANGED vars
    BY <1>15 DEF vars
<1>. QED
    BY <1>1, <1>2, <1>3, <1>4, <1>5, <1>6, <1>7, <1>8, <1>9, <1>10, <1>11,
       <1>12, <1>13, <1>14, <1>15
    DEF Next, ClientNext, ServerNext, LabsNext, Proceed, RefuseInput,
        RefuseActive, OpenFails, SelectEquipment, EquipmentMissing,
        RefuseStale, RefuseSame, TargetMissing, ShareTarget, ClockRefused,
        DuplicateId, AskForKey, RollbackRaises, CommitReturns, CommitRaises,
        ClientCrash,
        Reconcile

(* Committed records stay, for ever unchanged.                             *)
LEMMA HistoryExactStep ==
    TypeOK /\ TypeOK' /\ IInv /\ [Next]_vars => HistoryExact'
<1> SUFFICES ASSUME TypeOK, TypeOK', HistoryExact, PhaseAgrees, [Next]_vars
             PROVE  HistoryExact'
    BY DEF IInv
<1> USE ConstantsAssumption DEF TypeOK, HistoryExact, PhaseAgrees, Row
<1>1. ASSUME NEW a \in Attempts, CallerEnds(a) PROVE HistoryExact'
    BY <1>1 DEF CallerEnds, EndTx
<1>2. ASSUME NEW a \in Attempts, Begin(a) PROVE HistoryExact'
    BY <1>2 DEF Begin
<1>3. ASSUME NEW a \in Attempts, BeginFails(a) PROVE HistoryExact'
    BY <1>3 DEF BeginFails, Return
<1>4. ASSUME NEW a \in Attempts, UpdateLocation(a) PROVE HistoryExact'
    BY <1>4 DEF UpdateLocation
<1>5. ASSUME NEW a \in Attempts, ReadClock(a) PROVE HistoryExact'
    BY <1>5 DEF ReadClock
<1>6. ASSUME NEW a \in Attempts, InsertHistory(a) PROVE HistoryExact'
    BY <1>6 DEF InsertHistory
<1>7. ASSUME NEW a \in Attempts, StatementFails(a) PROVE HistoryExact'
    BY <1>7 DEF StatementFails, Raise, EndTx, Outstanding, SourceAccepted
<1>8. ASSUME NEW a \in Attempts, RollbackReturns(a) PROVE HistoryExact'
    BY <1>8 DEF RollbackReturns, Return, EndTx
<1>9. ASSUME NEW a \in Attempts, SendCommit(a) PROVE HistoryExact'
    BY <1>9 DEF SendCommit
<1>10. ASSUME NEW a \in Attempts, ServerCommit(a) PROVE HistoryExact'
    BY <1>10 DEF ServerCommit, EndTx
<1>11. ASSUME NEW a \in Attempts, ServerAbort(a) PROVE HistoryExact'
    BY <1>11 DEF ServerAbort, EndTx
<1>12. ASSUME NEW a \in Attempts,
             RefuseInput(a) \/ RefuseActive(a) \/ OpenFails(a)
               \/ SelectEquipment(a) \/ EquipmentMissing(a) \/ RefuseStale(a)
               \/ RefuseSame(a) \/ TargetMissing(a) \/ ShareTarget(a)
               \/ ClockRefused(a) \/ DuplicateId(a) \/ AskForKey(a)
               \/ RollbackRaises(a)
               \/ CommitReturns(a) \/ CommitRaises(a) \/ ClientCrash(a)
               \/ Reconcile(a)
      PROVE  HistoryExact'
    BY <1>12 DEF RefuseInput, Return, RefuseActive, OpenFails, SelectEquipment,
        EquipmentMissing, Raise, RefuseStale, RefuseSame, TargetMissing,
        SourceAccepted, ShareTarget, ClockRefused, DuplicateId, AskForKey,
        RollbackRaises,
        CommitReturns, CommitRaises, ClientCrash, Reconcile
<1>13. ASSUME NEW a \in Attempts, NEW e \in Equipment, CallerBegins(a, e)
      PROVE  HistoryExact'
    BY <1>13 DEF CallerBegins
<1>14. ASSUME NEW l \in LabIds, DropLab(l) \/ AddLab(l)
      PROVE  HistoryExact'
    BY <1>14 DEF DropLab, AddLab
<1>15. CASE UNCHANGED vars
    BY <1>15 DEF vars
<1>. QED
    BY <1>1, <1>2, <1>3, <1>4, <1>5, <1>6, <1>7, <1>8, <1>9, <1>10, <1>11,
       <1>12, <1>13, <1>14, <1>15
    DEF Next, ClientNext, ServerNext, LabsNext, Proceed

(* No laboratory is deleted from under a row.                              *)
LEMMA ReferencesResolveStep ==
    TypeOK /\ TypeOK' /\ IInv /\ [Next]_vars => ReferencesResolve'
<1> SUFFICES ASSUME TypeOK, TypeOK', ReferencesResolve, LocksHeld, [Next]_vars
             PROVE  ReferencesResolve'
    BY DEF IInv
<1> USE ConstantsAssumption DEF TypeOK, ReferencesResolve, LocksHeld, Writing,
        Row
<1>1. ASSUME NEW a \in Attempts, ServerCommit(a) PROVE ReferencesResolve'
    BY <1>1 DEF ServerCommit, EndTx
<1>2. ASSUME NEW a \in Attempts,
             CallerEnds(a) \/ RefuseInput(a) \/ RefuseActive(a) \/ Begin(a)
               \/ OpenFails(a) \/ BeginFails(a) \/ SelectEquipment(a)
               \/ EquipmentMissing(a) \/ RefuseStale(a) \/ RefuseSame(a)
               \/ TargetMissing(a) \/ ShareTarget(a) \/ UpdateLocation(a)
               \/ ReadClock(a) \/ ClockRefused(a) \/ InsertHistory(a)
               \/ DuplicateId(a) \/ AskForKey(a) \/ StatementFails(a)
               \/ RollbackReturns(a)
               \/ RollbackRaises(a) \/ SendCommit(a) \/ CommitReturns(a)
               \/ CommitRaises(a) \/ ServerAbort(a) \/ ClientCrash(a)
               \/ Reconcile(a)
      PROVE  ReferencesResolve'
    BY <1>2 DEF CallerEnds, EndTx, RefuseInput, Return, RefuseActive, Begin,
        OpenFails, BeginFails, SelectEquipment, EquipmentMissing, Raise,
        RefuseStale, RefuseSame, TargetMissing, SourceAccepted, ShareTarget,
        UpdateLocation, ReadClock, ClockRefused, InsertHistory, DuplicateId,
        AskForKey,
        StatementFails, Outstanding, RollbackReturns, RollbackRaises,
        SendCommit, CommitReturns, CommitRaises, ServerAbort, ClientCrash,
        Reconcile
<1>3. ASSUME NEW a \in Attempts, NEW e \in Equipment, CallerBegins(a, e)
      PROVE  ReferencesResolve'
    BY <1>3 DEF CallerBegins
<1>4. ASSUME NEW l \in LabIds, DropLab(l) \/ AddLab(l)
      PROVE  ReferencesResolve'
    BY <1>4 DEF DropLab, AddLab
<1>5. CASE UNCHANGED vars
    BY <1>5 DEF vars
<1>. QED
    BY <1>1, <1>2, <1>3, <1>4, <1>5
    DEF Next, ClientNext, ServerNext, LabsNext, Proceed

(* A stamp read under the row lock stays the latest of the equipment.      *)
LEMMA StampIsLatestStep ==
    TypeOK /\ TypeOK' /\ IInv /\ [Next]_vars => StampIsLatest'
<1> SUFFICES ASSUME TypeOK, TypeOK', StampIsLatest, PhaseAgrees,
                    AbortIsNoticed, LocksHeld, [Next]_vars PROVE StampIsLatest'
    BY DEF IInv
<1> USE ConstantsAssumption DEF TypeOK, StampIsLatest, PhaseAgrees,
        AbortIsNoticed, LocksHeld, Writing, Row
<1>1. ASSUME NEW a \in Attempts, CallerEnds(a) PROVE StampIsLatest'
    BY <1>1 DEF CallerEnds, EndTx
<1>2. ASSUME NEW a \in Attempts,
             RefuseInput(a) \/ RefuseActive(a) \/ OpenFails(a)
      PROVE  StampIsLatest'
    BY <1>2 DEF RefuseInput, Return, RefuseActive, OpenFails
<1>3. ASSUME NEW a \in Attempts, Begin(a) PROVE StampIsLatest'
    BY <1>3 DEF Begin
<1>4. ASSUME NEW a \in Attempts, BeginFails(a) PROVE StampIsLatest'
    BY <1>4 DEF BeginFails, Return
<1>5. ASSUME NEW a \in Attempts, SelectEquipment(a) PROVE StampIsLatest'
    BY <1>5 DEF SelectEquipment
<1>6. ASSUME NEW a \in Attempts,
             EquipmentMissing(a) \/ RefuseStale(a) \/ RefuseSame(a)
               \/ TargetMissing(a) \/ ClockRefused(a) \/ DuplicateId(a)
               \/ AskForKey(a)
      PROVE  StampIsLatest'
    BY <1>6 DEF EquipmentMissing, Raise, RefuseStale, RefuseSame,
        TargetMissing, SourceAccepted, ClockRefused, DuplicateId, AskForKey
<1>7. ASSUME NEW a \in Attempts, ShareTarget(a) PROVE StampIsLatest'
    BY <1>7 DEF ShareTarget, SourceAccepted
<1>8. ASSUME NEW a \in Attempts, UpdateLocation(a) PROVE StampIsLatest'
    BY <1>8 DEF UpdateLocation
<1>9. ASSUME NEW a \in Attempts, ReadClock(a) PROVE StampIsLatest'
    <2>1. PICK t \in (clock + 1 - ClockSkew .. clock + 1) \cap Nat :
             stamp' = [stamp EXCEPT ![a] = t]
        BY <1>9 DEF ReadClock
    <2>2. /\ clock' = clock + 1 /\ pc' = [pc EXCEPT ![a] = "inserting"]
          /\ UNCHANGED <<history, tx, req>>
          /\ tx[a] \in {"updated", "aborted"}
        BY <1>9 DEF ReadClock
    <2>3. clock \in Nat /\ \A h \in history : h.time \in Nat
        BY DEF Records
    <2>4. \A h \in history' : h.time <= clock'
        BY <2>2, <2>3
    <2>5. \A b \in Attempts : stamp'[b] <= clock'
        BY <2>1, <2>2, <2>3
    <2>6. ASSUME ClockSkew = 0,
                 NEW b \in Attempts,
                 tx'[b] \in {"inserted", "committing"}
                   \/ (tx'[b] = "updated" /\ pc'[b] = "inserting"),
                 NEW h \in history', h.equipment = req'[b].equipment
          PROVE  h.time < stamp'[b]
        <3>1. CASE b = a
            <4>1. stamp'[a] = clock + 1
                BY <2>1, <2>3, <2>6
            <4>. QED
                BY <3>1, <4>1, <2>2, <2>3
        <3>2. CASE b # a
            <4>1. stamp'[b] = stamp[b] /\ pc'[b] = pc[b]
                BY <2>1, <2>2, <3>2
            <4>. QED
                BY <4>1, <2>2, <2>6
        <3>. QED
            BY <3>1, <3>2
    <2>. QED
        BY <2>4, <2>5, <2>6
<1>10. ASSUME NEW a \in Attempts, InsertHistory(a) PROVE StampIsLatest'
    <2>1. /\ pc[a] = "inserting" /\ conn[a] = "open"
          /\ tx' = [tx EXCEPT ![a] = "inserted"]
          /\ UNCHANGED <<history, stamp, clock, req>>
        BY <1>10 DEF InsertHistory
    <2>2. tx[a] = "updated"
        BY <2>1
    <2>3. \A b \in Attempts : b # a => tx'[b] = tx[b] /\ pc'[b] = pc[b]
        BY <1>10 DEF InsertHistory
    <2>. QED
        BY <2>1, <2>2, <2>3
<1>11. ASSUME NEW a \in Attempts, StatementFails(a) PROVE StampIsLatest'
    BY <1>11 DEF StatementFails, Raise, EndTx, Outstanding, SourceAccepted
<1>12. ASSUME NEW a \in Attempts, RollbackReturns(a) PROVE StampIsLatest'
    BY <1>12 DEF RollbackReturns, Return, EndTx
<1>13. ASSUME NEW a \in Attempts,
             RollbackRaises(a) \/ CommitReturns(a) \/ CommitRaises(a)
      PROVE  StampIsLatest'
    BY <1>13 DEF RollbackRaises, Return, CommitReturns, CommitRaises
<1>14. ASSUME NEW a \in Attempts, SendCommit(a) PROVE StampIsLatest'
    BY <1>14 DEF SendCommit
<1>15. ASSUME NEW a \in Attempts, ServerCommit(a) PROVE StampIsLatest'
    BY <1>15 DEF ServerCommit, EndTx
<1>16. ASSUME NEW a \in Attempts, ServerAbort(a) PROVE StampIsLatest'
    BY <1>16 DEF ServerAbort, EndTx
<1>17. ASSUME NEW a \in Attempts, ClientCrash(a) PROVE StampIsLatest'
    BY <1>17 DEF ClientCrash
<1>18. ASSUME NEW a \in Attempts, Reconcile(a) PROVE StampIsLatest'
    BY <1>18 DEF Reconcile
<1>19. ASSUME NEW a \in Attempts, NEW e \in Equipment, CallerBegins(a, e)
      PROVE  StampIsLatest'
    BY <1>19 DEF CallerBegins
<1>20. ASSUME NEW l \in LabIds, DropLab(l) \/ AddLab(l)
      PROVE  StampIsLatest'
    BY <1>20 DEF DropLab, AddLab
<1>21. CASE UNCHANGED vars
    BY <1>21 DEF vars
<1>. QED
    BY <1>1, <1>2, <1>3, <1>4, <1>5, <1>6, <1>7, <1>8, <1>9, <1>10, <1>11,
       <1>12, <1>13, <1>14, <1>15, <1>16, <1>17, <1>18, <1>19, <1>20, <1>21
    DEF Next, ClientNext, ServerNext, LabsNext, Proceed

(* A verdict once given stays right, whatever COMMIT is on its way.        *)
LEMMA VerdictSoundStep ==
    TypeOK /\ TypeOK' /\ IInv /\ [Next]_vars => VerdictSound'
<1> SUFFICES ASSUME TypeOK, TypeOK', VerdictSound, PhaseAgrees, ConflictSeen,
                    PendingKeys, HistoryExact, AppliedOnce, [Next]_vars
             PROVE  VerdictSound'
    BY DEF IInv
<1> USE ConstantsAssumption DEF TypeOK, VerdictSound, PhaseAgrees,
        ConflictSeen, PendingKeys, HistoryExact, AppliedOnce, Row, Payload
<1>1. ASSUME NEW a \in Attempts, CallerEnds(a) PROVE VerdictSound'
    BY <1>1 DEF CallerEnds, EndTx
<1>2. ASSUME NEW a \in Attempts, Begin(a) PROVE VerdictSound'
    BY <1>2 DEF Begin
<1>3. ASSUME NEW a \in Attempts, BeginFails(a) PROVE VerdictSound'
    BY <1>3 DEF BeginFails, Return
<1>4. ASSUME NEW a \in Attempts, UpdateLocation(a) PROVE VerdictSound'
    BY <1>4 DEF UpdateLocation
<1>5. ASSUME NEW a \in Attempts, InsertHistory(a) PROVE VerdictSound'
    BY <1>5 DEF InsertHistory
<1>6. ASSUME NEW a \in Attempts, StatementFails(a) PROVE VerdictSound'
    BY <1>6 DEF StatementFails, Raise, EndTx, Outstanding, SourceAccepted
<1>7. ASSUME NEW a \in Attempts, RollbackReturns(a) PROVE VerdictSound'
    BY <1>7 DEF RollbackReturns, Return, EndTx
<1>8. ASSUME NEW a \in Attempts, SendCommit(a) PROVE VerdictSound'
    BY <1>8 DEF SendCommit
<1>9. ASSUME NEW a \in Attempts, ServerCommit(a) PROVE VerdictSound'
    BY <1>9 DEF ServerCommit, EndTx
<1>10. ASSUME NEW a \in Attempts, ServerAbort(a) PROVE VerdictSound'
    BY <1>10 DEF ServerAbort, EndTx
<1>11. ASSUME NEW a \in Attempts, Reconcile(a) PROVE VerdictSound'
    <2>1. UNCHANGED <<history, req, tx, stamp>>
        BY <1>11 DEF Reconcile
    <2>2. \A b \in Attempts : b # a => verdict'[b] = verdict[b]
        BY <1>11 DEF Reconcile
    <2>3. CASE verdict' = [verdict EXCEPT ![a] = "NOT_FOUND"]
        BY <2>1, <2>2, <2>3
    <2>4. ASSUME NEW h \in history, h.id = req[a].id,
                 verdict' = [verdict EXCEPT ![a] =
                   IF Payload(h) = req[a] THEN "MATCHING_COMMITTED"
                                          ELSE "TRANSFER_ID_CONFLICT"]
          PROVE  VerdictSound'
        <3>1. CASE Payload(h) = req[a]
            BY <2>1, <2>2, <2>4, <3>1
        <3>2. CASE Payload(h) # req[a]
            <4>1. tx[a] # "committing"
                BY <2>4
            <4>2. tx[a] # "committed"
                <5> SUFFICES ASSUME tx[a] = "committed" PROVE FALSE
                    OBVIOUS
                <5>1. Row(a) \in history /\ Row(a).id = h.id
                    BY <2>4 DEF Row
                <5>2. h = Row(a)
                    BY <5>1, <2>4
                <5>3. Payload(Row(a)) = req[a]
                    BY DEF Row, Payload, RequestType
                <5>. QED
                    BY <5>2, <5>3, <3>2
            <4>. QED
                BY <2>1, <2>2, <2>4, <3>2, <4>1, <4>2
        <3>. QED
            BY <3>1, <3>2
    <2>. QED
        BY <1>11, <2>3, <2>4 DEF Reconcile
<1>12. CASE UNCHANGED <<verdict, history, tx, req>>
    BY <1>12
<1>13. ASSUME NEW a \in Attempts, NEW e \in Equipment, CallerBegins(a, e)
      PROVE  VerdictSound'
    BY <1>13 DEF CallerBegins
<1>14. ASSUME NEW l \in LabIds, DropLab(l) \/ AddLab(l)
      PROVE  VerdictSound'
    BY <1>14 DEF DropLab, AddLab
<1>15. CASE UNCHANGED vars
    BY <1>15 DEF vars
<1>. QED
    BY <1>1, <1>2, <1>3, <1>4, <1>5, <1>6, <1>7, <1>8, <1>9, <1>10, <1>11,
       <1>12, <1>13, <1>14, <1>15
    DEF Next, ClientNext, ServerNext, LabsNext, Proceed, RefuseInput,
        RefuseActive, OpenFails, SelectEquipment, EquipmentMissing,
        RefuseStale, RefuseSame, TargetMissing, ShareTarget, ReadClock,
        ClockRefused, DuplicateId, AskForKey, RollbackRaises, CommitReturns,
        CommitRaises,
        ClientCrash

(* A conflicting record stays.                                             *)
LEMMA ConflictSeenStep ==
    TypeOK /\ TypeOK' /\ IInv /\ [Next]_vars => ConflictSeen'
<1> SUFFICES ASSUME TypeOK, TypeOK', ConflictSeen, [Next]_vars
             PROVE  ConflictSeen'
    BY DEF IInv
<1> USE ConstantsAssumption DEF TypeOK, ConflictSeen, Payload
<1>1. ASSUME NEW a \in Attempts, ServerCommit(a) PROVE ConflictSeen'
    BY <1>1 DEF ServerCommit, EndTx
<1>2. ASSUME NEW a \in Attempts, Reconcile(a) PROVE ConflictSeen'
    BY <1>2 DEF Reconcile
<1>3. ASSUME NEW a \in Attempts,
             CallerEnds(a) \/ RefuseInput(a) \/ RefuseActive(a) \/ Begin(a)
               \/ OpenFails(a) \/ BeginFails(a) \/ SelectEquipment(a)
               \/ EquipmentMissing(a) \/ RefuseStale(a) \/ RefuseSame(a)
               \/ TargetMissing(a) \/ ShareTarget(a) \/ UpdateLocation(a)
               \/ ReadClock(a) \/ ClockRefused(a) \/ InsertHistory(a)
               \/ DuplicateId(a) \/ AskForKey(a) \/ StatementFails(a)
               \/ RollbackReturns(a)
               \/ RollbackRaises(a) \/ SendCommit(a) \/ CommitReturns(a)
               \/ CommitRaises(a) \/ ServerAbort(a) \/ ClientCrash(a)
      PROVE  ConflictSeen'
    BY <1>3 DEF CallerEnds, EndTx, RefuseInput, Return, RefuseActive, Begin,
        OpenFails, BeginFails, SelectEquipment, EquipmentMissing, Raise,
        RefuseStale, RefuseSame, TargetMissing, SourceAccepted, ShareTarget,
        UpdateLocation, ReadClock, ClockRefused, InsertHistory, DuplicateId,
        AskForKey,
        StatementFails, Outstanding, RollbackReturns, RollbackRaises,
        SendCommit, CommitReturns, CommitRaises, ServerAbort, ClientCrash
<1>4. ASSUME NEW a \in Attempts, NEW e \in Equipment, CallerBegins(a, e)
      PROVE  ConflictSeen'
    BY <1>4 DEF CallerBegins
<1>5. ASSUME NEW l \in LabIds, DropLab(l) \/ AddLab(l)
      PROVE  ConflictSeen'
    BY <1>5 DEF DropLab, AddLab
<1>6. CASE UNCHANGED vars
    BY <1>6 DEF vars
<1>. QED
    BY <1>1, <1>2, <1>3, <1>4, <1>5, <1>6
    DEF Next, ClientNext, ServerNext, LabsNext, Proceed

(* A connection handed back open has no transaction of the call.           *)
LEMMA DoneIsSettledStep ==
    TypeOK /\ TypeOK' /\ IInv /\ [Next]_vars => DoneIsSettled'
<1> SUFFICES ASSUME TypeOK, TypeOK', DoneIsSettled, PhaseAgrees,
                    AbortIsNoticed, [Next]_vars PROVE DoneIsSettled'
    BY DEF IInv
<1> USE ConstantsAssumption DEF TypeOK, DoneIsSettled, PhaseAgrees,
        AbortIsNoticed, Active
<1>1. ASSUME NEW a \in Attempts, CallerEnds(a) PROVE DoneIsSettled'
    BY <1>1 DEF CallerEnds, EndTx
<1>2. ASSUME NEW a \in Attempts,
             RefuseInput(a) \/ RefuseActive(a) \/ OpenFails(a)
      PROVE  DoneIsSettled'
    BY <1>2 DEF RefuseInput, Return, RefuseActive, OpenFails
<1>3. ASSUME NEW a \in Attempts, Begin(a) PROVE DoneIsSettled'
    BY <1>3 DEF Begin
<1>4. ASSUME NEW a \in Attempts, BeginFails(a) PROVE DoneIsSettled'
    BY <1>4 DEF BeginFails, Return
<1>5. ASSUME NEW a \in Attempts, SelectEquipment(a) PROVE DoneIsSettled'
    BY <1>5 DEF SelectEquipment
<1>6. ASSUME NEW a \in Attempts,
             EquipmentMissing(a) \/ RefuseStale(a) \/ RefuseSame(a)
               \/ TargetMissing(a) \/ ClockRefused(a) \/ DuplicateId(a)
               \/ AskForKey(a)
      PROVE  DoneIsSettled'
    BY <1>6 DEF EquipmentMissing, Raise, RefuseStale, RefuseSame,
        TargetMissing, SourceAccepted, ClockRefused, DuplicateId, AskForKey
<1>7. ASSUME NEW a \in Attempts, ShareTarget(a) PROVE DoneIsSettled'
    BY <1>7 DEF ShareTarget, SourceAccepted
<1>8. ASSUME NEW a \in Attempts, UpdateLocation(a) PROVE DoneIsSettled'
    BY <1>8 DEF UpdateLocation
<1>9. ASSUME NEW a \in Attempts, ReadClock(a) PROVE DoneIsSettled'
    BY <1>9 DEF ReadClock
<1>10. ASSUME NEW a \in Attempts, InsertHistory(a) PROVE DoneIsSettled'
    BY <1>10 DEF InsertHistory
<1>11. ASSUME NEW a \in Attempts, StatementFails(a) PROVE DoneIsSettled'
    BY <1>11 DEF StatementFails, Raise, EndTx, Outstanding, SourceAccepted
<1>12. ASSUME NEW a \in Attempts, RollbackReturns(a) PROVE DoneIsSettled'
    BY <1>12 DEF RollbackReturns, Return, EndTx
<1>13. ASSUME NEW a \in Attempts,
             RollbackRaises(a) \/ CommitReturns(a) \/ CommitRaises(a)
      PROVE  DoneIsSettled'
    BY <1>13 DEF RollbackRaises, Return, CommitReturns, CommitRaises
<1>14. ASSUME NEW a \in Attempts, SendCommit(a) PROVE DoneIsSettled'
    BY <1>14 DEF SendCommit
<1>15. ASSUME NEW a \in Attempts, ServerCommit(a) PROVE DoneIsSettled'
    BY <1>15 DEF ServerCommit, EndTx
<1>16. ASSUME NEW a \in Attempts, ServerAbort(a) PROVE DoneIsSettled'
    BY <1>16 DEF ServerAbort, EndTx
<1>17. ASSUME NEW a \in Attempts, ClientCrash(a) PROVE DoneIsSettled'
    BY <1>17 DEF ClientCrash
<1>18. ASSUME NEW a \in Attempts, Reconcile(a) PROVE DoneIsSettled'
    BY <1>18 DEF Reconcile
<1>19. ASSUME NEW a \in Attempts, NEW e \in Equipment, CallerBegins(a, e)
      PROVE  DoneIsSettled'
    BY <1>19 DEF CallerBegins
<1>20. ASSUME NEW l \in LabIds, DropLab(l) \/ AddLab(l)
      PROVE  DoneIsSettled'
    BY <1>20 DEF DropLab, AddLab
<1>21. CASE UNCHANGED vars
    BY <1>21 DEF vars
<1>. QED
    BY <1>1, <1>2, <1>3, <1>4, <1>5, <1>6, <1>7, <1>8, <1>9, <1>10, <1>11,
       <1>12, <1>13, <1>14, <1>15, <1>16, <1>17, <1>18, <1>19, <1>20, <1>21
    DEF Next, ClientNext, ServerNext, LabsNext, Proceed

(* With clocks that agree, COMMIT adds a record that follows every other   *)
(* of its equipment, and no other step changes locations or history.       *)
LEMMA LatestStep ==
    ASSUME TypeOK, TypeOK', IInv, LatestTransferMatchesLocation,
           ClockSkew = 0, [Next]_vars
    PROVE  LatestTransferMatchesLocation'
<1> USE DEF LatestTransferMatchesLocation
<1>1. CASE UNCHANGED <<location, history>>
    BY <1>1 DEF LatestNamesPlace
<1>2. ASSUME NEW a \in Attempts, ServerCommit(a)
      PROVE  LatestTransferMatchesLocation'
    <2> DEFINE e == req[a].equipment
    <2>1. /\ location' = [location EXCEPT ![e] = req[a].target]
          /\ history' = history \cup {Row(a)}
        BY <1>2 DEF ServerCommit
    <2>2. /\ tx[a] = "committing"
          /\ e \in Equipment
        BY <1>2 DEF ServerCommit, IInv, LocksHeld, Writing
    <2>3. \A h \in history : h.equipment = e => h.time < stamp[a]
        BY <2>2 DEF IInv, StampIsLatest
    <2>4. location'[e] = req[a].target
        BY <2>1, <2>2 DEF TypeOK
    <2>5. Row(a).equipment = e /\ Row(a).target = req[a].target
            /\ Row(a).time = stamp[a] /\ stamp[a] \in Nat
        BY DEF Row, TypeOK
    <2>6. ASSUME NEW m \in history',
                 \A n \in history' :
                     n.equipment = m.equipment => ~Follows(n, m)
          PROVE  location'[m.equipment] = m.target
        <3>1. CASE m = Row(a)
            BY <3>1, <2>4, <2>5
        <3>2. CASE m \in history /\ m.equipment = e
            <4>1. Follows(Row(a), m)
                BY <2>3, <2>5, <3>2 DEF Follows, TypeOK, Records
            <4>. QED
                BY <4>1, <2>1, <2>5, <2>6, <3>2
        <3>3. CASE m \in history /\ m.equipment # e
            <4>1. location'[m.equipment] = location[m.equipment]
                BY <2>1, <3>3 DEF TypeOK, Records
            <4>2. location[m.equipment] = m.target
                BY <2>1, <2>6, <3>3 DEF LatestNamesPlace
            <4>. QED
                BY <4>1, <4>2
        <3>. QED
            BY <2>1, <3>1, <3>2, <3>3
    <2>. QED
        BY <2>6 DEF LatestNamesPlace
<1>3. ASSUME NEW a \in Attempts, ClientNext(a) \/ ServerAbort(a)
      PROVE  UNCHANGED <<location, history>>
    BY <1>3 DEF ClientNext, Proceed, CallerBegins, CallerEnds, RefuseInput,
        RefuseActive, Begin, OpenFails, BeginFails, SelectEquipment,
        EquipmentMissing, RefuseStale, RefuseSame, TargetMissing, ShareTarget,
        UpdateLocation, ReadClock, ClockRefused, InsertHistory, DuplicateId,
        AskForKey,
        StatementFails, RollbackReturns, RollbackRaises, SendCommit,
        CommitReturns, CommitRaises, ClientCrash, Reconcile, ServerAbort
<1>4. ASSUME LabsNext PROVE UNCHANGED <<location, history>>
    BY <1>4 DEF LabsNext, DropLab, AddLab
<1>5. CASE UNCHANGED vars
    BY <1>1, <1>5 DEF vars
<1>. QED
    BY <1>1, <1>2, <1>3, <1>4, <1>5 DEF Next, ServerNext

(* The initial states satisfy the invariant.                               *)
LEMMA InitIInv == Init => IInv
<1> SUFFICES ASSUME Init PROVE IInv
    OBVIOUS
<1> USE ConstantsAssumption, InitialDataAssumption DEF Init
<1>1. TypeOK
    BY DEF TypeOK
<1>2. PhaseAgrees /\ AbortIsNoticed /\ DoneIsSettled
    BY DEF PhaseAgrees, AbortIsNoticed, DoneIsSettled
<1>3. LocksBelong
    BY DEF LocksBelong
<1>4. LocksHeld
    BY DEF LocksHeld, Writing
<1>5. PendingKeys /\ SharesHaveCause /\ HistoryExact
    BY DEF PendingKeys, SharesHaveCause, HistoryExact
<1>6. AnswerAgrees /\ VerdictSound /\ ConflictSeen
    BY DEF AnswerAgrees, VerdictSound, ConflictSeen
<1>7. AppliedOnce
    BY DEF AppliedOnce
<1>8. ReferencesResolve
    BY DEF ReferencesResolve
<1>9. StampIsLatest
    BY DEF StampIsLatest
<1>10. LatestTransferMatchesLocation
    BY DEF LatestTransferMatchesLocation
<1>. QED
    BY <1>1, <1>2, <1>3, <1>4, <1>5, <1>6, <1>7, <1>8, <1>9, <1>10 DEF IInv

(* Every step preserves it.                                                *)
LEMMA IInvStep == IInv /\ [Next]_vars => IInv'
<1> SUFFICES ASSUME IInv, [Next]_vars PROVE IInv'
    OBVIOUS
<1>1. TypeOK /\ TypeOK'
    BY TypeStep DEF IInv
<1>2. (ClockSkew = 0 => LatestTransferMatchesLocation)'
    BY <1>1, LatestStep DEF IInv
<1>. QED
    BY <1>1, <1>2, PhaseAgreesStep, AbortIsNoticedStep, LocksBelongStep,
       LocksHeldStep, PendingKeysStep, SharesHaveCauseStep, AnswerAgreesStep,
       AppliedOnceStep, HistoryExactStep, ReferencesResolveStep,
       StampIsLatestStep, VerdictSoundStep, ConflictSeenStep,
       DoneIsSettledStep
    DEF IInv

(* The inductive invariant holds in every reachable state.                 *)
THEOREM Invariance == Spec => []IInv
<1>. QED
    BY InitIInv, IInvStep, PTL DEF Spec

(* Variables keep their types: in particular what COMMIT appends is a      *)
(* well-formed record of existing equipment.                               *)
THEOREM TypeCorrect == Spec => []TypeOK
<1>1. IInv => TypeOK
    BY DEF IInv
<1>. QED
    BY <1>1, Invariance, PTL

(* From its check to COMMIT the source a caller named stays the committed  *)
(* location, and equipment has one writer at a time (transactions.py:167). *)
THEOREM SourceIsCurrent == Spec => []SourceStaysCurrent
<1>1. IInv => SourceStaysCurrent
    BY DEF IInv, LocksHeld, SourceStaysCurrent
<1>. QED
    BY <1>1, Invariance, PTL

(* A target that SELECT ... FOR SHARE found stays until the transaction    *)
(* ends (transactions.py:188).                                             *)
THEOREM TargetIsPresent == Spec => []TargetStaysPresent
<1>1. IInv => TargetStaysPresent
    BY DEF IInv, LocksHeld, TargetStaysPresent
<1>. QED
    BY <1>1, Invariance, PTL

(* SUCCESS is durable, and a definite error never becomes a move           *)
(* (transactions.py:224-248).                                              *)
THEOREM AnswersAgree == Spec => []AnswerAgrees
<1>1. IInv => AnswerAgrees
    BY DEF IInv
<1>. QED
    BY <1>1, Invariance, PTL

(* However often a call is retried under one identifier, it is applied at  *)
(* most once, and the history holds exactly what was applied.              *)
THEOREM OncePerIdentifier == Spec => []AppliedOnce
<1>1. IInv => AppliedOnce
    BY DEF IInv
<1>. QED
    BY <1>1, Invariance, PTL

(* What reconciliation says is right and stays right                       *)
(* (transactions.py:341).                                                  *)
THEOREM VerdictsAreSound == Spec => []VerdictSound
<1>1. IInv => VerdictSound
    BY DEF IInv
<1>. QED
    BY <1>1, Invariance, PTL

(* A connection handed back open has no transaction or lock of the call    *)
(* (transactions.py:107-121).                                              *)
THEOREM ConnectionsAreClean == Spec => []NothingLeftBehind
<1>1. IInv => NothingLeftBehind
    BY DEF IInv, DoneIsSettled, LocksBelong, NothingLeftBehind, Active,
        Writing
<1>. QED
    BY <1>1, Invariance, PTL

(* If a waits for b and b for c, then b is at its INSERT: who holds an     *)
(* equipment row, a call or a caller, waits for nothing but an identifier. *)
LEMMA WaitedForInserts ==
    ASSUME IInv, NEW a \in Attempts, NEW b \in Attempts, NEW c \in Attempts,
           WaitsFor(a, b), WaitsFor(b, c)
    PROVE  pc[b] = "inserting"
<1> USE DEF IInv, WaitsFor, PhaseAgrees
<1>1. ASSUME NEW d \in Attempts, NEW f \in Attempts,
             WaitsFor(d, f), pc[d] = "updating"
      PROVE  FALSE
    <2>1. tx[d] = "open"
        BY <1>1 DEF AbortIsNoticed
    <2> QED
        BY <1>1, <2>1 DEF LocksHeld
<1>2. CASE pc[a] = "inserting"
    BY <1>2 DEF InsertWaitsFor, Inserted, LocksBelong, Writing
<1>3. CASE pc[a] # "inserting"
    <2>1. /\ pc[a] = "locking" /\ rowLock[req[a].equipment] = b
          /\ req[a].equipment \in Equipment
        BY <1>1, <1>3
    <2>2. pc[b] # "locking"
        BY <2>1 DEF LocksBelong
    <2> QED
        BY <1>1, <2>2
<1> QED
    BY <1>2, <1>3

(* If a is at its INSERT too and c waits for d, what a waits for is the    *)
(* shared lock of b, whose INSERT met one that was rolled back.            *)
LEMMA WaitedForReinserts ==
    ASSUME IInv, NEW a \in Attempts, NEW b \in Attempts, NEW c \in Attempts,
           NEW d \in Attempts, pc[a] = "inserting",
           WaitsFor(a, b), WaitsFor(b, c), WaitsFor(c, d)
    PROVE  Reinserts(b)
<1>1. pc[b] = "inserting" /\ pc[c] = "inserting"
    BY WaitedForInserts
<1>2. ~Inserted(b) /\ ~Inserted(c)
    BY <1>1 DEF IInv, PhaseAgrees, Inserted
<1>3. b \in keyShare /\ ~KeyUsed(b) /\ ~KeyPending(b)
    BY <1>1, <1>2 DEF WaitsFor, InsertWaitsFor
<1> QED
    BY <1>1, <1>3 DEF Reinserts, IInv, SharesHaveCause, KeyPending

(* Calls wait in a circle only over identifiers they share with a call     *)
(* that was rolled back (transactions.py:154, 167-221).                    *)
THEOREM DeadlocksAreOfReuse == Spec => []OnlyReusedIdsDeadlock
<1>1. ASSUME IInv, NEW S \in (SUBSET Attempts) \ {{}},
             \A a \in S : \E b \in S : WaitsFor(a, b)
      PROVE  \E a, b \in S : a # b /\ Reinserts(a) /\ Reinserts(b)
    <2>1. PICK a \in S : TRUE
        OBVIOUS
    <2>2. PICK b \in S : WaitsFor(a, b)
        BY <1>1
    <2>3. PICK c \in S : WaitsFor(b, c)
        BY <1>1
    <2>4. PICK d \in S : WaitsFor(c, d)
        BY <1>1
    <2>5. PICK e \in S : WaitsFor(d, e)
        BY <1>1
    <2>6. PICK f \in S : WaitsFor(e, f)
        BY <1>1
    <2>7. pc[b] = "inserting" /\ pc[c] = "inserting"
        BY <1>1, <2>2, <2>3, <2>4, WaitedForInserts
    <2>8. Reinserts(c)
        BY <1>1, <2>3, <2>4, <2>5, <2>7, WaitedForReinserts
    <2>9. Reinserts(d)
        BY <1>1, <2>4, <2>5, <2>6, <2>7, WaitedForReinserts
    <2>10. c # d
        BY <2>4 DEF WaitsFor
    <2> QED
        BY <2>8, <2>9, <2>10
<1>2. IInv => OnlyReusedIdsDeadlock
    BY <1>1 DEF OnlyReusedIdsDeadlock
<1> QED
    BY <1>2, Invariance, PTL

(* V16 of verify.py, for clocks that agree: the latest record of every     *)
(* equipment names its location.                                           *)
THEOREM LatestRecordNamesLocation ==
    ASSUME ClockSkew = 0
    PROVE  Spec => []LatestTransferMatchesLocation
<1>1. IInv => LatestTransferMatchesLocation
    BY DEF IInv
<1>. QED
    BY <1>1, Invariance, PTL
=============================================================================
