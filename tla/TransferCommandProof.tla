------------------------ MODULE TransferCommandProof ------------------------
(***************************************************************************)
(* The action property of EquipmentTransfer, the balance of its records,   *)
(* what the exit status of TransferCommand says of it, the proof that it   *)
(* implements TransferLedger, and what it is beside a verification.        *)
(***************************************************************************)
EXTENDS VerifiedTransfer, EquipmentTransferProof, FiniteSetTheorems

USE DEF database, locks, PCs, TxStates, Failures, Unknown, Outcomes, Verdicts

(* Only its caller's own steps end a caller's transaction: the refusal     *)
(* leaves it, and no other step of the call can meet it.                   *)
LEMMA CallerStep ==
    ASSUME IInv, [Next]_vars, NEW a \in Attempts,
           tx[a] = "caller", pc'[a] # pc[a]
    PROVE  /\ tx'[a] = "caller"
           /\ \A e \in Equipment : rowLock[e] = a => rowLock'[e] = a
<1> USE DEF IInv, TypeOK
<1>1. pc[a] \in {"idle", "done"} /\ ~Active(a)
    BY DEF PhaseAgrees, Active
<1>2. ASSUME NEW b \in Attempts, ClientNext(b) \/ ServerNext(b), b # a
      PROVE  pc'[a] = pc[a]
    BY <1>2 DEF ClientNext, Proceed, CallerBegins, CallerEnds, RefuseInput,
        RefuseActive, Begin, OpenFails, BeginFails, SelectEquipment,
        EquipmentMissing, RefuseStale, RefuseSame, TargetMissing, ShareTarget,
        UpdateLocation, ReadClock, ClockRefused, InsertHistory, DuplicateId,
        AskForKey,
        StatementFails, RollbackReturns, RollbackRaises, SendCommit,
        CommitReturns, CommitRaises, ClientCrash, Reconcile, ServerNext,
        ServerCommit, ServerAbort, Raise, Return
<1>3. ASSUME ClientNext(a) \/ ServerNext(a)
      PROVE  UNCHANGED <<tx, rowLock>>
    <2>1. CASE RefuseInput(a) \/ RefuseActive(a) \/ OpenFails(a)
        BY <2>1 DEF RefuseInput, RefuseActive, OpenFails
    <2>2. CASE CallerEnds(a) \/ \E e \in Equipment : CallerBegins(a, e)
        BY <2>2 DEF CallerEnds, CallerBegins
    <2>3. CASE Reconcile(a)
        BY <2>3 DEF Reconcile
    <2>4. CASE ServerNext(a)
        BY <1>1, <2>4 DEF ServerNext, ServerCommit, ServerAbort
    <2>5. CASE Proceed(a) \/ Begin(a) \/ BeginFails(a) \/ StatementFails(a)
                 \/ ClockRefused(a) \/ CommitRaises(a) \/ ClientCrash(a)
        BY <1>1, <2>5 DEF Proceed, Begin, BeginFails, SelectEquipment,
            EquipmentMissing, RefuseStale, RefuseSame, TargetMissing,
            ShareTarget, SourceAccepted, UpdateLocation, ReadClock,
            ClockRefused, InsertHistory, DuplicateId, AskForKey,
            StatementFails,
            Outstanding, RollbackReturns, RollbackRaises, SendCommit,
            CommitReturns, CommitRaises, ClientCrash
    <2>. QED
        BY <1>3, <2>1, <2>2, <2>3, <2>4, <2>5 DEF ClientNext
<1>4. CASE LabsNext \/ UNCHANGED vars
    BY <1>4 DEF LabsNext, DropLab, AddLab, vars
<1>. QED
    BY <1>2, <1>3, <1>4 DEF Next

(* No step of a call ends the transaction its caller has open, or drops    *)
(* its locks (transactions.py:154).                                        *)
THEOREM CallerTransactionKept == Spec => CallerTransactionPreserved
<1>1. IInv /\ [Next]_vars =>
        [\A a \in Attempts :
           tx[a] = "caller" /\ pc'[a] # pc[a] =>
             /\ tx'[a] = "caller"
             /\ \A e \in Equipment : rowLock[e] = a => rowLock'[e] = a]_vars
    BY CallerStep
<1>. QED
    BY <1>1, Invariance, PTL DEF Spec, CallerTransactionPreserved

-----------------------------------------------------------------------------
(* The books of arrivals and departures: the two sets EveryMoveRecorded    *)
(* counts.                                                                 *)
New(hist, e) == {h \in hist \ InitHistory : h.equipment = e}
Arrivals(hist, e, l) == {h \in New(hist, e) : h.target = l}
Departures(hist, e, l) == {h \in New(hist, e) : h.source = l}
At(loc, e, l) == IF loc[e] = l THEN 1 ELSE 0

Balanced(hist, loc) ==
    \A e \in Equipment, l \in LabIds :
        Cardinality(Arrivals(hist, e, l)) - Cardinality(Departures(hist, e, l))
          = At(loc, e, l) - At(InitLocation, e, l)

LEMMA BalancedIsRecorded == Balanced(history, location) <=> EveryMoveRecorded
  BY DEF Balanced, EveryMoveRecorded, New, Arrivals, Departures, At

(* Adding a member that is not there adds one. *)
LEMMA OneMore ==
    ASSUME NEW S, NEW T, NEW x, NEW P, IsFiniteSet(S), x \notin S, P \in BOOLEAN,
           T = IF P THEN S \cup {x} ELSE S
    PROVE  Cardinality(S) \in Nat
           /\ Cardinality(T) = IF P THEN Cardinality(S) + 1 ELSE Cardinality(S)
<1>1. Cardinality(S) \in Nat
    BY FS_CardinalityType
<1>2. Cardinality(S \cup {x}) = Cardinality(S) + 1
    BY FS_AddElement
<1>. QED
    BY <1>1, <1>2

(* Only the server's COMMIT changes locations or records. *)
LEMMA OnlyCommitWrites ==
    ASSUME IInv, [Next]_vars
    PROVE  \/ UNCHANGED <<location, history>>
           \/ \E a \in Attempts : ServerCommit(a)
<1>1. ASSUME NEW a \in Attempts, ClientNext(a)
      PROVE  UNCHANGED <<location, history>>
    BY <1>1 DEF ClientNext, Proceed, CallerBegins, CallerEnds, RefuseInput,
        RefuseActive, Begin, OpenFails, BeginFails, SelectEquipment,
        EquipmentMissing, RefuseStale, RefuseSame, TargetMissing, ShareTarget,
        UpdateLocation, ReadClock, ClockRefused, InsertHistory, DuplicateId,
        AskForKey,
        StatementFails, RollbackReturns, RollbackRaises, SendCommit,
        CommitReturns, CommitRaises, ClientCrash, Reconcile
<1>2. ASSUME NEW a \in Attempts, ServerAbort(a)
      PROVE  UNCHANGED <<location, history>>
    BY <1>2 DEF ServerAbort
<1>3. CASE LabsNext \/ UNCHANGED vars
    BY <1>3 DEF LabsNext, DropLab, AddLab, vars
<1>. QED
    BY <1>1, <1>2, <1>3 DEF Next, ServerNext

(* A COMMIT moves one equipment from the source of its record, which is    *)
(* where it was, to the target, which is another place.                    *)
LEMMA CommitBalances ==
    ASSUME IInv, NEW a \in Attempts, ServerCommit(a),
           IsFiniteSet(history \ InitHistory), Balanced(history, location)
    PROVE  /\ IsFiniteSet(history' \ InitHistory)
           /\ Balanced(history', location')
<1>. DEFINE r == req[a]
            row == Row(a)
            e == r.equipment
<1>1. /\ Writing(a) /\ e \in Equipment /\ location[e] = r.source
      /\ r.source # r.target /\ location \in [Equipment -> LabIds]
    BY DEF ServerCommit, IInv, TypeOK, LocksHeld, Writing
<1>2. /\ row.id = r.id /\ row.equipment = e /\ row.source = r.source
      /\ row.target = r.target
    BY DEF Row
<1>3. row \notin history /\ row \notin InitHistory
    BY <1>2 DEF ServerCommit, IInv, PendingKeys, HistoryExact
<1>4. history' \ InitHistory = (history \ InitHistory) \cup {row}
    BY <1>3 DEF ServerCommit
<1>5. IsFiniteSet(history' \ InitHistory)
    BY <1>4, FS_AddElement
<1>6. ASSUME NEW f \in Equipment, NEW l \in LabIds
      PROVE  Cardinality(Arrivals(history', f, l))
               - Cardinality(Departures(history', f, l))
             = At(location', f, l) - At(InitLocation, f, l)
    <2>. DEFINE I == Arrivals(history, f, l)
                O == Departures(history, f, l)
                arrives == f = e /\ l = r.target
                departs == f = e /\ l = r.source
    <2>1. IsFiniteSet(I) /\ IsFiniteSet(O)
        <3>1. I \subseteq history \ InitHistory /\ O \subseteq history \ InitHistory
            BY DEF Arrivals, Departures, New
        <3>. QED
            BY <3>1, FS_Subset
    <2>2. row \notin I /\ row \notin O
        BY <1>3 DEF Arrivals, Departures, New
    <2>3. Arrivals(history', f, l) = IF arrives THEN I \cup {row} ELSE I
        BY <1>2, <1>4 DEF Arrivals, New
    <2>4. Departures(history', f, l) = IF departs THEN O \cup {row} ELSE O
        BY <1>2, <1>4 DEF Departures, New
    <2>5. /\ Cardinality(I) \in Nat
          /\ Cardinality(Arrivals(history', f, l)) =
               IF arrives THEN Cardinality(I) + 1 ELSE Cardinality(I)
        <3>. HIDE DEF I, arrives
        <3>1. arrives \in BOOLEAN
            BY DEF arrives
        <3>. QED
            BY <2>1, <2>2, <2>3, <3>1, OneMore
    <2>6. /\ Cardinality(O) \in Nat
          /\ Cardinality(Departures(history', f, l)) =
               IF departs THEN Cardinality(O) + 1 ELSE Cardinality(O)
        <3>. HIDE DEF O, departs
        <3>1. departs \in BOOLEAN
            BY DEF departs
        <3>. QED
            BY <2>1, <2>2, <2>4, <3>1, OneMore
    <2>7. At(location', f, l) =
            IF arrives THEN 1 ELSE IF departs THEN 0 ELSE At(location, f, l)
        BY <1>1 DEF ServerCommit, At
    <2>8. /\ arrives => At(location, f, l) = 0 /\ ~departs
          /\ departs => At(location, f, l) = 1
        BY <1>1 DEF At
    <2>9. /\ Cardinality(I) - Cardinality(O)
               = At(location, f, l) - At(InitLocation, f, l)
          /\ At(location, f, l) \in {0, 1} /\ At(InitLocation, f, l) \in {0, 1}
        BY DEF Balanced, At
    <2>. HIDE DEF I, O, arrives, departs
    <2>. QED
        BY <2>5, <2>6, <2>7, <2>8, <2>9
<1>. QED
    BY <1>5, <1>6 DEF Balanced

(* No move goes unrecorded and none is recorded twice, whatever the clocks *)
(* read (transactions.py:198-229).                                         *)
THEOREM MovesAreRecorded == Spec => []EveryMoveRecorded
<1>. DEFINE Books == IsFiniteSet(history \ InitHistory)
                       /\ Balanced(history, location)
<1>1. Init => Books
    <2>1. Init => history \ InitHistory = {}
        BY DEF Init
    <2>2. Init => \A e \in Equipment, l \in LabIds :
              Arrivals(history, e, l) = {} /\ Departures(history, e, l) = {}
        BY <2>1 DEF Arrivals, Departures, New
    <2>. QED
        BY <2>1, <2>2, FS_EmptySet DEF Balanced, Init, At
<1>2. IInv /\ [Next]_vars /\ Books => Books'
    <2>1. UNCHANGED <<location, history>> /\ Books => Books'
        BY DEF Balanced, Arrivals, Departures, New, At
    <2>2. Books' <=> IsFiniteSet(history' \ InitHistory)
                       /\ Balanced(history', location')
        BY DEF Balanced, Arrivals, Departures, New, At
    <2>. QED
        BY <2>1, <2>2, OnlyCommitWrites, CommitBalances
<1>3. Books => EveryMoveRecorded
    BY BalancedIsRecorded
<1>. QED
    BY <1>1, <1>2, <1>3, Invariance, PTL DEF Spec

-----------------------------------------------------------------------------
(* A command that exited had been answered, and by what its status says.   *)
ExitFollows ==
    \A a \in ConfigCalls : exit[a] # None =>
        /\ pc[a] = "done"
        /\ exit[a] = 0 => outcome[a] = "SUCCESS"
        /\ exit[a] = 1 /\ line[a] # "none" =>
             line[a] = outcome[a] /\ outcome[a] \in Failures

CommandInv ==
    /\ line \in [ConfigCalls -> Outcomes]
    /\ exit \in [ConfigCalls -> {None, 0, 1, 2}]
    /\ \A a \in ConfigCalls : exit[a] = None => line[a] = "none"
    /\ ExitFollows

(* The answer of a call is final. *)
LEMMA AnswerIsFinal ==
    ASSUME IInv, [Next]_vars, NEW a \in Attempts, pc[a] = "done"
    PROVE  pc'[a] = "done" /\ outcome'[a] = outcome[a]
<1>. USE DEF IInv, TypeOK
<1>1. ASSUME NEW b \in Attempts, ClientNext(b), b # a
      PROVE  pc'[a] = "done" /\ outcome'[a] = outcome[a]
    BY <1>1 DEF ClientNext, Proceed, CallerBegins, CallerEnds, RefuseInput,
        RefuseActive, Begin, OpenFails, BeginFails, SelectEquipment,
        EquipmentMissing, RefuseStale, RefuseSame, TargetMissing, ShareTarget,
        UpdateLocation, ReadClock, ClockRefused, InsertHistory, DuplicateId,
        AskForKey,
        StatementFails, RollbackReturns, RollbackRaises, SendCommit,
        CommitReturns, CommitRaises, ClientCrash, Reconcile, Raise, Return
<1>2. CASE ClientNext(a)
    <2>1. CASE CallerEnds(a) \/ Reconcile(a)
        BY <2>1 DEF CallerEnds, Reconcile
    <2>2. ~(Proceed(a) \/ Begin(a) \/ BeginFails(a) \/ StatementFails(a)
              \/ ClockRefused(a) \/ CommitRaises(a) \/ ClientCrash(a)
              \/ RefuseInput(a) \/ RefuseActive(a) \/ OpenFails(a)
              \/ \E e \in Equipment : CallerBegins(a, e))
        BY DEF Proceed, Begin, BeginFails, SelectEquipment,
            EquipmentMissing, RefuseStale, RefuseSame, TargetMissing,
            ShareTarget, SourceAccepted, UpdateLocation, ReadClock,
            ClockRefused, InsertHistory, DuplicateId, AskForKey,
            StatementFails,
            Outstanding, RollbackReturns, RollbackRaises, SendCommit,
            CommitReturns, CommitRaises, ClientCrash, RefuseInput,
            RefuseActive, OpenFails, CallerBegins
    <2>. QED
        BY <1>2, <2>1, <2>2 DEF ClientNext
<1>3. ASSUME NEW b \in Attempts, ServerNext(b)
      PROVE  UNCHANGED <<pc, outcome>>
    BY <1>3 DEF ServerNext, ServerCommit, ServerAbort
<1>4. CASE LabsNext \/ UNCHANGED vars
    BY <1>4 DEF LabsNext, DropLab, AddLab, vars
<1>. QED
    BY <1>1, <1>2, <1>3, <1>4 DEF Next

LEMMA CommandStep ==
    ASSUME IInv, CommandInv, [CommandNext]_<<vars, command>>
    PROVE  CommandInv'
<1>. USE ConstantsAssumption, StatusAssumption
<1>1. CASE [Next]_vars /\ UNCHANGED command
    <2>1. \A a \in ConfigCalls : pc[a] = "done" =>
              pc'[a] = "done" /\ outcome'[a] = outcome[a]
        BY <1>1, AnswerIsFinal
    <2>. QED
        BY <1>1, <2>1 DEF CommandInv, ExitFollows, command
<1>2. ASSUME NEW a \in ConfigCalls, Report(a) PROVE CommandInv'
    <2>1. outcome[a] \in Outcomes /\ UNCHANGED <<pc, outcome>>
        BY <1>2 DEF IInv, TypeOK, Report, vars
    <2>2. /\ Status(outcome[a]) \in {0, 1, 2}
          /\ Status(outcome[a]) = 0 => outcome[a] = "SUCCESS"
          /\ Status(outcome[a]) = 1 /\ outcome[a] # "none" =>
               outcome[a] \in Failures
        BY <2>1 DEF Status
    <2>. QED
        BY <1>2, <2>1, <2>2 DEF Report, CommandInv, ExitFollows
<1>3. ASSUME NEW a \in ConfigCalls, ReportRaises(a) PROVE CommandInv'
    BY <1>3 DEF ReportRaises, CommandInv, ExitFollows, vars
<1>. QED
    BY <1>1, <1>2, <1>3 DEF CommandNext, command

(* What the exit status and the line of a command say holds of the         *)
(* database (cli.py:79-107).                                               *)
THEOREM ExitStatusIsTrue == CommandSpec => []ExitAgrees
<1>1. CommandInit => IInv /\ CommandInv
    BY InitIInv DEF CommandInit, CommandInv, ExitFollows
<1>2. IInv /\ CommandInv /\ [CommandNext]_<<vars, command>> =>
          (IInv /\ CommandInv)'
    <2>1. [CommandNext]_<<vars, command>> => [Next]_vars
        BY DEF CommandNext, Report, ReportRaises, vars
    <2>. QED
        BY <2>1, IInvStep, CommandStep
<1>3. IInv /\ CommandInv => ExitAgrees
    <2>. SUFFICES ASSUME AnswerAgrees, ExitFollows, NEW a \in ConfigCalls
                  PROVE  /\ exit[a] = 0 =>
                              tx[a] = "committed" /\ Row(a) \in history
                         /\ exit[a] = 1 /\ line[a] # "none" =>
                              /\ tx[a] \notin {"committing", "committed"}
                              /\ line[a] \in Failures
        BY DEF IInv, CommandInv, ExitAgrees
    <2>1. a \in Attempts /\ None # 0 /\ None # 1
        BY ConstantsAssumption, StatusAssumption
    <2>2. pc[a] = "done" =>
            /\ outcome[a] = "SUCCESS" =>
                 tx[a] = "committed" /\ Row(a) \in history
            /\ outcome[a] \in Failures =>
                 tx[a] \notin {"committing", "committed"}
        BY <2>1 DEF AnswerAgrees
    <2>. QED
        BY <2>1, <2>2 DEF ExitFollows
<1>. QED
    BY <1>1, <1>2, <1>3, PTL DEF CommandSpec

-----------------------------------------------------------------------------
(* The refinement mapping of TransferProperties, named.                    *)
Applied == [a \in Attempts |-> tx[a] = "committed"]
Told == [a \in Attempts |-> IF pc[a] = "done" THEN outcome[a] ELSE "none"]

(* A call that returns or raises is told something: Answer of the ledger.  *)
LEMMA AnswerMaps ==
    ASSUME NEW a \in Attempts, NEW code \in Outcomes, NEW c,
           TypeOK, pc[a] # "done", Return(a, code, c),
           UNCHANGED <<location, labs, history, req>>,
           \A b \in Attempts : tx'[b] = "committed" <=> tx[b] = "committed",
           \/ code = "SUCCESS" /\ tx[a] = "committed"
           \/ code \in Failures /\ tx[a] # "committed"
           \/ code = Unknown
    PROVE  Ledger!Answer(a)
<1>1. Applied' = Applied
    BY Zenon DEF Applied
<1>2. Told' = [Told EXCEPT ![a] = code] /\ Told[a] = "none"
    BY DEF Told, Return, TypeOK
<1>3. Applied[a] <=> tx[a] = "committed"
    BY DEF Applied
<1>. QED
    BY <1>1, <1>2, <1>3
    DEF Ledger!Answer, Ledger!Failures, Ledger!Unknown, Applied, Told

(* The server's COMMIT is where the move happens: Apply of the ledger.     *)
LEMMA ApplyMaps ==
    ASSUME NEW a \in Attempts, TypeOK, IInv, ServerCommit(a)
    PROVE  Ledger!Apply(a)
<1> USE DEF IInv, ServerCommit
<1>1. /\ tx[a] = "committing"
      /\ req[a].equipment \in Equipment /\ req[a].target \in labs
      /\ req[a].source # req[a].target
      /\ location[req[a].equipment] = req[a].source
      /\ \A h \in history : h.id # req[a].id
    BY DEF LocksHeld, Writing, PendingKeys
<1>2. ~Applied[a] /\ Applied' = [Applied EXCEPT ![a] = TRUE]
    <2>1. ~Applied[a]
        BY <1>1 DEF Applied
    <2>2. \A b \in Attempts : tx'[b] = IF b = a THEN "committed" ELSE tx[b]
        BY DEF EndTx, TypeOK
    <2>3. \A b \in Attempts : Applied'[b] = IF b = a THEN TRUE ELSE Applied[b]
        BY <2>2 DEF Applied
    <2>. QED
        BY <2>1, <2>3 DEF Applied
<1>3. Told' = Told /\ Told[a] \in {"none", Unknown}
    BY <1>1 DEF Told, AnswerAgrees, TypeOK
<1>4. \E h \in history' :
         /\ h = [id |-> req[a].id, equipment |-> req[a].equipment,
                 source |-> req[a].source, target |-> req[a].target,
                 reason |-> req[a].reason, time |-> h.time]
         /\ history' = history \cup {h}
    BY DEF Row
<1>. QED
    BY <1>1, <1>2, <1>3, <1>4
    DEF Ledger!Apply, Ledger!Unknown, Applied, Told, TypeOK
(* Every other step of a call or of the server is invisible to the ledger. *)
LEMMA HiddenMaps ==
    ASSUME TypeOK,
           UNCHANGED <<location, labs, history, req>>,
           \A b \in Attempts :
               /\ tx'[b] = "committed" <=> tx[b] = "committed"
               /\ Told'[b] = Told[b]
    PROVE  UNCHANGED Ledger!vars
<1>1. Applied' = Applied
    BY Zenon DEF Applied
<1>2. Told' = Told
    BY DEF Told
<1>. QED
    BY <1>1, <1>2 DEF Ledger!vars, Applied, Told

(* Step refinement, by the kinds of steps above.                           *)
LEMMA LedgerStep ==
    ASSUME TypeOK, IInv, [Next]_vars
    PROVE  [Ledger!Next]_(Ledger!vars)
<1> USE DEF TypeOK
<1>1. ASSUME NEW a \in Attempts, ServerCommit(a)
      PROVE  Ledger!Next
    BY <1>1, ApplyMaps DEF Ledger!Next
<1>2. ASSUME NEW a \in Attempts,
             \/ RefuseInput(a) \/ RefuseActive(a) \/ OpenFails(a)
             \/ BeginFails(a) \/ RollbackReturns(a) \/ RollbackRaises(a)
             \/ CommitReturns(a) \/ CommitRaises(a)
      PROVE  Ledger!Next
    <2>1. PICK code \in Outcomes, c \in {"open", "lost", "closed"} :
             /\ Return(a, code, c)
             /\ \/ code = "SUCCESS" /\ tx[a] = "committed"
                \/ code \in Failures /\ tx[a] # "committed"
                \/ code = Unknown
        <3>1. CASE RefuseInput(a) \/ RefuseActive(a)
            BY <3>1 DEF RefuseInput, RefuseActive, IInv, PhaseAgrees
        <3>2. CASE OpenFails(a)
            BY <3>2 DEF OpenFails, IInv, PhaseAgrees
        <3>3. CASE BeginFails(a)
            BY <3>3 DEF BeginFails
        <3>4. CASE RollbackReturns(a) \/ RollbackRaises(a)
            BY <3>4 DEF RollbackReturns, RollbackRaises, IInv, PhaseAgrees
        <3>5. CASE CommitReturns(a) \/ CommitRaises(a)
            BY <3>5 DEF CommitReturns, CommitRaises
        <3>. QED
            BY <1>2, <3>1, <3>2, <3>3, <3>4, <3>5
    <2>2. pc[a] # "done" /\ UNCHANGED <<location, labs, history, req>>
        BY <1>2 DEF RefuseInput, RefuseActive, OpenFails, BeginFails,
            RollbackReturns, RollbackRaises, CommitReturns, CommitRaises
    <2>3. \A b \in Attempts : tx'[b] = "committed" <=> tx[b] = "committed"
        <3>1. CASE BeginFails(a)
            BY <3>1 DEF BeginFails
        <3>2. CASE RollbackReturns(a)
            BY <3>2 DEF RollbackReturns, EndTx, IInv, PhaseAgrees
        <3>. QED
            BY <1>2, <3>1, <3>2 DEF RefuseInput, RefuseActive, OpenFails,
                RollbackRaises, CommitReturns, CommitRaises
    <2>4. Ledger!Answer(a)
        BY <2>1, <2>2, <2>3, AnswerMaps
    <2>. QED
        BY <2>4 DEF Ledger!Next
<1>3. ASSUME NEW a \in Attempts,
             \/ \E e \in Equipment : CallerBegins(a, e)
             \/ CallerEnds(a) \/ Begin(a) \/ SelectEquipment(a)
             \/ EquipmentMissing(a) \/ RefuseStale(a) \/ RefuseSame(a)
             \/ TargetMissing(a) \/ ShareTarget(a) \/ UpdateLocation(a)
             \/ ReadClock(a) \/ ClockRefused(a) \/ InsertHistory(a)
             \/ DuplicateId(a) \/ AskForKey(a) \/ StatementFails(a)
             \/ SendCommit(a)
             \/ ServerAbort(a) \/ ClientCrash(a) \/ Reconcile(a)
      PROVE  UNCHANGED Ledger!vars
    <2>1. UNCHANGED <<location, labs, history, req>>
        BY <1>3 DEF CallerBegins, CallerEnds, Begin, SelectEquipment,
            EquipmentMissing, RefuseStale, RefuseSame, TargetMissing,
            ShareTarget, UpdateLocation, ReadClock, ClockRefused,
            InsertHistory, DuplicateId, AskForKey, StatementFails, SendCommit,
            ServerAbort, ClientCrash, Reconcile
    <2>2. \A b \in Attempts :
             /\ tx'[b] = "committed" <=> tx[b] = "committed"
             /\ pc'[b] = "done" <=> pc[b] = "done"
             /\ pc[b] = "done" => outcome'[b] = outcome[b]
        <3>1. CASE (\E e \in Equipment : CallerBegins(a, e)) \/ CallerEnds(a)
            BY <3>1 DEF CallerBegins, CallerEnds, EndTx
        <3>2. CASE Begin(a) \/ SelectEquipment(a) \/ ShareTarget(a)
                     \/ ReadClock(a) \/ SendCommit(a) \/ ClientCrash(a)
                     \/ Reconcile(a)
            BY <3>2 DEF Begin, SelectEquipment, ShareTarget, SourceAccepted,
                ReadClock, SendCommit, ClientCrash, Reconcile
        <3>3. CASE UpdateLocation(a) \/ InsertHistory(a) \/ ServerAbort(a)
            BY <3>3 DEF UpdateLocation, InsertHistory, ServerAbort, EndTx,
                IInv, PhaseAgrees
        <3>4. CASE EquipmentMissing(a) \/ RefuseStale(a) \/ RefuseSame(a)
                     \/ TargetMissing(a) \/ ClockRefused(a)
                     \/ DuplicateId(a) \/ AskForKey(a)
            BY <3>4 DEF EquipmentMissing, RefuseStale, RefuseSame,
                TargetMissing, SourceAccepted, ClockRefused, DuplicateId,
                AskForKey, Raise
        <3>5. CASE StatementFails(a)
            BY <3>5 DEF StatementFails, Outstanding, SourceAccepted, Raise,
                EndTx, IInv, PhaseAgrees
        <3>. QED
            BY <1>3, <3>1, <3>2, <3>3, <3>4, <3>5
    <2>3. \A b \in Attempts : Told'[b] = Told[b]
        BY <2>2 DEF Told
    <2>. QED
        BY <2>1, <2>2, <2>3, HiddenMaps
<1>4. ASSUME NEW l \in LabIds, DropLab(l) \/ AddLab(l)
      PROVE  Ledger!Next
    BY <1>4 DEF DropLab, AddLab, IInv, ReferencesResolve, Ledger!LabsChange,
        Ledger!Next, Records
<1>5. CASE UNCHANGED vars
    BY <1>5 DEF vars, Ledger!vars
<1>. QED
    BY <1>1, <1>2, <1>3, <1>4, <1>5
    DEF Next, ClientNext, ServerNext, LabsNext, Proceed

(* A transfer is a single indivisible step for its observers, and its      *)
(* answer never contradicts it: EquipmentTransfer implements               *)
(* TransferLedger.                                                         *)
THEOREM Refinement == Spec => ImplementsLedger
<1>1. Init => Ledger!Init
    BY DEF Init, Ledger!Init
<1>2. TypeOK /\ IInv /\ [Next]_vars => [Ledger!Next]_(Ledger!vars)
    BY LedgerStep
<1>. QED
    BY <1>1, <1>2, TypeCorrect, Invariance, PTL
    DEF Spec, ImplementsLedger, Ledger!Spec

-----------------------------------------------------------------------------
(* Any number of transfers beside a verification: the composition is a     *)
(* behaviour of either part, and raises no false alarm.                    *)

(* The transfers do not notice the verification. *)
THEOREM TransfersUnaffected == VerifiedSpec => Spec
<1>1. VerifiedInit => Init
    BY DEF VerifiedInit, CommandInit
<1>2. [VerifiedNext]_<<vars, command, verifier>> => [Next]_vars
    BY DEF VerifiedNext, TransferStep, VerifyStep, CommandNext, Report,
        ReportRaises, vars
<1> QED
    BY <1>1, <1>2, PTL DEF VerifiedSpec, Spec

(* To the run of verify_database the transfers are others that commit: the *)
(* composition is a behaviour of Verification, so that what is proved of   *)
(* that module holds of a verification beside transfers                    *)
(* (transactions.py:224, verify.py:107).                                   *)
THEOREM ImplementsVerification == VerifiedSpec => Verifier!Spec
<1>1. VerifiedInit => Verifier!Init
    BY DEF VerifiedInit
<1>2. IInv' /\ [VerifiedNext]_<<vars, command, verifier>>
        => [Verifier!Next]_(Verifier!vars)
    <2> SUFFICES ASSUME IInv', [VerifiedNext]_<<vars, command, verifier>>
                 PROVE  [Verifier!Next]_(Verifier!vars)
        OBVIOUS
    <2>1. CASE TransferStep
        <3>1. <<location, history>>' \in Contents
            BY DEF IInv, TypeOK, Contents
        <3>2. Verifier!Commit
            BY <2>1, <3>1 DEF TransferStep, Verifier!Commit, Verifier!run
        <3> QED
            BY <3>2 DEF Verifier!Next
    <2>2. CASE VerifyStep
        BY <2>2 DEF VerifyStep, Verifier!Next
    <2>3. CASE UNCHANGED <<vars, command, verifier>>
        BY <2>3 DEF vars, database, verifier, Verifier!vars, Verifier!world,
            Verifier!run, Verifier!witnessed
    <2> QED
        BY <2>1, <2>2, <2>3 DEF VerifiedNext
<1> QED
    BY <1>1, <1>2, TransfersUnaffected, Invariance, PTL
    DEF VerifiedSpec, Verifier!Spec

LEMMA InitUnalarmed == VerifiedInit => Unalarmed
BY DEF VerifiedInit, Verifier!Init, Unalarmed

(* Where the latest records name the places, V16 reports nothing. *)
LEMMA V16Empty ==
    ASSUME LatestNamesPlace(history, location), NEW rule
    PROVE  V16(rule, <<location, history>>) = {}
BY DEF V16, LatestNamesPlace

LEMMA StepUnalarmed ==
    IInv /\ Unalarmed /\ [VerifiedNext]_<<vars, command, verifier>> => Unalarmed'
<1> SUFFICES ASSUME IInv, Unalarmed, [VerifiedNext]_<<vars, command, verifier>>
             PROVE  Unalarmed'
    OBVIOUS
<1> USE DEF Unalarmed, Verifier!Finish, Verifier!world, Verifier!witnessed
<1>1. CASE TransferStep
    BY <1>1 DEF TransferStep
<1>2. CASE UNCHANGED <<vars, command, verifier>>
    BY <1>2 DEF verifier
<1>3. CASE Verifier!TakeSnapshot
    <2>1. ClockSkew = 0 => V16(1, <<location, history>>) = {}
        BY V16Empty DEF IInv, LatestTransferMatchesLocation
    <2> QED
        BY <1>3, <2>1 DEF Verifier!TakeSnapshot
<1>4. CASE Verifier!Inspect
    BY <1>4 DEF Verifier!Inspect
<1>5. CASE Verifier!Check
    <2>1. V16(vstep, snapshot) = V16(1, snapshot)
        BY DEF V16
    <2>2. ClockSkew = 0 => Verifier!Reported(vstep, snapshot) = {}
        BY <1>5, <2>1 DEF Verifier!Check, Verifier!Reported
    <2> QED
        BY <1>5, <2>2 DEF Verifier!Check
<1>6. CASE \/ Verifier!NotStarted \/ Verifier!Connect
           \/ Verifier!SelectDatabase \/ Verifier!Inspected
           \/ Verifier!Checked \/ Verifier!StatementFails
           \/ Verifier!RollbackReturns \/ Verifier!RollbackRaises
    BY <1>6 DEF Verifier!NotStarted, Verifier!Connect,
        Verifier!SelectDatabase, Verifier!Inspected, Verifier!Checked,
        Verifier!StatementFails, Verifier!RollbackReturns,
        Verifier!RollbackRaises
<1> QED
    BY <1>1, <1>2, <1>3, <1>4, <1>5, <1>6
    DEF VerifiedNext, VerifyStep, Verifier!Run, Verifier!Proceed

(* No transfer looks like a broken V16. *)
THEOREM NoAlarm == VerifiedSpec => []NoFalseAlarm
<1>1. Unalarmed => NoFalseAlarm
    BY DEF Unalarmed, NoFalseAlarm
<1> QED
    BY <1>1, InitUnalarmed, StepUnalarmed, TransfersUnaffected, Invariance,
       PTL DEF VerifiedSpec
=============================================================================
