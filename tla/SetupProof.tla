----------------------------- MODULE SetupProof -----------------------------
(***************************************************************************)
(* Proofs about DatabaseSetup: for any number of tables, initializers and  *)
(* seeders, with or without somebody else writing.                         *)
(***************************************************************************)
EXTENDS SetupProperties, TLAPS

LEMMA InitHolds == Init => SetupInv
<1> USE SetupAssumption
<1> SUFFICES ASSUME Init PROVE SetupInv
  OBVIOUS
<1>1. 1 \in 1 .. Last + 1
  OBVIOUS
<1>2. TypeOK
  BY <1>1 DEF Init, TypeOK, Tables, PCs, Answers
<1>3. SeederPhase
  BY DEF Init, SeederPhase, Early, Runs
<1>4. KeysHeld /\ SeedsCommitted /\ SeededOnce
  BY DEF Init, KeysHeld, SeedsCommitted, SeededOnce, Seeded
<1>5. InitializerPhase /\ OneInitializer
  BY DEF Init, InitializerPhase, OneInitializer, Runs
<1> QED BY <1>2, <1>3, <1>4, <1>5 DEF SetupInv

(* A statement that raises sets the fields of the seeder. *)
LEMMA FailureTyped ==
    ASSUME TypeOK, NEW s \in Seeders,
           NEW state \in {"none", "open", "committing", "committed", "aborted"},
           NEW c \in {"none", "open", "lost", "closed"},
           StatementFails(s, state, c), UNCHANGED <<target, step, occupied>>
    PROVE  TypeOK'
<1>1. /\ pc' \in [Runs -> PCs] /\ answer' \in [Runs -> Answers]
      /\ conn' \in [Runs -> {"none", "open", "lost", "closed"}]
  BY DEF StatementFails, GoTo, TypeOK, PCs, Answers
<1>2. /\ tx' \in [Seeders -> {"none", "open", "committing", "committed",
                              "aborted"}]
      /\ wrote' \in [Seeders -> SUBSET Tables]
  <2>1. CASE state = "aborted"
    BY <2>1 DEF StatementFails, EndTx, TypeOK
  <2>2. CASE state # "aborted"
    BY <2>2 DEF StatementFails, server, TypeOK
  <2> QED BY <2>1, <2>2
<1> QED BY <1>1, <1>2 DEF TypeOK, target

LEMMA TypeKept ==
    ASSUME TypeOK, [Next]_vars
    PROVE  TypeOK'
<1>1. CASE UNCHANGED vars
  BY <1>1 DEF vars, target, server, TypeOK, Tables, Runs, PCs, Answers
<1>2. ASSUME NEW r \in Runs, NotStarted(r) PROVE TypeOK'
  BY <1>2, SetupAssumption DEF NotStarted, GoTo, target, server, TypeOK,
                               Tables, Runs, PCs, Answers
<1>3. ASSUME NEW r \in Runs, Connect(r) PROVE TypeOK'
  BY <1>3, SetupAssumption DEF Connect, GoTo, target, server, TypeOK,
                               Tables, Runs, PCs, Answers
<1>4. ASSUME NEW r \in Runs, Crash(r) PROVE TypeOK'
  BY <1>4, SetupAssumption DEF Crash, GoTo, target, server, TypeOK, Tables,
                               Runs, PCs, Answers
<1>5. ASSUME NEW i \in Initializers, SelectTarget(i) PROVE TypeOK'
  BY <1>5, SetupAssumption DEF SelectTarget, GoTo, target, server, TypeOK,
                               Tables, Runs, PCs, Answers
<1>6. ASSUME NEW i \in Initializers, RefuseTarget(i) PROVE TypeOK'
  BY <1>6, SetupAssumption DEF RefuseTarget, Finish, GoTo, target, server,
                               TypeOK, Tables, Runs, PCs, Answers
<1>7. ASSUME NEW i \in Initializers, CreateTable(i) PROVE TypeOK'
  <2>1. step[i] + 1 \in 1 .. Last + 1
    BY <1>7, SetupAssumption DEF CreateTable, Tables
  <2>2. /\ objects' \in SUBSET (Tables \cup {Other})
        /\ step' \in [Runs -> 1 .. Last + 1]
    BY <1>7, <2>1 DEF CreateTable, TypeOK
  <2> QED BY <1>7, <2>2 DEF CreateTable, server, TypeOK
<1>8. ASSUME NEW i \in Initializers, CreateFails(i) PROVE TypeOK'
  BY <1>8, SetupAssumption DEF CreateFails, Finish, GoTo, target, server,
                               TypeOK, Tables, Runs, PCs, Answers
<1>9. ASSUME NEW i \in Initializers, AllCreated(i) PROVE TypeOK'
  BY <1>9, SetupAssumption DEF AllCreated, GoTo, target, server, TypeOK,
                               Tables, Runs, PCs, Answers
<1>10. ASSUME NEW i \in Initializers, Inspect(i) PROVE TypeOK'
  BY <1>10, SetupAssumption DEF Inspect, Finish, GoTo, StructureMatches,
                                target, server, TypeOK, Tables, Runs, PCs,
                                Answers
<1>11. ASSUME NEW s \in Seeders, SelectDatabase(s) PROVE TypeOK'
  BY <1>11, SetupAssumption DEF SelectDatabase, GoTo, target, server,
                                TypeOK, Tables, Runs, PCs, Answers
<1>12. ASSUME NEW s \in Seeders, ValidateStructure(s) PROVE TypeOK'
  BY <1>12, SetupAssumption DEF ValidateStructure, GoTo, target, server,
                                TypeOK, Tables, Runs, PCs, Answers
<1>13. ASSUME NEW s \in Seeders, RefuseStructure(s) PROVE TypeOK'
  BY <1>13, SetupAssumption DEF RefuseStructure, Finish, GoTo, target,
                                server, TypeOK, Tables, Runs, PCs, Answers
<1>14. ASSUME NEW s \in Seeders, CountTable(s) PROVE TypeOK'
  BY <1>14, SetupAssumption DEF CountTable, target, server, TypeOK, Tables,
                                Runs, PCs, Answers
<1>15. ASSUME NEW s \in Seeders, RefuseOccupied(s) PROVE TypeOK'
  BY <1>15, SetupAssumption DEF RefuseOccupied, Finish, GoTo, target,
                                server, TypeOK, Tables, Runs, PCs, Answers
<1>16. ASSUME NEW s \in Seeders, AllEmpty(s) PROVE TypeOK'
  BY <1>16, SetupAssumption DEF AllEmpty, GoTo, target, server, TypeOK,
                                Tables, Runs, PCs, Answers
<1>17. ASSUME NEW s \in Seeders, PreflightFails(s) PROVE TypeOK'
  BY <1>17, SetupAssumption DEF PreflightFails, Finish, GoTo, target,
                                server, TypeOK, Tables, Runs, PCs, Answers
<1>18. ASSUME NEW s \in Seeders, Begin(s) PROVE TypeOK'
  BY <1>18, SetupAssumption DEF Begin, GoTo, target, server, TypeOK, Tables,
                                Runs, PCs, Answers
<1>19. ASSUME NEW s \in Seeders, InsertRows(s) PROVE TypeOK'
  BY <1>19, SetupAssumption DEF InsertRows, KeysPending, target, server,
                                TypeOK, Tables, Runs, PCs, Answers
<1>20. ASSUME NEW s \in Seeders, InsertFails(s) PROVE TypeOK'
  <2>1. tx[s] \in {"none", "open", "committing", "committed", "aborted"}
        /\ conn[s] \in {"none", "open", "lost", "closed"}
    BY DEF TypeOK, Runs
  <2>2. \E state \in {"none", "open", "committing", "committed", "aborted"},
           c \in {"none", "open", "lost", "closed"} :
             StatementFails(s, state, c) /\ UNCHANGED <<target, step, occupied>>
    BY <1>20, <2>1, Zenon DEF InsertFails
  <2> QED BY <2>2, FailureTyped
<1>21. ASSUME NEW s \in Seeders, AllInserted(s) PROVE TypeOK'
  BY <1>21, SetupAssumption DEF AllInserted, GoTo, target, server, TypeOK,
                                Tables, Runs, PCs, Answers
<1>22. ASSUME NEW s \in Seeders, Recount(s) PROVE TypeOK'
  BY <1>22, SetupAssumption DEF Recount, GoTo, target, server, TypeOK,
                                Tables, Runs, PCs, Answers
<1>23. ASSUME NEW s \in Seeders, RecountFails(s) PROVE TypeOK'
  <2>1. tx[s] \in {"none", "open", "committing", "committed", "aborted"}
        /\ conn[s] \in {"none", "open", "lost", "closed"}
    BY DEF TypeOK, Runs
  <2>2. \E state \in {"none", "open", "committing", "committed", "aborted"},
           c \in {"none", "open", "lost", "closed"} :
             StatementFails(s, state, c) /\ UNCHANGED <<target, step, occupied>>
    BY <1>23, <2>1, Zenon DEF RecountFails
  <2> QED BY <2>2, FailureTyped
<1>24. ASSUME NEW s \in Seeders, CommitReturns(s) PROVE TypeOK'
  BY <1>24, SetupAssumption DEF CommitReturns, Finish, GoTo, target, server,
                                TypeOK, Tables, Runs, PCs, Answers
<1>25. ASSUME NEW s \in Seeders, CommitRaises(s) PROVE TypeOK'
  <2>1. tx[s] \in {"none", "open", "committing", "committed", "aborted"}
        /\ conn[s] \in {"none", "open", "lost", "closed"}
    BY DEF TypeOK, Runs
  <2>2. \E state \in {"none", "open", "committing", "committed", "aborted"},
           c \in {"none", "open", "lost", "closed"} :
             StatementFails(s, state, c) /\ UNCHANGED <<target, step, occupied>>
    BY <1>25, <2>1, Zenon DEF CommitRaises
  <2> QED BY <2>2, FailureTyped
<1>26. ASSUME NEW s \in Seeders, Unexpected(s) PROVE TypeOK'
  BY <1>26, SetupAssumption DEF Unexpected, GoTo, target, server, TypeOK,
                                Tables, Runs, PCs, Answers
<1>27. ASSUME NEW s \in Seeders, RollbackReturns(s) PROVE TypeOK'
  BY <1>27, SetupAssumption DEF RollbackReturns, Finish, EndTx, GoTo,
                                target, server, TypeOK, Tables, Runs, PCs,
                                Answers
<1>28. ASSUME NEW s \in Seeders, RollbackRaises(s) PROVE TypeOK'
  BY <1>28, SetupAssumption DEF RollbackRaises, GoTo, target, server,
                                TypeOK, Tables, Runs, PCs, Answers
<1>29. ASSUME NEW s \in Seeders, ServerCommit(s) PROVE TypeOK'
  BY <1>29, SetupAssumption DEF ServerCommit, EndTx, target, server, TypeOK,
                                Tables, Runs, PCs, Answers
<1>30. ASSUME NEW s \in Seeders, ServerAbort(s) PROVE TypeOK'
  BY <1>30, SetupAssumption DEF ServerAbort, EndTx, target, server, TypeOK,
                                Tables, Runs, PCs, Answers
<1>31. ASSUME Intrude PROVE TypeOK'
  <2>1. /\ objects' \in SUBSET (Tables \cup {Other})
        /\ rows' \in [Tables -> SUBSET {"seed", "other"}]
    <3>1. CASE UNCHANGED rows
      BY <1>31, <3>1 DEF Intrude, TypeOK
    <3>2. ASSUME NEW k \in Tables,
                 rows' = [rows EXCEPT ![k] = @ \cup {"other"}],
                 UNCHANGED objects
          PROVE  /\ objects' \in SUBSET (Tables \cup {Other})
                 /\ rows' \in [Tables -> SUBSET {"seed", "other"}]
      <4>1. rows[k] \cup {"other"} \in SUBSET {"seed", "other"}
        BY DEF TypeOK
      <4> QED BY <3>2, <4>1 DEF TypeOK
    <3> QED BY <1>31, <3>1, <3>2 DEF Intrude
  <2> QED BY <1>31, <2>1 DEF Intrude, server, TypeOK
<1> QED BY <1>1, <1>2, <1>3, <1>4, <1>5, <1>6, <1>7, <1>8, <1>9, <1>10,
           <1>11, <1>12, <1>13, <1>14, <1>15, <1>16, <1>17, <1>18, <1>19,
           <1>20, <1>21, <1>22, <1>23, <1>24, <1>25, <1>26, <1>27, <1>28,
           <1>29, <1>30, <1>31
  DEF Next, InitializerNext, SeederNext, Proceed, ServerNext

LEMMA SeederPhaseKept ==
    ASSUME TypeOK, SeederPhase, [Next]_vars
    PROVE  SeederPhase'
<1> USE DEF Promise!NoEffect
<1>1. CASE UNCHANGED vars
  BY <1>1 DEF vars, target, server, TypeOK, SeederPhase, Runs, Early
<1>2. ASSUME NEW r \in Runs, NotStarted(r) PROVE SeederPhase'
  BY <1>2, SetupAssumption DEF NotStarted, GoTo, target, server, TypeOK,
                               SeederPhase, Runs, Early
<1>3. ASSUME NEW r \in Runs, Connect(r) PROVE SeederPhase'
  BY <1>3, SetupAssumption DEF Connect, GoTo, target, server, TypeOK,
                               SeederPhase, Runs, Early
<1>4. ASSUME NEW r \in Runs, Crash(r) PROVE SeederPhase'
  BY <1>4, SetupAssumption DEF Crash, GoTo, target, server, TypeOK,
                               SeederPhase, Runs, Early
<1>5. ASSUME NEW i \in Initializers, SelectTarget(i) PROVE SeederPhase'
  BY <1>5, SetupAssumption DEF SelectTarget, GoTo, target, server, TypeOK,
                               SeederPhase, Runs, Early
<1>6. ASSUME NEW i \in Initializers, RefuseTarget(i) PROVE SeederPhase'
  BY <1>6, SetupAssumption DEF RefuseTarget, Finish, GoTo, target, server,
                               TypeOK, SeederPhase, Runs, Early
<1>7. ASSUME NEW i \in Initializers, CreateTable(i) PROVE SeederPhase'
  BY <1>7, SetupAssumption DEF CreateTable, target, server, TypeOK,
                               SeederPhase, Runs, Early
<1>8. ASSUME NEW i \in Initializers, CreateFails(i) PROVE SeederPhase'
  BY <1>8, SetupAssumption DEF CreateFails, Finish, GoTo, target, server,
                               TypeOK, SeederPhase, Runs, Early
<1>9. ASSUME NEW i \in Initializers, AllCreated(i) PROVE SeederPhase'
  BY <1>9, SetupAssumption DEF AllCreated, GoTo, target, server, TypeOK,
                               SeederPhase, Runs, Early
<1>10. ASSUME NEW i \in Initializers, Inspect(i) PROVE SeederPhase'
  BY <1>10, SetupAssumption DEF Inspect, Finish, GoTo, StructureMatches,
                                target, server, TypeOK, SeederPhase, Runs,
                                Early
<1>11. ASSUME NEW s \in Seeders, SelectDatabase(s) PROVE SeederPhase'
  BY <1>11, SetupAssumption DEF SelectDatabase, GoTo, target, server,
                                TypeOK, SeederPhase, Runs, Early
<1>12. ASSUME NEW s \in Seeders, ValidateStructure(s) PROVE SeederPhase'
  BY <1>12, SetupAssumption DEF ValidateStructure, GoTo, target, server,
                                TypeOK, SeederPhase, Runs, Early
<1>13. ASSUME NEW s \in Seeders, RefuseStructure(s) PROVE SeederPhase'
  BY <1>13, SetupAssumption DEF RefuseStructure, Finish, GoTo, target,
                                server, TypeOK, SeederPhase, Runs, Early
<1>14. ASSUME NEW s \in Seeders, CountTable(s) PROVE SeederPhase'
  BY <1>14, SetupAssumption DEF CountTable, target, server, TypeOK,
                                SeederPhase, Runs, Early
<1>15. ASSUME NEW s \in Seeders, RefuseOccupied(s) PROVE SeederPhase'
  BY <1>15, SetupAssumption DEF RefuseOccupied, Finish, GoTo, target,
                                server, TypeOK, SeederPhase, Runs, Early
<1>16. ASSUME NEW s \in Seeders, AllEmpty(s) PROVE SeederPhase'
  BY <1>16, SetupAssumption DEF AllEmpty, GoTo, target, server, TypeOK,
                                SeederPhase, Runs, Early
<1>17. ASSUME NEW s \in Seeders, PreflightFails(s) PROVE SeederPhase'
  BY <1>17, SetupAssumption DEF PreflightFails, Finish, GoTo, target,
                                server, TypeOK, SeederPhase, Runs, Early
<1>18. ASSUME NEW s \in Seeders, Begin(s) PROVE SeederPhase'
  BY <1>18, SetupAssumption DEF Begin, GoTo, target, server, TypeOK,
                                SeederPhase, Runs, Early
<1>19. ASSUME NEW s \in Seeders, InsertRows(s) PROVE SeederPhase'
  BY <1>19, SetupAssumption DEF InsertRows, KeysPending, target, server,
                                TypeOK, SeederPhase, Runs, Early
<1>20. ASSUME NEW s \in Seeders, InsertFails(s) PROVE SeederPhase'
  BY <1>20, SetupAssumption DEF InsertFails, StatementFails, EndTx, GoTo,
                                target, server, TypeOK, SeederPhase, Runs,
                                Early
<1>21. ASSUME NEW s \in Seeders, AllInserted(s) PROVE SeederPhase'
  BY <1>21, SetupAssumption DEF AllInserted, GoTo, target, server, TypeOK,
                                SeederPhase, Runs, Early
<1>22. ASSUME NEW s \in Seeders, Recount(s) PROVE SeederPhase'
  BY <1>22, SetupAssumption DEF Recount, GoTo, target, server, TypeOK,
                                SeederPhase, Runs, Early
<1>23. ASSUME NEW s \in Seeders, RecountFails(s) PROVE SeederPhase'
  BY <1>23, SetupAssumption DEF RecountFails, StatementFails, EndTx, GoTo,
                                target, server, TypeOK, SeederPhase, Runs,
                                Early
<1>24. ASSUME NEW s \in Seeders, CommitReturns(s) PROVE SeederPhase'
  BY <1>24, SetupAssumption DEF CommitReturns, Finish, GoTo, target, server,
                                TypeOK, SeederPhase, Runs, Early
<1>25. ASSUME NEW s \in Seeders, CommitRaises(s) PROVE SeederPhase'
  BY <1>25, SetupAssumption DEF CommitRaises, StatementFails, EndTx, GoTo,
                                target, server, TypeOK, SeederPhase, Runs,
                                Early
<1>26. ASSUME NEW s \in Seeders, Unexpected(s) PROVE SeederPhase'
  BY <1>26, SetupAssumption DEF Unexpected, GoTo, target, server, TypeOK,
                                SeederPhase, Runs, Early
<1>27. ASSUME NEW s \in Seeders, RollbackReturns(s) PROVE SeederPhase'
  BY <1>27, SetupAssumption DEF RollbackReturns, Finish, EndTx, GoTo,
                                target, server, TypeOK, SeederPhase, Runs,
                                Early
<1>28. ASSUME NEW s \in Seeders, RollbackRaises(s) PROVE SeederPhase'
  BY <1>28, SetupAssumption DEF RollbackRaises, GoTo, target, server,
                                TypeOK, SeederPhase, Runs, Early
<1>29. ASSUME NEW s \in Seeders, ServerCommit(s) PROVE SeederPhase'
  BY <1>29, SetupAssumption DEF ServerCommit, EndTx, target, server, TypeOK,
                                SeederPhase, Runs, Early
<1>30. ASSUME NEW s \in Seeders, ServerAbort(s) PROVE SeederPhase'
  BY <1>30, SetupAssumption DEF ServerAbort, EndTx, target, server, TypeOK,
                                SeederPhase, Runs, Early
<1>31. ASSUME Intrude PROVE SeederPhase'
  BY <1>31, SetupAssumption DEF Intrude, target, server, TypeOK,
                                SeederPhase, Runs, Early
<1> QED BY <1>1, <1>2, <1>3, <1>4, <1>5, <1>6, <1>7, <1>8, <1>9, <1>10,
           <1>11, <1>12, <1>13, <1>14, <1>15, <1>16, <1>17, <1>18, <1>19,
           <1>20, <1>21, <1>22, <1>23, <1>24, <1>25, <1>26, <1>27, <1>28,
           <1>29, <1>30, <1>31
  DEF Next, InitializerNext, SeederNext, Proceed, ServerNext

LEMMA KeysHeldKept ==
    ASSUME TypeOK, SeederPhase, KeysHeld, [Next]_vars
    PROVE  KeysHeld'
<1>1. CASE UNCHANGED vars
  BY <1>1 DEF vars, target, server, TypeOK, SeederPhase, KeysHeld, Seeded,
              Early
<1>2. ASSUME NEW r \in Runs, NotStarted(r) PROVE KeysHeld'
  BY <1>2 DEF NotStarted, GoTo, target, server, TypeOK, SeederPhase,
              KeysHeld, Seeded, Early
<1>3. ASSUME NEW r \in Runs, Connect(r) PROVE KeysHeld'
  BY <1>3 DEF Connect, GoTo, target, server, TypeOK, SeederPhase, KeysHeld,
              Seeded, Early
<1>4. ASSUME NEW r \in Runs, Crash(r) PROVE KeysHeld'
  BY <1>4 DEF Crash, GoTo, target, server, TypeOK, SeederPhase, KeysHeld,
              Seeded, Early
<1>5. ASSUME NEW i \in Initializers, SelectTarget(i) PROVE KeysHeld'
  BY <1>5 DEF SelectTarget, GoTo, target, server, TypeOK, SeederPhase,
              KeysHeld, Seeded, Early
<1>6. ASSUME NEW i \in Initializers, RefuseTarget(i) PROVE KeysHeld'
  BY <1>6 DEF RefuseTarget, Finish, GoTo, target, server, TypeOK,
              SeederPhase, KeysHeld, Seeded, Early
<1>7. ASSUME NEW i \in Initializers, CreateTable(i) PROVE KeysHeld'
  BY <1>7 DEF CreateTable, target, server, TypeOK, SeederPhase, KeysHeld,
              Seeded, Early
<1>8. ASSUME NEW i \in Initializers, CreateFails(i) PROVE KeysHeld'
  BY <1>8 DEF CreateFails, Finish, GoTo, target, server, TypeOK,
              SeederPhase, KeysHeld, Seeded, Early
<1>9. ASSUME NEW i \in Initializers, AllCreated(i) PROVE KeysHeld'
  BY <1>9 DEF AllCreated, GoTo, target, server, TypeOK, SeederPhase,
              KeysHeld, Seeded, Early
<1>10. ASSUME NEW i \in Initializers, Inspect(i) PROVE KeysHeld'
  BY <1>10 DEF Inspect, Finish, GoTo, StructureMatches, target, server,
               TypeOK, SeederPhase, KeysHeld, Seeded, Early
<1>11. ASSUME NEW s \in Seeders, SelectDatabase(s) PROVE KeysHeld'
  BY <1>11 DEF SelectDatabase, GoTo, target, server, TypeOK, SeederPhase,
               KeysHeld, Seeded, Early
<1>12. ASSUME NEW s \in Seeders, ValidateStructure(s) PROVE KeysHeld'
  BY <1>12 DEF ValidateStructure, GoTo, target, server, TypeOK, SeederPhase,
               KeysHeld, Seeded, Early
<1>13. ASSUME NEW s \in Seeders, RefuseStructure(s) PROVE KeysHeld'
  BY <1>13 DEF RefuseStructure, Finish, GoTo, target, server, TypeOK,
               SeederPhase, KeysHeld, Seeded, Early
<1>14. ASSUME NEW s \in Seeders, CountTable(s) PROVE KeysHeld'
  BY <1>14 DEF CountTable, target, server, TypeOK, SeederPhase, KeysHeld,
               Seeded, Early
<1>15. ASSUME NEW s \in Seeders, RefuseOccupied(s) PROVE KeysHeld'
  BY <1>15 DEF RefuseOccupied, Finish, GoTo, target, server, TypeOK,
               SeederPhase, KeysHeld, Seeded, Early
<1>16. ASSUME NEW s \in Seeders, AllEmpty(s) PROVE KeysHeld'
  BY <1>16 DEF AllEmpty, GoTo, target, server, TypeOK, SeederPhase,
               KeysHeld, Seeded, Early
<1>17. ASSUME NEW s \in Seeders, PreflightFails(s) PROVE KeysHeld'
  BY <1>17 DEF PreflightFails, Finish, GoTo, target, server, TypeOK,
               SeederPhase, KeysHeld, Seeded, Early
<1>18. ASSUME NEW s \in Seeders, Begin(s) PROVE KeysHeld'
  BY <1>18 DEF Begin, GoTo, target, server, TypeOK, SeederPhase, KeysHeld,
               Seeded, Early
<1>19. ASSUME NEW s \in Seeders, InsertRows(s) PROVE KeysHeld'
  BY <1>19 DEF InsertRows, KeysPending, target, server, TypeOK, SeederPhase,
               KeysHeld, Seeded, Early
<1>20. ASSUME NEW s \in Seeders, InsertFails(s) PROVE KeysHeld'
  BY <1>20 DEF InsertFails, StatementFails, EndTx, GoTo, target, server,
               TypeOK, SeederPhase, KeysHeld, Seeded, Early
<1>21. ASSUME NEW s \in Seeders, AllInserted(s) PROVE KeysHeld'
  BY <1>21 DEF AllInserted, GoTo, target, server, TypeOK, SeederPhase,
               KeysHeld, Seeded, Early
<1>22. ASSUME NEW s \in Seeders, Recount(s) PROVE KeysHeld'
  BY <1>22 DEF Recount, GoTo, target, server, TypeOK, SeederPhase, KeysHeld,
               Seeded, Early
<1>23. ASSUME NEW s \in Seeders, RecountFails(s) PROVE KeysHeld'
  BY <1>23 DEF RecountFails, StatementFails, EndTx, GoTo, target, server,
               TypeOK, SeederPhase, KeysHeld, Seeded, Early
<1>24. ASSUME NEW s \in Seeders, CommitReturns(s) PROVE KeysHeld'
  BY <1>24 DEF CommitReturns, Finish, GoTo, target, server, TypeOK,
               SeederPhase, KeysHeld, Seeded, Early
<1>25. ASSUME NEW s \in Seeders, CommitRaises(s) PROVE KeysHeld'
  BY <1>25 DEF CommitRaises, StatementFails, EndTx, GoTo, target, server,
               TypeOK, SeederPhase, KeysHeld, Seeded, Early
<1>26. ASSUME NEW s \in Seeders, Unexpected(s) PROVE KeysHeld'
  BY <1>26 DEF Unexpected, GoTo, target, server, TypeOK, SeederPhase,
               KeysHeld, Seeded, Early
<1>27. ASSUME NEW s \in Seeders, RollbackReturns(s) PROVE KeysHeld'
  BY <1>27 DEF RollbackReturns, Finish, EndTx, GoTo, target, server, TypeOK,
               SeederPhase, KeysHeld, Seeded, Early
<1>28. ASSUME NEW s \in Seeders, RollbackRaises(s) PROVE KeysHeld'
  BY <1>28 DEF RollbackRaises, GoTo, target, server, TypeOK, SeederPhase,
               KeysHeld, Seeded, Early
<1>29. ASSUME NEW s \in Seeders, ServerCommit(s) PROVE KeysHeld'
  BY <1>29 DEF ServerCommit, EndTx, target, server, TypeOK, SeederPhase,
               KeysHeld, Seeded, Early
<1>30. ASSUME NEW s \in Seeders, ServerAbort(s) PROVE KeysHeld'
  BY <1>30 DEF ServerAbort, EndTx, target, server, TypeOK, SeederPhase,
               KeysHeld, Seeded, Early
<1>31. ASSUME Intrude PROVE KeysHeld'
  BY <1>31 DEF Intrude, target, server, TypeOK, SeederPhase, KeysHeld,
               Seeded, Early
<1> QED BY <1>1, <1>2, <1>3, <1>4, <1>5, <1>6, <1>7, <1>8, <1>9, <1>10,
           <1>11, <1>12, <1>13, <1>14, <1>15, <1>16, <1>17, <1>18, <1>19,
           <1>20, <1>21, <1>22, <1>23, <1>24, <1>25, <1>26, <1>27, <1>28,
           <1>29, <1>30, <1>31
  DEF Next, InitializerNext, SeederNext, Proceed, ServerNext

LEMMA SeedsKept ==
    ASSUME TypeOK, SeederPhase, KeysHeld, SeedsCommitted, SeededOnce, [Next]_vars
    PROVE  (SeedsCommitted /\ SeededOnce)'
<1>1. CASE UNCHANGED vars
  BY <1>1 DEF vars, target, server, TypeOK, SeederPhase, KeysHeld,
              SeedsCommitted, SeededOnce, Seeded, Early
<1>2. ASSUME NEW r \in Runs, NotStarted(r) PROVE (SeedsCommitted /\ SeededOnce)'
  BY <1>2 DEF NotStarted, GoTo, target, server, TypeOK, SeederPhase,
              KeysHeld, SeedsCommitted, SeededOnce, Seeded, Early
<1>3. ASSUME NEW r \in Runs, Connect(r) PROVE (SeedsCommitted /\ SeededOnce)'
  BY <1>3 DEF Connect, GoTo, target, server, TypeOK, SeederPhase, KeysHeld,
              SeedsCommitted, SeededOnce, Seeded, Early
<1>4. ASSUME NEW r \in Runs, Crash(r) PROVE (SeedsCommitted /\ SeededOnce)'
  BY <1>4 DEF Crash, GoTo, target, server, TypeOK, SeederPhase, KeysHeld,
              SeedsCommitted, SeededOnce, Seeded, Early
<1>5. ASSUME NEW i \in Initializers, SelectTarget(i) PROVE (SeedsCommitted /\ SeededOnce)'
  BY <1>5 DEF SelectTarget, GoTo, target, server, TypeOK, SeederPhase,
              KeysHeld, SeedsCommitted, SeededOnce, Seeded, Early
<1>6. ASSUME NEW i \in Initializers, RefuseTarget(i) PROVE (SeedsCommitted /\ SeededOnce)'
  BY <1>6 DEF RefuseTarget, Finish, GoTo, target, server, TypeOK,
              SeederPhase, KeysHeld, SeedsCommitted, SeededOnce, Seeded,
              Early
<1>7. ASSUME NEW i \in Initializers, CreateTable(i) PROVE (SeedsCommitted /\ SeededOnce)'
  BY <1>7 DEF CreateTable, target, server, TypeOK, SeederPhase, KeysHeld,
              SeedsCommitted, SeededOnce, Seeded, Early
<1>8. ASSUME NEW i \in Initializers, CreateFails(i) PROVE (SeedsCommitted /\ SeededOnce)'
  BY <1>8 DEF CreateFails, Finish, GoTo, target, server, TypeOK,
              SeederPhase, KeysHeld, SeedsCommitted, SeededOnce, Seeded,
              Early
<1>9. ASSUME NEW i \in Initializers, AllCreated(i) PROVE (SeedsCommitted /\ SeededOnce)'
  BY <1>9 DEF AllCreated, GoTo, target, server, TypeOK, SeederPhase,
              KeysHeld, SeedsCommitted, SeededOnce, Seeded, Early
<1>10. ASSUME NEW i \in Initializers, Inspect(i) PROVE (SeedsCommitted /\ SeededOnce)'
  BY <1>10 DEF Inspect, Finish, GoTo, StructureMatches, target, server,
               TypeOK, SeederPhase, KeysHeld, SeedsCommitted, SeededOnce,
               Seeded, Early
<1>11. ASSUME NEW s \in Seeders, SelectDatabase(s) PROVE (SeedsCommitted /\ SeededOnce)'
  BY <1>11 DEF SelectDatabase, GoTo, target, server, TypeOK, SeederPhase,
               KeysHeld, SeedsCommitted, SeededOnce, Seeded, Early
<1>12. ASSUME NEW s \in Seeders, ValidateStructure(s) PROVE (SeedsCommitted /\ SeededOnce)'
  BY <1>12 DEF ValidateStructure, GoTo, target, server, TypeOK, SeederPhase,
               KeysHeld, SeedsCommitted, SeededOnce, Seeded, Early
<1>13. ASSUME NEW s \in Seeders, RefuseStructure(s) PROVE (SeedsCommitted /\ SeededOnce)'
  BY <1>13 DEF RefuseStructure, Finish, GoTo, target, server, TypeOK,
               SeederPhase, KeysHeld, SeedsCommitted, SeededOnce, Seeded,
               Early
<1>14. ASSUME NEW s \in Seeders, CountTable(s) PROVE (SeedsCommitted /\ SeededOnce)'
  BY <1>14 DEF CountTable, target, server, TypeOK, SeederPhase, KeysHeld,
               SeedsCommitted, SeededOnce, Seeded, Early
<1>15. ASSUME NEW s \in Seeders, RefuseOccupied(s) PROVE (SeedsCommitted /\ SeededOnce)'
  BY <1>15 DEF RefuseOccupied, Finish, GoTo, target, server, TypeOK,
               SeederPhase, KeysHeld, SeedsCommitted, SeededOnce, Seeded,
               Early
<1>16. ASSUME NEW s \in Seeders, AllEmpty(s) PROVE (SeedsCommitted /\ SeededOnce)'
  BY <1>16 DEF AllEmpty, GoTo, target, server, TypeOK, SeederPhase,
               KeysHeld, SeedsCommitted, SeededOnce, Seeded, Early
<1>17. ASSUME NEW s \in Seeders, PreflightFails(s) PROVE (SeedsCommitted /\ SeededOnce)'
  BY <1>17 DEF PreflightFails, Finish, GoTo, target, server, TypeOK,
               SeederPhase, KeysHeld, SeedsCommitted, SeededOnce, Seeded,
               Early
<1>18. ASSUME NEW s \in Seeders, Begin(s) PROVE (SeedsCommitted /\ SeededOnce)'
  BY <1>18 DEF Begin, GoTo, target, server, TypeOK, SeederPhase, KeysHeld,
               SeedsCommitted, SeededOnce, Seeded, Early
<1>19. ASSUME NEW s \in Seeders, InsertRows(s) PROVE (SeedsCommitted /\ SeededOnce)'
  BY <1>19 DEF InsertRows, KeysPending, target, server, TypeOK, SeederPhase,
               KeysHeld, SeedsCommitted, SeededOnce, Seeded, Early
<1>20. ASSUME NEW s \in Seeders, InsertFails(s) PROVE (SeedsCommitted /\ SeededOnce)'
  BY <1>20 DEF InsertFails, StatementFails, EndTx, GoTo, target, server,
               TypeOK, SeederPhase, KeysHeld, SeedsCommitted, SeededOnce,
               Seeded, Early
<1>21. ASSUME NEW s \in Seeders, AllInserted(s) PROVE (SeedsCommitted /\ SeededOnce)'
  BY <1>21 DEF AllInserted, GoTo, target, server, TypeOK, SeederPhase,
               KeysHeld, SeedsCommitted, SeededOnce, Seeded, Early
<1>22. ASSUME NEW s \in Seeders, Recount(s) PROVE (SeedsCommitted /\ SeededOnce)'
  BY <1>22 DEF Recount, GoTo, target, server, TypeOK, SeederPhase, KeysHeld,
               SeedsCommitted, SeededOnce, Seeded, Early
<1>23. ASSUME NEW s \in Seeders, RecountFails(s) PROVE (SeedsCommitted /\ SeededOnce)'
  BY <1>23 DEF RecountFails, StatementFails, EndTx, GoTo, target, server,
               TypeOK, SeederPhase, KeysHeld, SeedsCommitted, SeededOnce,
               Seeded, Early
<1>24. ASSUME NEW s \in Seeders, CommitReturns(s) PROVE (SeedsCommitted /\ SeededOnce)'
  BY <1>24 DEF CommitReturns, Finish, GoTo, target, server, TypeOK,
               SeederPhase, KeysHeld, SeedsCommitted, SeededOnce, Seeded,
               Early
<1>25. ASSUME NEW s \in Seeders, CommitRaises(s) PROVE (SeedsCommitted /\ SeededOnce)'
  BY <1>25 DEF CommitRaises, StatementFails, EndTx, GoTo, target, server,
               TypeOK, SeederPhase, KeysHeld, SeedsCommitted, SeededOnce,
               Seeded, Early
<1>26. ASSUME NEW s \in Seeders, Unexpected(s) PROVE (SeedsCommitted /\ SeededOnce)'
  BY <1>26 DEF Unexpected, GoTo, target, server, TypeOK, SeederPhase,
               KeysHeld, SeedsCommitted, SeededOnce, Seeded, Early
<1>27. ASSUME NEW s \in Seeders, RollbackReturns(s) PROVE (SeedsCommitted /\ SeededOnce)'
  BY <1>27 DEF RollbackReturns, Finish, EndTx, GoTo, target, server, TypeOK,
               SeederPhase, KeysHeld, SeedsCommitted, SeededOnce, Seeded,
               Early
<1>28. ASSUME NEW s \in Seeders, RollbackRaises(s) PROVE (SeedsCommitted /\ SeededOnce)'
  BY <1>28 DEF RollbackRaises, GoTo, target, server, TypeOK, SeederPhase,
               KeysHeld, SeedsCommitted, SeededOnce, Seeded, Early
<1>29. ASSUME NEW s \in Seeders, ServerCommit(s) PROVE (SeedsCommitted /\ SeededOnce)'
  <2>1. tx[s] = "committing" /\ wrote[s] = Tables
    BY <1>29 DEF ServerCommit, KeysHeld
  <2>2. 1 \in Tables
    BY SetupAssumption DEF Tables
  <2>3. \A t \in Seeders : tx[t] # "committed"
    BY <2>1, <2>2 DEF KeysHeld, SeedsCommitted
  <2>4. \A k \in Tables : Seeded(k)'
    BY <1>29, <2>1 DEF ServerCommit, Seeded
  <2>5. tx' = [tx EXCEPT ![s] = "committed"]
    BY <1>29 DEF ServerCommit, EndTx
  <2>6. \A t \in Seeders : tx'[t] = "committed" <=> t = s
    BY <2>3, <2>5 DEF TypeOK
  <2> QED BY <2>4, <2>6 DEF SeedsCommitted, SeededOnce, Seeded
<1>30. ASSUME NEW s \in Seeders, ServerAbort(s) PROVE (SeedsCommitted /\ SeededOnce)'
  BY <1>30 DEF ServerAbort, EndTx, target, server, TypeOK, SeederPhase,
               KeysHeld, SeedsCommitted, SeededOnce, Seeded, Early
<1>31. ASSUME Intrude PROVE (SeedsCommitted /\ SeededOnce)'
  BY <1>31 DEF Intrude, target, server, TypeOK, SeederPhase, KeysHeld,
               SeedsCommitted, SeededOnce, Seeded, Early
<1> QED BY <1>1, <1>2, <1>3, <1>4, <1>5, <1>6, <1>7, <1>8, <1>9, <1>10,
           <1>11, <1>12, <1>13, <1>14, <1>15, <1>16, <1>17, <1>18, <1>19,
           <1>20, <1>21, <1>22, <1>23, <1>24, <1>25, <1>26, <1>27, <1>28,
           <1>29, <1>30, <1>31
  DEF Next, InitializerNext, SeederNext, Proceed, ServerNext

LEMMA InitializersKept ==
    ASSUME TypeOK, InitializerPhase, OneInitializer, [Next]_vars
    PROVE  (InitializerPhase /\ OneInitializer)'
<1>1. CASE UNCHANGED vars
  BY <1>1 DEF vars, target, server, TypeOK, InitializerPhase,
              OneInitializer, Runs, Tables, Early
<1>2. ASSUME NEW r \in Runs, NotStarted(r) PROVE (InitializerPhase /\ OneInitializer)'
  BY <1>2, SetupAssumption DEF NotStarted, GoTo, target, server, TypeOK,
                               InitializerPhase, OneInitializer, Runs,
                               Tables, Early
<1>3. ASSUME NEW r \in Runs, Connect(r) PROVE (InitializerPhase /\ OneInitializer)'
  BY <1>3, SetupAssumption DEF Connect, GoTo, target, server, TypeOK,
                               InitializerPhase, OneInitializer, Runs,
                               Tables, Early
<1>4. ASSUME NEW r \in Runs, Crash(r) PROVE (InitializerPhase /\ OneInitializer)'
  BY <1>4, SetupAssumption DEF Crash, GoTo, target, server, TypeOK,
                               InitializerPhase, OneInitializer, Runs,
                               Tables, Early
<1>5. ASSUME NEW i \in Initializers, SelectTarget(i) PROVE (InitializerPhase /\ OneInitializer)'
  BY <1>5, SetupAssumption DEF SelectTarget, GoTo, target, server, TypeOK,
                               InitializerPhase, OneInitializer, Runs,
                               Tables, Early
<1>6. ASSUME NEW i \in Initializers, RefuseTarget(i) PROVE (InitializerPhase /\ OneInitializer)'
  BY <1>6, SetupAssumption DEF RefuseTarget, Finish, GoTo, target, server,
                               TypeOK, InitializerPhase, OneInitializer,
                               Runs, Tables, Early
<1>7. ASSUME NEW i \in Initializers, CreateTable(i) PROVE (InitializerPhase /\ OneInitializer)'
  BY <1>7, SetupAssumption DEF CreateTable, target, server, TypeOK,
                               InitializerPhase, OneInitializer, Runs,
                               Tables, Early
<1>8. ASSUME NEW i \in Initializers, CreateFails(i) PROVE (InitializerPhase /\ OneInitializer)'
  BY <1>8, SetupAssumption DEF CreateFails, Finish, GoTo, target, server,
                               TypeOK, InitializerPhase, OneInitializer,
                               Runs, Tables, Early
<1>9. ASSUME NEW i \in Initializers, AllCreated(i) PROVE (InitializerPhase /\ OneInitializer)'
  BY <1>9, SetupAssumption DEF AllCreated, GoTo, target, server, TypeOK,
                               InitializerPhase, OneInitializer, Runs,
                               Tables, Early
<1>10. ASSUME NEW i \in Initializers, Inspect(i) PROVE (InitializerPhase /\ OneInitializer)'
  BY <1>10, SetupAssumption DEF Inspect, Finish, GoTo, StructureMatches,
                                target, server, TypeOK, InitializerPhase,
                                OneInitializer, Runs, Tables, Early
<1>11. ASSUME NEW s \in Seeders, SelectDatabase(s) PROVE (InitializerPhase /\ OneInitializer)'
  BY <1>11, SetupAssumption DEF SelectDatabase, GoTo, target, server,
                                TypeOK, InitializerPhase, OneInitializer,
                                Runs, Tables, Early
<1>12. ASSUME NEW s \in Seeders, ValidateStructure(s) PROVE (InitializerPhase /\ OneInitializer)'
  BY <1>12, SetupAssumption DEF ValidateStructure, GoTo, target, server,
                                TypeOK, InitializerPhase, OneInitializer,
                                Runs, Tables, Early
<1>13. ASSUME NEW s \in Seeders, RefuseStructure(s) PROVE (InitializerPhase /\ OneInitializer)'
  BY <1>13, SetupAssumption DEF RefuseStructure, Finish, GoTo, target,
                                server, TypeOK, InitializerPhase,
                                OneInitializer, Runs, Tables, Early
<1>14. ASSUME NEW s \in Seeders, CountTable(s) PROVE (InitializerPhase /\ OneInitializer)'
  BY <1>14, SetupAssumption DEF CountTable, target, server, TypeOK,
                                InitializerPhase, OneInitializer, Runs,
                                Tables, Early
<1>15. ASSUME NEW s \in Seeders, RefuseOccupied(s) PROVE (InitializerPhase /\ OneInitializer)'
  BY <1>15, SetupAssumption DEF RefuseOccupied, Finish, GoTo, target,
                                server, TypeOK, InitializerPhase,
                                OneInitializer, Runs, Tables, Early
<1>16. ASSUME NEW s \in Seeders, AllEmpty(s) PROVE (InitializerPhase /\ OneInitializer)'
  BY <1>16, SetupAssumption DEF AllEmpty, GoTo, target, server, TypeOK,
                                InitializerPhase, OneInitializer, Runs,
                                Tables, Early
<1>17. ASSUME NEW s \in Seeders, PreflightFails(s) PROVE (InitializerPhase /\ OneInitializer)'
  BY <1>17, SetupAssumption DEF PreflightFails, Finish, GoTo, target,
                                server, TypeOK, InitializerPhase,
                                OneInitializer, Runs, Tables, Early
<1>18. ASSUME NEW s \in Seeders, Begin(s) PROVE (InitializerPhase /\ OneInitializer)'
  BY <1>18, SetupAssumption DEF Begin, GoTo, target, server, TypeOK,
                                InitializerPhase, OneInitializer, Runs,
                                Tables, Early
<1>19. ASSUME NEW s \in Seeders, InsertRows(s) PROVE (InitializerPhase /\ OneInitializer)'
  BY <1>19, SetupAssumption DEF InsertRows, KeysPending, target, server,
                                TypeOK, InitializerPhase, OneInitializer,
                                Runs, Tables, Early
<1>20. ASSUME NEW s \in Seeders, InsertFails(s) PROVE (InitializerPhase /\ OneInitializer)'
  BY <1>20, SetupAssumption DEF InsertFails, StatementFails, EndTx, GoTo,
                                target, server, TypeOK, InitializerPhase,
                                OneInitializer, Runs, Tables, Early
<1>21. ASSUME NEW s \in Seeders, AllInserted(s) PROVE (InitializerPhase /\ OneInitializer)'
  BY <1>21, SetupAssumption DEF AllInserted, GoTo, target, server, TypeOK,
                                InitializerPhase, OneInitializer, Runs,
                                Tables, Early
<1>22. ASSUME NEW s \in Seeders, Recount(s) PROVE (InitializerPhase /\ OneInitializer)'
  BY <1>22, SetupAssumption DEF Recount, GoTo, target, server, TypeOK,
                                InitializerPhase, OneInitializer, Runs,
                                Tables, Early
<1>23. ASSUME NEW s \in Seeders, RecountFails(s) PROVE (InitializerPhase /\ OneInitializer)'
  BY <1>23, SetupAssumption DEF RecountFails, StatementFails, EndTx, GoTo,
                                target, server, TypeOK, InitializerPhase,
                                OneInitializer, Runs, Tables, Early
<1>24. ASSUME NEW s \in Seeders, CommitReturns(s) PROVE (InitializerPhase /\ OneInitializer)'
  BY <1>24, SetupAssumption DEF CommitReturns, Finish, GoTo, target, server,
                                TypeOK, InitializerPhase, OneInitializer,
                                Runs, Tables, Early
<1>25. ASSUME NEW s \in Seeders, CommitRaises(s) PROVE (InitializerPhase /\ OneInitializer)'
  BY <1>25, SetupAssumption DEF CommitRaises, StatementFails, EndTx, GoTo,
                                target, server, TypeOK, InitializerPhase,
                                OneInitializer, Runs, Tables, Early
<1>26. ASSUME NEW s \in Seeders, Unexpected(s) PROVE (InitializerPhase /\ OneInitializer)'
  BY <1>26, SetupAssumption DEF Unexpected, GoTo, target, server, TypeOK,
                                InitializerPhase, OneInitializer, Runs,
                                Tables, Early
<1>27. ASSUME NEW s \in Seeders, RollbackReturns(s) PROVE (InitializerPhase /\ OneInitializer)'
  BY <1>27, SetupAssumption DEF RollbackReturns, Finish, EndTx, GoTo,
                                target, server, TypeOK, InitializerPhase,
                                OneInitializer, Runs, Tables, Early
<1>28. ASSUME NEW s \in Seeders, RollbackRaises(s) PROVE (InitializerPhase /\ OneInitializer)'
  BY <1>28, SetupAssumption DEF RollbackRaises, GoTo, target, server,
                                TypeOK, InitializerPhase, OneInitializer,
                                Runs, Tables, Early
<1>29. ASSUME NEW s \in Seeders, ServerCommit(s) PROVE (InitializerPhase /\ OneInitializer)'
  BY <1>29, SetupAssumption DEF ServerCommit, EndTx, target, server, TypeOK,
                                InitializerPhase, OneInitializer, Runs,
                                Tables, Early
<1>30. ASSUME NEW s \in Seeders, ServerAbort(s) PROVE (InitializerPhase /\ OneInitializer)'
  BY <1>30, SetupAssumption DEF ServerAbort, EndTx, target, server, TypeOK,
                                InitializerPhase, OneInitializer, Runs,
                                Tables, Early
<1>31. ASSUME Intrude PROVE (InitializerPhase /\ OneInitializer)'
  BY <1>31, SetupAssumption DEF Intrude, target, server, TypeOK,
                                InitializerPhase, OneInitializer, Runs,
                                Tables, Early
<1> QED BY <1>1, <1>2, <1>3, <1>4, <1>5, <1>6, <1>7, <1>8, <1>9, <1>10,
           <1>11, <1>12, <1>13, <1>14, <1>15, <1>16, <1>17, <1>18, <1>19,
           <1>20, <1>21, <1>22, <1>23, <1>24, <1>25, <1>26, <1>27, <1>28,
           <1>29, <1>30, <1>31
  DEF Next, InitializerNext, SeederNext, Proceed, ServerNext

-----------------------------------------------------------------------------
LEMMA NextKeeps == SetupInv /\ [Next]_vars => SetupInv'
  BY TypeKept, SeederPhaseKept, KeysHeldKept, SeedsKept, InitializersKept
  DEF SetupInv

(* The invariant of initializers and seeders holds in every state. *)
THEOREM SetupInvariance == Spec => []SetupInv
<1>1. Init => SetupInv
  BY InitHolds
<1>2. SetupInv /\ [Next]_vars => SetupInv'
  BY NextKeeps
<1> QED BY <1>1, <1>2, PTL DEF Spec

(* Every variable keeps its type. *)
THEOREM SetupTypes == Spec => []TypeOK
<1>1. SetupInv => TypeOK
  BY DEF SetupInv
<1> QED BY <1>1, SetupInvariance, PTL

(* The committed seed is all of seed.sql or none of it (seed.py:106-121). *)
THEOREM SeedIsWhole == Spec => []SeedAllOrNothing
<1>1. SetupInv => SeedAllOrNothing
  BY DEF SetupInv, SeedsCommitted, SeedAllOrNothing
<1> QED BY <1>1, SetupInvariance, PTL

(* At most one seeder is ever committed (seed.py:100). *)
THEOREM SeedIsOnce == Spec => []SeededOnce
<1>1. SetupInv => SeededOnce
  BY DEF SetupInv
<1> QED BY <1>1, SetupInvariance, PTL

(* A seeder's answer agrees with what is, or will be, durable              *)
(* (seed.py:120-134).                                                      *)
THEOREM SeedAnswerIsTrue == Spec => []SeedAnswerAgrees
<1>1. SetupInv => SeedAnswerAgrees
  BY DEF SetupInv, SeederPhase, SeedsCommitted, SeedAnswerAgrees
<1> QED BY <1>1, SetupInvariance, PTL

(* One initializer creates, and reports, all tables (initialize.py:366). *)
THEOREM InitializerIsAlone == Spec => []OneInitializer
<1>1. SetupInv => OneInitializer
  BY DEF SetupInv
<1> QED BY <1>1, SetupInvariance, PTL

-----------------------------------------------------------------------------
(* Refinement of SeedLedger. *)

(* What SeedLedger sees of a seeder. *)
Shown(s) == IF pc[s] = "done" THEN answer[s] ELSE "none"

LEMMA QuietStep ==
    ASSUME UNCHANGED rows,
           \A t \in Seeders : /\ tx'[t] = "committed" <=> tx[t] = "committed"
                              /\ Shown(t)' = Shown(t)
    PROVE  UNCHANGED Promise!vars
<1>1. \A t \in Seeders : (tx'[t] = "committed") = (tx[t] = "committed")
  OBVIOUS
<1> QED BY <1>1 DEF Promise!vars, Shown

(* A run that ends with an answer that agrees with its transaction. *)
LEMMA EndingStep ==
    ASSUME SetupInv', NEW s \in Seeders, pc[s] # "done",
           pc' = [pc EXCEPT ![s] = "done"],
           \A t \in Seeders \ {s} : answer'[t] = answer[t],
           pc \in [Runs -> PCs],
           UNCHANGED rows,
           \A t \in Seeders : tx'[t] = "committed" <=> tx[t] = "committed"
    PROVE  Promise!Answer(s)
<1> DEFINE shown == [t \in Seeders |-> IF pc[t] = "done" THEN answer[t] ELSE "none"]
           applied == [t \in Seeders |-> tx[t] = "committed"]
<1>1. /\ pc'[s] = "done" /\ answer'[s] \in Promise!NoEffect \cup {"SUCCESS", "UNHANDLED"}
      /\ answer'[s] = "SUCCESS" => tx[s] = "committed"
      /\ answer'[s] \in Promise!NoEffect => tx[s] # "committed"
  BY DEF SetupInv, SeederPhase, Promise!NoEffect, Runs
<1>2. shown' = [shown EXCEPT ![s] = answer'[s]] /\ shown[s] = "none"
  BY <1>1 DEF Runs
<1>3. applied' = applied
  <2>1. \A t \in Seeders : (tx'[t] = "committed") = (tx[t] = "committed")
    OBVIOUS
  <2> QED BY <2>1
<1>4. applied[s] <=> tx[s] = "committed"
  OBVIOUS
<1> QED BY <1>1, <1>2, <1>3, <1>4 DEF Promise!Answer

(* Only the server's COMMIT makes a seed durable, all tables at once: of a *)
(* seeder that is alone in this, and not told anything else.               *)
LEMMA CommitStep ==
    ASSUME SetupInv, SetupInv', NEW s \in Seeders, ServerCommit(s)
    PROVE  Promise!Apply(s)
<1> DEFINE shown == [t \in Seeders |-> IF pc[t] = "done" THEN answer[t] ELSE "none"]
           applied == [t \in Seeders |-> tx[t] = "committed"]
<1>1. tx' = [tx EXCEPT ![s] = "committed"] /\ tx[s] = "committing"
  BY DEF ServerCommit, EndTx
<1>2. \A t \in Seeders : ~applied[t]
  BY <1>1 DEF SetupInv, SeededOnce, TypeOK
<1>3. shown[s] \in {"none", "UNHANDLED"}
  BY <1>1 DEF SetupInv, SeederPhase, Promise!NoEffect
<1>4. rows' = [k \in Tables |-> rows[k] \cup {"seed"}]
  BY <1>1 DEF ServerCommit, SetupInv, KeysHeld
<1>5. applied' = [applied EXCEPT ![s] = TRUE]
  <2>1. \A t \in Seeders : (tx'[t] = "committed") = (t = s)
    BY <1>1, <1>2 DEF SetupInv, TypeOK
  <2> QED BY <1>2, <2>1
<1>6. UNCHANGED shown
  BY DEF ServerCommit
<1> QED BY <1>2, <1>3, <1>4, <1>5, <1>6 DEF Promise!Apply

(* Every other step of a seeder is not seen, or is its end. *)
LEMMA SeederStep ==
    ASSUME SetupInv, SetupInv', NEW s \in Seeders,
           SeederNext(s) \/ NotStarted(s) \/ Connect(s) \/ Crash(s)
    PROVE  [Promise!Next]_(Promise!vars)
<1> USE DEF SetupInv, TypeOK, Runs, target, server, GoTo
<1>1. CASE \/ RefuseStructure(s) \/ RefuseOccupied(s) \/ PreflightFails(s)
           \/ NotStarted(s) \/ CommitReturns(s) \/ RollbackReturns(s)
           \/ RollbackRaises(s)
  <2>1. /\ pc[s] # "done" /\ pc' = [pc EXCEPT ![s] = "done"]
        /\ UNCHANGED rows
        /\ \A t \in Seeders \ {s} : answer'[t] = answer[t]
    BY <1>1 DEF RefuseStructure, RefuseOccupied, PreflightFails, NotStarted,
                CommitReturns, RollbackReturns, RollbackRaises, Finish
  <2>2. \A t \in Seeders : tx'[t] = "committed" <=> tx[t] = "committed"
    BY <1>1 DEF RefuseStructure, RefuseOccupied, PreflightFails, NotStarted,
                CommitReturns, RollbackReturns, RollbackRaises, EndTx,
                SeederPhase
  <2>3. Promise!Answer(s)
    BY <2>1, <2>2, EndingStep
  <2> QED BY <2>3 DEF Promise!Next
<1>2. CASE \/ SelectDatabase(s) \/ ValidateStructure(s) \/ CountTable(s)
           \/ AllEmpty(s) \/ Begin(s) \/ InsertRows(s) \/ AllInserted(s)
           \/ Recount(s) \/ Unexpected(s) \/ Connect(s) \/ Crash(s)
  <2>1. \A t \in Seeders : tx'[t] = "committed" <=> tx[t] = "committed"
    BY <1>2 DEF SelectDatabase, ValidateStructure, CountTable, AllEmpty,
                Begin, InsertRows, AllInserted, Recount, Unexpected, Connect,
                Crash, SeederPhase, Early
  <2>2. UNCHANGED rows /\ \A t \in Seeders : Shown(t)' = Shown(t)
    BY <1>2, SetupAssumption
    DEF SelectDatabase, ValidateStructure, CountTable, AllEmpty, Begin,
        InsertRows, AllInserted, Recount, Unexpected, Connect, Crash, Shown
  <2> QED BY <2>1, <2>2, QuietStep
<1>3. CASE InsertFails(s) \/ RecountFails(s) \/ CommitRaises(s)
  <2>1. \A t \in Seeders : tx'[t] = "committed" <=> tx[t] = "committed"
    BY <1>3 DEF InsertFails, RecountFails, CommitRaises, StatementFails,
                EndTx, SeederPhase
  <2>2. UNCHANGED rows /\ \A t \in Seeders : Shown(t)' = Shown(t)
    BY <1>3 DEF InsertFails, RecountFails, CommitRaises, StatementFails, Shown
  <2> QED BY <2>1, <2>2, QuietStep
<1> QED BY <1>1, <1>2, <1>3 DEF SeederNext, Proceed

(* Nor are the steps of initializers, or what the server rolls back; what  *)
(* others insert is.                                                       *)
LEMMA OtherStep ==
    ASSUME SetupInv, SetupInv',
           \/ \E i \in Initializers :
                InitializerNext(i) \/ NotStarted(i) \/ Connect(i) \/ Crash(i)
           \/ \E s \in Seeders : ServerAbort(s)
           \/ Intrude
           \/ UNCHANGED vars
    PROVE  [Promise!Next]_(Promise!vars)
<1> USE SetupAssumption DEF SetupInv, TypeOK, Runs, target, server, GoTo
<1>1. ASSUME NEW i \in Initializers,
             InitializerNext(i) \/ NotStarted(i) \/ Connect(i) \/ Crash(i)
      PROVE  UNCHANGED Promise!vars
  <2>1. UNCHANGED <<rows, tx>>
    BY <1>1 DEF InitializerNext, SelectTarget, RefuseTarget, CreateTable,
                CreateFails, AllCreated, Inspect, NotStarted, Connect, Crash
  <2>2. \A t \in Seeders : pc'[t] = pc[t] /\ answer'[t] = answer[t]
    BY <1>1 DEF InitializerNext, SelectTarget, RefuseTarget, CreateTable,
                CreateFails, AllCreated, Inspect, NotStarted, Connect, Crash,
                Finish
  <2> QED BY <2>1, <2>2, QuietStep DEF Shown
<1>2. ASSUME NEW s \in Seeders, ServerAbort(s)
      PROVE  UNCHANGED Promise!vars
  <2>1. \A t \in Seeders : tx'[t] = "committed" <=> tx[t] = "committed"
    BY <1>2 DEF ServerAbort, EndTx
  <2> QED BY <1>2, <2>1, QuietStep DEF ServerAbort, Shown
<1>3. CASE Intrude
  <2>1. UNCHANGED <<tx, pc, answer>>
    BY <1>3 DEF Intrude
  <2>2. CASE UNCHANGED rows
    BY <2>1, <2>2, QuietStep DEF Shown
  <2>3. ASSUME NEW k \in Tables, rows' = [rows EXCEPT ![k] = @ \cup {"other"}]
        PROVE  Promise!Insert(k)
    BY <2>1, <2>3 DEF Promise!Insert
  <2> QED BY <1>3, <2>2, <2>3 DEF Intrude, Promise!Next
<1>4. CASE UNCHANGED vars
  BY <1>4, QuietStep DEF vars, Shown
<1> QED BY <1>1, <1>2, <1>3, <1>4

(* Any number of seeders and initializers, with every failure, crash and   *)
(* foreign write of the model, do what one indivisible seed could do       *)
(* (seed.py:100-134).                                                      *)
THEOREM SeedIsOneStep == Spec => ImplementsSeedLedger
<1>1. Init => Promise!Init
  BY SetupAssumption DEF Init, Promise!Init, Runs
<1>2. SetupInv /\ SetupInv' /\ [Next]_vars => [Promise!Next]_(Promise!vars)
  BY CommitStep, SeederStep, OtherStep
  DEF Next, ServerNext, Runs, Promise!Next
<1> QED BY <1>1, <1>2, SetupInvariance, PTL
        DEF Spec, ImplementsSeedLedger, Promise!Spec
=============================================================================
