# A TLA+ model of laboratory-database-integrity

TLA+ modules, TLC configurations and TLAPS proofs for the `labdb` package: a
MySQL schema, and Python operations that initialize it, seed it, verify it and
move equipment between laboratories. Paths below are relative to the
repository's root (`src/labdb/...`, `sql/...`, `docs/...`).

## Inventory

| Part | State | Operations | Talks to | What makes it correct |
|---|---|---|---|---|
| Equipment transfer, `transactions.py`, `errors.py` | location of each equipment row, history rows; a server transaction and its row locks; the connection | `transfer_equipment`, `transfer_equipment_for_config` | MySQL, statement by statement | a checked source does not go stale; move and record are one; the answer never contradicts what is or becomes durable; the caller's own transaction is left alone |
| Reconciliation, `transactions.py` | none | `find_transfer_by_id`, `reconcile_transfer_for_config` | MySQL, on a new connection | a verdict is true and is not overtaken by a COMMIT on its way |
| Sessions, `db.py` | connection, autocommit, 30 s timeouts | `connect_server` | MySQL | every session handed out has foreign keys, strict mode and UTC in force; a refused one is closed |
| Initialization, `initialize.py` | tables of the target | `initialize_database`, `validate_structure` | `sql/schema.sql`, MySQL DDL | never alters a database that has objects; success means the full structure |
| Statement splitter, `initialize.py` | scanner state | `split_sql_statements` | SQL files | cuts at the semicolons outside quoted texts and comments, and nowhere else |
| Structural contract, `metadata.py` | constants | compared by `validate_structure` | INFORMATION_SCHEMA | a validation without problems means the contract |
| Seed, `seed.py` | one transaction over 22 tables | `seed_database` | `sql/seed.sql`, `verify.py` | all or nothing, once, and its errors are true |
| Verification, `verify.py` | a read-only snapshot | `verify_database`, `run_business_checks` (V01-V16) | MySQL | reports exactly the violations of one committed state of its time, and ends |
| Schema rules, `sql/schema.sql` | 22 tables | CHECK, UNIQUE, FOREIGN KEY | all of the above | with the silence of V01-V15, charges, terms and repairs mean what their words say |
| Points query, `sql/queries.sql` | none | one SELECT | the tables | each deduction counts once, for one student in one term |
| Configuration, command line | none | `load_config`, `main` | all of the above | no server is contacted under an invalid configuration; an exit status is true of the database |

What is hard here is not any one statement but the order of statements of
several sessions, and failure at each of them: a COMMIT whose answer is lost, a
rollback that fails, a process that dies holding locks, a second call with the
same identifier, another writer between a check and its use, DDL that commits
one statement at a time. `PROJECT.json` lists these hazards at their lines,
with the properties that cover them.

## Modules

| Module | What it is |
|---|---|
| `TransferLedger` | what a transfer promises: one indivisible move with its record, and an answer that agrees with it |
| `EquipmentTransfer` | concurrent calls of `transfer_equipment`, the server's transactions and locks, reconciliation, an administrator of laboratories |
| `TransferProperties` | properties, refinement mapping, inductive invariant of `EquipmentTransfer` |
| `MCTransfer` | its instances for TLC |
| `EquipmentTransferProof` | the inductive invariant and the safety theorems |
| `TransferCommandProof` | the action property, the refinement of `TransferLedger`, exit statuses, transfers beside a verification |
| `DatabaseSetup` | concurrent `initialize_database` and `seed_database` on one target |
| `SeedLedger` | what a seed promises: all tables filled in one step by one run, and answers that agree with it |
| `SetupProperties`, `MCSetup`, `SetupProof` | properties of `DatabaseSetup`, refinement mapping to `SeedLedger`, instances, proofs |
| `TransferSpelling`, `SpellingProof` | transfers and reconciliation where identifiers have several spellings |
| `TransferCommand` | `labdb transfer` around `EquipmentTransfer` |
| `Verification`, `VerificationProperties`, `MCVerification`, `VerificationProof` | `verify_database` query by query beside writers and DDL |
| `VerifyCommand` | `labdb verify` around it; proved in `VerificationProof` |
| `VerifiedTransfer`, `MCVerified` | `TransferCommand` and `Verification` on one database |
| `Reservations`, `ReservationProperties` | reservations, check-ins, deductions under the schema, V01-V12, the points query |
| `Repairs`, `RepairProperties` | reports and repairs under the schema, V13-V15 |
| `RecordProof` | proofs about `Reservations` and `Repairs` |
| `StructureContract` | `validate_structure` on an altered schema |
| `SqlSplitter`, `SplitterProof` | `split_sql_statements`, pass by pass, and its proof |
| `DatabaseSession` | `load_config`, `connect_server`, `USE` |
| `InterfaceProof` | proofs about `DatabaseSession` and `StructureContract` |
| `MCRecords` | instances of `Reservations`, `Repairs` and `TransferSpelling`, one `part` in each behaviour |
| `MCInterfaces` | instances of `DatabaseSession`, `StructureContract` and `SqlSplitter`, likewise |

### How `EquipmentTransfer` follows the code

A *call* (`req`, `pc`, `current`, `stamp`, `outcome`, `conn`) is one execution
of `transfer_equipment`; its *transaction* (`tx`, `rowLock`, `labShare`,
`keyShare`) lives at the server and may outlive it. `pc` names what is due next:

| `pc` | due | code |
|---|---|---|
| `idle` | validation, active-transaction check, BEGIN | 151-162 |
| `locking` | SELECT ... FOR UPDATE | 166-175 |
| `checking` | the two refusals, SELECT ... FOR SHARE | 177-196 |
| `updating` | UPDATE | 198-206 |
| `stamping` | `clock()` | 208-209 |
| `inserting` | INSERT | 210-223 |
| `inserted`, `committing` | COMMIT to be sent; sent | 244-248 |
| `rollback` | the handlers' rollback | 114-121, 224-242 |

* Writes of a transaction are not in `location` and `history` until
  `ServerCommit`; other sessions' locking reads wait for its row lock, so no
  read in the code can see them.
* A statement waits exactly when its lock or key is held (the action is not
  enabled) and may fail at any time (`StatementFails`), with the transaction
  intact (lock wait timeout, an UPDATE that reports another row count),
  rolled back by the server (deadlock victim), or with the connection lost.
* The INSERT's key is InnoDB's, from its documented behaviour. One that finds
  its identifier inserted and uncommitted asks for a shared lock on it
  (`AskForKey`) and is in `keyShare` from then on. If that record is committed,
  the INSERT raises 1062. If it is rolled back, all who asked have the shared
  lock, and an INSERT needs a place that nobody else's shared lock covers
  (`InsertWaitsFor`). So two retries that wait for the identifier of a
  third call deadlock when that one is rolled back, and one of them is refused
  (`Deadlocked`). `Covers` is how far such a lock reaches: over the gaps up to
  the records next to the identifier, so that INSERTs of other identifiers may
  wait, too.
* `CommitRaises` is possible whatever the server has done, and `ServerCommit`
  can follow it. `SendCommit` on a dead connection reaches nobody.
* `ServerAbort` ends any transaction of a call at any time. A server restart
  is a `ServerAbort` of each of them.
* `RollbackRaises` discards the connection and keeps the transaction: the
  server notices later. `Return` closes the connection of a call made through
  `transfer_equipment_for_config`.
* `clock()` is a counter of readings; `ClockSkew` is how far a reading may lag
  behind the latest one by any call. With 0, clocks agree.
* `Reconcile` reads the history at any time after a crash or an unknown outcome.
* `DropLab` respects RESTRICT foreign keys and shared locks. A source is named by
  the committed location, so that no delete of it needs its own lock in the model.

### How `DatabaseSetup` follows the code

Statement k of `schema.sql` creates table k, statement k of `seed.sql` fills
it (the two files use one order). Initializers run preflight, CREATE TABLE by
CREATE TABLE, and the inspection; each CREATE TABLE is durable at once and may
be durable although it raised. Seeders run USE, structure validation, one
count per table (each sees what is committed by then), BEGIN, INSERT by INSERT
(waiting for keys another seeder holds), the recount and business checks in one
snapshot, COMMIT. `transaction_started` is the part of `pc` from `inserting`
on. When rollback raises, the model takes the code's path: it raises again in
`finally`, `close()` is skipped and the driver's error escapes (`UNHANDLED`).
`Intrude` is somebody else creating an object or inserting a row. The shared
locks of INSERTs that wait for a key, which `EquipmentTransfer` has, are left
out here: what they add is that one of several waiting seeders may fail, and
an INSERT may fail at any time. Only `SetupReturns` could notice, with a third
seeder; the run has two.

`SeedLedger` has none of this. Its `Apply` is the `ServerCommit` of a run,
its `Answer` the step that ends one, its `Insert` the intruder's row; all else
changes nothing that it sees. A run that ended in an exception that says
nothing (`UNHANDLED`) may still see its COMMIT done; one with another answer
may not.

### How the other modules follow the code

* `TransferSpelling`: a call is one step, since `EquipmentTransfer` shows that
  calls on one equipment are as if one after the other. `Same` is equality
  under the collation, `=` that of Python. `Stale`, `SameLab` and the tuple
  comparison of `Reconcile` use `=`; the queries, keys, the CHECK and V16 use
  `Same`; `Move` stores what the caller spelled, as the UPDATE and INSERT do.
  Two facts of MySQL are assumed: `utf8mb4_0900_as_cs` equates canonically
  equivalent strings, and INSERT evaluates CHECKs before it looks for the key.
* `Verification`: `drifted` is the set of facets (one for each metadata query)
  that differ now, `snapshot` the content that `START TRANSACTION WITH
  CONSISTENT SNAPSHOT` fixed. `Inspect` reads the former, `Check` the latter.
  `during`, `drifts` and `matches` only record what there was during the run;
  the properties speak about them. `StatementFails` and `RollbackRaises` lose
  whatever was found, as the `except` clause does.
* `VerifiedTransfer` puts the committed rows of `EquipmentTransfer` in place of
  `content`, and V16, written from its query, in place of the rules. Nobody
  alters tables there.
* `Reservations` and `Repairs`: an operator for each key, CHECK and rule, of
  the tables as an argument. A writer's statement is carried out iff the tables
  satisfy the schema afterwards, which is how RESTRICT keys and CHECKs act on
  statements of one row. In `Repairs` columns may be NULL where rules and
  CHECKs compare them: a CHECK that is UNKNOWN passes (`MayFollow`, `MayBeIn`),
  a WHERE that is UNKNOWN takes no row. The SUM of the points query is the
  number of pairs of a deduction and one of its points (`Units`, `Total`).
* `StructureContract`: the metadata as INFORMATION_SCHEMA has it, an operator
  for each query's comparisons, and the alterations that MySQL accepts (a
  referenced table or key is not dropped; UNIQUE names are names within a
  table, FOREIGN KEY and CHECK names within a database).
* `SqlSplitter`: an action for each branch of the loop, with its `index`,
  `state`, `buffer` and `statements`; `Take` is the two lines at its end, which
  the branches with a lookahead run twice. `Return` is what follows the loop.
  `Starts`, `Ends` and `Cuts` say by positions, without a scanner, where
  quoted texts and comments are and what is to be cut.
* `DatabaseSession`: `session` is what is in force at the server, `seen` what
  the SELECT fetched. A SET that is answered may have had no effect. What the
  driver is given is not modelled beyond whether it connects.
* `TransferCommand`, `VerifyCommand`: what the caller of the operation prints
  and returns, with prints that raise. A flush that fails after `main` is not
  modelled.

## Runs

| Run | Instance | Shows |
|---|---|---|
| `race` | 3 calls, 1 equipment, A to B twice and back, skew 0 | `SourceStaysCurrent`, `EveryMoveRecorded`, V16 |
| `retry` | 2 calls, 2 equipment, equal and different payloads under one identifier, a seeded identifier, skew 1 | `AppliedOnce`, `AnswerAgrees`, `VerdictSound` |
| `refusals` | 2 calls of every kind of refusal, caller transactions, laboratories deleted and added; 3 calls of one identifier for 3 pieces of equipment | `OnlyReusedIdsDeadlock`, `TargetStaysPresent`, `NothingLeftBehind`, `CallerTransactionPreserved` |
| `ledger` | 2 calls, some refused for their arguments, changing laboratories, a conflict with a seeded identifier, skew 1 | `IInv`, refinement of `TransferLedger` |
| `settling` | 2 calls contending for a row or an identifier, one on the caller's connection; 3 calls of one identifier | `CallsReturn`, `TransactionsEnd` under `Fairness` |
| `setup` | 2 initializers, 2 seeders, 2 tables, a foreign writer | all or nothing, once, true answers, one initializer |
| `setup_ends` | 1 initializer, 2 seeders, 2 tables | `SetupReturns` under `Fairness`; refinement of `SeedLedger` |
| `seed_error` | 1 seeder | violates `SeedErrorMeansRolledBack` |
| `verdict` | the verify command, 2 facets, 2 rules, 4 contents | a result is of one moment; S01 was there; status and lines are true; the run ends |
| `verified` | 2 transfers there and back, one of them a command, a seeded record, one verification | `NoFalseAlarm`, `ExitAgrees` |
| `records` | below | what charges, terms, points, finished repairs, reconciliations and V16 say of the rows |
| `interfaces` | below | safe or closed sessions that open or end; `SilenceMeansContract`; `CutsWhereMeant` |

`records` and `interfaces` check several modules that share no state: the
variable `part` is chosen at the start and says which one moves, so that their
states add up and do not multiply. The parts:

| Run, part | Instance |
|---|---|
| `records`, evidence | 2 reservations of one student, check-ins on either side of each limit, every type of violation with right and wrong evidence |
| `records`, terms | touching and overlapping terms, reservations that move between them, courses that change hands, violations |
| `records`, repairs | 1 report in every state, 2 attempts at every stage, NULLs |
| `records`, spelling | 1 equipment, 2 laboratories, an identifier, two spellings each; ghosts |
| `interfaces`, session | every environment with ports 0, 1, 65535, 65536, every server default |
| `interfaces`, structure | 4 tables, 3 UNIQUEs, a foreign key, 2 CHECKs, up to 3 alterations |
| `interfaces`, text | all texts of up to 4 characters of 12 classes; of up to 6 with a quote and backslashes, with `/` and `*`, with `-` and newlines, and semicolons |

Bounds. In the transfer modules calls are the only source of unboundedness: each makes one attempt,
and reads the clock at most once. Three calls are what a move away, a move
back and a second move with the same source need (the location returns to a
value checked before). Under one identifier, two calls show what a
retry meets, pending, committed or rolled back; three, on equipment of their
own so that they reach their INSERTs, show what two that wait meet when the
first is rolled back. `TwoOrThreeNext` has both in `refusals` and `settling`;
of the three, failures that nothing calls for strike only the one for `e1`
(`ContendNext`): it is enough that the first to insert may fail in any way, and
the other two fail when the server has them fail. Two tables show every
partial state of the schema and of the seed. Two rules and two facets are what
it takes to read two states; a text of six characters holds a quote, an
escape, a delimiter, a close and what follows, or both ends of a block comment
and a semicolon within and after it; three alterations let two hide a third. Reservations,
repairs and spellings have finite sets of rows and no other bound, so that `records`
can always go on and is checked for deadlock, as is `verdict`, whose writers never stop. Deadlock
checking is off where a system stops: when all calls, commands or openings are
over nothing more happens, and `MaxChanges` and the ends of the texts end two
parts of `interfaces`. Calls of one kind are interchangeable,
which is the symmetry of `race`, `refusals` and `setup`; the liveness runs use
none.

Fairness. A call in progress is scheduled, a statement that can proceed is
answered, and one on a dead connection raises: `connect_server` sets read and
write timeouts (`db.py:31`). The server ends a transaction whose COMMIT it got
or whose client is gone. Nothing else is fair: not lock wait timeouts, other
failures, crashes, the start of a call, or reconciliation. So `CallsReturn`
says that transfers among themselves never need a lock timeout: the order in
which locks are taken leaves circular waits only to INSERTs of one identifier,
and those InnoDB's deadlock detector ends at once by failing one of them, which
the last conjunct of `Fairness` states. A caller who keeps a transaction
of its own open can block others until their timeout, so the liveness run has
no such caller. `RunEnds` needs only that the run's next query is answered or
raises, whatever others commit: reads of a snapshot take no row locks.
`OpeningEnds` needs only the same of the statements of `connect_server`
(`db.py:30-32`, 10 and 30 s); the mutant without the read timeout never ends.

## Divergences

The run `seed_error` exhibits the first. The others came up while modelling; the
properties named below are stated so that they hold of the code as it is, and
say how far each divergence reaches.

1. `seed.py:33` says of `SeedExecutionError`: "Raised after a complete
   transaction rollback." The handler (`seed.py:124-130`) also raises it, with
   a message that the complete seed transaction was rolled back, when USE, a
   metadata query, a row count or BEGIN fails, before any transaction. Nothing
   is written in that case (`SeedAnswerAgrees`).
2. `docs/schema-reference.md:393` says acceptance fields are all NULL or all
   present. `schema.sql:300-303` lets pass a row with acceptor and time but no
   result, for which the CHECK is UNKNOWN. `DoneMeansAccepted` shows that V14
   and V15 still suffice for a report that is done.
3. `docs/design-decisions.md:55` says the structural contract covers UNIQUE
   groups. `initialize.py:272` keys them by constraint name alone: one on an
   earlier table with an expected name is overwritten. `SilenceMeansContract`
   shows that this is all that is missed.
4. `initialize.py:354` refuses a file without executable statements; a file of
   comments only, or a comment after the last semicolon, is a statement to
   `split_sql_statements`, and to `CutsWhereMeant`.
5. `transactions.py:179` says of STALE_SOURCE that the equipment is not in the
   source laboratory. After a move that named its target by a canonically
   equivalent spelling, a call that names that laboratory as its row does is
   refused so (`Stale` of `TransferSpelling`). No record, verdict or V16 goes
   wrong by it.
6. `README.md:57` gives status 1 of `transfer` to domain refusals. A print that
   raises after COMMIT (`cli.py:103`) ends the process with 1. Without a line a
   status 1 says nothing (`ExitAgrees`).

## Proofs

The proofs about transfers assume `ConstantsAssumption` (types of the parameters) and
`InitialDataAssumption` (the initial rows satisfy their keys, foreign keys and
V16), which TLC evaluates in every run of `MCTransfer`.

The safety properties are not inductive. `IInv` adds why they hold: where a
call is determines what its transaction may be (`PhaseAgrees`); a transaction
the server ended is noticed (`AbortIsNoticed`); locks belong to live
transactions and are held from the check to the end (`LocksBelong`,
`LocksHeld`); a shared lock on an identifier comes from a call that had it
before (`SharesHaveCause`); an uncommitted identifier is unused (`PendingKeys`); the history
is exact (`HistoryExact`); a stamp read under the row lock is later than every
record of that equipment (`StampIsLatest`). `EquipmentTransferProof` shows it
inductive, one lemma per conjunct, and derives the properties;
`TransferCommandProof` shows that `ServerCommit` is the ledger's `Apply`, that
ending a call is its `Answer`, that laboratories change as it allows, and that
every other step is invisible to it.

Proved for all constants: `Invariance`, `TypeCorrect`, `SourceIsCurrent`,
`TargetIsPresent`, `AnswersAgree`, `OncePerIdentifier`, `VerdictsAreSound`,
`ConnectionsAreClean`, `DeadlocksAreOfReuse`, `LatestRecordNamesLocation` (assuming
`ClockSkew = 0`), `CallerTransactionKept`, `Refinement`.

`DeadlocksAreOfReuse` follows from the order in which a call takes its locks:
the row first, the identifier by its INSERT later, and a caller's transaction,
which may hold a row for long, is refused before it waits. If `a` waits for
`b` and `b` for `c`, then `b` is at its INSERT (`WaitedForInserts`): it holds a
row or a shared lock on an identifier, and an UPDATE, whose row is the
transaction's own, never waits. So in a circle all are at their INSERTs. None
of them has inserted, so each is waited for because of its shared lock, which
by `SharesHaveCause` it got over an identifier whose first call was rolled
back (`WaitedForReinserts`). That there are no deadlocks at all would be false:
three calls of one identifier reach one.

`EveryMoveRecorded` is not in `IInv`, and needs cardinalities:
`TransferCommandProof` shows by the finite-set theorems that each step adds as
many records into a laboratory, less those out of it, as equipment comes to it
(`MovesAreRecorded`), and from `AnswerAgrees` and the finality of answers that
exit statuses are true (`ExitStatusIsTrue`).

Beside a verification transfers are transfers (`TransfersUnaffected`), to the
verification they are others that commit (`ImplementsVerification`), and in
every snapshot V16 is empty (`NoAlarm`, for `ClockSkew = 0`).

Some properties are proved and have no run of their own, to keep the runs to one
question each: `OneWayOut`, `CourseOwnerTeaches`, `AwaitingMeansWorkOver`,
`WorkNeedsAssignment`, `QuietStructureIsExact`, `NoMoveWithinALab` and
`OneRecordPerId`.

The other modules:

* `SetupProof` (`SetupAssumption`: there is a table). `SetupInv` adds to the
  properties where a seeder is determines what its transaction may be
  (`SeederPhase`), that uncommitted seed rows have one owner (`KeysHeld`), that
  committed ones are those of one committed seeder (`SeedsCommitted`), and that
  an initializer's tables are there (`InitializerPhase`). Proved: `SetupTypes`,
  `SeedIsWhole`, `SeedIsOnce`, `SeedAnswerIsTrue`, `InitializerIsAlone`, and
  `SeedIsOneStep`: `DatabaseSetup` implements `SeedLedger`. At a COMMIT
  `KeysHeld` gives that the run's rows are in every table and
  `SeedsCommitted` that no other run's are, which is all that `Apply` asks.
* `RecordProof` (`RowsAssumption`, `RepairsAssumption`). The schema itself is
  the inductive invariant (`SchemaKept`, `RepairSchemaKept`), since the server
  refuses what breaks it: the lemmas `SchemaIsKept` and `RepairSchemaIsKept` are
  of the definitions and say no more. Most properties follow from it and the silence of the
  rules they name. Two are about sums. A sum by recursion over a set is
  beyond the provers; as a number of units it is a cardinality, and what the
  proofs need of it is that it grows with the set and that a bijection
  keeps it. `EachIsDeductedOnce`: the units of a student's sums over the terms
  and those of his violations are in one-to-one correspondence, since a
  violation has one reservation and that one term. `PointsMoveLocally`: a
  statement on one row leaves the units of everybody whose rows it does not
  touch as they are.
* `VerificationProof` (`VerificationAssumption`). `IInv` there says that the
  snapshot is of a moment of the run and that `found` is what the queries so
  far report. Proved: `OneMoment`, `DriftIsReal`, `QuietIsExact`, and
  `VerifyExitIsTrue` for the command.
* `SpellingProof` (`SpellingAssumption`). The history is what was applied, no
  two of its identifiers are the same under the collation, and the latest
  record of an equipment spells its place. Proved: `NoMoveWithin`, `OneRecord`,
  `NoAlarmOverSpelling`, `ReconciliationExact`.

* `InterfaceProof`. `SessionInv` (`SessionAssumption`) says what each statement
  of opening has established: the configuration is valid, `seen` was read after
  the last SET, the connection is still this session's and was made under a valid
  configuration, which names a port in range and a database of ours
  (`ValidNames`). `SessionsAreSafe` and `RefusalsLeaveNothing` follow. `StructureInv` (`StructureAssumption`) has the
  keys of INFORMATION_SCHEMA: one row for a column, one UNIQUE of a name in a
  table. With it an empty list of problems can be read backwards into the
  contract, entry by entry (`SilenceIsContract`).
* `SplitterProof` (`SplitterAssumption`: a text consists of characters of the
  alphabet). `SplitInv` says that the scanner is within what begins at some
  start and has not ended (`Scanning`), all before it being whole, and that the
  statements are the pieces of the cuts so far and the buffer is the rest
  (`Gathered`). Within quotes it has to remember that the run of backslashes
  before `index` is even, which is why the scanner's pairs and the odd
  runs of `Escaped` agree. `Starts` is a least set, so that nothing starts
  within what has not ended is itself proved from its minimality
  (`NoneInside`). One lemma per pass of the loop; `CutsAreMeant` is for texts of
  any length. TLC also checked `SplitInv`, on texts of up to 5 characters.

Only model-checked: liveness (`CallsReturn`, `TransactionsEnd`, `SetupReturns`,
`RunEnds`, `OpeningEnds`), since temporal fairness is outside the provers. Every
other property of a run that passes is proved.

## Not modelled

Packaging and tests: no state. Argument parsing, and `labdb init` and
`labdb seed`, which print a result or map every refusal to 1. Writers that
bypass `transfer_equipment` and change equipment or history rows:
`docs/limitations.md` excludes them from the guarantees. A seed committed beside
rows that a foreign writer commits after its recount's snapshot: the writer is
in `DatabaseSetup`, but no document promises that a successful seed is alone.

Of the schema: loans, safety inspections, 预约设备 and the registers, whose
constraints are on single rows that no rule reads; CHECKs on blank texts;
reviewers and rejection reasons. No rule connects a no-show violation with the
status of its reservation: one on a reservation that is not 爽约, with a
check-in, verifies. Nor does one connect the worker of an attempt at a repair
with the worker of the report; `WorkNeedsAssignment` leaves it open. V07 adds
nothing to V05, which reports the same check-ins. DDL during a verification is modelled although `docs/limitations.md:23` does not
support it, to say what a result then still means.

The entries of the structural contract are data. `StructureContract` has the
kinds of them; that each of the 22 tables has the right entry is what the
repository's contract tests compare.

## What could come next

1. `labdb init` and `labdb seed` around `DatabaseSetup`, as `TransferCommand` is
   around `EquipmentTransfer`.
2. The composition of initialization and verification, as `VerifiedTransfer` is
   of transfers and verification: a schema that grows under a run.
