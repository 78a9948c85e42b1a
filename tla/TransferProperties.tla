------------------------- MODULE TransferProperties -------------------------
(***************************************************************************)
(* What transfer_equipment and reconcile_transfer_for_config guarantee,    *)
(* stated over EquipmentTransfer.                                          *)
(***************************************************************************)
EXTENDS EquipmentTransfer, FiniteSets

Active(a) == tx[a] \in {"open", "updated", "inserted", "committing"}

(* The transaction has changed the equipment row, and may yet commit. *)
Writing(a) == tx[a] \in {"updated", "inserted", "committing"}

InProgress(a) == pc[a] \notin {"idle", "done", "crashed"}

-----------------------------------------------------------------------------
(* Isolation. *)

(* The source a caller named is checked once, several statements before    *)
(* COMMIT.  Until the transaction ends it is the committed location, so    *)
(* what COMMIT overwrites is what was checked (the FOR UPDATE of           *)
(* transactions.py:167), and no second writer of the row is active.        *)
SourceStaysCurrent ==
    /\ \A a \in Attempts :
         Writing(a) => /\ req[a].equipment \in Equipment
                       /\ location[req[a].equipment] = req[a].source
    /\ \A a, b \in Attempts :
         Writing(a) /\ Writing(b) /\ req[a].equipment = req[b].equipment
             => a = b

(* A target found by SELECT ... FOR SHARE (transactions.py:188) is still   *)
(* there when the UPDATE names it and until the transaction ends.          *)
TargetStaysPresent ==
    \A a \in Attempts :
        Writing(a) \/ (tx[a] = "open" /\ pc[a] = "updating")
            => req[a].target \in labs

-----------------------------------------------------------------------------
(* Atomicity and the answer the caller gets. *)

(* SUCCESS means the move is durable; an error other than                  *)
(* COMMIT_OUTCOME_UNKNOWN means it is not and, the server being possibly   *)
(* slower than the client, never will be (transactions.py:224-248).        *)
AnswerAgrees ==
    \A a \in Attempts : pc[a] = "done" =>
        /\ outcome[a] = "SUCCESS" =>
             tx[a] = "committed" /\ Row(a) \in history
        /\ outcome[a] \in Failures => tx[a] \notin {"committing", "committed"}

(* Of the calls made with one identifier, retries of a lost answer among   *)
(* them, at most one is ever applied, and every record of the history that *)
(* the initial data did not have belongs to the one call that was.         *)
AppliedOnce ==
    /\ \A a, b \in Attempts :
         /\ tx[a] = "committed" /\ tx[b] = "committed"
         /\ req[a].id = req[b].id
         => a = b
    /\ \A h \in history \ InitHistory :
         \E a \in Attempts : tx[a] = "committed" /\ h = Row(a)
    /\ \A g, h \in history : g.id = h.id => g = h

(* For every equipment and laboratory, arrivals less departures recorded   *)
(* since the start say whether it is there now: no move goes unrecorded    *)
(* and none is recorded twice, whatever the clocks read.                   *)
EveryMoveRecorded ==
    \A e \in Equipment, l \in LabIds :
        LET new  == {h \in history \ InitHistory : h.equipment = e}
            into == Cardinality({h \in new : h.target = l})
            out  == Cardinality({h \in new : h.source = l})
            Here(loc) == IF loc[e] = l THEN 1 ELSE 0
        IN into - out = Here(location) - Here(InitLocation)

(* V16 (verify.py:69): with clocks that agree, the latest record of every  *)
(* equipment names its location, because clock() is read under the row     *)
(* lock (transactions.py:208).                                             *)
LatestTransferMatchesLocation == LatestNamesPlace(history, location)

(* Reconciliation (transactions.py:341): MATCHING_COMMITTED is said only   *)
(* of a durable move with the caller's payload, TRANSFER_ID_CONFLICT only  *)
(* of a call that was not applied; and neither can be falsified later by a *)
(* COMMIT still on its way.                                                *)
VerdictSound ==
    \A a \in Attempts :
        /\ verdict[a] = "MATCHING_COMMITTED" =>
             \E h \in history : Payload(h) = req[a]
        /\ verdict[a] = "TRANSFER_ID_CONFLICT" =>
             tx[a] \notin {"committing", "committed"}

-----------------------------------------------------------------------------
(* Connections handed back to the caller. *)

(* A call that returns or raises never leaves a transaction of its own, or *)
(* a lock, on a connection its caller could go on using                    *)
(* (transactions.py:107-121, 247).                                         *)
NothingLeftBehind ==
    \A a \in Attempts :
        pc[a] = "done" /\ conn[a] = "open" /\ tx[a] # "caller" =>
            /\ ~Active(a)
            /\ \A e \in Equipment : rowLock[e] # a
            /\ \A l \in LabIds : a \notin labShare[l]
            /\ a \notin keyShare

(* No step of a call ends or takes over a transaction its caller had open, *)
(* nor drops the locks of it (transactions.py:154).                        *)
CallerTransactionPreserved ==
    [][\A a \in Attempts :
         tx[a] = "caller" /\ pc'[a] # pc[a] =>
             /\ tx'[a] = "caller"
             /\ \A e \in Equipment : rowLock[e] = a => rowLock'[e] = a]_vars

-----------------------------------------------------------------------------
(* Waiting. *)

(* The statement a runs is held up by what b's transaction has locked or   *)
(* inserted, or by a shared lock it has on an identifier.                  *)
WaitsFor(a, b) ==
    /\ a # b /\ conn[a] = "open"
    /\ \/ /\ pc[a] \in {"locking", "updating"}
          /\ req[a].equipment \in Equipment
          /\ rowLock[req[a].equipment] = b
       \/ pc[a] = "inserting" /\ InsertWaitsFor(a, b)

(* Its INSERT met that of another call with its identifier, which was      *)
(* rolled back, and it has the shared lock.                                *)
Reinserts(a) ==
    /\ pc[a] = "inserting" /\ a \in keyShare
    /\ \E c \in Attempts \ {a} : req[c].id = req[a].id /\ tx[c] = "aborted"

(* Calls deadlock only over identifiers that they share with a call that   *)
(* was rolled back: of any calls and transactions of callers that wait in  *)
(* a circle, two are such INSERTs.  No locks on rows are part of a circle, *)
(* and calls with identifiers of their own never wait in one.  It is the   *)
(* refusal of a connection that is already in a transaction                *)
(* (transactions.py:154), and then the one order of the statements         *)
(* (transactions.py:167-221), that make it so.                             *)
OnlyReusedIdsDeadlock ==
    \A S \in (SUBSET Attempts) \ {{}} :
        (\A a \in S : \E b \in S : WaitsFor(a, b)) =>
            \E a, b \in S : a # b /\ Reinserts(a) /\ Reinserts(b)

-----------------------------------------------------------------------------
(* The inductive invariant behind the safety properties, in named parts. *)

(* Where a call is determines what its transaction may be. *)
PhaseAgrees ==
    \A a \in Attempts :
        /\ pc[a] = "idle" => tx[a] \in {"none", "caller"}
        /\ pc[a] \in {"locking", "checking", "updating"} =>
             tx[a] \in {"open", "aborted"}
        /\ pc[a] \in {"stamping", "inserting"} =>
             tx[a] \in {"updated", "aborted"}
        /\ pc[a] = "inserted" => tx[a] \in {"inserted", "aborted"}
        /\ pc[a] = "committing" =>
             tx[a] \in {"inserted", "committing", "committed", "aborted"}
        /\ pc[a] = "rollback" =>
             /\ tx[a] \in {"open", "updated", "aborted"}
             /\ outcome[a] \in Failures
        /\ pc[a] \notin {"idle", "done"} => tx[a] \notin {"none", "caller"}

(* A transaction the server ended under a call costs it its connection,    *)
(* unless the statement that was running already raised.                   *)
AbortIsNoticed ==
    \A a \in Attempts :
        tx[a] = "aborted" /\ conn[a] = "open" => pc[a] \in {"rollback", "done"}

(* Locks belong to live transactions, on the rows the call named. *)
LocksBelong ==
    /\ \A e \in Equipment, a \in Attempts :
         rowLock[e] = a =>
             tx[a] = "caller" \/ (Active(a) /\ e = req[a].equipment)
    /\ \A l \in LabIds, a \in Attempts :
         a \in labShare[l] => Active(a) /\ l = req[a].target
    /\ \A a \in keyShare : Writing(a)

(* After FOR UPDATE the lock is held and the fetched value is still the    *)
(* committed one; after FOR SHARE the target is locked too.                *)
LocksHeld ==
    \A a \in Attempts :
        LET e == req[a].equipment
            r == req[a]
        IN
        /\ Writing(a) \/ (tx[a] = "open" /\ pc[a] \in {"checking", "updating"})
             => e \in Equipment /\ rowLock[e] = a /\ current[a] = location[e]
        /\ Writing(a) \/ pc[a] = "updating" =>
             current[a] = r.source /\ r.source # r.target
        /\ Writing(a) \/ (tx[a] = "open" /\ pc[a] = "updating") =>
             r.target \in labs /\ a \in labShare[r.target]
        /\ tx[a] \notin {"none", "caller"} \/ pc[a] \notin {"idle", "done"}
             => ValidInput(r)

(* An inserted and uncommitted record has an identifier of its own. *)
PendingKeys ==
    \A a \in Attempts : tx[a] \in {"inserted", "committing"} =>
        /\ \A h \in history : h.id # req[a].id
        /\ ~KeyPending(a)

(* Who has asked for a shared lock met a record of its identifier; if that *)
(* is not there any more, its call was rolled back.                        *)
SharesHaveCause ==
    \A a \in keyShare :
        \/ KeyUsed(a)
        \/ \E c \in Attempts \ {a} :
             req[c].id = req[a].id /\ (Inserted(c) \/ tx[c] = "aborted")

(* The history is the initial one and the row of every committed call. *)
HistoryExact ==
    /\ InitHistory \subseteq history
    /\ \A a \in Attempts : tx[a] = "committed" => Row(a) \in history

(* Foreign keys: every laboratory a row names exists. *)
ReferencesResolve ==
    /\ \A e \in Equipment : location[e] \in labs
    /\ \A h \in history : h.source \in labs /\ h.target \in labs

(* With agreeing clocks, a stamp read under the row lock is later than     *)
(* every committed record of the equipment.                                *)
StampIsLatest ==
    /\ \A h \in history : h.time <= clock
    /\ \A a \in Attempts : stamp[a] <= clock
    /\ ClockSkew = 0 =>
         \A a \in Attempts :
             tx[a] \in {"inserted", "committing"}
               \/ (tx[a] = "updated" /\ pc[a] = "inserting") =>
               \A h \in history :
                   h.equipment = req[a].equipment => h.time < stamp[a]

(* What an identifier conflict was seen from. *)
ConflictSeen ==
    \A a \in Attempts : verdict[a] = "TRANSFER_ID_CONFLICT" =>
        \E h \in history : h.id = req[a].id /\ Payload(h) # req[a]

(* A usable connection is handed back with no transaction of the call. *)
DoneIsSettled ==
    \A a \in Attempts : pc[a] = "done" /\ conn[a] = "open" => ~Active(a)

IInv ==
    /\ TypeOK
    /\ PhaseAgrees
    /\ AbortIsNoticed
    /\ LocksBelong
    /\ LocksHeld
    /\ PendingKeys
    /\ SharesHaveCause
    /\ AnswerAgrees
    /\ AppliedOnce
    /\ HistoryExact
    /\ ReferencesResolve
    /\ StampIsLatest
    /\ ClockSkew = 0 => LatestTransferMatchesLocation
    /\ VerdictSound
    /\ ConflictSeen
    /\ DoneIsSettled

-----------------------------------------------------------------------------
(* Refinement: every behaviour is one of TransferLedger, in which a        *)
(* transfer is a single step and answers never contradict it.              *)
Ledger == INSTANCE TransferLedger WITH
    applied <- [a \in Attempts |-> tx[a] = "committed"],
    answer  <- [a \in Attempts |->
                  IF pc[a] = "done" THEN outcome[a] ELSE "none"]

ImplementsLedger == Ledger!Spec

-----------------------------------------------------------------------------
(* Liveness, under Fairness. *)

(* A call that began returns or raises unless its process dies: between    *)
(* transfers there is no lock or key wait that is not resolved, even       *)
(* behind calls that crashed or could not roll back.                       *)
CallsReturn ==
    \A a \in Attempts : InProgress(a) ~> pc[a] \in {"done", "crashed"}

(* Whatever the caller was told, its transaction ends and its locks go:    *)
(* an unknown outcome gets settled, and a reconciliation made after that   *)
(* is final.                                                               *)
TransactionsEnd ==
    \A a \in Attempts :
        Active(a) ~> /\ ~Active(a)
                     /\ \A e \in Equipment : rowLock[e] # a
=============================================================================
