----------------------------- MODULE MCTransfer -----------------------------
(* Instances of EquipmentTransfer for TLC. *)
EXTENDS TransferProperties, TLC

CONSTANTS t1, t2, t3, e1, e2, e3, ghost, A, B, C, why, blank, nobody

Ask(i, e, s, t) ==
    [id |-> i, equipment |-> e, source |-> s, target |-> t, reason |-> why]

(* The seed's MOVE_TEST_01 (sql/seed.sql:110): e1 came from B to A. *)
SeedHistory ==
    {[id |-> 0, equipment |-> e1, source |-> B, target |-> A, reason |-> why,
      time |-> 0]}

OneAtA  == (e1 :> A)
TwoAtA  == (e1 :> A) @@ (e2 :> A)
ThreeAtA == TwoAtA @@ (e3 :> A)

(* Two moves off the same source and one back: A to B twice, B to A. *)
RaceRequests == {Ask(3, e1, A, B), Ask(2, e1, B, A), Ask(1, e1, A, B)}

(* One identifier: the same call again, and with another payload; and the *)
(* identifier of the seeded record.                                       *)
RetryRequests == {Ask(1, e1, A, B), Ask(1, e2, A, B), Ask(0, e2, A, B)}

(* A move to a laboratory that may vanish, a move back, a retry; and moves *)
(* that are refused for themselves.                                        *)
LedgerRequests ==
    {Ask(1, e1, A, C), Ask(2, e1, C, A), Ask(0, e1, A, B),
     Ask(2, e1, A, A), Ask(3, ghost, A, B), Ask(blank, e1, A, B)}

(* Two calls that contend for the row, or for one identifier. *)
SettlingRequests == {Ask(1, e1, A, B), Ask(2, e1, A, B), Ask(1, e2, A, B)}

(* Every refusal, a target that may vanish, and two pieces of equipment *)
(* that two callers may lock crosswise.                                 *)
RefusalRequests ==
    {Ask(1, e1, A, C), Ask(2, e2, A, C), Ask(2, e1, A, A),
     Ask(3, ghost, A, B), Ask(blank, e1, A, B)}

(* Three calls under one identifier, each for an equipment of its own.     *)
SameId == {Ask(1, e, A, B) : e \in {e1, e2, e3}}

RefusalOrSameId == RefusalRequests \cup SameId
SettlingOrSameId == SettlingRequests \cup SameId

ThreeContend == {req[a] : a \in Attempts} = SameId

(* Of these, failures that nothing in the model calls for strike the one   *)
(* for e1.                                                                 *)
ContendNext(a) ==
    \/ Begin(a) \/ Proceed(a) \/ ServerCommit(a)
    \/ conn[a] # "open" /\ ServerAbort(a)
    \/ Deadlocked(a) /\ StatementFails(a)
    \/ /\ req[a].equipment = e1
       /\ \/ StatementFails(a) \/ CommitRaises(a)
          \/ ServerAbort(a) \/ ClientCrash(a)

(* Two calls of any of the requests, t3 not being made; or three of the    *)
(* same identifier.                                                        *)
TwoOrThreeInit(requests) ==
    /\ Init
    /\ \/ ThreeContend
       \/ req[t1] \in requests /\ req[t2] \in requests
          /\ req[t3] = CHOOSE r \in requests : TRUE

TwoOrThreeNext ==
    \/ ThreeContend /\ \E a \in Attempts : ContendNext(a)
    \/ /\ ~ThreeContend
       /\ \/ \E a \in {t1, t2} : ClientNext(a) \/ ServerNext(a)
          \/ LabsNext

RefusalSpec == TwoOrThreeInit(RefusalRequests) /\ [][TwoOrThreeNext]_vars

SettlingSpec ==
    /\ TwoOrThreeInit(SettlingRequests)
    /\ ThreeContend => req[t1].equipment = e1 /\ req[t2].equipment = e2
    /\ [][TwoOrThreeNext]_vars /\ Fairness

AnyTwo == Permutations({t1, t2})
AnyThree == Permutations({t1, t2, t3})
=============================================================================
