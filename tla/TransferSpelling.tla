-------------------------- MODULE TransferSpelling --------------------------
(***************************************************************************)
(* Identifiers as they are spelled.  SQL compares them by collation        *)
(* (utf8mb4_0900_as_cs takes canonically equivalent strings for equal),    *)
(* transfer_equipment and reconcile_transfer_for_config compare them in    *)
(* Python, character by character, and a foreign key stores the spelling   *)
(* it is given.  Here a call is one step: that calls on one equipment are  *)
(* as if one after the other is what EquipmentTransfer shows.              *)
(***************************************************************************)
EXTENDS SequencesExt, Naturals

CONSTANTS
    Names,      \* spellings of identifiers
    Key,        \* their collation keys
    Labs,       \* laboratory rows, as spelled there
    Equipment,  \* equipment rows, as spelled there
    Requests,   \* what callers ask for
    InitPlace   \* equipment locations when the calls start

Same(x, y) == Key[x] = Key[y]

Distinct(S) == \A x, y \in S : Same(x, y) => x = y

Record == [id : Names, equipment : Names, source : Names, target : Names]

ASSUME SpellingAssumption ==
    /\ Key \in [Names -> Nat]
    /\ Labs \subseteq Names /\ Distinct(Labs)
    /\ Equipment \subseteq Names /\ Distinct(Equipment)
    /\ Requests \subseteq Record
    /\ InitPlace \in [Equipment -> Labs]

VARIABLES
    place,    \* 实验设备.实验室编号, by equipment row
    history,  \* rows of 设备移库记录, in the order of their times
    applied,  \* requests whose call was committed
    answer    \* how the last call ended

spellingVars == <<place, history, applied, answer>>

Outcomes ==
    {"none", "EQUIPMENT_NOT_FOUND", "STALE_SOURCE", "SAME_SOURCE_TARGET",
     "TARGET_NOT_FOUND", "DATABASE_ERROR", "TRANSFER_ID_CONFLICT",
     "SUCCESS", "COMMIT_OUTCOME_UNKNOWN"}

SpellingTypeOK ==
    /\ place \in [Equipment -> Names]
    /\ history \in Seq(Record)
    /\ applied \subseteq Requests
    /\ answer \in Outcomes

SpellingInit ==
    /\ place = InitPlace
    /\ history = <<>>
    /\ applied = {}
    /\ answer = "none"

-----------------------------------------------------------------------------
(* What the statements of a call find. *)

HistoryRows == Range(history)

(* SELECT ... WHERE `设备编号` = %s: the rows of that name. *)
Found(r) == {e \in Equipment : Same(e, r.equipment)}

(* The comparisons that Python makes. *)
Stale(r, e)  == place[e] # r.source
SameLab(r)   == r.source = r.target

TargetFound(r) == \E l \in Labs : Same(l, r.target)

(* ck_equipment_transfer_distinct. *)
DistinctPlaces(r) == ~Same(r.source, r.target)

(* pk_equipment_transfer. *)
IdTaken(r) == \E h \in HistoryRows : Same(h.id, r.id)

-----------------------------------------------------------------------------
(* One call. *)

Refuse(outcome) ==
    /\ answer' = outcome
    /\ UNCHANGED <<place, history, applied>>

EquipmentMissing(r) ==
    /\ Found(r) = {}
    /\ Refuse("EQUIPMENT_NOT_FOUND")

RefuseStale(r, e) == Stale(r, e) /\ Refuse("STALE_SOURCE")

RefuseSame(r, e) ==
    /\ ~Stale(r, e) /\ SameLab(r)
    /\ Refuse("SAME_SOURCE_TARGET")

(* Both refusals passed. *)
Accepted(r, e) == ~Stale(r, e) /\ ~SameLab(r)

TargetMissing(r, e) ==
    /\ Accepted(r, e) /\ ~TargetFound(r)
    /\ Refuse("TARGET_NOT_FOUND")

(* INSERT checks the CHECK before the key; either failure undoes UPDATE. *)
CheckFails(r, e) ==
    /\ Accepted(r, e) /\ TargetFound(r) /\ ~DistinctPlaces(r)
    /\ Refuse("DATABASE_ERROR")

DuplicateId(r, e) ==
    /\ Accepted(r, e) /\ TargetFound(r) /\ DistinctPlaces(r) /\ IdTaken(r)
    /\ Refuse("TRANSFER_ID_CONFLICT")

(* Mutant: the record names the equipment as its row spells it. *)
MoveRespelled(r, e) ==
    /\ Accepted(r, e) /\ TargetFound(r) /\ DistinctPlaces(r) /\ ~IdTaken(r)
    /\ place' = [place EXCEPT ![e] = r.target]
    /\ history' = Append(history, [r EXCEPT !.equipment = e])
    /\ applied' = applied \cup {r}
    /\ answer' \in {"SUCCESS", "COMMIT_OUTCOME_UNKNOWN"}

(* UPDATE and INSERT store the spellings of the caller; COMMIT may answer. *)
Move(r, e) ==
    /\ Accepted(r, e) /\ TargetFound(r) /\ DistinctPlaces(r) /\ ~IdTaken(r)
    /\ place' = [place EXCEPT ![e] = r.target]
    /\ history' = Append(history, r)
    /\ applied' = applied \cup {r}
    /\ answer' \in {"SUCCESS", "COMMIT_OUTCOME_UNKNOWN"}

(* COMMIT did not arrive. *)
CommitLost(r, e) ==
    /\ Accepted(r, e) /\ TargetFound(r) /\ DistinctPlaces(r) /\ ~IdTaken(r)
    /\ Refuse("COMMIT_OUTCOME_UNKNOWN")

SpellingNext ==
    \E r \in Requests :
        \/ EquipmentMissing(r)
        \/ \E e \in Found(r) :
             \/ RefuseStale(r, e) \/ RefuseSame(r, e) \/ TargetMissing(r, e)
             \/ CheckFails(r, e) \/ DuplicateId(r, e)
             \/ Move(r, e) \/ CommitLost(r, e)

SpellingSpec == SpellingInit /\ [][SpellingNext]_spellingVars

-----------------------------------------------------------------------------
(* Reading the history back. *)

(* reconcile_transfer_for_config: the row that SQL finds under the         *)
(* identifier, compared with the arguments in Python.                      *)
Reconcile(r) ==
    LET record == {h \in HistoryRows : Same(h.id, r.id)} IN
    CASE record = {}  -> "NOT_FOUND"
      [] record = {r} -> "MATCHING_COMMITTED"
      [] OTHER        -> "TRANSFER_ID_CONFLICT"

(* Mutant: joined and compared by spelling. *)
MisplacedBySpelling(e) ==
    \E i \in DOMAIN history :
        /\ history[i].equipment = e /\ history[i].target # place[e]
        /\ \A j \in DOMAIN history : j > i => history[j].equipment # e

(* V16: the latest record of an equipment does not name its place. *)
Misplaced(e) ==
    \E i \in DOMAIN history :
        /\ Same(history[i].equipment, e) /\ ~Same(history[i].target, place[e])
        /\ \A j \in DOMAIN history : j > i => ~Same(history[j].equipment, e)

-----------------------------------------------------------------------------
(* No record is of a move within one laboratory, however its two names are *)
(* spelled: what the comparison of transactions.py:182 lets pass, the      *)
(* CHECK of the table refuses, and with it the UPDATE.                     *)
NoMoveWithinALab == \A h \in HistoryRows : ~Same(h.source, h.target)

(* Two records never have one identifier in two spellings (the key that    *)
(* transactions.py:231 relies on), nor two committed calls.                *)
OneRecordPerId ==
    /\ \A i, j \in DOMAIN history :
         Same(history[i].id, history[j].id) => i = j
    /\ \A r, s \in applied : Same(r.id, s.id) => r = s

(* Reconciling exactly what a call was given says whether that call was    *)
(* committed (transactions.py:364-381), though the row was found by        *)
(* collation and compared by spelling: the row keeps the caller's.         *)
ReconcileIsExact ==
    \A r \in Requests :
        (Reconcile(r) = "MATCHING_COMMITTED") <=> (r \in applied)

(* A verification raises no alarm over spellings: equipment and location   *)
(* are joined and compared by collation (verify.py:69-70).                 *)
NoSpellingAlarm == \A e \in Equipment : ~Misplaced(e)
=============================================================================
