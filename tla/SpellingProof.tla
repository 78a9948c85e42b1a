---------------------------- MODULE SpellingProof ----------------------------
(***************************************************************************)
(* Proofs about TransferSpelling, for every set of spellings and every     *)
(* collation.                                                              *)
(***************************************************************************)
EXTENDS TransferSpelling, TLAPS

(* The records are those of the committed calls, in types and by key. *)
SInv ==
    /\ SpellingTypeOK
    /\ applied = HistoryRows
    /\ NoMoveWithinALab
    /\ OneRecordPerId
    /\ NoSpellingAlarm

-----------------------------------------------------------------------------
(* Appending one record: the old rows stay at their places, it is last. *)
LEMMA AppendedRow ==
    ASSUME NEW S, NEW s \in Seq(S), NEW x \in S
    PROVE  /\ Append(s, x) \in Seq(S)
           /\ DOMAIN Append(s, x) = DOMAIN s \cup {Len(s) + 1}
           /\ \A i \in DOMAIN s : Append(s, x)[i] = s[i] /\ i < Len(s) + 1
           /\ Append(s, x)[Len(s) + 1] = x
           /\ Range(Append(s, x)) = Range(s) \cup {x}
           /\ DOMAIN s \subseteq Nat /\ Len(s) \in Nat
<1>1. /\ Append(s, x) \in Seq(S)
      /\ DOMAIN Append(s, x) = DOMAIN s \cup {Len(s) + 1}
      /\ \A i \in DOMAIN s : Append(s, x)[i] = s[i] /\ i < Len(s) + 1
      /\ Append(s, x)[Len(s) + 1] = x
      /\ DOMAIN s \subseteq Nat /\ Len(s) \in Nat
  OBVIOUS
<1>2. Range(Append(s, x)) = Range(s) \cup {x}
  BY <1>1 DEF Range
<1> QED BY <1>1, <1>2

LEMMA InitHolds == SpellingInit => SInv
<1> SUFFICES ASSUME SpellingInit PROVE SInv
  OBVIOUS
<1>1. place \in [Equipment -> Names]
  BY SpellingAssumption DEF SpellingInit
<1>2. SpellingTypeOK
  BY <1>1 DEF SpellingInit, SpellingTypeOK, Outcomes
<1>3. HistoryRows = {} /\ DOMAIN history = {}
  BY DEF SpellingInit, HistoryRows, Range
<1> QED
  BY <1>2, <1>3 DEF SInv, SpellingInit, NoMoveWithinALab, OneRecordPerId,
                    NoSpellingAlarm, Misplaced

(* A call that is refused, or whose COMMIT is lost, changes no row. *)
LEMMA RefusalKeeps ==
    ASSUME SInv, NEW outcome \in Outcomes, Refuse(outcome)
    PROVE  SInv'
<1>1. SpellingTypeOK'
  BY DEF SInv, SpellingTypeOK, Refuse
<1> QED
  BY <1>1 DEF SInv, Refuse, HistoryRows, Range, NoMoveWithinALab, OneRecordPerId,
              NoSpellingAlarm, Misplaced

LEMMA MoveKeeps ==
    ASSUME SInv, NEW r \in Requests, NEW e \in Found(r), Move(r, e)
    PROVE  SInv'
<1> DEFINE last == Len(history) + 1
<1>0. /\ r \in Record /\ e \in Equipment /\ Same(e, r.equipment)
      /\ history \in Seq(Record) /\ history' = Append(history, r)
      /\ Distinct(Equipment)
  BY SpellingAssumption DEF SInv, SpellingTypeOK, Found, Move
<1>1. /\ history' \in Seq(Record)
      /\ DOMAIN history' = DOMAIN history \cup {last}
      /\ \A i \in DOMAIN history : history'[i] = history[i] /\ i < last
      /\ history'[last] = r
      /\ HistoryRows' = HistoryRows \cup {r}
      /\ DOMAIN history \subseteq Nat /\ last \in Nat
  BY <1>0, AppendedRow DEF HistoryRows
<1>2. SpellingTypeOK'
  <2>1. place' \in [Equipment -> Names]
    BY <1>0 DEF SInv, SpellingTypeOK, Move, Record
  <2>2. applied' \subseteq Requests
    BY DEF SInv, SpellingTypeOK, Move
  <2>3. answer' \in Outcomes
    BY DEF Move, Outcomes
  <2> QED BY <1>1, <2>1, <2>2, <2>3 DEF SpellingTypeOK
<1>3. (applied = HistoryRows)'
  BY <1>1 DEF SInv, Move
<1>4. NoMoveWithinALab'
  BY <1>1 DEF SInv, NoMoveWithinALab, Move, DistinctPlaces, Same
<1>5. OneRecordPerId'
  <2>1. \A i \in DOMAIN history : history[i] \in HistoryRows
    BY DEF HistoryRows, Range
  <2>2. \A h \in HistoryRows : ~Same(h.id, r.id)
    BY DEF Move, IdTaken
  <2>3. \A i, j \in DOMAIN history' :
           Same(history'[i].id, history'[j].id) => i = j
    BY <1>1, <2>1, <2>2 DEF SInv, OneRecordPerId, Same
  <2>4. \A p, q \in applied' : Same(p.id, q.id) => p = q
    BY <2>2 DEF SInv, OneRecordPerId, Same, Move
  <2> QED BY <2>3, <2>4 DEF OneRecordPerId, Same
<1>6. NoSpellingAlarm'
  <2> SUFFICES ASSUME NEW d \in Equipment, NEW i \in DOMAIN history',
                      Same(history'[i].equipment, d),
                      ~Same(history'[i].target, place'[d]),
                      \A j \in DOMAIN history' :
                          j > i => ~Same(history'[j].equipment, d)
               PROVE  FALSE
    BY DEF NoSpellingAlarm, Misplaced, Same
  <2>1. place' = [place EXCEPT ![e] = r.target]
        /\ place \in [Equipment -> Names]
    BY DEF Move, SInv, SpellingTypeOK
  <2>2. CASE d = e
    <3>1. place'[d] = r.target
      BY <2>1, <2>2
    <3>2. i # last
      BY <1>1, <3>1 DEF Same
    <3>3. i \in DOMAIN history /\ last > i
      BY <1>1, <3>2
    <3> QED BY <1>0, <1>1, <2>2, <3>3 DEF Same
  <2>3. CASE d # e
    <3>1. place'[d] = place[d]
      BY <2>1, <2>3
    <3>2. ~Same(r.equipment, d)
      BY <1>0, <2>3 DEF Same, Distinct
    <3>3. i \in DOMAIN history /\ history'[i] = history[i]
      BY <1>1, <3>2
    <3>4. \A j \in DOMAIN history : j > i => ~Same(history[j].equipment, d)
      BY <1>1
    <3>5. Misplaced(d)
      BY <3>1, <3>3, <3>4 DEF Misplaced
    <3> QED BY <3>5 DEF SInv, NoSpellingAlarm
  <2> QED BY <2>2, <2>3
<1> QED BY <1>2, <1>3, <1>4, <1>5, <1>6 DEF SInv

LEMMA NextKeeps == SInv /\ [SpellingNext]_spellingVars => SInv'
<1> SUFFICES ASSUME SInv, [SpellingNext]_spellingVars PROVE SInv'
  OBVIOUS
<1>1. CASE UNCHANGED spellingVars
  BY <1>1 DEF spellingVars, SInv, SpellingTypeOK, HistoryRows, Range, NoMoveWithinALab,
              OneRecordPerId, NoSpellingAlarm, Misplaced
<1>2. ASSUME NEW r \in Requests, EquipmentMissing(r) PROVE SInv'
  BY <1>2, RefusalKeeps DEF EquipmentMissing, Outcomes
<1>3. ASSUME NEW r \in Requests, NEW e \in Found(r),
             \/ RefuseStale(r, e) \/ RefuseSame(r, e) \/ TargetMissing(r, e)
             \/ CheckFails(r, e) \/ DuplicateId(r, e) \/ CommitLost(r, e)
      PROVE  SInv'
  <2>1. \E outcome \in Outcomes : Refuse(outcome)
    BY <1>3 DEF RefuseStale, RefuseSame, TargetMissing, CheckFails,
                DuplicateId, CommitLost, Outcomes
  <2> QED BY <2>1, RefusalKeeps
<1>4. ASSUME NEW r \in Requests, NEW e \in Found(r), Move(r, e) PROVE SInv'
  BY <1>4, MoveKeeps
<1> QED BY <1>1, <1>2, <1>3, <1>4 DEF SpellingNext

(* The invariant holds in every reachable state. *)
THEOREM SpellingInvariance == SpellingSpec => []SInv
<1>1. SpellingInit => SInv
  BY InitHolds
<1>2. SInv /\ [SpellingNext]_spellingVars => SInv'
  BY NextKeeps
<1> QED BY <1>1, <1>2, PTL DEF SpellingSpec

(* No record is of a move within one laboratory (transactions.py:182 and   *)
(* the CHECK of the table).                                                *)
THEOREM NoMoveWithin == SpellingSpec => []NoMoveWithinALab
<1>1. SInv => NoMoveWithinALab
  BY DEF SInv
<1> QED BY <1>1, SpellingInvariance, PTL

(* One record per identifier, however spelled (transactions.py:231). *)
THEOREM OneRecord == SpellingSpec => []OneRecordPerId
<1>1. SInv => OneRecordPerId
  BY DEF SInv
<1> QED BY <1>1, SpellingInvariance, PTL

(* No rule of verify.py takes a spelling for a lost move (verify.py:69). *)
THEOREM NoAlarmOverSpelling == SpellingSpec => []NoSpellingAlarm
<1>1. SInv => NoSpellingAlarm
  BY DEF SInv
<1> QED BY <1>1, SpellingInvariance, PTL

(* Reconciling with the caller's own spellings is exact                    *)
(* (transactions.py:364-381).                                              *)
THEOREM ReconciliationExact == SpellingSpec => []ReconcileIsExact
<1>1. SInv => ReconcileIsExact
  <2> SUFFICES ASSUME SInv, NEW r \in Requests
               PROVE  (Reconcile(r) = "MATCHING_COMMITTED") <=> r \in applied
    BY DEF ReconcileIsExact
  <2> DEFINE record == {h \in HistoryRows : Same(h.id, r.id)}
  <2>1. r \in applied => record = {r}
    BY DEF SInv, OneRecordPerId, Same
  <2>2. record = {r} => r \in applied
    BY DEF SInv
  <2>3. record = {r} => Reconcile(r) = "MATCHING_COMMITTED"
    BY DEF Reconcile
  <2>4. record # {r} => Reconcile(r) # "MATCHING_COMMITTED"
    BY DEF Reconcile
  <2> QED BY <2>1, <2>2, <2>3, <2>4
<1> QED BY <1>1, SpellingInvariance, PTL
=============================================================================
