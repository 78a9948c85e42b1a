------------------------------ MODULE MCRecords ------------------------------
(* Instances for TLC of the tables that ordinary writers and transfers     *)
(* write, under the schema: reservations (of check-ins and what they       *)
(* prove, and of terms and courses), repairs, and the spellings of moves.  *)
(* No property relates the tables of two of these, so a behaviour runs     *)
(* one part and leaves the others where they start.                        *)
EXTENDS ReservationProperties, RepairProperties, TransferSpelling, TLC

CONSTANTS ada, bob, cy, head, deputy, fitter, helper, why, null,
          device, deviceAlias, A, AAlias, B, BAlias, id1, id1Alias, id2, ghost

VARIABLE part  \* which one runs

LessonTerm(i, s, e, p) == [id |-> i, start |-> s, end |-> e, points |-> p]
Course(i, u) == [id |-> i, teacher |-> u]
Lab(i, n) == [id |-> i, capacity |-> n]
Personal(i, u, t, s, e, st) ==
    [id |-> i, user |-> u, lab |-> 1, term |-> t, course |-> null,
     kind |-> "personal", start |-> s, end |-> e, people |-> 1, status |-> st]
Lesson(i, u, t, n) ==
    [id |-> i, user |-> u, lab |-> 1, term |-> t, course |-> 1,
     kind |-> "course", start |-> 0, end |-> 60, people |-> n,
     status |-> "approved"]
Checkin(i, r, in, out) == [id |-> i, reservation |-> r, in |-> in, out |-> out]
Violation(i, r, c, ty, n, at) ==
    [id |-> i, reservation |-> r, checkin |-> c, type |-> ty, score |-> n,
     time |-> at]
Change(i, r, ty) == [id |-> i, reservation |-> r, type |-> ty]

NoRows == [t \in Tables |-> {}]

(* One reservation from 0 to 60 whose status changes, another beside it;   *)
(* check-ins around the window of V06 and sign-outs around the end; every  *)
(* type of violation with either check-in or none, and either score.       *)
EvidenceDb ==
    [NoRows EXCEPT
        !["terms"] = {LessonTerm(1, 0, 600, 12)}, !["labs"] = {Lab(1, 1)},
        !["reservations"] = {Personal(1, ada, 1, 0, 60, "approved"),
                             Personal(2, ada, 1, 100, 160, "approved")}]

EvidenceRows ==
    [NoRows EXCEPT
        !["labs"] = {Lab(1, 1)},
        !["reservations"] = {Personal(1, ada, 1, 0, 60, s) :
                               s \in {"approved", "noshow", "cancelled"}},
        !["checkins"] = {Checkin(1, 1, in, out) :
                            in \in {-31, 0, 15, 16}, out \in {null, 59, 60, 61}}
                         \cup {Checkin(2, 2, 100, null),
                               Checkin(2, 1, 15, null)},
        !["violations"] =
            {Violation(1, 1, c, "late", 1, 15) : c \in {1, 2}}
              \cup {Violation(2, 1, c, "early", n, 60) :
                      c \in {1, null}, n \in {1, 2}}
              \cup {Violation(3, 1, c, "overtime", 1, 60) : c \in {1, 2}}
              \cup {Violation(4, 1, null, NoShow, 2, t) : t \in {0, 15}}
              \cup {Violation(5, 1, c, NoShow, 2, 15) : c \in {1, null}},
        !["changes"] = {Change(1, 1, ty) : ty \in {"cancel", "move"}}]

(* Two terms that touch, overlap or contain one another, and reservations  *)
(* on either side of the boundary; a course that changes hands.            *)
TermsDb ==
    [NoRows EXCEPT
        !["terms"] = {LessonTerm(1, 0, 100, 3), LessonTerm(2, 100, 200, 3)},
        !["courses"] = {Course(1, bob)},
        !["labs"] = {Lab(1, 2)}]

TermsRows ==
    [NoRows EXCEPT
        !["terms"] = {LessonTerm(1, s, e, p) : s \in {0, 150},
                                               e \in {100, 160, 300},
                                               p \in {1, 3}},
        !["courses"] = {Course(1, ada), Course(1, bob), Course(1, cy)},
        !["labs"] = {Lab(1, 1), Lab(1, 2), Lab(1, 0)},
        !["reservations"] =
            {Personal(1, u, t, s, s + 60, "approved") :
                u \in {ada, bob}, t \in {1, 2}, s \in {40, 120}}
              \cup {Lesson(2, u, 1, n) :
                      u \in {ada, bob, cy, head}, n \in {1, 3}},
        !["violations"] =
            {Violation(1, r, null, NoShow, 2, 200) : r \in {1, 2}}
              \cup {Violation(2, 1, null, NoShow, 2, 200),
                    Violation(3, 2, null, NoShow, 2, 0)}]

EitherDb == {EvidenceDb, TermsDb}

EitherRows == [t \in Tables |-> EvidenceRows[t] \cup TermsRows[t]]

-----------------------------------------------------------------------------
(* One report by ada under head, in every state, reported before or after  *)
(* the work of the attempts below starts.                                  *)
OneReport ==
    [id : {1}, state : {Opened, Working, Awaiting, Done, Refused},
     reporter : {ada}, manager : {head}, worker : {null, fitter},
     reported : {0, 10}, planned : {null, 12}, reason : {null, why}]

(* Attempts at 5, completed, paid for and accepted or not, in order or     *)
(* not, by one who may accept or not; the second one less varied, and the  *)
(* first by a worker whom nobody assigned.                                 *)
Attempt1 ==
    [id : {1}, report : {1}, worker : {helper},
     started : {5}, completed : {null, 4, 6}, cost : {null, 0}, result : {null, "passed", "rework"},
     acceptor : {null, head, deputy}, accepted : {null, 5, 6}]

Attempt2 ==
    [id : {2}, report : {1}, worker : {fitter},
     started : {10}, completed : {null, 10}, cost : {null, 7}, result : {null, "passed", "rework"},
     acceptor : {null, ada}, accepted : {null, 11}]

TwoAttempts == Attempt1 \cup Attempt2

-----------------------------------------------------------------------------
(* An equipment, two laboratories and an identifier with two spellings     *)
(* each, of which a request uses any.                                      *)
Spellings ==
    {device, deviceAlias, A, AAlias, B, BAlias, id1, id1Alias, id2, ghost}

CollationKey ==
    [n \in Spellings |-> CASE n \in {device, deviceAlias} -> 1
                           [] n \in {A, AAlias}           -> 2
                           [] n \in {B, BAlias}           -> 3
                           [] n \in {id1, id1Alias}       -> 4
                           [] n = id2                     -> 5
                           [] OTHER                       -> 6]

Asked ==
    [id : {id1, id1Alias, id2}, equipment : {device, deviceAlias},
     source : {A, AAlias, B}, target : {A, AAlias, B, BAlias}]
    \cup [id : {id1}, equipment : {device, ghost}, source : {A},
          target : {ghost}]

AtA == [x \in {device} |-> A]

-----------------------------------------------------------------------------
(* The rows that the writers of reservations use in the part that runs. *)
Used == IF part = "evidence" THEN EvidenceRows ELSE TermsRows

PartsInit ==
    /\ part \in {"evidence", "terms", "repairs", "spelling"}
    /\ Init /\ (db = TermsDb <=> part = "terms")
    /\ RepairInit
    /\ SpellingInit

ReservationPart ==
    /\ part \in {"evidence", "terms"} /\ Next
    /\ \A t \in Tables : db'[t] \subseteq db[t] \cup Used[t]
    /\ UNCHANGED <<part, repairVars, spellingVars>>

RepairPart ==
    /\ part = "repairs" /\ RepairNext
    /\ UNCHANGED <<part, db, spellingVars>>

SpellingPart ==
    /\ part = "spelling" /\ SpellingNext
    /\ UNCHANGED <<part, db, repairVars>>

PartsNext == ReservationPart \/ RepairPart \/ SpellingPart

PartsSpec ==
    PartsInit /\ [][PartsNext]_<<part, db, repairVars, spellingVars>>
=============================================================================
