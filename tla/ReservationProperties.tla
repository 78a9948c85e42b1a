----------------------- MODULE ReservationProperties -----------------------
(***************************************************************************)
(* What the schema guarantees of reservations and their deductions, what a *)
(* verification without findings adds to it, and what the points query     *)
(* makes of them, stated over Reservations.                                *)
(***************************************************************************)
EXTENDS Reservations

ViolationsOf(r) == {v \in db["violations"] : v.reservation = r.id}
TypesOf(r)      == {v.type : v \in ViolationsOf(r)}

(* The inductive invariant: the writers keep every key, foreign key and    *)
(* CHECK of sql/schema.sql, in sessions whose foreign_key_checks are on    *)
(* (db.py:38).                                                             *)
SchemaKept ==
    Timed(db) /\ SchemaHolds(db) /\ IsFiniteSet(db["violations"])

(* A deduction other than for a no-show rests on the one check-in that its *)
(* own reservation has, which is there, and on nothing else                *)
(* (schema.sql:187, 207, 210).                                             *)
EvidenceIsOwn ==
    \A v \in db["violations"] : v.type # NoShow =>
        /\ \E c \in db["checkins"] :
             c.id = v.checkin /\ c.reservation = v.reservation
        /\ \A c \in db["checkins"] :
             c.reservation = v.reservation <=> c.id = v.checkin

(* In a database that verifies, a reservation is never charged for leaving *)
(* early and for staying too long: V10 and V11 read the one sign-out that  *)
(* the keys leave to a reservation (verify.py:57-60).                      *)
OneWayOut ==
    Silent(db) =>
        \A r \in db["reservations"] : ~({"early", "overtime"} \subseteq TypesOf(r))

(* In a database that verifies, a deduction for lateness is for more than  *)
(* 0 and at most 15 minutes: V09 excludes the one, V06 the other           *)
(* (verify.py:48, 56).                                                     *)
LatenessProven ==
    Silent(db) =>
        \A v \in db["violations"], r \in db["reservations"] :
            v.type = "late" /\ v.reservation = r.id =>
                \E c \in db["checkins"] :
                    /\ c.id = v.checkin /\ c.reservation = r.id
                    /\ c.in - r.start \in 1 .. 15

(* In a database that verifies, a no-show is charged as a no-show or not   *)
(* at all: other charges need a check-in (schema.sql:210), which V07, and  *)
(* V05 too, exclude (verify.py:46, 52).                                    *)
NoShowStandsAlone ==
    Silent(db) =>
        \A r \in db["reservations"] :
            r.status = "noshow" => TypesOf(r) \subseteq {NoShow}

(* In a database that verifies, the term a reservation is charged to is    *)
(* the only one whose time it touches (V01, V02; verify.py:39-42).         *)
ChargedToItsTerm ==
    Silent(db) =>
        \A r \in db["reservations"], t \in db["terms"] :
            r.term = t.id <=> r.start < t.end /\ t.start < r.end

(* In a database that verifies, the owner of a course reservation is a     *)
(* teacher, though a reservation may be any user's (V03, verify.py:43-44,  *)
(* with the foreign key of 课程).                                            *)
CourseOwnerTeaches ==
    Silent(db) =>
        \A r \in db["reservations"] : r.kind = "course" => r.user \in Teachers

(* Over all terms a student loses, before the floor at 0, exactly what the *)
(* violations on their reservations add up to: the joins of queries.sql    *)
(* neither repeat nor drop one (queries.sql:9-20).                         *)
DeductedOnce ==
    \A s \in Students :
        Total([t \in db["terms"] |-> Deducted(db, s, t)])
            = Total(Scores(OfStudent(db, s)))

(* A statement on violations changes the points of at most one student in  *)
(* one term for each row that it adds or removes, and if it only adds one  *)
(* it raises nobody's, however far below 0 the deductions would take them  *)
(* (queries.sql:6).                                                        *)
ChangedPoints ==
    {p \in Students \X db["terms"] :
        Remaining(db, p[1], p[2]) # Remaining(db', p[1], p[2])}

TouchedRows == SymDiff(db["violations"], db'["violations"])

PointsChangeLocally ==
    [][ db'["violations"] # db["violations"] =>
          /\ Cardinality(ChangedPoints) <= Cardinality(TouchedRows)
          /\ db["violations"] \subseteq db'["violations"] =>
               \A p \in ChangedPoints :
                   Remaining(db', p[1], p[2]) < Remaining(db, p[1], p[2])
      ]_db
=============================================================================
