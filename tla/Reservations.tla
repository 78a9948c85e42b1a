---------------------------- MODULE Reservations ----------------------------
(***************************************************************************)
(* Reservations, check-ins, deductions and changes under the keys, foreign *)
(* keys and CHECKs of sql/schema.sql; the cross-table rules V01-V12 that   *)
(* src/labdb/verify.py only diagnoses; and the points of sql/queries.sql.  *)
(*                                                                         *)
(* Ordinary SQL writers insert, update and delete one row at a time.  The  *)
(* server carries a statement out iff the tables still satisfy the schema  *)
(* afterwards: every foreign key is RESTRICT, so no statement touches a    *)
(* second row.  Times are minutes.                                         *)
(***************************************************************************)
EXTENDS Integers, FiniteSetsExt

CONSTANTS
    Null,
    People,    \* keys of 用户
    Students,  \* users with a row in 学生
    Teachers,  \* users with a row in 教师 (a user may be both)
    Rows,      \* the rows that writers use, by table
    InitDbs    \* the tables when the writers start

Tables == {"terms", "courses", "labs", "reservations", "checkins",
           "violations", "changes"}

Kinds    == {"personal", "course"}                      \* 个人, 课程
Statuses == {"pending", "rejected", "approved", "ended",  \* 待审核 已驳回 已通过 已结束
             "noshow", "cancelled"}                        \* 爽约 已取消
Evidenced == {"late", "early", "overtime"}            \* 迟到, 早退, 超时使用
NoShow    == "noshow"                                  \* 爽约

VARIABLE db    \* the committed rows of each table

-----------------------------------------------------------------------------
(* The schema, of tables d. *)

Refers(key, table) == \E x \in table : x.id = key

Unique(table, Same(_, _)) == \A x, y \in table : Same(x, y) => x = y

PrimaryKeys(d) ==
    \A t \in Tables : \A x, y \in d[t] : x.id = y.id => x = y

UniqueKeys(d) ==
    /\ Unique(d["checkins"], LAMBDA x, y : x.reservation = y.reservation)
    /\ Unique(d["violations"],
              LAMBDA x, y : x.reservation = y.reservation /\ x.type = y.type)

(* Mutant: the evidence need not be a check-in of the same reservation. *)
EvidenceByIdOnly(v, d) ==
    v.checkin # Null => Refers(v.checkin, d["checkins"])

(* fk_violation_checkin, on both columns; not checked when one is NULL. *)
EvidenceKey(v, d) ==
    v.checkin # Null =>
        \E c \in d["checkins"] :
            c.id = v.checkin /\ c.reservation = v.reservation

(* The columns for reviewers and for who made a change are left out. *)
ForeignKeys(d) ==
    /\ \A c \in d["courses"] : c.teacher \in Teachers
    /\ \A r \in d["reservations"] :
         /\ r.user \in People
         /\ Refers(r.lab, d["labs"]) /\ Refers(r.term, d["terms"])
         /\ r.course # Null => Refers(r.course, d["courses"])
    /\ \A t \in {"checkins", "violations", "changes"} :
         \A x \in d[t] : Refers(x.reservation, d["reservations"])
    /\ \A v \in d["violations"] : EvidenceKey(v, d)

CheckTerm(t) == t.start < t.end /\ t.points >= 0

CheckReservation(r) ==
    /\ \/ r.kind = "personal" /\ r.course = Null
       \/ r.kind = "course" /\ r.course # Null
    /\ r.start < r.end /\ r.people > 0 /\ r.status \in Statuses

CheckCheckin(c) == c.out # Null => c.out >= c.in

(* Mutant: without ck_violation_checkin_presence. *)
CheckViolationScore(v) ==
    \/ v.type = NoShow /\ v.score = 2
    \/ v.type \in Evidenced /\ v.score = 1

(* ck_violation_type_score and ck_violation_checkin_presence. *)
CheckViolation(v) ==
    \/ v.type = NoShow /\ v.score = 2 /\ v.checkin = Null
    \/ v.type \in Evidenced /\ v.score = 1 /\ v.checkin # Null

Checks(d) ==
    /\ \A t \in d["terms"] : CheckTerm(t)
    /\ \A l \in d["labs"] : l.capacity > 0
    /\ \A r \in d["reservations"] : CheckReservation(r)
    /\ \A c \in d["checkins"] : CheckCheckin(c)
    /\ \A v \in d["violations"] : CheckViolation(v)
    /\ \A c \in d["changes"] : c.type \in {"cancel", "move"}  \* 取消, 改期

SchemaHolds(d) ==
    PrimaryKeys(d) /\ UniqueKeys(d) /\ ForeignKeys(d) /\ Checks(d)

-----------------------------------------------------------------------------
(* The rules of verify.py: the identifiers each reports. *)

ReservationOf(x, d) == {r \in d["reservations"] : r.id = x.reservation}

(* A violation joined with its reservation and its evidence. *)
Evidence(type, d) ==
    {j \in d["violations"] \X d["reservations"] \X d["checkins"] :
        /\ j[1].type = type
        /\ j[2].id = j[1].reservation
        /\ j[3].reservation = j[1].reservation /\ j[3].id = j[1].checkin}

(* Mutant: terms are compared in the order of their identifiers only. *)
V01InOrder(d) ==
    {p \in d["terms"] \X d["terms"] :
        /\ p[1].id < p[2].id
        /\ p[1].start < p[2].start /\ p[2].start < p[1].end}

V01(d) ==
    {p \in d["terms"] \X d["terms"] :
        /\ p[1].id < p[2].id
        /\ p[1].start < p[2].end /\ p[2].start < p[1].end}

V02(d) ==
    {r \in d["reservations"] : \E t \in d["terms"] :
        t.id = r.term /\ (r.start < t.start \/ r.end > t.end)}

V03(d) ==
    {r \in d["reservations"] : \E c \in d["courses"] :
        c.id = r.course /\ r.kind = "course" /\ r.user # c.teacher}

V04(d) ==
    {r \in d["reservations"] : \E l \in d["labs"] :
        l.id = r.lab /\ r.people > l.capacity}

V05(d) ==
    {c \in d["checkins"] : \E r \in ReservationOf(c, d) :
        r.status \notin {"approved", "ended"}}

(* Mutant: a check-in is in time until the reservation is over. *)
V06UntilEnd(d) ==
    {c \in d["checkins"] : \E r \in ReservationOf(c, d) :
        c.in < r.start - 30 \/ c.in > r.end}

V06(d) ==
    {c \in d["checkins"] : \E r \in ReservationOf(c, d) :
        c.in < r.start - 30 \/ c.in > r.start + 15}

V07(d) ==
    {r \in d["reservations"] :
        r.status = "noshow" /\ \E c \in d["checkins"] : c.reservation = r.id}

V08(d) ==
    {v \in d["violations"] : \E r \in ReservationOf(v, d) :
        v.type = NoShow /\ v.time < r.start + 15}

V09(d) == {j \in Evidence("late", d) : j[3].in <= j[2].start}

V10(d) ==
    {j \in Evidence("early", d) : j[3].out = Null \/ j[3].out >= j[2].end}

V11(d) ==
    {j \in Evidence("overtime", d) : j[3].out = Null \/ j[3].out <= j[2].end}

V12(d) ==
    {r \in d["reservations"] :
        /\ r.status = "cancelled"
        /\ ~ \E c \in d["changes"] :
               c.reservation = r.id /\ c.type = "cancel"}

(* verify reports nothing. *)
Silent(d) ==
    /\ V01(d) = {} /\ V02(d) = {} /\ V03(d) = {} /\ V04(d) = {}
    /\ V05(d) = {} /\ V06(d) = {} /\ V07(d) = {} /\ V08(d) = {}
    /\ V09(d) = {} /\ V10(d) = {} /\ V11(d) = {} /\ V12(d) = {}

-----------------------------------------------------------------------------
(* The points query: one row for each student and term. *)

(* SUM, over the domain of f: as many as the values of f have units. *)
Units(f) == UNION {{x} \X (1 .. f[x]) : x \in DOMAIN f}
Total(f) == Cardinality(Units(f))

Scores(violations) == [v \in violations |-> v.score]

OfStudent(d, s) ==
    {v \in d["violations"] : \E r \in ReservationOf(v, d) : r.user = s}

OfTerm(d, s, t) ==
    {v \in d["violations"] : \E r \in ReservationOf(v, d) :
        r.user = s /\ r.term = t.id}

(* Mutant: deductions are grouped by user only. *)
DeductedInAnyTerm(d, s, t) == Total(Scores(OfStudent(d, s)))

Deducted(d, s, t) == Total(Scores(OfTerm(d, s, t)))

Remaining(d, s, t) ==
    IF Deducted(d, s, t) <= t.points THEN t.points - Deducted(d, s, t) ELSE 0

-----------------------------------------------------------------------------
(* The columns that the rules compare: DATETIMEs, and the identifiers of   *)
(* terms, which the collation orders; and the points a term starts with.   *)
Timed(d) ==
    /\ DOMAIN d = Tables
    /\ \A t \in d["terms"] : t.id \in Int /\ t.points \in Int
    /\ \A x \in d["terms"] \cup d["reservations"] :
         x.start \in Int /\ x.end \in Int
    /\ \A c \in d["checkins"] : c.in \in Int /\ c.out \in Int \cup {Null}

ASSUME RowsAssumption ==
    /\ Students \cup Teachers \subseteq People
    /\ Timed(Rows)
    /\ \A d \in InitDbs :
         Timed(d) /\ SchemaHolds(d) /\ IsFiniteSet(d["violations"])

Init == db \in InitDbs

(* The server accepts a statement that leads to tables d. *)
Accepts(d) == SchemaHolds(d) /\ db' = d

Insert(t) ==
    \E row \in Rows[t] \ db[t] : Accepts([db EXCEPT ![t] = @ \cup {row}])

Delete(t) ==
    \E row \in db[t] : Accepts([db EXCEPT ![t] = @ \ {row}])

Update(t) ==
    \E row \in db[t], new \in Rows[t] \ db[t] :
        Accepts([db EXCEPT ![t] = (@ \ {row}) \cup {new}])

Next == \E t \in Tables : Insert(t) \/ Delete(t) \/ Update(t)

Spec == Init /\ [][Next]_db
=============================================================================
