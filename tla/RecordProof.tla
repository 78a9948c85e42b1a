---------------------------- MODULE RecordProof ----------------------------
(***************************************************************************)
(* What the schema and a verification without findings give of the records *)
(* of the laboratory: reservations and their deductions first, reports and *)
(* repairs after them.  In either half the writers keep the schema         *)
(* (SchemaKept, RepairSchemaKept), and from it follow, for all rows and    *)
(* any number of them, the properties of ReservationProperties and of      *)
(* RepairProperties.                                                       *)
(***************************************************************************)
EXTENDS ReservationProperties, RepairProperties, FunctionTheorems,
        FiniteSetTheorems, TLAPS

LEMMA InitKept == Init => SchemaKept
BY RowsAssumption DEF Init, SchemaKept

(* One row more, fewer or exchanged in one table is still timed. *)
LEMMA StaysTimed ==
    ASSUME Timed(db), NEW t \in Tables, NEW gone, NEW new,
           new \subseteq Rows[t]
    PROVE  Timed([db EXCEPT ![t] = (@ \ gone) \cup new])
BY RowsAssumption DEF Timed, Tables

(* ... and, if it was finite, still finite. *)
LEMMA StaysFinite ==
    ASSUME NEW table, IsFiniteSet(table), NEW row, NEW new
    PROVE  /\ IsFiniteSet(table \cup {new})
           /\ IsFiniteSet(table \ {row})
           /\ IsFiniteSet((table \ {row}) \cup {new})
BY FS_AddElement, FS_RemoveElement

LEMMA NextKept == SchemaKept /\ [Next]_db => SchemaKept'
<1> SUFFICES ASSUME SchemaKept, [Next]_db PROVE SchemaKept'
    OBVIOUS
<1> USE DEF SchemaKept
<1>1. CASE UNCHANGED db
    BY <1>1
<1>2. ASSUME NEW t \in Tables, Insert(t) PROVE SchemaKept'
    <2>1. PICK row \in Rows[t] \ db[t] :
              Accepts([db EXCEPT ![t] = @ \cup {row}])
        BY <1>2 DEF Insert
    <2>2. [db EXCEPT ![t] = @ \cup {row}]
              = [db EXCEPT ![t] = (@ \ {}) \cup {row}]
        OBVIOUS
    <2>3. Timed(db') /\ SchemaHolds(db')
        BY <2>1, <2>2, StaysTimed DEF Accepts
    <2>4. db'["violations"] \in
              {db["violations"], db["violations"] \cup {row}}
        BY <2>1 DEF Accepts, Timed, Tables
    <2>5. IsFiniteSet(db'["violations"])
        <3>1. IsFiniteSet(db["violations"])
            OBVIOUS
        <3>2. IsFiniteSet(db["violations"] \cup {row})
            BY <3>1, StaysFinite
        <3> QED
            BY <2>4, <3>1, <3>2
    <2> QED
        BY <2>3, <2>5
<1>3. ASSUME NEW t \in Tables, Delete(t) PROVE SchemaKept'
    <2>1. PICK row \in db[t] : Accepts([db EXCEPT ![t] = @ \ {row}])
        BY <1>3 DEF Delete
    <2>2. [db EXCEPT ![t] = @ \ {row}] = [db EXCEPT ![t] = (@ \ {row}) \cup {}]
        OBVIOUS
    <2>3. Timed(db') /\ SchemaHolds(db')
        BY <2>1, <2>2, StaysTimed DEF Accepts
    <2>4. db'["violations"] \in {db["violations"], db["violations"] \ {row}}
        BY <2>1 DEF Accepts, Timed, Tables
    <2>5. IsFiniteSet(db'["violations"])
        <3>1. IsFiniteSet(db["violations"])
            OBVIOUS
        <3>2. IsFiniteSet(db["violations"] \ {row})
            BY <3>1, StaysFinite
        <3> QED
            BY <2>4, <3>1, <3>2
    <2> QED
        BY <2>3, <2>5
<1>4. ASSUME NEW t \in Tables, Update(t) PROVE SchemaKept'
    <2>1. PICK row \in db[t], new \in Rows[t] \ db[t] :
              Accepts([db EXCEPT ![t] = (@ \ {row}) \cup {new}])
        BY <1>4 DEF Update
    <2>2. Timed(db') /\ SchemaHolds(db')
        BY <2>1, StaysTimed DEF Accepts
    <2>3. db'["violations"] \in
              {db["violations"], (db["violations"] \ {row}) \cup {new}}
        BY <2>1 DEF Accepts, Timed, Tables
    <2>4. IsFiniteSet(db'["violations"])
        <3>1. IsFiniteSet(db["violations"])
            OBVIOUS
        <3>2. IsFiniteSet((db["violations"] \ {row}) \cup {new})
            BY <3>1, StaysFinite
        <3> QED
            BY <2>3, <3>1, <3>2
    <2> QED
        BY <2>2, <2>4
<1> QED
    BY <1>1, <1>2, <1>3, <1>4 DEF Next

(* The writers keep every key, foreign key and CHECK. *)
LEMMA SchemaIsKept == Spec => []SchemaKept
BY InitKept, NextKept, PTL DEF Spec

-----------------------------------------------------------------------------
(* A violation with evidence and the one check-in of its reservation. *)
LEMMA OneCheckin ==
    ASSUME SchemaKept, NEW v \in db["violations"], v.type # NoShow
    PROVE  /\ v.checkin # Null /\ v.type \in Evidenced
           /\ \E c \in db["checkins"] :
                c.id = v.checkin /\ c.reservation = v.reservation
           /\ \A c \in db["checkins"] :
                c.reservation = v.reservation <=> c.id = v.checkin
<1>1. v.checkin # Null /\ v.type \in Evidenced
    BY DEF SchemaKept, SchemaHolds, Checks, CheckViolation
<1>2. \E c \in db["checkins"] :
          c.id = v.checkin /\ c.reservation = v.reservation
    BY <1>1 DEF SchemaKept, SchemaHolds, ForeignKeys, EvidenceKey
<1>3. \A x, y \in db["checkins"] : x.id = y.id => x = y
    BY DEF SchemaKept, SchemaHolds, PrimaryKeys, Tables
<1>4. \A x, y \in db["checkins"] : x.reservation = y.reservation => x = y
    BY DEF SchemaKept, SchemaHolds, UniqueKeys, Unique
<1> QED
    BY <1>1, <1>2, <1>3, <1>4

LEMMA JoinWithEvidence ==
    ASSUME SchemaKept, NEW v \in db["violations"], v.type # NoShow,
           NEW r \in db["reservations"], v.reservation = r.id
    PROVE  \E c \in db["checkins"] :
             /\ c.id = v.checkin /\ c.reservation = r.id
             /\ <<v, r, c>> \in Evidence(v.type, db)
BY OneCheckin DEF Evidence

(* Deductions rest on the one check-in that the reservation has.           *)
THEOREM EvidenceBelongs == Spec => []EvidenceIsOwn
<1>1. SchemaKept => EvidenceIsOwn
    BY OneCheckin DEF EvidenceIsOwn
<1> QED
    BY <1>1, SchemaIsKept, PTL

(* Nobody is charged for leaving early and for staying too long. *)
THEOREM OneSignOut == Spec => []OneWayOut
<1>1. SchemaKept => OneWayOut
    <2> SUFFICES ASSUME SchemaKept, Silent(db),
                        NEW r \in db["reservations"],
                        NEW v \in db["violations"], v.reservation = r.id,
                        v.type = "early",
                        NEW w \in db["violations"], w.reservation = r.id,
                        w.type = "overtime"
                 PROVE  FALSE
        BY DEF OneWayOut, TypesOf, ViolationsOf
    <2>1. PICK c \in db["checkins"] :
              /\ c.id = v.checkin /\ c.reservation = r.id
              /\ <<v, r, c>> \in Evidence("early", db)
        BY JoinWithEvidence DEF NoShow
    <2>2. PICK d \in db["checkins"] :
              /\ d.id = w.checkin /\ d.reservation = r.id
              /\ <<w, r, d>> \in Evidence("overtime", db)
        BY JoinWithEvidence DEF NoShow
    <2>3. c = d
        BY <2>1, <2>2 DEF SchemaKept, SchemaHolds, UniqueKeys, Unique
    <2>4. c.out # Null /\ ~(c.out >= r.end)
        BY <2>1 DEF Silent, V10
    <2>5. ~(c.out <= r.end)
        BY <2>2, <2>3 DEF Silent, V11
    <2>6. c.out \in Int \cup {Null} /\ r.end \in Int
        BY DEF SchemaKept, Timed
    <2> QED
        BY <2>4, <2>5, <2>6
<1> QED
    BY <1>1, SchemaIsKept, PTL

(* A deduction for lateness is for 1 to 15 minutes. *)
THEOREM LatenessIsProven == Spec => []LatenessProven
<1>1. SchemaKept => LatenessProven
    <2> SUFFICES ASSUME SchemaKept, Silent(db),
                        NEW v \in db["violations"], v.type = "late",
                        NEW r \in db["reservations"], v.reservation = r.id
                 PROVE  \E c \in db["checkins"] :
                            /\ c.id = v.checkin /\ c.reservation = r.id
                            /\ c.in - r.start \in 1 .. 15
        BY DEF LatenessProven
    <2>1. PICK c \in db["checkins"] :
              /\ c.id = v.checkin /\ c.reservation = r.id
              /\ <<v, r, c>> \in Evidence("late", db)
        BY JoinWithEvidence DEF NoShow
    <2>2. ~(c.in <= r.start)
        BY <2>1 DEF Silent, V09
    <2>3. r \in ReservationOf(c, db)
        BY <2>1 DEF ReservationOf
    <2>4. ~(c.in > r.start + 15)
        BY <2>3 DEF Silent, V06
    <2>5. c.in \in Int /\ r.start \in Int
        BY DEF SchemaKept, Timed
    <2> QED
        BY <2>1, <2>2, <2>4, <2>5
<1> QED
    BY <1>1, SchemaIsKept, PTL

(* A no-show is charged as nothing else. *)
THEOREM NoShowIsAlone == Spec => []NoShowStandsAlone
<1>1. SchemaKept => NoShowStandsAlone
    <2> SUFFICES ASSUME SchemaKept, Silent(db),
                        NEW r \in db["reservations"], r.status = "noshow",
                        NEW v \in db["violations"], v.reservation = r.id,
                        v.type # NoShow
                 PROVE  FALSE
        BY DEF NoShowStandsAlone, TypesOf, ViolationsOf
    <2>1. \E c \in db["checkins"] : c.reservation = r.id
        BY OneCheckin
    <2> QED
        BY <2>1 DEF Silent, V07
<1> QED
    BY <1>1, SchemaIsKept, PTL

(* A reservation touches the time of no term but its own. *)
THEOREM TermIsItsOwn == Spec => []ChargedToItsTerm
<1>1. SchemaKept => ChargedToItsTerm
    <2> SUFFICES ASSUME SchemaKept, Silent(db),
                        NEW r \in db["reservations"], NEW t \in db["terms"]
                 PROVE  r.term = t.id <=> r.start < t.end /\ t.start < r.end
        BY DEF ChargedToItsTerm
    <2>1. PICK u \in db["terms"] : u.id = r.term
        BY DEF SchemaKept, SchemaHolds, ForeignKeys, Refers
    <2>2. ~(r.start < u.start) /\ ~(r.end > u.end)
        BY <2>1 DEF Silent, V02
    <2>3. /\ r.start \in Int /\ r.end \in Int /\ u.start \in Int
          /\ u.end \in Int /\ t.start \in Int /\ t.end \in Int
        BY DEF SchemaKept, Timed
    <2>4. r.start < r.end
        BY DEF SchemaKept, SchemaHolds, Checks, CheckReservation
    <2>5. CASE t.id = r.term
        <3>1. t = u
            BY <2>1, <2>5 DEF SchemaKept, SchemaHolds, PrimaryKeys, Tables
        <3> QED
            BY <2>2, <2>3, <2>4, <2>5, <3>1
    <2>6. CASE t.id # r.term
        <3>1. ~(u.start < t.end /\ t.start < u.end)
            <4>1. t.id \in Int /\ u.id \in Int
                BY DEF SchemaKept, Timed
            <4>2. u.id < t.id \/ t.id < u.id
                BY <2>1, <2>6, <4>1
            <4>3. <<u, t>> \notin V01(db) /\ <<t, u>> \notin V01(db)
                BY DEF Silent
            <4> QED
                BY <4>2, <4>3 DEF V01
        <3> QED
            BY <2>2, <2>3, <2>4, <2>6, <3>1
    <2> QED
        BY <2>5, <2>6
<1> QED
    BY <1>1, SchemaIsKept, PTL

(* The owner of a course reservation is a teacher. *)
THEOREM CourseOwnerIsTeacher == Spec => []CourseOwnerTeaches
<1>1. SchemaKept => CourseOwnerTeaches
    <2> SUFFICES ASSUME SchemaKept, Silent(db),
                        NEW r \in db["reservations"], r.kind = "course"
                 PROVE  r.user \in Teachers
        BY DEF CourseOwnerTeaches
    <2>1. r.course # Null
        BY DEF SchemaKept, SchemaHolds, Checks, CheckReservation
    <2>2. PICK c \in db["courses"] : c.id = r.course
        BY <2>1 DEF SchemaKept, SchemaHolds, ForeignKeys, Refers
    <2>3. r.user = c.teacher
        BY <2>2 DEF Silent, V03
    <2> QED
        BY <2>2, <2>3 DEF SchemaKept, SchemaHolds, ForeignKeys
<1> QED
    BY <1>1, SchemaIsKept, PTL

-----------------------------------------------------------------------------
(* The violations of any choice have finitely many units, and one or two   *)
(* each.                                                                   *)
LEMMA UnitsOfScores ==
    ASSUME NEW d, IsFiniteSet(d["violations"]), Checks(d),
           NEW V \in SUBSET d["violations"]
    PROVE  /\ \A v \in V : v.score \in 1 .. 2
           /\ Units(Scores(V)) = {p \in V \X (1 .. 2) : p[2] <= p[1].score}
           /\ IsFiniteSet(Units(Scores(V)))
           /\ Total(Scores(V)) \in Nat
<1>1. \A v \in V : v.score \in 1 .. 2
    BY DEF Checks, CheckViolation
<1>2. Units(Scores(V)) = {p \in V \X (1 .. 2) : p[2] <= p[1].score}
    <2>1. DOMAIN Scores(V) = V /\ \A v \in V : Scores(V)[v] = v.score
        BY DEF Scores
    <2>2. ASSUME NEW p \in Units(Scores(V))
          PROVE  p \in {q \in V \X (1 .. 2) : q[2] <= q[1].score}
        <3>1. PICK v \in V : p \in {v} \X (1 .. v.score)
            BY <2>1, <2>2 DEF Units
        <3> QED
            BY <1>1, <3>1
    <2>3. ASSUME NEW p \in V \X (1 .. 2), p[2] <= p[1].score
          PROVE  p \in Units(Scores(V))
        <3>1. p \in {p[1]} \X (1 .. p[1].score)
            BY <1>1, <2>3
        <3> QED
            BY <2>1, <3>1 DEF Units
    <2> QED
        BY <2>2, <2>3
<1>3. IsFiniteSet(Units(Scores(V)))
    <2>1. IsFiniteSet(1 .. 2)
        <3>1. 1 \in Int /\ 2 \in Int
            OBVIOUS
        <3> QED
            BY <3>1, FS_Interval, Zenon
    <2>2. IsFiniteSet(V)
        BY FS_Subset
    <2>3. IsFiniteSet(V \X (1 .. 2))
        BY <2>1, <2>2, FS_Product
    <2> QED
        BY <1>2, <2>3, FS_Subset
<1> QED
    BY <1>1, <1>2, <1>3, FS_CardinalityType DEF Total

(* The violations of a term among those of the student. *)
LEMMA TermOfStudent ==
    ASSUME SchemaKept, NEW s
    PROVE  /\ \A t : OfTerm(db, s, t) \subseteq OfStudent(db, s)
           /\ OfStudent(db, s) \subseteq db["violations"]
           /\ \A v \in OfStudent(db, s) : \E t \in db["terms"] :
                 v \in OfTerm(db, s, t)
           /\ \A t, u \in db["terms"] : \A v :
                 v \in OfTerm(db, s, t) /\ v \in OfTerm(db, s, u) => t = u
<1>1. \A v \in OfStudent(db, s) : \E t \in db["terms"] :
          v \in OfTerm(db, s, t)
    BY DEF OfStudent, OfTerm, ReservationOf, SchemaKept, SchemaHolds,
           ForeignKeys, Refers
<1>2. \A t, u \in db["terms"] : \A v :
          v \in OfTerm(db, s, t) /\ v \in OfTerm(db, s, u) => t = u
    BY DEF OfTerm, ReservationOf, SchemaKept, SchemaHolds, PrimaryKeys, Tables
<1> QED
    BY <1>1, <1>2 DEF OfTerm, OfStudent

(* The points query charges each violation of a student once. *)
THEOREM EachIsDeductedOnce == Spec => []DeductedOnce
<1>1. SchemaKept => DeductedOnce
    <2> SUFFICES ASSUME SchemaKept, NEW s \in Students
                 PROVE  Total([t \in db["terms"] |-> Deducted(db, s, t)])
                            = Total(Scores(OfStudent(db, s)))
        BY DEF DeductedOnce
    <2> DEFINE terms == db["terms"]
               All == Units(Scores(OfStudent(db, s)))
               Of(t) == Units(Scores(OfTerm(db, s, t)))
               n(t) == Deducted(db, s, t)
               Parts == Units([t \in terms |-> n(t)])
               b == [t \in terms |->
                        CHOOSE f : f \in Bijection(1 .. n(t), Of(t))]
               G == [p \in Parts |-> b[p[1]][p[2]]]
    <2>1. IsFiniteSet(db["violations"]) /\ Checks(db)
        BY DEF SchemaKept, SchemaHolds
    <2>2. /\ All = {p \in OfStudent(db, s) \X (1 .. 2) : p[2] <= p[1].score}
          /\ IsFiniteSet(All)
        BY <2>1, UnitsOfScores, TermOfStudent
    <2>3. ASSUME NEW t \in terms
          PROVE  /\ Of(t) = {p \in OfTerm(db, s, t) \X (1 .. 2) :
                                 p[2] <= p[1].score}
                 /\ n(t) \in Nat
                 /\ b[t] \in Bijection(1 .. n(t), Of(t))
        <3>1. OfTerm(db, s, t) \subseteq db["violations"]
            BY TermOfStudent
        <3>2. /\ Of(t) = {p \in OfTerm(db, s, t) \X (1 .. 2) :
                              p[2] <= p[1].score}
              /\ IsFiniteSet(Of(t))
            BY <2>1, <3>1, UnitsOfScores
        <3>3. n(t) = Cardinality(Of(t))
            BY DEF Deducted, Total
        <3>4. n(t) \in Nat /\ Bijection(1 .. n(t), Of(t)) # {}
            BY <3>2, <3>3, FS_CardinalityType DEF ExistsBijection
        <3> QED
            BY <3>2, <3>4
    <2>4. Parts = UNION {{t} \X (1 .. n(t)) : t \in terms}
        BY DEF Units
    <2>5. \A p \in Parts :
              p = <<p[1], p[2]>> /\ p[1] \in terms /\ p[2] \in 1 .. n(p[1])
        BY <2>4
    <2>6. \A t \in terms : \A i \in 1 .. n(t) : <<t, i>> \in Parts
        BY <2>4
    <2> HIDE DEF Parts, n
    <2>7. ASSUME NEW p \in Parts
          PROVE  G[p] \in Of(p[1]) /\ G[p] \in All
        <3>1. b[p[1]] \in [1 .. n(p[1]) -> Of(p[1])]
            BY <2>3, <2>5 DEF Bijection, Injection
        <3>2. G[p] \in Of(p[1])
            BY <2>5, <3>1
        <3>3. /\ G[p] \in OfTerm(db, s, p[1]) \X (1 .. 2)
              /\ G[p][2] <= G[p][1].score
            BY <2>3, <2>5, <3>2
        <3> QED
            BY <2>2, <3>2, <3>3, TermOfStudent
    <2>8. ASSUME NEW p \in Parts, NEW q \in Parts, G[p] = G[q]
          PROVE  p = q
        <3>1. /\ G[p][1] \in OfTerm(db, s, p[1])
              /\ G[p][1] \in OfTerm(db, s, q[1])
            <4> HIDE DEF G, Of
            <4>1. G[p] \in Of(p[1]) /\ G[p] \in Of(q[1])
                BY <2>7, <2>8
            <4>2. ASSUME NEW t \in terms, NEW x \in Of(t)
                  PROVE  x[1] \in OfTerm(db, s, t)
                <5>1. Of(t) = {y \in OfTerm(db, s, t) \X (1 .. 2) :
                                  y[2] <= y[1].score}
                    BY <2>3
                <5> QED
                    BY <5>1
            <4> QED
                BY <2>5, <4>1, <4>2
        <3>2. p[1] = q[1]
            BY <2>5, <3>1, TermOfStudent
        <3>3. IsInjective(b[p[1]]) /\ DOMAIN b[p[1]] = 1 .. n(p[1])
            BY <2>3, <2>5 DEF Bijection, Injection
        <3>4. b[p[1]][p[2]] = b[p[1]][q[2]]
            BY <2>8, <3>2
        <3> QED
            BY <2>5, <3>2, <3>3, <3>4 DEF IsInjective
    <2>9. ASSUME NEW x \in All PROVE \E p \in Parts : G[p] = x
        <3>1. x \in OfStudent(db, s) \X (1 .. 2) /\ x[2] <= x[1].score
            BY <2>2
        <3>2. PICK t \in terms : x[1] \in OfTerm(db, s, t)
            BY <3>1, TermOfStudent
        <3>3. x \in Of(t)
            BY <2>3, <3>1, <3>2
        <3>4. PICK i \in 1 .. n(t) : b[t][i] = x
            BY <2>3, <3>3 DEF Bijection, Surjection
        <3> QED
            BY <2>6, <3>4
    <2>10. G \in Bijection(Parts, All)
        <3> HIDE DEF All, b
        <3>1. G \in [Parts -> All]
            BY <2>7
        <3>2. G \in Injection(Parts, All)
            BY <2>8, <3>1 DEF Injection, IsInjective
        <3>3. G \in Surjection(Parts, All)
            BY <2>9, <3>1 DEF Surjection
        <3> QED
            BY <3>2, <3>3 DEF Bijection
    <2>11. ExistsBijection(All, Parts)
        BY <2>10, Fun_ExistsBijSymmetric DEF ExistsBijection
    <2>12. Cardinality(Parts) = Cardinality(All)
        BY <2>2, <2>11, FS_Bijection
    <2> QED
        BY <2>12 DEF Total, Parts, n
<1> QED
    BY <1>1, SchemaIsKept, PTL

(* What tables d charge to a student in a term is in units of their        *)
(* violations, so that more violations charge no less.                     *)
LEMMA MoreIsNoLess ==
    ASSUME NEW d, IsFiniteSet(d["violations"]), Checks(d),
           NEW e, IsFiniteSet(e["violations"]), Checks(e),
           d["violations"] \subseteq e["violations"],
           d["reservations"] = e["reservations"],
           NEW s, NEW t
    PROVE  /\ Deducted(d, s, t) \in Nat /\ Deducted(e, s, t) \in Nat
           /\ Deducted(d, s, t) <= Deducted(e, s, t)
<1> DEFINE D == OfTerm(d, s, t)
           E == OfTerm(e, s, t)
<1>1. /\ D \subseteq d["violations"] /\ E \subseteq e["violations"]
      /\ D \subseteq E
    BY DEF OfTerm, ReservationOf
<1>2. /\ Units(Scores(D)) = {p \in D \X (1 .. 2) : p[2] <= p[1].score}
      /\ Total(Scores(D)) \in Nat
    <2> HIDE DEF D
    <2> QED
        BY <1>1, UnitsOfScores
<1>3. /\ Units(Scores(E)) = {p \in E \X (1 .. 2) : p[2] <= p[1].score}
      /\ IsFiniteSet(Units(Scores(E)))
      /\ Total(Scores(E)) \in Nat
    <2> HIDE DEF E
    <2> QED
        BY <1>1, UnitsOfScores
<1>4. Units(Scores(D)) \subseteq Units(Scores(E))
    <2> HIDE DEF D, E
    <2> QED
        BY <1>1, <1>2, <1>3
<1>5. Total(Scores(D)) <= Total(Scores(E))
    <2> HIDE DEF D, E
    <2> QED
        BY <1>3, <1>4, FS_Subset DEF Total
<1> QED
    BY <1>2, <1>3, <1>5 DEF Deducted

(* A student's points in a term change only with a violation of the term,  *)
(* and a violation is of one student and term.                             *)
LEMMA ChangedByOne ==
    ASSUME NEW d, PrimaryKeys(d), NEW e,
           \A table \in Tables \ {"violations"} : d[table] = e[table],
           NEW S
    PROVE  LET pairs   == S \X d["terms"]
               Of(v, p) == \E r \in ReservationOf(v, d) :
                              r.user = p[1] /\ r.term = p[2].id
           IN  /\ \A p \in pairs :
                    Remaining(d, p[1], p[2]) # Remaining(e, p[1], p[2]) =>
                        \E v \in SymDiff(d["violations"], e["violations"]) :
                            Of(v, p)
               /\ \A v : \A p, q \in pairs : Of(v, p) /\ Of(v, q) => p = q
<1> DEFINE pairs == S \X d["terms"]
           Of(v, p) == \E r \in ReservationOf(v, d) :
                          r.user = p[1] /\ r.term = p[2].id
<1>1. ASSUME NEW p \in pairs,
             Remaining(d, p[1], p[2]) # Remaining(e, p[1], p[2])
      PROVE  \E v \in SymDiff(d["violations"], e["violations"]) : Of(v, p)
    <2>1. OfTerm(d, p[1], p[2]) # OfTerm(e, p[1], p[2])
        BY <1>1 DEF Remaining, Deducted
    <2>2. \A v : ReservationOf(v, d) = ReservationOf(v, e)
        BY DEF ReservationOf, Tables
    <2> QED
        BY <2>1, <2>2 DEF OfTerm, SymDiff
<1>2. ASSUME NEW v, NEW p \in pairs, NEW q \in pairs, Of(v, p), Of(v, q)
      PROVE  p = q
    <2>1. p[1] = q[1] /\ p[2].id = q[2].id
        BY <1>2 DEF ReservationOf, PrimaryKeys, Tables
    <2>2. p[2] = q[2]
        BY <2>1 DEF PrimaryKeys, Tables
    <2> QED
        BY <2>1, <2>2
<1> QED
    BY <1>1, <1>2

(* A statement that changes violations changes no other table. *)
LEMMA OneTable ==
    ASSUME SchemaKept, [Next]_db, db'["violations"] # db["violations"]
    PROVE  \A table \in Tables \ {"violations"} : db[table] = db'[table]
<1>1. PICK t \in Tables : Insert(t) \/ Delete(t) \/ Update(t)
    BY DEF Next
<1>2. PICK new : db' = [db EXCEPT ![t] = new]
    BY <1>1 DEF Insert, Delete, Update, Accepts
<1> QED
    BY <1>2 DEF SchemaKept, Timed

(* A statement on violations moves the points of no more students and      *)
(* terms than it touches rows, and by adding one it lowers them.           *)
THEOREM PointsMoveLocally == Spec => PointsChangeLocally
<1>1. ASSUME SchemaKept, SchemaKept', [Next]_db,
             db'["violations"] # db["violations"]
      PROVE  /\ Cardinality(ChangedPoints) <= Cardinality(TouchedRows)
             /\ db["violations"] \subseteq db'["violations"] =>
                  \A p \in ChangedPoints :
                      Remaining(db', p[1], p[2]) < Remaining(db, p[1], p[2])
    <2> DEFINE Of(v, p) == \E r \in ReservationOf(v, db) :
                              r.user = p[1] /\ r.term = p[2].id
    <2>1. \A table \in Tables \ {"violations"} : db[table] = db'[table]
        BY <1>1, OneTable
    <2>2. /\ IsFiniteSet(db["violations"]) /\ IsFiniteSet(db'["violations"])
          /\ Checks(db) /\ Checks(db') /\ PrimaryKeys(db)
        BY <1>1 DEF SchemaKept, SchemaHolds
    <2>3. /\ \A p \in ChangedPoints : \E v \in TouchedRows : Of(v, p)
          /\ \A v : \A p, q \in ChangedPoints : Of(v, p) /\ Of(v, q) => p = q
        BY <2>1, <2>2, ChangedByOne DEF ChangedPoints, TouchedRows
    <2>4. Cardinality(ChangedPoints) <= Cardinality(TouchedRows)
        <3> DEFINE touching ==
                       {v \in TouchedRows : \E p \in ChangedPoints : Of(v, p)}
                   f == [v \in touching |->
                            CHOOSE p \in ChangedPoints : Of(v, p)]
        <3>1. IsFiniteSet(TouchedRows)
            <4>1. IsFiniteSet(db["violations"] \cup db'["violations"])
                BY <2>2, FS_Union
            <4>2. TouchedRows \subseteq db["violations"] \cup db'["violations"]
                BY DEF SymDiff, TouchedRows
            <4> QED
                BY <4>1, <4>2, FS_Subset
        <3> HIDE DEF Of
        <3>2. \A v \in touching : f[v] \in ChangedPoints /\ Of(v, f[v])
            OBVIOUS
        <3>3. \A p \in ChangedPoints : \E v \in touching : f[v] = p
            BY <2>3, <3>2
        <3>4. f \in Surjection(touching, ChangedPoints)
            <4> HIDE DEF touching
            <4>1. f \in [touching -> ChangedPoints]
                BY <3>2
            <4> QED
                BY <3>3, <4>1 DEF Surjection
        <3>5. /\ IsFiniteSet(touching)
              /\ Cardinality(touching) <= Cardinality(TouchedRows)
            BY <3>1, FS_Subset
        <3>6. /\ IsFiniteSet(ChangedPoints)
              /\ Cardinality(ChangedPoints) <= Cardinality(touching)
            BY <3>4, <3>5, FS_Surjection
        <3>7. /\ Cardinality(TouchedRows) \in Nat
              /\ Cardinality(touching) \in Nat
              /\ Cardinality(ChangedPoints) \in Nat
            BY <3>1, <3>5, <3>6, FS_CardinalityType
        <3> QED
            BY <3>5, <3>6, <3>7
    <2>5. ASSUME db["violations"] \subseteq db'["violations"],
                 NEW p \in ChangedPoints
          PROVE  Remaining(db', p[1], p[2]) < Remaining(db, p[1], p[2])
        <3> DEFINE before == Deducted(db, p[1], p[2])
                   after  == Deducted(db', p[1], p[2])
        <3>1. before \in Nat /\ after \in Nat /\ before <= after
            BY <2>1, <2>2, <2>5, MoreIsNoLess DEF Tables
        <3>2. p[2].points \in Int
            BY <1>1 DEF SchemaKept, Timed, ChangedPoints
        <3> QED
            BY <3>1, <3>2 DEF Remaining, ChangedPoints
    <2> QED
        BY <2>4, <2>5
<1> QED
    BY <1>1, SchemaIsKept, PTL DEF Spec, PointsChangeLocally

-----------------------------------------------------------------------------
(* One row more, fewer or exchanged leaves no row that writers do not use. *)
LEMMA StaysInRows ==
    ASSUME NEW rows, NEW table \in SUBSET rows, NEW new \in Written(table, rows)
    PROVE  new \subseteq rows
BY DEF Written

(* The writers keep every key, foreign key and CHECK. *)
LEMMA RepairSchemaIsKept == RepairSpec => []RepairSchemaKept
<1>1. RepairInit => RepairSchemaKept
    BY DEF RepairInit, RepairSchemaKept, RepairSchema, Identified
<1>2. RepairSchemaKept /\ [RepairNext]_repairVars => RepairSchemaKept'
    <2> SUFFICES ASSUME RepairSchemaKept, [RepairNext]_repairVars PROVE RepairSchemaKept'
        OBVIOUS
    <2>1. CASE WriteReport
        BY <2>1, StaysInRows DEF WriteReport, RepairSchemaKept
    <2>2. CASE WriteExecution
        BY <2>2, StaysInRows DEF WriteExecution, RepairSchemaKept
    <2>3. CASE UNCHANGED repairVars
        BY <2>3 DEF repairVars, RepairSchemaKept
    <2> QED
        BY <2>1, <2>2, <2>3 DEF RepairNext
<1> QED
    BY <1>1, <1>2, PTL DEF RepairSpec

-----------------------------------------------------------------------------
(* A repair that is done was accepted, attempt by attempt and in order. *)
THEOREM DoneIsAccepted == RepairSpec => []DoneMeansAccepted
<1>1. RepairSchemaKept => DoneMeansAccepted
    <2> SUFFICES ASSUME RepairSchemaKept, RepairsSilent, NEW r \in reports, r.state = Done
                 PROVE  /\ \E e \in Attempts(r, executions) :
                             e.result = "passed"
                        /\ \A e \in Attempts(r, executions) :
                             /\ e.acceptor \in {r.reporter, r.manager}
                             /\ r.reported <= e.started
                             /\ e.started <= e.completed
                             /\ e.completed <= e.accepted
        BY DEF DoneMeansAccepted
    <2>1. r \notin V15(reports, executions)
        BY DEF RepairsSilent
    <2>2. \E e \in Attempts(r, executions) : e.result = "passed"
        BY <2>1 DEF V15, Done, Awaiting, Opened, Refused
    <2>3. ASSUME NEW e \in Attempts(r, executions)
          PROVE  /\ e.acceptor \in {r.reporter, r.manager}
                 /\ r.reported <= e.started
                 /\ e.started <= e.completed
                 /\ e.completed <= e.accepted
        <3>1. e \in executions /\ e.report = r.id
            BY DEF Attempts
        <3>2. ~Unfinished(e) /\ ~Unaccepted(e)
            BY <2>1 DEF V15, Done, Awaiting, Opened, Refused
        <3>3. e.completed # NoValue /\ e.result # NoValue
            BY <3>2 DEF Unfinished, Unaccepted
        <3>4. CheckCompletion(e) /\ CheckAcceptance(e)
            BY <3>1 DEF RepairSchemaKept, RepairSchema
        <3>5. /\ e.acceptor # NoValue /\ e.accepted # NoValue
              /\ e.accepted >= e.completed
            BY <3>3, <3>4 DEF CheckAcceptance, MayFollow
        <3>6. /\ r.reported \in Int /\ e.started \in Int \ {NoValue}
              /\ e.completed \in Int /\ e.accepted \in Int
            BY <3>1, <3>3, <3>5, RepairsAssumption DEF RepairSchemaKept
        <3>7. e.completed >= e.started
            BY <3>3, <3>4, <3>6 DEF CheckCompletion, MayFollow
        <3>8. ~(e.started < r.reported)
            BY <3>1 DEF RepairsSilent, V13
        <3>9. e.acceptor \in {r.reporter, r.manager}
            BY <3>1, <3>3, <3>5 DEF RepairsSilent, V14
        <3> QED
            BY <3>5, <3>6, <3>7, <3>8, <3>9
    <2> QED
        BY <2>2, <2>3
<1> QED
    BY <1>1, RepairSchemaIsKept, PTL

(* A report awaits acceptance only when all work on it is over. *)
THEOREM AwaitingIsOver == RepairSpec => []AwaitingMeansWorkOver
<1>1. RepairSchemaKept => AwaitingMeansWorkOver
    <2> SUFFICES ASSUME RepairSchemaKept, RepairsSilent, NEW r \in reports,
                        r.state = Awaiting
                 PROVE  /\ \A e \in Attempts(r, executions) :
                             e.completed # NoValue /\ e.cost # NoValue
                        /\ \E e \in Attempts(r, executions) : e.result = NoValue
        BY DEF AwaitingMeansWorkOver
    <2>1. r \notin V15(reports, executions)
        BY DEF RepairsSilent
    <2>2. /\ \E e \in Attempts(r, executions) : Unaccepted(e)
          /\ ~ \E e \in Attempts(r, executions) : Unfinished(e)
        BY <2>1 DEF V15, Done, Awaiting, Opened, Refused
    <2>3. \A e \in Attempts(r, executions) : CheckCompletion(e)
        BY DEF Attempts, RepairSchemaKept, RepairSchema
    <2> QED
        BY <2>2, <2>3 DEF Unaccepted, Unfinished, CheckCompletion
<1> QED
    BY <1>1, RepairSchemaIsKept, PTL

(* Work is done by registered workers, after the report and on reports     *)
(* that have a worker, though not necessarily by that one.                 *)
THEOREM WorkIsOnAssignedReports == RepairSpec => []WorkNeedsAssignment
<1>1. RepairSchemaKept => WorkNeedsAssignment
    <2> SUFFICES ASSUME RepairSchemaKept, RepairsSilent, NEW r \in reports,
                        NEW e \in Attempts(r, executions)
                 PROVE  /\ e.worker \in Workers /\ r.reported <= e.started
                        /\ r.worker \in Workers /\ r.planned # NoValue
                        /\ r.reason = NoValue
        BY DEF WorkNeedsAssignment
    <2>1. r.state \notin {Opened, Refused}
        BY DEF RepairsSilent, V15
    <2>2. CheckReport(r) /\ ReportKeys(r)
        BY DEF RepairSchemaKept, RepairSchema
    <2>3. e \in executions /\ e.report = r.id
        BY DEF Attempts
    <2>4. ExecutionKeys(e, reports)
        BY <2>3 DEF RepairSchemaKept, RepairSchema
    <2>5. ~(e.started < r.reported)
        BY <2>3 DEF RepairsSilent, V13
    <2>6. r.reported \in Int /\ e.started \in Int
        BY <2>3, RepairsAssumption DEF RepairSchemaKept
    <2>7. r.worker \in Workers /\ r.planned # NoValue /\ r.reason = NoValue
        BY <2>1, <2>2 DEF CheckReport, ReportKeys
    <2> QED
        BY <2>4, <2>5, <2>6, <2>7 DEF ExecutionKeys
<1> QED
    BY <1>1, RepairSchemaIsKept, PTL
=============================================================================
