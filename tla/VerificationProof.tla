-------------------------- MODULE VerificationProof --------------------------
(***************************************************************************)
(* For any rules, any data and any number of checks and facets: what a run *)
(* of verify_database finds is what the rules report of one state of its   *)
(* time, structural findings are differences of its time, and the exit     *)
(* status of the command tells no more than that.                          *)
(***************************************************************************)
EXTENDS VerifyCommand, TLAPS

(* Violations tell the facet, and structure from rules. *)
LEMMA ViolationsDiffer ==
    /\ \A j, k : S01(j) = S01(k) => j = k
    /\ \A k, rule, x : S01(k) # V(rule, x)
<1>1. ASSUME NEW j, NEW k, S01(j) = S01(k) PROVE j = k
    <2>1. S01(j).at = j /\ S01(k).at = k
        BY DEF S01
    <2> QED
        BY <1>1, <2>1
<1>2. ASSUME NEW k, NEW rule, NEW x PROVE S01(k) # V(rule, x)
    <2>1. S01(k).code = "S01" /\ V(rule, x).code = "V"
        BY DEF S01, V
    <2> QED
        BY <2>1
<1> QED
    BY <1>1, <1>2

LEMMA InitHolds == Init => IInv
BY VerificationAssumption
DEF Init, IInv, TypeOK, PCs, Answers, Progress, Answered

(* A step of the run: what it witnessed stays as it is. *)
LEMMA RunKeeps == IInv /\ Run => IInv'
<1> SUFFICES ASSUME IInv, Run PROVE IInv'
    OBVIOUS
<1> USE VerificationAssumption DEF IInv, TypeOK, PCs, Answers, Progress,
        Answered, world, witnessed, Rules, Facets
<1>1. ASSUME NEW how \in Answers \ {"RESULT", "none"}, Finish(how),
             UNCHANGED <<world, step, found, witnessed>>
      PROVE  IInv'
    BY <1>1 DEF Finish
<1>2. CASE NotStarted
    BY <1>2, <1>1 DEF NotStarted
<1>3. CASE Connect
    BY <1>3 DEF Connect
<1>4. CASE SelectDatabase
    BY <1>4 DEF SelectDatabase
<1>5. CASE TakeSnapshot
    <2>1. StructuralIn(found) = {} /\ StructuralIn(found') = {}
        BY <1>5 DEF TakeSnapshot, StructuralIn
    <2> QED
        BY <1>5, <2>1 DEF TakeSnapshot
<1>6. CASE Inspect
    <2>1. StructuralIn(found') = StructuralIn(found) \cup ({step} \cap drifted)
        BY <1>6, ViolationsDiffer DEF Inspect, StructuralIn
    <2>2. found' = {S01(k) : k \in StructuralIn(found')}
        BY <1>6, <2>1 DEF Inspect
    <2>3. /\ StructuralIn(found') \subseteq drifts \cap 1 .. step
          /\ 1 .. step \subseteq StructuralIn(found') \cup matches
        BY <1>6, <2>1 DEF Inspect
    <2> QED
        BY <1>6, <2>2, <2>3 DEF Inspect
<1>7. CASE Inspected
    <2>1. CASE found = {}
        <3>1. UNION {Reported(rule, snapshot) : rule \in 1 .. 0} = {}
            OBVIOUS
        <3>2. StructuralIn(found) = {}
            BY <2>1 DEF StructuralIn
        <3>3. Facets \subseteq matches
            BY <1>7, <3>2 DEF Inspected
        <3> QED
            BY <1>7, <2>1, <3>1, <3>3 DEF Inspected
    <2>2. CASE found # {}
        <3>1. /\ StructuralIn(found) # {}
              /\ Facets \ StructuralIn(found) \subseteq matches
            BY <1>7, <2>2 DEF Inspected
        <3>2. Whole'
            BY <1>7, <2>2, <3>1 DEF Inspected, Whole, StructuralIn
        <3> QED
            BY <1>7, <2>2, <3>2 DEF Inspected
    <2> QED
        BY <2>1, <2>2
<1>8. CASE Check
    <2>1. 1 .. step = (1 .. step - 1) \cup {step}
        BY <1>8 DEF Check
    <2>2. found' = UNION {Reported(rule, snapshot) : rule \in 1 .. step}
        BY <1>8, <2>1 DEF Check
    <2> QED
        BY <1>8, <2>2 DEF Check
<1>9. CASE Checked
    <2>1. found = AllFindings(snapshot)
        BY <1>9 DEF Checked, AllFindings
    <2>2. Whole'
        BY <1>9, <2>1 DEF Checked, Whole, AllFindings
    <2> QED
        BY <1>9, <2>2 DEF Checked
<1>10. CASE StatementFails
    BY <1>10, <1>1 DEF StatementFails
<1>11. CASE RollbackReturns
    BY <1>11 DEF RollbackReturns, Finish, Whole, StructuralIn, AllFindings
<1>12. CASE RollbackRaises
    BY <1>12, <1>1 DEF RollbackRaises
<1> QED
    BY <1>2, <1>3, <1>4, <1>5, <1>6, <1>7, <1>8, <1>9, <1>10, <1>11, <1>12
    DEF Run, Proceed

(* A step of the others: the run stays as it is and witnesses more. *)
LEMMA OthersKeep == IInv /\ (Commit \/ Alter) => IInv'
<1> SUFFICES ASSUME IInv, Commit \/ Alter PROVE IInv'
    OBVIOUS
<1> USE VerificationAssumption DEF IInv, TypeOK, Answered, run, Facets
<1>1. /\ UNCHANGED run
      /\ during \subseteq during' /\ drifts \subseteq drifts'
      /\ matches \subseteq matches'
      /\ during' \subseteq Contents
      /\ drifts' \subseteq Facets /\ matches' \subseteq Facets
      /\ content' \in Contents /\ drifted' \subseteq Facets
      /\ pc \notin {"idle", "done"} =>
           /\ content' \in during' /\ drifted' \subseteq drifts'
           /\ Facets \ drifted' \subseteq matches'
    BY DEF Commit, Alter, Witness
<1>2. StructuralIn(found') = StructuralIn(found)
    BY <1>1 DEF StructuralIn
<1>3. Progress'
    BY <1>1, <1>2 DEF Progress
<1>4. Whole => Whole'
    BY <1>1, <1>2 DEF Whole, AllFindings
<1> QED
    BY <1>1, <1>3, <1>4

THEOREM VerificationSafe == Spec => []IInv
<1>1. IInv /\ UNCHANGED vars => IInv'
    BY DEF vars, world, run, witnessed, IInv, TypeOK, Progress, Whole,
           Answered, StructuralIn, AllFindings
<1> QED
    BY InitHolds, RunKeeps, OthersKeep, <1>1, PTL DEF Spec, Next

-----------------------------------------------------------------------------
(* A result is of one moment of the run. *)
THEOREM OneMoment == Spec => []ResultIsOfOneMoment
<1>1. IInv => ResultIsOfOneMoment
    BY DEF IInv, Whole, ResultIsOfOneMoment
<1> QED
    BY <1>1, VerificationSafe, PTL

LEMMA RulesAreNotStructure ==
    ASSUME NEW c PROVE StructuralIn(AllFindings(c)) = {}
BY ViolationsDiffer DEF StructuralIn, AllFindings, Reported

(* Structural findings are differences of the time of the run. *)
THEOREM DriftIsReal == Spec => []DriftWasThere
<1>1. IInv => DriftWasThere
    <2> SUFFICES ASSUME IInv, Answered
                 PROVE  /\ StructuralIn(found) \subseteq drifts
                        /\ Facets \ StructuralIn(found) \subseteq matches
                        /\ StructuralIn(found) # {} =>
                             found = {S01(k) : k \in StructuralIn(found)}
        BY DEF DriftWasThere
    <2>1. Whole
        BY DEF IInv
    <2> QED
        BY <2>1, RulesAreNotStructure DEF Whole
<1> QED
    BY <1>1, VerificationSafe, PTL

(* If nobody alters tables, they are all the differences. *)
THEOREM QuietIsExact == Spec => []QuietStructureIsExact
<1>1. IInv /\ DriftWasThere => QuietStructureIsExact
    BY DEF IInv, TypeOK, DriftWasThere, QuietStructureIsExact, StructuralIn
<1> QED
    BY <1>1, VerificationSafe, DriftIsReal, PTL

-----------------------------------------------------------------------------
(* The inductive invariant of the command. *)
CommandInv ==
    /\ summarized \in BOOLEAN
    /\ summarized => exit \in {0, 1}
    /\ exit = 0 => Answered /\ found = {}
    /\ exit = 1 /\ summarized => Answered /\ printed = found /\ found # {}

(* A run that is over stays as it is. *)
LEMMA ResultIsFinal ==
    ASSUME [Next]_vars, pc = "done"
    PROVE  UNCHANGED <<pc, answer, found>>
BY DEF Next, vars, run, Run, Proceed, NotStarted, Connect, SelectDatabase,
       TakeSnapshot, Inspect, Inspected, Check, Checked, StatementFails,
       RollbackReturns, RollbackRaises, Commit, Alter

LEMMA CommandKeeps ==
    ASSUME CommandInv, [CommandNext]_<<vars, command>>
    PROVE  CommandInv'
<1>1. CASE [Next]_vars /\ UNCHANGED command
    <2>1. CASE pc = "done"
        BY <1>1, <2>1, ResultIsFinal DEF CommandInv, Answered, command
    <2>2. CASE pc # "done"
        BY <1>1, <2>2 DEF CommandInv, Answered, command
    <2> QED
        BY <2>1, <2>2
<1>2. CASE PrintViolation \/ ReportError \/ Escape
    BY <1>2, StatusAssumption
    DEF PrintViolation, ReportError, Escape, Over, CommandInv, Answered, vars,
        run
<1>3. CASE Summarize
    BY <1>3 DEF Summarize, Over, ResultStatus, CommandInv, Answered, vars, run
<1> QED
    BY <1>1, <1>2, <1>3 DEF CommandNext, command

(* What the exit status says holds of the database. *)
THEOREM VerifyExitIsTrue == CommandSpec => []VerifyExitAgrees
<1>1. CommandInit => Init /\ CommandInv
    <2>1. Nothing # 0 /\ Nothing # 1
        BY StatusAssumption
    <2> QED
        BY <2>1 DEF CommandInit, CommandInv
<1>2. [CommandNext]_<<vars, command>> => [Next]_vars
    BY DEF CommandNext, PrintViolation, Summarize, ReportError, Escape
<1>3. IInv /\ DriftWasThere /\ CommandInv => VerifyExitAgrees
    <2> SUFFICES ASSUME IInv, DriftWasThere, CommandInv PROVE VerifyExitAgrees
        OBVIOUS
    <2>1. exit = 0 =>
            /\ \E c \in during : AllFindings(c) = {}
            /\ Facets \subseteq matches
        BY DEF IInv, Whole, CommandInv, StructuralIn
    <2>2. exit = 1 /\ summarized =>
            \/ /\ printed = {S01(k) : k \in StructuralIn(printed)}
               /\ StructuralIn(printed) \subseteq drifts
            \/ \E c \in during : printed = AllFindings(c)
        BY DEF IInv, Whole, CommandInv, StructuralIn
    <2> QED
        BY <2>1, <2>2 DEF VerifyExitAgrees, CommandInv
<1> QED
    BY <1>1, <1>2, <1>3, CommandKeeps, VerificationSafe, DriftIsReal, PTL
    DEF CommandSpec, Spec
=============================================================================
