---------------------------- MODULE Verification ----------------------------
(***************************************************************************)
(* verify_database (src/labdb/verify.py): one run of it, query by query,   *)
(* while others commit to the database and alter its tables.  The data is  *)
(* read from the snapshot that START TRANSACTION WITH CONSISTENT SNAPSHOT  *)
(* took; the metadata queries of validate_structure, one for each facet of *)
(* the structure, see INFORMATION_SCHEMA as it is at that moment.          *)
(***************************************************************************)
EXTENDS Naturals

CONSTANTS
    Contents,        \* what the tables may hold
    LastFacet,       \* number of metadata queries
    LastRule,        \* number of business checks
    Findings(_, _),  \* Findings(rule, content): the rows a check reports
    Nothing          \* no snapshot

Facets == 1 .. LastFacet
Rules  == 1 .. LastRule

ASSUME VerificationAssumption ==
    /\ LastFacet \in Nat /\ LastRule \in Nat
    /\ Nothing \notin Contents

VARIABLES
    content,   \* committed rows
    drifted,   \* facets of the structure that differ from the contract
    pc,        \* run: where it is
    step,      \* run: the facet or rule whose query is next
    snapshot,  \* server: what the transaction of the run reads
    found,     \* run: violations so far
    answer,    \* run: how it ended
    during,    \* what was committed at some time since the run connected
    drifts,    \* facets that differed at some time since then
    matches    \* facets that agreed at some time since then

world == <<content, drifted>>
witnessed == <<during, drifts, matches>>
run == <<pc, step, snapshot, found, answer>>
vars == <<world, run, witnessed>>

PCs == {"idle", "selecting", "beginning", "inspecting", "checking",
        "rollback", "done"}

Answers == {"none", "RESULT", "NOT_STARTED",
            "ERROR",      \* VerificationError
            "UNHANDLED"}  \* any other exception

(* Violations of the structure (S01) and of the rules (V01-V16). *)
S01(k) == [code |-> "S01", at |-> k]
V(rule, x) == [code |-> "V", at |-> rule, entity |-> x]

Reported(rule, c) == {V(rule, x) : x \in Findings(rule, c)}

AllFindings(c) == UNION {Reported(rule, c) : rule \in Rules}

TypeOK ==
    /\ content \in Contents /\ drifted \subseteq Facets
    /\ pc \in PCs /\ answer \in Answers
    /\ step \in Nat
    /\ snapshot \in Contents \cup {Nothing}
    /\ during \subseteq Contents
    /\ drifts \subseteq Facets /\ matches \subseteq Facets

Init ==
    /\ content \in Contents
    /\ drifted \in SUBSET Facets
    /\ pc = "idle" /\ step = 1
    /\ snapshot = Nothing
    /\ found = {}
    /\ answer = "none"
    /\ during = {} /\ drifts = {} /\ matches = {}

-----------------------------------------------------------------------------
(* The run ends.  finally closes its connection, which ends what           *)
(* transaction of it a failed rollback may have left on the server.        *)
Finish(how) ==
    /\ pc' = "done"
    /\ answer' = how
    /\ snapshot' = Nothing

(* The name is refused, or there is no connection. *)
NotStarted ==
    /\ pc = "idle"
    /\ Finish("NOT_STARTED")
    /\ UNCHANGED <<world, step, found, witnessed>>

Connect ==
    /\ pc = "idle"
    /\ pc' = "selecting"
    /\ during' = {content}
    /\ drifts' = drifted /\ matches' = Facets \ drifted
    /\ UNCHANGED <<world, step, snapshot, found, answer>>

SelectDatabase ==
    /\ pc = "selecting"
    /\ pc' = "beginning"
    /\ UNCHANGED <<world, step, snapshot, found, answer, witnessed>>

TakeSnapshot ==
    /\ pc = "beginning"
    /\ snapshot' = content
    /\ pc' = "inspecting"
    /\ UNCHANGED <<world, step, found, answer, witnessed>>

(* Mutant: a facet that differs is read again until it agrees. *)
InspectAgain ==
    /\ pc = "inspecting" /\ step \in Facets
    /\ step' = IF step \in drifted THEN step ELSE step + 1
    /\ UNCHANGED <<world, pc, snapshot, found, answer, witnessed>>

(* One metadata query of validate_structure and what it compares. *)
Inspect ==
    /\ pc = "inspecting" /\ step \in Facets
    /\ found' = found \cup {S01(k) : k \in {step} \cap drifted}
    /\ step' = step + 1
    /\ UNCHANGED <<world, pc, snapshot, answer, witnessed>>

(* Mutant: the business checks run on a structure that differs. *)
StructureIgnored ==
    /\ pc = "inspecting" /\ step = LastFacet + 1
    /\ pc' = "checking"
    /\ step' = 1
    /\ UNCHANGED <<world, snapshot, found, answer, witnessed>>

(* run_all_checks: the business checks run only if the structure matches. *)
Inspected ==
    /\ pc = "inspecting" /\ step = LastFacet + 1
    /\ pc' = IF found = {} THEN "checking" ELSE "rollback"
    /\ step' = 1
    /\ UNCHANGED <<world, snapshot, found, answer, witnessed>>

(* Mutant: no transaction, each query reads what is committed by then. *)
CheckCommitted ==
    /\ pc = "checking" /\ step \in Rules
    /\ found' = found \cup Reported(step, content)
    /\ step' = step + 1
    /\ UNCHANGED <<world, pc, snapshot, answer, witnessed>>

Check ==
    /\ pc = "checking" /\ step \in Rules
    /\ found' = found \cup Reported(step, snapshot)
    /\ step' = step + 1
    /\ UNCHANGED <<world, pc, snapshot, answer, witnessed>>

Checked ==
    /\ pc = "checking" /\ step = LastRule + 1
    /\ pc' = "rollback"
    /\ UNCHANGED <<world, step, snapshot, found, answer, witnessed>>

(* A statement raises (a lost connection, a timeout, a table altered since *)
(* the snapshot): rolled back if it can be, closed, and reported as an     *)
(* error, whatever was found.  An exception that is not the driver's       *)
(* escapes, unless rollback() raises in its place.                         *)
StatementFails ==
    /\ pc \in {"selecting", "beginning", "inspecting", "checking"}
    /\ \/ Finish("ERROR")
       \/ Finish("UNHANDLED")
    /\ UNCHANGED <<world, step, found, witnessed>>

RollbackReturns ==
    /\ pc = "rollback"
    /\ Finish("RESULT")
    /\ UNCHANGED <<world, step, found, witnessed>>

(* A complete list of violations is lost with the connection. *)
RollbackRaises ==
    /\ pc = "rollback"
    /\ Finish("ERROR")
    /\ UNCHANGED <<world, step, found, witnessed>>

-----------------------------------------------------------------------------
(* The others: one commits, or alters a table.  A run that has connected   *)
(* and is not over has that happen during it.                              *)
Witness ==
    /\ during' = IF pc \in {"idle", "done"} THEN during
                 ELSE during \cup {content'}
    /\ drifts' = IF pc \in {"idle", "done"} THEN drifts
                 ELSE drifts \cup drifted'
    /\ matches' = IF pc \in {"idle", "done"} THEN matches
                  ELSE matches \cup (Facets \ drifted')

Commit ==
    /\ content' \in Contents
    /\ UNCHANGED <<drifted, run>>
    /\ Witness

Alter ==
    /\ drifted' \in SUBSET Facets
    /\ UNCHANGED <<content, run>>
    /\ Witness

Proceed ==
    \/ SelectDatabase \/ TakeSnapshot
    \/ Inspect \/ Inspected \/ Check \/ Checked
    \/ RollbackReturns \/ RollbackRaises

Run == NotStarted \/ Connect \/ Proceed \/ StatementFails

Next == Run \/ Commit \/ Alter

Spec == Init /\ [][Next]_vars
=============================================================================
