----------------------- MODULE VerificationProperties -----------------------
(***************************************************************************)
(* What the result of verify_database says about the database, stated over *)
(* Verification.                                                           *)
(***************************************************************************)
EXTENDS Verification

Answered == pc = "done" /\ answer = "RESULT"

StructuralIn(report) == {k \in Facets : S01(k) \in report}

(* Whoever commits between two of the sixteen queries, the result without  *)
(* structural findings is the complete list of what all the rules report   *)
(* of one and the same state of the data, committed while the run was      *)
(* under way (verify.py:107, 89-93); a query that failed never shortens it *)
(* (verify.py:112-117).  In particular, a result without findings means    *)
(* that there was such a state without any.                                *)
ResultIsOfOneMoment ==
    Answered /\ StructuralIn(found) = {} =>
        \E c \in during : found = AllFindings(c)

(* Whoever alters tables between the metadata queries, every S01 names a   *)
(* difference there was during the run, a facet that is not named agreed   *)
(* at some time during it, and rule findings are never mixed with S01      *)
(* (verify.py:96-98, initialize.py:176-338).                               *)
DriftWasThere ==
    Answered =>
        /\ StructuralIn(found) \subseteq drifts
        /\ Facets \ StructuralIn(found) \subseteq matches
        /\ StructuralIn(found) # {} => found = {S01(k) : k \in StructuralIn(found)}

(* If nobody alters tables, the result names exactly what differs.         *)
QuietStructureIsExact ==
    Answered /\ drifts \cap matches = {} => StructuralIn(found) = drifts

(* A run that has connected ends, under Fairness, whatever is committed or *)
(* altered meanwhile.                                                      *)
RunEnds == pc # "idle" ~> pc = "done"

-----------------------------------------------------------------------------
(* The inductive invariant: the snapshot is of a moment of the run, and    *)
(* found is what the queries so far report.                                *)
Progress ==
    /\ pc \in {"inspecting", "checking"} => snapshot \in during
    /\ pc \in {"idle", "selecting", "beginning"} => found = {} /\ step = 1
    /\ pc = "inspecting" =>
         /\ step \in 1 .. LastFacet + 1
         /\ found = {S01(k) : k \in StructuralIn(found)}
         /\ StructuralIn(found) \subseteq drifts \cap 1 .. step - 1
         /\ 1 .. step - 1 \subseteq StructuralIn(found) \cup matches
    /\ pc = "checking" =>
         /\ step \in 1 .. LastRule + 1
         /\ found = UNION {Reported(rule, snapshot) : rule \in 1 .. step - 1}
         /\ Facets \subseteq matches

Whole ==
    \/ /\ \E c \in during : found = AllFindings(c)
       /\ Facets \subseteq matches
    \/ /\ StructuralIn(found) # {}
       /\ found = {S01(k) : k \in StructuralIn(found)}
       /\ StructuralIn(found) \subseteq drifts
       /\ Facets \ StructuralIn(found) \subseteq matches

IInv ==
    /\ TypeOK
    /\ Progress
    /\ pc = "rollback" \/ Answered => Whole
    /\ pc \notin {"idle", "done"} =>
         /\ content \in during
         /\ drifted \subseteq drifts /\ Facets \ drifted \subseteq matches
=============================================================================
