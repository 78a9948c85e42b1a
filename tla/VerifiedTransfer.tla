-------------------------- MODULE VerifiedTransfer --------------------------
(***************************************************************************)
(* verify_database running beside concurrent transfers, those that the     *)
(* transfer command makes and those of other callers: TransferCommand and  *)
(* Verification on one database.  The transfers are the writers of         *)
(* Verification: a COMMIT of theirs changes what it reads.  Its one rule   *)
(* here is V16, the one on the tables that transfers change.               *)
(***************************************************************************)
EXTENDS TransferCommand

CONSTANT Nothing  \* no snapshot

(* What the run reads: equipment locations and transfer records. *)
Contents == [Equipment -> LabIds] \X SUBSET Records

ASSUME NothingAssumption == Nothing \notin Contents

(* Mutant: the first record. *)
V16First(rule, c) ==
    {m.id : m \in {m \in c[2] :
        /\ \A n \in c[2] : n.equipment = m.equipment => ~Follows(m, n)
        /\ c[1][m.equipment] # m.target}}

(* V16: records that no other record of their equipment follows, and that  *)
(* do not name its place.                                                  *)
V16(rule, c) ==
    {m.id : m \in {m \in c[2] :
        /\ \A n \in c[2] : n.equipment = m.equipment => ~Follows(n, m)
        /\ c[1][m.equipment] # m.target}}

VARIABLES vpc, vstep, snapshot, found, vanswer, during, drifted, drifts,
          matches

verifier == <<vpc, vstep, snapshot, found, vanswer, during, drifted, drifts,
              matches>>

Verifier == INSTANCE VerificationProperties WITH
    LastFacet <- 1, LastRule <- 1, Findings <- V16,
    content <- <<location, history>>,
    pc <- vpc, step <- vstep, answer <- vanswer

VerifiedInit ==
    /\ CommandInit
    /\ Verifier!Init
    /\ drifted = {}

(* A step of the transfers, seen by the run; the tables stay as they are. *)
TransferStep ==
    /\ CommandNext
    /\ UNCHANGED <<vpc, vstep, snapshot, found, vanswer, drifted>>
    /\ Verifier!Witness

VerifyStep == UNCHANGED <<vars, command>> /\ Verifier!Run

VerifiedNext == TransferStep \/ VerifyStep

VerifiedSpec == VerifiedInit /\ [][VerifiedNext]_<<vars, command, verifier>>

-----------------------------------------------------------------------------
(* Transfers in progress, crashed or half done never look like a broken    *)
(* V16 to a verification beside them, as long as clocks agree              *)
(* (verify.py:107, 69-70; transactions.py:208).                            *)
NoFalseAlarm ==
    ClockSkew = 0 /\ Verifier!Answered => found = {}

-----------------------------------------------------------------------------
(* The inductive invariant, beside IInv of the transfers. *)
Unalarmed ==
    /\ drifted = {}
    /\ ClockSkew = 0 =>
         /\ vpc \in {"inspecting", "checking"} => V16(1, snapshot) = {}
         /\ found = {}
=============================================================================
