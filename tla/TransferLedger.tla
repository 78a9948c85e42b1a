--------------------------- MODULE TransferLedger ---------------------------
(***************************************************************************)
(* What an equipment transfer promises, with no server, lock or connection *)
(* in sight: a call either moves one piece of equipment and appends its    *)
(* history row in one indivisible step, or has no effect at all, and the   *)
(* answer its caller gets never contradicts which of the two happened.     *)
(* EquipmentTransfer implements this module (docs/design-decisions.md,     *)
(* "Equipment transfer and reconciliation").                               *)
(***************************************************************************)
EXTENDS Naturals

CONSTANTS
    Attempts,      \* the calls of transfer_equipment made in a behaviour
    LabIds,        \* laboratory numbers
    Requests,      \* the argument tuples a call may be made with
    InitLocation,  \* where each equipment row is when the calls start
    InitLabs,      \* the laboratory rows there are then
    InitHistory    \* the transfer records there are then

VARIABLES
    location,  \* current laboratory of every equipment row
    labs,      \* laboratory rows
    history,   \* transfer records
    req,       \* arguments of each call
    applied,   \* whether the call's move has become durable
    answer     \* what the caller was told, or "none"

vars == <<location, labs, history, req, applied, answer>>

(* Answers that tell the caller its call had no effect. *)
Failures ==
    {"INVALID_INPUT", "EQUIPMENT_NOT_FOUND", "TARGET_NOT_FOUND",
     "STALE_SOURCE", "SAME_SOURCE_TARGET", "TRANSFER_ID_CONFLICT",
     "TRANSACTION_ALREADY_ACTIVE", "DATABASE_ERROR"}

Unknown == "COMMIT_OUTCOME_UNKNOWN"

Init ==
    /\ location = InitLocation
    /\ labs = InitLabs
    /\ history = InitHistory
    /\ req \in [Attempts -> Requests]
    /\ applied = [a \in Attempts |-> FALSE]
    /\ answer = [a \in Attempts |-> "none"]

(* The move and its history row become durable together, from the source   *)
(* the caller named, under an unused identifier, and at most once.  Only a *)
(* caller told nothing yet, or told that the outcome is unknown, may still *)
(* see its move applied.                                                   *)
Apply(a) ==
    LET r == req[a] IN
    /\ ~applied[a]
    /\ answer[a] \in {"none", Unknown}
    /\ r.equipment \in DOMAIN location
    /\ location[r.equipment] = r.source
    /\ r.source # r.target
    /\ r.target \in labs
    /\ \A h \in history : h.id # r.id
    /\ location' = [location EXCEPT ![r.equipment] = r.target]
    /\ \E h \in history' :
         /\ h = [id |-> r.id, equipment |-> r.equipment, source |-> r.source,
                 target |-> r.target, reason |-> r.reason, time |-> h.time]
         /\ history' = history \cup {h}
    /\ applied' = [applied EXCEPT ![a] = TRUE]
    /\ UNCHANGED <<labs, req, answer>>

(* The caller is told something that agrees with what happened so far. *)
Answer(a) ==
    /\ answer[a] = "none"
    /\ \/ applied[a] /\ answer' = [answer EXCEPT ![a] = "SUCCESS"]
       \/ ~applied[a] /\ \E f \in Failures : answer' = [answer EXCEPT ![a] = f]
       \/ answer' = [answer EXCEPT ![a] = Unknown]
    /\ UNCHANGED <<location, labs, history, req, applied>>

(* Laboratories come and go, but never one that a row still names. *)
LabsChange ==
    /\ labs' \subseteq LabIds
    /\ \A e \in DOMAIN location : location[e] \in labs'
    /\ \A h \in history : {h.source, h.target} \subseteq labs'
    /\ UNCHANGED <<location, history, req, applied, answer>>

Next ==
    \/ \E a \in Attempts : Apply(a) \/ Answer(a)
    \/ LabsChange

Spec == Init /\ [][Next]_vars
=============================================================================
