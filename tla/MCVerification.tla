--------------------------- MODULE MCVerification ---------------------------
(* Instance of VerifyCommand, and Verification in it, for TLC. *)
EXTENDS VerifyCommand

CONSTANT nothing

(* States that violate one of two checks, both or none: a run whose queries *)
(* read different ones would find what none of them violates.              *)
States == {"first", "second", "both", "right"}

Wrong(rule, c) ==
    {x \in {"row"} : c = "both" \/ c = <<"first", "second">>[rule]}
=============================================================================
