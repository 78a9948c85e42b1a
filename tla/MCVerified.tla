----------------------------- MODULE MCVerified -----------------------------
(* Instance of VerifiedTransfer for TLC. *)
EXTENDS VerifiedTransfer, TLC

CONSTANTS t1, t2, e1, A, B, why, blank, nobody

(* The seed's MOVE_TEST_01 (sql/seed.sql:110), and where it left e1. *)
SeedHistory ==
    {[id |-> 0, equipment |-> e1, source |-> B, target |-> A, reason |-> why,
      time |-> 0]}

AtA == (e1 :> A)

(* There, and back. *)
ThereAndBack ==
    {[id |-> 2, equipment |-> e1, source |-> A, target |-> B, reason |-> why],
     [id |-> 1, equipment |-> e1, source |-> B, target |-> A, reason |-> why]}
=============================================================================
