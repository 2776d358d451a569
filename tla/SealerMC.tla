------------------------------ MODULE SealerMC ------------------------------
(* Two exchanges: one with two well-formed taps, one with a malformed one. *)
(* Any of them may never be emitted or read.                               *)
EXTENDS Sealer, TLC

CONSTANTS r1, r2, t1, t2, bad

MCTapRid == t1 :> r1 @@ t2 :> r1 @@ bad :> r2

=============================================================================
