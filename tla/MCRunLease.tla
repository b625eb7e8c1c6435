----------------------------- MODULE MCRunLease -----------------------------
(* A small instance of RunLease for TLC: two processes, two run IDs.       *)
EXTENDS RunLease

CONSTANTS p1, p2, r1, r2
=============================================================================
