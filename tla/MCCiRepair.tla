----------------------------- MODULE MCCiRepair -----------------------------
EXTENDS CiRepair

CONSTANTS c1, c2, c3, cw, h0, h1, p1, p2, a1

Workers == [x \in Run \cup WorkId |-> "curation"]
=============================================================================
