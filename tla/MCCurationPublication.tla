------------------------ MODULE MCCurationPublication ------------------------
(* A small instance of CurationPublication: two curation runs, a pull        *)
(* request whose author has one or two heads, one or two commits of the      *)
(* maintainer.                                                               *)
EXTENDS CurationPublication, TLC

CONSTANTS r1, r2, r3, a1, a2, k1, k2

Workers == [x \in Run \cup WorkId |-> "curation"]

\* the shortest way to a reviewed head, and one with a partial discovery
Clean == {[kind |-> "discovery", discovery |-> "complete"],
          [kind |-> "reviewed", discovery |-> "none"]}
Partial == {[kind |-> "discovery", discovery |-> "partial"]}
CleanOrPartial == Clean \cup Partial

RunSymmetry == Permutations(Run)
Symmetry == RunSymmetry \cup Permutations(Author) \cup Permutations(Curated)
=============================================================================
