--------------------------- MODULE MCJournalStore ---------------------------
(* Two small instances of JournalStore, one chosen at the start:             *)
(*   a commit  every operation on it by two curation runs and a discovery    *)
(*             run, one work item of each worker                             *)
(*   "ci"      continuations and terminal publications of three curation     *)
(*             runs over two commits                                         *)
EXTENDS JournalStore, FiniteSets, TLC

CONSTANTS c1, c2, c3, d1, cw, dw, h1, h2

VARIABLE part

CurationRuns == {c1, c2, c3}

Workers == [x \in Run \cup WorkId |-> IF x \in CurationRuns \cup {cw} THEN "curation"
                                                                     ELSE "discovery"]

\* runs of one worker, and commits, are interchangeable
Symmetry == Permutations(CurationRuns) \cup Permutations({h1, h2})

OneHead(h) == INSTANCE JournalStore WITH Head <- {h}

PartsInit == StoreInit /\ part \in Head \cup {"ci"}

PartsNext == /\ \/ \E h \in Head : /\ part = h
                                   /\ OneHead(h)!StoreNext
                                   /\ Cardinality(used' \cap CurationRuns) <= 2
                \/ part = "ci" /\ CiNext /\ used' \subseteq CurationRuns
             /\ UNCHANGED part

PartsSpec == PartsInit /\ [][PartsNext]_<<storeVars, part>>
=============================================================================
