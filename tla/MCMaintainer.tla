---------------------------- MODULE MCMaintainer ----------------------------
(* Small instances of the parts of the maintainer that act alone, one of     *)
(* them chosen at the start.                                                 *)
(*   generation  three curation runs, a pull request whose author has two    *)
(*               heads, two commits of the maintainer                        *)
(*   log         two overlapping commands on two generation documents        *)
(*   migration   two legacy files, three attempts                            *)
(*   budget      two runs, budgets of two units                              *)
(*   inspection  two pull requests of two heads, three changes from outside  *)
EXTENDS CurationGeneration, GenerationLog, LegacyMigration, CiBudget, Inspection, TLC

CONSTANTS r1, r2, r3, a1, a2, k1, k2, m1, m2,
          Parts  \* the instances of this run

VARIABLE part

Workers == [x \in Run \cup WorkId |-> "curation"]

Every == [kind : {"discovery"}, discovery : {"partial", "complete", "unavailable"}]
             \cup [kind : {"delta", "reviewed"}, discovery : {"none"}]

Symmetry == Permutations(Run) \cup Permutations(Author) \cup Permutations(Curated)
                \cup Permutations(Writers)

Others(mine) ==
    /\ IF mine = "generation" THEN TRUE ELSE UNCHANGED curationVars
    /\ IF mine = "log" THEN TRUE ELSE UNCHANGED logVars
    /\ IF mine = "migration" THEN TRUE ELSE UNCHANGED migrationVars
    /\ IF mine = "budget" THEN TRUE ELSE UNCHANGED budgetVars
    /\ IF mine = "inspection" THEN TRUE ELSE UNCHANGED inspectionVars
    /\ UNCHANGED part

PartsInit == /\ part \in Parts
             /\ CurationInit /\ LogInit /\ MigrationInit /\ BudgetInit /\ InspectionInit

PartsNext == \/ part = "generation" /\ GenerationNext /\ Others(part)
             \/ part = "log" /\ LogNext /\ Others(part)
             \/ part = "migration" /\ MigrationNext /\ Others(part)
             \/ part = "budget" /\ BudgetNext /\ Others(part)
             \/ part = "inspection" /\ InspectionNext /\ Others(part)

PartsSpec ==
    PartsInit /\ [][PartsNext]_<<curationVars, logVars, migrationVars, budgetVars,
                                 inspectionVars, part>>
=============================================================================
