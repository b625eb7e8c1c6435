--------------------------- MODULE LegacyMigration ---------------------------
(***************************************************************************)
(* `migrate curation-state' (ops/maintainer/curation_state.py and          *)
(* git_ops.py): the curation files and refs of the older format are moved  *)
(* to an archive.  The state directory starts with such files.             *)
(*                                                                         *)
(* The command holds the transition mutex throughout and dies between any  *)
(* two of its writes; when it is run again it goes on from the pointer it  *)
(* left.  A scheduled run inspects first, then acquires the lease and      *)
(* prepares, and so writes a work record where an archived one may have    *)
(* been.  Discovery files are not touched and are left out.                *)
(***************************************************************************)
EXTENDS Naturals

CONSTANTS LegacyFiles, \* files of the older format
          MaxAttempts  \* bound on the times the command is started

ASSUME MigrationAssumption == LegacyFiles # {} /\ MaxAttempts \in Nat

Archives == 1..MaxAttempts \* archive ids; 0 is none

VARIABLES stored,   \* LegacyFiles at their place in the state directory
          legacyArchive,  \* files each archive holds
          manifest, \* files the manifest of each archive names
          pointer,  \* the archive a migration under way uses
          helpers,  \* the archive the helper refs were moved to
          marker,   \* the archive the format marker names
          migrating,\* step of the command
          attempts,
          run,      \* step of a scheduled run: idle, inspected, leased
          generations \* there is a generation document

migrationVars == <<stored, legacyArchive, manifest, pointer, helpers, marker, migrating,
                   attempts, run, generations>>

MigrationInit == /\ stored = LegacyFiles
                 /\ legacyArchive = [a \in Archives |-> {}]
                 /\ manifest = [a \in Archives |-> {}]
                 /\ pointer = 0 /\ helpers = 0 /\ marker = 0
                 /\ migrating = "idle" /\ attempts = 0
                 /\ run = "idle" /\ generations = FALSE

\* curation_state_migration_required
Required == /\ marker = 0
            /\ pointer # 0 \/ stored # {}

\* _require_no_active_lease, the format marker and the pointer
MigrateStart ==
    /\ migrating = "idle"
    /\ run # "leased"
    /\ attempts < MaxAttempts
    /\ attempts' = attempts + 1
    /\ migrating' = CASE marker # 0 -> "verify"
                      [] marker = 0 /\ pointer # 0 -> "refs"
                      [] OTHER -> "manifest"
    /\ marker = 0 => ~ generations
    /\ UNCHANGED <<stored, legacyArchive, manifest, pointer, helpers, marker, run, generations>>

WriteManifest ==
    /\ migrating = "manifest"
    /\ manifest' = [manifest EXCEPT ![attempts] = stored]
    /\ migrating' = "pointer"
    /\ UNCHANGED <<stored, legacyArchive, pointer, helpers, marker, attempts, run, generations>>

WritePointer ==
    /\ migrating = "pointer"
    /\ pointer' = attempts
    /\ migrating' = "refs"
    /\ UNCHANGED <<stored, legacyArchive, manifest, helpers, marker, attempts, run, generations>>

\* archive_legacy_curation_refs: one transaction, or what a former one has done
MoveRefs ==
    /\ migrating = "refs"
    /\ helpers \in {0, pointer}
    /\ helpers' = pointer
    /\ migrating' = "files"
    /\ UNCHANGED <<stored, legacyArchive, manifest, pointer, marker, attempts, run, generations>>

\* _archive_legacy_file: each file is at one of its two places, or it is a conflict
Movable(f) == (f \in stored) # (f \in legacyArchive[pointer])

MoveFile(f) ==
    /\ migrating = "files"
    /\ f \in manifest[pointer] \cap stored
    /\ Movable(f)
    /\ stored' = stored \ {f}
    /\ legacyArchive' = [legacyArchive EXCEPT ![pointer] = @ \cup {f}]
    /\ UNCHANGED <<manifest, pointer, helpers, marker, migrating, attempts, run, generations>>

\* Mutant: the marker does not wait for the files.
WriteMarkerEarly ==
    /\ migrating = "files"
    /\ marker' = pointer
    /\ migrating' = "unlink"
    /\ UNCHANGED <<stored, legacyArchive, manifest, pointer, helpers, attempts, run, generations>>

WriteMarker ==
    /\ migrating = "files"
    /\ manifest[pointer] \subseteq legacyArchive[pointer] \ stored
    /\ marker' = pointer
    /\ migrating' = "unlink"
    /\ UNCHANGED <<stored, legacyArchive, manifest, pointer, helpers, attempts, run, generations>>

\* run again after the marker was written
VerifyArchive ==
    /\ migrating = "verify"
    /\ manifest[marker] \subseteq legacyArchive[marker] \ stored
    /\ helpers = marker
    /\ pointer \in {0, marker}
    /\ migrating' = "unlink"
    /\ UNCHANGED <<stored, legacyArchive, manifest, pointer, helpers, marker, attempts, run,
                   generations>>

UnlinkPointer ==
    /\ migrating = "unlink"
    /\ pointer' = 0
    /\ migrating' = "idle"
    /\ UNCHANGED <<stored, legacyArchive, manifest, helpers, marker, attempts, run, generations>>

\* the command dies, or ends with a conflict
MigrateStops ==
    /\ migrating # "idle"
    /\ migrating' = "idle"
    /\ UNCHANGED <<stored, legacyArchive, manifest, pointer, helpers, marker, attempts, run,
                   generations>>

\* handle_inspect_curation, then lock acquire, which needs the mutex
RunInspects == /\ run = "idle"
               /\ ~ Required
               /\ run' = "inspected"
               /\ UNCHANGED <<stored, legacyArchive, manifest, pointer, helpers, marker, migrating,
                              attempts, generations>>

RunAcquires == /\ run = "inspected"
               /\ migrating = "idle"
               /\ run' = "leased"
               /\ UNCHANGED <<stored, legacyArchive, manifest, pointer, helpers, marker, migrating,
                              attempts, generations>>

\* prepare curation writes a work record and a generation
RunPrepares(f) == /\ run = "leased"
                  /\ stored' = stored \cup {f}
                  /\ generations' = TRUE
                  /\ run' = "idle"
                  /\ UNCHANGED <<legacyArchive, manifest, pointer, helpers, marker, migrating,
                                 attempts>>

MigrationNext == \/ MigrateStart \/ WriteManifest \/ WritePointer \/ MoveRefs
                 \/ WriteMarker \/ VerifyArchive \/ UnlinkPointer \/ MigrateStops
                 \/ RunInspects \/ RunAcquires
                 \/ \E f \in LegacyFiles : MoveFile(f) \/ RunPrepares(f)

MigrationSpec == MigrationInit /\ [][MigrationNext]_migrationVars

-----------------------------------------------------------------------------
\* Wherever the command died: nothing of the older format is lost or in two
\* places; a migration that has begun can go on; the marker is there only when
\* all of it is archived under one id; and no run takes up work before.
MigrationSafe ==
    /\ \A f \in LegacyFiles : f \in stored \/ \E a \in Archives : f \in legacyArchive[a]
    /\ ~ generations => \A f \in LegacyFiles :
                            f \in stored => \A a \in Archives : f \notin legacyArchive[a]
    /\ pointer # 0 /\ marker = 0 => /\ helpers \in {0, pointer}
                                    /\ \A f \in manifest[pointer] : Movable(f)
                                    /\ stored \subseteq manifest[pointer]
    /\ marker # 0 => legacyArchive[marker] = LegacyFiles /\ helpers = marker
    /\ generations => marker # 0
=============================================================================
