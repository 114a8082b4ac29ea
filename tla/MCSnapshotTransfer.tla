-------------------------- MODULE MCSnapshotTransfer --------------------------
(***************************************************************************)
(* The two ways to save a database: a behaviour transfers snapshots, or it *)
(* makes and restores backups.                                             *)
(*                                                                         *)
(* Two meetings with two memories, enough for a successor in the other     *)
(* meeting, a pair that supersede each other and one that supersedes       *)
(* itself; each memory is new or an earlier record that is written back.   *)
(* A backup holds one meeting or none.                                     *)
(***************************************************************************)
EXTENDS SnapshotTransfer, BackupRestore, TLC

CONSTANTS a, b, m1, m2, c1

MCMeetingOf == (m1 :> a) @@ (m2 :> b)

MCRecord(m, status, by) ==
  [memory_id |-> m,
   row |-> [meeting_id |-> MCMeetingOf[m], content |-> c1, status |-> status,
            superseded_by |-> by]]

MCBatch ==
  {<<MCRecord(m, "ACTIVE", NULL)>> : m \in MemoryId}
    \cup {<<MCRecord(m, "SUPERSEDED", m)>> : m \in MemoryId}
------------------------------------------------------------------------------
NoBackup ==
  /\ file = [p \in Path |-> Missing]
  /\ client = [c \in Client |-> [at |-> "closed", version |-> 0, writes |-> {}]]
  /\ op = NoOp /\ quiet = TRUE /\ deaths = 0

RecoveryInit == TransferInit /\ (NoBackup \/ BackupInit)

\* A behaviour that has begun the one does not begin the other.
RecoveryNext ==
  \/ NoBackup /\ TransferNext /\ UNCHANGED backupVars
  \/ TransferInit /\ BackupNext /\ UNCHANGED transferVars

RecoverySpec == RecoveryInit /\ [][RecoveryNext]_<<transferVars, backupVars>>
==============================================================================
