---------------------------- MODULE BackupRestore ----------------------------
(***************************************************************************)
(* BackupManager and validate_database against clients that open the same  *)
(* path.  restore verifies, unlinks the live file, connects to a new empty *)
(* one and copies the backup into it; a client may come in between any two *)
(* of these, and a client that had the old file open keeps a file without  *)
(* a name.  SQLite's own copy is one step: it waits for writers and holds  *)
(* them off.                                                               *)
(*                                                                         *)
(* A client's constructor migrates the file it opened, here one script and *)
(* one raise of user_version at a time (SchemaMigration has the            *)
(* statements).                                                            *)
(***************************************************************************)
EXTENDS Naturals

CONSTANTS
  Client,      \* processes that open the live database
  Backup,      \* paths of backup files
  Meeting,
  Release,     \* len(MIGRATIONS)
  MaxDeaths    \* bound: how often the restoring process may die

ASSUME BackupAssumption == Release \in Nat \ {0} /\ MaxDeaths \in Nat

Live == "live"
Path == {Live} \cup Backup

\* A database: its user_version, the scripts whose objects exist, the meetings
\* committed, and whether SQLite can read it ("whole"), finds it inconsistent
\* ("damaged") or refuses it ("garbage").
Database == [version : 0 .. Release, scripts : 0 .. Release, rows : SUBSET Meeting,
             state : {"whole", "damaged", "garbage"}]
Empty == [version |-> 0, scripts |-> 0, rows |-> {}, state |-> "whole"]
Missing == [Empty EXCEPT !.state = "missing"]

VARIABLES
  file,     \* Path -> the database there
  client,   \* Client -> [at, version, writes]: its position, the version its constructor
            \* applies next, the meeting of its open transaction
  op,       \* the call of the manager: [call, path, verify, stage, before, taken]
  quiet,    \* has nobody else touched a file since that call began?
  deaths

backupVars == <<file, client, op, quiet, deaths>>

NoOp == [call |-> "none", path |-> Live, verify |-> TRUE, stage |-> "idle",
         before |-> Missing, taken |-> Missing]

BackupInit ==
  /\ file \in [Path -> {Missing}
                 \cup {[Empty EXCEPT !.version = v, !.scripts = v] : v \in 1 .. Release}]
  /\ client = [c \in Client |-> [at |-> "closed", version |-> 0, writes |-> {}]]
  /\ op = NoOp
  /\ quiet = TRUE
  /\ deaths = 0

------------------------------------------------------------------------------
(* Clients: the constructor of the store, a transaction, close *)
Becomes(c, at) == client' = [client EXCEPT ![c] = [at |-> at, version |-> 0, writes |-> {}]]
Disturb == quiet' = (quiet /\ op.call # "restore")

\* sqlite3.connect creates the file; PRAGMA user_version reads it.
OpenLive(c) ==
  /\ client[c].at = "closed"
  /\ LET found == IF file[Live] = Missing THEN Empty ELSE file[Live]
     IN  /\ file' = [file EXCEPT ![Live] = found]
         /\ IF found = file[Live] THEN UNCHANGED quiet ELSE Disturb
         /\ \/ /\ found.state = "garbage"
               /\ Becomes(c, "failed")
            \/ /\ found.state # "garbage" /\ found.version = Release
               /\ Becomes(c, "open")
            \/ /\ found.state # "garbage" /\ found.version < Release
               /\ client' = [client EXCEPT ![c] = [at |-> "script", version |-> found.version + 1,
                                                   writes |-> {}]]
  /\ UNCHANGED <<op, deaths>>

ApplyScript(c) ==
  /\ client[c].at = "script"
  /\ \/ /\ file[Live].scripts < client[c].version
        /\ file' = [file EXCEPT ![Live].scripts = client[c].version]
        /\ client' = [client EXCEPT ![c].at = "bump"]
        /\ Disturb
     \/ /\ file[Live].scripts >= client[c].version      \* table already exists
        /\ Becomes(c, "failed")
        /\ UNCHANGED <<file, quiet>>
  /\ UNCHANGED <<op, deaths>>

RaiseVersion(c) ==
  /\ client[c].at = "bump"
  /\ file' = [file EXCEPT ![Live].version = client[c].version]
  /\ \/ client[c].version = Release /\ Becomes(c, "open")
     \/ /\ client[c].version < Release
        /\ client' = [client EXCEPT ![c].at = "script", ![c].version = @ + 1]
  /\ Disturb
  /\ UNCHANGED <<op, deaths>>

\* A transaction on an unlinked file cannot begin ("readonly database").
BeginWrite(c, x) ==
  /\ \/ /\ client[c].at = "open" /\ \A d \in Client : client[d].at # "writing"
        /\ client' = [client EXCEPT ![c].at = "writing", ![c].writes = {x}]
     \/ client[c].at = "unlinked" /\ Becomes(c, "failed")
  /\ UNCHANGED <<file, op, quiet, deaths>>

\* One that had begun when the file was unlinked commits all the same, into
\* the file that nobody will open again.
CommitWrite(c) ==
  /\ \/ /\ client[c].at = "writing"
        /\ file' = [file EXCEPT ![Live].rows = @ \cup client[c].writes]
        /\ Becomes(c, "open")
        /\ Disturb
     \/ /\ client[c].at = "writing unlinked"
        /\ Becomes(c, "unlinked")
        /\ UNCHANGED <<file, quiet>>
  /\ UNCHANGED <<op, deaths>>

CloseClient(c) ==
  /\ client[c].at \in {"open", "unlinked", "failed"}
  /\ Becomes(c, "closed")
  /\ UNCHANGED <<file, op, quiet, deaths>>

\* A backup file goes bad on its medium.
DamageBackup(p) ==
  /\ file[p].state = "whole"
  /\ \E s \in {"damaged", "garbage"} : file' = [file EXCEPT ![p].state = s]
  /\ Disturb
  /\ UNCHANGED <<client, op, deaths>>

------------------------------------------------------------------------------
(* validate_database *)
\* Mutant of ReportOk: missing tables do not count.
ReportOk_IntegrityOnly(db) == db.state = "whole"

\* integrity_check says ok and both tables can be counted; it is garbage that
\* makes the PRAGMA itself raise DatabaseError.
ReportOk(db) == db.state = "whole" /\ db.scripts > 0

Raises(db) == db.state \in {"missing", "garbage"}

------------------------------------------------------------------------------
(* BackupManager *)
Stage(s) == op' = [op EXCEPT !.stage = s]

\* backup: the report is returned with the manifest whatever it says.  A file
\* that is no database is not written to; a damaged database is.  To its own
\* path the copy waits for itself for ever.
BackupTo(p) ==
  /\ op.stage = "idle"
  /\ \/ /\ Raises(file[Live]) \/ file[p].state = "garbage"
        /\ file' = [file EXCEPT ![p] = IF file[Live] = Missing \/ @ # Missing THEN @ ELSE Empty]
        /\ op' = [NoOp EXCEPT !.call = "backup", !.stage = "refused"]
     \/ /\ ~Raises(file[Live]) /\ file[p].state # "garbage"
        /\ file' = [file EXCEPT ![p] = file[Live]]
        /\ op' = [NoOp EXCEPT !.call = "backup", !.path = p,
                              !.stage = IF p = Live THEN "hangs" ELSE "done"]
  /\ UNCHANGED <<client, quiet, deaths>>

\* restore, up to the verdict on the backup.
StartRestore(p, verify) ==
  /\ op.stage = "idle"
  /\ op' = [call |-> "restore", path |-> p, verify |-> verify,
            stage |-> IF file[p] # Missing /\ (verify => ReportOk(file[p])) THEN "unlink"
                      ELSE "refused",
            before |-> file[Live], taken |-> file[p]]
  /\ quiet' = TRUE
  /\ UNCHANGED <<file, client, deaths>>

\* Upgrades under way fail at their next statement, which is a write.
Detached(at) ==
  CASE at = "open" -> "unlinked"
    [] at = "writing" -> "writing unlinked"
    [] at \in {"script", "bump"} -> "failed"
    [] OTHER -> at

UnlinkLive ==
  /\ op.stage = "unlink"
  /\ file' = [file EXCEPT ![Live] = Missing]
  /\ client' = [c \in Client |-> [client[c] EXCEPT !.at = Detached(@)]]
  /\ Stage("copy")
  /\ UNCHANGED <<quiet, deaths>>

\* From its own path, too, the copy waits for itself for ever.
CopyBackup ==
  /\ op.stage = "copy"
  /\ \A c \in Client : client[c].at # "writing"
  /\ \/ /\ op.path = Live
        /\ file' = [file EXCEPT ![Live] = IF @ = Missing THEN Empty ELSE @]
        /\ Stage("hangs")
     \/ /\ op.path # Live /\ ~Raises(file[op.path])
        /\ file' = [file EXCEPT ![Live] = file[op.path]]
        /\ Stage("validate")
     \/ /\ op.path # Live /\ Raises(file[op.path])       \* DatabaseError
        /\ file' = [file EXCEPT ![Live] = IF @ = Missing THEN Empty ELSE @]
        /\ Stage("failed")
  /\ UNCHANGED <<client, quiet, deaths>>

\* The report on the live file is returned; `ok` false is no exception.
ValidateLive ==
  /\ op.stage = "validate"
  /\ Stage(IF Raises(file[Live]) THEN "failed" ELSE "done")
  /\ UNCHANGED <<file, client, quiet, deaths>>

\* The caller goes on, or the process died and another is started.
NextOp ==
  /\ op.stage \in {"done", "refused", "failed"}
  /\ op' = NoOp
  /\ quiet' = TRUE
  /\ UNCHANGED <<file, client, deaths>>

Die ==
  /\ deaths < MaxDeaths
  /\ op.stage \in {"unlink", "copy", "validate", "hangs"}
  /\ op' = NoOp
  /\ deaths' = deaths + 1
  /\ quiet' = TRUE
  /\ UNCHANGED <<file, client>>

BackupNext ==
  \/ \E c \in Client :
       \/ OpenLive(c) \/ ApplyScript(c) \/ RaiseVersion(c)
       \/ \E x \in Meeting : BeginWrite(c, x)
       \/ CommitWrite(c) \/ CloseClient(c)
  \/ \E p \in Backup : DamageBackup(p)
  \/ \E p \in Path : BackupTo(p)
  \/ \E p \in Path, verify \in BOOLEAN : StartRestore(p, verify)
  \/ UnlinkLive \/ CopyBackup \/ ValidateLive
  \/ NextOp \/ Die

BackupSpec == BackupInit /\ [][BackupNext]_backupVars

------------------------------------------------------------------------------
\* What a restore leaves when nobody else touched a file meanwhile: refused,
\* the database it found; done, the backup whole, which a verified one had
\* tables and passed the check; and only an unverified one fails half way.
RestoreExact ==
  op.call = "restore" /\ quiet =>
    /\ op.stage \in {"unlink", "refused"} => file[Live] = op.before
    /\ op.stage = "done" => file[Live] = op.taken
    /\ op.stage = "done" /\ op.verify => file[Live].state = "whole" /\ file[Live].scripts > 0
    /\ op.stage = "failed" => ~op.verify

\* docs/backup.md, "Recommended routine": the target database is replaced
\* atomically, so the path holds the old database or the new at any time.
ReplacedAtomically ==
  op.call = "restore" /\ quiet => file[Live] \in {op.before, op.taken}
==============================================================================
