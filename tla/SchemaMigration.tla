---------------------------- MODULE SchemaMigration ----------------------------
(***************************************************************************)
(* apply_migrations, run by every process that opens the database: read    *)
(* PRAGMA user_version, then for each pending version run its script and   *)
(* raise user_version.  executescript commits statement by statement, and  *)
(* the pragma is a commit of its own, so a process may die, or another may *)
(* step in, between any two statements.  Every statement creates a table   *)
(* or an index and fails if that exists already.                           *)
(***************************************************************************)
EXTENDS Naturals

CONSTANTS
  Opener,       \* processes that open the database
  Versions,     \* len(MIGRATIONS)
  Statements,   \* version -> number of CREATE statements in its script
  MaxCrashes    \* bound: how often a process may die while it upgrades

Version == 1 .. Versions

ASSUME MigrationAssumption ==
  /\ Versions \in Nat
  /\ Statements \in [Version -> Nat \ {0}]
  /\ MaxCrashes \in Nat

VARIABLES
  user_version,   \* PRAGMA user_version
  created,        \* the schema objects that exist, as <<version, statement>>
  pc,             \* Opener -> "closed", "run", "bump", "open" or "failed"
  ver, stmt,      \* Opener -> the version being applied, its next statement
  crashes         \* how many times a process has died

vars == <<user_version, created, pc, ver, stmt, crashes>>

Objects(v) == {<<v, i>> : i \in 1 .. Statements[v]}
SchemaAt(n) == UNION {Objects(v) : v \in 1 .. n}

\* A new file, or one that an earlier release left at one of its versions.
Init ==
  /\ user_version \in 0 .. Versions
  /\ created = SchemaAt(user_version)
  /\ pc = [p \in Opener |-> "closed"]
  /\ ver = [p \in Opener |-> 1]
  /\ stmt = [p \in Opener |-> 1]
  /\ crashes = 0

\* Mutant of ReadVersion: the bound of the range is one too low.
ReadVersion_OffByOne(p) ==
  /\ pc[p] = "closed"
  /\ \/ /\ user_version >= Versions - 1
        /\ pc' = [pc EXCEPT ![p] = "open"]
        /\ UNCHANGED <<ver, stmt>>
     \/ /\ user_version < Versions - 1
        /\ pc' = [pc EXCEPT ![p] = "run"]
        /\ ver' = [ver EXCEPT ![p] = user_version + 1]
        /\ stmt' = [stmt EXCEPT ![p] = 1]
  /\ UNCHANGED <<user_version, created, crashes>>

\* `range(current, len(MIGRATIONS))`: nothing to do, or the first pending script.
ReadVersion(p) ==
  /\ pc[p] = "closed"
  /\ \/ /\ user_version >= Versions
        /\ pc' = [pc EXCEPT ![p] = "open"]
        /\ UNCHANGED <<ver, stmt>>
     \/ /\ user_version < Versions
        /\ pc' = [pc EXCEPT ![p] = "run"]
        /\ ver' = [ver EXCEPT ![p] = user_version + 1]
        /\ stmt' = [stmt EXCEPT ![p] = 1]
  /\ UNCHANGED <<user_version, created, crashes>>

\* Mutants of RunStatement: the script's last statement is left out; the
\* statements say IF NOT EXISTS.
RunStatement_SkipsLast(p) ==
  /\ pc[p] = "run"
  /\ <<ver[p], stmt[p]>> \notin created
  /\ created' = created \cup {<<ver[p], stmt[p]>>}
  /\ IF stmt[p] < Statements[ver[p]] - 1
     THEN stmt' = [stmt EXCEPT ![p] = @ + 1] /\ UNCHANGED pc
     ELSE pc' = [pc EXCEPT ![p] = "bump"] /\ UNCHANGED stmt
  /\ UNCHANGED <<user_version, ver, crashes>>

RunStatement_IfNotExists(p) ==
  /\ pc[p] = "run"
  /\ created' = created \cup {<<ver[p], stmt[p]>>}
  /\ IF stmt[p] < Statements[ver[p]]
     THEN stmt' = [stmt EXCEPT ![p] = @ + 1] /\ UNCHANGED pc
     ELSE pc' = [pc EXCEPT ![p] = "bump"] /\ UNCHANGED stmt
  /\ UNCHANGED <<user_version, ver, crashes>>

RunStatement(p) ==
  /\ pc[p] = "run"
  /\ <<ver[p], stmt[p]>> \notin created
  /\ created' = created \cup {<<ver[p], stmt[p]>>}
  /\ \/ /\ stmt[p] < Statements[ver[p]]
        /\ stmt' = [stmt EXCEPT ![p] = @ + 1]
        /\ UNCHANGED pc
     \/ /\ stmt[p] = Statements[ver[p]]
        /\ pc' = [pc EXCEPT ![p] = "bump"]
        /\ UNCHANGED stmt
  /\ UNCHANGED <<user_version, ver, crashes>>

\* "table ... already exists": the constructor raises OperationalError.
StatementFails(p) ==
  /\ pc[p] = "run"
  /\ <<ver[p], stmt[p]>> \in created
  /\ pc' = [pc EXCEPT ![p] = "failed"]
  /\ UNCHANGED <<user_version, created, ver, stmt, crashes>>

\* Mutants of SetVersion: the version is counted from one twice; the loop
\* over the pending scripts is left after the first.
SetVersion_OffByOne(p) ==
  /\ pc[p] = "bump"
  /\ user_version' = ver[p] + 1
  /\ pc' = [pc EXCEPT ![p] = "open"]
  /\ UNCHANGED <<created, ver, stmt, crashes>>

SetVersion_OnlyFirst(p) ==
  /\ pc[p] = "bump"
  /\ user_version' = ver[p]
  /\ pc' = [pc EXCEPT ![p] = "open"]
  /\ UNCHANGED <<created, ver, stmt, crashes>>

SetVersion(p) ==
  /\ pc[p] = "bump"
  /\ user_version' = ver[p]
  /\ \/ /\ ver[p] = Versions
        /\ pc' = [pc EXCEPT ![p] = "open"]
        /\ UNCHANGED <<ver, stmt>>
     \/ /\ ver[p] < Versions
        /\ pc' = [pc EXCEPT ![p] = "run"]
        /\ ver' = [ver EXCEPT ![p] = @ + 1]
        /\ stmt' = [stmt EXCEPT ![p] = 1]
  /\ UNCHANGED <<created, crashes>>

\* The store is closed, or the process that could not open it gives up.
Close(p) ==
  /\ pc[p] \in {"open", "failed"}
  /\ pc' = [pc EXCEPT ![p] = "closed"]
  /\ UNCHANGED <<user_version, created, ver, stmt, crashes>>

Crash(p) ==
  /\ crashes < MaxCrashes
  /\ pc[p] \in {"run", "bump"}
  /\ pc' = [pc EXCEPT ![p] = "closed"]
  /\ crashes' = crashes + 1
  /\ UNCHANGED <<user_version, created, ver, stmt>>

Upgrade(p) == RunStatement(p) \/ StatementFails(p) \/ SetVersion(p)

Next == \E p \in Opener : ReadVersion(p) \/ Upgrade(p) \/ Close(p) \/ Crash(p)

Spec == Init /\ [][Next]_vars

\* A constructor call that has begun runs to its end; nobody need open the
\* database at all.
FairSpec == Spec /\ \A p \in Opener : WF_vars(Upgrade(p))

------------------------------------------------------------------------------
TypeOK ==
  /\ user_version \in 0 .. Versions
  /\ created \subseteq SchemaAt(Versions)
  /\ pc \in [Opener -> {"closed", "run", "bump", "open", "failed"}]
  /\ ver \in [Opener -> Nat]
  /\ \A p \in Opener : pc[p] \in {"run", "bump"} => ver[p] \in Version
  /\ stmt \in [Opener -> Nat \ {0}]
  /\ \A p \in Opener : pc[p] \in {"run", "bump"} => stmt[p] <= Statements[ver[p]]
  /\ crashes \in 0 .. MaxCrashes

\* user_version never claims a script that has not run to its end, whoever
\* dies or races: a store that reads a version finds all its tables.
VersionImpliesSchema == SchemaAt(user_version) \subseteq created

\* A constructor that returns, returns a store with the current schema.
OpenMeansCurrent ==
  \A p \in Opener : pc[p] = "open" => SchemaAt(Versions) \subseteq created

\* Two processes that upgrade at once never interleave two runs of a script:
\* the second stops at the first statement.
Midway(p) == pc[p] = "bump" \/ (pc[p] = "run" /\ stmt[p] > 1)
OneUpgrader == \A p, q \in Opener : Midway(p) /\ Midway(q) => p = q

\* A late process never sets user_version back.
VersionMonotone == [][user_version' >= user_version]_vars

\* "opening an old database upgrades it in place": no open fails.
OpenUpgradesInPlace == \A p \in Opener : pc[p] # "failed"

\* Racing upgrades do not stop each other: if nobody dies, an upgrade that one
\* of them began is carried to the current version by one of them.
UpgradeCompletes ==
  \A p \in Opener : pc[p] = "run" ~> (user_version = Versions \/ crashes > 0)
==============================================================================
