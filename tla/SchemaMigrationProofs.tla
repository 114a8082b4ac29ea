------------------------- MODULE SchemaMigrationProofs -------------------------
(***************************************************************************)
(* Proofs about SchemaMigration: any number of processes, any number of    *)
(* migrations of any length, any number of crashes.                        *)
(***************************************************************************)
EXTENDS SchemaMigration, Integers, TLAPS

------------------------------------------------------------------------------
(* The schema at a version, one version at a time. *)

LEMMA SchemaWhole ==
  ASSUME NEW n \in 0 .. Versions, NEW S
  PROVE  SchemaAt(n) \subseteq S <=>
           \A v \in 1 .. n : \A i \in 1 .. Statements[v] : <<v, i>> \in S
BY DEF SchemaAt, Objects

LEMMA StatementInSchema ==
  ASSUME NEW v \in Version, NEW i \in 1 .. Statements[v]
  PROVE  <<v, i>> \in SchemaAt(Versions)
BY DEF SchemaAt, Objects, Version

------------------------------------------------------------------------------
(***************************************************************************)
(* The inductive invariant.  An upgrader has created what its script says  *)
(* up to its next statement; user_version is never behind the version      *)
(* before the one it applies, and just there once its script is midway.    *)
(* So the first statement of a script succeeds only while nobody is midway.*)
(***************************************************************************)
Upgrading(p) == pc[p] \in {"run", "bump"}
Executed(p) == IF pc[p] = "bump" THEN 1 .. Statements[ver[p]] ELSE 1 .. (stmt[p] - 1)

ScriptSoFar == \A p \in Opener : Upgrading(p) => \A i \in Executed(p) : <<ver[p], i>> \in created
VersionKeepsUp == \A p \in Opener : Upgrading(p) => user_version >= ver[p] - 1
MidwayVersion == \A p \in Opener : Midway(p) => user_version = ver[p] - 1

IInv ==
  /\ TypeOK
  /\ VersionImpliesSchema
  /\ OpenMeansCurrent
  /\ OneUpgrader
  /\ ScriptSoFar
  /\ VersionKeepsUp
  /\ MidwayVersion

LEMMA InitInv == Init => IInv
<1> SUFFICES ASSUME Init PROVE IInv
  OBVIOUS
<1> USE DEF Init
<1>1. created \subseteq SchemaAt(Versions)
  BY MigrationAssumption DEF SchemaAt, Objects
<1>2. TypeOK
  BY <1>1, MigrationAssumption DEF TypeOK
<1>3. \A p \in Opener : pc[p] = "closed"
  OBVIOUS
<1>4. VersionImpliesSchema
  BY DEF VersionImpliesSchema
<1> QED
  BY <1>2, <1>3, <1>4
     DEF IInv, OpenMeansCurrent, OneUpgrader, ScriptSoFar, VersionKeepsUp, MidwayVersion,
         Midway, Upgrading

\* A process that is not upgrading afterwards, and touches only its own pc,
\* disturbs nothing.
LEMMA StandsAside ==
  ASSUME IInv, NEW p \in Opener,
         NEW place \in {"closed", "open", "failed"},
         place = "open" => SchemaAt(Versions) \subseteq created,
         pc' = [pc EXCEPT ![p] = place],
         UNCHANGED <<user_version, created, ver, stmt>>,
         crashes' \in 0 .. MaxCrashes
  PROVE  IInv'
<1> USE DEF IInv
<1>1. pc \in [Opener -> {"closed", "run", "bump", "open", "failed"}]
  BY DEF TypeOK
<1>2. \A q \in Opener : q # p => pc'[q] = pc[q]
  BY <1>1
<1>3. pc'[p] = place
  BY <1>1
<1>4. TypeOK'
  <2>1. pc' \in [Opener -> {"closed", "run", "bump", "open", "failed"}]
    BY <1>1
  <2> QED
    BY <2>1, <1>2, <1>3 DEF TypeOK
<1>5. VersionImpliesSchema' /\ OpenMeansCurrent'
  BY <1>2, <1>3 DEF VersionImpliesSchema, OpenMeansCurrent, SchemaAt, Objects
<1>6. OneUpgrader' /\ MidwayVersion'
  BY <1>2, <1>3 DEF OneUpgrader, MidwayVersion, Midway
<1>7. ScriptSoFar' /\ VersionKeepsUp'
  BY <1>2, <1>3 DEF ScriptSoFar, VersionKeepsUp, Upgrading, Executed
<1> QED
  BY <1>4, <1>5, <1>6, <1>7

\* A process that begins with the first statement of a script is not midway.
LEMMA StartsScript ==
  ASSUME IInv, NEW p \in Opener, NEW v \in Version,
         user_version >= v - 1,
         pc' = [pc EXCEPT ![p] = "run"],
         ver' = [ver EXCEPT ![p] = v],
         stmt' = [stmt EXCEPT ![p] = 1],
         UNCHANGED <<user_version, created, crashes>>
  PROVE  IInv'
<1> USE DEF IInv
<1>1. /\ pc \in [Opener -> {"closed", "run", "bump", "open", "failed"}]
      /\ ver \in [Opener -> Nat] /\ stmt \in [Opener -> Nat \ {0}]
  BY DEF TypeOK
<1>2. \A q \in Opener : q # p => pc'[q] = pc[q] /\ ver'[q] = ver[q] /\ stmt'[q] = stmt[q]
  BY <1>1
<1>3. pc'[p] = "run" /\ ver'[p] = v /\ stmt'[p] = 1
  BY <1>1
<1>4. TypeOK'
  <2>1. /\ pc' \in [Opener -> {"closed", "run", "bump", "open", "failed"}]
        /\ ver' \in [Opener -> Nat] /\ stmt' \in [Opener -> Nat \ {0}]
    BY <1>1, MigrationAssumption DEF Version
  <2>2. 1 <= Statements[v]
    BY MigrationAssumption
  <2> QED
    BY <2>1, <2>2, <1>2, <1>3 DEF TypeOK
<1>5. VersionImpliesSchema' /\ OpenMeansCurrent'
  BY <1>2, <1>3 DEF VersionImpliesSchema, OpenMeansCurrent, SchemaAt, Objects
<1>6. OneUpgrader' /\ MidwayVersion'
  BY <1>2, <1>3 DEF OneUpgrader, MidwayVersion, Midway
<1>7. ScriptSoFar' /\ VersionKeepsUp'
  BY <1>2, <1>3 DEF ScriptSoFar, VersionKeepsUp, Upgrading, Executed
<1> QED
  BY <1>4, <1>5, <1>6, <1>7

LEMMA ReadVersionInv ==
  ASSUME IInv, NEW p \in Opener, ReadVersion(p)
  PROVE  IInv'
<1>1. user_version \in 0 .. Versions /\ crashes \in 0 .. MaxCrashes
  BY DEF IInv, TypeOK
<1>2. CASE user_version >= Versions
  <2>1. user_version = Versions
    BY <1>1, <1>2, MigrationAssumption
  <2>2. SchemaAt(Versions) \subseteq created
    BY <2>1 DEF IInv, VersionImpliesSchema
  <2>3. /\ pc' = [pc EXCEPT ![p] = "open"]
        /\ UNCHANGED <<user_version, created, ver, stmt, crashes>>
    BY <1>2, <2>1, MigrationAssumption DEF ReadVersion
  <2> QED
    BY <2>2, <2>3, <1>1, StandsAside
<1>3. CASE user_version < Versions
  <2>1. user_version + 1 \in Version /\ user_version >= (user_version + 1) - 1
    BY <1>1, <1>3, MigrationAssumption DEF Version
  <2>2. /\ pc' = [pc EXCEPT ![p] = "run"]
        /\ ver' = [ver EXCEPT ![p] = user_version + 1]
        /\ stmt' = [stmt EXCEPT ![p] = 1]
        /\ UNCHANGED <<user_version, created, crashes>>
    BY <1>3, <1>1, MigrationAssumption DEF ReadVersion
  <2> QED
    BY <2>1, <2>2, StartsScript
<1> QED
  BY <1>1, <1>2, <1>3, MigrationAssumption

\* A statement that succeeds belongs to the first script that user_version lacks.
LEMMA StatementVersion ==
  ASSUME IInv, NEW p \in Opener, pc[p] = "run", <<ver[p], stmt[p]>> \notin created
  PROVE  user_version = ver[p] - 1
<1> USE DEF IInv
<1>1. /\ user_version \in 0 .. Versions /\ ver[p] \in Version
      /\ stmt[p] \in 1 .. Statements[ver[p]]
  BY DEF TypeOK
<1>2. user_version < ver[p]
  <2> SUFFICES ASSUME user_version >= ver[p] PROVE FALSE
    BY <1>1, MigrationAssumption DEF Version
  <2>1. ver[p] \in 1 .. user_version
    BY <1>1, MigrationAssumption DEF Version
  <2>2. <<ver[p], stmt[p]>> \in created
    BY <2>1, <1>1, SchemaWhole DEF VersionImpliesSchema
  <2> QED
    BY <2>2
<1>3. user_version = ver[p] - 1
  <2>1. user_version >= ver[p] - 1
    BY DEF VersionKeepsUp, Upgrading
  <2>2. user_version \in Int /\ ver[p] \in Int
    BY <1>1, MigrationAssumption DEF Version
  <2> QED
    BY <2>1, <2>2, <1>2
<1> QED
  BY <1>3

\* The heart of the matter: a process whose statement succeeds is alone.
LEMMA NobodyElseMidway ==
  ASSUME IInv, NEW p \in Opener, pc[p] = "run", <<ver[p], stmt[p]>> \notin created,
         NEW q \in Opener, q # p
  PROVE  ~Midway(q)
<1> USE DEF IInv
<1>1. /\ user_version \in 0 .. Versions /\ ver[p] \in Version
      /\ stmt[p] \in 1 .. Statements[ver[p]]
  BY DEF TypeOK
<1>3. user_version = ver[p] - 1
  BY StatementVersion
<1>4. ASSUME Midway(q) PROVE FALSE
  <2>1. ver[q] = ver[p]
    <3>1. user_version = ver[q] - 1 /\ ver[q] \in Version
      BY <1>4 DEF MidwayVersion, Midway, TypeOK
    <3> QED
      BY <3>1, <1>3, <1>1, MigrationAssumption DEF Version
  <2>2. ~Midway(p)
    BY <1>4 DEF OneUpgrader
  <2>3. stmt[p] = 1
    BY <2>2, <1>1, MigrationAssumption DEF Midway
  <2>4. 1 \in Executed(q)
    <3>1. CASE pc[q] = "bump"
      BY <3>1, <2>1, <1>1, MigrationAssumption DEF Executed
    <3>2. CASE pc[q] = "run" /\ stmt[q] > 1
      <4>1. stmt[q] \in Nat
        BY DEF TypeOK
      <4> QED
        BY <3>2, <4>1 DEF Executed
    <3> QED
      BY <3>1, <3>2, <1>4 DEF Midway
  <2>5. <<ver[q], 1>> \in created
    BY <2>4, <1>4 DEF ScriptSoFar, Upgrading, Midway
  <2> QED
    BY <2>5, <2>1, <2>3
<1> QED
  BY <1>4

LEMMA RunStatementInv ==
  ASSUME IInv, NEW p \in Opener, RunStatement(p)
  PROVE  IInv'
<1> USE DEF IInv
<1>1. /\ pc \in [Opener -> {"closed", "run", "bump", "open", "failed"}]
      /\ ver \in [Opener -> Nat] /\ stmt \in [Opener -> Nat \ {0}]
      /\ user_version \in 0 .. Versions
  BY DEF TypeOK
<1>2. /\ pc[p] = "run" /\ <<ver[p], stmt[p]>> \notin created
      /\ created' = created \cup {<<ver[p], stmt[p]>>}
      /\ UNCHANGED <<user_version, ver, crashes>>
  BY DEF RunStatement
<1>3. ver[p] \in Version /\ stmt[p] \in 1 .. Statements[ver[p]] /\ Statements[ver[p]] \in Nat
  BY <1>1, <1>2, MigrationAssumption DEF TypeOK
<1>4. \A q \in Opener : q # p => pc'[q] = pc[q] /\ stmt'[q] = stmt[q]
  BY <1>1 DEF RunStatement
<1>5. \/ pc'[p] = "run" /\ stmt[p] < Statements[ver[p]] /\ stmt'[p] = stmt[p] + 1
      \/ pc'[p] = "bump" /\ stmt[p] = Statements[ver[p]] /\ stmt'[p] = stmt[p]
  BY <1>1, <1>2 DEF RunStatement
<1>6. user_version = ver[p] - 1 /\ \A q \in Opener : q # p => ~Midway(q)
  BY <1>2, StatementVersion, NobodyElseMidway
<1>7. TypeOK'
  <2>1. created' \subseteq SchemaAt(Versions)
    BY <1>2, <1>3, StatementInSchema DEF TypeOK
  <2>2. pc' \in [Opener -> {"closed", "run", "bump", "open", "failed"}]
    BY <1>1 DEF RunStatement
  <2>3. stmt' \in [Opener -> Nat \ {0}]
    <3>1. stmt[p] + 1 \in Nat \ {0}
      BY <1>1
    <3> QED
      BY <3>1, <1>1 DEF RunStatement
  <2>4. \A q \in Opener : pc'[q] \in {"run", "bump"} =>
          ver[q] \in Version /\ stmt'[q] <= Statements[ver[q]]
    BY <1>2, <1>3, <1>4, <1>5 DEF TypeOK
  <2> QED
    BY <2>1, <2>2, <2>3, <2>4, <1>2 DEF TypeOK
<1>8. VersionImpliesSchema' /\ OpenMeansCurrent'
  <2>1. pc'[p] # "open"
    BY <1>5
  <2> QED
    BY <2>1, <1>2, <1>4 DEF VersionImpliesSchema, OpenMeansCurrent, SchemaAt, Objects
<1>9. OneUpgrader' /\ MidwayVersion'
  <2>1. \A q \in Opener : Midway(q)' => q = p
    BY <1>2, <1>4, <1>6 DEF Midway
  <2> QED
    BY <2>1, <1>2, <1>6 DEF OneUpgrader, MidwayVersion
<1>10. ScriptSoFar'
  <2> SUFFICES ASSUME NEW q \in Opener, Upgrading(q)', NEW i \in Executed(q)'
               PROVE  <<ver[q], i>> \in created'
    BY <1>2 DEF ScriptSoFar
  <2>1. CASE q # p
    <3>1. Upgrading(q) /\ i \in Executed(q)
      BY <2>1, <1>2, <1>4 DEF Upgrading, Executed
    <3> QED
      BY <3>1, <1>2 DEF ScriptSoFar
  <2>2. CASE q = p
    <3>1. i \in 1 .. stmt[p]
      BY <2>2, <1>1, <1>2, <1>3, <1>5 DEF Executed
    <3>2. CASE i = stmt[p]
      BY <3>2, <2>2, <1>2
    <3>3. CASE i # stmt[p]
      <4>1. i \in 1 .. (stmt[p] - 1)
        BY <3>1, <3>3, <1>1
      <4>2. i \in Executed(p) /\ Upgrading(p)
        BY <4>1, <1>2 DEF Executed, Upgrading
      <4> QED
        BY <4>2, <2>2, <1>2 DEF ScriptSoFar
    <3> QED
      BY <3>2, <3>3
  <2> QED
    BY <2>1, <2>2
<1>11. VersionKeepsUp'
  <2> SUFFICES ASSUME NEW q \in Opener, Upgrading(q)'
               PROVE  user_version >= ver[q] - 1
    BY <1>2 DEF VersionKeepsUp
  <2>1. Upgrading(q)
    BY <1>2, <1>4 DEF Upgrading
  <2> QED
    BY <2>1 DEF VersionKeepsUp
<1> QED
  BY <1>7, <1>8, <1>9, <1>10, <1>11

LEMMA SetVersionStep ==
  ASSUME IInv, NEW p \in Opener, SetVersion(p)
  PROVE  /\ user_version = ver[p] - 1 /\ user_version' = ver[p] /\ ver[p] \in Version
         /\ SchemaAt(ver[p]) \subseteq created
         /\ \A q \in Opener : q # p => ~Midway(q)
<1> USE DEF IInv
<1>1. pc[p] = "bump" /\ user_version' = ver[p]
  BY DEF SetVersion
<1>2. user_version \in 0 .. Versions /\ ver[p] \in Version
  BY <1>1 DEF TypeOK
<1>3. Midway(p)
  BY <1>1 DEF Midway
<1>4. user_version = ver[p] - 1 /\ \A q \in Opener : q # p => ~Midway(q)
  BY <1>3 DEF MidwayVersion, OneUpgrader
<1>5. ASSUME NEW v \in 1 .. ver[p], NEW i \in 1 .. Statements[v]
      PROVE  <<v, i>> \in created
  <2>1. CASE v = ver[p]
    <3>1. i \in Executed(p) /\ Upgrading(p)
      BY <2>1, <1>1 DEF Executed, Upgrading
    <3> QED
      BY <3>1, <2>1 DEF ScriptSoFar
  <2>2. CASE v # ver[p]
    <3>1. v \in 1 .. user_version
      BY <2>2, <1>2, <1>4, MigrationAssumption DEF Version
    <3> QED
      BY <3>1, <1>2, SchemaWhole DEF VersionImpliesSchema
  <2> QED
    BY <2>1, <2>2
<1>6. SchemaAt(ver[p]) \subseteq created
  <2>1. ver[p] \in 0 .. Versions
    BY <1>2, MigrationAssumption DEF Version
  <2> QED
    BY <2>1, <1>5, SchemaWhole
<1> QED
  BY <1>1, <1>2, <1>4, <1>6

LEMMA SetVersionInv ==
  ASSUME IInv, NEW p \in Opener, SetVersion(p)
  PROVE  IInv'
<1> USE DEF IInv
<1> DEFINE v == ver[p]
<1>1. /\ user_version = v - 1 /\ user_version' = v /\ v \in Version
      /\ SchemaAt(v) \subseteq created
      /\ \A q \in Opener : q # p => ~Midway(q)
  BY SetVersionStep
<1>2. /\ pc \in [Opener -> {"closed", "run", "bump", "open", "failed"}]
      /\ ver \in [Opener -> Nat] /\ stmt \in [Opener -> Nat \ {0}]
  BY DEF TypeOK
<1>3. created' = created /\ crashes' = crashes
  BY DEF SetVersion
<1>4. \A q \in Opener : q # p => pc'[q] = pc[q] /\ ver'[q] = ver[q] /\ stmt'[q] = stmt[q]
  BY <1>2 DEF SetVersion
<1>5. \/ pc'[p] = "open" /\ v = Versions
      \/ pc'[p] = "run" /\ v < Versions /\ ver'[p] = v + 1 /\ stmt'[p] = 1
  BY <1>2 DEF SetVersion
<1>6. v \in Nat /\ Versions \in Nat /\ v \in 0 .. Versions
  BY <1>1, MigrationAssumption DEF Version
<1>7. TypeOK'
  <2>1. /\ pc' \in [Opener -> {"closed", "run", "bump", "open", "failed"}]
        /\ ver' \in [Opener -> Nat] /\ stmt' \in [Opener -> Nat \ {0}]
    BY <1>2, <1>6 DEF SetVersion
  <2>2. \A q \in Opener : pc'[q] \in {"run", "bump"} =>
          ver'[q] \in Version /\ stmt'[q] <= Statements[ver'[q]]
    <3> SUFFICES ASSUME NEW q \in Opener, pc'[q] \in {"run", "bump"}
                 PROVE  ver'[q] \in Version /\ stmt'[q] <= Statements[ver'[q]]
      OBVIOUS
    <3>1. CASE q # p
      BY <3>1, <1>4 DEF TypeOK
    <3>2. CASE q = p
      <4>1. ver'[p] = v + 1 /\ stmt'[p] = 1 /\ v < Versions
        BY <3>2, <1>5
      <4>2. v + 1 \in Version
        BY <4>1, <1>6 DEF Version
      <4>3. Statements[v + 1] \in Nat \ {0}
        BY <4>2, MigrationAssumption
      <4> QED
        BY <3>2, <4>1, <4>2, <4>3
    <3> QED
      BY <3>1, <3>2
  <2> QED
    BY <2>1, <2>2, <1>1, <1>3, <1>6 DEF TypeOK
<1>8. VersionImpliesSchema' /\ OpenMeansCurrent'
  <2>1. ASSUME NEW q \in Opener, pc'[q] = "open"
        PROVE  SchemaAt(Versions) \subseteq created
    <3>1. CASE q # p
      BY <2>1, <3>1, <1>4 DEF OpenMeansCurrent
    <3>2. CASE q = p
      BY <2>1, <3>2, <1>1, <1>5
    <3> QED
      BY <3>1, <3>2
  <2> QED
    BY <2>1, <1>1, <1>3 DEF VersionImpliesSchema, OpenMeansCurrent, SchemaAt, Objects
<1>9. OneUpgrader' /\ MidwayVersion'
  <2>1. ~Midway(p)'
    BY <1>5 DEF Midway
  <2>2. \A q \in Opener : q # p => ~Midway(q)'
    BY <1>1, <1>4 DEF Midway
  <2> QED
    BY <2>1, <2>2 DEF OneUpgrader, MidwayVersion
<1>10. ScriptSoFar'
  <2> SUFFICES ASSUME NEW q \in Opener, Upgrading(q)', NEW i \in Executed(q)'
               PROVE  <<ver'[q], i>> \in created'
    BY DEF ScriptSoFar
  <2>1. CASE q # p
    <3>1. Upgrading(q) /\ i \in Executed(q)
      BY <2>1, <1>4 DEF Upgrading, Executed
    <3> QED
      BY <3>1, <2>1, <1>3, <1>4 DEF ScriptSoFar
  <2>2. CASE q = p
    BY <2>2, <1>5 DEF Upgrading, Executed
  <2> QED
    BY <2>1, <2>2
<1>11. VersionKeepsUp'
  <2> SUFFICES ASSUME NEW q \in Opener, Upgrading(q)'
               PROVE  user_version' >= ver'[q] - 1
    BY DEF VersionKeepsUp
  <2>1. CASE q # p
    <3>1. user_version >= ver[q] - 1 /\ ver[q] \in Nat
      BY <2>1, <1>2, <1>4 DEF VersionKeepsUp, Upgrading
    <3> QED
      BY <3>1, <2>1, <1>1, <1>4, <1>6
  <2>2. CASE q = p
    BY <2>2, <1>1, <1>5, <1>6 DEF Upgrading
  <2> QED
    BY <2>1, <2>2
<1> QED
  BY <1>7, <1>8, <1>9, <1>10, <1>11

LEMMA NextInv == IInv /\ [Next]_vars => IInv'
<1> SUFFICES ASSUME IInv, [Next]_vars PROVE IInv'
  OBVIOUS
<1>0. crashes \in 0 .. MaxCrashes
  BY DEF IInv, TypeOK
<1>1. ASSUME NEW p \in Opener, ReadVersion(p) PROVE IInv'
  BY <1>1, ReadVersionInv
<1>2. ASSUME NEW p \in Opener, RunStatement(p) PROVE IInv'
  BY <1>2, RunStatementInv
<1>3. ASSUME NEW p \in Opener, StatementFails(p) PROVE IInv'
  BY <1>3, <1>0, StandsAside DEF StatementFails
<1>4. ASSUME NEW p \in Opener, SetVersion(p) PROVE IInv'
  BY <1>4, SetVersionInv
<1>5. ASSUME NEW p \in Opener, Close(p) PROVE IInv'
  BY <1>5, <1>0, StandsAside DEF Close
<1>6. ASSUME NEW p \in Opener, Crash(p) PROVE IInv'
  <2>1. crashes' \in 0 .. MaxCrashes
    BY <1>6, <1>0, MigrationAssumption DEF Crash
  <2> QED
    BY <1>6, <2>1, StandsAside DEF Crash
<1>7. CASE UNCHANGED vars
  BY <1>7 DEF vars, IInv, TypeOK, VersionImpliesSchema, OpenMeansCurrent, OneUpgrader, Midway,
              ScriptSoFar, VersionKeepsUp, MidwayVersion, Upgrading, Executed, SchemaAt, Objects
<1> QED
  BY <1>1, <1>2, <1>3, <1>4, <1>5, <1>6, <1>7 DEF Next, Upgrade

LEMMA InvHolds == Spec => []IInv
<1> QED
  BY InitInv, NextInv, PTL DEF Spec

------------------------------------------------------------------------------
(* The results. *)

\* Whatever races and crashes, the migration keeps its variables in their types.
THEOREM MigrationTypeCorrect == Spec => []TypeOK
BY InvHolds, PTL DEF IInv

\* A database that claims a version holds every table and index of its scripts.
THEOREM SchemaBehindVersion == Spec => []VersionImpliesSchema
BY InvHolds, PTL DEF IInv

\* A store that was opened has the current schema.
THEOREM OpenStoreCurrent == Spec => []OpenMeansCurrent
BY InvHolds, PTL DEF IInv

\* Of all processes that open a database at once, one at most is inside a script.
THEOREM UpgraderExclusive == Spec => []OneUpgrader
BY InvHolds, PTL DEF IInv

\* No process, however late, sets user_version back.
THEOREM VersionNeverBack == Spec => VersionMonotone
<1>1. IInv /\ [Next]_vars => [user_version' >= user_version]_vars
  <2> SUFFICES ASSUME IInv, Next PROVE user_version' >= user_version
    OBVIOUS
  <2>1. user_version \in Nat
    BY MigrationAssumption DEF IInv, TypeOK
  <2>2. ASSUME NEW p \in Opener, SetVersion(p) PROVE user_version' >= user_version
    <3>1. user_version = ver[p] - 1 /\ user_version' = ver[p] /\ ver[p] \in Version
      BY <2>2, SetVersionStep
    <3> QED
      BY <3>1, MigrationAssumption DEF Version
  <2>3. CASE UNCHANGED user_version
    BY <2>1, <2>3
  <2> QED
    BY <2>2, <2>3 DEF Next, Upgrade, ReadVersion, RunStatement, StatementFails, Close, Crash
<1> QED
  BY <1>1, InvHolds, PTL DEF Spec, VersionMonotone
==============================================================================
