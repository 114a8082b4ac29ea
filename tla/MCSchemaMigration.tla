-------------------------- MODULE MCSchemaMigration --------------------------
(***************************************************************************)
(* The two migrations of migrations.py, with their 12 and 10 statements.   *)
(***************************************************************************)
EXTENDS SchemaMigration

MCStatements == <<12, 10>>
==============================================================================
