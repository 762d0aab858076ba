----------------------------- MODULE MCMigrator -----------------------------
(***************************************************************************)
(* Small instances of Migrator: two jobs of one release and one of the     *)
(* release before it, three migrations of which the first creates tables. *)
(***************************************************************************)
EXTENDS Migrator

MCFiles == <<"0001_init", "0002_aws", "0003_remediation">>

MCRelease  == [a |-> 3, b |-> 3, c |-> 2]
MCAttempts == [a |-> 6, b |-> 2, c |-> 1]
=============================================================================
