-------------------------- MODULE MCSettingsCommit --------------------------
(***************************************************************************)
(* Instances of SettingsCommit for TLC.                                    *)
(***************************************************************************)
EXTENDS SettingsCommit

\* The two calls whose failure the saga cannot make good are reliable.
RecoverableFails == RegistryOps \ {"rollback", "clear_pending", "reconcile"}

\* Only the call named may fail.
RollbackFails == {"rollback"}
=============================================================================
