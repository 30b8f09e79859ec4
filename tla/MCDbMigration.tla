--------------------------- MODULE MCDbMigration ---------------------------
(* Instances of DbMigration for TLC. *)
EXTENDS DbMigration
=============================================================================
