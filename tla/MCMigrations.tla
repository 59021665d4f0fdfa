---------------------------- MODULE MCMigrations ----------------------------
(***************************************************************************)
(* A server, a command beside it from the same image, and one from an      *)
(* image of the release before.                                            *)
(***************************************************************************)
EXTENDS Migrations, TLC

CONSTANTS serve, command, older

MCShipped == serve :> 3 @@ command :> 3 @@ older :> 2
=============================================================================
