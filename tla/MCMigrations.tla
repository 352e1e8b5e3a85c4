----------------------------- MODULE MCMigrations -----------------------------
(***************************************************************************)
(* An older path and one of the night of April 3rd.                        *)
(***************************************************************************)
EXTENDS Migrations
===============================================================================
