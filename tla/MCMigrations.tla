---------------------------- MODULE MCMigrations ----------------------------
(* A small instance of Migrations for TLC.                                 *)
EXTENDS Migrations

CONSTANTS c1, c2, j1, j2

TwoContents == {c1, c2}
TwoRunners == {j1, j2}
=============================================================================
