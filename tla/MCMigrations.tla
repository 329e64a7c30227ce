----------------------------- MODULE MCMigrations -----------------------------
(* Instances of Migrations for TLC. *)
EXTENDS Migrations, TLC

(* Three releases of the directory: two files, a third one added, and the  *)
(* second one edited; and a branch that lacks the second file.             *)
Releases == {<<"a", "a", Absent>>, <<"a", "a", "a">>, <<"a", "b", "a">>, <<"a", Absent, "a">>}

(* Hosts are interchangeable. *)
Symmetric == Permutations(Runners)
=============================================================================
