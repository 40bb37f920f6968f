------------------------------ MODULE MCUpdater -------------------------------
(* Release 3 was built without its version: the one in it, 0, is lower and is  *)
(* not a number. An agent that installs it falls behind, tries it again, and   *)
(* takes any other release for a newer one.                                    *)
EXTENDS Updater

BuiltIn == [n \in Release |-> IF n = 3 THEN 0 ELSE n]
=============================================================================
