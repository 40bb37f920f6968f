---------------------------- MODULE MCConsentGate ----------------------------
(* Two users whose names make the same marker file, and one with his own.  *)
EXTENDS ConsentGate

CONSTANTS alice, bob, carol

MarkerName == [u \in User |-> IF u = carol THEN "carol" ELSE "a_b"]
=============================================================================
