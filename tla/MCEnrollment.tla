----------------------------- MODULE MCEnrollment -----------------------------
(* Two agents and one token, single-use, good for both or without a cap.      *)
EXTENDS Enrollment
=============================================================================
