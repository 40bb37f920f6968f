-------------------------------- MODULE Gate --------------------------------
(***************************************************************************)
(* What the consent gate promises the users of one machine: a session is   *)
(* captured, or the machine watched, only once consent is on record; a     *)
(* session only if the notice was accepted as its user, and not beyond its *)
(* end; a click is recorded only for a user as whom it was made.  Users    *)
(* are told apart by the name their acceptance is kept under, no further.  *)
(* Acceptances and records are kept.  Nothing is promised about how soon a *)
(* record is made, or whose record it is that lets the machine be watched. *)
(***************************************************************************)
CONSTANTS User, NoUser, Marker

VARIABLES
  present,    \* the user whose session it is
  accepted,   \* users who accepted the notice
  clicks,     \* users with a record of a click
  attested,   \* users with a record made by an administrator
  captured,   \* the session of the present user is being captured
  watched     \* the machine is being watched

vars == <<present, accepted, clicks, attested, captured, watched>>

Init ==
  /\ present = NoUser
  /\ accepted = {} /\ clicks = {} /\ attested = {}
  /\ captured = FALSE /\ watched = FALSE

AcceptedAs(u) == \E v \in accepted : Marker[v] = Marker[u]

OnRecord == clicks \union attested # {}

Arrive(u) ==
  /\ present = NoUser
  /\ present' = u
  /\ UNCHANGED <<accepted, clicks, attested, captured, watched>>

Leave ==
  /\ present # NoUser
  /\ present' = NoUser /\ captured' = FALSE
  /\ UNCHANGED <<accepted, clicks, attested, watched>>

Accept ==
  /\ present # NoUser
  /\ accepted' = accepted \union {present}
  /\ UNCHANGED <<present, clicks, attested, captured, watched>>

Record(u) ==
  /\ AcceptedAs(u)
  /\ clicks' = clicks \union {u}
  /\ UNCHANGED <<present, accepted, attested, captured, watched>>

Attest(u) ==
  /\ attested' = attested \union {u}
  /\ UNCHANGED <<present, accepted, clicks, captured, watched>>

Capture ==
  /\ present # NoUser /\ ~captured
  /\ AcceptedAs(present) /\ OnRecord
  /\ captured' = TRUE
  /\ UNCHANGED <<present, accepted, clicks, attested, watched>>

Release ==
  /\ captured /\ captured' = FALSE
  /\ UNCHANGED <<present, accepted, clicks, attested, watched>>

Watch ==
  /\ ~watched /\ OnRecord
  /\ watched' = TRUE
  /\ UNCHANGED <<present, accepted, clicks, attested, captured>>

Rest ==
  /\ watched /\ watched' = FALSE
  /\ UNCHANGED <<present, accepted, clicks, attested, captured>>

Next ==
  \/ \E u \in User : Arrive(u) \/ Record(u) \/ Attest(u)
  \/ Leave \/ Accept \/ Capture \/ Release \/ Watch \/ Rest

Spec == Init /\ [][Next]_vars
=============================================================================
