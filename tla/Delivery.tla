------------------------------ MODULE Delivery ------------------------------
(***************************************************************************)
(* What the agent promises a collector whose item it has accepted into its *)
(* spool: the item is kept until the server holds it, and the server ends  *)
(* up holding it at least once.  Nothing is promised about a second copy,  *)
(* or about the order in which the items arrive.                           *)
(***************************************************************************)
EXTENDS Naturals

CONSTANT Item

VARIABLES
  accepted,   \* items the spool has taken responsibility for
  held,       \* accepted items the agent still keeps
  copies      \* copies the server holds: 0, 1, or 2 for "more than one"

vars == <<accepted, held, copies>>

Init ==
  /\ accepted = {}
  /\ held = {}
  /\ copies = [i \in Item |-> 0]

Accept(i) ==
  /\ i \notin accepted
  /\ accepted' = accepted \union {i}
  /\ held' = held \union {i}
  /\ UNCHANGED copies

Deliver(S) ==
  /\ S # {} /\ S \subseteq accepted
  /\ copies' = [i \in Item |->
       IF i \in S /\ copies[i] < 2 THEN copies[i] + 1 ELSE copies[i]]
  /\ UNCHANGED <<accepted, held>>

Release(S) ==
  /\ S \subseteq held
  /\ \A i \in S : copies[i] > 0
  /\ held' = held \ S
  /\ UNCHANGED <<accepted, copies>>

Next ==
  \/ \E i \in Item : Accept(i)
  \/ \E S \in SUBSET Item : Deliver(S) \/ Release(S)

Safe == Init /\ [][Next]_vars

(* An accepted item the server lacks is eventually delivered.              *)
Fairness ==
  \A i \in Item :
    WF_vars(copies[i] = 0 /\ \E S \in SUBSET Item : i \in S /\ Deliver(S))

Spec == Safe /\ Fairness

=============================================================================
