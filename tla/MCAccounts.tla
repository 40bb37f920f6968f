------------------------------ MODULE MCAccounts ------------------------------
(* Requests and sessions are interchangeable.                               *)
EXTENDS Accounts, TLC

Symmetry == Permutations(Request) \union Permutations(Session)
=============================================================================
