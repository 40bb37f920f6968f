---------------------------- MODULE MCScreenshots ----------------------------
(* One screenshot that may arrive twice, an administrator whose requests   *)
(* to view a viewer may approve, two instances of the server.              *)
EXTENDS Screenshots

CONSTANTS s1, alice, bob, east, west

AliceAdministers == [a \in Account |-> IF a = alice THEN "admin" ELSE "viewer"]
=============================================================================
