--------------------------- MODULE MCRemoteCommand ---------------------------
(* Requests 1 and 3 restart the collectors, request 2 asks for the log.    *)
EXTENDS RemoteCommand

OddRestart == {n \in Request : n \in {1, 3}}
=============================================================================
