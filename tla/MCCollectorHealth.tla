-------------------------- MODULE MCCollectorHealth --------------------------
(* One collector of the service and one of the session helper.             *)
EXTENDS CollectorHealth

CONSTANTS dns, screenshot
=============================================================================
