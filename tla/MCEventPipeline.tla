--------------------------- MODULE MCEventPipeline ---------------------------
(* A service and a session helper.  The helper takes one screenshot; the   *)
(* service's collectors produce the other events.                          *)
EXTENDS EventPipelineProofs, TLC

CONSTANTS service, helper, e1, e2, s1

OneShotOwner  == (e1 :> service @@ e2 :> service @@ s1 :> helper)
=============================================================================
