-------------------------- MODULE MCDemoExecution --------------------------
(***************************************************************************)
(* The demo executor on its own, for the promise that one lost answer      *)
(* already breaks (DemoOpenedOnce.cfg).  MCForward explores it beside the  *)
(* record and the routine.                                                 *)
(***************************************************************************)
EXTENDS DemoExecution
=============================================================================
