---------------------------- MODULE MCPortLifecycle ----------------------------
(***************************************************************************)
(* Values for PortLifecycle: those of MCFreeRtosPort.                      *)
(***************************************************************************)
EXTENDS PortLifecycle, MCFreeRtosPort

===============================================================================
