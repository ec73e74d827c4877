------------------------------ MODULE MCCryTracker ------------------------------
(***************************************************************************)
(* CryTracker with the firmware's own numbers; only the saturation of      *)
(* burst_windows is lowered, to a value the rhythm cannot tell from 255.   *)
(***************************************************************************)
EXTENDS CryTracker
================================================================================
