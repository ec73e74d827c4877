------------------------------- MODULE MCMonitor -------------------------------
(***************************************************************************)
(* Monitor with channels of two: every one of them can be empty, full and  *)
(* in between, and an audio window can be dropped while another waits.     *)
(***************************************************************************)
EXTENDS Monitor
================================================================================
