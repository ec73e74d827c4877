--------------------------------- MODULE MCPage ---------------------------------
(***************************************************************************)
(* Page with a parent who gives three commands, enough for two that arrive *)
(* together with a later one behind them, and for a check that is followed *)
(* by a download and another check.  Connections, timers that race with    *)
(* answers, and restarts of the firmware are not bounded.                  *)
(***************************************************************************)
EXTENDS Page
================================================================================
