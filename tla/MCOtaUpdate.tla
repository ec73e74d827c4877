----------------------------- MODULE MCOtaUpdate -----------------------------
(***************************************************************************)
(* A small instance of OtaUpdate: a partition of four pages and four       *)
(* releases newer than the built-in one.  They order their assets          *)
(* differently, one has a file that is not served, one does not fit, one   *)
(* is without the main file.                                               *)
(***************************************************************************)
EXTENDS OtaUpdate

CONSTANTS js, html, extra

MCAssets ==
    <<<<js>>, <<html, js>>, <<js, html, extra>>, <<js, html>>, <<html, extra>>>>
MCSize ==
    [r \in 1..5 |-> [f \in Files |->
        CASE r = 2 /\ f = js -> 2
          [] r = 4 -> IF f = js THEN 2 ELSE 3
          [] OTHER -> 1]]
==============================================================================
