---------------------------- MODULE MCDuckingSystem ----------------------------
(***************************************************************************)
(* A small instance of DuckingSystem: one loud window triggers, a session  *)
(* has up to two steps, DUCK_CHANNEL holds two commands, so that it runs   *)
(* full, and the TV can go above and below the volume the viewer starts    *)
(* with, so that a restore can fall short, overshoot and hit both ends.    *)
(***************************************************************************)
EXTENDS DuckingSystem

MCReading == {-59, -30, -1}
================================================================================
