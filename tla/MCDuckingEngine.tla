---------------------------- MODULE MCDuckingEngine ----------------------------
(***************************************************************************)
(* A small instance of DuckingEngine.  Detection takes two loud windows,   *)
(* the hold six time units and a session three steps; the readings cover    *)
(* every band the code tells apart: near-silence, below the tripwire, and  *)
(* the gentle, standard and crisis excess over the initial tripwire.       *)
(***************************************************************************)
EXTENDS DuckingEngine

MCReading == {-59, -37, -18, -10, -1}
MCSetting == {-90, -40}
MCVolume == {7, 9}
MCElapsed == {0, 1, 2}

\* What ImplementsView assumes of the instance.
ASSUME DetectionAssumption == OneWindowIsNotEnough
================================================================================
