-------------------------------- MODULE MCTvLink --------------------------------
(***************************************************************************)
(* A small instance of TvLink: the device starts with a TV that keeps a    *)
(* WebSocket open, and the viewer changes to another of any brand, picks   *)
(* the same again, or disconnects it.                                      *)
(***************************************************************************)
EXTENDS TvLink

CONSTANTS a, b

MCStored == {[ip |-> a, brand |-> "Samsung"], [ip |-> a, brand |-> "Lg"]}
MCChoice == MCStored \cup {[ip |-> b, brand |-> brand] : brand \in TvBrand}
================================================================================
