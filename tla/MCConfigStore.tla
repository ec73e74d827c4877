---------------------------- MODULE MCConfigStore ----------------------------
(***************************************************************************)
(* A small instance of ConfigStore: a network, a compiled-in TV, another   *)
(* one whose token does not fit the block and what is left of it, levels   *)
(* that can be loaded again and levels that cannot, and room for two       *)
(* requests.                                                               *)
(***************************************************************************)
EXTENDS ConfigStore

CONSTANTS longToken, cutToken

MCFitted ==
    [v \in Credentials \cup TvConfig |-> IF v = longToken THEN cutToken ELSE v]
================================================================================
