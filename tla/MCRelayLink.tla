------------------------------ MODULE MCRelayLink ------------------------------
(***************************************************************************)
(* RelayLink for TLC: the values are given in the cfg.                      *)
(***************************************************************************)
EXTENDS RelayLink
===============================================================================
