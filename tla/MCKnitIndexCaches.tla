-------------------------- MODULE MCKnitIndexCaches --------------------------
(* Instantiation of KnitIndexCaches for TLC; the constants come from the   *)
(* cfg files.                                                              *)
EXTENDS KnitIndexCaches
==============================================================================
