-------------------------- MODULE MCPackCollection --------------------------
(***************************************************************************)
(* Model-checking instance of PackCollection.  Bounds and the readers are  *)
(* set in the .cfg files: readers are model values.                        *)
(***************************************************************************)
EXTENDS PackCollection

=============================================================================
