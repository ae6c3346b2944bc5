------------------------------ MODULE MCContainer ------------------------------
(* Two starts of one of the two services in one process, with a container   *)
(* left over from either image.                                             *)
EXTENDS CamoufoxContainer, TLC

Interchangeable == Permutations(Starts)
=============================================================================
