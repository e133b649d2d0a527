------------------------------ MODULE MCLights ------------------------------
(***************************************************************************)
(* Instances of Lights for TLC: three sources, so that one can release     *)
(* the shared texture while another uses it and a third comes later.       *)
(***************************************************************************)
EXTENDS Lights, TLC

(* Sources, casters and textures are interchangeable.                      *)
Symmetry == Permutations(Sources) \cup Permutations(Casters) \cup Permutations(Textures)
=============================================================================
