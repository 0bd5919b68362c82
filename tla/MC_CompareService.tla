-------------------------- MODULE MC_CompareService --------------------------
(* Two slices, a kind with fractions and one without, two coordinates of   *)
(* compatibility, the values 0, 1/2 and 1.                                 *)
EXTENDS CompareService
MCValues == 0..2
=============================================================================
