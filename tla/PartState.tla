------------------------------ MODULE PartState ------------------------------
(* A behaviour of the parts of cofi that keep a state of their own is that  *)
(* of one part, which part names; st is its state.                          *)
VARIABLES part, st
=============================================================================
