-------------------------------- MODULE MCCopies --------------------------------
(* Copies for TLC: its bounds are given in copies.cfg and copies_sizes.cfg. *)
EXTENDS Copies
================================================================================
