--------------------------------- MODULE MCDriver ---------------------------------
(* Small instances of Driver for TLC. *)
EXTENDS Driver
================================================================================
