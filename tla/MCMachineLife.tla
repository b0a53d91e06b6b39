------------------------------ MODULE MCMachineLife ------------------------------
(* Small instances of MachineLife for TLC. *)
EXTENDS MachineLife, TLC

\* No host comes before another: a create begins at any, and goes on to any it has left.
HostsAlike == Permutations(Host)
================================================================================
