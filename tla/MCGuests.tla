------------------------------- MODULE MCGuests -------------------------------
(* Guests alone, for the run that shows how a machine is left with no key. *)
EXTENDS Guests

GuestSpec == GuestInit /\ [][GuestNext]_guestVars
===============================================================================
