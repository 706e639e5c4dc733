---------------------------- MODULE MCStatusLed ----------------------------
(* Model checking StatusLed with Connectivity: a number and a Boolean. *)
EXTENDS StatusLed
=============================================================================
