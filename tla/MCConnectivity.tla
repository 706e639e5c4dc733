--------------------------- MODULE MCConnectivity ---------------------------
(* Model checking Connectivity: its constants are a number and a Boolean. *)
EXTENDS Connectivity
=============================================================================
