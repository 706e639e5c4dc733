---------------------------- MODULE MCDeviceBoot ----------------------------
(* Model checking DeviceBoot: its one constant is a number. *)
EXTENDS DeviceBoot
=============================================================================
