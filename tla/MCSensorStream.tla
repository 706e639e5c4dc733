--------------------------- MODULE MCSensorStream ---------------------------
(* Model checking SensorStream: its constants are numbers. *)
EXTENDS SensorStream
=============================================================================
