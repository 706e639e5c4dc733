--------------------------- MODULE MCAssetStream ---------------------------
(* Model checking AssetStream: its constant is a number. *)
EXTENDS AssetStream
=============================================================================
