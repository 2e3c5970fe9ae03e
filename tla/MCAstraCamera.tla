--------------------------- MODULE MCAstraCamera ---------------------------
(* A small instance of AstraCamera for TLC. *)
EXTENDS AstraCamera
=============================================================================
