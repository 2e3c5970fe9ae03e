------------------------------ MODULE MCMapClick ------------------------------
(* The bounds of MapClick are numbers: its cfg gives them directly. *)
EXTENDS MapClick
=============================================================================
