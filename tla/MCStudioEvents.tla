--------------------------- MODULE MCStudioEvents ---------------------------
(* Values for the constants of StudioEvents. *)
EXTENDS StudioEvents

CONSTANTS s1

OneStream == {s1}
=============================================================================
