--------------------------- MODULE MCInverterLink ---------------------------
(* Two ids that si_read needs and one that it only asks for. *)
EXTENDS InverterLink
=============================================================================
