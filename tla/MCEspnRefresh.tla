--------------------------- MODULE MCEspnRefresh ---------------------------
(* One league season with one member and one paired device. *)
EXTENDS EspnRefresh
=============================================================================
