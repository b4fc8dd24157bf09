--------------------------- MODULE MCAntiAffinity ---------------------------
(* A small instance of AntiAffinity for TLC. *)
EXTENDS AntiAffinity

Terms == {<<"user", "zone">>}
=============================================================================
