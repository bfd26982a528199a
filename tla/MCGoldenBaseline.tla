--------------------------- MODULE MCGoldenBaseline ---------------------------
(* The instances of GoldenBaseline for TLC are given by their configurations. *)
EXTENDS GoldenBaseline
===============================================================================
