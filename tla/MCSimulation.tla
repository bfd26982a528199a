----------------------------- MODULE MCSimulation -----------------------------
(* A small instance of Simulation for TLC: two runs, as two workers.        *)
EXTENDS Simulation, TLC

CONSTANTS s1, s2, s3, r1, r2

TwoAndOne == (s1 :> r1) @@ (s2 :> r1) @@ (s3 :> r2)
===============================================================================
