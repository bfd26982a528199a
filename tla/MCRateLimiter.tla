---------------------------- MODULE MCRateLimiter ----------------------------
(* A small instance of RateLimiter for TLC; the requests are interchangeable. *)
EXTENDS RateLimiter, TLC

RequestSymmetry == Permutations(Requests)
===============================================================================
