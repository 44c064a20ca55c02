--------------------------- MODULE MCRateLimiter ---------------------------
(***************************************************************************)
(* RateLimiter with its clients interchangeable.                           *)
(***************************************************************************)
EXTENDS RateLimiter, TLC

Symmetry == Permutations(Ips)
=============================================================================
