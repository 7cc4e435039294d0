--------------------------- MODULE MCRateLimiter ---------------------------
(* RateLimiter on small instances; clients and goroutines are interchangeable. *)
EXTENDS RateLimiter, TLC

MCSymmetry == Permutations(Callers) \cup Permutations(Clients)

=============================================================================
