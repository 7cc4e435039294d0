----------------------------- MODULE MCTTLCache -----------------------------
(* TTLCache on small instances: three outcomes that stand for an answer with *)
(* a long TTL, a failure with a short one, and a result not to be cached.    *)
EXTENDS TTLCache, TLC

CONSTANTS answer, failure, dropped

MCTTL == [o \in Outcomes |-> CASE o = answer -> 2 [] o = failure -> 1 [] o = dropped -> 0]

MCSymmetry == Permutations(Callers) \cup Permutations(Keys)

=============================================================================
