---------------------------- MODULE MCWhoisCache ----------------------------
(* WhoisCache on small instances; goroutines and networks are interchangeable. *)
EXTENDS WhoisCache, TLC

MCSymmetry == Permutations(Callers) \cup Permutations(Keys)

=============================================================================
