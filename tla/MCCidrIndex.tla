---------------------------- MODULE MCCidrIndex ----------------------------
(* CidrIndex over addresses of Width bits, with every prefix of that family. *)
EXTENDS CidrIndex, TLC

CONSTANTS Width

MCTop == 2 ^ Width - 1

MCPrefixes ==
  UNION {{[first |-> k * 2 ^ h, last |-> (k + 1) * 2 ^ h - 1] : k \in 0..(2 ^ (Width - h) - 1)}
           : h \in 0..Width}

MCSymmetry == Permutations(Providers)

=============================================================================
