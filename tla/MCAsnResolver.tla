--------------------------- MODULE MCAsnResolver ---------------------------
(* AsnResolver on small instances: two addresses of the same AS. *)
EXTENDS AsnResolver, TLC

CONSTANTS as1

MCOriginOf == [a \in Addresses |-> as1]

MCSymmetry == Permutations(Callers) \cup Permutations(Addresses)

=============================================================================
