--------------------------- MODULE MCVpnSnapshot ---------------------------
(* VpnSnapshot on a small instance: three addresses of one net and one of    *)
(* another, relays that publish one or two, two feeds and the exit list.     *)
EXTENDS VpnSnapshot, FiniteSets, TLC

CONSTANTS a1, a2, a3, b1, n1, n2

MCNames == <<"ivpn", "mullvad">>

MCNetOf == a1 :> n1 @@ a2 :> n1 @@ a3 :> n1 @@ b1 :> n2

MCRelayAddrs == {s \in SUBSET Addresses : Cardinality(s) \in 1..2}

MCSymmetry == Permutations({a1, a2, a3})

=============================================================================
