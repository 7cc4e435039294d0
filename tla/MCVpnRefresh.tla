---------------------------- MODULE MCVpnRefresh ----------------------------
(* VpnRefresh on small instances; the feeds are interchangeable. *)
EXTENDS VpnRefresh, TLC

MCSymmetry == Permutations(Sources)

=============================================================================
