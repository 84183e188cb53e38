--------------------------- MODULE MCMediaServer ---------------------------
(* MediaServer for TLC: peers, user names and addresses are interchangeable. *)
EXTENDS MediaServer, TLC

Symmetry ==
    Permutations(Peers) \cup Permutations(Ufrags) \cup Permutations(Addrs)
=============================================================================
