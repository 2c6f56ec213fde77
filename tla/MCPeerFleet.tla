------------------------------ MODULE MCPeerFleet ------------------------------
(* Model-checking instances of PeerFleet.                                  *)
EXTENDS PeerFleet, TLC

\* Sites are alike; so are requests, and peers.
Symmetry == Permutations(Req) \cup Permutations(Peer) \cup Permutations(Site)
================================================================================
