---------------------------- MODULE MCMediaServers ----------------------------
(* Instances of MediaServers for TLC. *)
EXTENDS MediaServers, TLC

(* Objects, sessions and identities are interchangeable. *)
Symmetry ==
  Permutations(VideoConns) \cup Permutations(GpsConns)
    \cup Permutations(Sessions) \cup Permutations(Ids)
===============================================================================
