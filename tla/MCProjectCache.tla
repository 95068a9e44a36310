---------------------------- MODULE MCProjectCache ----------------------------
(* Two requests of one process and one update elsewhere.  The view leaves  *)
(* out what LoadedProjects hold that nobody refers to any more: it is      *)
(* overwritten when the object is used again.                              *)
EXTENDS ProjectCache, TLC

CacheSymmetry == Permutations(Req) \cup Permutations(Load)

Live == {l \in Load : l = loaded \/ \E r \in Req : lp[r] = l}
LiveView ==
  <<store, requests, asker, held, via, between, loaded, lock,
    [l \in Live |-> <<data[l], watch[l], l \in stale, l \in event, l \in missed>>]>>
=============================================================================
