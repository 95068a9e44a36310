----------------------------- MODULE MCEventBus -----------------------------
(* Two topics, two publishers and one page that reconnects.                *)
EXTENDS EventBus, TLC
BusSymmetry == Permutations(Topic) \cup Permutations(Publisher)
=============================================================================
