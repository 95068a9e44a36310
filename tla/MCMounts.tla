------------------------------ MODULE MCMounts ------------------------------
EXTENDS Mounts, TLC
MountSymmetry == Permutations(Req) \cup Permutations(Mount)
=============================================================================
