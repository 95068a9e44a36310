------------------------------ MODULE MCPhases ------------------------------
EXTENDS Phases, TLC
PhaseSymmetry ==
  Permutations(Slot) \cup Permutations(Ticket) \cup Permutations(Name)
=============================================================================
