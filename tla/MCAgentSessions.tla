-------------------------- MODULE MCAgentSessions --------------------------
(* A connection or a browser, two requests at a time and one sweeper.  The *)
(* two kinds of clients use other keys and other ids and meet only at the  *)
(* lock and in the sweep, so they are explored one after the other.        *)
EXTENDS AgentSessions, TLC
MCBudget == (Conn :> MaxId) @@ (Browser :> MaxId - 1)
AgentSymmetry == Permutations(Call) \cup Permutations(Key)
=============================================================================
