---------------------------- MODULE MCLivePages ----------------------------
(* One agent and one browser: LivePages on a small instance.               *)
EXTENDS LivePages
CONSTANTS a1, b1
MCAgent == {a1}
MCBrowser == {b1}
=============================================================================
