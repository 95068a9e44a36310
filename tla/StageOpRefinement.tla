-------------------------- MODULE StageOpRefinement --------------------------
(***************************************************************************)
(* The staged mutation implements AtomicStore.  A history variable keeps   *)
(* the data dir as it was when the current holder took the lock.           *)
(***************************************************************************)
EXTENDS StageOp

VARIABLE base   \* the data dir when the lock was last free

RInit == Init /\ base = InitTree
RNext == Next /\ base' = IF flock' = None THEN tree' ELSE base
RSpec == RInit /\ [][RNext]_<<vars, base>> /\ PollFairness /\ HolderFairness

\* What op o has done, judged when it no longer runs.
Effect(o) ==
  IF status[o] \notin Ended THEN "none"
  ELSE IF plan[o] # <<>> /\ applied[o] = Len(plan[o]) THEN "whole"
  ELSE IF o \in dirty THEN "part"
  ELSE "none"

Abstract == INSTANCE AtomicStore WITH
  view <- base,
  effect <- [o \in Op |-> Effect(o)]

(* Ops are serialised by the lock: seen between lock holders, the data dir *)
(* moves by one whole step list at a time, or by part of one whose op is   *)
(* over without having completed (stage.go Commit, lock.go withLock).      *)
ImplementsAtomicStore == Abstract!Spec
=============================================================================
