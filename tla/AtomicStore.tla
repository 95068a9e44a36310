----------------------------- MODULE AtomicStore -----------------------------
(***************************************************************************)
(* What internal/store promises to whoever looks at the data dir while no  *)
(* op holds the lock: the ops take effect one at a time, each at most      *)
(* once, and each either as a whole or, when its process died or a step    *)
(* failed, up to some point of its step list (SPEC "Atomicity": no         *)
(* multi-op atomicity beyond the order of the steps, but what was cut      *)
(* short is recorded as such).                                             *)
(***************************************************************************)
EXTENDS Naturals, Sequences

CONSTANTS Op, Dir, Name, Plan, InitTree, Absent

VARIABLES
  view,    \* the data dir as of the last moment the lock was free
  effect   \* what each op has done to it: "none", "whole" or "part"

\* The tree once step s of op o has been applied to t.
StepEffect(t, s, o) ==
  CASE s.kind = "write" -> [t EXCEPT ![s.dir][s.name] = o]
    [] s.kind = "rename" ->
         [t EXCEPT ![s.to] = t[s.from], ![s.from] = [n \in Name |-> Absent]]
    [] s.kind = "remove" -> [t EXCEPT ![s.dir] = [n \in Name |-> Absent]]

\* What becomes of the tree t as the steps p are applied, in order.
Run(t, p, o) ==
  LET after[k \in 0..Len(p)] ==
        IF k = 0 THEN t ELSE StepEffect(after[k - 1], p[k], o)
  IN  after

\* A removal that is cut short leaves any of the directory's files.
CutShort(t, s) ==
  IF s.kind = "remove"
  THEN {[t EXCEPT ![s.dir] = [n \in Name |-> IF n \in kept THEN t[s.dir][n] ELSE Absent]]
          : kept \in SUBSET Name}
  ELSE {t}

Init ==
  /\ view = InitTree
  /\ effect = [o \in Op |-> "none"]

Whole(o) ==
  /\ effect[o] = "none"
  /\ \E p \in Plan : view' = Run(view, p, o)[Len(p)]
  /\ effect' = [effect EXCEPT ![o] = "whole"]

Part(o) ==
  /\ effect[o] = "none"
  /\ \E p \in Plan : \E k \in 0..(Len(p) - 1) :
       view' \in CutShort(Run(view, p, o)[k], p[k + 1])
  /\ effect' = [effect EXCEPT ![o] = "part"]

Next == \E o \in Op : Whole(o) \/ Part(o)

Spec == Init /\ [][Next]_<<view, effect>>
=============================================================================
