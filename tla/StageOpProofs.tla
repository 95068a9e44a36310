---------------------------- MODULE StageOpProofs ----------------------------
(***************************************************************************)
(* The staged mutation, for any number of ops, directories, files and      *)
(* plans: type correctness, mutual exclusion under the flock, no effect    *)
(* before the lock, legible recovery, the refinement of AtomicStore, and   *)
(* the git head that keeps up with the data dir.                           *)
(* The steps of AtomicStore are given by Run, which applies a plan one     *)
(* step after the other; the invariant that carries the refinement says    *)
(* where in its Run the holder of the lock has come.                       *)
(***************************************************************************)
EXTENDS StageOpRefinement, TLAPS, NaturalsInduction, WellFoundedInduction

(***************************************************************************)
(* The strengthening.  Progress ties an op's counters to its status;       *)
(* Residue says which ops still own a staging dir: a crash may come at any *)
(* point, so for a crashed op it depends on how far Commit had come.       *)
(***************************************************************************)
Progress ==
  \A o \in Op :
    /\ declared[o] <= Len(plan[o])
    /\ applied[o] <= declared[o]
    /\ status[o] \in Fresh \cup {"open", "refused", "aborted"} \cup Waiting
         => applied[o] = 0
    /\ status[o] = "idle" => declared[o] = 0
    /\ status[o] \in Waiting \cup Holding => declared[o] = Len(plan[o])
    /\ status[o] \in {"clean", "git", "done", "ungit"} => applied[o] = Len(plan[o])
    /\ o \in dirty => declared[o] = Len(plan[o])

Residue ==
  \A o \in Op :
    \/ status[o] \in {"idle", "aborted"}
    \/ o \in staging
    \/ applied[o] = declared[o] /\ declared[o] = Len(plan[o])

StagedFiles ==
  \A o \in Op : status[o] # "aborted" =>
    \A i \in 1..Len(plan[o]) :
      (applied[o] < i /\ i <= declared[o] /\ plan[o][i].kind = "write")
        => i \in staged[o]

IInv ==
  /\ TypeOK
  /\ LockExact
  /\ NoEffectBeforeLock
  /\ Progress
  /\ Residue
  /\ StagedFiles

-----------------------------------------------------------------------------
(* Every op's plan is a sequence of steps, whose length is a number.       *)
LEMMA PlanType ==
  ASSUME TypeOK, NEW o \in Op
  PROVE  /\ plan[o] \in Seq(Step)
         /\ Len(plan[o]) \in Nat
         /\ \A i \in 1..Len(plan[o]) : plan[o][i] \in Step
<1>1. <<>> \in Seq(Step)
  OBVIOUS
<1>2. plan[o] \in Seq(Step)
  BY <1>1, PlanAssumption DEF TypeOK
<1>3. QED
  BY <1>2

(* The step Commit is at is one of the declared steps of its plan.         *)
LEMMA CurrentType ==
  ASSUME TypeOK, NEW o \in Op, Applying(o)
  PROVE  /\ Current(o) \in Step
         /\ Current(o).kind \in {"write", "rename", "remove"}
         /\ Current(o).kind = "write" => Current(o) \in WriteStep
         /\ Current(o).kind = "rename" => Current(o) \in RenameStep
         /\ Current(o).kind = "remove" => Current(o) \in RemoveStep
<1>1. applied[o] + 1 \in 1..Len(plan[o])
  BY PlanType DEF Applying, TypeOK
<1>2. Current(o) \in Step
  BY <1>1, PlanType DEF Current
<1>3. QED
  BY <1>2 DEF Step, WriteStep, RenameStep, RemoveStep

(* Type correctness of the tree after each kind of step.                   *)
LEMMA TreeAfterStep ==
  ASSUME TypeOK, NEW o \in Op
  PROVE  /\ ApplyWrite(o) => tree' \in Tree
         /\ ApplyRename(o) => tree' \in Tree
         /\ ApplyRemoveOne(o) => tree' \in Tree
<1>1. tree \in Tree
  BY DEF TypeOK
<1>2. ASSUME ApplyWrite(o) PROVE tree' \in Tree
  <2>1. Current(o) \in WriteStep
    BY <1>2, CurrentType DEF ApplyWrite
  <2>2. Current(o).dir \in Dir /\ Current(o).name \in Name
    BY <2>1 DEF WriteStep
  <2>3. QED
    BY <1>1, <1>2, <2>2 DEF ApplyWrite, Tree
<1>3. ASSUME ApplyRename(o) PROVE tree' \in Tree
  <2>1. Current(o) \in RenameStep
    BY <1>3, CurrentType DEF ApplyRename
  <2>2. Current(o).from \in Dir /\ Current(o).to \in Dir
    BY <2>1 DEF RenameStep
  <2>3. tree[Current(o).from] \in [Name -> Op \cup {"init", Absent}]
    BY <1>1, <2>2 DEF Tree
  <2>4. EmptyDir \in [Name -> Op \cup {"init", Absent}]
    BY DEF EmptyDir
  <2>5. QED
    BY <1>1, <1>3, <2>2, <2>3, <2>4 DEF ApplyRename, Tree
<1>4. ASSUME ApplyRemoveOne(o) PROVE tree' \in Tree
  <2>1. Current(o) \in RemoveStep
    BY <1>4, CurrentType DEF ApplyRemoveOne
  <2>2. Current(o).dir \in Dir
    BY <2>1 DEF RemoveStep
  <2>3. QED
    BY <1>1, <1>4, <2>2 DEF ApplyRemoveOne, Tree
<1>5. QED
  BY <1>2, <1>3, <1>4

(* Staging paths for a commit keeps the git index a tree.                  *)
LEMMA AddPathsType ==
  ASSUME TypeOK, NEW s
  PROVE  AddPaths(s) \in Tree
BY DEF TypeOK, AddPaths, Tree
-----------------------------------------------------------------------------
(* Every action preserves the types.                                       *)
LEMMA TypeStep ==
  ASSUME TypeOK, [Next]_vars
  PROVE  TypeOK'
<1> USE DEF TypeOK, Status, Fresh, Waiting, Holding, Ended
<1>1. CASE UNCHANGED vars
  BY <1>1 DEF vars
<1>2. ASSUME NEW o \in Op, Prepare(o)
      PROVE  TypeOK'
  <2>1. CASE BeginOp(o)
    BY <2>1 DEF BeginOp, gitVars
  <2>2. CASE Declare(o)
    BY <2>2 DEF Declare, gitVars
  <2>3. CASE Abort(o)
    BY <2>3 DEF Abort, gitVars
  <2>4. CASE Commit(o)
    BY <2>4 DEF Commit, gitVars
  <2>5. QED
    BY <1>2, <2>1, <2>2, <2>3, <2>4 DEF Prepare
<1>3. ASSUME NEW o \in Op, Poll(o)
      PROVE  TypeOK'
  BY <1>3 DEF Poll, TryLock, Retry, GiveUp, gitVars
<1>4. ASSUME NEW o \in Op, Apply(o)
      PROVE  TypeOK'
  <2>1. CASE ApplyWrite(o)
    <3>1. tree' \in Tree
      BY <2>1, TreeAfterStep
    <3>2. QED
      BY <2>1, <3>1 DEF ApplyWrite, Advance, gitVars
  <2>2. CASE ApplyRename(o)
    <3>1. tree' \in Tree
      BY <2>2, TreeAfterStep
    <3>2. QED
      BY <2>2, <3>1 DEF ApplyRename, Advance, gitVars
  <2>3. CASE ApplyRemoveOne(o)
    <3>1. tree' \in Tree
      BY <2>3, TreeAfterStep
    <3>2. QED
      BY <2>3, <3>1 DEF ApplyRemoveOne, gitVars
  <2>4. CASE ApplyRemoveDone(o)
    BY <2>4 DEF ApplyRemoveDone, Advance, gitVars
  <2>5. CASE ApplyFail(o)
    BY <2>5 DEF ApplyFail, gitVars
  <2>6. CASE AppliedAll(o)
    BY <2>6 DEF AppliedAll, gitVars
  <2>7. CASE CleanUp(o)
    BY <2>7 DEF CleanUp, gitVars
  <2>8. QED
    BY <1>4, <2>4, <2>5, <2>6, <2>7, <2>1, <2>2, <2>3 DEF Apply
<1>5. ASSUME NEW o \in Op, Git(o)
      PROVE  TypeOK'
  <2>1. CASE GitAdd(o)
    <3>1. index' \in Tree
      BY <2>1, AddPathsType DEF GitAdd
    <3>2. QED
      BY <2>1, <3>1 DEF GitAdd, storeVars
  <2>2. CASE GitDone(o)
    BY <2>2 DEF GitDone
  <2>3. CASE GitFail(o)
    BY <2>3 DEF GitFail, gitVars
  <2>4. QED
    BY <1>5, <2>1, <2>2, <2>3 DEF Git
<1>6. ASSUME NEW o \in Op, Crash(o)
      PROVE  TypeOK'
  BY <1>6 DEF Crash, gitVars
<1>7. QED
  BY <1>1, <1>2, <1>3, <1>4, <1>5, <1>6 DEF Next, Finished

(* Type correctness of the staged mutation, its lock and its git state.    *)
THEOREM TypeCorrect == Spec => []TypeOK
<1>1. Init => TypeOK
  BY TreeAssumption, NoneAssumption
     DEF Init, TypeOK, Status, Fresh, Waiting, Holding, Ended
<1>2. TypeOK /\ [Next]_vars => TypeOK'
  BY TypeStep
<1>3. QED
  BY <1>1, <1>2, PTL DEF Spec
-----------------------------------------------------------------------------
(* The invariant is inductive: every action, one by one.                   *)
LEMMA InvStep ==
  ASSUME IInv, [Next]_vars
  PROVE  IInv'
<1> USE NoneAssumption
    DEF IInv, LockExact, NoEffectBeforeLock, Progress, Residue, StagedFiles,
        Status, Fresh, Waiting, Holding, Ended
<1>0. TypeOK'
  BY TypeStep
<1>a. \A o \in Op : /\ declared[o] \in Nat
                    /\ applied[o] \in Nat
                    /\ Len(plan[o]) \in Nat
                    /\ staged[o] \subseteq Nat
  BY PlanType DEF TypeOK
<1>1. CASE UNCHANGED vars
  BY <1>0, <1>1 DEF vars
<1>2. ASSUME NEW o \in Op, Prepare(o)
      PROVE  IInv'
  <2>1. CASE BeginOp(o)
    BY <1>0, <1>a, <2>1 DEF BeginOp, gitVars, TypeOK
  <2>2. CASE Declare(o)
    BY <1>0, <1>a, <2>2 DEF Declare, gitVars, TypeOK
  <2>3. CASE Abort(o)
    BY <1>0, <1>a, <2>3 DEF Abort, gitVars, TypeOK
  <2>4. CASE Commit(o)
    BY <1>0, <1>a, <2>4 DEF Commit, gitVars, TypeOK
  <2>5. QED
    BY <1>2, <2>1, <2>2, <2>3, <2>4 DEF Prepare
<1>3. ASSUME NEW o \in Op, Poll(o)
      PROVE  IInv'
  <2>1. CASE TryLock(o)
    <3>0. /\ status \in [Op -> Status]
          /\ status[o] = "try"
          /\ UNCHANGED <<plan, declared, applied, staging, staged, dirty>>
      BY <2>1 DEF TryLock, TypeOK
    <3>1. CASE flock = None
      <4>1. flock' = o /\ status' = [status EXCEPT ![o] = "apply"]
        BY <2>1, <3>1 DEF TryLock
      <4>2. \A q \in Op : status[q] \notin {"apply", "clean", "git"}
        BY <3>1
      <4>3. LockExact'
        BY <3>0, <4>1, <4>2
      <4>4. QED
        BY <1>0, <1>a, <3>0, <4>1, <4>3
    <3>2. CASE flock # None
      <4>1. flock' = flock /\ status' = [status EXCEPT ![o] = "wait"]
        BY <2>1, <3>2 DEF TryLock
      <4>2. QED
        BY <1>0, <1>a, <3>0, <4>1
    <3>3. QED
      BY <3>1, <3>2
  <2>2. CASE Retry(o)
    BY <1>0, <1>a, <2>2 DEF Retry, gitVars, TypeOK
  <2>3. CASE GiveUp(o)
    BY <1>0, <1>a, <2>3 DEF GiveUp, gitVars, TypeOK
  <2>4. QED
    BY <1>3, <2>1, <2>2, <2>3 DEF Poll
<1>4. ASSUME NEW o \in Op, Apply(o)
      PROVE  IInv'
  <2>1. CASE ApplyWrite(o)
    BY <1>0, <1>a, <2>1 DEF ApplyWrite, Advance, gitVars, Applying, Current, TypeOK
  <2>2. CASE ApplyRename(o)
    BY <1>0, <1>a, <2>2 DEF ApplyRename, Advance, gitVars, Applying, Current, TypeOK
  <2>3. CASE ApplyRemoveOne(o)
    BY <1>0, <1>a, <2>3 DEF ApplyRemoveOne, gitVars, Applying, TypeOK
  <2>4. CASE ApplyRemoveDone(o)
    BY <1>0, <1>a, <2>4 DEF ApplyRemoveDone, Advance, gitVars, Applying, Current, TypeOK
  <2>5. CASE ApplyFail(o)
    BY <1>0, <1>a, <2>5 DEF ApplyFail, gitVars, Applying, TypeOK
  <2>6. CASE AppliedAll(o)
    BY <1>0, <1>a, <2>6 DEF AppliedAll, gitVars, TypeOK
  <2>7. CASE CleanUp(o)
    <3>1. /\ status[o] = "clean"
          /\ staging' \in {staging, staging \ {o}}
          /\ staged' \in {staged, [staged EXCEPT ![o] = {}]}
          /\ UNCHANGED <<plan, declared, applied, dirty>>
      BY <2>7 DEF CleanUp
    <3>2. CASE AutoCommit
      <4>1. status' = [status EXCEPT ![o] = "git"] /\ flock' = flock
        BY <2>7, <3>2 DEF CleanUp
      <4>2. QED
        BY <1>0, <1>a, <3>1, <4>1 DEF TypeOK
    <3>3. CASE ~AutoCommit
      <4>1. status' = [status EXCEPT ![o] = "done"] /\ flock' = None
        BY <2>7, <3>3 DEF CleanUp
      <4>2. QED
        BY <1>0, <1>a, <3>1, <4>1 DEF TypeOK
    <3>4. QED
      BY <3>2, <3>3
  <2>8. QED
    BY <1>4, <2>4, <2>5, <2>6, <2>7, <2>1, <2>2, <2>3 DEF Apply
<1>5. ASSUME NEW o \in Op, Git(o)
      PROVE  IInv'
  <2>1. CASE GitAdd(o)
    BY <1>0, <1>a, <2>1 DEF GitAdd, storeVars, TypeOK
  <2>2. CASE GitDone(o)
    BY <1>0, <1>a, <2>2 DEF GitDone, TypeOK
  <2>3. CASE GitFail(o)
    BY <1>0, <1>a, <2>3 DEF GitFail, gitVars, TypeOK
  <2>4. QED
    BY <1>5, <2>1, <2>2, <2>3 DEF Git
<1>6. ASSUME NEW o \in Op, Crash(o)
      PROVE  IInv'
  BY <1>0, <1>a, <1>6 DEF Crash, gitVars, TypeOK
<1>7. QED
  BY <1>1, <1>2, <1>3, <1>4, <1>5, <1>6 DEF Next, Finished, vars

(* The initial state satisfies the invariant.                              *)
LEMMA InvInit == Init => IInv
<1> SUFFICES ASSUME Init
             PROVE  IInv
  OBVIOUS
<1>1. TypeOK
  BY TreeAssumption, NoneAssumption
     DEF Init, TypeOK, Status, Fresh, Waiting, Holding, Ended
<1>2. \A o \in Op : Len(plan[o]) = 0
  BY DEF Init
<1>3. QED
  BY <1>1, <1>2, NoneAssumption
     DEF Init, IInv, LockExact, NoEffectBeforeLock, Progress, Residue,
         StagedFiles, Fresh, Waiting, Holding

(* The strengthened invariant holds in every reachable state.              *)
THEOREM Invariance == Spec => []IInv
<1>1. IInv /\ [Next]_vars => IInv'
  BY InvStep
<1>2. QED
  BY InvInit, <1>1, PTL DEF Spec

-----------------------------------------------------------------------------
(* The flock is held by exactly the op between acquire and close.          *)
THEOREM LockIsExact == Spec => []LockExact
<1>1. IInv => LockExact
  BY DEF IInv
<1>2. QED
  BY <1>1, Invariance, PTL

(* At most one op at a time applies, cleans up or commits to git.          *)
THEOREM MutualExclusion ==
  Spec => [](\A o, q \in Op :
               status[o] \in Holding /\ status[q] \in Holding => o = q)
<1>1. LockExact => \A o, q \in Op :
               status[o] \in Holding /\ status[q] \in Holding => o = q
  BY DEF LockExact
<1>2. QED
  BY <1>1, LockIsExact, PTL

(* No op changes the data dir before its Commit has the lock.              *)
THEOREM NoEffectWithoutLock == Spec => []NoEffectBeforeLock
<1>1. IInv => NoEffectBeforeLock
  BY DEF IInv
<1>2. QED
  BY <1>1, Invariance, PTL

(* An op cut short after its first effect has its staging dir on disk.     *)
THEOREM RecoveryIsLegible == Spec => []PartialIsLegible
<1>1. IInv => PartialIsLegible
  <2> SUFFICES ASSUME IInv, NEW o \in dirty
               PROVE  applied[o] = Len(plan[o]) \/ o \in staging
    BY DEF PartialIsLegible
  <2>1. o \in Op
    BY DEF IInv, TypeOK
  <2>2. status[o] \notin {"idle", "aborted"}
    BY <2>1 DEF IInv, NoEffectBeforeLock, Fresh
  <2>3. QED
    BY <2>1, <2>2 DEF IInv, Residue
<1>2. QED
  BY <1>1, Invariance, PTL

(* Every write not yet in place is still in the op's staging dir.          *)
THEOREM StagedIsKept == Spec => []StagedUntilApplied
<1>1. IInv => StagedUntilApplied
  <2> SUFFICES ASSUME IInv, NEW o \in Op, status[o] # "aborted",
                      NEW i \in 1..Len(plan[o]),
                      applied[o] < i, i <= declared[o],
                      plan[o][i].kind = "write"
               PROVE  i \in staged[o] /\ o \in staging
    BY DEF StagedUntilApplied
  <2>1. i \in staged[o]
    BY DEF IInv, StagedFiles
  <2>2. applied[o] \in Nat /\ declared[o] \in Nat /\ Len(plan[o]) \in Nat
    BY PlanType DEF IInv, TypeOK
  <2>3. status[o] # "idle" /\ applied[o] # declared[o]
    BY <2>2 DEF IInv, Progress
  <2>4. QED
    BY <2>1, <2>3 DEF IInv, Residue
<1>2. QED
  BY <1>1, Invariance, PTL

(* Only the lock holder changes the data dir, the index or the head.       *)
THEOREM OnlyHolderWrites == Spec => HolderWrites
<1>1. ASSUME IInv, [Next]_vars
      PROVE  [/\ tree' # tree => flock # None /\ flock' = flock
              /\ (index' # index \/ head' # head) => flock # None]_vars
  <2>1. ASSUME NEW o \in Op, Prepare(o) \/ Poll(o) \/ Crash(o)
        PROVE  tree' = tree /\ index' = index /\ head' = head
    BY <2>1 DEF Prepare, BeginOp, Declare, Abort, Commit, Poll, TryLock, Retry,
                GiveUp, Crash, gitVars
  <2>2. ASSUME NEW o \in Op, Apply(o)
        PROVE  /\ index' = index /\ head' = head
               /\ tree' # tree => flock # None /\ flock' = flock
    <3>1. status[o] \in {"apply", "clean"}
      BY <2>2 DEF Apply, Applying, ApplyWrite, ApplyRename, ApplyRemoveOne,
                  ApplyRemoveDone, ApplyFail, AppliedAll, CleanUp
    <3>2. flock # None
      BY <1>1, <3>1, NoneAssumption DEF IInv, LockExact, Holding
    <3>3. QED
      BY <2>2, <3>2 DEF Apply, ApplyWrite, ApplyRename, ApplyRemoveOne,
                  ApplyRemoveDone, ApplyFail, AppliedAll, CleanUp, Advance, gitVars
  <2>3. ASSUME NEW o \in Op, Git(o)
        PROVE  tree' = tree /\ flock # None
    <3>1. status[o] = "git"
      BY <2>3 DEF Git, GitAdd, GitDone, GitFail
    <3>2. flock # None
      BY <1>1, <3>1, NoneAssumption DEF IInv, LockExact, Holding
    <3>3. QED
      BY <2>3, <3>2 DEF Git, GitAdd, GitDone, GitFail, storeVars
  <2>4. CASE UNCHANGED vars
    BY <2>4
  <2>5. CASE Finished
    BY <2>5 DEF Finished
  <2>6. QED
    BY <1>1, <2>4, <2>5, <2>1, <2>2, <2>3 DEF Next
<1>2. QED
  BY <1>1, Invariance, PTL DEF Spec, HolderWrites

\* The trees the plan of o goes through, from the one o found.
After(o) == Abstract!Run(base, plan[o], o)

\* The data dir is at the point of the plan that o has come to, or somewhere
\* in the removal that comes next.
Midway(o) ==
  \/ tree = After(o)[applied[o]]
  \/ /\ applied[o] < Len(plan[o])
     /\ tree \in Abstract!CutShort(After(o)[applied[o]],
                                   plan[o][applied[o] + 1])

Settled == flock = None => base = tree

Tracked ==
  \A o \in Op : status[o] \in Holding =>
    /\ After(o)[applied[o]] \in Tree
    /\ Midway(o)
    /\ o \notin dirty => tree = base

Touched == \A o \in dirty : plan[o] # <<>>

RInv == IInv /\ Settled /\ Tracked /\ Touched /\ base \in Tree

-----------------------------------------------------------------------------
\* A set of numbers that is not empty has a least one.
LEMMA Least ==
  ASSUME NEW S \in SUBSET Nat, S # {}
  PROVE  \E x \in S : \A y \in S : x <= y
<1> DEFINE R == {p \in Nat \X Nat : p[1] < p[2]}
<1>1. IsWellFoundedOn(R, Nat)
  <2>1. OpToRel(<, Nat) = R
    BY DEF OpToRel
  <2> QED
    BY <2>1, NatLessThanWellFounded, Zenon
<1>2. PICK x \in S : \A y \in S : ~ (<<y, x>> \in R)
  <2> HIDE DEF R
  <2> QED
    BY <1>1, WFMin
<1>3. \A y \in S : x <= y
  <2> SUFFICES ASSUME NEW y \in S PROVE x <= y
    OBVIOUS
  <2>1. y \in Nat /\ x \in Nat /\ ~ (<<y, x>> \in R)
    BY <1>2
  <2>2. ~ (y < x)
    BY <2>1
  <2> QED
    BY <2>1, <2>2
<1> QED
  BY <1>3

LEMMA StepEffectTyped ==
  ASSUME NEW t \in Tree, NEW s \in Step, NEW o \in Op
  PROVE  Abstract!StepEffect(t, s, o) \in Tree
<1>1. CASE s \in WriteStep
  BY <1>1 DEF WriteStep, Tree, Abstract!StepEffect
<1>2. CASE s \in RenameStep
  BY <1>2 DEF RenameStep, Tree, Abstract!StepEffect
<1>3. CASE s \in RemoveStep
  BY <1>3 DEF RemoveStep, Tree, Abstract!StepEffect
<1> QED
  BY <1>1, <1>2, <1>3 DEF Step

\* A function that applies the first m steps of p exists, one step at a time.
LEMMA RunExists ==
  ASSUME NEW t \in Tree, NEW p \in Seq(Step), NEW o \in Op
  PROVE  \E f \in [0..Len(p) -> Tree] :
           /\ f[0] = t
           /\ \A k \in 1..Len(p) :
                f[k] = Abstract!StepEffect(f[k - 1], p[k], o)
<1> DEFINE P(m) == \E f \in [0..m -> Tree] :
                     /\ f[0] = t
                     /\ \A k \in 1..m :
                          f[k] = Abstract!StepEffect(f[k - 1], p[k], o)
           B == {m \in 0..Len(p) : ~ P(m)}
<1>1. P(0)
  <2> DEFINE f == [k \in 0..0 |-> t]
  <2>1. f \in [0..0 -> Tree] /\ f[0] = t /\ \A k \in 1..0 : FALSE
    OBVIOUS
  <2> QED
    BY <2>1
<1>2. ASSUME NEW m \in Nat, m < Len(p), P(m) PROVE P(m + 1)
  <2>1. PICK f \in [0..m -> Tree] :
               /\ f[0] = t
               /\ \A k \in 1..m :
                    f[k] = Abstract!StepEffect(f[k - 1], p[k], o)
    BY <1>2
  <2> DEFINE next == Abstract!StepEffect(f[m], p[m + 1], o)
             g == [k \in 0..(m + 1) |-> IF k = m + 1 THEN next ELSE f[k]]
  <2>2. next \in Tree
    BY <1>2, StepEffectTyped
  <2> HIDE DEF next
  <2>3. g \in [0..(m + 1) -> Tree]
    BY <2>2
  <2>4. g[0] = t
    BY <2>1
  <2>5. ASSUME NEW k \in 1..(m + 1)
        PROVE  g[k] = Abstract!StepEffect(g[k - 1], p[k], o)
    <3>1. CASE k = m + 1
      <4>1. g[k] = next /\ g[k - 1] = f[m]
        BY <3>1
      <4> QED
        BY <3>1, <4>1 DEF next
    <3>2. CASE k # m + 1
      <4>1. k \in 1..m /\ g[k] = f[k] /\ g[k - 1] = f[k - 1]
        BY <3>2
      <4> QED
        BY <2>1, <4>1
    <3> QED
      BY <3>1, <3>2
  <2> HIDE DEF g
  <2> QED
    BY <2>3, <2>4, <2>5
<1>3. B = {}
  <2> SUFFICES ASSUME B # {} PROVE FALSE
    OBVIOUS
  <2>1. PICK x \in B : \A y \in B : x <= y
    <3>1. B \in SUBSET Nat
      OBVIOUS
    <3> HIDE DEF B
    <3> QED
      BY <3>1, Least
  <2>2. x # 0
    BY <1>1, <2>1
  <2> HIDE DEF P
  <2>3. x - 1 \in Nat /\ x - 1 < Len(p) /\ x - 1 \in 0..Len(p) /\ x - 1 \notin B
    BY <2>1, <2>2
  <2>4. P(x - 1)
    BY <2>3
  <2>5. P((x - 1) + 1)
    BY <1>2, <2>3, <2>4
  <2>6. (x - 1) + 1 = x
    BY <2>1
  <2> QED
    BY <2>1, <2>5, <2>6
<1>4. P(Len(p))
  <2> HIDE DEF P
  <2>1. Len(p) \in 0..Len(p)
    OBVIOUS
  <2> QED
    BY <1>3, <2>1
<1> QED
  BY <1>4

\* Run begins with the tree it is given and takes one step after the other.
LEMMA RunSteps ==
  ASSUME NEW t \in Tree, NEW p \in Seq(Step), NEW o \in Op
  PROVE  /\ Abstract!Run(t, p, o)[0] = t
         /\ \A k \in 1..Len(p) :
              Abstract!Run(t, p, o)[k]
                = Abstract!StepEffect(Abstract!Run(t, p, o)[k - 1], p[k], o)
<1>1. PICK f \in [0..Len(p) -> Tree] :
             /\ f[0] = t
             /\ \A k \in 1..Len(p) :
                  f[k] = Abstract!StepEffect(f[k - 1], p[k], o)
  BY RunExists
<1>2. f = [k \in 0..Len(p) |->
             IF k = 0 THEN t ELSE Abstract!StepEffect(f[k - 1], p[k], o)]
  BY <1>1
<1>3. Abstract!Run(t, p, o)
        = [k \in 0..Len(p) |->
             IF k = 0 THEN t
             ELSE Abstract!StepEffect(Abstract!Run(t, p, o)[k - 1], p[k], o)]
  BY <1>2, Zenon DEF Abstract!Run
<1>4. \A k \in 0..Len(p) :
        Abstract!Run(t, p, o)[k]
          = IF k = 0 THEN t
            ELSE Abstract!StepEffect(Abstract!Run(t, p, o)[k - 1], p[k], o)
  BY <1>3, Zenon
<1> DEFINE g == Abstract!Run(t, p, o)
<1> HIDE DEF g
<1>5. \A k \in 0..Len(p) :
        g[k] = IF k = 0 THEN t ELSE Abstract!StepEffect(g[k - 1], p[k], o)
  BY <1>4 DEF g
<1>6. g[0] = t /\ \A k \in 1..Len(p) :
                    g[k] = Abstract!StepEffect(g[k - 1], p[k], o)
  BY <1>5
<1> QED
  BY <1>6 DEF g

\* The same along the plan of an op: the point after the current step.
LEMMA NextPoint ==
  ASSUME IInv, base \in Tree, NEW o \in Op, Applying(o)
  PROVE  /\ applied[o] \in Nat /\ applied[o] + 1 \in 1..Len(plan[o])
         /\ After(o)[applied[o] + 1]
              = Abstract!StepEffect(After(o)[applied[o]], Current(o), o)
<1>1. plan[o] \in Seq(Step) /\ applied[o] \in Nat /\ Len(plan[o]) \in Nat
  BY PlanType DEF IInv, TypeOK
<1>2. applied[o] + 1 \in 1..Len(plan[o]) /\ (applied[o] + 1) - 1 = applied[o]
  BY <1>1 DEF Applying
<1>3. \A k \in 1..Len(plan[o]) :
        After(o)[k] = Abstract!StepEffect(After(o)[k - 1], plan[o][k], o)
  BY <1>1, RunSteps DEF After
<1> QED
  BY <1>1, <1>2, <1>3 DEF Current

-----------------------------------------------------------------------------
(* A step of op o is of one of four kinds.                                 *)

Act(o) == Prepare(o) \/ Poll(o) \/ Apply(o) \/ Git(o) \/ Crash(o)

\* Outside the lock, and staying there.
Aside(o) ==
  /\ status[o] \notin Holding \cup Ended /\ status'[o] \notin Holding
  /\ status'[o] \in Ended => applied'[o] = 0
  /\ o \notin dirty
  /\ UNCHANGED <<tree, flock, dirty, applied>>

Acquires(o) ==
  /\ status[o] \notin Holding \cup Ended /\ status'[o] \in Holding
  /\ flock = None /\ flock' = o /\ applied[o] = 0 /\ o \notin dirty
  /\ UNCHANGED <<tree, dirty, applied, plan>>

\* Under the lock, and keeping it.
Works(o) ==
  /\ status[o] \in Holding /\ status'[o] \in Holding
  /\ flock = o /\ flock' = o
  /\ UNCHANGED plan

Releases(o) ==
  /\ status[o] \in Holding /\ status'[o] \in Ended
  /\ flock = o /\ flock' = None
  /\ UNCHANGED <<tree, dirty, applied, plan>>

LEMMA Kinds ==
  ASSUME IInv, NEW o \in Op, Act(o)
  PROVE  Aside(o) \/ Acquires(o) \/ Works(o) \/ Releases(o)
<1> USE NoneAssumption DEF IInv, LockExact, NoEffectBeforeLock, Progress,
        Fresh, Waiting, Holding, Ended
<1>1. status \in [Op -> Status]
  BY DEF TypeOK
<1>2. CASE Prepare(o)
  BY <1>1, <1>2 DEF Prepare, BeginOp, Declare, Abort, Commit, Aside
<1>3. CASE TryLock(o)
  <2>1. CASE flock = None
    BY <1>1, <1>3, <2>1 DEF TryLock, Acquires
  <2>2. CASE flock # None
    BY <1>1, <1>3, <2>2 DEF TryLock, Aside
  <2> QED
    BY <2>1, <2>2
<1>4. CASE Retry(o) \/ GiveUp(o)
  BY <1>1, <1>4 DEF Retry, GiveUp, Aside
<1>5. CASE Apply(o)
  <2>1. CASE ApplyWrite(o) \/ ApplyRename(o) \/ ApplyRemoveDone(o)
    BY <1>1, <2>1 DEF ApplyWrite, ApplyRename, ApplyRemoveDone, Advance,
                      Applying, Works
  <2>2. CASE ApplyRemoveOne(o) \/ AppliedAll(o)
    BY <1>1, <2>2 DEF ApplyRemoveOne, AppliedAll, Applying, Works
  <2>3. CASE ApplyFail(o)
    BY <1>1, <2>3 DEF ApplyFail, Applying, Releases
  <2>4. CASE CleanUp(o)
    <3>1. CASE AutoCommit
      BY <1>1, <2>4, <3>1 DEF CleanUp, Works
    <3>2. CASE ~ AutoCommit
      BY <1>1, <2>4, <3>2 DEF CleanUp, Releases
    <3> QED
      BY <3>1, <3>2
  <2> QED
    BY <1>5, <2>1, <2>2, <2>3, <2>4 DEF Apply
<1>6. CASE Git(o)
  <2>1. CASE GitAdd(o)
    BY <1>1, <2>1 DEF GitAdd, storeVars, Works
  <2>2. CASE GitDone(o) \/ GitFail(o)
    BY <1>1, <2>2 DEF GitDone, GitFail, Releases
  <2> QED
    BY <1>6, <2>1, <2>2 DEF Git
<1>7. CASE Crash(o)
  <2>1. CASE status[o] \in Holding
    BY <1>1, <1>7, <2>1 DEF Crash, Releases
  <2>2. CASE status[o] \notin Holding
    BY <1>1, <1>7, <2>2 DEF Crash, Aside
  <2> QED
    BY <2>1, <2>2
<1> QED
  BY <1>2, <1>3, <1>4, <1>5, <1>6, <1>7 DEF Act, Poll

\* A step of o leaves what the other ops have done alone.
LEMMA Elsewhere ==
  ASSUME IInv, NEW o \in Op, Act(o), NEW q \in Op, q # o
  PROVE  /\ status'[q] = status[q] /\ plan'[q] = plan[q]
         /\ applied'[q] = applied[q]
         /\ q \in dirty' <=> q \in dirty
<1> USE DEF IInv, TypeOK
<1>1. CASE Prepare(o)
  BY <1>1 DEF Prepare, BeginOp, Declare, Abort, Commit
<1>2. CASE Poll(o)
  BY <1>2 DEF Poll, TryLock, Retry, GiveUp
<1>3. CASE Apply(o)
  BY <1>3 DEF Apply, ApplyWrite, ApplyRename, ApplyRemoveOne, ApplyRemoveDone,
              ApplyFail, AppliedAll, CleanUp, Advance
<1>4. CASE Git(o)
  BY <1>4 DEF Git, GitAdd, GitDone, GitFail, storeVars
<1>5. CASE Crash(o)
  BY <1>5 DEF Crash
<1> QED
  BY <1>1, <1>2, <1>3, <1>4, <1>5 DEF Act

-----------------------------------------------------------------------------
\* What an op that holds the lock does keeps it on the way of its plan.
LEMMA WorkStep ==
  ASSUME RInv, TypeOK', NEW o \in Op, Act(o), Works(o), base' = base
  PROVE  /\ After(o)'[applied'[o]] \in Tree
         /\ Midway(o)'
         /\ o \notin dirty' => tree' = base
         /\ o \in dirty' => plan'[o] # <<>>
<1> DEFINE f == After(o)
           k == applied[o]
<1>1. After(o)' = f /\ plan' = plan
  BY DEF After, Works
<1>2. /\ f[k] \in Tree /\ Midway(o) /\ (o \notin dirty => tree = base)
      /\ (o \in dirty => plan[o] # <<>>)
  BY DEF RInv, Tracked, Works, Touched
<1>3. tree \in Tree /\ tree' \in Tree /\ applied \in [Op -> Nat]
  BY DEF RInv, IInv, TypeOK
<1>4. CASE UNCHANGED <<tree, applied, dirty>>
  BY <1>1, <1>2, <1>4 DEF Midway
<1>5. ASSUME Applying(o)
      PROVE  /\ plan[o] # <<>> /\ k < Len(plan[o])
             /\ k + 1 \in 1..Len(plan[o]) /\ k \in Nat
             /\ f[k + 1] = Abstract!StepEffect(f[k], Current(o), o)
             /\ tree = f[k] \/ tree \in Abstract!CutShort(f[k], Current(o))
  <2>1. plan[o] # <<>>
    BY <1>5, PlanType DEF Applying, RInv, IInv, TypeOK
  <2> QED
    BY <1>2, <1>5, <2>1, NextPoint DEF RInv, Applying, Midway, Current
<1>6. CASE ApplyWrite(o)
  <2> USE DEF ApplyWrite
  <2>1. Applying(o) /\ Current(o).kind = "write" /\ applied'[o] = k + 1
    BY <1>3, <1>6 DEF Advance
  <2>2. Current(o) \in WriteStep
    BY <2>1, CurrentType DEF RInv, IInv
  <2>3. tree = f[k]
    BY <1>5, <2>1 DEF Abstract!CutShort
  <2>4. tree' = f[k + 1]
    BY <1>5, <1>6, <2>1, <2>3 DEF Abstract!StepEffect
  <2> QED
    BY <1>1, <1>3, <1>5, <1>6, <2>1, <2>4 DEF Midway
<1>7. CASE ApplyRename(o)
  <2> USE DEF ApplyRename
  <2>1. Applying(o) /\ Current(o).kind = "rename" /\ applied'[o] = k + 1
    BY <1>3, <1>7 DEF Advance
  <2>3. tree = f[k]
    BY <1>5, <2>1 DEF Abstract!CutShort
  <2>4. tree' = f[k + 1]
    BY <1>5, <1>7, <2>1, <2>3 DEF Abstract!StepEffect, EmptyDir
  <2> QED
    BY <1>1, <1>3, <1>5, <1>7, <2>1, <2>4 DEF Midway
<1>8. ASSUME Applying(o), Current(o).kind = "remove"
      PROVE  /\ Current(o).dir \in Dir
             /\ \E kept \in SUBSET Name :
                  tree = [f[k] EXCEPT ![Current(o).dir] =
                            [n \in Name |-> IF n \in kept
                                            THEN f[k][Current(o).dir][n]
                                            ELSE Absent]]
  <2> DEFINE d == Current(o).dir
  <2>1. d \in Dir
    BY <1>8, CurrentType DEF RInv, IInv, RemoveStep
  <2>2. CASE tree = f[k]
    <3>1. f[k] = [f[k] EXCEPT ![d] =
                    [n \in Name |-> IF n \in Name THEN f[k][d][n] ELSE Absent]]
      BY <1>2, <2>1 DEF Tree
    <3> QED
      BY <2>1, <2>2, <3>1
  <2>3. CASE tree \in Abstract!CutShort(f[k], Current(o))
    BY <1>8, <2>1, <2>3 DEF Abstract!CutShort
  <2> QED
    BY <1>5, <1>8, <2>2, <2>3
<1>9. CASE ApplyRemoveOne(o)
  <2> DEFINE d == Current(o).dir
  <2>1. Applying(o) /\ Current(o).kind = "remove" /\ applied' = applied
    BY <1>9 DEF ApplyRemoveOne
  <2>2. PICK kept \in SUBSET Name :
          tree = [f[k] EXCEPT ![d] =
                    [n \in Name |-> IF n \in kept THEN f[k][d][n] ELSE Absent]]
    BY <1>8, <2>1
  <2>3. PICK m \in Name : tree' = [tree EXCEPT ![d][m] = Absent]
    BY <1>9 DEF ApplyRemoveOne
  <2>4. tree' = [f[k] EXCEPT ![d] =
                   [n \in Name |-> IF n \in kept \ {m} THEN f[k][d][n]
                                   ELSE Absent]]
    <3>1. d \in Dir
      BY <1>8, <2>1
    <3> DEFINE left == [n \in Name |-> IF n \in kept \ {m} THEN f[k][d][n]
                                       ELSE Absent]
    <3>2. \A e \in Dir : tree'[e] = IF e = d THEN [tree[d] EXCEPT ![m] = Absent]
                                    ELSE tree[e]
      BY <1>3, <2>3, <3>1 DEF Tree
    <3>3. [tree[d] EXCEPT ![m] = Absent] = left
      BY <1>2, <2>2, <3>1 DEF Tree
    <3>4. \A e \in Dir \ {d} : tree[e] = f[k][e]
      BY <1>2, <2>2 DEF Tree
    <3> HIDE DEF left
    <3>5. tree' = [e \in Dir |-> tree'[e]]
      BY <1>3 DEF Tree
    <3>6. [f[k] EXCEPT ![d] = left]
            = [e \in Dir |-> IF e = d THEN left ELSE f[k][e]]
      BY <1>2 DEF Tree
    <3>7. tree' = [f[k] EXCEPT ![d] = left]
      BY <3>2, <3>3, <3>4, <3>5, <3>6
    <3> QED
      BY <3>7 DEF left
  <2>5. tree' \in Abstract!CutShort(f[k], Current(o))
    BY <2>1, <2>4 DEF Abstract!CutShort
  <2>6. o \in dirty'
    BY <1>9 DEF ApplyRemoveOne
  <2> QED
    BY <1>1, <1>2, <1>5, <2>1, <2>5, <2>6 DEF Midway, Current
<1>10. CASE ApplyRemoveDone(o)
  <2> DEFINE d == Current(o).dir
  <2>1. /\ Applying(o) /\ Current(o).kind = "remove" /\ applied'[o] = k + 1
        /\ ~ Exists(d) /\ UNCHANGED <<tree, dirty>>
    BY <1>3, <1>10 DEF ApplyRemoveDone, Advance
  <2>2. PICK kept \in SUBSET Name :
          tree = [f[k] EXCEPT ![d] =
                    [n \in Name |-> IF n \in kept THEN f[k][d][n] ELSE Absent]]
    BY <1>8, <2>1
  <2>3. d \in Dir
    BY <1>8, <2>1
  <2> DEFINE left == [n \in Name |-> IF n \in kept THEN f[k][d][n] ELSE Absent]
  <2>4. left = [n \in Name |-> Absent]
    <3>1. tree[d] = left
      BY <1>2, <2>2, <2>3 DEF Tree
    <3>2. \A n \in Name : left[n] = Absent
      BY <2>1, <3>1 DEF Exists
    <3> QED
      BY <3>2
  <2>5. tree = [f[k] EXCEPT ![d] = [n \in Name |-> Absent]]
    BY <2>2, <2>4
  <2>6. tree' = f[k + 1]
    BY <1>5, <2>1, <2>5 DEF Abstract!StepEffect
  <2> QED
    BY <1>1, <1>2, <1>3, <1>5, <2>1, <2>6 DEF Midway
<1> QED
  <2>1. CASE Apply(o)
    BY <2>1, <1>4, <1>6, <1>7, <1>9, <1>10
    DEF Apply, AppliedAll, CleanUp, ApplyFail
  <2>2. CASE Git(o)
    BY <2>2, <1>4 DEF Git, GitAdd, GitDone, GitFail, storeVars
  <2>3. status[o] \in Holding
    BY DEF Works
  <2>4. CASE Crash(o)
    BY <2>4, <1>4 DEF Crash
  <2>5. ~ Prepare(o) /\ ~ Poll(o)
    BY <2>3 DEF Prepare, BeginOp, Declare, Abort, Commit, Poll, TryLock, Retry,
                GiveUp, Holding
  <2> QED
    BY <2>1, <2>2, <2>4, <2>5 DEF Act

-----------------------------------------------------------------------------
\* The base moves only when the lock comes free.
Rebase == base' = IF flock' = None THEN tree' ELSE base

LEMMA BaseKept ==
  ASSUME RInv, NEW o \in Op, Rebase, Aside(o) \/ Acquires(o) \/ Works(o)
  PROVE  base' = base
<1>1. CASE Aside(o)
  BY <1>1 DEF RInv, Settled, Rebase, Aside
<1>2. CASE Acquires(o) \/ Works(o)
  BY <1>2, NoneAssumption DEF Rebase, Acquires, Works
<1> QED
  BY <1>1, <1>2

\* While one op holds the lock, another one can only step aside.
LEMMA HeldApart ==
  ASSUME RInv, NEW o \in Op, NEW q \in Op, q # o, status[q] \in Holding,
         Act(o)
  PROVE  Aside(o)
BY Kinds, NoneAssumption
DEF RInv, IInv, LockExact, Acquires, Works, Releases

LEMMA RInvStep ==
  ASSUME RInv, NEW o \in Op, Act(o), Rebase
  PROVE  RInv'
<1>1. IInv'
  BY InvStep DEF RInv, Next, Act
<1>2. TypeOK /\ TypeOK'
  BY <1>1 DEF RInv, IInv
<1>3. base' \in Tree
  BY <1>2 DEF RInv, Rebase, TypeOK
<1>4. Settled'
  BY DEF Settled, Rebase
<1>5. ASSUME NEW q \in Op, q # o, status'[q] \in Holding
      PROVE  /\ After(q)'[applied'[q]] \in Tree
             /\ Midway(q)'
             /\ q \notin dirty' => tree' = base'
  <2>1. /\ status'[q] = status[q] /\ plan'[q] = plan[q]
        /\ applied'[q] = applied[q] /\ (q \in dirty' <=> q \in dirty)
    BY <1>5, Elsewhere DEF RInv
  <2>2. Aside(o)
    BY <1>5, <2>1, HeldApart
  <2>3. base' = base /\ tree' = tree
    BY <2>2, BaseKept DEF Aside
  <2>4. /\ After(q)[applied[q]] \in Tree /\ Midway(q)
        /\ q \notin dirty => tree = base
    BY <1>5, <2>1 DEF RInv, Tracked
  <2>5. After(q)' = After(q)
    BY <2>1, <2>3 DEF After
  <2> QED
    BY <2>1, <2>3, <2>4, <2>5 DEF Midway
<1>6. ASSUME status'[o] \in Holding
      PROVE  /\ After(o)'[applied'[o]] \in Tree
             /\ Midway(o)'
             /\ o \notin dirty' => tree' = base'
  <2>1. CASE Works(o)
    BY <1>2, <2>1, BaseKept, WorkStep
  <2>2. CASE Acquires(o)
    <3>1. base = tree /\ base' = base /\ tree' = tree /\ plan' = plan
          /\ applied' = applied /\ applied[o] = 0
      BY <2>2, BaseKept DEF RInv, Settled, Acquires
    <3>2. After(o)[0] = base /\ After(o)' = After(o)
      BY <1>2, <3>1, PlanType, RunSteps DEF After, RInv
    <3> QED
      BY <1>2, <3>1, <3>2 DEF Midway, TypeOK
  <2>3. ~ Aside(o) /\ ~ Releases(o)
    BY <1>6 DEF Aside, Releases, Holding, Ended
  <2> QED
    BY <2>1, <2>2, <2>3, Kinds DEF RInv
<1>7. Tracked'
  BY <1>5, <1>6 DEF Tracked
<1>8. Touched'
  <2> SUFFICES ASSUME NEW q \in Op, q \in dirty' PROVE plan'[q] # <<>>
    BY <1>2 DEF Touched, TypeOK
  <2>1. CASE q # o
    BY <2>1, Elsewhere DEF RInv, Touched
  <2>2. CASE q = o
    <3>1. CASE Works(o)
      BY <1>2, <2>2, <3>1, BaseKept, WorkStep
    <3>2. CASE Aside(o) \/ Acquires(o) \/ Releases(o)
      BY <2>2, <3>2 DEF Aside, Acquires, Releases, RInv, Touched
    <3> QED
      BY <3>1, <3>2, Kinds DEF RInv
  <2> QED
    BY <2>1, <2>2
<1> QED
  BY <1>1, <1>3, <1>4, <1>7, <1>8 DEF RInv

-----------------------------------------------------------------------------
\* What an op has done is judged only when it has ended, and by itself.
LEMMA EffectApart ==
  ASSUME RInv, NEW o \in Op, Act(o), NEW q \in Op, q # o
  PROVE  Effect(q)' = Effect(q)
BY Elsewhere DEF RInv, Effect

\* The steps of an op that do not release the lock are stutters.
LEMMA Stutters ==
  ASSUME RInv, NEW o \in Op, Act(o), Rebase,
         Aside(o) \/ Acquires(o) \/ Works(o)
  PROVE  /\ base' = base
         /\ \A q \in Op : Effect(q)' = Effect(q)
<1>1. Effect(o)' = Effect(o)
  <2>1. Effect(o) = "none"
    BY DEF Effect, Aside, Acquires, Works, Holding, Ended
  <2>2. CASE Acquires(o) \/ Works(o)
    BY <2>1, <2>2 DEF Effect, Acquires, Works, Holding, Ended
  <2>3. CASE Aside(o)
    <3>1. IInv'
      BY InvStep DEF RInv, Next, Act
    <3>2. plan'[o] \in Seq(Step)
      <4>1. <<>> \in Seq(Step)
        OBVIOUS
      <4>2. plan' \in [Op -> Plan \cup {<<>>}]
        BY <3>1 DEF IInv, TypeOK
      <4> QED
        BY <4>1, <4>2, PlanAssumption
    <3>3. plan'[o] # <<>> => Len(plan'[o]) # 0
      BY <3>2
    <3> QED
      BY <2>1, <2>3, <3>3 DEF Effect, Aside
  <2> QED
    BY <2>2, <2>3
<1>2. \A q \in Op : Effect(q)' = Effect(q)
  BY <1>1, EffectApart
<1> QED
  BY <1>2, BaseKept

\* Releasing the lock is a whole effect, a part of one, or none.
LEMMA ReleaseStep ==
  ASSUME RInv, NEW o \in Op, Act(o), Rebase, Releases(o)
  PROVE  [Abstract!Next]_<<base, [q \in Op |-> Effect(q)]>>
<1> DEFINE e == [q \in Op |-> Effect(q)]
           f == After(o)
           k == applied[o]
<1>1. /\ e[o] = "none"
      /\ base' = tree
      /\ \A q \in Op : q # o => Effect(q)' = Effect(q)
  BY EffectApart DEF Effect, Rebase, Releases, Holding, Ended
<1>2. ASSUME NEW v, Effect(o)' = v PROVE e' = [e EXCEPT ![o] = v]
  BY <1>1, <1>2
<1>3. /\ f[k] \in Tree /\ Midway(o) /\ (o \notin dirty => tree = base)
      /\ (o \in dirty => plan[o] # <<>>)
  BY DEF RInv, Tracked, Releases, Touched
<1>4. /\ plan[o] \in Plan \cup {<<>>} /\ Len(plan[o]) \in Nat /\ k \in Nat
      /\ k <= Len(plan[o])
  <2>1. declared[o] \in Nat /\ k <= declared[o] /\ declared[o] <= Len(plan[o])
    BY DEF RInv, IInv, Progress, TypeOK
  <2> QED
    BY <2>1, PlanType DEF RInv, IInv, TypeOK
<1>5. Effect(o)' = IF plan[o] # <<>> /\ k = Len(plan[o]) THEN "whole"
                   ELSE IF o \in dirty THEN "part" ELSE "none"
  BY DEF Effect, Releases
<1>6. CASE plan[o] # <<>> /\ k = Len(plan[o])
  <2>1. base' = Abstract!Run(base, plan[o], o)[Len(plan[o])]
    BY <1>1, <1>3, <1>4, <1>6 DEF Midway, After
  <2>2. e' = [e EXCEPT ![o] = "whole"]
    BY <1>2, <1>5, <1>6
  <2>3. plan[o] \in Plan
    BY <1>4, <1>6
  <2> HIDE DEF e
  <2>4. Abstract!Whole(o)
    BY <1>1, <2>1, <2>2, <2>3 DEF Abstract!Whole, e
  <2> QED
    BY <2>4 DEF Abstract!Next
<1>7. CASE ~ (plan[o] # <<>> /\ k = Len(plan[o])) /\ o \in dirty
  <2>1. plan[o] \in Plan /\ k \in 0..(Len(plan[o]) - 1)
    BY <1>3, <1>4, <1>7
  <2>2. tree \in Abstract!CutShort(f[k], plan[o][k + 1])
    <3>1. CASE tree = f[k]
      <4> DEFINE s == plan[o][k + 1]
      <4>1. s \in Step
        BY <2>1, PlanType DEF RInv, IInv
      <4>2. CASE s.kind = "remove"
        <5>1. s.dir \in Dir
          BY <4>1, <4>2 DEF Step, WriteStep, RenameStep, RemoveStep
        <5>2. f[k] = [f[k] EXCEPT ![s.dir] =
                 [n \in Name |-> IF n \in Name THEN f[k][s.dir][n] ELSE Absent]]
          BY <1>3, <5>1 DEF Tree
        <5> QED
          BY <3>1, <4>2, <5>2 DEF Abstract!CutShort
      <4>3. CASE s.kind # "remove"
        BY <3>1, <4>3 DEF Abstract!CutShort
      <4> QED
        BY <4>2, <4>3
    <3> QED
      BY <1>3, <3>1 DEF Midway
  <2>3. base' \in Abstract!CutShort(Abstract!Run(base, plan[o], o)[k],
                                    plan[o][k + 1])
    BY <1>1, <2>2 DEF After
  <2>4. e' = [e EXCEPT ![o] = "part"]
    BY <1>2, <1>5, <1>7
  <2> HIDE DEF e
  <2>5. Abstract!Part(o)
    BY <1>1, <2>1, <2>3, <2>4 DEF Abstract!Part, e
  <2> QED
    BY <2>5 DEF Abstract!Next
<1>8. CASE ~ (plan[o] # <<>> /\ k = Len(plan[o])) /\ o \notin dirty
  <2>1. base' = base
    BY <1>1, <1>3, <1>8
  <2>2. \A q \in Op : Effect(q)' = Effect(q)
    BY <1>1, <1>5, <1>8
  <2>3. e' = e
    BY <2>2
  <2> QED
    BY <2>1, <2>3
<1> QED
  BY <1>6, <1>7, <1>8

-----------------------------------------------------------------------------
LEMMA RInvInit == RInit => RInv
<1> SUFFICES ASSUME RInit PROVE RInv
  OBVIOUS
<1>1. IInv
  BY InvInit DEF RInit
<1> QED
  BY <1>1, TreeAssumption
  DEF RInit, Init, RInv, Settled, Tracked, Touched, Holding

LEMMA RNextStep ==
  ASSUME RInv, [RNext]_<<vars, base>>
  PROVE  /\ RInv'
         /\ [Abstract!Next]_<<base, [q \in Op |-> Effect(q)]>>
<1>1. ASSUME NEW o \in Op, Act(o), Rebase
      PROVE  /\ RInv'
             /\ [Abstract!Next]_<<base, [q \in Op |-> Effect(q)]>>
  <2>1. RInv'
    BY <1>1, RInvStep
  <2>2. CASE Releases(o)
    BY <1>1, <2>1, <2>2, ReleaseStep
  <2>3. CASE Aside(o) \/ Acquires(o) \/ Works(o)
    BY <1>1, <2>1, <2>3, Stutters
  <2> QED
    BY <1>1, <2>2, <2>3, Kinds DEF RInv
<1>2. CASE UNCHANGED <<vars, base>>
  <2>1. IInv'
    BY <1>2, InvStep DEF RInv
  <2>2. \A q \in Op : Effect(q)' = Effect(q)
    BY <1>2 DEF vars, Effect
  <2>3. RInv'
    BY <1>2, <2>1 DEF vars, RInv, Settled, Tracked, Touched, Midway, After
  <2> QED
    BY <1>2, <2>2, <2>3
<1>3. CASE Finished /\ Rebase
  <2>1. UNCHANGED <<vars, base>>
    BY <1>3 DEF Finished, vars, Rebase, RInv, Settled
  <2> QED
    BY <1>2, <2>1
<1> QED
  BY <1>1, <1>2, <1>3 DEF RNext, Next, Act, Rebase

\* The holder is always at a point of its plan, counted from the data dir it
\* found (stage.go Commit applies o.ops in order, under the flock).
THEOREM HolderOnItsWay == RSpec => []RInv
<1>1. RInv /\ [RNext]_<<vars, base>> => RInv'
  BY RNextStep
<1> QED
  BY RInvInit, <1>1, PTL DEF RSpec

\* Whatever the interleaving, the failures and the crashes: whoever looks at
\* the data dir when nobody holds the lock sees the ops take effect one after
\* the other, each at most once, whole or cut short at one point of its list.
THEOREM Implements == RSpec => ImplementsAtomicStore
<1>1. RInit => Abstract!Init
  <2> SUFFICES ASSUME RInit PROVE Abstract!Init
    OBVIOUS
  <2>1. \A o \in Op : Effect(o) = "none"
    BY DEF RInit, Init, Effect, Ended
  <2> QED
    BY <2>1 DEF RInit, Abstract!Init
<1>2. RInv /\ [RNext]_<<vars, base>>
        => [Abstract!Next]_<<base, [o \in Op |-> Effect(o)]>>
  BY RNextStep
<1> QED
  BY <1>1, <1>2, HolderOnItsWay, PTL
  DEF RSpec, ImplementsAtomicStore, Abstract!Spec

-----------------------------------------------------------------------------
(***************************************************************************)
(* The last commit is the data dir.  Behind says what the git index still  *)
(* misses while an op holds the lock: it differs from the data dir only    *)
(* where a step of the op that is not staged yet made it so, and a file    *)
(* that is gone from the data dir but not from the index lay in a          *)
(* directory that is empty as a whole, which is when git drops it.         *)
(***************************************************************************)
Covers(s, d, n) ==
  \/ s.kind = "write" /\ d = s.dir /\ n = s.name
  \/ s.kind = "rename" /\ d \in {s.from, s.to}
  \/ s.kind = "remove" /\ d = s.dir

\* The steps applied, and a removal under way.
Begun(o) ==
  {i \in 1..Len(plan[o]) :
     i <= applied[o] \/ (i = applied[o] + 1 /\ plan[o][i].kind = "remove")}

Behind(o) ==
  /\ added[o] <= Len(plan[o])
  /\ \A d \in Dir, n \in Name : tree[d][n] # index[d][n] =>
       \E i \in Begun(o) : added[o] < i /\ Covers(plan[o][i], d, n)
  /\ \A d \in Dir, n \in Name : tree[d][n] = Absent /\ index[d][n] # Absent =>
       \E i \in Begun(o) : Empties(plan[o][i], d)
  /\ \A i \in Begun(o), d \in Dir :
       i <= applied[o] /\ Empties(plan[o][i], d) => ~Exists(d)

Whole == \A o \in Op : status[o] \notin {"ungit", "failed", "crashed"}

Committed ==
  AutoCommit /\ Whole =>
    /\ \A o \in Op : status[o] \notin {"git", "done"} => added[o] = 0
    /\ flock = None => index = tree /\ head = tree
    /\ \A o \in Op : status[o] \in Holding => Behind(o)

\* What is asked of the plans holds of the plan of every op.
LEMMA PlanNoRefill ==
  ASSUME TypeOK, \A p \in Plan : NoRefill(p), NEW o \in Op
  PROVE  NoRefill(plan[o])
<1>1. NoRefill(<<>>)
  BY DEF NoRefill
<1> QED
  BY <1>1 DEF TypeOK

\* What an op is behind by depends on the data dir, the index and its own
\* counters.
LEMMA BehindSame ==
  ASSUME NEW o \in Op, Behind(o), UNCHANGED <<tree, index>>,
         plan'[o] = plan[o], applied'[o] = applied[o], added'[o] = added[o]
  PROVE  Behind(o)'
BY DEF Behind, Begun, Exists

\* A write puts one file in place (writeOp.apply).
LEMMA WriteBehind ==
  ASSUME IInv, NEW o \in Op, NoRefill(plan[o]), Behind(o), added[o] = 0,
         ApplyWrite(o)
  PROVE  Behind(o)'
<1> DEFINE s == Current(o)
           k == applied[o] + 1
<1>1. /\ applied[o] \in Nat /\ Len(plan[o]) \in Nat /\ k \in 1..Len(plan[o])
      /\ s = plan[o][k] /\ s.kind = "write" /\ s.dir \in Dir /\ s.name \in Name
  BY PlanType, CurrentType DEF ApplyWrite, Applying, Current, IInv, TypeOK, WriteStep
<1>2. /\ plan' = plan /\ index' = index /\ added' = added
      /\ applied'[o] = k
      /\ \A d \in Dir, n \in Name :
           tree'[d][n] = IF d = s.dir /\ n = s.name THEN o ELSE tree[d][n]
  BY <1>1 DEF ApplyWrite, Advance, gitVars, IInv, TypeOK, Tree
<1>3. Begun(o) \subseteq Begun(o)' /\ k \in Begun(o)'
  BY <1>1, <1>2 DEF Begun
<1>4. \A i \in Begun(o)' : i \in 1..Len(plan[o]) /\ ((i \in Begun(o) /\ i <= applied[o]) \/ i = k \/ i = k + 1)
  BY <1>1, <1>2 DEF Begun
<1>5. ASSUME NEW d \in Dir, NEW n \in Name, tree'[d][n] # index[d][n]
      PROVE  \E i \in Begun(o)' : added[o] < i /\ Covers(plan[o][i], d, n)
  <2>1. CASE d = s.dir /\ n = s.name
    BY <2>1, <1>1, <1>3 DEF Covers
  <2>2. CASE ~(d = s.dir /\ n = s.name)
    BY <2>2, <1>2, <1>3, <1>5 DEF Behind
  <2> QED
    BY <2>1, <2>2
<1>6. ASSUME NEW d \in Dir, NEW n \in Name,
             tree'[d][n] = Absent, index[d][n] # Absent
      PROVE  \E i \in Begun(o)' : Empties(plan[o][i], d)
  <2>1. tree[d][n] = Absent
    BY <1>2, <1>6, AbsentAssumption
  <2> QED
    BY <2>1, <1>3, <1>6 DEF Behind
<1>7. ASSUME NEW i \in Begun(o)', NEW d \in Dir, i <= k, Empties(plan[o][i], d)
      PROVE  ~Exists(d)'
  <2>1. i # k
    BY <1>1, <1>7 DEF Empties
  <2>2. i \in Begun(o) /\ i <= applied[o] /\ i \in 1..Len(plan[o]) /\ i < k
    BY <1>1, <1>4, <1>7, <2>1
  <2>3. ~Exists(d)
    BY <2>2, <1>7 DEF Behind
  <2>4. d # s.dir
    BY <2>2, <1>1, <1>7 DEF NoRefill, Fills
  <2> QED
    BY <2>3, <2>4, <1>2 DEF Exists
<1>8. added'[o] <= Len(plan'[o])
  BY <1>2 DEF Behind
<1> QED
  BY <1>2, <1>5, <1>6, <1>7, <1>8 DEF Behind

\* A move takes one directory to a free place (renameOp.apply).
LEMMA RenameBehind ==
  ASSUME IInv, NEW o \in Op, NoRefill(plan[o]), Behind(o), added[o] = 0,
         ApplyRename(o)
  PROVE  Behind(o)'
<1> DEFINE s == Current(o)
           k == applied[o] + 1
<1>1. /\ applied[o] \in Nat /\ Len(plan[o]) \in Nat /\ k \in 1..Len(plan[o])
      /\ s = plan[o][k] /\ s.kind = "rename" /\ s.from \in Dir /\ s.to \in Dir
  BY PlanType, CurrentType DEF ApplyRename, Applying, Current, IInv, TypeOK, RenameStep
<1>a. Exists(s.from) /\ ~Exists(s.to) /\ s.from # s.to
  BY DEF ApplyRename
<1>2. /\ plan' = plan /\ index' = index /\ added' = added
      /\ applied'[o] = k
      /\ tree' = [tree EXCEPT ![s.to] = tree[s.from], ![s.from] = EmptyDir]
  BY <1>1 DEF ApplyRename, Advance, gitVars, IInv, TypeOK
<1>b. /\ \A n \in Name : tree'[s.from][n] = Absent
      /\ \A d \in Dir : d \notin {s.from, s.to} => tree'[d] = tree[d]
  BY <1>1, <1>2, <1>a DEF IInv, TypeOK, Tree, EmptyDir
<1>3. Begun(o) \subseteq Begun(o)' /\ k \in Begun(o)'
  BY <1>1, <1>2 DEF Begun
<1>4. \A i \in Begun(o)' : i \in 1..Len(plan[o]) /\ ((i \in Begun(o) /\ i <= applied[o]) \/ i = k \/ i = k + 1)
  BY <1>1, <1>2 DEF Begun
<1>5. ASSUME NEW d \in Dir, NEW n \in Name, tree'[d][n] # index[d][n]
      PROVE  \E i \in Begun(o)' : added[o] < i /\ Covers(plan[o][i], d, n)
  <2>1. CASE d \in {s.from, s.to}
    BY <2>1, <1>1, <1>3 DEF Covers
  <2>2. CASE d \notin {s.from, s.to}
    BY <2>2, <1>b, <1>3, <1>5 DEF Behind
  <2> QED
    BY <2>1, <2>2
<1>6. ASSUME NEW d \in Dir, NEW n \in Name,
             tree'[d][n] = Absent, index[d][n] # Absent
      PROVE  \E i \in Begun(o)' : Empties(plan[o][i], d)
  <2>1. CASE d = s.from
    BY <2>1, <1>1, <1>3 DEF Empties
  <2>2. CASE d # s.from
    <3>1. tree[d][n] = Absent
      BY <2>2, <1>a, <1>b, <1>6 DEF Exists
    <3> QED
      BY <3>1, <1>3, <1>6 DEF Behind
  <2> QED
    BY <2>1, <2>2
<1>7. ASSUME NEW i \in Begun(o)', NEW d \in Dir, i <= k, Empties(plan[o][i], d)
      PROVE  ~Exists(d)'
  <2>1. CASE i = k
    <3>1. d = s.from
      BY <2>1, <1>1, <1>7 DEF Empties
    <3> QED
      BY <3>1, <1>b DEF Exists
  <2>2. CASE i # k
    <3>1. i \in Begun(o) /\ i <= applied[o] /\ i \in 1..Len(plan[o]) /\ i < k
      BY <1>1, <1>4, <1>7, <2>2
    <3>2. ~Exists(d)
      BY <3>1, <1>7 DEF Behind
    <3>3. d # s.to
      BY <3>1, <1>1, <1>7 DEF NoRefill, Fills
    <3>4. CASE d = s.from
      BY <3>4, <1>b DEF Exists
    <3>5. CASE d # s.from
      BY <3>2, <3>3, <3>5, <1>b DEF Exists
    <3> QED
      BY <3>4, <3>5
  <2> QED
    BY <2>1, <2>2
<1>8. added'[o] <= Len(plan'[o])
  BY <1>2 DEF Behind
<1> QED
  BY <1>2, <1>5, <1>6, <1>7, <1>8 DEF Behind

\* A removal takes file after file (removeOp.apply).
LEMMA RemoveBehind ==
  ASSUME IInv, NEW o \in Op, Behind(o), added[o] = 0, ApplyRemoveOne(o)
  PROVE  Behind(o)'
<1> DEFINE s == Current(o)
           k == applied[o] + 1
<1>1. /\ applied[o] \in Nat /\ Len(plan[o]) \in Nat /\ k \in 1..Len(plan[o])
      /\ s = plan[o][k] /\ s.kind = "remove" /\ s.dir \in Dir
  BY PlanType, CurrentType DEF ApplyRemoveOne, Applying, Current, IInv, TypeOK, RemoveStep
<1>2. PICK m \in Name : tree' = [tree EXCEPT ![s.dir][m] = Absent]
  BY DEF ApplyRemoveOne
<1>3. /\ plan' = plan /\ index' = index /\ added' = added /\ applied' = applied
      /\ \A d \in Dir, n \in Name :
           tree'[d][n] = IF d = s.dir /\ n = m THEN Absent ELSE tree[d][n]
  BY <1>1, <1>2 DEF ApplyRemoveOne, gitVars, IInv, TypeOK, Tree
<1>4. Begun(o)' = Begun(o) /\ k \in Begun(o)
  BY <1>1, <1>3 DEF Begun
<1>5. ASSUME NEW d \in Dir, NEW n \in Name, tree'[d][n] # index[d][n]
      PROVE  \E i \in Begun(o) : added[o] < i /\ Covers(plan[o][i], d, n)
  BY <1>1, <1>3, <1>4, <1>5 DEF Behind, Covers
<1>6. ASSUME NEW d \in Dir, NEW n \in Name,
             tree'[d][n] = Absent, index[d][n] # Absent
      PROVE  \E i \in Begun(o) : Empties(plan[o][i], d)
  BY <1>1, <1>3, <1>4, <1>6 DEF Behind, Empties
<1>7. ASSUME NEW d \in Dir, ~Exists(d)
      PROVE  ~Exists(d)'
  BY <1>3, <1>7 DEF Exists
<1>8. added'[o] <= Len(plan'[o])
  BY <1>3 DEF Behind
<1> QED
  BY <1>3, <1>4, <1>5, <1>6, <1>7, <1>8 DEF Behind

\* The directory is gone: the removal is over.
LEMMA RemovedBehind ==
  ASSUME IInv, NEW o \in Op, Behind(o), added[o] = 0, ApplyRemoveDone(o)
  PROVE  Behind(o)'
<1> DEFINE s == Current(o)
           k == applied[o] + 1
<1>1. /\ applied[o] \in Nat /\ Len(plan[o]) \in Nat /\ k \in 1..Len(plan[o])
      /\ s = plan[o][k] /\ s.kind = "remove" /\ s.dir \in Dir /\ ~Exists(s.dir)
  BY PlanType, CurrentType DEF ApplyRemoveDone, Applying, Current, IInv, TypeOK, RemoveStep
<1>2. /\ plan' = plan /\ index' = index /\ added' = added /\ tree' = tree
      /\ applied'[o] = k
  BY <1>1 DEF ApplyRemoveDone, Advance, gitVars, IInv, TypeOK
<1>3. Begun(o) \subseteq Begun(o)'
  BY <1>1, <1>2 DEF Begun
<1>4. ASSUME NEW i \in Begun(o)', NEW d \in Dir, i <= k, Empties(plan[o][i], d)
      PROVE  ~Exists(d)
  <2>1. CASE i = k
    BY <2>1, <1>1, <1>4 DEF Empties
  <2>2. CASE i # k
    <3>1. i \in Begun(o) /\ i <= applied[o]
      BY <1>1, <1>2, <1>4, <2>2 DEF Begun
    <3> QED
      BY <3>1, <1>4 DEF Behind
  <2> QED
    BY <2>1, <2>2
<1> QED
  BY <1>2, <1>3, <1>4 DEF Behind, Exists
\* gitCommit stages the paths of one step.  A file that is gone is not missed:
\* its directory is empty by now, so everything in it is dropped.
LEMMA AddBehind ==
  ASSUME IInv, NEW o \in Op, Behind(o), GitAdd(o)
  PROVE  Behind(o)'
<1> DEFINE k == added[o] + 1
           s == plan[o][k]
<1>1. /\ applied[o] = Len(plan[o]) /\ Len(plan[o]) \in Nat
      /\ added[o] \in Nat /\ k \in 1..Len(plan[o]) /\ s \in Step
  BY PlanType DEF GitAdd, IInv, Progress, TypeOK
<1>2. /\ plan' = plan /\ tree' = tree /\ applied' = applied
      /\ added'[o] = k /\ index' = AddPaths(s)
  BY <1>1 DEF GitAdd, storeVars, IInv, TypeOK
<1>3. Begun(o)' = Begun(o) /\ \A i \in Begun(o) : i \in 1..Len(plan[o]) /\ i <= applied[o]
  BY <1>1, <1>2 DEF Begun
<1>4. \A d \in Dir, n \in Name :
        index'[d][n] = IF s.kind = "write"
                       THEN IF d = s.dir /\ n = s.name THEN tree[d][n] ELSE index[d][n]
                       ELSE IF d \in TouchedDirs(s) /\ (tree[d][n] # Absent \/ ~Exists(d))
                            THEN tree[d][n] ELSE index[d][n]
  BY <1>2 DEF AddPaths
<1>5. ASSUME NEW d \in Dir, NEW n \in Name,
             tree[d][n] = Absent, index[d][n] # Absent
      PROVE  ~Exists(d)
  BY <1>3, <1>5 DEF Behind
<1>6. ASSUME NEW d \in Dir, NEW n \in Name, Covers(s, d, n)
      PROVE  index'[d][n] = tree[d][n]
  <2>1. CASE s.kind = "write"
    BY <2>1, <1>4, <1>6 DEF Covers
  <2>2. CASE s.kind # "write"
    <3>1. d \in TouchedDirs(s)
      BY <2>2, <1>6 DEF Covers, TouchedDirs
    <3>2. CASE tree[d][n] # Absent \/ ~Exists(d)
      BY <3>1, <3>2, <2>2, <1>4
    <3>3. CASE tree[d][n] = Absent /\ Exists(d)
      BY <3>3, <2>2, <1>4, <1>5
    <3> QED
      BY <3>2, <3>3
  <2> QED
    BY <2>1, <2>2
<1>7. \A d \in Dir, n \in Name : index'[d][n] \in {tree[d][n], index[d][n]}
  BY <1>4
<1>8. ASSUME NEW d \in Dir, NEW n \in Name, tree[d][n] # index'[d][n]
      PROVE  \E i \in Begun(o) : k < i /\ Covers(plan[o][i], d, n)
  <2>1. PICK i \in Begun(o) : added[o] < i /\ Covers(plan[o][i], d, n)
    BY <1>7, <1>8 DEF Behind
  <2>2. i # k
    BY <2>1, <1>6, <1>8
  <2> QED
    BY <2>1, <2>2, <1>1, <1>3
<1>9. ASSUME NEW d \in Dir, NEW n \in Name,
             tree[d][n] = Absent, index'[d][n] # Absent
      PROVE  \E i \in Begun(o) : Empties(plan[o][i], d)
  BY <1>7, <1>9 DEF Behind
<1>10. k <= Len(plan[o])
  BY <1>1
<1> QED
  BY <1>2, <1>3, <1>8, <1>9, <1>10 DEF Behind, Exists

\* Once every step is staged the index is the data dir.
LEMMA NothingBehind ==
  ASSUME IInv, NEW o \in Op, Behind(o), status[o] = "git",
         added[o] = Len(plan[o])
  PROVE  index = tree
<1>1. applied[o] = Len(plan[o]) /\ Len(plan[o]) \in Nat
  BY PlanType DEF IInv, Progress
<1>2. \A i \in Begun(o) : ~(added[o] < i)
  BY <1>1 DEF Begun
<1>3. \A d \in Dir, n \in Name : index[d][n] = tree[d][n]
  BY <1>2 DEF Behind
<1> QED
  BY <1>3 DEF IInv, TypeOK, Tree

\* A failed, dead or uncommitted op stays so.
LEMMA WholeBefore ==
  ASSUME TypeOK, [Next]_vars, Whole'
  PROVE  Whole
<1> SUFFICES ASSUME NEW o \in Op, status[o] \in {"ungit", "failed", "crashed"}
             PROVE  status'[o] = status[o]
  BY DEF Whole
<1>1. CASE UNCHANGED vars
  BY <1>1 DEF vars
<1>2. ASSUME NEW q \in Op, Prepare(q) \/ Poll(q) \/ Crash(q)
      PROVE  status'[o] = status[o]
  BY <1>2 DEF TypeOK, Prepare, BeginOp, Declare, Abort, Commit, Poll, TryLock, Retry,
              GiveUp, Crash, Waiting, Holding
<1>3. ASSUME NEW q \in Op, Apply(q) \/ Git(q)
      PROVE  status'[o] = status[o]
  BY <1>3 DEF TypeOK, Apply, ApplyWrite, ApplyRename, ApplyRemoveOne, ApplyRemoveDone,
              ApplyFail, AppliedAll, CleanUp, Applying, Advance, Git, GitAdd,
              GitDone, GitFail, storeVars
<1>4. CASE Finished
  BY <1>4 DEF Finished, vars
<1> QED
  BY <1>1, <1>2, <1>3, <1>4 DEF Next

\* Steps that leave data dir, index, head and counters alone, and give the lock
\* to nobody.
LEMMA CommittedSame ==
  ASSUME TypeOK, LockExact, LockExact', NEW o \in Op, Committed, Whole, AutoCommit,
         \A q \in Op \ {o} : status'[q] = status[q] /\ plan'[q] = plan[q],
         status[o] \in {"git", "done"} => status'[o] \in {"git", "done"},
         plan'[o] = plan[o] \/ status'[o] \notin Holding,
         status'[o] \in Holding => status[o] \in Holding,
         flock' = None => flock = None,
         UNCHANGED <<tree, index, head, applied, added>>
  PROVE  Committed'
<1>1. ASSUME NEW q \in Op, status'[q] \notin {"git", "done"}
      PROVE  added'[q] = 0
  BY <1>1 DEF Committed
<1>2. ASSUME NEW q \in Op, status'[q] \in Holding
      PROVE  Behind(q)'
  BY <1>2, BehindSame DEF Committed
<1> QED
  BY <1>1, <1>2 DEF Committed

\* Every action keeps the index no further behind than that.
LEMMA CommittedStep ==
  ASSUME \A p \in Plan : NoRefill(p), IInv, Committed, [Next]_vars
  PROVE  Committed'
<1>0. IInv'
  BY InvStep
<1>a. TypeOK /\ LockExact /\ LockExact' /\ status \in [Op -> Status]
  BY <1>0 DEF IInv, TypeOK
<1> SUFFICES ASSUME AutoCommit, Whole'
             PROVE  Committed'
  BY DEF Committed
<1>b. Whole
  BY <1>a, WholeBefore
<1>c. \A o, q \in Op : status[o] \in Holding /\ status'[q] \in Holding
                         /\ status'[o] \in Holding => o = q
  BY <1>a DEF LockExact
<1>1. CASE UNCHANGED vars
  BY <1>1, <1>b, BehindSame DEF vars, Committed
<1>2. ASSUME NEW o \in Op, Prepare(o)
      PROVE  Committed'
  <2>1. CASE BeginOp(o)
    BY <2>1, <1>a, <1>b, CommittedSame DEF BeginOp, gitVars, TypeOK, Holding
  <2>2. CASE Declare(o)
    BY <2>2, <1>a, <1>b, CommittedSame DEF Declare, gitVars, TypeOK, Holding
  <2>3. CASE Abort(o)
    BY <2>3, <1>a, <1>b, CommittedSame DEF Abort, gitVars, TypeOK, Holding
  <2>4. CASE Commit(o)
    BY <2>4, <1>a, <1>b, CommittedSame DEF Commit, gitVars, TypeOK, Holding
  <2> QED
    BY <1>2, <2>1, <2>2, <2>3, <2>4 DEF Prepare
<1>3. ASSUME NEW o \in Op, Poll(o)
      PROVE  Committed'
  <2>1. CASE TryLock(o) /\ flock = None
    <3>1. /\ status' = [status EXCEPT ![o] = "apply"] /\ flock' = o
          /\ UNCHANGED <<plan, applied, tree, index, head, added>>
      BY <2>1 DEF TryLock, gitVars
    <3>2. index = tree /\ head = tree /\ added[o] = 0 /\ applied[o] = 0
      BY <2>1, <1>b DEF Committed, TryLock, IInv, Progress, Waiting
    <3>3. Len(plan[o]) \in Nat
      BY <1>a, PlanType
    <3>4. Behind(o)'
      <4>1. \A i \in Begun(o)' : ~(i <= 0)
        BY <3>1 DEF Begun
      <4> QED
        BY <3>1, <3>2, <3>3, <4>1 DEF Behind
    <3>5. \A q \in Op : status'[q] \in Holding => q = o
      BY <1>a, <3>1 DEF LockExact
    <3>6. \A q \in Op : status'[q] \notin {"git", "done"} => added'[q] = 0
      BY <3>1, <3>2, <1>b, <1>a DEF Committed
    <3> QED
      BY <3>1, <3>4, <3>5, <3>6, NoneAssumption DEF Committed
  <2>2. CASE TryLock(o) /\ flock # None
    BY <2>2, <1>a, <1>b, CommittedSame DEF TryLock, gitVars, TypeOK, Holding
  <2>3. CASE Retry(o)
    BY <2>3, <1>a, <1>b, CommittedSame DEF Retry, gitVars, TypeOK, Holding
  <2>4. CASE GiveUp(o)
    BY <2>4, <1>a, <1>b, CommittedSame DEF GiveUp, gitVars, TypeOK, Holding
  <2> QED
    BY <1>3, <2>1, <2>2, <2>3, <2>4 DEF Poll
<1>4. ASSUME NEW o \in Op, Apply(o)
      PROVE  Committed'
  <2>0. /\ NoRefill(plan[o])
        /\ status[o] = "apply" => Behind(o) /\ added[o] = 0
    BY <1>a, <1>b, PlanNoRefill DEF Committed, Holding
  <2>1. ASSUME status[o] = "apply", Behind(o)',
               UNCHANGED <<status, flock, index, head, added>>
        PROVE  Committed'
    <3>1. flock # None /\ \A q \in Op : status'[q] \in Holding => q = o
      BY <2>1, <1>a, <1>c, NoneAssumption DEF LockExact, Holding
    <3> QED
      BY <2>1, <3>1, <1>b DEF Committed
  <2>2. CASE ApplyWrite(o)
    BY <2>2, <2>0, <2>1, WriteBehind DEF ApplyWrite, Applying, Advance, gitVars
  <2>3. CASE ApplyRename(o)
    BY <2>3, <2>0, <2>1, RenameBehind DEF ApplyRename, Applying, Advance, gitVars
  <2>4. CASE ApplyRemoveOne(o)
    BY <2>4, <2>0, <2>1, RemoveBehind DEF ApplyRemoveOne, Applying, gitVars
  <2>5. CASE ApplyRemoveDone(o)
    BY <2>5, <2>0, <2>1, RemovedBehind DEF ApplyRemoveDone, Applying, Advance, gitVars
  <2>6. CASE ApplyFail(o)
    BY <2>6, <1>a DEF ApplyFail, Whole
  <2>7. CASE AppliedAll(o)
    BY <2>7, <1>a, <1>b, CommittedSame DEF AppliedAll, gitVars, TypeOK, Holding
  <2>8. CASE CleanUp(o)
    BY <2>8, <1>a, <1>b, CommittedSame DEF CleanUp, gitVars, TypeOK, Holding
  <2> QED
    BY <1>4, <2>2, <2>3, <2>4, <2>5, <2>6, <2>7, <2>8 DEF Apply
<1>5. ASSUME NEW o \in Op, Git(o)
      PROVE  Committed'
  <2>0. status[o] = "git" /\ Behind(o)
    BY <1>5, <1>b DEF Git, GitAdd, GitDone, GitFail, Committed, Holding
  <2>1. CASE GitAdd(o)
    <3>1. /\ UNCHANGED <<status, flock, head, tree>>
          /\ \A q \in Op \ {o} : added'[q] = added[q]
      BY <2>1 DEF GitAdd, storeVars, TypeOK
    <3>2. flock # None /\ \A q \in Op : status'[q] \in Holding => q = o
      BY <2>0, <3>1, <1>a, <1>c, NoneAssumption DEF LockExact, Holding
    <3>3. Behind(o)'
      BY <2>0, <2>1, AddBehind
    <3> QED
      BY <2>0, <3>1, <3>2, <3>3, <1>b DEF Committed
  <2>2. CASE GitDone(o)
    <3>1. /\ status' = [status EXCEPT ![o] = "done"] /\ flock' = None /\ head' = index
          /\ UNCHANGED <<tree, index, added>>
      BY <2>2 DEF GitDone
    <3>2. index = tree
      BY <2>0, <2>2, NothingBehind DEF GitDone
    <3>3. \A q \in Op : status'[q] \notin Holding
      BY <3>1, <1>a, NoneAssumption DEF LockExact
    <3>4. \A q \in Op : status'[q] \notin {"git", "done"} => added'[q] = 0
      BY <3>1, <1>a, <1>b DEF Committed
    <3> QED
      BY <3>1, <3>2, <3>3, <3>4 DEF Committed
  <2>3. CASE GitFail(o)
    BY <2>3, <1>a DEF GitFail, Whole
  <2> QED
    BY <1>5, <2>1, <2>2, <2>3 DEF Git
<1>6. ASSUME NEW o \in Op, Crash(o)
      PROVE  Committed'
  BY <1>6, <1>a DEF Crash, Whole
<1>7. CASE Finished
  BY <1>7, <1>1 DEF Finished
<1> QED
  BY <1>1, <1>2, <1>3, <1>4, <1>5, <1>6, <1>7 DEF Next

\* While no op has died, failed or missed its git commit, the last commit is
\* the data dir whenever the lock is free (git.go gitCommit), for handlers
\* whose steps do not fill a directory they emptied.
THEOREM HeadKeepsUp ==
  ASSUME \A p \in Plan : NoRefill(p)
  PROVE  Spec => []HeadIsDisk
<1>1. Init => Committed
  BY DEF Init, Committed, Holding
<1>2. IInv /\ Committed /\ [Next]_vars => Committed'
  BY CommittedStep
<1>3. Committed => HeadIsDisk
  BY DEF Committed, Whole, HeadIsDisk
<1> QED
  BY <1>1, <1>2, <1>3, Invariance, PTL DEF Spec
=============================================================================
