------------------------------- MODULE StageOp -------------------------------
(***************************************************************************)
(* internal/store: the staged mutation (stage.go) under the advisory file  *)
(* lock (lock.go, lock_unix.go) with its git auto-commit (git.go).         *)
(*                                                                         *)
(* Every mutating handler of the service runs one StageOp: BeginOp makes   *)
(* .staging/<op-id>/, each Write stages a file there, RenameDir and        *)
(* RemovePath only record their arguments, Commit takes the flock and      *)
(* applies the declared steps in order.  An op lives in one goroutine of   *)
(* one process and is used once, so the ops are the actors; two ops of one *)
(* process exclude each other exactly as two processes do, because flock   *)
(* belongs to the file handle and every Commit opens its own.              *)
(*                                                                         *)
(* A file is a name in a directory and its content is the op that wrote    *)
(* it.  A directory exists while it holds a file: the store's walkers skip *)
(* a directory without ticket.yaml, so no handler ever names an empty one. *)
(***************************************************************************)
EXTENDS Naturals, Sequences

CONSTANTS
  Op,          \* the staged operations, each run once
  Dir, Name,   \* directories of the data dir and the files in one
  Plan,        \* the step lists the handlers declare
  InitTree,    \* what the data dir holds at the start
  AutoCommit,  \* Store.AutoCommit, in a git repository
  Hung,        \* the ops whose process may stop running for good, yet live on
  Absent, None

(***************************************************************************)
(* One declared step: stage.go's writeOp, renameOp and removeOp.           *)
(***************************************************************************)
WriteStep == [kind: {"write"}, dir: Dir, name: Name]
RenameStep == [kind: {"rename"}, from: Dir, to: Dir]
RemoveStep == [kind: {"remove"}, dir: Dir]
Step == WriteStep \cup RenameStep \cup RemoveStep

Tree == [Dir -> [Name -> Op \cup {"init", Absent}]]

ASSUME PlanAssumption == Plan \subseteq Seq(Step)
ASSUME TreeAssumption == InitTree \in Tree
ASSUME ConfigAssumption == AutoCommit \in BOOLEAN
ASSUME HungAssumption == Hung \subseteq Op
ASSUME NoneAssumption == None \notin Op
ASSUME AbsentAssumption == Absent \notin Op /\ Absent # "init"

VARIABLES
  status,    \* where each op stands
  plan,      \* the steps the handler will declare
  declared,  \* how many of them it has declared: len(o.ops)
  applied,   \* how many of them Commit has applied
  staging,   \* the ops whose .staging/<op-id>/ exists
  staged,    \* the write steps whose file lies in it
  tree,      \* the data dir
  flock,     \* the op holding the lock file
  index,     \* the git index, restricted to the data dir
  head,      \* the tree of the last git commit
  added,     \* how many steps' touched paths gitCommit has staged
  dirty      \* the ops that have changed the data dir (history)

storeVars == <<status, plan, declared, applied, staging, staged, tree, flock>>
gitVars == <<index, head, added>>
vars == <<status, plan, declared, applied, staging, staged, tree, flock,
          index, head, added, dirty>>

Fresh == {"idle"}
Waiting == {"try", "wait"}                     \* inside acquireFlock
Holding == {"apply", "clean", "git"}           \* between acquire and close
Ended == {"done", "ungit", "failed", "refused", "aborted", "crashed"}
Status == Fresh \cup {"open"} \cup Waiting \cup Holding \cup Ended

TypeOK ==
  /\ status \in [Op -> Status]
  /\ plan \in [Op -> Plan \cup {<<>>}]
  /\ declared \in [Op -> Nat]
  /\ applied \in [Op -> Nat]
  /\ staging \subseteq Op
  /\ staged \in [Op -> SUBSET Nat]
  /\ tree \in Tree
  /\ flock \in Op \cup {None}
  /\ index \in Tree
  /\ head \in Tree
  /\ added \in [Op -> Nat]
  /\ dirty \subseteq Op

Init ==
  /\ status = [o \in Op |-> "idle"]
  /\ plan = [o \in Op |-> <<>>]
  /\ declared = [o \in Op |-> 0]
  /\ applied = [o \in Op |-> 0]
  /\ staging = {}
  /\ staged = [o \in Op |-> {}]
  /\ tree = InitTree
  /\ flock = None
  /\ index = InitTree
  /\ head = InitTree
  /\ added = [o \in Op |-> 0]
  /\ dirty = {}

-----------------------------------------------------------------------------
(* Preparing: no lock is held and the data dir is not touched.             *)

\* The handler has worked out its steps and calls BeginOp.
BeginOp(o) ==
  /\ status[o] = "idle"
  /\ \E p \in Plan : plan' = [plan EXCEPT ![o] = p]
  /\ status' = [status EXCEPT ![o] = "open"]
  /\ staging' = staging \cup {o}
  /\ UNCHANGED <<declared, applied, staged, tree, flock, gitVars, dirty>>

\* The next Write, RenameDir or RemovePath call: Write puts the file on disk
\* under .staging at once, the other two only append to o.ops.
Declare(o) ==
  /\ status[o] = "open"
  /\ declared[o] < Len(plan[o])
  /\ declared' = [declared EXCEPT ![o] = @ + 1]
  /\ staged' = IF plan[o][declared[o] + 1].kind = "write"
               THEN [staged EXCEPT ![o] = @ \cup {declared[o] + 1}]
               ELSE staged
  /\ UNCHANGED <<status, plan, applied, staging, tree, flock, gitVars, dirty>>

\* The handler returns early: its deferred Abort removes the staging dir.
Abort(o) ==
  /\ status[o] = "open"
  /\ status' = [status EXCEPT ![o] = "aborted"]
  /\ staging' = staging \ {o}
  /\ staged' = [staged EXCEPT ![o] = {}]
  /\ UNCHANGED <<plan, declared, applied, tree, flock, gitVars, dirty>>

\* Commit marks the op committed before it asks for the lock, so from here on
\* the deferred Abort does nothing, whatever Commit returns.
Commit(o) ==
  /\ status[o] = "open"
  /\ declared[o] = Len(plan[o])
  /\ status' = [status EXCEPT ![o] = "try"]
  /\ UNCHANGED <<plan, declared, applied, staging, staged, tree, flock,
                 gitVars, dirty>>

-----------------------------------------------------------------------------
(* acquireFlock: poll without blocking until it succeeds or gives up.      *)

TryLock(o) ==
  /\ status[o] = "try"
  /\ IF flock = None
     THEN /\ flock' = o
          /\ status' = [status EXCEPT ![o] = "apply"]
     ELSE /\ flock' = flock
          /\ status' = [status EXCEPT ![o] = "wait"]
  /\ UNCHANGED <<plan, declared, applied, staging, staged, tree, gitVars, dirty>>

\* 50ms later.
Retry(o) ==
  /\ status[o] = "wait"
  /\ status' = [status EXCEPT ![o] = "try"]
  /\ UNCHANGED <<plan, declared, applied, staging, staged, tree, flock,
                 gitVars, dirty>>

\* The deadline has passed, or the caller's context is cancelled: Commit
\* returns an error and the staging dir stays.
GiveUp(o) ==
  /\ status[o] = "wait"
  /\ status' = [status EXCEPT ![o] = "refused"]
  /\ UNCHANGED <<plan, declared, applied, staging, staged, tree, flock,
                 gitVars, dirty>>

-----------------------------------------------------------------------------
(* Applying, under the lock.                                               *)

Exists(d) == \E n \in Name : tree[d][n] # Absent
EmptyDir == [n \in Name |-> Absent]

\* The step Commit applies next.
Applying(o) == status[o] = "apply" /\ applied[o] < Len(plan[o])
Current(o) == plan[o][applied[o] + 1]

Advance(o) ==
  /\ applied' = [applied EXCEPT ![o] = @ + 1]
  /\ UNCHANGED <<status, plan, declared, staging, flock, gitVars>>

\* writeOp.apply: one os.Rename from the staging dir into place.
ApplyWrite(o) ==
  /\ Applying(o)
  /\ Current(o).kind = "write"
  /\ tree' = [tree EXCEPT ![Current(o).dir][Current(o).name] = o]
  /\ staged' = [staged EXCEPT ![o] = @ \ {applied[o] + 1}]
  /\ dirty' = dirty \cup {o}
  /\ Advance(o)

\* renameOp.apply: os.Rename refuses a missing source and a target that is a
\* directory.
ApplyRename(o) ==
  /\ Applying(o)
  /\ Current(o).kind = "rename"
  /\ LET from == Current(o).from  to == Current(o).to
     IN /\ Exists(from)
        /\ ~Exists(to)
        /\ tree' = [tree EXCEPT ![to] = tree[from], ![from] = EmptyDir]
  /\ dirty' = dirty \cup {o}
  /\ Advance(o)
  /\ UNCHANGED staged

\* removeOp.apply is os.RemoveAll, which unlinks file by file.
ApplyRemoveOne(o) ==
  /\ Applying(o)
  /\ Current(o).kind = "remove"
  /\ \E n \in Name :
       /\ tree[Current(o).dir][n] # Absent
       /\ tree' = [tree EXCEPT ![Current(o).dir][n] = Absent]
  /\ dirty' = dirty \cup {o}
  /\ UNCHANGED <<status, plan, declared, applied, staging, staged, flock, gitVars>>

ApplyRemoveDone(o) ==
  /\ Applying(o)
  /\ Current(o).kind = "remove"
  /\ ~Exists(Current(o).dir)
  /\ Advance(o)
  /\ UNCHANGED <<staged, tree, dirty>>

\* Mutant: a failed Commit removes its staging dir.
ApplyFailClean(o) ==
  /\ Applying(o)
  /\ status' = [status EXCEPT ![o] = "failed"]
  /\ flock' = None
  /\ staging' = staging \ {o}
  /\ UNCHANGED <<plan, declared, applied, staged, tree, gitVars, dirty>>

\* Mutant: a step that fails is skipped and the rest is applied.
ApplyFailSkip(o) ==
  /\ Applying(o)
  /\ Advance(o)
  /\ UNCHANGED <<staged, tree, dirty>>

\* Mutant: the error path does not close the lock file.
ApplyFailKeeps(o) ==
  /\ Applying(o)
  /\ status' = [status EXCEPT ![o] = "failed"]
  /\ UNCHANGED <<plan, declared, applied, staging, staged, tree, flock,
                 gitVars, dirty>>

\* Any apply may return an error: the staging dir is left for the integrity
\* check, the lock is released, the steps already applied stay applied.
ApplyFail(o) ==
  /\ Applying(o)
  /\ status' = [status EXCEPT ![o] = "failed"]
  /\ flock' = None
  /\ UNCHANGED <<plan, declared, applied, staging, staged, tree, gitVars, dirty>>

\* Every step is in place.
AppliedAll(o) ==
  /\ status[o] = "apply"
  /\ applied[o] = Len(plan[o])
  /\ status' = [status EXCEPT ![o] = "clean"]
  /\ UNCHANGED <<plan, declared, applied, staging, staged, tree, flock,
                 gitVars, dirty>>

\* Mutant: the lock is released before gitCommit runs.
CleanUpEarly(o) ==
  /\ status[o] = "clean"
  /\ staging' = staging \ {o}
  /\ staged' = [staged EXCEPT ![o] = {}]
  /\ status' = [status EXCEPT ![o] = "git"]
  /\ flock' = None
  /\ UNCHANGED <<plan, declared, applied, tree, gitVars, dirty>>

\* RemoveAll of the staging dir; a failure is only logged.  Without
\* auto-commit this is the last thing done under the lock.
CleanUp(o) ==
  /\ status[o] = "clean"
  /\ \E removed \in BOOLEAN :
       /\ staging' = IF removed THEN staging \ {o} ELSE staging
       /\ staged' = IF removed THEN [staged EXCEPT ![o] = {}] ELSE staged
  /\ IF AutoCommit
     THEN /\ status' = [status EXCEPT ![o] = "git"]
          /\ flock' = flock
     ELSE /\ status' = [status EXCEPT ![o] = "done"]
          /\ flock' = None
  /\ UNCHANGED <<plan, declared, applied, tree, gitVars, dirty>>

-----------------------------------------------------------------------------
(* gitCommit, still under the lock.                                        *)

\* Mutant: only the destination of a move is staged for git.
TouchedDirsTo(s) ==
  CASE s.kind = "rename" -> {s.to}
    [] s.kind = "remove" -> {s.dir}
    [] OTHER -> {}

\* touchedPaths: a file, both ends of a move, or the removed directory.
TouchedDirs(s) ==
  CASE s.kind = "rename" -> {s.from, s.to}
    [] s.kind = "remove" -> {s.dir}
    [] OTHER -> {}

\* Staging a path that exists adds the files now in it; staging one that is
\* gone drops every entry at or beneath it (stageRemovedUnder).
AddPaths(s) ==
  [d \in Dir |-> [n \in Name |->
     IF s.kind = "write"
     THEN IF d = s.dir /\ n = s.name THEN tree[d][n] ELSE index[d][n]
     ELSE IF d \in TouchedDirs(s) /\ (tree[d][n] # Absent \/ ~Exists(d))
          THEN tree[d][n]
          ELSE index[d][n]]]

GitAdd(o) ==
  /\ status[o] = "git"
  /\ added[o] < Len(plan[o])
  /\ index' = AddPaths(plan[o][added[o] + 1])
  /\ added' = [added EXCEPT ![o] = @ + 1]
  /\ UNCHANGED <<storeVars, head, dirty>>

GitDone(o) ==
  /\ status[o] = "git"
  /\ added[o] = Len(plan[o])
  /\ head' = index
  /\ status' = [status EXCEPT ![o] = "done"]
  /\ flock' = None
  /\ UNCHANGED <<plan, declared, applied, staging, staged, tree, index, added,
                 dirty>>

\* A git error is logged and the op still succeeds.
GitFail(o) ==
  /\ status[o] = "git"
  /\ status' = [status EXCEPT ![o] = "ungit"]
  /\ flock' = None
  /\ UNCHANGED <<plan, declared, applied, staging, staged, tree, gitVars, dirty>>

-----------------------------------------------------------------------------
\* The process dies: the kernel drops its lock, the disk keeps what it has.
Crash(o) ==
  /\ status[o] \in {"open"} \cup Waiting \cup Holding
  /\ status' = [status EXCEPT ![o] = "crashed"]
  /\ flock' = IF flock = o THEN None ELSE flock
  /\ UNCHANGED <<plan, declared, applied, staging, staged, tree, gitVars, dirty>>

\* Every op has run: nothing is left to do.
Finished ==
  /\ \A o \in Op : status[o] \in Ended
  /\ UNCHANGED vars

Prepare(o) == BeginOp(o) \/ Declare(o) \/ Abort(o) \/ Commit(o)
Poll(o) == TryLock(o) \/ Retry(o) \/ GiveUp(o)
Apply(o) ==
  \/ ApplyWrite(o) \/ ApplyRename(o) \/ ApplyRemoveOne(o) \/ ApplyRemoveDone(o)
  \/ ApplyFail(o) \/ AppliedAll(o) \/ CleanUp(o)
Git(o) == GitAdd(o) \/ GitDone(o) \/ GitFail(o)

Next ==
  \/ \E o \in Op : Prepare(o) \/ Poll(o) \/ Apply(o) \/ Git(o) \/ Crash(o)
  \/ Finished

Spec == Init /\ [][Next]_vars

\* The poll loop runs on timers, so it keeps polling and its deadline comes.
PollFairness ==
  \A o \in Op \ Hung : WF_vars(TryLock(o) \/ Retry(o)) /\ SF_vars(GiveUp(o))

\* The holder runs straight-line code: each step it can take, it takes.
HolderFairness == \A o \in Op \ Hung : WF_vars(Apply(o) \/ Git(o))


-----------------------------------------------------------------------------
(* Properties.                                                             *)

(* The lock file names exactly the op that is between acquiring it and     *)
(* closing it (lock.go withLock, lock_unix.go acquireFlock).               *)
LockExact ==
  \A o \in Op : status[o] \in Holding <=> flock = o

(* Until Commit has the lock, an op leaves no trace in the data dir; a     *)
(* refused or aborted one never does (SPEC "Failure between prepare and    *)
(* apply leaves staging-dir residue but no on-disk damage").               *)
NoEffectBeforeLock ==
  \A o \in Op : status[o] \in Fresh \cup {"open", "refused", "aborted"} \cup Waiting
                  => o \notin dirty

(* Legible recovery (stage.go Commit): an op that changed the data dir and *)
(* did not apply all its steps, whether it is still running, failed or     *)
(* died, has its staging dir on disk, where the integrity check sees it.   *)
PartialIsLegible ==
  \A o \in dirty : applied[o] = Len(plan[o]) \/ o \in staging

(* Nothing a handler staged is lost before it is in place: every declared  *)
(* write that Commit has not applied still lies in the staging dir of the  *)
(* op, so that a dead or failed op can be finished by hand.                *)
StagedUntilApplied ==
  \A o \in Op : status[o] # "aborted" =>
    \A i \in 1..Len(plan[o]) :
      (applied[o] < i /\ i <= declared[o] /\ plan[o][i].kind = "write")
        => i \in staged[o] /\ o \in staging

\* The directory a step empties, and the one it puts files in.
Empties(s, d) ==
  \/ s.kind = "rename" /\ d = s.from
  \/ s.kind = "remove" /\ d = s.dir
Fills(s, d) ==
  \/ s.kind = "write" /\ d = s.dir
  \/ s.kind = "rename" /\ d = s.to

\* What HeadIsDisk needs of a handler's steps: none puts files into a directory
\* an earlier one emptied (AssignTicketToPhase writes at the new path, the
\* deletions remove last).
NoRefill(p) ==
  \A i, j \in 1..Len(p), d \in Dir :
    i < j /\ Empties(p[i], d) => ~Fills(p[j], d)

(* The audit trail is complete: while no op has died, failed or missed its *)
(* git commit, the last commit holds the data dir whenever the lock is     *)
(* free (git.go gitCommit; renameOp.touchedPaths, "the tree then holds the *)
(* same ticket at both paths").                                            *)
HeadIsDisk ==
  (/\ AutoCommit
   /\ flock = None
   /\ \A o \in Op : status[o] \notin {"ungit", "failed", "crashed"})
    => head = tree

(* Only the lock holder changes the data dir, the git index and the head,  *)
(* and it does not give the lock up in a step that changes the data dir.   *)
HolderWrites ==
  [][/\ tree' # tree => flock # None /\ flock' = flock
     /\ (index' # index \/ head' # head) => flock # None]_vars

(* acquireFlock returns, with the lock or with an error, even when the     *)
(* holder hangs and never lets go (SPEC "a configurable timeout to surface *)
(* deadlocks rather than hang").                                           *)
PollReturns ==
  \A o \in Op \ Hung : status[o] \in Waiting ~> status[o] \notin Waiting

(* A process that keeps running always gives the lock back: on success, on *)
(* an apply error, on a git error and when it dies (withLock's deferred    *)
(* Close, and the kernel).                                                 *)
LockReturns ==
  \A o \in Op \ Hung : flock = o ~> flock # o

(* Nobody waits for the project's lock for ever, and nobody keeps it.      *)
LockIsLive == PollReturns /\ LockReturns
=============================================================================
