------------------------------- MODULE Tickets -------------------------------
(***************************************************************************)
(* internal/svc: the ticket handlers (tickets.go, tickets_phase.go,        *)
(* ideation.go, archive.go) over the data dir of one project.              *)
(*                                                                         *)
(* Every handler has one shape.  Under the write lock of its LoadedProject *)
(* it checks the request against the cached tickets, reads the record it   *)
(* will rewrite from disk, declares the steps of a StageOp, commits them   *)
(* under the project's file lock, and only then updates the cache.  Checks *)
(* and reads happen BEFORE the file lock.  A slot is one LoadedProject: a  *)
(* process has one at a time, save when a stale one was replaced under a   *)
(* running handler, and every process on the data dir has its own.         *)
(*                                                                         *)
(* Of ticket.yaml the model keeps number, column, phase, archived, kind    *)
(* and depends_on; of the comments, what the last system comment of each   *)
(* sort announces.  Ticket directories differ by ticket.                   *)
(***************************************************************************)
EXTENDS Naturals, Sequences, SequencesExt, FiniteSetsExt

CONSTANTS
  Slot,      \* the LoadedProjects that handle requests
  Ticket,    \* ticket ids (fresh uuids)
  NPhase,    \* how many phases the project has
  Enforce,   \* Cfg.EnforceDependencies
  MaxOps,    \* bound: handlers that reach their Commit
  None

ASSUME PhaseAssumption == NPhase \in Nat
ASSUME EnforceAssumption == Enforce \in BOOLEAN
ASSUME MaxOpsAssumption == MaxOps \in Nat

Loc == 0..NPhase   \* where a ticket dir can lie: 0 is tickets/, p is phase p
Column == {"todo", "in_progress", "testing", "done"}
Kind == {"work", "idea"}
Rec == [num: Nat, col: Column, phase: Loc, archived: BOOLEAN, kind: Kind,
        deps: SUBSET Ticket]

\* What the system comments of a ticket dir announce last, None before any.
Trail == [col: Column \cup {None}, phase: Loc \cup {None},
          archived: BOOLEAN \cup {None}, kind: Kind \cup {None}]
Files == [yaml: Rec \cup {None}, body: BOOLEAN, completion: BOOLEAN, trail: Trail]

ASSUME NoneAssumption ==
  /\ None \notin Slot /\ None \notin Rec
  /\ None \notin Column /\ None \notin Loc /\ None \notin BOOLEAN /\ None \notin Kind

NoTrail == [col |-> None, phase |-> None, archived |-> None, kind |-> None]
Gone == [yaml |-> None, body |-> FALSE, completion |-> FALSE, trail |-> NoTrail]

\* The steps a handler declares.
YamlStep == [act: {"yaml"}, loc: Loc, t: Ticket, rec: Rec]
BodyStep == [act: {"body"}, loc: Loc, t: Ticket]
CompletionStep == [act: {"completion"}, loc: Loc, t: Ticket]
NoteStep == [act: {"note"}, loc: Loc, t: Ticket, says: Trail]
RenameStep == [act: {"rename"}, loc: Loc, to: Loc, t: Ticket]
RemoveStep == [act: {"remove"}, loc: Loc, t: Ticket]
Step == YamlStep \cup BodyStep \cup CompletionStep \cup NoteStep
          \cup RenameStep \cup RemoveStep

VARIABLES
  disk,      \* the ticket dirs: [Loc -> [Ticket -> Files]]
  cache,     \* what each slot has loaded: lp.Tickets, or None
  job,       \* the handler running in each slot, from its checks to its end
  lock,      \* the slot holding the project's file lock
  born,      \* ids already used (history)
  started,   \* how many handlers have begun (bound)
  cut,       \* a handler that had changed the disk did not finish (history)
  unseen     \* the tickets whose completion is on disk while the slot, its
             \* commit having failed, was told it is not (history)

vars == <<disk, cache, job, lock, born, started, cut, unseen>>

Cached == [Ticket -> Rec \cup {None}]
Job == [todo: Seq(Step), cached: Cached, touched: BOOLEAN]

ASSUME NoneIsNoJob == None \notin Job

TypeOK ==
  /\ disk \in [Loc -> [Ticket -> Files]]
  /\ cache \in [Slot -> Cached \cup {None}]
  /\ job \in [Slot -> Job \cup {None}]
  /\ lock \in Slot \cup {None}
  /\ born \subseteq Ticket
  /\ started \in 0..MaxOps
  /\ cut \in BOOLEAN
  /\ unseen \in [Slot -> SUBSET Ticket]

Init ==
  /\ disk = [l \in Loc |-> [t \in Ticket |-> Gone]]
  /\ cache = [v \in Slot |-> None]
  /\ job = [v \in Slot |-> None]
  /\ lock = None
  /\ born = {}
  /\ started = 0
  /\ cut = FALSE
  /\ unseen = [v \in Slot |-> {}]

-----------------------------------------------------------------------------
(* Reading the data dir.                                                   *)

HasYaml(t) == {l \in Loc : disk[l][t].yaml # None}
OnDisk == {t \in Ticket : HasYaml(t) # {}}

\* findTicketDir and the loader walk tickets/ first and then the phases in
\* order, and the last match wins.
DirOf(t) == Max(HasYaml(t))
RecordOf(t) == disk[DirOf(t)][t].yaml
Done(t) == t \in OnDisk /\ RecordOf(t).col = "done"

DiskView == [t \in Ticket |-> IF t \in OnDisk THEN RecordOf(t) ELSE None]

\* Mutant: numbers are counted, not scanned.
NextNumberCounted == 1 + Cardinality(OnDisk)

\* nextTicketNumber.
NextNumber ==
  1 + Max({0} \cup UNION {{disk[l][t].yaml.num : l \in HasYaml(t)} : t \in Ticket})

\* Cache.Get when the slot's project is unloaded, evicted or stale: no handler
\* of the slot runs, and nothing else need hold still.
Load(v) ==
  /\ job[v] = None
  /\ cache' = [cache EXCEPT ![v] = DiskView]
  /\ unseen' = [unseen EXCEPT ![v] = {}]
  /\ UNCHANGED <<disk, job, lock, born, started, cut>>

-----------------------------------------------------------------------------
(* Handlers, up to their Commit.                                           *)

Idle(v) == job[v] = None /\ cache[v] # None
Known(v) == {t \in Ticket : cache[v][t] # None}
KnownWork(v) == {t \in Known(v) : cache[v][t].kind = "work"}

Begin(v, todo, cached) ==
  /\ started < MaxOps
  /\ started' = started + 1
  /\ job' = [job EXCEPT ![v] = [todo |-> todo, cached |-> cached, touched |-> FALSE]]
  /\ UNCHANGED <<disk, cache, lock, cut, unseen>>

WriteYaml(l, t, rec) == [act |-> "yaml", loc |-> l, t |-> t, rec |-> rec]
WriteBody(l, t) == [act |-> "body", loc |-> l, t |-> t]
WriteCompletion(l, t) == [act |-> "completion", loc |-> l, t |-> t]
WriteNote(l, t, says) == [act |-> "note", loc |-> l, t |-> t, says |-> says]
Rename(from, to, t) == [act |-> "rename", loc |-> from, to |-> to, t |-> t]
RemoveDir(l, t) == [act |-> "remove", loc |-> l, t |-> t]

\* CreateTicket: depends_on must name cached work tickets.
CreateTicket(v) ==
  \E t \in Ticket \ born, ph \in Loc, kind \in Kind, deps \in SUBSET KnownWork(v) :
    LET rec == [num |-> NextNumber, col |-> "todo", phase |-> ph,
                archived |-> FALSE, kind |-> kind, deps |-> deps]
    IN /\ Begin(v, <<WriteYaml(ph, t, rec), WriteBody(ph, t)>>,
                [cache[v] EXCEPT ![t] = rec])
       /\ born' = born \cup {t}

\* Mutant: only cycles of two tickets are looked for.
CreatesCycleDirect(v, t, deps) == \E x \in deps : t \in cache[v][x].deps

\* dependencyUpdateCreatesCycle: the cached edges lead from deps back to t.
CreatesCycle(v, t, deps) ==
  \A reached \in SUBSET Ticket :
    (/\ deps \subseteq reached
     /\ \A x \in reached \cap Known(v) : cache[v][x].deps \subseteq reached)
      => t \in reached

\* validateTicketRefs and the cycle check, or depends_on left out.
AllowedDeps(v, t) ==
  {cache[v][t].deps} \cup
  {deps \in SUBSET (KnownWork(v) \ {t}) : ~CreatesCycle(v, t, deps)}

\* UpdateTicket: every column may be updated, done too.
UpdateTicket(v) ==
  \E t \in Known(v) \cap OnDisk, withBody \in BOOLEAN :
    \E deps \in AllowedDeps(v, t) :
      LET l == DirOf(t)
          yaml == WriteYaml(l, t, [RecordOf(t) EXCEPT !.deps = deps])
      IN /\ Begin(v, IF withBody THEN <<yaml, WriteBody(l, t)>> ELSE <<yaml>>,
                  [cache[v] EXCEPT ![t].deps = deps])
         /\ UNCHANGED born

\* Mutant: a dependency in testing no longer blocks.
UnblockedByTesting(v, t) ==
  \A d \in cache[v][t].deps :
    cache[v][d] # None /\ cache[v][d].col \in {"testing", "done"}

\* computeBlockedBy is empty: every dependency is cached and done.
Unblocked(v, t) ==
  \A d \in cache[v][t].deps : cache[v][d] # None /\ cache[v][d].col = "done"

\* Mutant: the check for a done ticket is missing.
MoveTicketAny(v) ==
  \E t \in Known(v) \cap OnDisk, target \in Column \ {"done"} :
    LET l == DirOf(t)
    IN /\ cache[v][t].kind = "idea" => target = "todo"
       /\ target = "in_progress" /\ Enforce => Unblocked(v, t)
       /\ Begin(v, <<WriteYaml(l, t, [RecordOf(t) EXCEPT !.col = target]),
                     WriteNote(l, t, [NoTrail EXCEPT !.col = target])>>,
                [cache[v] EXCEPT ![t].col = target])
       /\ UNCHANGED born

\* MoveTicket.
MoveTicket(v) ==
  \E t \in Known(v) \cap OnDisk, target \in Column \ {"done"} :
    LET l == DirOf(t)
    IN /\ cache[v][t].col # "done"
       /\ cache[v][t].kind = "idea" => target = "todo"
       /\ target = "in_progress" /\ Enforce => Unblocked(v, t)
       /\ Begin(v, <<WriteYaml(l, t, [RecordOf(t) EXCEPT !.col = target]),
                     WriteNote(l, t, [NoTrail EXCEPT !.col = target])>>,
                [cache[v] EXCEPT ![t].col = target])
       /\ UNCHANGED born

\* CompleteTicket: from any other column, whatever the dependencies.
CompleteTicket(v) ==
  \E t \in KnownWork(v) \cap OnDisk :
    LET l == DirOf(t)
    IN /\ cache[v][t].col # "done"
       /\ Begin(v, <<WriteYaml(l, t, [RecordOf(t) EXCEPT !.col = "done"]),
                     WriteCompletion(l, t),
                     WriteNote(l, t, [NoTrail EXCEPT !.col = "done"])>>,
                [cache[v] EXCEPT ![t].col = "done"])
       /\ UNCHANGED born

\* Mutant: dependents are rewritten on disk and not in the cache.
DeleteTicketStale(v) ==
  \E t \in Known(v) \cap OnDisk :
    LET dependents == {x \in Known(v) \ {t} : t \in cache[v][x].deps}
        rewrite(x) == WriteYaml(DirOf(x), x, [RecordOf(x) EXCEPT !.deps = @ \ {t}])
    IN /\ cache[v][t].col # "done"
       /\ dependents \subseteq OnDisk
       /\ \E order \in SetToSeqs(dependents) :
            Begin(v, [i \in 1..Len(order) |-> rewrite(order[i])]
                       \o <<RemoveDir(DirOf(t), t)>>,
                  [cache[v] EXCEPT ![t] = None])
       /\ UNCHANGED born

\* DeleteTicket: every cached dependent is rewritten first, in map order.
DeleteTicket(v) ==
  \E t \in Known(v) \cap OnDisk :
    LET dependents == {x \in Known(v) \ {t} : t \in cache[v][x].deps}
        rewrite(x) == WriteYaml(DirOf(x), x, [RecordOf(x) EXCEPT !.deps = @ \ {t}])
        pruned == [x \in Ticket |->
                     IF x = t THEN None
                     ELSE IF x \in dependents
                          THEN [cache[v][x] EXCEPT !.deps = @ \ {t}]
                          ELSE cache[v][x]]
    IN /\ cache[v][t].col # "done"
       /\ dependents \subseteq OnDisk
       /\ \E order \in SetToSeqs(dependents) :
            Begin(v, [i \in 1..Len(order) |-> rewrite(order[i])]
                       \o <<RemoveDir(DirOf(t), t)>>,
                  pruned)
       /\ UNCHANGED born

\* AssignTicketToPhase: every column, done too.
AssignTicketToPhase(v) ==
  \E t \in Known(v) \cap OnDisk, ph \in Loc :
    /\ cache[v][t].phase # ph
    /\ Begin(v, <<Rename(DirOf(t), ph, t),
                  WriteYaml(ph, t, [RecordOf(t) EXCEPT !.phase = ph]),
                  WriteNote(ph, t, [NoTrail EXCEPT !.phase = ph])>>,
             [cache[v] EXCEPT ![t].phase = ph])
    /\ UNCHANGED born

\* Mutant: both flips leave a system_archive comment.
FlipArchiveSays(v) ==
  \E t \in Known(v) \cap OnDisk :
    LET l == DirOf(t)
        want == ~cache[v][t].archived
    IN /\ Begin(v, <<WriteYaml(l, t, [RecordOf(t) EXCEPT !.archived = want]),
                     WriteNote(l, t, [NoTrail EXCEPT !.archived = TRUE])>>,
                [cache[v] EXCEPT ![t].archived = want])
       /\ UNCHANGED born

\* flipArchive: ArchiveTicket and UnarchiveTicket.
FlipArchive(v) ==
  \E t \in Known(v) \cap OnDisk :
    LET l == DirOf(t)
        want == ~cache[v][t].archived
    IN /\ Begin(v, <<WriteYaml(l, t, [RecordOf(t) EXCEPT !.archived = want]),
                     WriteNote(l, t, [NoTrail EXCEPT !.archived = want])>>,
                [cache[v] EXCEPT ![t].archived = want])
       /\ UNCHANGED born

\* flipIdeaToWork; the phase assignment PromoteIdea may add is a second handler.
PromoteIdea(v) ==
  \E t \in (Known(v) \ KnownWork(v)) \cap OnDisk :
    LET l == DirOf(t)
    IN /\ Begin(v, <<WriteYaml(l, t, [RecordOf(t) EXCEPT !.kind = "work"]),
                     WriteNote(l, t, [NoTrail EXCEPT !.kind = "work"])>>,
                [cache[v] EXCEPT ![t].kind = "work"])
       /\ UNCHANGED born

Handle(v) ==
  /\ Idle(v)
  /\ \/ CreateTicket(v) \/ UpdateTicket(v) \/ MoveTicket(v) \/ CompleteTicket(v)
     \/ DeleteTicket(v) \/ AssignTicketToPhase(v) \/ FlipArchive(v) \/ PromoteIdea(v)

-----------------------------------------------------------------------------
(* Committing: see StageOp for the lock and the staging dir.               *)

Acquire(v) ==
  /\ job[v] # None
  /\ lock = None
  /\ lock' = v
  /\ UNCHANGED <<disk, cache, job, born, started, cut, unseen>>

\* Commit timed out on the lock: another slot or a feedback write has it.
Refused(v) ==
  /\ job[v] # None
  /\ lock # v
  /\ job' = [job EXCEPT ![v] = None]
  /\ UNCHANGED <<disk, cache, lock, born, started, cut, unseen>>

\* The trail once a comment that says s is added to it.
Heard(trail, s) ==
  [f \in DOMAIN trail |-> IF s[f] # None THEN s[f] ELSE trail[f]]

\* The data dir after a step that is one system call.
Effect(s) ==
  CASE s.act = "yaml" -> [disk EXCEPT ![s.loc][s.t].yaml = s.rec]
    [] s.act = "body" -> [disk EXCEPT ![s.loc][s.t].body = TRUE]
    [] s.act = "completion" -> [disk EXCEPT ![s.loc][s.t].completion = TRUE]
    [] s.act = "note" -> [disk EXCEPT ![s.loc][s.t].trail = Heard(@, s.says)]
    [] s.act = "rename" ->
         [disk EXCEPT ![s.to][s.t] = disk[s.loc][s.t], ![s.loc][s.t] = Gone]

Applying(v) == lock = v /\ job[v] # None /\ job[v].todo # <<>>
Upcoming(v) == Head(job[v].todo)

\* os.Rename refuses a missing source and a target that is a directory, the
\* source itself too.
Possible(s) ==
  s.act = "rename" => disk[s.loc][s.t] # Gone /\ disk[s.to][s.t] = Gone

Apply(v) ==
  /\ Applying(v)
  /\ Upcoming(v).act # "remove"
  /\ Possible(Upcoming(v))
  /\ disk' = Effect(Upcoming(v))
  /\ job' = [job EXCEPT ![v].todo = Tail(@), ![v].touched = TRUE]
  /\ UNCHANGED <<cache, lock, born, started, cut, unseen>>

\* What RemoveAll may have left after its next unlink.
OneLess(f) ==
  (IF f.yaml # None THEN {[f EXCEPT !.yaml = None]} ELSE {})
    \cup (IF f.body THEN {[f EXCEPT !.body = FALSE]} ELSE {})
    \cup (IF f.completion THEN {[f EXCEPT !.completion = FALSE]} ELSE {})
    \cup (IF f.trail # NoTrail THEN {[f EXCEPT !.trail = NoTrail]} ELSE {})

ApplyRemove(v) ==
  /\ Applying(v)
  /\ Upcoming(v).act = "remove"
  /\ LET s == Upcoming(v)
         f == disk[s.loc][s.t]
     IN IF f = Gone
        THEN /\ job' = [job EXCEPT ![v].todo = Tail(@)]
             /\ disk' = disk
        ELSE /\ job' = [job EXCEPT ![v].touched = TRUE]
             /\ \E g \in OneLess(f) : disk' = [disk EXCEPT ![s.loc][s.t] = g]
  /\ UNCHANGED <<cache, lock, born, started, cut, unseen>>

\* The copy of t in c is done.
SaysDone(c, t) == c[t] # None /\ c[t].col = "done"

\* A step returns an error: Commit releases the lock and the handler returns
\* without touching the cache, whatever is on disk by then.
Fail(v) ==
  /\ Applying(v)
  /\ cut' = (cut \/ job[v].touched)
  /\ unseen' = [unseen EXCEPT ![v] = @ \cup
       {t \in Ticket : /\ Done(t) /\ SaysDone(job[v].cached, t)
                       /\ ~SaysDone(cache[v], t)}]
  /\ job' = [job EXCEPT ![v] = None]
  /\ lock' = None
  /\ UNCHANGED <<disk, cache, born, started>>

\* Commit returns and the handler applies its change to the cached ticket; lp
\* is still locked, so no request of this slot sees the gap.
Finish(v) ==
  /\ lock = v
  /\ job[v].todo = <<>>
  /\ cache' = [cache EXCEPT ![v] = job[v].cached]
  /\ job' = [job EXCEPT ![v] = None]
  /\ lock' = None
  /\ unseen' = [unseen EXCEPT ![v] = {t \in @ : ~SaysDone(job[v].cached, t)}]
  /\ UNCHANGED <<disk, born, started, cut>>

\* The slot's process dies in the middle of a handler.
Crash(v) ==
  /\ job[v] # None
  /\ cut' = (cut \/ job[v].touched)
  /\ cache' = [cache EXCEPT ![v] = None]
  /\ job' = [job EXCEPT ![v] = None]
  /\ lock' = IF lock = v THEN None ELSE lock
  /\ unseen' = [unseen EXCEPT ![v] = {}]
  /\ UNCHANGED <<disk, born, started>>

Next ==
  \E v \in Slot :
    \/ Load(v) \/ Handle(v) \/ Acquire(v) \/ Refused(v)
    \/ Apply(v) \/ ApplyRemove(v) \/ Fail(v) \/ Finish(v) \/ Crash(v)

Spec == Init /\ [][Next]_vars

-----------------------------------------------------------------------------
(* Properties.  Quiet: no step of a Commit is half done, now or for good.  *)

Quiet == lock = None /\ ~cut

(* The structural errors of the integrity check (integrity.go checkProject)*)
(* never arise while every handler finishes: a ticket has a body, a done   *)
(* one its completion.md, and no id is found at two paths.                 *)
IntegrityHolds ==
  Quiet => \A t \in Ticket, l \in Loc :
    disk[l][t].yaml # None =>
      /\ disk[l][t].body
      /\ disk[l][t].yaml.col = "done" => disk[l][t].completion
      /\ HasYaml(t) = {l}
      /\ disk[l][t].yaml.phase = l

(* DeleteTicket "callers never observe dangling refs": a dependency names  *)
(* a ticket of the project.                                                *)
RefsResolve ==
  Quiet => \A t \in OnDisk : RecordOf(t).deps \subseteq OnDisk

(* The dependencies never form a cycle, of any length: no set of tickets   *)
(* waits for itself (dependencyUpdateCreatesCycle).                        *)
Acyclic ==
  Quiet => \A S \in SUBSET OnDisk :
    (\A t \in S : RecordOf(t).deps \cap S # {}) => S = {}

(* Ticket numbers are unique, after deletions and failed creations too     *)
(* (nextTicketNumber "max+1 is the only safe answer").                     *)
UniqueNumbers ==
  \A t, u \in OnDisk : RecordOf(t).num = RecordOf(u).num => t = u

(* An idea stays parked in todo, and nothing waits for one, whichever way  *)
(* handlers fail (MoveTicket, CompleteTicket, validateTicketRefs).         *)
IdeasParked ==
  \A t \in OnDisk :
    /\ RecordOf(t).kind = "idea" => RecordOf(t).col = "todo"
    /\ \A d \in RecordOf(t).deps \cap OnDisk : RecordOf(d).kind = "work"

(* The data dir is sound while every handler finishes: its records are of  *)
(* the right type and found once, and no number is given twice             *)
(* (integrity.go checkProject).                                            *)
StructureHolds == TypeOK /\ IntegrityHolds /\ UniqueNumbers

(* The dependency graph is one the board can work off: no dangling edge, no *)
(* cycle, and nobody waits for an idea.                                    *)
GraphHolds == RefsResolve /\ Acyclic /\ IdeasParked

(* The audit trail is complete while every handler finishes: the last      *)
(* system comments announce the column, phase, kind and archived flag the  *)
(* record shows.                                                           *)
AuditTrail ==
  Quiet => \A t \in OnDisk :
    LET said == disk[DirOf(t)][t].trail
    IN /\ RecordOf(t).col = IF said.col = None THEN "todo" ELSE said.col
       /\ RecordOf(t).archived = IF said.archived = None THEN FALSE ELSE said.archived
       /\ said.phase \in {None, RecordOf(t).phase}
       /\ said.kind \in {None, RecordOf(t).kind}

(* What a slot has cached is what the disk holds, between requests, while  *)
(* every handler finishes: one that fails half-way leaves the cache behind.*)
CacheMatchesDisk ==
  \A v \in Slot : (Quiet /\ Idle(v)) => cache[v] = DiskView

(* A ticket that is done stays done and stays there, whichever handlers    *)
(* fail or die (tickets.go MoveTicket "once-done tickets cannot be         *)
(* reopened", DeleteTicket "completion is sacred"), with one exception: a  *)
(* CompleteTicket that failed after its ticket.yaml was in place said the  *)
(* ticket was not completed, and until that slot loads the project again   *)
(* its handlers may move or delete the ticket.                             *)
NoReopen ==
  [][\A t \in Ticket : Done(t) => Done(t)' \/ \E w \in Slot : t \in unseen[w]]_vars

(* Nothing need fail for the same promise to break between two processes:  *)
(* what it says while no handler has been cut short (tickets.go MoveTicket *)
(* "once-done tickets cannot be reopened").                                *)
NoReopenUndisturbed ==
  [][\A t \in Ticket : Done(t) /\ ~cut' => Done(t)']_vars

(* With enforcement on, a ticket enters in_progress only when everything   *)
(* it depends on is done (MoveTicket's dependency gate).  Not once a       *)
(* handler was cut short after it had changed the disk (cut): the gate     *)
(* reads the cache, which then is behind.                                  *)
EntersInProgress(t) ==
  /\ t \in OnDisk /\ RecordOf(t).col # "in_progress"
  /\ (t \in OnDisk /\ RecordOf(t).col = "in_progress")'
GateHolds ==
  [][Enforce /\ ~cut => \A t \in Ticket :
       EntersInProgress(t) => \A d \in RecordOf(t).deps : Done(d)]_vars
=============================================================================
