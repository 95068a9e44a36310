-------------------------------- MODULE Phases --------------------------------
(***************************************************************************)
(* internal/svc/phases.go and tickets_phase.go: the phases of one project  *)
(* and the tickets that lie in their directories, with several slots at    *)
(* work on the data dir (a slot is a LoadedProject, as in Tickets: one per *)
(* process, and one more while a stale one still runs a handler).          *)
(*                                                                         *)
(* Handlers judge a request by the slot's own view, under its write lock;  *)
(* Commit then applies the whole operation under the project's file lock   *)
(* (StageOp), without looking at the disk again.  A phase has a directory  *)
(* NNN-name, with phase.yaml and the directories of its tickets in it; a   *)
(* ticket's record names its phase by id.                                  *)
(***************************************************************************)
EXTENDS Naturals, FiniteSets, FiniteSetsExt

CONSTANTS
  Slot,
  Ticket,
  Name,     \* slugs made from phase names
  MaxId,    \* bound: phases ever created
  MaxOps,   \* bound: handlers that reach their Commit
  Nil,
  Gone      \* where a ticket lies that is nowhere

ASSUME Constants == MaxId \in Nat /\ MaxOps \in Nat

\* phase.yaml: the number is part of the directory's name.
Phase == [id : 1..MaxId, num : 1..MaxId, name : Name]
Dir == (1..MaxId) \X Name
DirOf(ph) == IF ph = Nil THEN Nil ELSE <<ph.num, ph.name>>

\* What a slot has loaded; Gone for a ticket it does not know.
View == [phases : SUBSET Phase, label : [Ticket -> Phase \cup {Nil, Gone}]]

Intent == [op : {"create", "update", "delete"}, phase : Phase]
          \cup [op : {"assign"}, t : Ticket, from : Dir \cup {Nil},
                phase : Phase \cup {Nil}]

ASSUME Markers ==
  /\ Nil # Gone
  /\ Nil \notin Phase \cup Dir \cup View \cup Intent
  /\ Gone \notin Phase \cup Dir

VARIABLES
  phaseAt,  \* the phase.yaml in each phase directory, or Nil
  lies,     \* the directory of each ticket's phase; Nil: tickets/
  label,    \* phase_id in its ticket.yaml
  view,     \* the LoadedProject of each slot, Nil before it is loaded
  job,      \* the handler running in each slot
  ids,      \* phases created so far
  ops,      \* handlers begun so far
  moved,    \* tickets others have moved since each slot loaded (history)
  astray    \* phases written by a slot that did not know the disk (history)

projectFiles == <<phaseAt, lies, label>>
phaseVars == <<phaseAt, lies, label, view, job, ids, ops, moved, astray>>

PhasesTypeOK ==
  /\ phaseAt \in [Dir -> Phase \cup {Nil}]
  /\ lies \in [Ticket -> Dir \cup {Nil, Gone}]
  /\ label \in [Ticket -> Phase \cup {Nil}]
  /\ view \in [Slot -> View \cup {Nil}]
  /\ job \in [Slot -> Intent \cup {Nil}]
  /\ ids \in 0..MaxId /\ ops \in 0..MaxOps
  /\ moved \in [Slot -> SUBSET Ticket]
  /\ astray \subseteq Phase

PhasesInit ==
  /\ phaseAt = [d \in Dir |-> Nil]
  /\ lies = [t \in Ticket |-> Nil]
  /\ label = [t \in Ticket |-> Nil]
  /\ view = [v \in Slot |-> Nil]
  /\ job = [v \in Slot |-> Nil]
  /\ ids = 0 /\ ops = 0
  /\ moved = [v \in Slot |-> {}]
  /\ astray = {}

-----------------------------------------------------------------------------
Present == {phaseAt[d] : d \in Dir} \ {Nil}

\* The loader reads every phase.yaml and every ticket.yaml.
Load(v) ==
  /\ job[v] = Nil
  /\ view' = [view EXCEPT ![v] =
                [phases |-> Present,
                 label |-> [t \in Ticket |->
                              IF lies[t] = Gone THEN Gone ELSE label[t]]]]
  /\ moved' = [moved EXCEPT ![v] = {}]
  /\ UNCHANGED <<projectFiles, job, ids, ops, astray>>

(* Handlers, up to their Commit.                                           *)

Begin(v, j) ==
  /\ job[v] = Nil
  /\ ops < MaxOps /\ ops' = ops + 1
  /\ job' = [job EXCEPT ![v] = j]
  /\ UNCHANGED <<projectFiles, view, moved, astray>>

Loaded(v) == view[v] # Nil

\* Mutant: the phases are counted.
NextNumberCounted(v) == 1 + Cardinality(view[v].phases)

\* The next number is one more than the greatest the slot knows.
NextNumber(v) == 1 + Max({0} \cup {ph.num : ph \in view[v].phases})

CreatePhase(v) ==
  /\ Loaded(v)
  /\ \E n \in Name :
       /\ \A ph \in view[v].phases : ph.name # n
       /\ ids < MaxId /\ ids' = ids + 1
       /\ Begin(v, [op |-> "create",
                    phase |-> [id |-> ids + 1, num |-> NextNumber(v),
                              name |-> n]])

\* The record on disk is read again, and all but name and text is kept.
UpdatePhase(v) ==
  /\ Loaded(v)
  /\ \E ph \in view[v].phases :
       /\ phaseAt[DirOf(ph)] # Nil
       /\ Begin(v, [op |-> "update", phase |-> phaseAt[DirOf(ph)]])
  /\ UNCHANGED ids

\* Mutant: the tickets of the phase are not looked for.
DeletePhaseFull(v) ==
  /\ Loaded(v)
  /\ \E ph \in view[v].phases : Begin(v, [op |-> "delete", phase |-> ph])
  /\ UNCHANGED ids

DeletePhase(v) ==
  /\ Loaded(v)
  /\ \E ph \in view[v].phases :
       /\ \A t \in Ticket : view[v].label[t] # ph
       /\ Begin(v, [op |-> "delete", phase |-> ph])
  /\ UNCHANGED ids

\* AssignTicketToPhase: to a phase, or to none.
Assign(v) ==
  /\ Loaded(v)
  /\ \E t \in Ticket, ph \in view[v].phases \cup {Nil} :
       /\ view[v].label[t] \notin {ph, Gone}
       /\ lies[t] # Gone
       /\ Begin(v, [op |-> "assign", t |-> t, from |-> lies[t], phase |-> ph])
  /\ UNCHANGED ids

-----------------------------------------------------------------------------
(* Commit, and the change of the view.                                     *)

Done(v) == job' = [job EXCEPT ![v] = Nil]

\* The commit did not get the file lock, or failed before it changed anything.
Refused(v) ==
  /\ job[v] # Nil
  /\ Done(v)
  /\ UNCHANGED <<projectFiles, view, ids, ops, moved, astray>>

\* The phases the slot does not know, and those it knows that are gone.
Unaware(v) == Present # view[v].phases

CommitCreate(v) ==
  /\ job[v] # Nil /\ job[v].op = "create"
  /\ LET ph == job[v].phase
     IN /\ phaseAt' = [phaseAt EXCEPT ![DirOf(ph)] = ph]
        /\ view' = [view EXCEPT ![v].phases = @ \cup {ph}]
        /\ astray' = IF Unaware(v) THEN astray \cup {ph} ELSE astray
  /\ Done(v)
  /\ UNCHANGED <<lies, label, ids, ops, moved>>

\* The directory is made again if it is gone.
CommitUpdate(v) ==
  /\ job[v] # Nil /\ job[v].op = "update"
  /\ LET ph == job[v].phase
     IN /\ phaseAt' = [phaseAt EXCEPT ![DirOf(ph)] = ph]
        /\ astray' = IF phaseAt[DirOf(ph)] = ph
                     THEN astray ELSE astray \cup {ph}
  /\ Done(v)
  /\ UNCHANGED <<lies, label, view, ids, ops, moved>>

\* The directory goes with all that lies in it.
CommitDelete(v) ==
  /\ job[v] # Nil /\ job[v].op = "delete"
  /\ LET ph == job[v].phase
     IN /\ phaseAt' = [phaseAt EXCEPT ![DirOf(ph)] = Nil]
        /\ lies' = [t \in Ticket |->
                     IF lies[t] = DirOf(ph) THEN Gone ELSE lies[t]]
        /\ view' = [view EXCEPT ![v].phases = @ \ {ph}]
  /\ Done(v)
  /\ UNCHANGED <<label, ids, ops, moved, astray>>

\* Mutant: the record is renamed with its directory and not written again.
CommitAssignRenames(v) ==
  /\ job[v] # Nil /\ job[v].op = "assign"
  /\ LET t == job[v].t
         ph == job[v].phase
     IN /\ lies[t] = job[v].from /\ DirOf(ph) # lies[t]
        /\ lies' = [lies EXCEPT ![t] = DirOf(ph)]
        /\ view' = [view EXCEPT ![v].label[t] = ph]
        /\ moved' = [w \in Slot |->
                      IF w = v THEN moved[w] ELSE moved[w] \cup {t}]
  /\ Done(v)
  /\ UNCHANGED <<phaseAt, label, ids, ops, astray>>

\* The ticket's directory is renamed, its record and a comment written there.
CommitAssign(v) ==
  /\ job[v] # Nil /\ job[v].op = "assign"
  /\ LET t == job[v].t
         ph == job[v].phase
     IN /\ lies[t] = job[v].from /\ DirOf(ph) # lies[t]
        /\ lies' = [lies EXCEPT ![t] = DirOf(ph)]
        /\ label' = [label EXCEPT ![t] = ph]
        /\ view' = [view EXCEPT ![v].label[t] = ph]
        /\ moved' = [w \in Slot |->
                      IF w = v THEN moved[w] ELSE moved[w] \cup {t}]
  /\ Done(v)
  /\ UNCHANGED <<phaseAt, ids, ops, astray>>

PhasesNext ==
  \E v \in Slot :
    \/ Load(v)
    \/ CreatePhase(v) \/ UpdatePhase(v) \/ DeletePhase(v) \/ Assign(v)
    \/ CommitCreate(v) \/ CommitUpdate(v) \/ CommitDelete(v) \/ CommitAssign(v)
    \/ Refused(v)

PhasesSpec == PhasesInit /\ [][PhasesNext]_phaseVars

-----------------------------------------------------------------------------
\* A ticket is removed with a phase directory only if another slot put it there
\* after the deleting slot loaded the project, or if its phase's directory had
\* been overwritten by a phase of the same name and number (phases.go:313).
LostOnlyUnseen ==
  [][\A t \in Ticket :
       lies[t] # Gone /\ lies'[t] = Gone =>
         \E v \in Slot :
           /\ job[v] # Nil /\ job[v].op = "delete" /\ job'[v] = Nil
           /\ t \in moved[v] \/ label[t] # job[v].phase]_phaseVars

\* A number is given twice only by a slot that did not know the phases on disk,
\* or when such a slot brings a deleted phase back (phases.go:62).
NumberOnce ==
  \A p, q \in Present : p.num = q.num /\ p # q => p \in astray \/ q \in astray

\* A ticket lies in the directory of the phase its record names, also when that
\* phase has been deleted: the rename and the record are one commit.
LiesWhereLabelled ==
  \A t \in Ticket : lies[t] # Gone => lies[t] = DirOf(label[t])
=============================================================================
