-------------------------- MODULE PhasesAndEmbedProofs --------------------------
(***************************************************************************)
(* Proofs about two components of a project, for any values of their       *)
(* constants: its phases (Phases) and the worker that embeds the texts of  *)
(* its tickets (EmbedWorker).  They share no state: the definitions of     *)
(* Phases carry its name where both modules have one, so that this module  *)
(* can extend both.                                                        *)
(***************************************************************************)
EXTENDS EmbedWorker, Phases, WellFoundedInduction, TLAPS

(***************************************************************************)
(* Phases.  The inductive invariant relates what a slot has loaded to the  *)
(* disk: numbers never run ahead of the phases created (Counted), the      *)
(* labels a slot sees are right but for the tickets others have moved      *)
(* (Seen), and a handler's decision still holds of its slot's view when it *)
(* commits (Judged).                                                       *)
(***************************************************************************)

Counted ==
  /\ \A d \in Dir : phaseAt[d] # Nil => phaseAt[d].num <= ids
  /\ \A v \in Slot : view[v] # Nil => \A p \in view[v].phases : p.num <= ids
  /\ \A v \in Slot : job[v] # Nil /\ job[v].op \in {"create", "update"} =>
       job[v].phase.num <= ids

Seen ==
  \A v \in Slot, t \in Ticket :
    view[v] # Nil /\ lies[t] # Gone /\ t \notin moved[v] =>
      view[v].label[t] = label[t]

Judged ==
  \A v \in Slot : job[v] # Nil =>
    /\ view[v] # Nil
    /\ job[v].op = "create" =>
         \A p \in view[v].phases : p.num < job[v].phase.num
    /\ job[v].op = "delete" =>
         \A t \in Ticket : view[v].label[t] # job[v].phase

PhasesInv ==
  /\ PhasesTypeOK /\ Counted /\ Seen /\ Judged
  /\ NumberOnce /\ LiesWhereLabelled

-----------------------------------------------------------------------------
\* A nonempty set of bounded naturals has a greatest element.
LEMMA Greatest ==
  ASSUME NEW n \in Nat, NEW S \in SUBSET (0..n), S # {}
  PROVE  /\ Max(S) \in S
         /\ \A y \in S : y <= Max(S)
<1> DEFINE R == {p \in Nat \X Nat : p[1] < p[2]}
           T == {k \in Nat : n - k \in S}
<1>1. OpToRel(<, Nat) = R
  BY DEF OpToRel
<1>2. IsWellFoundedOn(R, Nat)
  BY <1>1, NatLessThanWellFounded, Zenon
<1>3. \A s \in S : s \in 0..n /\ n - s \in T
  OBVIOUS
<1>4. PICK x \in T : \A y \in T : ~ (<<y, x>> \in R)
  <2> HIDE DEF R
  <2>1. T \subseteq Nat /\ T # {}
    BY <1>3
  <2> QED
    BY <1>2, <2>1, WFMin
<1>5. \A y \in S : n - x >= y
  <2>1. SUFFICES ASSUME NEW y \in S PROVE n - x >= y
    OBVIOUS
  <2>2. y \in Nat /\ x \in Nat /\ n - y \in T /\ n - y \in Nat
    BY <1>3
  <2>3. ~ (<<n - y, x>> \in R)
    BY <1>4, <2>2
  <2>4. ~ (n - y < x)
    BY <2>2, <2>3
  <2> QED
    BY <2>2, <2>4
<1> QED
  BY <1>3, <1>4, <1>5 DEF Max

\* The number CreatePhase picks is new to the slot, and at most one more than
\* the phases created so far (phases.go:62).
LEMMA NextNumberFits ==
  ASSUME PhasesInv, NEW v \in Slot, Loaded(v)
  PROVE  /\ NextNumber(v) \in 1..(ids + 1)
         /\ \A p \in view[v].phases : p.num < NextNumber(v)
<1> DEFINE S == {0} \cup {ph.num : ph \in view[v].phases}
<1>1. view[v].phases \subseteq Phase /\ ids \in Nat
  BY Constants DEF PhasesInv, PhasesTypeOK, Loaded, View
<1>2. \A p \in view[v].phases : p.num \in 0..ids /\ p.num \in S
  BY <1>1, Constants DEF PhasesInv, Counted, Loaded, Phase
<1>3. S \in SUBSET (0..ids) /\ S # {}
  BY <1>1, <1>2
<1> HIDE DEF S
<1>4. Max(S) \in 0..ids /\ \A y \in S : y <= Max(S)
  BY <1>1, <1>3, Greatest
<1>5. NextNumber(v) = 1 + Max(S)
  BY DEF NextNumber, S
<1> QED
  BY <1>1, <1>2, <1>4, <1>5

-----------------------------------------------------------------------------
LEMMA PhasesInitInv == PhasesInit => PhasesInv
<1> SUFFICES ASSUME PhasesInit PROVE PhasesInv
  OBVIOUS
<1>1. PhasesTypeOK
  BY Constants DEF PhasesInit, PhasesTypeOK
<1>2. Counted /\ Seen /\ Judged
  BY DEF PhasesInit, Counted, Seen, Judged
<1>3. NumberOnce /\ LiesWhereLabelled
  BY DEF PhasesInit, NumberOnce, LiesWhereLabelled, Present, DirOf
<1> QED
  BY <1>1, <1>2, <1>3 DEF PhasesInv

LEMMA LoadStep ==
  ASSUME PhasesInv, NEW v \in Slot, Load(v)
  PROVE  PhasesInv'
<1> USE DEF PhasesInv, Load, projectFiles
<1>1. Present \subseteq Phase
  BY DEF Present, PhasesTypeOK
<1>2. [t \in Ticket |-> IF lies[t] = Gone THEN Gone ELSE label[t]]
        \in [Ticket -> Phase \cup {Nil, Gone}]
  BY DEF PhasesTypeOK
<1>3. PhasesTypeOK'
  BY <1>1, <1>2 DEF PhasesTypeOK, View
<1>4. \A p \in Present : p.num <= ids
  BY DEF Present, Counted
<1>5. Counted'
  BY <1>4 DEF PhasesTypeOK, Counted
<1>6. Seen' /\ Judged'
  BY DEF PhasesTypeOK, Seen, Judged
<1>7. NumberOnce' /\ LiesWhereLabelled'
  BY DEF NumberOnce, LiesWhereLabelled, Present
<1> QED
  BY <1>3, <1>5, <1>6, <1>7

\* A handler that begins with a decision its slot's view bears out.
LEMMA BeginStep ==
  ASSUME PhasesInv, NEW v \in Slot, NEW j \in Intent, Begin(v, j),
         ids' \in ids..MaxId, view[v] # Nil,
         j.op \in {"create", "update"} => j.phase.num <= ids',
         j.op = "create" => \A p \in view[v].phases : p.num < j.phase.num,
         j.op = "delete" => \A t \in Ticket : view[v].label[t] # j.phase
  PROVE  PhasesInv'
<1> USE DEF PhasesInv, Begin, projectFiles
<1>1. PhasesTypeOK'
  BY Constants DEF PhasesTypeOK
<1>2. /\ \A d \in Dir : phaseAt[d] # Nil => phaseAt[d].num \in Nat
      /\ \A w \in Slot : view[w] # Nil => \A p \in view[w].phases : p.num \in Nat
      /\ \A w \in Slot : job[w] # Nil /\ job[w].op \in {"create", "update"} =>
           job[w].phase.num \in Nat
  BY DEF PhasesTypeOK, View, Phase, Intent
<1>3. Counted'
  BY <1>2, Constants DEF PhasesTypeOK, Counted
<1>4. Seen' /\ Judged'
  BY DEF PhasesTypeOK, Seen, Judged
<1>5. NumberOnce' /\ LiesWhereLabelled'
  BY DEF NumberOnce, LiesWhereLabelled, Present
<1> QED
  BY <1>1, <1>3, <1>4, <1>5

LEMMA CreatePhaseStep ==
  ASSUME PhasesInv, NEW v \in Slot, CreatePhase(v)
  PROVE  PhasesInv'
<1>1. PICK n \in Name :
        /\ ids < MaxId /\ ids' = ids + 1
        /\ Begin(v, [op |-> "create",
                     phase |-> [id |-> ids + 1, num |-> NextNumber(v),
                               name |-> n]])
  BY DEF CreatePhase
<1> DEFINE ph == [id |-> ids + 1, num |-> NextNumber(v), name |-> n]
           j == [op |-> "create", phase |-> ph]
<1>2. ids \in Nat /\ NextNumber(v) \in 1..(ids + 1) /\ view[v] # Nil
      /\ \A p \in view[v].phases : p.num < NextNumber(v)
  BY NextNumberFits, Constants DEF CreatePhase, PhasesInv, PhasesTypeOK, Loaded
<1>3. ids' \in ids..MaxId /\ ids + 1 \in 1..MaxId
  BY <1>1, <1>2, Constants
<1>4. NextNumber(v) \in 1..MaxId
  BY <1>2, <1>3, Constants
<1>5. ph \in Phase
  BY <1>3, <1>4 DEF Phase
<1>6. j \in Intent
  BY <1>5 DEF Intent
<1>7. NextNumber(v) <= ids'
  BY <1>1, <1>2
<1> QED
  BY <1>1, <1>2, <1>3, <1>6, <1>7, BeginStep

LEMMA UpdatePhaseStep ==
  ASSUME PhasesInv, NEW v \in Slot, UpdatePhase(v)
  PROVE  PhasesInv'
<1>1. PICK ph \in view[v].phases :
        /\ phaseAt[DirOf(ph)] # Nil
        /\ Begin(v, [op |-> "update", phase |-> phaseAt[DirOf(ph)]])
  BY DEF UpdatePhase
<1> DEFINE old == phaseAt[DirOf(ph)]
<1>2. view[v] # Nil /\ ph \in Phase
  BY DEF UpdatePhase, Loaded, PhasesInv, PhasesTypeOK, View
<1>3. DirOf(ph) \in Dir
  BY <1>2, Markers DEF DirOf, Phase, Dir
<1>4. old \in Phase /\ old.num <= ids
  BY <1>1, <1>3 DEF PhasesInv, PhasesTypeOK, Counted
<1>5. [op |-> "update", phase |-> old] \in Intent
  BY <1>4 DEF Intent
<1>6. ids' \in ids..MaxId /\ ids' = ids
  BY Constants DEF UpdatePhase, PhasesInv, PhasesTypeOK
<1> QED
  BY <1>1, <1>2, <1>4, <1>5, <1>6, BeginStep

LEMMA DeletePhaseStep ==
  ASSUME PhasesInv, NEW v \in Slot, DeletePhase(v)
  PROVE  PhasesInv'
<1>1. PICK ph \in view[v].phases :
        /\ \A t \in Ticket : view[v].label[t] # ph
        /\ Begin(v, [op |-> "delete", phase |-> ph])
  BY DEF DeletePhase
<1>2. view[v] # Nil /\ ph \in Phase
  BY DEF DeletePhase, Loaded, PhasesInv, PhasesTypeOK, View
<1>3. [op |-> "delete", phase |-> ph] \in Intent
  BY <1>2 DEF Intent
<1>4. ids' \in ids..MaxId
  BY Constants DEF DeletePhase, PhasesInv, PhasesTypeOK
<1> QED
  BY <1>1, <1>2, <1>3, <1>4, BeginStep

LEMMA AssignStep ==
  ASSUME PhasesInv, NEW v \in Slot, Assign(v)
  PROVE  PhasesInv'
<1>1. PICK t \in Ticket, ph \in view[v].phases \cup {Nil} :
        /\ lies[t] # Gone
        /\ Begin(v, [op |-> "assign", t |-> t, from |-> lies[t], phase |-> ph])
  BY DEF Assign
<1>2. view[v] # Nil /\ ph \in Phase \cup {Nil}
  BY DEF Assign, Loaded, PhasesInv, PhasesTypeOK, View
<1>3. lies[t] \in Dir \cup {Nil}
  BY <1>1 DEF PhasesInv, PhasesTypeOK
<1>4. [op |-> "assign", t |-> t, from |-> lies[t], phase |-> ph] \in Intent
  BY <1>2, <1>3 DEF Intent
<1>5. ids' \in ids..MaxId
  BY Constants DEF Assign, PhasesInv, PhasesTypeOK
<1> QED
  BY <1>1, <1>2, <1>4, <1>5, BeginStep

-----------------------------------------------------------------------------
\* What the commits rely on: the phase of a create, update or delete.
LEMMA JobPhase ==
  ASSUME PhasesTypeOK, NEW v \in Slot, job[v] # Nil,
         job[v].op \in {"create", "update", "delete"}
  PROVE  job[v].phase \in Phase /\ DirOf(job[v].phase) \in Dir
<1>1. job[v].phase \in Phase
  BY DEF PhasesTypeOK, Intent
<1> QED
  BY <1>1, Markers DEF DirOf, Phase, Dir

LEMMA RefusedStep ==
  ASSUME PhasesInv, NEW v \in Slot, Refused(v)
  PROVE  PhasesInv'
<1> USE DEF PhasesInv, Refused, Done, projectFiles
<1>1. PhasesTypeOK'
  BY DEF PhasesTypeOK
<1>2. Counted' /\ Seen' /\ Judged'
  BY DEF PhasesTypeOK, Counted, Seen, Judged
<1>3. NumberOnce' /\ LiesWhereLabelled'
  BY DEF NumberOnce, LiesWhereLabelled, Present
<1> QED
  BY <1>1, <1>2, <1>3

LEMMA CommitCreateStep ==
  ASSUME PhasesInv, NEW v \in Slot, CommitCreate(v)
  PROVE  PhasesInv'
<1> USE DEF PhasesInv, CommitCreate, Done
<1> DEFINE ph == job[v].phase
<1>1. ph \in Phase /\ DirOf(ph) \in Dir /\ ph.num <= ids
  BY JobPhase DEF Counted
<1>2. view[v] # Nil /\ view[v] \in View
      /\ view' = [view EXCEPT ![v].phases = @ \cup {ph}]
      /\ phaseAt' = [phaseAt EXCEPT ![DirOf(ph)] = ph]
  BY DEF Judged, PhasesTypeOK
<1> HIDE DEF ph
<1>3. view'[v].phases = view[v].phases \cup {ph}
      /\ view'[v].label = view[v].label /\ view'[v] \in View
      /\ \A w \in Slot \ {v} : view'[w] = view[w]
  BY <1>1, <1>2 DEF PhasesTypeOK, View
<1>4. PhasesTypeOK'
  <2>1. phaseAt' \in [Dir -> Phase \cup {Nil}]
    BY <1>1, <1>2 DEF PhasesTypeOK
  <2>2. view' \in [Slot -> View \cup {Nil}]
    BY <1>2, <1>3 DEF PhasesTypeOK
  <2>3. job' \in [Slot -> Intent \cup {Nil}] /\ astray' \subseteq Phase
    BY <1>1 DEF PhasesTypeOK, ph
  <2> QED
    BY <2>1, <2>2, <2>3 DEF PhasesTypeOK
<1>5. Counted'
  BY <1>1, <1>2, <1>3 DEF PhasesTypeOK, Counted
<1>6. Seen'
  BY <1>2, <1>3 DEF PhasesTypeOK, Seen
<1>7. Judged'
  BY <1>2, <1>3 DEF PhasesTypeOK, Judged
<1>8. NumberOnce'
  <2>1. SUFFICES ASSUME NEW p \in Present', NEW q \in Present',
                        p.num = q.num, p # q
                 PROVE  p \in astray' \/ q \in astray'
    BY DEF NumberOnce
  <2>2. Present' \subseteq Present \cup {ph}
    BY <1>1, <1>2 DEF Present, PhasesTypeOK
  <2>3. astray \subseteq astray'
    OBVIOUS
  <2>4. CASE p \in Present /\ q \in Present
    BY <2>1, <2>3, <2>4 DEF NumberOnce
  <2>5. CASE Unaware(v)
    <3>1. ph \in astray'
      BY <2>5 DEF ph
    <3> QED
      BY <2>1, <2>2, <2>3, <3>1 DEF NumberOnce
  <2>6. CASE ~ Unaware(v) /\ ~ (p \in Present /\ q \in Present)
    <3>1. \A x \in Present : x.num < ph.num /\ x.num \in Nat /\ ph.num \in Nat
      BY <1>1, <1>2, <2>6 DEF Unaware, Judged, ph, Phase, View
    <3> QED
      BY <2>1, <2>2, <2>6, <3>1
  <2> QED
    BY <2>4, <2>5, <2>6
<1>9. LiesWhereLabelled'
  BY DEF LiesWhereLabelled
<1> QED
  BY <1>4, <1>5, <1>6, <1>7, <1>8, <1>9

LEMMA CommitUpdateStep ==
  ASSUME PhasesInv, NEW v \in Slot, CommitUpdate(v)
  PROVE  PhasesInv'
<1> USE DEF PhasesInv, CommitUpdate, Done
<1> DEFINE ph == job[v].phase
<1>1. ph \in Phase /\ DirOf(ph) \in Dir /\ ph.num <= ids
  BY JobPhase DEF Counted
<1>2. phaseAt' = [phaseAt EXCEPT ![DirOf(ph)] = ph]
      /\ astray' = IF phaseAt[DirOf(ph)] = ph
                   THEN astray ELSE astray \cup {ph}
  OBVIOUS
<1> HIDE DEF ph
<1>3. PhasesTypeOK'
  BY <1>1, <1>2 DEF PhasesTypeOK
<1>4. Counted'
  BY <1>1, <1>2 DEF PhasesTypeOK, Counted
<1>5. Seen' /\ Judged'
  BY DEF PhasesTypeOK, Seen, Judged
<1>6. NumberOnce'
  <2>1. Present' \subseteq Present \cup {ph}
    BY <1>1, <1>2 DEF Present, PhasesTypeOK
  <2>2. CASE phaseAt[DirOf(ph)] = ph
    <3>1. ph \in Present
      BY <1>1, <2>2, Markers DEF Present
    <3> QED
      BY <1>2, <2>1, <2>2, <3>1 DEF NumberOnce
  <2>3. CASE phaseAt[DirOf(ph)] # ph
    <3>1. astray' = astray \cup {ph}
      BY <1>2, <2>3
    <3> QED
      BY <2>1, <3>1 DEF NumberOnce
  <2> QED
    BY <2>2, <2>3
<1>7. LiesWhereLabelled'
  BY DEF LiesWhereLabelled
<1> QED
  BY <1>3, <1>4, <1>5, <1>6, <1>7

LEMMA CommitDeleteStep ==
  ASSUME PhasesInv, NEW v \in Slot, CommitDelete(v)
  PROVE  PhasesInv'
<1> USE DEF PhasesInv, CommitDelete, Done
<1> DEFINE ph == job[v].phase
<1>1. ph \in Phase /\ DirOf(ph) \in Dir
  BY JobPhase
<1>2. view[v] # Nil /\ view[v] \in View
      /\ view' = [view EXCEPT ![v].phases = @ \ {ph}]
      /\ phaseAt' = [phaseAt EXCEPT ![DirOf(ph)] = Nil]
      /\ lies' = [t \in Ticket |->
                   IF lies[t] = DirOf(ph) THEN Gone ELSE lies[t]]
  BY DEF Judged, PhasesTypeOK
<1> HIDE DEF ph
<1>3. view'[v].phases = view[v].phases \ {ph}
      /\ view'[v].label = view[v].label /\ view'[v] \in View
      /\ \A w \in Slot \ {v} : view'[w] = view[w]
  BY <1>1, <1>2 DEF PhasesTypeOK, View
<1>4. PhasesTypeOK'
  BY <1>1, <1>2, <1>3 DEF PhasesTypeOK
<1>5. Counted'
  BY <1>1, <1>2, <1>3, Markers DEF PhasesTypeOK, Counted
<1>6. Seen'
  BY <1>2, <1>3 DEF PhasesTypeOK, Seen
<1>7. Judged'
  BY <1>2, <1>3 DEF PhasesTypeOK, Judged
<1>8. NumberOnce'
  <2>1. Present' \subseteq Present
    BY <1>1, <1>2 DEF Present, PhasesTypeOK
  <2> QED
    BY <2>1 DEF NumberOnce
<1>9. LiesWhereLabelled'
  BY <1>2 DEF LiesWhereLabelled, PhasesTypeOK
<1> QED
  BY <1>4, <1>5, <1>6, <1>7, <1>8, <1>9

LEMMA CommitAssignStep ==
  ASSUME PhasesInv, NEW v \in Slot, CommitAssign(v)
  PROVE  PhasesInv'
<1> USE DEF PhasesInv, CommitAssign, Done
<1> DEFINE t == job[v].t
           ph == job[v].phase
<1>1. t \in Ticket /\ ph \in Phase \cup {Nil}
      /\ DirOf(ph) \in Dir \cup {Nil}
  <2>1. t \in Ticket /\ ph \in Phase \cup {Nil}
    BY DEF PhasesTypeOK, Intent
  <2> QED
    BY <2>1 DEF DirOf, Phase, Dir
<1>2. view[v] # Nil /\ view[v] \in View
      /\ view' = [view EXCEPT ![v].label[t] = ph]
      /\ lies' = [lies EXCEPT ![t] = DirOf(ph)]
      /\ label' = [label EXCEPT ![t] = ph]
      /\ moved' = [w \in Slot |->
                    IF w = v THEN moved[w] ELSE moved[w] \cup {t}]
  BY DEF Judged, PhasesTypeOK
<1> HIDE DEF t, ph
<1>3. /\ \A w \in Slot \ {v} : view'[w] = view[w]
      /\ view'[v].phases = view[v].phases
      /\ view'[v].label = [view[v].label EXCEPT ![t] = ph]
      /\ view'[v] \in View
  <2>1. view'[v] = [view[v] EXCEPT !.label[t] = ph]
        /\ \A w \in Slot \ {v} : view'[w] = view[w]
    BY <1>2 DEF PhasesTypeOK
  <2>2. view'[v].phases = view[v].phases
        /\ view'[v].label = [view[v].label EXCEPT ![t] = ph]
    BY <1>2, <2>1 DEF View
  <2>3. view'[v] \in View
    BY <1>1, <1>2, <2>1 DEF View
  <2> QED
    BY <2>1, <2>2, <2>3
<1>4. PhasesTypeOK'
  <2>1. lies' \in [Ticket -> Dir \cup {Nil, Gone}]
    BY <1>1, <1>2 DEF PhasesTypeOK
  <2>2. label' \in [Ticket -> Phase \cup {Nil}]
    BY <1>1, <1>2 DEF PhasesTypeOK
  <2>3. moved' \in [Slot -> SUBSET Ticket]
    <3>1. \A w \in Slot : moved[w] \cup {t} \in SUBSET Ticket
      BY <1>1 DEF PhasesTypeOK
    <3> QED
      BY <1>2, <3>1 DEF PhasesTypeOK
  <2>4. view' \in [Slot -> View \cup {Nil}]
    BY <1>2, <1>3 DEF PhasesTypeOK
  <2> QED
    BY <2>1, <2>2, <2>3, <2>4 DEF PhasesTypeOK
<1>5. Counted'
  BY <1>2, <1>3 DEF PhasesTypeOK, Counted
<1>6. Seen'
  <2>1. SUFFICES ASSUME NEW w \in Slot, NEW u \in Ticket, view'[w] # Nil,
                        lies'[u] # Gone, u \notin moved'[w]
                 PROVE  view'[w].label[u] = label'[u]
    BY DEF Seen
  <2>2. CASE u = t
    <3>1. w = v
      BY <1>1, <1>2, <2>1, <2>2 DEF PhasesTypeOK
    <3>2. view'[v].label[t] = ph /\ label'[t] = ph
      BY <1>1, <1>2, <1>3 DEF PhasesTypeOK, View
    <3> QED
      BY <2>2, <3>1, <3>2
  <2>3. CASE u # t
    <3>1. u \notin moved[w] /\ lies[u] # Gone /\ label'[u] = label[u]
      BY <1>1, <1>2, <2>1, <2>3 DEF PhasesTypeOK
    <3>2. view[w] # Nil /\ view'[w].label[u] = view[w].label[u]
      BY <1>1, <1>2, <1>3, <2>1, <2>3 DEF PhasesTypeOK, View
    <3> QED
      BY <3>1, <3>2 DEF Seen
  <2> QED
    BY <2>2, <2>3
<1>7. Judged'
  <2>1. \A w \in Slot :
          job'[w] # Nil => w # v /\ job'[w] = job[w] /\ view'[w] = view[w]
    BY <1>3 DEF PhasesTypeOK
  <2> QED
    BY <2>1 DEF Judged
<1>8. NumberOnce'
  BY DEF NumberOnce, Present
<1>9. LiesWhereLabelled'
  BY <1>1, <1>2 DEF LiesWhereLabelled, PhasesTypeOK
<1> QED
  BY <1>4, <1>5, <1>6, <1>7, <1>8, <1>9

LEMMA PhasesNextInv == PhasesInv /\ [PhasesNext]_phaseVars => PhasesInv'
<1> SUFFICES ASSUME PhasesInv, [PhasesNext]_phaseVars PROVE PhasesInv'
  OBVIOUS
<1>1. CASE UNCHANGED phaseVars
  BY <1>1 DEF PhasesInv, PhasesTypeOK, Counted, Seen, Judged, NumberOnce, Present,
              LiesWhereLabelled, phaseVars, projectFiles
<1>2. CASE PhasesNext
  BY <1>2, LoadStep, CreatePhaseStep, UpdatePhaseStep, DeletePhaseStep,
     AssignStep, CommitCreateStep, CommitUpdateStep, CommitDeleteStep,
     CommitAssignStep, RefusedStep DEF PhasesNext
<1> QED
  BY <1>1, <1>2

-----------------------------------------------------------------------------
THEOREM PhasesInvariance == PhasesSpec => []PhasesInv
<1> QED
  BY PhasesInitInv, PhasesNextInv, PTL DEF PhasesSpec

\* The state of the phases stays within its types: in particular the number of
\* a new phase is never past the phases created (phases.go:58-66).
THEOREM PhasesTypes == PhasesSpec => []PhasesTypeOK
<1>1. PhasesInv => PhasesTypeOK
  BY DEF PhasesInv
<1> QED
  BY <1>1, PhasesInvariance, PTL

\* Two phases on disk share a number only where a slot wrote without knowing
\* the disk (phases.go:62).
THEOREM NumbersDiffer == PhasesSpec => []NumberOnce
<1>1. PhasesInv => NumberOnce
  BY DEF PhasesInv
<1> QED
  BY <1>1, PhasesInvariance, PTL

\* A ticket's directory is in the directory of the phase its record names
\* (tickets_phase.go).
THEOREM LabelsTrue == PhasesSpec => []LiesWhereLabelled
<1>1. PhasesInv => LiesWhereLabelled
  BY DEF PhasesInv
<1> QED
  BY <1>1, PhasesInvariance, PTL

\* Deleting a phase takes no ticket with it that the deleting slot could have
\* seen there (phases.go:313).
THEOREM NothingSeenIsLost == PhasesSpec => LostOnlyUnseen
<1> DEFINE A == \A t \in Ticket :
                  lies[t] # Gone /\ lies'[t] = Gone =>
                    \E v \in Slot :
                      /\ job[v] # Nil /\ job[v].op = "delete" /\ job'[v] = Nil
                      /\ t \in moved[v] \/ label[t] # job[v].phase
<1>1. PhasesInv /\ [PhasesNext]_phaseVars => [A]_phaseVars
  <2>1. SUFFICES ASSUME PhasesInv, PhasesNext, NEW t \in Ticket,
                        lies[t] # Gone, lies'[t] = Gone
                 PROVE  \E v \in Slot :
                          /\ job[v] # Nil /\ job[v].op = "delete"
                          /\ job'[v] = Nil
                          /\ t \in moved[v] \/ label[t] # job[v].phase
    OBVIOUS
  <2>2. PICK v \in Slot : CommitDelete(v) \/ CommitAssign(v)
    BY <2>1 DEF PhasesNext, Load, CreatePhase, UpdatePhase, DeletePhase, Assign, Begin,
       CommitCreate, CommitUpdate, Refused, projectFiles
  <2>3. CASE CommitDelete(v)
    <3>1. job[v] # Nil /\ job[v].op = "delete" /\ job'[v] = Nil
      BY <2>1, <2>3 DEF CommitDelete, Done, PhasesInv, PhasesTypeOK
    <3>2. view[v] # Nil /\ view[v].label[t] # job[v].phase
      BY <2>1, <3>1 DEF PhasesInv, Judged
    <3>3. t \in moved[v] \/ label[t] # job[v].phase
      BY <2>1, <3>2 DEF PhasesInv, Seen
    <3> QED
      BY <3>1, <3>3
  <2>4. CASE CommitAssign(v)
    <3>1. job[v].phase \in Phase \cup {Nil}
      BY <2>1, <2>4 DEF CommitAssign, PhasesInv, PhasesTypeOK, Intent
    <3>2. DirOf(job[v].phase) # Gone
      BY <3>1, Markers DEF DirOf, Phase, Dir
    <3> QED
      BY <2>1, <2>4, <3>2 DEF CommitAssign, PhasesInv, PhasesTypeOK
  <2> QED
    BY <2>2, <2>3, <2>4
<1> HIDE DEF A
<1>2. PhasesSpec => [][A]_phaseVars
  BY PhasesInvariance, <1>1, PTL DEF PhasesSpec
<1> QED
  BY <1>2 DEF A, LostOnlyUnseen

-----------------------------------------------------------------------------

(***************************************************************************)
(* The strengthening.  Job i of w's queue is for e; Last, and no later one *)
(* is.  An entry is Due at a worker that has such a job in its queue or in *)
(* its hands.                                                              *)
(***************************************************************************)
Job(w, e, i) ==
  i \in 1..Len(queue[w]) /\ queue[w][i].kind = "embed" /\ queue[w][i].e = e
Last(w, e, i) == Job(w, e, i) /\ \A j \in Nat : Job(w, e, j) => j <= i
Queued(w, e) == \E i \in Nat : Job(w, e, i)
Due(w, e) == Queued(w, e) \/ Busy(w, e)

\* The mount's worker is the one that runs; one that has not started, or has
\* returned, has nothing in its queue or its hands.
Staffed ==
  /\ \A w \in Worker : phase[w] = "run" <=> w = mount
  /\ \A w \in Worker :
       phase[w] \in {"new", "gone"} => queue[w] = <<>> /\ at[w] = None
  /\ hydrate # None => mount # None /\ (hand # None => hand.w # mount)
  /\ (hand # None /\ hand.w # None) => phase[hand.w] # "new"

Hands ==
  hand # None =>
    /\ src[hand.e] # 0
    /\ hand.op = "update" => hand.pc \in {"look", "send"}
    /\ hand.pc \in {"send", "wait"} => hand.w # None
    /\ hand.flushed => hand.w # None /\ hand.pc \in {"wait", "remove"}

\* A job is for a text there is or was, and carries a version of it.
Texts ==
  /\ \A e \in dead : src[e] = 0
  /\ \A e \in Entry, w \in Worker : Due(w, e) => src[e] # 0 \/ e \in dead
  /\ \A w \in Worker : \A i \in 1..Len(queue[w]) :
       queue[w][i].kind = "embed" => queue[w][i].ver # 0
  /\ \A w \in Worker : at[w] # None => at[w].ver # 0

\* What hydrate and the walkers hold is of a text there is or was.
Reads ==
  /\ visit # None =>
       /\ hydrate # None /\ visit.e \in hydrate
       /\ src[visit.e] # 0 \/ visit.e \in dead
       /\ visit.saw # 0 => side[visit.e] # 0 \/ visit.e \in dead
       /\ visit.read # None =>
            visit.saw = 0 /\ visit.read.e = visit.e /\ visit.read.ver # 0
  /\ walk # None =>
       /\ walk.w # None => phase[walk.w] # "new"
       /\ walk.kind = "backfill" =>
            walk.w # None /\ walk.pc \in {"visit", "text", "send"} /\ walk.saw = 0
       /\ walk.pc \in {"flush", "wait"} => walk.w # None
       /\ walk.pc \in {"load", "text", "send"} =>
            walk.e # None /\ (src[walk.e] # 0 \/ walk.e \in dead)
       /\ walk.pc = "load" => walk.saw # 0
       /\ walk.pc = "send" =>
            walk.read # None /\ walk.read.e = walk.e /\ walk.read.ver # 0

\* A barrier is that of the handler that waits, or has ceased to, and nothing
\* was put behind it for the entry unless flushed says so.
Barriers ==
  \A e \in Entry \ dead, w \in Worker : \A i \in 1..Len(queue[w]) :
    (queue[w][i].kind = "flush" /\ queue[w][i].tag = e) =>
      /\ hand # None /\ hand.e = e /\ hand.op = "delete" /\ hand.pc \in {"wait", "remove"}
      /\ hand.pc = "wait" => w = hand.w
      /\ (hand.pc = "wait" /\ hand.flushed) => \A j \in Nat : Job(w, e, j) => j <= i

Flushed ==
  (hand # None /\ hand.pc = "remove" /\ hand.flushed) => ~ Due(hand.w, hand.e)

Buried ==
  \A e \in dead \ exposed :
    /\ side[e] = 0 /\ e \notin marker /\ idx[e] = 0
    /\ \A w \in Worker : ~ Busy(w, e)

\* What has neither sidecar nor marker is on its way through the mount.
Expected ==
  mount # None => \A e \in Entry \ unsettled :
    \/ src[e] = 0 \/ side[e] # 0 \/ e \in marker
    \/ hydrate # None /\ e \in hydrate
    \/ Queued(mount, e)
    \/ Busy(mount, e) /\ at[mount].pc = "embed"

\* Two workers never have jobs for one entry that is not given up for lost.
OneHolder ==
  \A e \in Entry \ (lost \cup dead) : \A v, w \in Worker :
    Due(v, e) => (Due(w, e) => v = w) /\ (mount # None => v = mount)

\* The last job of its worker is for the text on disk.
InHand(e) == hand # None /\ hand.op = "update" /\ hand.e = e
NewestLast ==
  \A e \in Entry \ lost : (src[e] # 0 /\ ~ InHand(e)) => \A w \in Worker :
    /\ \A i \in Nat : Last(w, e, i) => queue[w][i].ver = src[e]
    /\ (Busy(w, e) /\ ~ Queued(w, e)) => at[w].ver = src[e]

Halfway ==
  \A e \in Entry \ (lost \cup dead) : \A w \in Worker :
    (Busy(w, e) /\ at[w].pc = "upsert") => side[e] = at[w].ver

\* While hydrate runs, only what is lost, or in a handler's hand, differs from the
\* text on disk: handlers that enqueue wait for it to end, or have lost their mount.
Fresh ==
  hydrate # None => \A e \in Entry \ (lost \cup dead) :
    (src[e] # 0 /\ ~ InHand(e)) =>
      /\ side[e] = src[e]
      /\ \A i \in Nat : Job(mount, e, i) => queue[mount][i].ver = src[e]
      /\ Busy(mount, e) => at[mount].ver = src[e]
      /\ (visit # None /\ visit.e = e) => visit.saw = src[e]

\* A re-embed has loaded, or will, a vector that is no longer the text's.
Chasing(e) ==
  /\ walk # None /\ walk.e = e /\ walk.pc \in {"load", "text", "send"}
  /\ walk.saw \notin {0, src[e]}

\* Without a job, sidecar and index are those of the text on disk.
Settled ==
  \A e \in Entry \ lost :
    (src[e] # 0 /\ ~ InHand(e) /\ \A w \in Worker : ~ Due(w, e)) =>
      /\ side[e] = src[e]
      /\ (mount # None /\ (hydrate = None \/ e \notin hydrate) /\ ~ Chasing(e)) =>
           idx[e] = src[e]

IInv ==
  /\ TypeOK
  /\ Staffed
  /\ Hands
  /\ Texts
  /\ Barriers
  /\ Flushed
  /\ Buried
  /\ Expected
  /\ OneHolder
  /\ NewestLast
  /\ Halfway
  /\ Reads
  /\ Fresh
  /\ Settled

-----------------------------------------------------------------------------
(* Queues.                                                                 *)

Item == Embed \cup Barrier

LEMMA Items ==
  ASSUME NEW j \in Item
  PROVE  /\ j.kind \in {"embed", "flush"}
         /\ j.kind = "embed" => j \in Embed /\ j.e \in Entry /\ j.ver \in Version
         /\ j.kind = "flush" => j \in Barrier /\ j.tag \in Entry \cup (0..MaxWalks)
<1>1. CASE j \in Embed
  BY <1>1 DEF Embed
<1>2. CASE j \in Barrier
  BY <1>2 DEF Barrier
<1> QED
  BY <1>1, <1>2 DEF Item

LEMMA Queues ==
  ASSUME TypeOK, NEW w \in Worker
  PROVE  /\ queue[w] \in Seq(Item) /\ Len(queue[w]) \in Nat /\ Len(queue[w]) <= Capacity
         /\ \A i \in 1..Len(queue[w]) : queue[w][i] \in Item
<1>1. queue[w] \in Seq(Item) /\ Len(queue[w]) <= Capacity
  BY DEF TypeOK, Item
<1> QED
  BY <1>1

\* What a worker is doing.
LEMMA Hold ==
  ASSUME TypeOK, NEW w \in Worker, at[w] # None
  PROVE  /\ at[w] \in Processing /\ at[w].e \in Entry /\ at[w].ver \in Version
         /\ at[w].pc \in {"embed", "upsert"}
<1>1. at[w] \in Processing
  BY DEF TypeOK
<1> QED
  BY <1>1 DEF Processing

LEMMA Held ==
  ASSUME TypeOK, hand # None
  PROVE  /\ hand \in Handler /\ hand.op \in {"update", "delete"} /\ hand.e \in Entry
         /\ hand.w \in Worker \cup {None}
         /\ hand.pc \in {"look", "send", "wait", "remove"} /\ hand.flushed \in BOOLEAN
<1>1. hand \in Handler
  BY DEF TypeOK
<1> QED
  BY <1>1 DEF Handler

LEMMA Walked ==
  ASSUME TypeOK, walk # None
  PROVE  /\ walk \in Walk /\ walk.w \in Worker \cup {None} /\ walk.todo \subseteq Entry
         /\ walk.kind \in {"backfill", "reembed"}
         /\ walk.pc \in {"flush", "wait", "visit", "load", "text", "send"}
         /\ walk.e \in Entry \cup {None} /\ walk.saw \in Version
         /\ walk.read # None => /\ walk.read \in Embed /\ walk.read.kind = "embed"
                                /\ walk.read.e \in Entry /\ walk.read.ver \in Version
<1>1. walk \in Walk
  BY DEF TypeOK
<1>2. walk.read \in Embed \cup {None}
  BY <1>1 DEF Walk
<1> QED
  BY <1>1, <1>2 DEF Walk, Embed

LEMMA Looked ==
  ASSUME TypeOK, visit # None
  PROVE  /\ visit \in Visit /\ visit.e \in Entry /\ visit.saw \in Version
         /\ visit.read # None => /\ visit.read \in Embed /\ visit.read.kind = "embed"
                                 /\ visit.read.e \in Entry /\ visit.read.ver \in Version
<1>1. visit \in Visit
  BY DEF TypeOK
<1>2. visit.read \in Embed \cup {None}
  BY <1>1 DEF Visit
<1> QED
  BY <1>1, <1>2 DEF Visit, Embed

LEMMA PutIn ==
  ASSUME TypeOK, NEW w \in Worker, NEW j \in Item, Room(w), Put(w, j)
  PROVE  /\ queue' \in [Worker -> Seq(Item)]
         /\ \A v \in Worker : Len(queue'[v]) <= Capacity
         /\ \A v \in Worker \ {w} : queue'[v] = queue[v]
         /\ phase[w] = "gone" => queue' = queue
         /\ phase[w] # "gone" =>
              /\ Len(queue'[w]) = Len(queue[w]) + 1
              /\ \A i \in 1..Len(queue[w]) : queue'[w][i] = queue[w][i]
              /\ queue'[w][Len(queue[w]) + 1] = j
<1>1. queue \in [Worker -> Seq(Item)] /\ \A v \in Worker : Len(queue[v]) <= Capacity
  BY DEF TypeOK, Item
<1>2. CASE phase[w] = "gone"
  BY <1>1, <1>2 DEF Put
<1>3. CASE phase[w] # "gone"
  <2>1. queue' = [queue EXCEPT ![w] = Append(@, j)]
    BY <1>3 DEF Put
  <2>2. /\ Append(queue[w], j) \in Seq(Item) /\ Len(Append(queue[w], j)) = Len(queue[w]) + 1
        /\ \A i \in 1..Len(queue[w]) : Append(queue[w], j)[i] = queue[w][i]
        /\ Append(queue[w], j)[Len(queue[w]) + 1] = j
    BY <1>1
  <2>3. Len(queue[w]) + 1 <= Capacity
    BY <1>1, CapacityAssumption DEF Room
  <2> QED
    BY <1>1, <1>3, <2>1, <2>2, <2>3
<1> QED
  BY <1>2, <1>3

\* Behind a barrier, or with the worker gone, the jobs are what they were.
LEMMA PutBarrier ==
  ASSUME TypeOK, NEW w \in Worker, NEW j \in Item, Room(w), Put(w, j),
         j.kind = "flush" \/ phase[w] = "gone"
  PROVE  /\ \A v \in Worker, e \in Entry, i \in Nat : Job(v, e, i)' <=> Job(v, e, i)
         /\ \A v \in Worker, e \in Entry, i \in Nat : Last(v, e, i)' <=> Last(v, e, i)
         /\ \A v \in Worker, e \in Entry : Queued(v, e)' <=> Queued(v, e)
         /\ \A v \in Worker, e \in Entry, i \in Nat : Job(v, e, i) => queue'[v][i] = queue[v][i]
<1>1. \A v \in Worker, e \in Entry, i \in Nat : Job(v, e, i)' <=> Job(v, e, i)
  <2>1. SUFFICES ASSUME NEW v \in Worker, NEW e \in Entry, NEW i \in Nat
                 PROVE  Job(v, e, i)' <=> Job(v, e, i)
    OBVIOUS
  <2>2. CASE v # w \/ phase[w] = "gone"
    <3>1. queue'[v] = queue[v]
      BY <2>2, PutIn
    <3> QED
      BY <3>1 DEF Job
  <2>3. CASE v = w /\ phase[w] # "gone"
    <3>1. Len(queue[w]) \in Nat
      BY Queues
    <3>2. CASE i \in 1..Len(queue[w])
      <4>1. queue'[w][i] = queue[w][i] /\ i \in 1..Len(queue'[w])
        BY <2>3, <3>1, <3>2, PutIn
      <4> QED
        BY <2>3, <3>2, <4>1 DEF Job
    <3>3. CASE i = Len(queue[w]) + 1
      <4>1. queue'[w][i] = j /\ i \notin 1..Len(queue[w])
        BY <2>3, <3>1, <3>3, PutIn
      <4> QED
        BY <2>3, <4>1 DEF Job
    <3>4. CASE i \notin 1..Len(queue[w]) /\ i # Len(queue[w]) + 1
      <4>1. i \notin 1..Len(queue'[w])
        BY <2>3, <3>1, <3>4, PutIn
      <4> QED
        BY <2>3, <3>4, <4>1 DEF Job
    <3> QED
      BY <3>2, <3>3, <3>4
  <2> QED
    BY <2>2, <2>3
<1>2. \A v \in Worker, e \in Entry, i \in Nat : Job(v, e, i) => queue'[v][i] = queue[v][i]
  <2>1. \A v \in Worker : v # w \/ phase[w] = "gone" => queue'[v] = queue[v]
    BY PutIn
  <2>2. phase[w] # "gone" => \A i \in 1..Len(queue[w]) : queue'[w][i] = queue[w][i]
    BY PutIn
  <2> QED
    BY <2>1, <2>2 DEF Job
<1> QED
  BY <1>1, <1>2 DEF Last, Queued

\* A job that is put into a queue becomes its entry's last.
LEMMA PutJob ==
  ASSUME TypeOK, NEW w \in Worker, NEW j \in Item, Room(w), Put(w, j),
         j.kind = "embed", phase[w] # "gone"
  PROVE  /\ \A v \in Worker, e \in Entry, i \in Nat :
              Job(v, e, i)' <=> \/ Job(v, e, i)
                                \/ v = w /\ e = j.e /\ i = Len(queue[w]) + 1
         /\ \A v \in Worker, e \in Entry, i \in Nat : (v # w \/ e # j.e) =>
              (Last(v, e, i)' <=> Last(v, e, i))
         /\ \A i \in Nat : Last(w, j.e, i)' => queue'[w][i] = j
         /\ \A v \in Worker, e \in Entry : Queued(v, e)' <=> Queued(v, e) \/ (v = w /\ e = j.e)
         /\ \A v \in Worker, e \in Entry, i \in Nat : Job(v, e, i) => queue'[v][i] = queue[v][i]
<1>1. \A v \in Worker, e \in Entry, i \in Nat :
        Job(v, e, i)' <=> \/ Job(v, e, i)
                          \/ v = w /\ e = j.e /\ i = Len(queue[w]) + 1
  <2>1. SUFFICES ASSUME NEW v \in Worker, NEW e \in Entry, NEW i \in Nat
                 PROVE  Job(v, e, i)' <=> \/ Job(v, e, i)
                                          \/ v = w /\ e = j.e /\ i = Len(queue[w]) + 1
    OBVIOUS
  <2>2. CASE v # w
    <3>1. queue'[v] = queue[v]
      BY <2>2, PutIn
    <3> QED
      BY <2>2, <3>1 DEF Job
  <2>3. CASE v = w
    <3>1. Len(queue[w]) \in Nat
      BY Queues
    <3>2. CASE i \in 1..Len(queue[w])
      <4>1. queue'[w][i] = queue[w][i] /\ i \in 1..Len(queue'[w]) /\ i # Len(queue[w]) + 1
        BY <2>3, <3>1, <3>2, PutIn
      <4> QED
        BY <2>3, <3>2, <4>1 DEF Job
    <3>3. CASE i = Len(queue[w]) + 1
      <4>1. queue'[w][i] = j /\ i \notin 1..Len(queue[w]) /\ i \in 1..Len(queue'[w])
        BY <2>3, <3>1, <3>3, PutIn
      <4> QED
        BY <2>3, <3>3, <4>1 DEF Job
    <3>4. CASE i \notin 1..Len(queue[w]) /\ i # Len(queue[w]) + 1
      <4>1. i \notin 1..Len(queue'[w])
        BY <2>3, <3>1, <3>4, PutIn
      <4> QED
        BY <2>3, <3>4, <4>1 DEF Job
    <3> QED
      BY <3>2, <3>3, <3>4
  <2> QED
    BY <2>2, <2>3
<1>2. Len(queue[w]) + 1 \in Nat /\ queue'[w][Len(queue[w]) + 1] = j
  BY Queues, PutIn
<1>3. j.e \in Entry
  BY Items
<1>4. \A e \in Entry, i \in Nat : Job(w, e, i) => i <= Len(queue[w])
  BY Queues DEF Job
<1>5. \A i \in Nat : Last(w, j.e, i)' => i = Len(queue[w]) + 1
  <2>1. SUFFICES ASSUME NEW i \in Nat, Last(w, j.e, i)', NEW n \in Nat, n = Len(queue[w]) + 1
                 PROVE  i = n
    BY <1>2
  <2>2. Job(w, j.e, n)'
    BY <1>1, <1>3, <2>1
  <2>3. Job(w, j.e, i)' /\ n <= i
    BY <2>1, <2>2 DEF Last
  <2>4. Job(w, j.e, i) \/ i = n
    BY <1>1, <1>3, <2>1, <2>3
  <2> QED
    BY <1>3, <1>4, <2>1, <2>3, <2>4, Queues
<1>6. \A v \in Worker, e \in Entry, i \in Nat : (v # w \/ e # j.e) =>
        (Last(v, e, i)' <=> Last(v, e, i))
  BY <1>1 DEF Last
<1>7. \A v \in Worker, e \in Entry : Queued(v, e)' <=> Queued(v, e) \/ (v = w /\ e = j.e)
  BY <1>1, <1>2 DEF Queued
<1>8. \A v \in Worker, e \in Entry, i \in Nat : Job(v, e, i) => queue'[v][i] = queue[v][i]
  <2>1. \A v \in Worker : v # w => queue'[v] = queue[v]
    BY PutIn
  <2>2. \A i \in 1..Len(queue[w]) : queue'[w][i] = queue[w][i]
    BY PutIn
  <2> QED
    BY <2>1, <2>2 DEF Job
<1> QED
  BY <1>1, <1>2, <1>5, <1>6, <1>7, <1>8

\* Taking the first item moves the others up.
LEMMA TakeOut ==
  ASSUME TypeOK, NEW w \in Worker, queue[w] # <<>>,
         queue' = [queue EXCEPT ![w] = Tail(@)]
  PROVE  /\ queue' \in [Worker -> Seq(Item)]
         /\ \A v \in Worker : Len(queue'[v]) <= Capacity
         /\ \A v \in Worker \ {w} : queue'[v] = queue[v]
         /\ Head(queue[w]) = queue[w][1] /\ 1 \in 1..Len(queue[w])
         /\ Len(queue'[w]) = Len(queue[w]) - 1
         /\ \A i \in 1..Len(queue'[w]) :
              i + 1 \in 1..Len(queue[w]) /\ queue'[w][i] = queue[w][i + 1]
         /\ \A e \in Entry, i \in Nat : Job(w, e, i)' <=> i # 0 /\ Job(w, e, i + 1)
<1>1. queue \in [Worker -> Seq(Item)] /\ \A v \in Worker : Len(queue[v]) <= Capacity
  BY DEF TypeOK, Item
<1>2. /\ Tail(queue[w]) \in Seq(Item) /\ Len(Tail(queue[w])) = Len(queue[w]) - 1
      /\ \A i \in 1..Len(Tail(queue[w])) : Tail(queue[w])[i] = queue[w][i + 1]
      /\ Head(queue[w]) = queue[w][1] /\ Len(queue[w]) \in Nat \ {0}
  BY <1>1
<1>3. queue'[w] = Tail(queue[w]) /\ \A v \in Worker \ {w} : queue'[v] = queue[v]
  BY <1>1
<1>4. PICK n \in Nat : Len(queue[w]) = n + 1
  <2>1. SUFFICES ASSUME NEW l, l = Len(queue[w])
                 PROVE  \E n \in Nat : l = n + 1
    OBVIOUS
  <2>2. l \in Nat /\ l # 0
    BY <1>2, <2>1
  <2>3. l - 1 \in Nat /\ l = (l - 1) + 1
    BY <2>2
  <2> QED
    BY <2>3
<1>a. /\ \A i \in 1..Len(queue'[w]) :
           i + 1 \in 1..Len(queue[w]) /\ queue'[w][i] = queue[w][i + 1]
      /\ Len(queue'[w]) = Len(queue[w]) - 1
  <2>0. Len(Tail(queue[w])) = (n + 1) - 1
    BY <1>2, <1>4
  <2>a. (n + 1) - 1 = n
    BY <1>4
  <2>b. queue'[w] = Tail(queue[w])
    BY <1>3
  <2>1. Len(queue'[w]) = n /\ Len(Tail(queue[w])) = n
    BY <2>0, <2>a, <2>b
  <2>2. \A i \in 1..n : queue'[w][i] = queue[w][i + 1]
    BY <1>2, <1>3, <2>1
  <2>3. \A i \in 1..n : i + 1 \in 1..(n + 1)
    OBVIOUS
  <2> QED
    BY <1>4, <2>1, <2>2, <2>3
<1>5. \A e \in Entry, i \in Nat : Job(w, e, i)' <=> i # 0 /\ Job(w, e, i + 1)
  <2>1. SUFFICES ASSUME NEW e \in Entry, NEW i \in Nat
                 PROVE  Job(w, e, i)' <=> i # 0 /\ Job(w, e, i + 1)
    OBVIOUS
  <2>2. i \in 1..Len(queue'[w]) <=> i # 0 /\ i + 1 \in 1..Len(queue[w])
    BY <1>4, <1>a
  <2>3. i \in 1..Len(queue'[w]) => queue'[w][i] = queue[w][i + 1]
    BY <1>a
  <2> QED
    BY <2>2, <2>3 DEF Job
<1>6. \A v \in Worker : Len(queue'[v]) <= Capacity
  BY <1>1, <1>2, <1>3, CapacityAssumption
<1> QED
  BY <1>1, <1>2, <1>3, <1>5, <1>6, <1>a

LEMMA Kept ==
  ASSUME queue' = queue, at' = at
  PROVE  /\ \A v \in Worker, e \in Entry, i \in Nat : Job(v, e, i)' <=> Job(v, e, i)
         /\ \A v \in Worker, e \in Entry, i \in Nat : Last(v, e, i)' <=> Last(v, e, i)
         /\ \A v \in Worker, e \in Entry : Queued(v, e)' <=> Queued(v, e)
         /\ \A v \in Worker, e \in Entry : Busy(v, e)' <=> Busy(v, e)
         /\ \A v \in Worker, e \in Entry : Due(v, e)' <=> Due(v, e)
BY DEF Job, Last, Queued, Busy, Due

\* Pending is what is Due.
LEMMA Pendings ==
  ASSUME TypeOK, NEW w \in Worker, NEW e \in Entry
  PROVE  e \in Pending(w) <=> Due(w, e)
<1>1. /\ Len(queue[w]) \in Nat
      /\ \A i \in Nat : i \in 1..Len(queue[w]) => i \in 1..Len(queue[w])
  BY Queues
<1>2. e \in {queue[w][i].e : i \in {k \in 1..Len(queue[w]) : queue[w][k].kind = "embed"}}
        <=> Queued(w, e)
  <2>1. \A i \in 1..Len(queue[w]) : i \in Nat
    BY <1>1
  <2> QED
    BY <2>1 DEF Queued, Job
<1> QED
  BY <1>2 DEF Pending, Due, Busy

LEMMA Sorts ==
  ASSUME TypeOK
  PROVE  /\ mount \in Worker \cup {None} /\ dead \subseteq Entry /\ marker \subseteq Entry
         /\ src \in [Entry -> Version] /\ side \in [Entry -> Version]
         /\ idx \in [Entry -> Version]
         /\ hydrate \in (SUBSET Entry) \cup {None} /\ visit \in Visit \cup {None}
         /\ phase \in [Worker -> {"new", "run", "stop", "gone"}]
         /\ walks \in 0..MaxWalks
         /\ lost \subseteq Entry /\ unsettled \subseteq Entry /\ exposed \subseteq Entry
BY DEF TypeOK

\* While hydrate runs there is a mount.
LEMMA Attended ==
  ASSUME IInv
  PROVE  hydrate # None => mount \in Worker
BY Sorts DEF IInv, Staffed

-----------------------------------------------------------------------------
(* Handlers.                                                               *)

LEMMA CommitTextStep ==
  ASSUME IInv, NEW e \in Entry, CommitText(e)
  PROVE  IInv'
<1>a. /\ src \in [Entry -> Version] /\ src[e] + 1 \in Version \ {0}
      /\ src' = [src EXCEPT ![e] = src[e] + 1]
      /\ \A x \in Entry : src[x] # 0 => src'[x] # 0
  BY BoundsAssumption DEF CommitText, IInv, TypeOK, Version
<1>b. hand' \in Handler /\ hand' # None /\ hand'.op = "update" /\ hand'.e = e
  <2>1. hand' = [op |-> "update", e |-> e, w |-> None, pc |-> "look", flushed |-> FALSE]
    BY DEF CommitText
  <2>2. hand' \in Handler
    BY <2>1 DEF Handler
  <2> QED
    BY <2>1, <2>2, NoneAssumption
<1>0. TypeOK /\ TypeOK'
  BY <1>a, <1>b DEF IInv, TypeOK, CommitText, Worker, disk, history
<1>1. Staffed'
  BY <1>0, <1>a, <1>b, Kept, Sorts, Held, Walked, NoneAssumption DEF IInv, Staffed,
     CommitText, disk, history
<1>2. Hands'
  BY <1>0, <1>a, <1>b, Kept, Sorts, Held, Walked, NoneAssumption DEF IInv, Hands,
     CommitText, disk, history
<1>3. Texts'
  BY <1>0, <1>a, <1>b, Kept, Sorts, Held, Walked, NoneAssumption DEF IInv, Texts,
     CommitText, disk, history
<1>4. Barriers'
  BY <1>0, <1>a, <1>b, Kept, Sorts, Held, Walked, NoneAssumption DEF IInv, Barriers,
     CommitText, disk, history
<1>5. Flushed'
  BY <1>0, <1>a, <1>b, Kept, Sorts, Held, Walked, NoneAssumption DEF IInv, Flushed,
     Hands, CommitText, disk, history
<1>6. Buried'
  BY <1>0, <1>a, <1>b, Kept, Sorts, Held, Walked, NoneAssumption DEF IInv, Buried,
     CommitText, disk, history
<1>7. Expected'
  BY <1>0, <1>a, <1>b, Kept, Sorts, Held, Walked, NoneAssumption DEF IInv, Expected,
     CommitText, disk, history
<1>8. OneHolder'
  BY <1>0, <1>a, <1>b, Kept, Sorts, Held, Walked, NoneAssumption DEF IInv,
     OneHolder, CommitText, disk, history
<1>9. NewestLast'
  BY <1>0, <1>a, <1>b, Kept, Sorts, Held, Walked, NoneAssumption DEF IInv,
     NewestLast, InHand, CommitText, disk, history
<1>10. Halfway'
  BY <1>0, <1>a, <1>b, Kept, Sorts, Held, Walked, NoneAssumption DEF IInv, Halfway,
     CommitText, disk, history
<1>11. Reads'
  BY <1>0, <1>a, <1>b, Kept, Sorts, Held, Walked, Looked, NoneAssumption DEF IInv,
     Reads, CommitText, disk, history
<1>12. Fresh'
  BY <1>0, <1>a, <1>b, Kept, Sorts, Held, Walked, Looked, Attended, NoneAssumption
     DEF IInv, Fresh, InHand, CommitText, disk, history
<1>13. Settled'
  BY <1>0, <1>a, <1>b, Kept, Sorts, Held, Walked, Looked, NoneAssumption DEF IInv,
     Settled, Chasing, InHand, CommitText, disk, history
<1> QED
  BY <1>0, <1>1, <1>2, <1>3, <1>4, <1>5, <1>6, <1>7, <1>8, <1>9, <1>10, <1>11, <1>12,
     <1>13
  DEF IInv

LEMMA BeginDeleteStep ==
  ASSUME IInv, NEW e \in Entry, BeginDelete(e)
  PROVE  IInv'
<1>0. TypeOK /\ TypeOK'
  BY NoneAssumption, BoundsAssumption DEF IInv, TypeOK, Handler, BeginDelete, Worker,
     disk, history
<1>1. Staffed'
  BY <1>0, Kept, Sorts, Held, Walked, NoneAssumption DEF IInv, Staffed, BeginDelete,
     disk, history
<1>2. Hands'
  BY <1>0, Kept, Sorts, Held, Walked, NoneAssumption DEF IInv, Hands, BeginDelete,
     disk, history
<1>3. Texts'
  BY <1>0, Kept, Sorts, Held, Walked, NoneAssumption DEF IInv, Texts, BeginDelete,
     disk, history
<1>4. Barriers'
  BY <1>0, Kept, Sorts, Held, Walked, NoneAssumption DEF IInv, Barriers,
     BeginDelete, disk, history
<1>5. Flushed'
  BY <1>0, Kept, Sorts, Held, Walked, NoneAssumption DEF IInv, Flushed, Hands,
     BeginDelete, disk, history
<1>6. Buried'
  BY <1>0, Kept, Sorts, Held, Walked, NoneAssumption DEF IInv, Buried, BeginDelete,
     disk, history
<1>7. Expected'
  BY <1>0, Kept, Sorts, Held, Walked, NoneAssumption DEF IInv, Expected,
     BeginDelete, disk, history
<1>8. OneHolder'
  BY <1>0, Kept, Sorts, Held, Walked, NoneAssumption DEF IInv, OneHolder,
     BeginDelete, disk, history
<1>9. NewestLast'
  BY <1>0, Kept, Sorts, Held, Walked, NoneAssumption DEF IInv, NewestLast, InHand,
     BeginDelete, disk, history
<1>10. Halfway'
  BY <1>0, Kept, Sorts, Held, Walked, NoneAssumption DEF IInv, Halfway, BeginDelete,
     disk, history
<1>11. Reads'
  BY <1>0, Kept, Sorts, Held, Walked, Looked, NoneAssumption DEF IInv, Reads,
     BeginDelete, disk, history
<1>12. Fresh'
  BY <1>0, Kept, Sorts, Held, Walked, Looked, Attended, NoneAssumption DEF IInv,
     Fresh, InHand, BeginDelete, disk, history
<1>13. Settled'
  BY <1>0, Kept, Sorts, Held, Walked, Looked, NoneAssumption DEF IInv, Settled,
     Chasing, InHand, BeginDelete, disk, history
<1> QED
  BY <1>0, <1>1, <1>2, <1>3, <1>4, <1>5, <1>6, <1>7, <1>8, <1>9, <1>10, <1>11, <1>12,
     <1>13
  DEF IInv

LEMMA FindWorkerStep ==
  ASSUME IInv, FindWorker
  PROVE  IInv'
<1>0. TypeOK /\ TypeOK'
  <2>1. TypeOK /\ hand # None /\ hand \in Handler
    BY Held DEF IInv, FindWorker
  <2>2. /\ [hand EXCEPT !.pc = "remove"] \in Handler
        /\ mount # None => [hand EXCEPT !.w = mount, !.pc = "send"] \in Handler
    BY <2>1 DEF TypeOK, Handler
  <2>3. hand' \in Handler \cup {None}
    BY <2>2 DEF FindWorker
  <2>4. lost' \subseteq Entry
    BY <2>1 DEF FindWorker, Lose, TypeOK, Handler
  <2> QED
    BY <2>1, <2>3, <2>4 DEF TypeOK, FindWorker, disk, history
<1>g. ASSUME NEW x \in Entry \ lost', src[x] # 0, ~ InHand(x)'
      PROVE  x \notin lost /\ ~ InHand(x)
  <2>1. x \notin dead
    BY <1>g DEF IInv, Texts
  <2>2. x \notin lost
    BY <1>g DEF FindWorker, Lose
  <2>3. SUFFICES ASSUME InHand(x) PROVE FALSE
    BY <2>2
  <2>4. hand # None /\ hand \in Handler /\ hand.op = "update" /\ hand.e = x
    BY <1>0, <2>3, Held DEF InHand
  <2>5. CASE mount # None
    <3>1. hand' = [hand EXCEPT !.w = mount, !.pc = "send"]
      BY <2>5 DEF FindWorker
    <3>2. hand' \in Handler /\ hand'.op = "update" /\ hand'.e = x
      BY <1>0, <2>4, <2>5, <3>1 DEF TypeOK, Handler
    <3> QED
      BY <1>g, <3>2, NoneAssumption DEF InHand
  <2>6. CASE mount = None
    BY <1>g, <2>1, <2>4, <2>6 DEF FindWorker, Lose
  <2> QED
    BY <2>5, <2>6
<1>1. Staffed'
  BY <1>0, Kept, Sorts, Held, Walked, NoneAssumption DEF IInv, Staffed, FindWorker,
     disk, history, Lose
<1>2. Hands'
  BY <1>0, Kept, Sorts, Held, Walked, NoneAssumption DEF IInv, Hands, FindWorker,
     disk, history, Lose
<1>3. Texts'
  BY <1>0, Kept, Sorts, Held, Walked, NoneAssumption DEF IInv, Texts, FindWorker,
     disk, history, Lose
<1>4. Barriers'
  BY <1>0, Kept, Sorts, Held, Walked, NoneAssumption DEF IInv, Barriers, FindWorker,
     disk, history, Lose
<1>5. Flushed'
  BY <1>0, Kept, Sorts, Held, Walked, NoneAssumption DEF IInv, Flushed, Hands,
     FindWorker, disk, history, Lose
<1>6. Buried'
  BY <1>0, Kept, Sorts, Held, Walked, NoneAssumption DEF IInv, Buried, FindWorker,
     disk, history, Lose
<1>7. Expected'
  BY <1>0, Kept, Sorts, Held, Walked, NoneAssumption DEF IInv, Expected, FindWorker,
     disk, history, Lose
<1>8. OneHolder'
  BY <1>0, Kept, Sorts, Held, Walked, NoneAssumption DEF IInv, OneHolder,
     FindWorker, disk, history, Lose
<1>9. NewestLast'
  <2>2. UNCHANGED <<src, queue, at>>
    BY DEF FindWorker, disk
  <2> QED
    BY <1>g, <2>2, Kept DEF NewestLast, IInv
<1>10. Halfway'
  BY <1>0, Kept, Sorts, Held, Walked, NoneAssumption DEF IInv, Halfway, FindWorker,
     disk, history, Lose
<1>11. Reads'
  BY <1>0, Kept, Sorts, Held, Walked, Looked, NoneAssumption DEF IInv, Reads,
     FindWorker, disk, history, Lose
<1>12. Fresh'
  BY <1>0, Kept, Sorts, Held, Walked, Looked, Attended, NoneAssumption DEF IInv,
     Fresh, InHand, FindWorker, disk, history, Lose
<1>13. Settled'
  <2>2. UNCHANGED <<src, side, idx, mount, hydrate, walk, queue, at>>
    BY DEF FindWorker, disk
  <2> QED
    BY <1>g, <2>2, Kept DEF Settled, Chasing, IInv
<1> QED
  BY <1>0, <1>1, <1>2, <1>3, <1>4, <1>5, <1>6, <1>7, <1>8, <1>9, <1>10, <1>11, <1>12,
     <1>13
  DEF IInv

LEMMA Sent ==
  ASSUME TypeOK, NEW w \in Worker, NEW j \in Embed, Room(w), Put(w, j), at' = at,
         NEW e, e = j.e
  PROVE  /\ \A v \in Worker, x \in Entry : Busy(v, x)' <=> Busy(v, x)
         /\ \A v \in Worker, x \in Entry : Queued(v, x) => Queued(v, x)'
         /\ \A v \in Worker, x \in Entry : Due(v, x) => Due(v, x)'
         /\ \A v \in Worker, x \in Entry, i \in Nat :
              Job(v, x, i)' => Job(v, x, i) \/ (phase[w] # "gone" /\ v = w /\ x = e)
         /\ \A v \in Worker, x \in Entry :
              Queued(v, x)' => Queued(v, x) \/ (phase[w] # "gone" /\ v = w /\ x = e)
         /\ \A v \in Worker, x \in Entry :
              Due(v, x)' => Due(v, x) \/ (phase[w] # "gone" /\ v = w /\ x = e)
         /\ phase[w] # "gone" => Queued(w, e)'
         /\ \A v \in Worker, x \in Entry, i \in Nat : Last(v, x, i)' =>
              \/ Last(v, x, i) /\ queue'[v][i] = queue[v][i]
              \/ phase[w] # "gone" /\ v = w /\ x = e
         /\ \A i \in Nat : (phase[w] # "gone" /\ Last(w, e, i)') => queue'[w][i] = j
         /\ \A v \in Worker : \A i \in 1..Len(queue'[v]) :
              \/ i \in 1..Len(queue[v]) /\ queue'[v][i] = queue[v][i]
              \/ phase[w] # "gone" /\ v = w /\ queue'[v][i] = j
         /\ queue' \in [Worker -> Seq(Embed \cup Barrier)]
         /\ \A v \in Worker : Len(queue'[v]) <= Capacity
         /\ phase[w] = "gone" => queue' = queue
         /\ \A v \in Worker \ {w} : queue'[v] = queue[v]
<1>1. j \in Item /\ j.kind = "embed" /\ e \in Entry
  BY DEF Item, Embed
<1>2. /\ queue' \in [Worker -> Seq(Item)] /\ \A v \in Worker : Len(queue'[v]) <= Capacity
      /\ phase[w] = "gone" => queue' = queue
      /\ \A v \in Worker \ {w} : queue'[v] = queue[v]
      /\ phase[w] # "gone" =>
              /\ Len(queue'[w]) = Len(queue[w]) + 1
              /\ \A i \in 1..Len(queue[w]) : queue'[w][i] = queue[w][i]
              /\ queue'[w][Len(queue[w]) + 1] = j
  BY <1>1, PutIn
<1>3. \A v \in Worker, x \in Entry : Busy(v, x)' <=> Busy(v, x)
  BY DEF Busy
<1>4. CASE phase[w] = "gone"
  <2>1. queue' = queue
    BY <1>2, <1>4
  <2> QED
    BY <1>2, <1>3, <1>4, <2>1, Kept DEF Last, Item
<1>5. CASE phase[w] # "gone"
  <2>1. /\ \A v \in Worker, x \in Entry, i \in Nat :
             Job(v, x, i)' <=> \/ Job(v, x, i)
                               \/ v = w /\ x = e /\ i = Len(queue[w]) + 1
        /\ \A v \in Worker, x \in Entry, i \in Nat : (v # w \/ x # e) =>
             (Last(v, x, i)' <=> Last(v, x, i))
        /\ \A i \in Nat : Last(w, e, i)' => queue'[w][i] = j
        /\ \A v \in Worker, x \in Entry : Queued(v, x)' <=> Queued(v, x) \/ (v = w /\ x = e)
        /\ \A v \in Worker, x \in Entry, i \in Nat : Job(v, x, i) => queue'[v][i] = queue[v][i]
    BY <1>1, <1>5, PutJob
  <2>2. \A v \in Worker : \A i \in 1..Len(queue'[v]) :
              \/ i \in 1..Len(queue[v]) /\ queue'[v][i] = queue[v][i]
              \/ v = w /\ queue'[v][i] = j
    <3>1. ASSUME NEW i \in 1..Len(queue'[w])
          PROVE  i \in 1..Len(queue[w]) \/ i = Len(queue[w]) + 1
      <4>1. Len(queue[w]) \in Nat /\ Len(queue'[w]) = Len(queue[w]) + 1
        BY <1>2, <1>5, Queues
      <4> QED
        BY <3>1, <4>1
    <3> QED
      BY <1>2, <1>5, <3>1
  <2>3. \A v \in Worker, x \in Entry, i \in Nat : Last(v, x, i)' =>
              \/ Last(v, x, i) /\ queue'[v][i] = queue[v][i]
              \/ v = w /\ x = e
    BY <2>1 DEF Last
  <2>4. \A v \in Worker, x \in Entry : Due(v, x)' <=> Due(v, x) \/ (v = w /\ x = e)
    BY <1>3, <2>1 DEF Due
  <2> QED
    BY <1>1, <1>2, <1>3, <1>5, <2>1, <2>2, <2>3, <2>4 DEF Item
<1> QED
  BY <1>4, <1>5

LEMMA EnqueueStep ==
  ASSUME IInv, Enqueue
  PROVE  IInv'
<1>1. PICK w \in Worker, e \in Entry :
        w = hand.w /\ e = hand.e /\ hand # None /\ hand.op = "update" /\ hand.pc = "send"
  BY Held DEF Enqueue, IInv, Hands
<1>2. /\ hand' = None /\ at' = at
      /\ UNCHANGED <<src, side, marker, dead, idx, mount, phase, hydrate, visit, walk, walks,
                     booted, unsettled, exposed>>
      /\ IF Room(w) THEN Put(w, EmbedJob(e, src[e])) ELSE UNCHANGED queue
      /\ IF Room(w) /\ phase[w] = "run" THEN lost' = lost
         ELSE lost' = lost \cup ({e} \ dead)
  BY <1>1 DEF Enqueue, disk, Lose
<1>3. src[e] # 0 /\ e \notin dead
  BY <1>1 DEF IInv, Hands, Texts
<1>4. /\ EmbedJob(e, src[e]) \in Embed /\ EmbedJob(e, src[e]).e = e
      /\ EmbedJob(e, src[e]).ver = src[e] /\ EmbedJob(e, src[e]).kind = "embed"
  BY Sorts DEF IInv, EmbedJob, Embed
\* The queue gets the job only from a handler of a worker that has not returned.
<1>5. /\ \A v \in Worker, x \in Entry : Busy(v, x)' <=> Busy(v, x)
      /\ \A v \in Worker, x \in Entry : Queued(v, x) => Queued(v, x)'
      /\ \A v \in Worker, x \in Entry : Due(v, x) => Due(v, x)'
      /\ \A v \in Worker, x \in Entry, i \in Nat : x # e => (Job(v, x, i)' => Job(v, x, i))
      /\ \A v \in Worker, x \in Entry : Due(v, x)' => Due(v, x) \/ (v = w /\ x = e)
      /\ \A v \in Worker, x \in Entry, i \in Nat : Last(v, x, i)' =>
              \/ Last(v, x, i) /\ queue'[v][i] = queue[v][i]
              \/ v = w /\ x = e
      /\ \A v \in Worker : \A i \in 1..Len(queue'[v]) :
              \/ i \in 1..Len(queue[v]) /\ queue'[v][i] = queue[v][i]
              \/ v = w /\ queue'[v][i] = EmbedJob(e, src[e])
      /\ queue' \in [Worker -> Seq(Embed \cup Barrier)]
      /\ \A v \in Worker : Len(queue'[v]) <= Capacity
      /\ phase[w] = "gone" => queue' = queue
      /\ \A v \in Worker \ {w} : queue'[v] = queue[v]
  <2>1. CASE Room(w)
    BY <1>2, <1>4, <2>1, Sent DEF IInv
  <2>2. CASE ~ Room(w)
    <3>1. queue' = queue
      BY <1>2, <2>2
    <3> QED
      BY <1>2, <3>1, Kept DEF IInv, TypeOK
  <2> QED
    BY <2>1, <2>2
<1>6. e \notin lost' => /\ w = mount /\ Queued(w, e)' /\ lost' = lost /\ mount # None
                        /\ \A i \in Nat : Last(w, e, i)' => queue'[w][i].ver = src[e]
  <2>1. SUFFICES ASSUME e \notin lost'
                 PROVE  /\ w = mount /\ Queued(w, e)' /\ lost' = lost /\ mount # None
                        /\ \A i \in Nat : Last(w, e, i)' => queue'[w][i].ver = src[e]
    OBVIOUS
  <2>2. Room(w) /\ phase[w] = "run" /\ lost' = lost /\ Put(w, EmbedJob(e, src[e]))
    BY <1>2, <1>3, <2>1
  <2>3. w = mount /\ mount # None
    BY <1>1, <2>2, NoneAssumption DEF IInv, Staffed
  <2> QED
    BY <1>2, <1>4, <2>2, <2>3, Sent DEF IInv
<1>7. lost \subseteq lost' /\ lost' \subseteq Entry
  BY <1>2, Sorts DEF IInv
<1>0. TypeOK /\ TypeOK'
  BY <1>2, <1>5, <1>7 DEF IInv, TypeOK
<1>8. Staffed'
  BY <1>0, <1>1, <1>2, <1>5, Sorts, NoneAssumption DEF IInv, Staffed
<1>9. Hands' /\ Flushed'
  BY <1>2 DEF Hands, Flushed
<1>10. Texts'
  <2>1. \A v \in Worker : \A i \in 1..Len(queue'[v]) :
          queue'[v][i].kind = "embed" => queue'[v][i].ver # 0
    BY <1>3, <1>4, <1>5 DEF IInv, Texts
  <2> QED
    BY <1>2, <1>3, <1>5, <2>1 DEF IInv, Texts
<1>11. Barriers'
  <2>1. ASSUME NEW x \in Entry \ dead, NEW v \in Worker, NEW i \in 1..Len(queue'[v]),
               queue'[v][i].kind = "flush", queue'[v][i].tag = x
        PROVE  FALSE
    BY <1>1, <1>4, <1>5, <2>1 DEF IInv, Barriers
  <2> QED
    BY <1>2, <2>1 DEF Barriers
<1>12. Buried'
  BY <1>0, <1>2, <1>3, <1>5, Sorts DEF IInv, Buried
<1>13. Expected'
  BY <1>0, <1>2, <1>5, Sorts DEF IInv, Expected
<1>14. OneHolder'
  <2>1. ASSUME NEW x \in Entry \ (lost' \cup dead), NEW u \in Worker, NEW v \in Worker,
               Due(u, x)'
        PROVE  (Due(v, x)' => u = v) /\ (mount # None => u = mount)
    BY <1>5, <1>6, <1>7, <2>1 DEF IInv, OneHolder
  <2> QED
    BY <1>2, <2>1 DEF OneHolder
<1>15. NewestLast'
  <2>1. ASSUME NEW x \in Entry \ lost', src[x] # 0, NEW v \in Worker
        PROVE  /\ \A i \in Nat : Last(v, x, i)' => queue'[v][i].ver = src[x]
               /\ (Busy(v, x)' /\ ~ Queued(v, x)') => at[v].ver = src[x]
    <3>1. CASE x # e
      BY <1>1, <1>5, <1>7, <2>1, <3>1 DEF IInv, NewestLast, InHand
    <3>2. CASE x = e /\ v = w
      BY <1>6, <2>1, <3>2
    <3>3. CASE x = e /\ v # w
      <4>1. Due(w, e)' /\ e \notin dead /\ e \in Entry \ lost
        BY <1>3, <1>6, <1>7, <2>1, <3>3 DEF Due
      <4>2. ~ Due(v, e)'
        BY <1>2, <1>14, <2>1, <3>3, <4>1 DEF OneHolder
      <4> QED
        BY <3>3, <4>2 DEF Due, Queued, Last
    <3> QED
      BY <3>1, <3>2, <3>3
  <2> QED
    BY <1>2, <2>1 DEF NewestLast
<1>16. Halfway'
  BY <1>2, <1>5, <1>7 DEF IInv, Halfway
<1>17. Reads'
  BY <1>2 DEF IInv, Reads
<1>18. Fresh'
  <2>1. SUFFICES ASSUME hydrate # None
                 PROVE  Fresh'
    BY <1>2 DEF Fresh
  <2>2. w # mount /\ mount \in Worker /\ e \in lost'
    BY <1>1, <1>3, <1>6, <2>1, Sorts DEF IInv, Staffed
  <2>3. /\ queue'[mount] = queue[mount] /\ at'[mount] = at[mount]
        /\ \A x \in Entry, i \in Nat : Job(mount, x, i)' <=> Job(mount, x, i)
        /\ \A x \in Entry : Busy(mount, x)' <=> Busy(mount, x)
    BY <1>2, <1>5, <2>2 DEF Job
  <2> QED
    BY <1>1, <1>2, <1>7, <2>1, <2>2, <2>3 DEF IInv, Fresh, InHand
<1>19. Settled'
  <2>1. ASSUME NEW x \in Entry \ lost', \A v \in Worker : ~ Due(v, x)'
        PROVE  x # e /\ \A v \in Worker : ~ Due(v, x)
    BY <1>5, <1>6, <2>1 DEF Due
  <2> QED
    BY <1>1, <1>2, <1>7, <2>1 DEF IInv, Settled, Chasing, InHand
<1> QED
  BY <1>0, <1>8, <1>9, <1>10, <1>11, <1>12, <1>13, <1>14, <1>15, <1>16, <1>17, <1>18,
     <1>19
  DEF IInv

LEMMA SentBarrier ==
  ASSUME TypeOK, NEW w \in Worker, NEW j \in Barrier, Room(w), Put(w, j), at' = at
  PROVE  /\ \A v \in Worker, e \in Entry, i \in Nat : Job(v, e, i)' <=> Job(v, e, i)
         /\ \A v \in Worker, e \in Entry, i \in Nat : Last(v, e, i)' =>
              Last(v, e, i) /\ queue'[v][i] = queue[v][i]
         /\ \A v \in Worker, e \in Entry : Queued(v, e)' <=> Queued(v, e)
         /\ \A v \in Worker, e \in Entry : Busy(v, e)' <=> Busy(v, e)
         /\ \A v \in Worker, e \in Entry : Due(v, e)' <=> Due(v, e)
         /\ \A v \in Worker : \A i \in 1..Len(queue'[v]) :
              \/ i \in 1..Len(queue[v]) /\ queue'[v][i] = queue[v][i]
              \/ /\ v = w /\ queue'[v][i] = j
                 /\ \A x \in Entry, k \in Nat : Job(w, x, k) => k <= i
         /\ queue' \in [Worker -> Seq(Embed \cup Barrier)]
         /\ \A v \in Worker : Len(queue'[v]) <= Capacity
         /\ phase[w] = "gone" => queue' = queue
         /\ \A v \in Worker \ {w} : queue'[v] = queue[v]
<1>1. j \in Item /\ j.kind = "flush"
  BY DEF Item, Barrier
<1>2. /\ queue' \in [Worker -> Seq(Item)] /\ \A v \in Worker : Len(queue'[v]) <= Capacity
      /\ phase[w] = "gone" => queue' = queue
      /\ \A v \in Worker \ {w} : queue'[v] = queue[v]
      /\ phase[w] # "gone" =>
              /\ Len(queue'[w]) = Len(queue[w]) + 1
              /\ \A i \in 1..Len(queue[w]) : queue'[w][i] = queue[w][i]
              /\ queue'[w][Len(queue[w]) + 1] = j
  BY <1>1, PutIn
<1>3. \A v \in Worker, x \in Entry : Busy(v, x)' <=> Busy(v, x)
  BY DEF Busy
<1>4. /\ \A v \in Worker, e \in Entry, i \in Nat : Job(v, e, i)' <=> Job(v, e, i)
      /\ \A v \in Worker, e \in Entry, i \in Nat : Last(v, e, i)' <=> Last(v, e, i)
      /\ \A v \in Worker, e \in Entry : Queued(v, e)' <=> Queued(v, e)
      /\ \A v \in Worker, e \in Entry, i \in Nat : Job(v, e, i) => queue'[v][i] = queue[v][i]
  BY <1>1, PutBarrier
<1>5. Len(queue[w]) \in Nat
  BY Queues
<1>6. \A x \in Entry, k \in Nat : Job(w, x, k) => k <= Len(queue[w]) + 1
  BY <1>5 DEF Job
<1>7. ASSUME NEW v \in Worker, NEW i \in 1..Len(queue'[v])
      PROVE  \/ i \in 1..Len(queue[v]) /\ queue'[v][i] = queue[v][i]
             \/ /\ v = w /\ queue'[v][i] = j
                /\ \A x \in Entry, k \in Nat : Job(w, x, k) => k <= i
  <2>1. CASE v # w \/ phase[w] = "gone"
    BY <1>2, <1>7, <2>1
  <2>2. CASE v = w /\ phase[w] # "gone"
    <3>1. i \in 1..(Len(queue[w]) + 1)
      BY <1>2, <1>7, <2>2
    <3>2. i \in 1..Len(queue[w]) \/ i = Len(queue[w]) + 1
      BY <1>5, <3>1
    <3> QED
      BY <1>2, <1>6, <2>2, <3>2
  <2> QED
    BY <2>1, <2>2
<1> QED
  BY <1>2, <1>3, <1>4, <1>7 DEF Last, Due, Item

LEMMA FlushSendStep ==
  ASSUME IInv, FlushSend
  PROVE  IInv'
<1>1. PICK w \in Worker, e \in Entry :
        /\ w = hand.w /\ e = hand.e /\ hand # None /\ hand.op = "delete" /\ hand.pc = "send"
        /\ Room(w) /\ Put(w, FlushJob(e))
  BY Held DEF FlushSend, IInv, Hands
<1>2. /\ hand' = [hand EXCEPT !.pc = "wait", !.flushed = TRUE] /\ at' = at
      /\ UNCHANGED <<src, side, marker, dead, idx, mount, phase, hydrate, visit, walk, walks,
                     booted, lost, unsettled, exposed>>
  BY DEF FlushSend, disk, history
<1>3. FlushJob(e) \in Barrier /\ FlushJob(e).tag = e /\ FlushJob(e).kind = "flush"
  BY <1>1 DEF FlushJob, Barrier
<1>4. /\ hand' \in Handler /\ hand' # None /\ hand'.op = "delete" /\ hand'.pc = "wait"
      /\ hand'.e = e /\ hand'.w = w /\ hand'.flushed
  <2>1. hand \in Handler
    BY <1>1, Held DEF IInv
  <2>2. hand' \in Handler
    BY <1>2, <2>1 DEF Handler
  <2> QED
    BY <1>1, <1>2, <2>1, <2>2, NoneAssumption DEF Handler
<1>5. /\ \A v \in Worker, x \in Entry, i \in Nat : Job(v, x, i)' <=> Job(v, x, i)
      /\ \A v \in Worker, x \in Entry, i \in Nat : Last(v, x, i)' =>
           Last(v, x, i) /\ queue'[v][i] = queue[v][i]
      /\ \A v \in Worker, x \in Entry : Queued(v, x)' <=> Queued(v, x)
      /\ \A v \in Worker, x \in Entry : Busy(v, x)' <=> Busy(v, x)
      /\ \A v \in Worker, x \in Entry : Due(v, x)' <=> Due(v, x)
  BY <1>1, <1>2, <1>3, SentBarrier DEF IInv
<1>6. \A v \in Worker : \A i \in 1..Len(queue'[v]) :
        \/ i \in 1..Len(queue[v]) /\ queue'[v][i] = queue[v][i]
        \/ /\ v = w /\ queue'[v][i] = FlushJob(e)
           /\ \A x \in Entry, k \in Nat : Job(w, x, k) => k <= i
  BY <1>1, <1>2, <1>3, SentBarrier DEF IInv
<1>7. /\ queue' \in [Worker -> Seq(Embed \cup Barrier)]
      /\ \A v \in Worker : Len(queue'[v]) <= Capacity
      /\ phase[w] = "gone" => queue' = queue
      /\ \A v \in Worker \ {w} : queue'[v] = queue[v]
  BY <1>1, <1>2, <1>3, SentBarrier DEF IInv
<1>0. TypeOK /\ TypeOK'
  BY <1>2, <1>4, <1>7 DEF IInv, TypeOK
<1>8. Staffed'
  <2>1. phase[w] # "new" /\ (hydrate # None => w # mount)
    BY <1>1, NoneAssumption DEF IInv, Staffed
  <2> QED
    BY <1>0, <1>1, <1>2, <1>4, <1>7, <2>1 DEF IInv, Staffed
<1>9. Hands'
  BY <1>1, <1>2, <1>4, NoneAssumption DEF IInv, Hands
<1>10. Texts'
  <2>1. \A v \in Worker : \A i \in 1..Len(queue'[v]) :
          queue'[v][i].kind = "embed" => queue'[v][i].ver # 0
    BY <1>3, <1>6 DEF IInv, Texts
  <2> QED
    BY <1>2, <1>5, <2>1 DEF IInv, Texts
<1>11. Barriers'
  <2>1. ASSUME NEW x \in Entry \ dead, NEW v \in Worker, NEW i \in 1..Len(queue'[v]),
               queue'[v][i].kind = "flush", queue'[v][i].tag = x
        PROVE  x = e /\ v = w /\ \A k \in Nat : Job(w, e, k) => k <= i
    BY <1>1, <1>3, <1>6, <2>1 DEF IInv, Barriers
  <2> QED
    BY <1>1, <1>2, <1>4, <1>5, <2>1 DEF Barriers
<1>12. Flushed'
  BY <1>4 DEF Flushed
<1>13. Buried' /\ OneHolder'
  BY <1>0, <1>2, <1>5, Sorts DEF IInv, Buried, OneHolder
<1>14. Expected'
  BY <1>0, <1>2, <1>5, Sorts DEF IInv, Expected
<1>15. NewestLast'
  BY <1>1, <1>2, <1>4, <1>5 DEF IInv, NewestLast, InHand
<1>16. Halfway'
  BY <1>2, <1>5 DEF IInv, Halfway
<1>17. Reads'
  BY <1>2 DEF IInv, Reads
<1>18. Fresh'
  <2>1. SUFFICES ASSUME hydrate # None
                 PROVE  Fresh'
    BY <1>2 DEF Fresh
  <2>2. w # mount /\ mount \in Worker
    BY <1>1, <2>1, Sorts DEF IInv, Staffed
  <2>3. queue'[mount] = queue[mount] /\ at'[mount] = at[mount]
    BY <1>2, <1>7, <2>2
  <2> QED
    BY <1>1, <1>2, <1>4, <1>5, <2>1, <2>2, <2>3 DEF IInv, Fresh, InHand
<1>19. Settled'
  BY <1>1, <1>2, <1>4, <1>5 DEF IInv, Settled, Chasing, InHand
<1> QED
  BY <1>0, <1>8, <1>9, <1>10, <1>11, <1>12, <1>13, <1>14, <1>15, <1>16, <1>17, <1>18,
     <1>19
  DEF IInv

LEMMA FlushCancelledStep ==
  ASSUME IInv, FlushCancelled
  PROVE  IInv'
<1>0. TypeOK /\ TypeOK'
  <2>1. TypeOK /\ [hand EXCEPT !.pc = "remove", !.w = None, !.flushed = FALSE] \in Handler
    BY Held DEF IInv, FlushCancelled, Handler
  <2>2. hand' \in Handler
    BY <2>1 DEF FlushCancelled
  <2> QED
    BY <2>1, <2>2 DEF TypeOK, FlushCancelled, disk, history
<1>1. Staffed'
  BY <1>0, Kept, Sorts, Held, Walked, NoneAssumption DEF IInv, Staffed,
     FlushCancelled, disk, history
<1>2. Hands'
  BY <1>0, Kept, Sorts, Held, Walked, NoneAssumption DEF IInv, Hands,
     FlushCancelled, disk, history
<1>3. Texts'
  BY <1>0, Kept, Sorts, Held, Walked, NoneAssumption DEF IInv, Texts,
     FlushCancelled, disk, history
<1>4. Barriers'
  <2>1. /\ queue' = queue /\ dead' = dead /\ hand' # None /\ hand'.e = hand.e
        /\ hand'.op = "delete" /\ hand'.pc = "remove" /\ hand # None
    BY <1>0, Held, NoneAssumption DEF FlushCancelled, disk, Handler
  <2> QED
    BY <2>1 DEF Barriers, IInv
<1>5. Flushed'
  BY <1>0, Kept, Sorts, Held, Walked, NoneAssumption DEF IInv, Flushed, Hands,
     FlushCancelled, disk, history
<1>6. Buried'
  BY <1>0, Kept, Sorts, Held, Walked, NoneAssumption DEF IInv, Buried,
     FlushCancelled, disk, history
<1>7. Expected'
  BY <1>0, Kept, Sorts, Held, Walked, NoneAssumption DEF IInv, Expected,
     FlushCancelled, disk, history
<1>8. OneHolder'
  BY <1>0, Kept, Sorts, Held, Walked, NoneAssumption DEF IInv, OneHolder,
     FlushCancelled, disk, history
<1>9. NewestLast'
  BY <1>0, Kept, Sorts, Held, Walked, NoneAssumption DEF IInv, NewestLast, InHand,
     FlushCancelled, disk, history
<1>10. Halfway'
  BY <1>0, Kept, Sorts, Held, Walked, NoneAssumption DEF IInv, Halfway,
     FlushCancelled, disk, history
<1>11. Reads'
  BY <1>0, Kept, Sorts, Held, Walked, Looked, NoneAssumption DEF IInv, Reads,
     FlushCancelled, disk, history
<1>12. Fresh'
  BY <1>0, Kept, Sorts, Held, Walked, Looked, Attended, NoneAssumption DEF IInv,
     Fresh, InHand, FlushCancelled, disk, history
<1>13. Settled'
  BY <1>0, Kept, Sorts, Held, Walked, Looked, NoneAssumption DEF IInv, Settled,
     Chasing, InHand, FlushCancelled, disk, history
<1> QED
  BY <1>0, <1>1, <1>2, <1>3, <1>4, <1>5, <1>6, <1>7, <1>8, <1>9, <1>10, <1>11, <1>12,
     <1>13
  DEF IInv

LEMMA RemoveTicketStep ==
  ASSUME IInv, RemoveTicket
  PROVE  IInv'
<1>0. TypeOK /\ TypeOK'
  <2>1. TypeOK /\ 0 \in Version /\ hand.e \in Entry
    BY Held, BoundsAssumption DEF IInv, RemoveTicket, Version, Handler
  <2>2. /\ src' \in [Entry -> Version] /\ side' \in [Entry -> Version]
        /\ idx' \in [Entry -> Version] /\ marker' \subseteq Entry
        /\ dead' \subseteq Entry
    BY <2>1 DEF TypeOK, RemoveTicket
  <2>3. lost' \subseteq Entry /\ unsettled' \subseteq Entry /\ exposed' \subseteq Entry
    BY <2>1 DEF TypeOK, RemoveTicket
  <2> QED
    BY <2>1, <2>2, <2>3 DEF TypeOK, RemoveTicket
<1>1. Staffed'
  BY <1>0, Kept, Sorts, Held, Walked, NoneAssumption DEF IInv, Staffed,
     RemoveTicket, disk, history
<1>2. Hands'
  BY <1>0, Kept, Sorts, Held, Walked, NoneAssumption DEF IInv, Hands, RemoveTicket,
     disk, history
<1>3. Texts'
  BY <1>0, Kept, Sorts, Held, Walked, NoneAssumption DEF IInv, Texts, RemoveTicket,
     disk, history
<1>4. Barriers'
  BY <1>0, Kept, Sorts, Held, Walked, NoneAssumption DEF IInv, Barriers,
     RemoveTicket, disk, history
<1>5. Flushed'
  BY <1>0, Kept, Sorts, Held, Walked, NoneAssumption DEF IInv, Flushed, Hands,
     RemoveTicket, disk, history
<1>6. Buried'
  <2> DEFINE e == hand.e
  <2>1. /\ e \in Entry /\ queue' = queue /\ at' = at /\ dead' = dead \cup {e}
        /\ side'[e] = 0 /\ idx'[e] = 0 /\ e \notin marker'
        /\ \A x \in Entry \ {e} : /\ side'[x] = side[x] /\ idx'[x] = idx[x]
                                  /\ x \in marker' => x \in marker
    BY <1>0, Held, Sorts DEF RemoveTicket
  <2>2. /\ exposed \subseteq exposed'
        /\ e \notin exposed' =>
             \A w \in Worker : Busy(w, e) => w = hand.w /\ hand.flushed
    BY DEF RemoveTicket
  <2>3. e \notin exposed' => \A w \in Worker : ~ Busy(w, e)
    BY <2>2 DEF Flushed, Due, RemoveTicket, IInv
  <2>4. \A v \in Worker, x \in Entry : Busy(v, x)' <=> Busy(v, x)
    BY <2>1, Kept
  <2>5. ASSUME NEW x \in dead' \ exposed'
        PROVE  side'[x] = 0 /\ x \notin marker' /\ idx'[x] = 0 /\ \A w \in Worker : ~ Busy(w, x)'
    <3>1. CASE x = e
      BY <2>4, <2>5, <2>1, <2>2, <2>3, <3>1
    <3>2. CASE x # e
      BY <1>0, <2>1, <2>2, <2>4, <2>5, <3>2, Sorts DEF Buried, IInv
    <3> QED
      BY <3>1, <3>2
  <2> QED
    BY <2>5 DEF Buried
<1>7. Expected'
  BY <1>0, Kept, Sorts, Held, Walked, NoneAssumption DEF IInv, Expected,
     RemoveTicket, disk, history
<1>8. OneHolder'
  BY <1>0, Kept, Sorts, Held, Walked, NoneAssumption DEF IInv, OneHolder,
     RemoveTicket, disk, history
<1>9. NewestLast'
  BY <1>0, Kept, Sorts, Held, Walked, NoneAssumption DEF IInv, NewestLast, InHand,
     RemoveTicket, disk, history
<1>10. Halfway'
  BY <1>0, Kept, Sorts, Held, Walked, NoneAssumption DEF IInv, Halfway,
     RemoveTicket, disk, history
<1>11. Reads'
  BY <1>0, Kept, Sorts, Held, Walked, Looked, NoneAssumption DEF IInv, Reads,
     RemoveTicket, disk, history
<1>12. Fresh'
  BY <1>0, Kept, Sorts, Held, Walked, Looked, Attended, NoneAssumption DEF IInv,
     Fresh, InHand, RemoveTicket, disk, history
<1>13. Settled'
  BY <1>0, Kept, Sorts, Held, Walked, Looked, NoneAssumption DEF IInv, Settled,
     Chasing, InHand, RemoveTicket, disk, history
<1> QED
  BY <1>0, <1>1, <1>2, <1>3, <1>4, <1>5, <1>6, <1>7, <1>8, <1>9, <1>10, <1>11, <1>12,
     <1>13
  DEF IInv

-----------------------------------------------------------------------------
(* The worker's loop.                                                      *)

\* What the queues hold once a worker has taken its first item.
LEMMA Took ==
  ASSUME TypeOK, NEW w \in Worker, queue[w] # <<>>, queue' = [queue EXCEPT ![w] = Tail(@)]
  PROVE  /\ \A v \in Worker, e \in Entry : Queued(v, e)' => Queued(v, e)
         /\ \A v \in Worker, e \in Entry :
              Queued(v, e) => Queued(v, e)' \/ (v = w /\ Job(w, e, 1))
         /\ \A v \in Worker, e \in Entry, i \in Nat : Last(v, e, i)' =>
              \E k \in Nat : Last(v, e, k) /\ queue'[v][i] = queue[v][k]
         /\ \A e \in Entry : (Job(w, e, 1) /\ ~ Queued(w, e)') => Last(w, e, 1)
         /\ \A v \in Worker : \A i \in 1..Len(queue'[v]) :
              \E k \in 1..Len(queue[v]) :
                /\ queue'[v][i] = queue[v][k]
                /\ \A e \in Entry, j \in Nat :
                     (Job(v, e, j)' /\ \A m \in Nat : Job(v, e, m) => m <= k) => j <= i
<1>1. /\ \A e \in Entry, i \in Nat : Job(w, e, i)' <=> i # 0 /\ Job(w, e, i + 1)
      /\ \A i \in 1..Len(queue'[w]) :
           i + 1 \in 1..Len(queue[w]) /\ queue'[w][i] = queue[w][i + 1]
      /\ \A v \in Worker \ {w} : queue'[v] = queue[v]
      /\ \A v \in Worker : queue'[v] \in Seq(Item)
  BY TakeOut
<1>2. /\ \A v \in Worker \ {w}, e \in Entry, i \in Nat : Job(v, e, i)' <=> Job(v, e, i)
      /\ \A v \in Worker, e \in Entry : ~ Job(v, e, 0)
  BY <1>1 DEF Job
<1>3. \A i \in Nat : i = 0 \/ i = 1 \/ \E k \in Nat : k # 0 /\ i = k + 1
  <2>1. \A i \in Nat : i # 0 => i - 1 \in Nat /\ i = (i - 1) + 1
    OBVIOUS
  <2> QED
    BY <2>1
<1>4. \A v \in Worker, e \in Entry : Queued(v, e)' => Queued(v, e)
  BY <1>1, <1>2 DEF Queued
<1>5. \A v \in Worker, e \in Entry :
        Queued(v, e) => Queued(v, e)' \/ (v = w /\ Job(w, e, 1))
  <2>1. ASSUME NEW e \in Entry, Queued(w, e)
        PROVE  Queued(w, e)' \/ Job(w, e, 1)
    <3>1. PICK i \in Nat : Job(w, e, i)
      BY <2>1 DEF Queued
    <3>2. CASE \E k \in Nat : k # 0 /\ i = k + 1
      BY <1>1, <3>1, <3>2 DEF Queued
    <3> QED
      BY <1>2, <1>3, <3>1, <3>2
  <2> QED
    BY <1>2, <2>1 DEF Queued
<1>6. ASSUME NEW v \in Worker, NEW e \in Entry, NEW i \in Nat, Last(v, e, i)'
      PROVE  \E k \in Nat : Last(v, e, k) /\ queue'[v][i] = queue[v][k]
  <2>1. CASE v # w
    BY <1>1, <1>2, <1>6, <2>1 DEF Last
  <2>2. CASE v = w
    <3>1. Job(w, e, i)' /\ i # 0 /\ Job(w, e, i + 1)
      BY <1>1, <1>6, <2>2 DEF Last
    <3>2. ASSUME NEW j \in Nat, Job(w, e, j)
          PROVE  j <= i + 1
      <4>1. CASE j = 0 \/ j = 1
        BY <4>1
      <4>2. CASE \E k \in Nat : k # 0 /\ j = k + 1
        <5>1. PICK k \in Nat : k # 0 /\ j = k + 1
          BY <4>2
        <5>2. Job(w, e, k)'
          BY <1>1, <3>2, <5>1
        <5> QED
          BY <1>6, <2>2, <5>1, <5>2 DEF Last
      <4> QED
        BY <1>3, <4>1, <4>2
    <3>3. queue'[w][i] = queue[w][i + 1]
      BY <1>1, <3>1 DEF Job
    <3>4. i + 1 \in Nat /\ Last(w, e, i + 1)
      BY <3>1, <3>2 DEF Last
    <3> QED
      BY <2>2, <3>3, <3>4
  <2> QED
    BY <2>1, <2>2
<1>7. ASSUME NEW e \in Entry, Job(w, e, 1), ~ Queued(w, e)'
      PROVE  Last(w, e, 1)
  <2>1. \A k \in Nat : ~ Job(w, e, k)'
    BY <1>7 DEF Queued
  <2>2. ASSUME NEW j \in Nat, Job(w, e, j)
        PROVE  j <= 1
    <3>1. ASSUME NEW k \in Nat, k # 0, j = k + 1
          PROVE  FALSE
      BY <1>1, <2>1, <2>2, <3>1
    <3>2. j = 0 \/ j = 1
      BY <1>3, <3>1
    <3> QED
      BY <3>2
  <2> QED
    BY <1>7, <2>2 DEF Last
<1>8. ASSUME NEW v \in Worker, NEW i \in 1..Len(queue'[v])
      PROVE  \E k \in 1..Len(queue[v]) :
                /\ queue'[v][i] = queue[v][k]
                /\ \A e \in Entry, j \in Nat :
                     (Job(v, e, j)' /\ \A m \in Nat : Job(v, e, m) => m <= k) => j <= i
  <2>1. CASE v # w
    BY <1>1, <1>2, <2>1
  <2>2. CASE v = w
    <3>1. i + 1 \in 1..Len(queue[w]) /\ queue'[w][i] = queue[w][i + 1] /\ i \in Nat
      BY <1>1, <1>8, <2>2
    <3>2. ASSUME NEW e \in Entry, NEW j \in Nat, Job(w, e, j)',
                 \A m \in Nat : Job(w, e, m) => m <= i + 1
          PROVE  j <= i
      <4>1. j + 1 <= i + 1
        BY <1>1, <3>2
      <4> QED
        BY <3>1, <4>1
    <3> QED
      BY <2>2, <3>1, <3>2
  <2> QED
    BY <2>1, <2>2
<1> QED
  BY <1>4, <1>5, <1>6, <1>7, <1>8

LEMMA TakeStep ==
  ASSUME IInv, NEW w \in Worker, Take(w)
  PROVE  IInv'
<1>1. PICK j \in Item : j = Head(queue[w]) /\ j = queue[w][1] /\ 1 \in 1..Len(queue[w])
  BY TakeOut, Queues DEF IInv, Take
<1>2. /\ queue[w] # <<>> /\ queue' = [queue EXCEPT ![w] = Tail(@)] /\ at[w] = None
      /\ UNCHANGED <<src, side, marker, dead, idx, mount, phase, hydrate, visit, walks,
                     booted, exposed>>
      /\ TypeOK /\ phase[w] # "gone" /\ phase[w] # "new"
  BY DEF Take, disk, IInv, Running
<1>3. /\ queue' \in [Worker -> Seq(Embed \cup Barrier)]
      /\ \A v \in Worker : Len(queue'[v]) <= Capacity
      /\ \A v \in Worker \ {w} : queue'[v] = queue[v]
  BY <1>2, TakeOut DEF Item
\* A barrier tells whoever waits for it; a text that is gone, or cannot be looked
\* up, is passed over.
<1>4. \/ /\ j.kind = "flush" /\ at' = at
         /\ hand' = IF hand # None /\ hand.pc = "wait" /\ j.tag = hand.e
                    THEN [hand EXCEPT !.pc = "remove"] ELSE hand
         /\ walk' = IF walk # None /\ walk.pc = "wait" /\ j.tag = walks
                    THEN [walk EXCEPT !.pc = "visit", !.w = None] ELSE walk
         /\ lost' = lost /\ unsettled' = unsettled
      \/ /\ j.kind = "embed" /\ src[j.e] # 0 /\ hand' = hand /\ walk' = walk
         /\ at' = [at EXCEPT ![w] = [e |-> j.e, ver |-> j.ver, pc |-> "embed"]]
         /\ lost' = lost /\ unsettled' = unsettled
      \/ /\ j.kind = "embed" /\ hand' = hand /\ walk' = walk /\ at' = at
         /\ lost' = lost \cup ({j.e} \ dead)
         /\ unsettled' = unsettled \cup ({j.e} \ dead)
  BY <1>1 DEF Take, Lose
<1>5. /\ hand' \in Handler \cup {None} /\ walk' \in Walk \cup {None}
      /\ (hand # None) <=> (hand' # None)
      /\ hand # None => /\ hand'.op = hand.op /\ hand'.e = hand.e /\ hand'.w = hand.w
                        /\ hand'.flushed = hand.flushed
                        /\ hand'.pc = hand.pc \/ (/\ hand.pc = "wait" /\ hand'.pc = "remove"
                                                  /\ j.kind = "flush" /\ j.tag = hand.e)
      /\ (walk # None) <=> (walk' # None)
      /\ walk' = walk \/ (/\ walk # None /\ walk.pc = "wait" /\ walk'.pc = "visit"
                          /\ walk'.w = None /\ walk'.kind = walk.kind)
  <2>1. hand # None => [hand EXCEPT !.pc = "remove"] \in Handler
    BY <1>2, Held DEF Handler
  <2>2. walk # None => /\ [walk EXCEPT !.pc = "visit", !.w = None] \in Walk
                       /\ [walk EXCEPT !.pc = "visit", !.w = None].pc = "visit"
                       /\ [walk EXCEPT !.pc = "visit", !.w = None].w = None
                       /\ [walk EXCEPT !.pc = "visit", !.w = None].kind = walk.kind
    BY <1>2, Walked DEF Walk
  <2>3. hand \in Handler \cup {None} /\ walk \in Walk \cup {None}
    BY <1>2 DEF TypeOK
  <2>4. CASE hand' = hand /\ walk' = walk
    BY <2>3, <2>4
  <2>5. /\ hand' \in Handler \cup {None} /\ (hand # None) <=> (hand' # None)
        /\ hand # None => /\ hand'.op = hand.op /\ hand'.e = hand.e /\ hand'.w = hand.w
                          /\ hand'.flushed = hand.flushed
                          /\ hand'.pc = hand.pc \/ (/\ hand.pc = "wait" /\ hand'.pc = "remove"
                                                    /\ j.kind = "flush" /\ j.tag = hand.e)
    BY <1>4, <2>1, <2>3, NoneAssumption DEF Handler
  <2>6. /\ walk' \in Walk \cup {None} /\ (walk # None) <=> (walk' # None)
        /\ walk' = walk \/ (/\ walk # None /\ walk.pc = "wait" /\ walk'.pc = "visit"
                            /\ walk'.w = None /\ walk'.kind = walk.kind)
    BY <1>4, <2>2, <2>3, NoneAssumption
  <2> QED
    BY <2>5, <2>6
<1>6. /\ \A v \in Worker \ {w} : at'[v] = at[v]
      /\ at' \in [Worker -> Processing \cup {None}]
      /\ \/ at'[w] = None /\ (j.kind = "embed" =>
                j.e \in dead \/ (j.e \in lost' /\ j.e \in unsettled'))
         \/ /\ at'[w] # None /\ j.kind = "embed" /\ j \in Embed /\ src[j.e] # 0
            /\ at'[w].e = j.e /\ at'[w].ver = j.ver /\ at'[w].pc = "embed"
  <2>1. at \in [Worker -> Processing \cup {None}]
    BY <1>2 DEF TypeOK
  <2>2. j.kind = "embed" => /\ [e |-> j.e, ver |-> j.ver, pc |-> "embed"] \in Processing
                            /\ j \in Embed
    BY Items DEF Processing
  <2>3. j.kind = "flush" => j.kind # "embed"
    OBVIOUS
  <2> QED
    BY <1>2, <1>4, <2>1, <2>2, <2>3, NoneAssumption DEF Processing
<1>l. /\ lost \subseteq lost' /\ lost' \subseteq Entry
      /\ unsettled \subseteq unsettled' /\ unsettled' \subseteq Entry
  BY <1>2, <1>4, Items, Sorts
<1>0. TypeOK /\ TypeOK'
  BY <1>2, <1>3, <1>5, <1>6, <1>l DEF TypeOK
<1>7. /\ \A x \in Entry : Job(w, x, 1) <=> j.kind = "embed" /\ j.e = x
      /\ \A v \in Worker, x \in Entry :
           Busy(v, x)' <=> Busy(v, x) \/ (v = w /\ Job(w, x, 1) /\ at'[w] # None)
      /\ \A x \in Entry : ~ Busy(w, x)
  BY <1>1, <1>2, <1>6, Items DEF Job, Busy
<1>8. /\ \A v \in Worker, x \in Entry : Queued(v, x)' => Queued(v, x)
      /\ \A v \in Worker, x \in Entry :
              Queued(v, x) => Queued(v, x)' \/ (v = w /\ Job(w, x, 1))
      /\ \A v \in Worker, x \in Entry, i \in Nat : Last(v, x, i)' =>
              \E k \in Nat : Last(v, x, k) /\ queue'[v][i] = queue[v][k]
      /\ \A x \in Entry : (Job(w, x, 1) /\ ~ Queued(w, x)') => Last(w, x, 1)
  BY <1>2, Took
<1>9. /\ \A v \in Worker, x \in Entry : Due(v, x)' => Due(v, x)
      /\ \A v \in Worker, x \in Entry :
           (Due(v, x) /\ x \notin lost' \cup dead) => Due(v, x)'
  <2>1. \A x \in Entry : (Job(w, x, 1) /\ x \notin lost' \cup dead) => at'[w] # None
    BY <1>6, <1>7
  <2> QED
    BY <1>7, <1>8, <2>1 DEF Due, Queued
<1>10. \A v \in Worker : \A i \in 1..Len(queue'[v]) :
         \E k \in 1..Len(queue[v]) :
           /\ queue'[v][i] = queue[v][k]
           /\ \A e \in Entry, m \in Nat :
                (Job(v, e, m)' /\ \A n \in Nat : Job(v, e, n) => n <= k) => m <= i
  BY <1>2, Took
<1>11. Staffed'
  BY <1>2, <1>3, <1>5, <1>6, SMTT(30) DEF IInv, Staffed
<1>12. Hands'
  BY <1>2, <1>5 DEF IInv, Hands
<1>13. Texts'
  <2>1. \A v \in Worker : at'[v] # None => at'[v].ver # 0
    BY <1>1, <1>6 DEF IInv, Texts
  <2>2. \A v \in Worker : \A i \in 1..Len(queue'[v]) :
          queue'[v][i].kind = "embed" => queue'[v][i].ver # 0
    BY <1>10 DEF IInv, Texts
  <2> QED
    BY <1>2, <1>5, <1>9, <2>1, <2>2 DEF IInv, Texts
<1>14. Barriers'
  <2>0. dead' = dead
    BY <1>2
  <2>1. SUFFICES ASSUME NEW x \in Entry \ dead', NEW v \in Worker,
                        NEW i \in 1..Len(queue'[v]),
                        queue'[v][i].kind = "flush", queue'[v][i].tag = x
                 PROVE  /\ hand' # None /\ hand'.e = x /\ hand'.op = "delete"
                        /\ hand'.pc \in {"wait", "remove"}
                        /\ hand'.pc = "wait" => v = hand'.w
                        /\ (hand'.pc = "wait" /\ hand'.flushed) =>
                             \A m \in Nat : Job(v, x, m)' => m <= i
    BY DEF Barriers
  <2>2. PICK k \in 1..Len(queue[v]) :
         /\ queue'[v][i] = queue[v][k]
         /\ \A e \in Entry, m \in Nat :
              (Job(v, e, m)' /\ \A n \in Nat : Job(v, e, n) => n <= k) => m <= i
    BY <1>10
  <2>3. /\ hand # None /\ hand.e = x /\ hand.op = "delete"
        /\ hand.pc \in {"wait", "remove"}
        /\ hand.pc = "wait" => v = hand.w
        /\ (hand.pc = "wait" /\ hand.flushed) => \A m \in Nat : Job(v, x, m) => m <= k
    BY <2>0, <2>1, <2>2 DEF IInv, Barriers
  <2> QED
    BY <1>5, <2>0, <2>1, <2>2, <2>3
<1>15. Flushed'
  <2>1. SUFFICES ASSUME hand' # None, hand'.pc = "remove", hand'.flushed,
                        NEW u, NEW x, u = hand'.w, x = hand'.e
                 PROVE  ~ Due(u, x)'
    BY DEF Flushed
  <2>2. /\ hand # None /\ u = hand.w /\ x = hand.e /\ hand.flushed
        /\ u \in Worker /\ x \in Entry /\ src[x] # 0 /\ x \notin dead
    BY <1>0, <1>5, <2>1, Held DEF IInv, Hands, Texts
  <2>3. CASE hand.pc = "remove"
    BY <1>9, <2>1, <2>2, <2>3 DEF IInv, Flushed
  <2>4. CASE hand.pc # "remove"
    <3>1. hand.pc = "wait" /\ j.kind = "flush" /\ j.tag = x
      BY <1>5, <2>1, <2>2, <2>4
    <3>2. w = u /\ \A m \in Nat : Job(w, x, m) => m <= 1
      BY <1>1, <2>2, <3>1 DEF IInv, Barriers
    <3>3. \A m \in Nat : ~ Job(w, x, m)
      <4>1. ~ Job(w, x, 1) /\ ~ Job(w, x, 0)
        BY <1>7, <2>2, <3>1 DEF Job
      <4> QED
        BY <3>2, <4>1
    <3>4. ~ Due(w, x)
      BY <1>7, <2>2, <3>3 DEF Due, Queued
    <3> QED
      BY <1>9, <2>2, <3>2, <3>4
  <2> QED
    BY <2>3, <2>4
<1>16. Buried'
  <2>1. \A v \in Worker, x \in dead : Busy(v, x)' => Busy(v, x)
    BY <1>6, <1>7, <1>0, Sorts DEF IInv, Texts
  <2> QED
    BY <1>0, <1>2, <2>1, Sorts DEF IInv, Buried
<1>17. Expected'
  <2>1. ASSUME NEW m \in Worker, NEW x \in Entry \ unsettled', src[x] # 0,
               Queued(m, x) \/ (Busy(m, x) /\ at[m].pc = "embed")
        PROVE  Queued(m, x)' \/ (Busy(m, x)' /\ at'[m].pc = "embed")
    <3>1. CASE Busy(m, x)
      <4>1. m # w /\ at'[m] = at[m] /\ Busy(m, x)'
        BY <1>6, <1>7, <3>1
      <4> QED
        BY <1>8, <2>1, <4>1
    <3>2. CASE Queued(m, x) /\ ~ Queued(m, x)'
      <4>1. m = w /\ Job(w, x, 1)
        BY <1>8, <2>1, <3>2
      <4>2. at'[w] # None /\ at'[w].pc = "embed"
        BY <1>6, <1>7, <2>1, <4>1 DEF IInv, Texts
      <4> QED
        BY <1>7, <4>1, <4>2
    <3> QED
      BY <2>1, <3>1, <3>2
  <2>2. mount # None => mount \in Worker
    BY <1>0, Sorts
  <2>3. SUFFICES ASSUME mount # None, NEW x \in Entry \ unsettled', NEW m \in Worker, m = mount
                 PROVE  \/ src[x] = 0 \/ side[x] # 0 \/ x \in marker
                        \/ hydrate # None /\ x \in hydrate
                        \/ Queued(m, x)' \/ (Busy(m, x)' /\ at'[m].pc = "embed")
    BY <1>2, <2>2 DEF Expected
  <2> QED
    BY <1>l, <2>1, <2>3 DEF IInv, Expected
<1>18. OneHolder'
  BY <1>2, <1>9, <1>l DEF IInv, OneHolder
<1>19. NewestLast'
  <2>1. \A x \in Entry : InHand(x)' <=> InHand(x)
    BY <1>5 DEF InHand
  <2>2. ASSUME NEW x \in Entry \ lost', src[x] # 0, ~ InHand(x), NEW v \in Worker
        PROVE  /\ \A i \in Nat : Last(v, x, i)' => queue'[v][i].ver = src[x]
               /\ (Busy(v, x)' /\ ~ Queued(v, x)') => at'[v].ver = src[x]
    <3>0. x \in Entry \ lost
      BY <1>l, <2>2
    <3>1. \A i \in Nat : Last(v, x, i)' => queue'[v][i].ver = src[x]
      BY <1>8, <2>2, <3>0 DEF IInv, NewestLast
    <3>2. ASSUME Busy(v, x)', ~ Queued(v, x)'
          PROVE  at'[v].ver = src[x]
      <4>1. CASE v = w
        <5>1. Job(w, x, 1) /\ Last(w, x, 1)
          BY <1>7, <1>8, <3>2, <4>1
        <5>2. queue[w][1].ver = src[x]
          BY <2>2, <3>0, <5>1 DEF IInv, NewestLast
        <5>3. at'[w].ver = queue[w][1].ver
          BY <1>1, <1>6, <3>2, <4>1 DEF Busy
        <5> QED
          BY <4>1, <5>2, <5>3
      <4>2. CASE v # w
        <5>1. Busy(v, x) /\ ~ Queued(v, x) /\ at'[v] = at[v]
          BY <1>6, <1>7, <1>8, <3>2, <4>2
        <5> QED
          BY <2>2, <3>0, <5>1 DEF IInv, NewestLast
      <4> QED
        BY <4>1, <4>2
    <3> QED
      BY <3>1, <3>2
  <2> QED
    BY <1>2, <2>1, <2>2, ZenonT(30) DEF NewestLast
<1>20. Halfway'
  <2>1. ASSUME NEW v \in Worker, NEW x \in Entry, Busy(v, x)', at'[v].pc = "upsert"
        PROVE  Busy(v, x) /\ at[v] = at'[v]
    BY <1>6, <1>7, <2>1
  <2> QED
    BY <1>2, <1>l, <2>1 DEF IInv, Halfway
<1>21. Reads'
  BY <1>2, <1>5, NoneAssumption DEF IInv, Reads
<1>22. Fresh'
  <2>1. \A x \in Entry : InHand(x)' <=> InHand(x)
    BY <1>5 DEF InHand
  <2>2. ASSUME hydrate # None, NEW m \in Worker, m = mount, NEW x \in Entry \ (lost \cup dead),
               src[x] # 0, ~ InHand(x)
        PROVE  /\ \A i \in Nat : Job(m, x, i)' => queue'[m][i].ver = src[x]
               /\ Busy(m, x)' => at'[m].ver = src[x]
    <3>1. /\ \A i \in Nat : Job(m, x, i) => queue[m][i].ver = src[x]
          /\ Busy(m, x) => at[m].ver = src[x]
      BY <2>2 DEF IInv, Fresh
    <3>2. ASSUME NEW i \in Nat, Job(m, x, i)'
          PROVE  queue'[m][i].ver = src[x]
      <4>1. PICK k \in 1..Len(queue[m]) : queue'[m][i] = queue[m][k]
        BY <1>10, <3>2 DEF Job
      <4>2. Job(m, x, k) /\ k \in Nat
        BY <1>0, <3>2, <4>1, Queues DEF Job
      <4> QED
        BY <3>1, <4>1, <4>2
    <3>3. ASSUME Busy(m, x)'
          PROVE  at'[m].ver = src[x]
      <4>1. CASE Busy(m, x)
        BY <1>6, <1>7, <3>1, <4>1
      <4>2. CASE m = w /\ Job(w, x, 1) /\ at'[w] # None
        BY <1>1, <1>6, <3>1, <4>2
      <4> QED
        BY <1>7, <3>3, <4>1, <4>2
    <3> QED
      BY <3>2, <3>3
  <2>3. hydrate # None => \A x \in Entry \ (lost \cup dead) :
          (src[x] # 0 /\ ~ InHand(x)) =>
            side[x] = src[x] /\ ((visit # None /\ visit.e = x) => visit.saw = src[x])
    BY DEF IInv, Fresh
  <2>4. ASSUME hydrate # None, NEW x \in Entry \ (lost' \cup dead), src[x] # 0, ~ InHand(x)
        PROVE  /\ \A i \in Nat : Job(mount, x, i)' => queue'[mount][i].ver = src[x]
               /\ Busy(mount, x)' => at'[mount].ver = src[x]
    <3>1. PICK m \in Worker : m = mount
      BY <2>4, Attended
    <3>2. x \in Entry \ (lost \cup dead)
      BY <1>l, <2>4
    <3>3. /\ \A i \in Nat : Job(m, x, i)' => queue'[m][i].ver = src[x]
          /\ Busy(m, x)' => at'[m].ver = src[x]
      BY <2>2, <2>4, <3>1, <3>2
    <3>4. mount' = m
      BY <1>2, <3>1
    <3> QED
      BY <3>1, <3>3, <3>4
  <2>5. /\ mount' = mount /\ src' = src /\ side' = side /\ dead' = dead
        /\ visit' = visit /\ hydrate' = hydrate
    BY <1>2
  <2> QED
    BY <1>l, <2>1, <2>3, <2>4, <2>5 DEF Fresh
<1>23. Settled'
  <2>1. \A x \in Entry : (InHand(x)' <=> InHand(x)) /\ (Chasing(x)' <=> Chasing(x))
    BY <1>2, <1>5 DEF InHand, Chasing
  <2>2. \A x \in Entry : src[x] # 0 => x \notin dead
    BY DEF IInv, Texts
  <2> QED
    BY <1>2, <1>9, <1>l, <2>1, <2>2 DEF IInv, Settled
<1> QED
  BY <1>0, <1>11, <1>12, <1>13, <1>14, <1>15, <1>16, <1>17, <1>18, <1>19, <1>20,
     <1>21, <1>22,
     <1>23 DEF IInv

LEMMA Dropped ==
  ASSUME TypeOK, NEW w \in Worker, queue' = queue, at' = [at EXCEPT ![w] = None]
  PROVE  /\ \A v \in Worker, e \in Entry, i \in Nat : Job(v, e, i)' <=> Job(v, e, i)
         /\ \A v \in Worker, e \in Entry, i \in Nat : Last(v, e, i)' <=> Last(v, e, i)
         /\ \A v \in Worker, e \in Entry : Queued(v, e)' <=> Queued(v, e)
         /\ \A v \in Worker, e \in Entry : Busy(v, e)' <=> v # w /\ Busy(v, e)
         /\ \A v \in Worker, e \in Entry : Due(v, e)' => Due(v, e)
         /\ \A v \in Worker, e \in Entry : Due(v, e) => Due(v, e)' \/ (v = w /\ Busy(w, e))
         /\ at'[w] = None /\ \A v \in Worker \ {w} : at'[v] = at[v]
<1>1. at'[w] = None /\ \A v \in Worker \ {w} : at'[v] = at[v]
  BY DEF TypeOK
<1>2. \A v \in Worker, e \in Entry, i \in Nat : Job(v, e, i)' <=> Job(v, e, i)
  BY DEF Job
<1>3. \A v \in Worker, e \in Entry : Busy(v, e)' <=> v # w /\ Busy(v, e)
  BY <1>1 DEF Busy
<1>4. /\ \A v \in Worker, e \in Entry, i \in Nat : Last(v, e, i)' <=> Last(v, e, i)
      /\ \A v \in Worker, e \in Entry : Queued(v, e)' <=> Queued(v, e)
  BY <1>2 DEF Last, Queued
<1> QED
  BY <1>1, <1>2, <1>3, <1>4 DEF Due

LEMMA EmbedOkStep ==
  ASSUME IInv, NEW w \in Worker, EmbedOk(w)
  PROVE  IInv'
<1>1. PICK e \in Entry, ver \in Version :
        e = at[w].e /\ ver = at[w].ver /\ Busy(w, e) /\ at[w].pc = "embed" /\ at[w] # None
  BY Hold DEF IInv, EmbedOk, Doing, Busy
<1>2. /\ marker' \in {marker, marker \ {e}} /\ side' = [side EXCEPT ![e] = ver]
      /\ UNCHANGED <<src, dead, idx, mount, phase, queue, hand, hydrate, visit, walk,
                     walks, booted, lost, unsettled, exposed>>
  BY <1>1 DEF EmbedOk, ClearMarker, history
<1>3. Due(w, e)
  BY <1>1 DEF Due
<1>4. /\ at'[w] \in Processing /\ at'[w] # None /\ at'[w].e = e /\ at'[w].ver = ver
      /\ at'[w].pc = "upsert"
      /\ \A v \in Worker \ {w} : at'[v] = at[v]
      /\ at' \in [Worker -> Processing \cup {None}]
  <2>1. at[w] \in Processing /\ at \in [Worker -> Processing \cup {None}]
    BY <1>1, Hold DEF IInv, TypeOK
  <2>2. at' = [at EXCEPT ![w] = [at[w] EXCEPT !.pc = "upsert"]]
    BY DEF EmbedOk
  <2>3. [at[w] EXCEPT !.pc = "upsert"] \in Processing
    BY <2>1 DEF Processing
  <2>4. /\ at'[w] = [at[w] EXCEPT !.pc = "upsert"]
        /\ \A v \in Worker \ {w} : at'[v] = at[v]
        /\ at' \in [Worker -> Processing \cup {None}]
    BY <2>1, <2>2, <2>3
  <2> QED
    BY <1>1, <2>1, <2>3, <2>4, NoneAssumption DEF Processing
<1>0. TypeOK /\ TypeOK'
  BY <1>2, <1>4 DEF IInv, TypeOK
<1>5. /\ \A v \in Worker, x \in Entry, i \in Nat : Job(v, x, i)' <=> Job(v, x, i)
      /\ \A v \in Worker, x \in Entry, i \in Nat : Last(v, x, i)' <=> Last(v, x, i)
      /\ \A v \in Worker, x \in Entry : Queued(v, x)' <=> Queued(v, x)
      /\ \A v \in Worker, x \in Entry : Busy(v, x)' <=> Busy(v, x)
      /\ \A v \in Worker, x \in Entry : Due(v, x)' <=> Due(v, x)
  <2>1. \A v \in Worker, x \in Entry, i \in Nat : Job(v, x, i)' <=> Job(v, x, i)
    BY <1>2 DEF Job
  <2>2. \A v \in Worker, x \in Entry : Busy(v, x)' <=> Busy(v, x)
    BY <1>1, <1>4 DEF Busy
  <2> QED
    BY <2>1, <2>2 DEF Last, Queued, Due
<1>6. /\ ver # 0 /\ side'[e] = ver
      /\ \A x \in Entry \ {e} : side'[x] = side[x] /\ (x \in marker' <=> x \in marker)
  BY <1>0, <1>1, <1>2, Sorts DEF IInv, Texts
<1>7. Staffed' /\ Hands'
  BY <1>1, <1>2, <1>4 DEF IInv, Staffed, Hands
<1>8. Texts'
  BY <1>2, <1>4, <1>5, <1>6 DEF IInv, Texts
<1>9. Barriers' /\ Flushed'
  BY <1>0, <1>2, <1>5, Held DEF IInv, Barriers, Flushed, Hands
<1>10. Buried'
  BY <1>0, <1>1, <1>2, <1>5, <1>6, Sorts DEF IInv, Buried
<1>11. Expected'
  BY <1>0, <1>1, <1>2, <1>4, <1>5, <1>6, Sorts DEF IInv, Expected, Busy
<1>12. OneHolder'
  BY <1>2, <1>5 DEF IInv, OneHolder
<1>13. NewestLast'
  BY <1>1, <1>2, <1>4, <1>5 DEF IInv, NewestLast, InHand
<1>14. Halfway'
  <2>1. ASSUME NEW x \in Entry \ (lost \cup dead), NEW v \in Worker, Busy(v, x),
               at'[v].pc = "upsert"
        PROVE  side'[x] = at'[v].ver
    <3>1. CASE v = w
      BY <1>1, <1>4, <1>6, <2>1, <3>1 DEF Busy
    <3>2. CASE v # w
      <4>1. x # e
        BY <1>3, <2>1, <3>2 DEF IInv, OneHolder, Due
      <4> QED
        BY <1>4, <1>6, <2>1, <3>2, <4>1 DEF IInv, Halfway
    <3> QED
      BY <3>1, <3>2
  <2> QED
    BY <1>2, <1>5, <2>1 DEF Halfway
<1>15. Reads'
  BY <1>0, <1>2, <1>6, Looked DEF IInv, Reads
<1>16. Fresh'
  <2>1. ASSUME hydrate # None, NEW x \in Entry \ (lost \cup dead), src[x] # 0, ~ InHand(x)
        PROVE  side'[x] = src[x]
    <3>1. CASE x # e
      BY <1>6, <2>1, <3>1 DEF IInv, Fresh
    <3>2. CASE x = e
      <4>1. w = mount
        BY <1>3, <2>1, <3>2 DEF IInv, OneHolder, Staffed
      <4> QED
        BY <1>1, <1>6, <2>1, <3>2, <4>1 DEF IInv, Fresh
    <3> QED
      BY <3>1, <3>2
  <2>2. /\ \A v \in Worker, x \in Entry : Busy(v, x)' => at'[v].ver = at[v].ver
        /\ hydrate # None => mount \in Worker
    BY <1>0, <1>1, <1>4, <1>5, Sorts DEF IInv, Staffed
  <2> QED
    BY <1>2, <1>5, <2>1, <2>2 DEF IInv, Fresh, InHand
<1>17. Settled'
  BY <1>2, <1>3, <1>5, <1>6 DEF IInv, Settled, Chasing, InHand
<1> QED
  BY <1>0, <1>7, <1>8, <1>9, <1>10, <1>11, <1>12, <1>13, <1>14, <1>15, <1>16, <1>17
     DEF IInv

LEMMA EmbedFailStep ==
  ASSUME IInv, NEW w \in Worker, EmbedFail(w)
  PROVE  IInv'
<1>1. PICK e \in Entry : e = at[w].e /\ Busy(w, e)
  BY Hold DEF IInv, EmbedFail, Doing, Busy
<1>2. /\ marker' \in {marker, marker \cup {e}} /\ lost' = lost \cup ({e} \ dead) /\ queue' = queue
      /\ unsettled' = unsettled \cup ({e} \ (dead \cup marker'))
      /\ at' = [at EXCEPT ![w] = None]
      /\ UNCHANGED <<src, side, dead, idx, mount, phase, hand, hydrate, visit, walk, walks,
                     booted, exposed>>
  BY <1>1 DEF EmbedFail, Lose
<1>3. Due(w, e)
  BY <1>1 DEF Due
<1>0. TypeOK /\ TypeOK'
  BY <1>2 DEF IInv, TypeOK
<1>c. /\ \A v \in Worker, x \in Entry, i \in Nat : Job(v, x, i)' <=> Job(v, x, i)
      /\ \A v \in Worker, x \in Entry, i \in Nat : Last(v, x, i)' <=> Last(v, x, i)
      /\ \A v \in Worker, x \in Entry : Queued(v, x)' <=> Queued(v, x)
      /\ \A v \in Worker, x \in Entry : Busy(v, x)' <=> v # w /\ Busy(v, x)
      /\ \A v \in Worker, x \in Entry : Due(v, x)' => Due(v, x)
      /\ \A v \in Worker, x \in Entry : Due(v, x) => Due(v, x)' \/ (v = w /\ Busy(w, x))
      /\ \A v \in Worker \ {w} : at'[v] = at[v]
  BY <1>0, <1>2, Dropped
<1>d. /\ \A v \in Worker, x \in Entry, i \in Nat : Job(v, x, i)' <=> Job(v, x, i)
      /\ \A v \in Worker, x \in Entry, i \in Nat : Last(v, x, i)' <=> Last(v, x, i)
      /\ \A v \in Worker, x \in Entry : Queued(v, x)' <=> Queued(v, x)
      /\ \A v \in Worker, x \in Entry : Busy(v, x)' <=> v # w /\ Busy(v, x)
      /\ \A v \in Worker, x \in Entry : Due(v, x)' => Due(v, x)
      /\ \A v \in Worker, x \in Entry : (Due(v, x) /\ x # e) => Due(v, x)'
      /\ \A v \in Worker : v # w => at'[v] = at[v]
  BY <1>1, <1>c DEF Busy
<1>4. Staffed'
  BY <1>0, <1>2, Dropped DEF IInv, Staffed
<1>5. Hands'
  BY <1>2 DEF IInv, Hands
<1>6. Texts'
  BY <1>0, <1>2, Dropped DEF IInv, Texts
<1>7. Barriers'
  BY <1>2, <1>d DEF IInv, Barriers
<1>8. Flushed'
  BY <1>0, <1>2, Dropped, Held DEF IInv, Flushed, Hands
<1>9. Buried'
  BY <1>0, <1>1, <1>2, <1>d, Sorts DEF IInv, Buried
<1>10. Expected'
  <2>1. ASSUME NEW x \in Entry \ unsettled', src[x] # 0
        PROVE  x \notin unsettled /\ (x \in marker => x \in marker') /\ (x = e => x \in marker')
    BY <1>2, <2>1 DEF IInv, Texts
  <2> QED
    BY <1>0, <1>1, <1>2, <2>1, <1>d, Sorts DEF IInv, Expected, Busy
<1>11. OneHolder'
  BY <1>2, <1>d DEF IInv, OneHolder
<1>12. NewestLast'
  BY <1>2, <1>d DEF IInv, NewestLast, InHand
<1>13. Halfway'
  BY <1>2, <1>d DEF IInv, Halfway
<1>14. Reads'
  BY <1>2 DEF IInv, Reads
<1>15. Fresh'
  <2>1. hydrate # None => mount \in Worker
    BY <1>0, Sorts DEF IInv, Staffed
  <2>2. \A v \in Worker, x \in Entry : Busy(v, x)' => at'[v] = at[v] /\ Busy(v, x)
    BY <1>d
  <2> QED
    BY <1>2, <1>d, <2>1, <2>2 DEF IInv, Fresh, InHand
<1>16. Settled'
  <2>1. ASSUME NEW x \in Entry \ lost', src[x] # 0, \A v \in Worker : ~ Due(v, x)'
        PROVE  \A v \in Worker : ~ Due(v, x)
    <3>1. x # e
      BY <1>2, <2>1 DEF IInv, Texts
    <3> QED
      BY <1>d, <2>1, <3>1
  <2> QED
    BY <1>0, <1>2, <2>1 DEF IInv, Settled, Chasing, InHand
<1> QED
  BY <1>0, <1>4, <1>5, <1>6, <1>7, <1>8, <1>9, <1>10, <1>11, <1>12, <1>13, <1>14,
     <1>15, <1>16
  DEF IInv

LEMMA SidecarFailStep ==
  ASSUME IInv, NEW w \in Worker, SidecarFail(w)
  PROVE  IInv'
<1>1. PICK e \in Entry : e = at[w].e /\ Busy(w, e)
  BY Hold DEF IInv, SidecarFail, Doing, Busy
<1>2. /\ marker' \in {marker, marker \ {e}} /\ lost' = lost \cup ({e} \ dead) /\ queue' = queue
      /\ unsettled' = unsettled \cup ({e} \ dead) /\ at' = [at EXCEPT ![w] = None]
      /\ UNCHANGED <<src, side, dead, idx, mount, phase, hand, hydrate, visit, walk, walks,
                     booted, exposed>>
  BY <1>1 DEF SidecarFail, ClearMarker, Lose
<1>3. Due(w, e)
  BY <1>1 DEF Due
<1>0. TypeOK /\ TypeOK'
  BY <1>2 DEF IInv, TypeOK
<1>c. /\ \A v \in Worker, x \in Entry, i \in Nat : Job(v, x, i)' <=> Job(v, x, i)
      /\ \A v \in Worker, x \in Entry, i \in Nat : Last(v, x, i)' <=> Last(v, x, i)
      /\ \A v \in Worker, x \in Entry : Queued(v, x)' <=> Queued(v, x)
      /\ \A v \in Worker, x \in Entry : Busy(v, x)' <=> v # w /\ Busy(v, x)
      /\ \A v \in Worker, x \in Entry : Due(v, x)' => Due(v, x)
      /\ \A v \in Worker, x \in Entry : Due(v, x) => Due(v, x)' \/ (v = w /\ Busy(w, x))
      /\ \A v \in Worker \ {w} : at'[v] = at[v]
  BY <1>0, <1>2, Dropped
<1>d. /\ \A v \in Worker, x \in Entry, i \in Nat : Job(v, x, i)' <=> Job(v, x, i)
      /\ \A v \in Worker, x \in Entry, i \in Nat : Last(v, x, i)' <=> Last(v, x, i)
      /\ \A v \in Worker, x \in Entry : Queued(v, x)' <=> Queued(v, x)
      /\ \A v \in Worker, x \in Entry : Busy(v, x)' <=> v # w /\ Busy(v, x)
      /\ \A v \in Worker, x \in Entry : Due(v, x)' => Due(v, x)
      /\ \A v \in Worker, x \in Entry : (Due(v, x) /\ x # e) => Due(v, x)'
      /\ \A v \in Worker : v # w => at'[v] = at[v]
  BY <1>1, <1>c DEF Busy
<1>4. Staffed'
  BY <1>0, <1>2, Dropped DEF IInv, Staffed
<1>5. Hands'
  BY <1>2 DEF IInv, Hands
<1>6. Texts'
  BY <1>0, <1>2, Dropped DEF IInv, Texts
<1>7. Barriers'
  BY <1>2, <1>d DEF IInv, Barriers
<1>8. Flushed'
  BY <1>0, <1>2, Dropped, Held DEF IInv, Flushed, Hands
<1>9. Buried'
  BY <1>0, <1>1, <1>2, <1>d, Sorts DEF IInv, Buried
<1>10. Expected'
  <2>1. ASSUME NEW x \in Entry \ unsettled', src[x] # 0
        PROVE  x # e /\ x \notin unsettled
    BY <1>2, <2>1 DEF IInv, Texts
  <2> QED
    BY <1>0, <1>1, <1>2, <2>1, <1>d, Sorts DEF IInv, Expected, Busy
<1>11. OneHolder'
  BY <1>2, <1>d DEF IInv, OneHolder
<1>12. NewestLast'
  BY <1>2, <1>d DEF IInv, NewestLast, InHand
<1>13. Halfway'
  BY <1>2, <1>d DEF IInv, Halfway
<1>14. Reads'
  BY <1>2 DEF IInv, Reads
<1>15. Fresh'
  <2>1. hydrate # None => mount \in Worker
    BY <1>0, Sorts DEF IInv, Staffed
  <2>2. \A v \in Worker, x \in Entry : Busy(v, x)' => at'[v] = at[v] /\ Busy(v, x)
    BY <1>d
  <2> QED
    BY <1>2, <1>d, <2>1, <2>2 DEF IInv, Fresh, InHand
<1>16. Settled'
  <2>1. ASSUME NEW x \in Entry \ lost', src[x] # 0, \A v \in Worker : ~ Due(v, x)'
        PROVE  \A v \in Worker : ~ Due(v, x)
    <3>1. x # e
      BY <1>2, <2>1 DEF IInv, Texts
    <3> QED
      BY <1>d, <2>1, <3>1
  <2> QED
    BY <1>0, <1>2, <2>1 DEF IInv, Settled, Chasing, InHand
<1> QED
  BY <1>0, <1>4, <1>5, <1>6, <1>7, <1>8, <1>9, <1>10, <1>11, <1>12, <1>13, <1>14,
     <1>15, <1>16
  DEF IInv

LEMMA UpsertStep ==
  ASSUME IInv, NEW w \in Worker, Upsert(w)
  PROVE  IInv'
<1>1. PICK e \in Entry, ver \in Version :
        e = at[w].e /\ ver = at[w].ver /\ Busy(w, e) /\ at[w].pc = "upsert"
  BY Hold DEF IInv, Upsert, Doing, Busy
<1>2. /\ queue' = queue /\ at' = [at EXCEPT ![w] = None]
      /\ idx' = IF mount = w THEN [idx EXCEPT ![e] = ver] ELSE idx
      /\ UNCHANGED <<src, side, marker, dead, mount, phase, hand, hydrate, visit, walk, walks,
                     booted, lost, unsettled, exposed>>
  BY <1>1 DEF Upsert, disk, history
<1>3. Due(w, e)
  BY <1>1 DEF Due
<1>0. TypeOK /\ TypeOK'
  BY <1>2 DEF IInv, TypeOK
<1>a. \A x \in Entry : x # e => idx'[x] = idx[x]
  BY <1>0, <1>2, Sorts
<1>c. /\ \A v \in Worker, x \in Entry, i \in Nat : Job(v, x, i)' <=> Job(v, x, i)
      /\ \A v \in Worker, x \in Entry, i \in Nat : Last(v, x, i)' <=> Last(v, x, i)
      /\ \A v \in Worker, x \in Entry : Queued(v, x)' <=> Queued(v, x)
      /\ \A v \in Worker, x \in Entry : Busy(v, x)' <=> v # w /\ Busy(v, x)
      /\ \A v \in Worker, x \in Entry : Due(v, x)' => Due(v, x)
      /\ \A v \in Worker, x \in Entry : Due(v, x) => Due(v, x)' \/ (v = w /\ Busy(w, x))
      /\ \A v \in Worker \ {w} : at'[v] = at[v]
  BY <1>0, <1>2, Dropped
<1>d. /\ \A v \in Worker, x \in Entry, i \in Nat : Job(v, x, i)' <=> Job(v, x, i)
      /\ \A v \in Worker, x \in Entry, i \in Nat : Last(v, x, i)' <=> Last(v, x, i)
      /\ \A v \in Worker, x \in Entry : Queued(v, x)' <=> Queued(v, x)
      /\ \A v \in Worker, x \in Entry : Busy(v, x)' <=> v # w /\ Busy(v, x)
      /\ \A v \in Worker, x \in Entry : Due(v, x)' => Due(v, x)
      /\ \A v \in Worker, x \in Entry : (Due(v, x) /\ x # e) => Due(v, x)'
      /\ \A v \in Worker : v # w => at'[v] = at[v]
  BY <1>1, <1>c DEF Busy
<1>4. Staffed'
  BY <1>0, <1>2, Dropped DEF IInv, Staffed
<1>5. Hands'
  BY <1>2 DEF IInv, Hands
<1>6. Texts'
  BY <1>0, <1>2, Dropped, ZenonT(30) DEF IInv, Texts
<1>7. Barriers'
  BY <1>2, <1>d DEF IInv, Barriers
<1>8. Flushed'
  BY <1>0, <1>2, Dropped, Held DEF IInv, Flushed, Hands
<1>9. Buried'
  BY <1>0, <1>1, <1>2, <1>a, <1>d, Sorts DEF IInv, Buried
<1>10. Expected'
  BY <1>0, <1>1, <1>2, <1>d, Sorts DEF IInv, Expected, Busy
<1>11. OneHolder'
  BY <1>2, <1>d DEF IInv, OneHolder
<1>12. NewestLast'
  BY <1>2, <1>d DEF IInv, NewestLast, InHand
<1>13. Halfway'
  BY <1>2, <1>d DEF IInv, Halfway
<1>14. Reads'
  BY <1>2 DEF IInv, Reads
<1>15. Fresh'
  <2>1. hydrate # None => mount \in Worker
    BY <1>0, Sorts DEF IInv, Staffed
  <2>2. \A v \in Worker, x \in Entry : Busy(v, x)' => at'[v] = at[v] /\ Busy(v, x)
    BY <1>d
  <2> QED
    BY <1>2, <1>d, <2>1, <2>2 DEF IInv, Fresh, InHand
<1>16. Settled'
  <2>1. ASSUME NEW x \in Entry \ lost, src[x] # 0, ~ InHand(x),
               \A v \in Worker : ~ Due(v, x)'
        PROVE  /\ side[x] = src[x]
               /\ (mount # None /\ (hydrate = None \/ x \notin hydrate) /\ ~ Chasing(x)) =>
                     idx'[x] = src[x]
    <3>1. CASE x # e
      <4>1. \A v \in Worker : ~ Due(v, x)
        BY <1>d, <2>1, <3>1
      <4> QED
        BY <1>a, <2>1, <3>1, <4>1 DEF IInv, Settled
    <3>2. CASE x = e
      <4>1. ~ Queued(w, e)
        BY <1>0, <1>2, <2>1, <3>2, Dropped DEF Due
      <4>2. ver = src[e]
        BY <1>1, <2>1, <3>2, <4>1 DEF IInv, NewestLast
      <4>3. e \notin dead
        BY <2>1, <3>2 DEF IInv, Texts
      <4>4. side[e] = ver
        BY <1>1, <2>1, <3>2, <4>3 DEF IInv, Halfway
      <4>5. mount # None => mount = w
        BY <1>3, <2>1, <3>2, <4>3 DEF IInv, OneHolder
      <4>6. mount # None => idx'[e] = ver
        BY <1>0, <1>2, <4>5, Sorts
      <4> QED
        BY <3>2, <4>2, <4>4, <4>6
    <3> QED
      BY <3>1, <3>2
  <2> QED
    BY <1>0, <1>2, <2>1 DEF IInv, Settled, Chasing, InHand
<1> QED
  BY <1>0, <1>4, <1>5, <1>6, <1>7, <1>8, <1>9, <1>10, <1>11, <1>12, <1>13, <1>14,
     <1>15, <1>16
  DEF IInv

LEMMA ExitStep ==
  ASSUME IInv, NEW w \in Worker, Exit(w)
  PROVE  IInv'
<1>1. /\ phase' = [phase EXCEPT ![w] = "gone"] /\ phase[w] = "stop"
      /\ at[w] = None /\ queue[w] = <<>>
      /\ UNCHANGED <<src, side, marker, dead, idx, mount, queue, at, hand, hydrate, visit, walk,
                     walks, booted, lost, unsettled, exposed>>
  BY DEF Exit, disk, history
<1>0. TypeOK /\ TypeOK'
  BY <1>1 DEF IInv, TypeOK
<1>2. /\ \A v \in Worker \ {w} : phase'[v] = phase[v]
      /\ phase'[w] = "gone" /\ w # mount
  BY <1>0, <1>1, Sorts DEF IInv, Staffed
<1>3. Staffed'
  BY <1>0, <1>1, <1>2, Held, Walked, Sorts DEF IInv, Staffed
<1>4. Hands' /\ Texts'
  BY <1>1, Kept DEF IInv, Hands, Texts
<1>5. Barriers' /\ Flushed'
  BY <1>0, <1>1, Kept, Held DEF IInv, Barriers, Flushed, Hands
<1>6. Buried' /\ OneHolder'
  BY <1>0, <1>1, Kept, Sorts DEF IInv, Buried, OneHolder
<1>7. Expected'
  BY <1>0, <1>1, Kept, Sorts DEF IInv, Expected
<1>8. NewestLast' /\ Halfway'
  BY <1>1, Kept DEF IInv, NewestLast, Halfway, InHand
<1>9. Reads'
  BY <1>0, <1>1, <1>2, Walked DEF IInv, Reads
<1>10. Fresh'
  BY <1>1, Kept, Attended DEF IInv, Fresh, InHand
<1>11. Settled'
  BY <1>1, Kept DEF IInv, Settled, Chasing, InHand
<1> QED
  BY <1>0, <1>3, <1>4, <1>5, <1>6, <1>7, <1>8, <1>9, <1>10, <1>11 DEF IInv

-----------------------------------------------------------------------------
(* Mounts.                                                                 *)

LEMMA EvictStep ==
  ASSUME IInv, Evict
  PROVE  IInv'
<1>0. TypeOK /\ TypeOK'
  <2>1. TypeOK /\ 0 \in Version
    BY BoundsAssumption DEF IInv, Version
  <2>3. [phase EXCEPT ![mount] = "stop"] \in [Worker -> {"new", "run", "stop", "gone"}]
    BY <2>1 DEF TypeOK
  <2>2. [e \in Entry |-> 0] \in [Entry -> Version]
    BY <2>1
  <2> QED
    BY <2>1, <2>2, <2>3 DEF TypeOK, Evict, disk, history
<1>1. Staffed'
  BY <1>0, Kept, Sorts, Held, Walked, NoneAssumption DEF IInv, Staffed, Evict, disk,
     history
<1>2. Hands'
  BY <1>0, Kept, Sorts, Held, Walked, NoneAssumption DEF IInv, Hands, Evict, disk,
     history
<1>3. Texts'
  BY <1>0, Kept, Sorts, Held, Walked, NoneAssumption DEF IInv, Texts, Evict, disk,
     history
<1>4. Barriers'
  BY <1>0, Kept, Sorts, Held, Walked, NoneAssumption DEF IInv, Barriers, Evict,
     disk, history
<1>5. Flushed'
  BY <1>0, Kept, Sorts, Held, Walked, NoneAssumption DEF IInv, Flushed, Hands,
     Evict, disk, history
<1>6. Buried'
  BY <1>0, Kept, Sorts, Held, Walked, NoneAssumption DEF IInv, Buried, Evict, disk,
     history
<1>7. Expected'
  BY <1>0, Kept, Sorts, Held, Walked, NoneAssumption DEF IInv, Expected, Evict,
     disk, history
<1>8. OneHolder'
  BY <1>0, Kept, Sorts, Held, Walked, NoneAssumption DEF IInv, OneHolder, Evict,
     disk, history
<1>9. NewestLast'
  BY <1>0, Kept, Sorts, Held, Walked, NoneAssumption DEF IInv, NewestLast, InHand,
     Evict, disk, history
<1>10. Halfway'
  BY <1>0, Kept, Sorts, Held, Walked, NoneAssumption DEF IInv, Halfway, Evict, disk,
     history
<1>11. Reads'
  BY <1>0, Kept, Sorts, Held, Walked, Looked, NoneAssumption DEF IInv, Reads, Evict,
     disk, history
<1>12. Fresh'
  BY <1>0, Kept, Sorts, Held, Walked, Looked, Attended, NoneAssumption DEF IInv,
     Fresh, InHand, Evict, disk, history
<1>13. Settled'
  BY <1>0, Kept, Sorts, Held, Walked, Looked, NoneAssumption DEF IInv, Settled,
     Chasing, InHand, Evict, disk, history
<1> QED
  BY <1>0, <1>1, <1>2, <1>3, <1>4, <1>5, <1>6, <1>7, <1>8, <1>9, <1>10, <1>11, <1>12,
     <1>13
  DEF IInv

LEMMA MountStep ==
  ASSUME IInv, NEW w \in Worker, Mount(w)
  PROVE  IInv'
<1>m. w \in Worker /\ mount' = w /\ hydrate' = Entry /\ unsettled' = {}
      /\ UNCHANGED <<src, side, marker, dead, idx, queue, at, hand, visit, walk, walks, booted,
                     exposed>>
      /\ phase' = [phase EXCEPT ![w] = "run"] /\ phase[w] = "new" /\ mount = None
  BY DEF Mount, disk
<1>n. \A x \in Entry \ (lost' \cup dead) : \A v \in Worker : ~ Due(v, x)
  <2>1. SUFFICES ASSUME NEW x \in Entry \ (lost' \cup dead), NEW v \in Worker
                 PROVE  ~ Due(v, x)
    OBVIOUS
  <2>2. CASE Running(v)
    BY <2>2, Pendings DEF IInv, Mount, Lose
  <2>3. CASE ~ Running(v)
    <3>1. queue[v] = <<>> /\ at[v] = None
      BY <2>3, Sorts DEF IInv, Staffed, Running
    <3> QED
      BY <3>1 DEF Due, Queued, Job, Busy
  <2> QED
    BY <2>2, <2>3
<1>l. lost \subseteq lost' /\ lost' \subseteq Entry
  <2>1. \A v \in Worker : Pending(v) \subseteq Entry
    <3>1. ASSUME NEW v \in Worker, NEW i \in 1..Len(queue[v]), queue[v][i].kind = "embed"
          PROVE  queue[v][i].e \in Entry
      BY <3>1, Queues, Items DEF IInv
    <3> QED
      BY <3>1, Hold DEF IInv, Pending
  <2> QED
    BY <2>1, Sorts DEF IInv, Mount, Lose
<1>0. TypeOK /\ TypeOK'
  BY <1>m, <1>l, Sorts DEF IInv, TypeOK
<1>1. Staffed'
  BY <1>0, <1>m, <1>l, Kept, Sorts, Held, Walked, NoneAssumption DEF IInv, Staffed,
     Mount, disk, history, Lose
<1>2. Hands'
  BY <1>0, <1>m, <1>l, Kept, Sorts, Held, Walked, NoneAssumption DEF IInv, Hands,
     Mount, disk, history, Lose
<1>3. Texts'
  BY <1>0, <1>m, <1>l, Kept, Sorts, Held, Walked, NoneAssumption DEF IInv, Texts,
     Mount, disk, history, Lose
<1>4. Barriers'
  BY <1>0, <1>m, <1>l, Kept, Sorts, Held, Walked, NoneAssumption DEF IInv, Barriers,
     Mount, disk, history, Lose
<1>5. Flushed'
  BY <1>0, <1>m, <1>l, Kept, Sorts, Held, Walked, NoneAssumption DEF IInv, Flushed,
     Hands, Mount, disk, history, Lose
<1>6. Buried'
  BY <1>0, <1>m, <1>l, Kept, Sorts, Held, Walked, NoneAssumption DEF IInv, Buried,
     Mount, disk, history, Lose
<1>7. Expected'
  BY <1>0, <1>m, <1>l, Kept, Sorts, Held, Walked, NoneAssumption DEF IInv, Expected,
     Mount, disk, history, Lose
<1>8. OneHolder'
  BY <1>m, <1>n, <1>l, Kept DEF OneHolder
<1>9. NewestLast'
  BY <1>0, <1>m, <1>l, Kept, Sorts, Held, Walked, NoneAssumption DEF IInv,
     NewestLast, InHand, Mount, disk, history, Lose
<1>10. Halfway'
  BY <1>0, <1>m, <1>l, Kept, Sorts, Held, Walked, NoneAssumption DEF IInv, Halfway,
     Mount, disk, history, Lose
<1>11. Reads'
  BY <1>0, <1>m, <1>l, Kept, Sorts, Held, Walked, Looked, NoneAssumption DEF IInv,
     Reads, Mount, disk, history, Lose
<1>12. Fresh'
  <2>1. visit = None
    BY <1>m DEF IInv, Reads, Staffed
  <2>2. \A x \in Entry, i \in Nat : x \notin lost' \cup dead => ~ Job(w, x, i) /\ ~ Busy(w, x)
    BY <1>m, <1>n DEF Due, Queued
  <2>3. \A x \in Entry \ (lost' \cup dead) :
          (src[x] # 0 /\ ~ InHand(x)) => side[x] = src[x]
    BY <1>l, <1>n DEF IInv, Settled
  <2> QED
    BY <1>m, <2>1, <2>2, <2>3, Kept DEF Fresh, InHand
<1>13. Settled'
  <2>1. \A x \in Entry \ lost' : InHand(x)' <=> InHand(x)
    BY <1>m DEF InHand
  <2> QED
    BY <1>m, <1>l, <2>1, Kept, NoneAssumption DEF Settled, IInv
<1> QED
  BY <1>0, <1>1, <1>2, <1>3, <1>4, <1>5, <1>6, <1>7, <1>8, <1>9, <1>10, <1>11, <1>12,
     <1>13
  DEF IInv

\* What hydrate has left once it is done with e.
LEMMA Left ==
  ASSUME TypeOK, NEW e \in Entry, hydrate # None, Visited(e)
  PROVE  /\ hydrate' \in (SUBSET Entry) \cup {None} /\ visit' = None
         /\ hydrate' = None \/ e \notin hydrate'
         /\ \A x \in Entry : x # e =>
              ((hydrate' # None /\ x \in hydrate') <=> x \in hydrate)
<1>1. hydrate \subseteq Entry /\ (hydrate \ {e}) # None
  BY Sorts, NoneAssumption
<1> QED
  BY <1>1 DEF Visited

LEMMA HydrateReadStep ==
  ASSUME IInv, NEW e \in Entry, HydrateRead(e)
  PROVE  IInv'
<1>1. /\ hydrate # None /\ visit = None /\ e \in hydrate /\ TypeOK
      /\ \/ src[e] = 0 /\ Visited(e)
         \/ /\ src[e] # 0 /\ hydrate' = hydrate
            /\ visit' = [e |-> e, saw |-> side[e], read |-> None]
      /\ queue' = queue /\ at' = at
      /\ UNCHANGED <<src, side, marker, dead, idx, mount, phase, hand, walk, walks,
                     booted, lost, unsettled, exposed>>
  BY DEF HydrateRead, IInv, disk, history
<1>2. [e |-> e, saw |-> side[e], read |-> None] \in Visit
  BY <1>1, Sorts DEF Visit
<1>3. /\ hydrate' \in (SUBSET Entry) \cup {None} /\ visit' \in Visit \cup {None}
      /\ visit' # None => /\ src[e] # 0 /\ hydrate' = hydrate /\ visit'.e = e
                          /\ visit'.saw = side[e] /\ visit'.read = None
      /\ \A x \in Entry : x # e \/ src[x] # 0 =>
           ((hydrate' # None /\ x \in hydrate') <=> x \in hydrate)
  BY <1>1, <1>2, Left, Sorts DEF Visit
<1>0. TypeOK /\ TypeOK'
  BY <1>1, <1>3 DEF TypeOK
<1>4. Staffed'
  BY <1>0, <1>1, <1>3, Kept, Sorts, Held, Walked, Looked, NoneAssumption DEF IInv,
     Staffed
<1>5. Hands'
  BY <1>0, <1>1, <1>3, Kept, Sorts, Held, Walked, Looked, NoneAssumption DEF IInv, Hands
<1>6. Texts'
  BY <1>0, <1>1, <1>3, Kept, Sorts, Held, Walked, Looked, NoneAssumption DEF IInv, Texts
<1>7. Barriers'
  BY <1>0, <1>1, <1>3, Kept, Sorts, Held, Walked, Looked, NoneAssumption DEF IInv,
     Barriers
<1>8. Flushed'
  BY <1>0, <1>1, <1>3, Kept, Sorts, Held, Walked, Looked, NoneAssumption DEF IInv,
     Flushed, Hands
<1>9. Buried'
  BY <1>0, <1>1, <1>3, Kept, Sorts, Held, Walked, Looked, NoneAssumption DEF IInv,
     Buried
<1>10. Expected'
  BY <1>0, <1>1, <1>3, Kept, Sorts, Held, Walked, Looked, NoneAssumption DEF IInv,
     Expected
<1>11. OneHolder'
  BY <1>0, <1>1, <1>3, Kept, Sorts, Held, Walked, Looked, NoneAssumption DEF IInv,
     OneHolder
<1>12. NewestLast'
  BY <1>0, <1>1, <1>3, Kept, Sorts, Held, Walked, Looked, NoneAssumption DEF IInv,
     NewestLast, InHand
<1>13. Halfway'
  BY <1>0, <1>1, <1>3, Kept, Sorts, Held, Walked, Looked, NoneAssumption DEF IInv,
     Halfway
<1>14. Reads'
  BY <1>0, <1>1, <1>3, Kept, Sorts, Held, Walked, Looked, NoneAssumption DEF IInv, Reads
<1>15. Fresh'
  BY <1>0, <1>1, <1>3, Kept, Sorts, Held, Walked, Looked, Attended, NoneAssumption
     DEF IInv, Fresh, InHand
<1>16. Settled'
  BY <1>0, <1>1, <1>3, Kept, Sorts, Held, Walked, Looked, NoneAssumption DEF IInv,
     Settled, Chasing, InHand
<1> QED
  BY <1>0, <1>4, <1>5, <1>6, <1>7, <1>8, <1>9, <1>10, <1>11, <1>12, <1>13, <1>14,
     <1>15, <1>16
  DEF IInv

LEMMA HydrateLoadStep ==
  ASSUME IInv, HydrateLoad
  PROVE  IInv'
<1>1. PICK e \in Entry, ver \in Version :
        e = visit.e /\ ver = visit.saw /\ visit # None /\ ver # 0
  BY Looked DEF HydrateLoad, IInv
<1>2. /\ Visited(e) /\ TypeOK /\ idx' = [idx EXCEPT ![e] = ver]
      /\ exposed' = exposed \cup ({e} \cap dead)
      /\ queue' = queue /\ at' = at
      /\ UNCHANGED <<src, side, marker, dead, mount, phase, hand, walk, walks, booted,
                     lost, unsettled>>
  BY <1>1 DEF HydrateLoad, PutBack, IInv, disk
<1>3. hydrate # None /\ e \in hydrate /\ (side[e] # 0 \/ e \in dead)
  BY <1>1 DEF IInv, Reads
<1>4. /\ hydrate' \in (SUBSET Entry) \cup {None} /\ visit' = None
      /\ hydrate' = None \/ e \notin hydrate'
      /\ \A x \in Entry : x # e =>
           ((hydrate' # None /\ x \in hydrate') <=> x \in hydrate)
  BY <1>2, <1>3, Left
<1>5. /\ idx' \in [Entry -> Version] /\ idx'[e] = ver
      /\ \A x \in Entry \ {e} : idx'[x] = idx[x]
  BY <1>1, <1>2, Sorts
<1>0. TypeOK /\ TypeOK'
  BY <1>2, <1>4, <1>5 DEF TypeOK
<1>6. Staffed'
  BY <1>0, <1>2, <1>3, <1>4, <1>5, Kept, Sorts, Held, Walked, Looked, NoneAssumption
     DEF IInv, Staffed
<1>7. Hands'
  BY <1>0, <1>2, <1>3, <1>4, <1>5, Kept, Sorts, Held, Walked, Looked, NoneAssumption
     DEF IInv, Hands
<1>8. Texts'
  BY <1>0, <1>2, <1>3, <1>4, <1>5, Kept, Sorts, Held, Walked, Looked, NoneAssumption
     DEF IInv, Texts
<1>9. Barriers'
  BY <1>0, <1>2, <1>3, <1>4, <1>5, Kept, Sorts, Held, Walked, Looked, NoneAssumption
     DEF IInv, Barriers
<1>10. Flushed'
  BY <1>0, <1>2, <1>3, <1>4, <1>5, Kept, Sorts, Held, Walked, Looked, NoneAssumption
     DEF IInv, Flushed, Hands
<1>11. Buried'
  BY <1>0, <1>2, <1>5, Kept, Sorts DEF IInv, Buried
<1>12. Expected'
  BY <1>0, <1>2, <1>3, <1>4, Kept, Sorts DEF IInv, Expected, Texts
<1>13. OneHolder'
  BY <1>0, <1>2, <1>3, <1>4, <1>5, Kept, Sorts, Held, Walked, Looked, NoneAssumption
     DEF IInv, OneHolder
<1>14. NewestLast'
  BY <1>0, <1>2, <1>3, <1>4, <1>5, Kept, Sorts, Held, Walked, Looked, NoneAssumption
     DEF IInv, NewestLast, InHand
<1>15. Halfway'
  BY <1>0, <1>2, <1>3, <1>4, <1>5, Kept, Sorts, Held, Walked, Looked, NoneAssumption
     DEF IInv, Halfway
<1>16. Reads'
  BY <1>0, <1>2, <1>3, <1>4, <1>5, Kept, Sorts, Held, Walked, Looked, NoneAssumption
     DEF IInv, Reads
<1>17. Fresh'
  BY <1>2, <1>3, <1>4, Kept, Attended DEF IInv, Fresh, InHand
<1>18. Settled'
  <2>1. ASSUME e \notin lost, src[e] # 0, ~ InHand(e)
        PROVE  ver = src[e]
    BY <1>1, <1>3, <2>1 DEF IInv, Fresh, Texts
  <2> QED
    BY <1>2, <1>3, <1>4, <1>5, <2>1, Kept DEF IInv, Settled, Chasing, InHand
<1> QED
  BY <1>0, <1>6, <1>7, <1>8, <1>9, <1>10, <1>11, <1>12, <1>13, <1>14, <1>15, <1>16,
     <1>17, <1>18
  DEF IInv

LEMMA HydrateTextStep ==
  ASSUME IInv, HydrateText
  PROVE  IInv'
<1>1. PICK e \in Entry : e = visit.e /\ visit # None /\ visit.saw = 0 /\ visit.read = None
  BY Looked DEF HydrateText, IInv
<1>2. /\ TypeOK /\ hydrate # None /\ e \in hydrate
      /\ \/ src[e] = 0 /\ Visited(e)
         \/ /\ src[e] # 0 /\ hydrate' = hydrate
            /\ visit' = [visit EXCEPT !.read = EmbedJob(e, src[e])]
      /\ queue' = queue /\ at' = at
      /\ UNCHANGED <<src, side, marker, dead, idx, mount, phase, hand, walk, walks,
                     booted, lost, unsettled, exposed>>
  BY <1>1 DEF HydrateText, IInv, Reads, disk, history
<1>3. /\ EmbedJob(e, src[e]) \in Embed /\ EmbedJob(e, src[e]).e = e
      /\ EmbedJob(e, src[e]).ver = src[e]
  BY Sorts DEF IInv, EmbedJob, Embed
<1>4. /\ [visit EXCEPT !.read = EmbedJob(e, src[e])] \in Visit
      /\ [visit EXCEPT !.read = EmbedJob(e, src[e])].e = e
      /\ [visit EXCEPT !.read = EmbedJob(e, src[e])].saw = 0
      /\ [visit EXCEPT !.read = EmbedJob(e, src[e])].read = EmbedJob(e, src[e])
  BY <1>1, <1>2, <1>3, Looked DEF Visit
<1>5. /\ hydrate' \in (SUBSET Entry) \cup {None} /\ visit' \in Visit \cup {None}
      /\ visit' # None => /\ src[e] # 0 /\ hydrate' = hydrate /\ visit'.e = e
                          /\ visit'.saw = 0 /\ visit'.read.e = e /\ visit'.read.ver = src[e]
      /\ \A x \in Entry : x # e \/ src[x] # 0 =>
           ((hydrate' # None /\ x \in hydrate') <=> x \in hydrate)
  BY <1>2, <1>3, <1>4, Left, Sorts
<1>0. TypeOK /\ TypeOK'
  BY <1>2, <1>5 DEF TypeOK
<1>6. Staffed'
  BY <1>0, <1>1, <1>2, <1>5, Kept, Sorts, Held, Walked, Looked, NoneAssumption DEF
     IInv, Staffed
<1>7. Hands'
  BY <1>0, <1>1, <1>2, <1>5, Kept, Sorts, Held, Walked, Looked, NoneAssumption DEF
     IInv, Hands
<1>8. Texts'
  BY <1>0, <1>1, <1>2, <1>5, Kept, Sorts, Held, Walked, Looked, NoneAssumption DEF
     IInv, Texts
<1>9. Barriers'
  BY <1>0, <1>1, <1>2, <1>5, Kept, Sorts, Held, Walked, Looked, NoneAssumption DEF
     IInv, Barriers
<1>10. Flushed'
  BY <1>0, <1>1, <1>2, <1>5, Kept, Sorts, Held, Walked, Looked, NoneAssumption DEF
     IInv, Flushed, Hands
<1>11. Buried'
  BY <1>0, <1>1, <1>2, <1>5, Kept, Sorts, Held, Walked, Looked, NoneAssumption DEF
     IInv, Buried
<1>12. Expected'
  BY <1>0, <1>1, <1>2, <1>5, Kept, Sorts, Held, Walked, Looked, NoneAssumption DEF
     IInv, Expected
<1>13. OneHolder'
  BY <1>0, <1>1, <1>2, <1>5, Kept, Sorts, Held, Walked, Looked, NoneAssumption DEF
     IInv, OneHolder
<1>14. NewestLast'
  BY <1>0, <1>1, <1>2, <1>5, Kept, Sorts, Held, Walked, Looked, NoneAssumption DEF
     IInv, NewestLast, InHand
<1>15. Halfway'
  BY <1>0, <1>1, <1>2, <1>5, Kept, Sorts, Held, Walked, Looked, NoneAssumption DEF
     IInv, Halfway
<1>16. Reads'
  BY <1>0, <1>1, <1>2, <1>5, Kept, Sorts, Held, Walked, Looked, NoneAssumption DEF
     IInv, Reads
<1>17. Fresh'
  BY <1>0, <1>1, <1>2, <1>5, Kept, Sorts, Held, Walked, Looked, Attended,
     NoneAssumption DEF IInv, Fresh, InHand
<1>18. Settled'
  BY <1>0, <1>1, <1>2, <1>5, Kept, Sorts, Held, Walked, Looked, NoneAssumption DEF
     IInv, Settled, Chasing, InHand
<1> QED
  BY <1>0, <1>6, <1>7, <1>8, <1>9, <1>10, <1>11, <1>12, <1>13, <1>14, <1>15, <1>16,
     <1>17, <1>18
  DEF IInv

LEMMA HydrateSendStep ==
  ASSUME IInv, HydrateSend
  PROVE  IInv'
<1>1. PICK e \in Entry, j \in Embed, w \in Worker :
        /\ visit # None /\ e = visit.e /\ j = visit.read /\ visit.read # None /\ w = mount
        /\ j.e = e /\ j.ver # 0 /\ j.kind = "embed" /\ visit.saw = 0
  <2>1. visit # None /\ visit.read # None /\ TypeOK
    BY DEF HydrateSend, IInv
  <2>2. mount \in Worker
    BY <2>1, Sorts DEF IInv, Reads, Staffed
  <2> QED
    BY <2>1, <2>2, Looked DEF IInv, Reads
<1>2. /\ TypeOK /\ Room(w) /\ Put(w, j) /\ Visited(e) /\ at' = at
      /\ UNCHANGED <<src, side, marker, dead, idx, mount, phase, hand, walk, walks,
                     booted, lost, unsettled, exposed>>
  BY <1>1 DEF HydrateSend, IInv, disk, history
<1>3. /\ hydrate # None /\ e \in hydrate /\ (src[e] # 0 \/ e \in dead)
      /\ phase[w] = "run" /\ (hand # None => hand.w # w)
  BY <1>1 DEF IInv, Reads, Staffed
<1>4. /\ hydrate' \in (SUBSET Entry) \cup {None} /\ visit' = None
      /\ hydrate' = None \/ e \notin hydrate'
      /\ \A x \in Entry : x # e =>
           ((hydrate' # None /\ x \in hydrate') <=> x \in hydrate)
  BY <1>2, <1>3, Left
\* Only the mount's queue changes, and only by a job for the visited entry.
<1>5. /\ \A v \in Worker, x \in Entry : Busy(v, x)' <=> Busy(v, x)
      /\ \A v \in Worker, x \in Entry : Queued(v, x) => Queued(v, x)'
      /\ \A v \in Worker, x \in Entry : Due(v, x) => Due(v, x)'
      /\ \A v \in Worker, x \in Entry, i \in Nat :
           Job(v, x, i)' => Job(v, x, i) \/ (v = w /\ x = e)
      /\ \A v \in Worker, x \in Entry : Due(v, x)' => Due(v, x) \/ (v = w /\ x = e)
      /\ Queued(w, e)'
      /\ \A v \in Worker, x \in Entry, i \in Nat : Last(v, x, i)' =>
              \/ Last(v, x, i) /\ queue'[v][i] = queue[v][i]
              \/ v = w /\ x = e
      /\ \A v \in Worker : \A i \in 1..Len(queue'[v]) :
              \/ i \in 1..Len(queue[v]) /\ queue'[v][i] = queue[v][i]
              \/ v = w /\ queue'[v][i] = j
      /\ queue' \in [Worker -> Seq(Embed \cup Barrier)]
      /\ \A v \in Worker : Len(queue'[v]) <= Capacity
      /\ \A v \in Worker \ {w} : queue'[v] = queue[v]
  <2>1. TypeOK /\ Room(w) /\ Put(w, j) /\ at' = at /\ e = j.e /\ phase[w] = "run"
    BY <1>1, <1>2, <1>3
  <2>2. /\ \A v \in Worker, x \in Entry : Busy(v, x)' <=> Busy(v, x)
        /\ \A v \in Worker, x \in Entry : Queued(v, x) => Queued(v, x)'
        /\ \A v \in Worker, x \in Entry : Due(v, x) => Due(v, x)'
        /\ \A v \in Worker, x \in Entry, i \in Nat :
             Job(v, x, i)' => Job(v, x, i) \/ (phase[w] # "gone" /\ v = w /\ x = e)
        /\ \A v \in Worker, x \in Entry :
             Due(v, x)' => Due(v, x) \/ (phase[w] # "gone" /\ v = w /\ x = e)
        /\ phase[w] # "gone" => Queued(w, e)'
    BY <2>1, Sent
  <2>3. /\ \A v \in Worker, x \in Entry, i \in Nat : Last(v, x, i)' =>
             \/ Last(v, x, i) /\ queue'[v][i] = queue[v][i]
             \/ phase[w] # "gone" /\ v = w /\ x = e
        /\ \A v \in Worker : \A i \in 1..Len(queue'[v]) :
             \/ i \in 1..Len(queue[v]) /\ queue'[v][i] = queue[v][i]
             \/ phase[w] # "gone" /\ v = w /\ queue'[v][i] = j
    BY <2>1, Sent
  <2>4. /\ queue' \in [Worker -> Seq(Embed \cup Barrier)]
        /\ \A v \in Worker : Len(queue'[v]) <= Capacity
        /\ \A v \in Worker \ {w} : queue'[v] = queue[v]
    BY <2>1, Sent
  <2> QED
    BY <2>4, <2>3, <2>2, <2>1
\* What has no sidecar when hydrate reads it is given up, gone, or in a hand.
<1>6. e \in lost \/ src[e] = 0 \/ InHand(e)
  BY <1>1, <1>3, Sorts, <1>2 DEF IInv, Fresh, Texts
<1>0. TypeOK /\ TypeOK'
  BY <1>2, <1>4, <1>5 DEF TypeOK
<1>7. Staffed'
  BY <1>1, <1>2, <1>3, <1>5, NoneAssumption DEF IInv, Staffed
<1>8. Hands'
  BY <1>2 DEF IInv, Hands
<1>9. Texts'
  <2>1. \A v \in Worker : \A i \in 1..Len(queue'[v]) :
          queue'[v][i].kind = "embed" => queue'[v][i].ver # 0
    BY <1>1, <1>5 DEF IInv, Texts
  <2> QED
    BY <1>2, <1>3, <1>5, <2>1 DEF IInv, Texts
<1>10. Barriers'
  <2>1. ASSUME NEW x \in Entry \ dead, NEW v \in Worker, NEW i \in 1..Len(queue'[v]),
               queue'[v][i].kind = "flush", queue'[v][i].tag = x
        PROVE  i \in 1..Len(queue[v]) /\ queue'[v][i] = queue[v][i]
    BY <1>1, <1>5, <2>1
  <2> QED
    BY <1>2, <1>3, <1>5, <2>1 DEF IInv, Barriers
<1>11. Flushed'
  BY <1>0, <1>2, <1>3, <1>5, Held DEF IInv, Flushed, Hands
<1>12. Buried'
  BY <1>0, <1>2, <1>5, Sorts DEF IInv, Buried
<1>13. Expected'
  BY <1>0, <1>1, <1>2, <1>3, <1>4, <1>5, Sorts DEF IInv, Expected
<1>14. OneHolder'
  <2>1. ASSUME NEW x \in Entry \ (lost \cup dead), NEW u \in Worker, Due(u, x)'
        PROVE  u = w
    BY <1>1, <1>2, <1>5, <2>1, NoneAssumption DEF IInv, OneHolder
  <2> QED
    BY <1>1, <1>2, <2>1 DEF OneHolder
<1>15. NewestLast'
  <2>1. ASSUME NEW x \in Entry \ lost, src[x] # 0, ~ InHand(x), NEW v \in Worker
        PROVE  /\ \A i \in Nat : Last(v, x, i)' => queue'[v][i].ver = src[x]
               /\ (Busy(v, x)' /\ ~ Queued(v, x)') => at[v].ver = src[x]
    BY <1>5, <1>6, <2>1 DEF IInv, NewestLast
  <2> QED
    BY <1>2, <2>1 DEF NewestLast, InHand
<1>16. Halfway'
  BY <1>2, <1>5 DEF IInv, Halfway
<1>17. Reads'
  BY <1>2, <1>4 DEF IInv, Reads
<1>18. Fresh'
  <2>1. ASSUME NEW x \in Entry \ lost, src[x] # 0, ~ InHand(x), NEW i \in Nat, Job(w, x, i)'
        PROVE  Job(w, x, i) /\ queue'[w][i] = queue[w][i]
    <3>1. x # e /\ Job(w, x, i)
      BY <1>5, <1>6, <2>1
    <3> QED
      BY <1>1, <1>5, <2>1, <3>1 DEF Job
  <2> QED
    BY <1>1, <1>2, <1>3, <1>4, <1>5, <2>1 DEF IInv, Fresh, InHand
<1>19. Settled'
  <2>1. ASSUME NEW x \in Entry, \A v \in Worker : ~ Due(v, x)'
        PROVE  x # e /\ \A v \in Worker : ~ Due(v, x)
    BY <1>1, <1>5, <2>1 DEF Due
  <2> QED
    BY <1>2, <1>3, <1>4, <2>1 DEF IInv, Settled, Chasing, InHand
<1> QED
  BY <1>0, <1>7, <1>8, <1>9, <1>10, <1>11, <1>12, <1>13, <1>14, <1>15, <1>16, <1>17,
     <1>18, <1>19
  DEF IInv

LEMMA HydrateSkipStep ==
  ASSUME IInv, NEW e \in Entry, HydrateSkip(e)
  PROVE  IInv'
<1>1. /\ hydrate # None /\ e \in hydrate /\ TypeOK /\ Visited(e)
      /\ lost' = lost \cup ({e} \ dead) /\ unsettled' = unsettled \cup ({e} \ dead)
      /\ queue' = queue /\ at' = at
      /\ UNCHANGED <<src, side, marker, dead, idx, mount, phase, hand, walk, walks,
                     booted, exposed>>
  BY DEF HydrateSkip, IInv, Lose, disk
<1>2. /\ hydrate' \in (SUBSET Entry) \cup {None} /\ visit' = None
      /\ \A x \in Entry : x # e =>
           ((hydrate' # None /\ x \in hydrate') <=> x \in hydrate)
  BY <1>1, Left
<1>3. /\ lost \subseteq lost' /\ unsettled \subseteq unsettled'
      /\ lost' \subseteq Entry /\ unsettled' \subseteq Entry
      /\ src[e] # 0 => e \in lost' /\ e \in unsettled'
  BY <1>1, Sorts DEF IInv, Texts
<1>0. TypeOK /\ TypeOK'
  BY <1>1, <1>2, <1>3 DEF TypeOK
<1>4. Staffed'
  BY <1>0, <1>1, <1>2, <1>3, Kept, Sorts, Held, Walked, Looked, NoneAssumption DEF
     IInv, Staffed
<1>5. Hands'
  BY <1>0, <1>1, <1>2, <1>3, Kept, Sorts, Held, Walked, Looked, NoneAssumption DEF
     IInv, Hands
<1>6. Texts'
  BY <1>0, <1>1, <1>2, <1>3, Kept, Sorts, Held, Walked, Looked, NoneAssumption DEF
     IInv, Texts
<1>7. Barriers'
  BY <1>0, <1>1, <1>2, <1>3, Kept, Sorts, Held, Walked, Looked, NoneAssumption DEF
     IInv, Barriers
<1>8. Flushed'
  BY <1>0, <1>1, <1>2, <1>3, Kept, Sorts, Held, Walked, Looked, NoneAssumption DEF
     IInv, Flushed, Hands
<1>9. Buried'
  BY <1>0, <1>1, <1>2, <1>3, Kept, Sorts, Held, Walked, Looked, NoneAssumption DEF
     IInv, Buried
<1>10. Expected'
  BY <1>0, <1>1, <1>2, <1>3, Kept, Sorts, Held, Walked, Looked, NoneAssumption DEF
     IInv, Expected
<1>11. OneHolder'
  BY <1>0, <1>1, <1>2, <1>3, Kept, Sorts, Held, Walked, Looked, NoneAssumption DEF
     IInv, OneHolder
<1>12. NewestLast'
  BY <1>0, <1>1, <1>2, <1>3, Kept, Sorts, Held, Walked, Looked, NoneAssumption DEF
     IInv, NewestLast, InHand
<1>13. Halfway'
  BY <1>0, <1>1, <1>2, <1>3, Kept, Sorts, Held, Walked, Looked, NoneAssumption DEF
     IInv, Halfway
<1>14. Reads'
  BY <1>0, <1>1, <1>2, <1>3, Kept, Sorts, Held, Walked, Looked, NoneAssumption DEF
     IInv, Reads
<1>15. Fresh'
  BY <1>0, <1>1, <1>2, <1>3, Kept, Sorts, Held, Walked, Looked, Attended,
     NoneAssumption DEF IInv, Fresh, InHand
<1>16. Settled'
  BY <1>0, <1>1, <1>2, <1>3, Kept, Sorts, Held, Walked, Looked, NoneAssumption DEF
     IInv, Settled, Chasing, InHand
<1> QED
  BY <1>0, <1>4, <1>5, <1>6, <1>7, <1>8, <1>9, <1>10, <1>11, <1>12, <1>13, <1>14,
     <1>15, <1>16
  DEF IInv

-----------------------------------------------------------------------------
(* Walkers, and the crash.                                                 *)

LEMMA StartBackfillStep ==
  ASSUME IInv, StartBackfill
  PROVE  IInv'
<1>a. /\ walk' \in Walk /\ walk' # None /\ walk'.w = mount /\ walk'.saw = 0 /\ walk'.e = None
      /\ walk'.pc = "visit" /\ walk'.kind = "backfill"
      /\ mount \in Worker /\ walks' \in 0..MaxWalks
  <2>1. TypeOK /\ mount \in Worker /\ walks \in 0..MaxWalks /\ walks' = walks + 1 /\ walks < MaxWalks
    BY Sorts DEF IInv, StartBackfill, Start
  <2>2. /\ walk' \in Walk /\ walk'.w = mount /\ walk'.saw = 0 /\ walk'.e = None
        /\ walk'.pc = "visit" /\ walk'.kind = "backfill"
    BY <2>1, BoundsAssumption DEF StartBackfill, Start, Walk, Version
  <2>3. walks' \in 0..MaxWalks
    BY <2>1, BoundsAssumption
  <2> QED
    BY <2>1, <2>2, <2>3, NoneAssumption
<1>0. TypeOK /\ TypeOK'
  BY <1>a DEF IInv, TypeOK, StartBackfill, Start, disk, history
<1>1. Staffed'
  BY <1>0, <1>a, Kept, Sorts, Held, Walked, NoneAssumption DEF IInv, Staffed,
     StartBackfill, disk, history, Start
<1>2. Hands'
  BY <1>0, <1>a, Kept, Sorts, Held, Walked, NoneAssumption DEF IInv, Hands,
     StartBackfill, disk, history, Start
<1>3. Texts'
  BY <1>0, <1>a, Kept, Sorts, Held, Walked, NoneAssumption DEF IInv, Texts,
     StartBackfill, disk, history, Start
<1>4. Barriers'
  BY <1>0, <1>a, Kept, Sorts, Held, Walked, NoneAssumption DEF IInv, Barriers,
     StartBackfill, disk, history, Start
<1>5. Flushed'
  BY <1>0, <1>a, Kept, Sorts, Held, Walked, NoneAssumption DEF IInv, Flushed, Hands,
     StartBackfill, disk, history, Start
<1>6. Buried'
  BY <1>0, <1>a, Kept, Sorts, Held, Walked, NoneAssumption DEF IInv, Buried,
     StartBackfill, disk, history, Start
<1>7. Expected'
  BY <1>0, <1>a, Kept, Sorts, Held, Walked, NoneAssumption DEF IInv, Expected,
     StartBackfill, disk, history, Start
<1>8. OneHolder'
  BY <1>0, <1>a, Kept, Sorts, Held, Walked, NoneAssumption DEF IInv, OneHolder,
     StartBackfill, disk, history, Start
<1>9. NewestLast'
  BY <1>0, <1>a, Kept, Sorts, Held, Walked, NoneAssumption DEF IInv, NewestLast,
     InHand, StartBackfill, disk, history, Start
<1>10. Halfway'
  BY <1>0, <1>a, Kept, Sorts, Held, Walked, NoneAssumption DEF IInv, Halfway,
     StartBackfill, disk, history, Start
<1>11. Reads'
  <2>1. phase[mount] = "run" /\ UNCHANGED <<src, side, dead, phase, hydrate, visit>>
    BY <1>a DEF IInv, Staffed, StartBackfill, Start, disk
  <2> QED
    BY <1>a, <2>1, NoneAssumption DEF IInv, Reads
<1>12. Fresh'
  BY <1>0, <1>a, Kept, Sorts, Held, Walked, Looked, Attended, NoneAssumption DEF
     IInv, Fresh, InHand, StartBackfill, disk, history, Start
<1>13. Settled'
  BY <1>0, <1>a, Kept, Sorts, Held, Walked, Looked, NoneAssumption DEF IInv, Settled,
     Chasing, InHand, StartBackfill, disk, history, Start
<1> QED
  BY <1>0, <1>1, <1>2, <1>3, <1>4, <1>5, <1>6, <1>7, <1>8, <1>9, <1>10, <1>11, <1>12,
     <1>13
  DEF IInv

LEMMA StartReembedStep ==
  ASSUME IInv, StartReembed
  PROVE  IInv'
<1>a. /\ walk' \in Walk /\ walk' # None /\ walk'.w = mount /\ walk'.saw = 0 /\ walk'.e = None
      /\ walk'.pc = "flush" /\ walk'.kind = "reembed"
      /\ mount \in Worker /\ walks' \in 0..MaxWalks
  <2>1. TypeOK /\ mount \in Worker /\ walks \in 0..MaxWalks /\ walks' = walks + 1 /\ walks < MaxWalks
    BY Sorts DEF IInv, StartReembed, Start
  <2>2. /\ walk' \in Walk /\ walk'.w = mount /\ walk'.saw = 0 /\ walk'.e = None
        /\ walk'.pc = "flush" /\ walk'.kind = "reembed"
    BY <2>1, BoundsAssumption DEF StartReembed, Start, Walk, Version
  <2>3. walks' \in 0..MaxWalks
    BY <2>1, BoundsAssumption
  <2> QED
    BY <2>1, <2>2, <2>3, NoneAssumption
<1>0. TypeOK /\ TypeOK'
  BY <1>a DEF IInv, TypeOK, StartReembed, Start, disk, history
<1>1. Staffed'
  BY <1>0, <1>a, Kept, Sorts, Held, Walked, NoneAssumption DEF IInv, Staffed,
     StartReembed, disk, history, Start
<1>2. Hands'
  BY <1>0, <1>a, Kept, Sorts, Held, Walked, NoneAssumption DEF IInv, Hands,
     StartReembed, disk, history, Start
<1>3. Texts'
  BY <1>0, <1>a, Kept, Sorts, Held, Walked, NoneAssumption DEF IInv, Texts,
     StartReembed, disk, history, Start
<1>4. Barriers'
  BY <1>0, <1>a, Kept, Sorts, Held, Walked, NoneAssumption DEF IInv, Barriers,
     StartReembed, disk, history, Start
<1>5. Flushed'
  BY <1>0, <1>a, Kept, Sorts, Held, Walked, NoneAssumption DEF IInv, Flushed, Hands,
     StartReembed, disk, history, Start
<1>6. Buried'
  BY <1>0, <1>a, Kept, Sorts, Held, Walked, NoneAssumption DEF IInv, Buried,
     StartReembed, disk, history, Start
<1>7. Expected'
  BY <1>0, <1>a, Kept, Sorts, Held, Walked, NoneAssumption DEF IInv, Expected,
     StartReembed, disk, history, Start
<1>8. OneHolder'
  BY <1>0, <1>a, Kept, Sorts, Held, Walked, NoneAssumption DEF IInv, OneHolder,
     StartReembed, disk, history, Start
<1>9. NewestLast'
  BY <1>0, <1>a, Kept, Sorts, Held, Walked, NoneAssumption DEF IInv, NewestLast,
     InHand, StartReembed, disk, history, Start
<1>10. Halfway'
  BY <1>0, <1>a, Kept, Sorts, Held, Walked, NoneAssumption DEF IInv, Halfway,
     StartReembed, disk, history, Start
<1>11. Reads'
  <2>1. phase[mount] = "run" /\ UNCHANGED <<src, side, dead, phase, hydrate, visit>>
    BY <1>a DEF IInv, Staffed, StartReembed, Start, disk
  <2> QED
    BY <1>a, <2>1, NoneAssumption DEF IInv, Reads
<1>12. Fresh'
  BY <1>0, <1>a, Kept, Sorts, Held, Walked, Looked, Attended, NoneAssumption DEF
     IInv, Fresh, InHand, StartReembed, disk, history, Start
<1>13. Settled'
  BY <1>0, <1>a, Kept, Sorts, Held, Walked, Looked, NoneAssumption DEF IInv, Settled,
     Chasing, InHand, StartReembed, disk, history, Start
<1> QED
  BY <1>0, <1>1, <1>2, <1>3, <1>4, <1>5, <1>6, <1>7, <1>8, <1>9, <1>10, <1>11, <1>12,
     <1>13
  DEF IInv

LEMMA WalkFlushStep ==
  ASSUME IInv, WalkFlush
  PROVE  IInv'
<1>1. PICK w \in Worker : w = walk.w /\ walk # None /\ Room(w) /\ Put(w, FlushJob(walks))
  BY Walked DEF WalkFlush, IInv, Reads
<1>2. /\ walk' = [walk EXCEPT !.pc = "wait"] /\ at' = at
      /\ UNCHANGED <<src, side, marker, dead, idx, mount, phase, hydrate, visit, hand, walks,
                     booted, lost, unsettled, exposed>>
  BY DEF WalkFlush, disk, history
<1>3. /\ walks \in 0..MaxWalks /\ FlushJob(walks).kind = "flush" /\ FlushJob(walks).tag \notin Entry
      /\ FlushJob(walks) \in Barrier
  BY Sorts, TagAssumption DEF FlushJob, IInv, Barrier
<1>4. /\ walk' \in Walk /\ walk' # None /\ walk'.w = w /\ walk'.pc = "wait" /\ walk.pc = "flush"
      /\ walk'.kind = walk.kind
  <2>1. walk \in Walk
    BY <1>1, Walked DEF IInv
  <2>2. walk' \in Walk
    BY <1>2, <2>1 DEF Walk
  <2> QED
    BY <1>1, <1>2, <2>1, <2>2, NoneAssumption DEF Walk, WalkFlush
<1>5. /\ \A v \in Worker, x \in Entry, i \in Nat : Job(v, x, i)' <=> Job(v, x, i)
      /\ \A v \in Worker, x \in Entry, i \in Nat : Last(v, x, i)' =>
           Last(v, x, i) /\ queue'[v][i] = queue[v][i]
      /\ \A v \in Worker, x \in Entry : Queued(v, x)' <=> Queued(v, x)
      /\ \A v \in Worker, x \in Entry : Busy(v, x)' <=> Busy(v, x)
      /\ \A v \in Worker, x \in Entry : Due(v, x)' <=> Due(v, x)
  BY <1>1, <1>2, <1>3, SentBarrier DEF IInv
<1>6. \A v \in Worker : \A i \in 1..Len(queue'[v]) :
        \/ i \in 1..Len(queue[v]) /\ queue'[v][i] = queue[v][i]
        \/ v = w /\ queue'[v][i] = FlushJob(walks)
  BY <1>1, <1>2, <1>3, SentBarrier DEF IInv
<1>7. /\ queue' \in [Worker -> Seq(Embed \cup Barrier)]
      /\ \A v \in Worker : Len(queue'[v]) <= Capacity
      /\ phase[w] = "gone" => queue' = queue
      /\ \A v \in Worker \ {w} : queue'[v] = queue[v]
  BY <1>1, <1>2, <1>3, SentBarrier DEF IInv
<1>0. TypeOK /\ TypeOK'
  BY <1>2, <1>4, <1>7 DEF IInv, TypeOK
<1>8. Staffed'
  BY <1>0, <1>1, <1>2, <1>4, <1>7, Sorts, NoneAssumption DEF IInv, Staffed, Reads
<1>9. Hands'
  BY <1>2 DEF IInv, Hands
<1>10. Texts'
  <2>1. \A v \in Worker : \A i \in 1..Len(queue'[v]) :
          queue'[v][i].kind = "embed" => queue'[v][i].ver # 0
    BY <1>3, <1>6 DEF IInv, Texts
  <2> QED
    BY <1>1, <1>2, <1>4, <1>5, <2>1 DEF IInv, Texts
<1>11. Barriers'
  <2>1. ASSUME NEW x \in Entry \ dead, NEW v \in Worker, NEW i \in 1..Len(queue'[v]),
               queue'[v][i].kind = "flush", queue'[v][i].tag = x
        PROVE  i \in 1..Len(queue[v]) /\ queue'[v][i] = queue[v][i]
    BY <1>3, <1>6, <2>1
  <2> QED
    BY <1>2, <1>5, <2>1 DEF IInv, Barriers
<1>12. Flushed'
  BY <1>0, <1>2, <1>5, Held DEF IInv, Flushed, Hands
<1>13. Buried' /\ OneHolder'
  BY <1>0, <1>2, <1>5, Sorts DEF IInv, Buried, OneHolder
<1>14. Expected'
  BY <1>0, <1>2, <1>5, Sorts DEF IInv, Expected
<1>15. NewestLast'
  BY <1>2, <1>5 DEF IInv, NewestLast, InHand
<1>16. Halfway'
  BY <1>2, <1>5 DEF IInv, Halfway
<1>17. Reads'
  BY <1>1, <1>2, <1>4, NoneAssumption DEF IInv, Reads
<1>18. Fresh'
  <2>1. ASSUME NEW v \in Worker, NEW x \in Entry, NEW i \in Nat, Job(v, x, i)'
        PROVE  Job(v, x, i) /\ queue'[v][i] = queue[v][i]
    BY <1>3, <1>5, <1>6, <2>1 DEF Job
  <2>2. hydrate # None => mount \in Worker
    BY <1>0, Sorts DEF IInv, Staffed
  <2> QED
    BY <1>2, <1>5, <2>1, <2>2 DEF IInv, Fresh, InHand
<1>19. Settled'
  BY <1>2, <1>4, <1>5 DEF IInv, Settled, Chasing, InHand
<1> QED
  BY <1>0, <1>8, <1>9, <1>10, <1>11, <1>12, <1>13, <1>14, <1>15, <1>16, <1>17, <1>18,
     <1>19
  DEF IInv

LEMMA WalkCancelledStep ==
  ASSUME IInv, WalkCancelled
  PROVE  IInv'
<1>1. /\ TypeOK /\ walk # None /\ walk.pc \in {"flush", "wait"}
      /\ walk' = [walk EXCEPT !.pc = "visit", !.w = None]
      /\ queue' = queue /\ at' = at
      /\ UNCHANGED <<src, side, marker, dead, idx, mount, phase, hand, hydrate, visit,
                     walks, booted, lost, unsettled, exposed>>
  BY DEF WalkCancelled, IInv, disk, history
<1>2. /\ walk' \in Walk /\ walk' # None /\ walk'.pc = "visit" /\ walk'.w = None
      /\ walk'.kind = "reembed"
  <2>1. walk \in Walk /\ walk.kind = "reembed"
    BY <1>1, Walked DEF IInv, Reads
  <2>2. walk' \in Walk
    BY <1>1, <2>1 DEF Walk
  <2> QED
    BY <1>1, <2>1, <2>2, NoneAssumption DEF Walk
<1>0. TypeOK /\ TypeOK'
  BY <1>1, <1>2 DEF TypeOK
<1>3. Staffed'
  BY <1>0, <1>1, <1>2, Kept, Sorts, Held, Walked, Looked, NoneAssumption DEF IInv,
     Staffed
<1>4. Hands'
  BY <1>0, <1>1, <1>2, Kept, Sorts, Held, Walked, Looked, NoneAssumption DEF IInv, Hands
<1>5. Texts'
  BY <1>0, <1>1, <1>2, Kept, Sorts, Held, Walked, Looked, NoneAssumption DEF IInv, Texts
<1>6. Barriers'
  BY <1>0, <1>1, <1>2, Kept, Sorts, Held, Walked, Looked, NoneAssumption DEF IInv,
     Barriers
<1>7. Flushed'
  BY <1>0, <1>1, <1>2, Kept, Sorts, Held, Walked, Looked, NoneAssumption DEF IInv,
     Flushed, Hands
<1>8. Buried'
  BY <1>0, <1>1, <1>2, Kept, Sorts, Held, Walked, Looked, NoneAssumption DEF IInv,
     Buried
<1>9. Expected'
  BY <1>0, <1>1, <1>2, Kept, Sorts, Held, Walked, Looked, NoneAssumption DEF IInv,
     Expected
<1>10. OneHolder'
  BY <1>0, <1>1, <1>2, Kept, Sorts, Held, Walked, Looked, NoneAssumption DEF IInv,
     OneHolder
<1>11. NewestLast'
  BY <1>0, <1>1, <1>2, Kept, Sorts, Held, Walked, Looked, NoneAssumption DEF IInv,
     NewestLast, InHand
<1>12. Halfway'
  BY <1>0, <1>1, <1>2, Kept, Sorts, Held, Walked, Looked, NoneAssumption DEF IInv,
     Halfway
<1>13. Reads'
  BY <1>0, <1>1, <1>2, Kept, Sorts, Held, Walked, Looked, NoneAssumption DEF IInv, Reads
<1>14. Fresh'
  BY <1>0, <1>1, <1>2, Kept, Sorts, Held, Walked, Looked, Attended, NoneAssumption
     DEF IInv, Fresh, InHand
<1>15. Settled'
  BY <1>0, <1>1, <1>2, Kept, Sorts, Held, Walked, Looked, NoneAssumption DEF IInv,
     Settled, Chasing, InHand
<1> QED
  BY <1>0, <1>3, <1>4, <1>5, <1>6, <1>7, <1>8, <1>9, <1>10, <1>11, <1>12, <1>13,
     <1>14, <1>15
  DEF IInv

\* A walk that goes on has nothing in its hands.
LEMMA Went ==
  ASSUME TypeOK, walk # None, NEW S \in SUBSET Entry, Ahead(S)
  PROVE  /\ walk' \in Walk \cup {None}
         /\ walk' # None => /\ walk'.pc = "visit" /\ walk'.saw = 0 /\ walk'.w = walk.w
                            /\ walk'.kind = walk.kind
<1>1. walk \in Walk /\ 0 \in Version
  BY Walked, BoundsAssumption DEF Version
<1> QED
  BY <1>1 DEF Ahead, Walk

LEMMA WalkPassStep ==
  ASSUME IInv, NEW e \in Entry, WalkPass(e)
  PROVE  IInv'
<1>1. /\ TypeOK /\ walk # None /\ walk.pc = "visit" /\ Ahead(walk.todo \ {e})
      /\ queue' = queue /\ at' = at
      /\ UNCHANGED <<src, side, marker, dead, idx, mount, phase, hand, hydrate, visit,
                     walks, booted, lost, unsettled, exposed>>
  BY DEF WalkPass, IInv, disk, history
<1>2. /\ walk' \in Walk \cup {None}
      /\ walk' # None => /\ walk'.pc = "visit" /\ walk'.saw = 0 /\ walk'.w = walk.w
                         /\ walk'.kind = walk.kind
  BY <1>1, Went, Walked
<1>0. TypeOK /\ TypeOK'
  BY <1>1, <1>2 DEF TypeOK
<1>3. Staffed'
  BY <1>0, <1>1, <1>2, Kept, Sorts, Held, Walked, Looked, NoneAssumption DEF IInv,
     Staffed
<1>4. Hands'
  BY <1>0, <1>1, <1>2, Kept, Sorts, Held, Walked, Looked, NoneAssumption DEF IInv, Hands
<1>5. Texts'
  BY <1>0, <1>1, <1>2, Kept, Sorts, Held, Walked, Looked, NoneAssumption DEF IInv, Texts
<1>6. Barriers'
  BY <1>0, <1>1, <1>2, Kept, Sorts, Held, Walked, Looked, NoneAssumption DEF IInv,
     Barriers
<1>7. Flushed'
  BY <1>0, <1>1, <1>2, Kept, Sorts, Held, Walked, Looked, NoneAssumption DEF IInv,
     Flushed, Hands
<1>8. Buried'
  BY <1>0, <1>1, <1>2, Kept, Sorts, Held, Walked, Looked, NoneAssumption DEF IInv,
     Buried
<1>9. Expected'
  BY <1>0, <1>1, <1>2, Kept, Sorts, Held, Walked, Looked, NoneAssumption DEF IInv,
     Expected
<1>10. OneHolder'
  BY <1>0, <1>1, <1>2, Kept, Sorts, Held, Walked, Looked, NoneAssumption DEF IInv,
     OneHolder
<1>11. NewestLast'
  BY <1>0, <1>1, <1>2, Kept, Sorts, Held, Walked, Looked, NoneAssumption DEF IInv,
     NewestLast, InHand
<1>12. Halfway'
  BY <1>0, <1>1, <1>2, Kept, Sorts, Held, Walked, Looked, NoneAssumption DEF IInv,
     Halfway
<1>13. Reads'
  BY <1>0, <1>1, <1>2, Kept, Sorts, Held, Walked, Looked, NoneAssumption DEF IInv, Reads
<1>14. Fresh'
  BY <1>0, <1>1, <1>2, Kept, Sorts, Held, Walked, Looked, Attended, NoneAssumption
     DEF IInv, Fresh, InHand
<1>15. Settled'
  BY <1>0, <1>1, <1>2, Kept, Sorts, Held, Walked, Looked, NoneAssumption DEF IInv,
     Settled, Chasing, InHand
<1> QED
  BY <1>0, <1>3, <1>4, <1>5, <1>6, <1>7, <1>8, <1>9, <1>10, <1>11, <1>12, <1>13,
     <1>14, <1>15
  DEF IInv

LEMMA WalkReadStep ==
  ASSUME IInv, NEW e \in Entry, WalkRead(e)
  PROVE  IInv'
<1>1. /\ TypeOK /\ walk # None /\ walk.pc = "visit" /\ src[e] # 0
      /\ walk.kind = "backfill" => side[e] = 0
      /\ walk' = [walk EXCEPT !.todo = @ \ {e}, !.e = e, !.saw = side[e],
                              !.pc = IF side[e] # 0 THEN "load" ELSE "text",
                              !.w = IF side[e] # 0 THEN mount
                                    ELSE IF walk.kind = "backfill" THEN @ ELSE None]
      /\ queue' = queue /\ at' = at
      /\ UNCHANGED <<src, side, marker, dead, idx, mount, phase, hand, hydrate, visit,
                     walks, booted, lost, unsettled, exposed>>
  BY DEF WalkRead, IInv, disk, history
<1>2. /\ walk' \in Walk /\ walk' # None /\ walk'.e = e /\ walk'.kind = walk.kind
      /\ \/ walk'.pc = "load" /\ walk'.saw # 0 /\ walk'.w = mount /\ walk.kind = "reembed"
         \/ /\ walk'.pc = "text" /\ walk'.saw = 0
            /\ walk'.w = IF walk.kind = "backfill" THEN walk.w ELSE None
  <2>1. walk \in Walk /\ side[e] \in Version /\ mount \in Worker \cup {None}
    BY <1>1, Walked, Sorts
  <2>2. walk' \in Walk
    BY <1>1, <2>1 DEF Walk
  <2>3. /\ walk'.e = e /\ walk'.kind = walk.kind /\ walk'.saw = side[e]
        /\ walk'.pc = IF side[e] # 0 THEN "load" ELSE "text"
        /\ walk'.w = IF side[e] # 0 THEN mount
                     ELSE IF walk.kind = "backfill" THEN walk.w ELSE None
    BY <1>1, <2>1 DEF Walk
  <2>4. walk.kind \in {"backfill", "reembed"}
    BY <1>1, Walked
  <2> QED
    BY <1>1, <2>4, <2>2, <2>3, NoneAssumption
<1>0. TypeOK /\ TypeOK'
  BY <1>1, <1>2 DEF TypeOK
<1>3. Staffed'
  BY <1>0, <1>1, <1>2, Kept, Sorts, Held, Walked, Looked, NoneAssumption DEF IInv,
     Staffed
<1>4. Hands'
  BY <1>0, <1>1, <1>2, Kept, Sorts, Held, Walked, Looked, NoneAssumption DEF IInv, Hands
<1>5. Texts'
  BY <1>0, <1>1, <1>2, Kept, Sorts, Held, Walked, Looked, NoneAssumption DEF IInv, Texts
<1>6. Barriers'
  BY <1>0, <1>1, <1>2, Kept, Sorts, Held, Walked, Looked, NoneAssumption DEF IInv,
     Barriers
<1>7. Flushed'
  BY <1>0, <1>1, <1>2, Kept, Sorts, Held, Walked, Looked, NoneAssumption DEF IInv,
     Flushed, Hands
<1>8. Buried'
  BY <1>0, <1>1, <1>2, Kept, Sorts, Held, Walked, Looked, NoneAssumption DEF IInv,
     Buried
<1>9. Expected'
  BY <1>0, <1>1, <1>2, Kept, Sorts, Held, Walked, Looked, NoneAssumption DEF IInv,
     Expected
<1>10. OneHolder'
  BY <1>0, <1>1, <1>2, Kept, Sorts, Held, Walked, Looked, NoneAssumption DEF IInv,
     OneHolder
<1>11. NewestLast'
  BY <1>0, <1>1, <1>2, Kept, Sorts, Held, Walked, Looked, NoneAssumption DEF IInv,
     NewestLast, InHand
<1>12. Halfway'
  BY <1>0, <1>1, <1>2, Kept, Sorts, Held, Walked, Looked, NoneAssumption DEF IInv,
     Halfway
<1>13. Reads'
  <2>1. mount # None => phase[mount] # "new"
    BY <1>1, Sorts DEF IInv, Staffed
  <2> QED
    BY <1>1, <1>2, <2>1, NoneAssumption DEF IInv, Reads
<1>14. Fresh'
  BY <1>0, <1>1, <1>2, Kept, Sorts, Held, Walked, Looked, Attended, NoneAssumption
     DEF IInv, Fresh, InHand
<1>15. Settled'
  BY <1>0, <1>1, <1>2, Kept, Sorts, Held, Walked, Looked, NoneAssumption DEF IInv,
     Settled, Chasing, InHand
<1> QED
  BY <1>0, <1>3, <1>4, <1>5, <1>6, <1>7, <1>8, <1>9, <1>10, <1>11, <1>12, <1>13,
     <1>14, <1>15
  DEF IInv

LEMMA WalkLoadStep ==
  ASSUME IInv, WalkLoad
  PROVE  IInv'
<1>1. PICK e \in Entry, ver \in Version :
        /\ TypeOK /\ walk # None /\ walk.pc = "load" /\ e = walk.e /\ ver = walk.saw /\ ver # 0
        /\ walk.kind = "reembed" /\ (src[e] # 0 \/ e \in dead)
  BY Walked DEF WalkLoad, IInv, Reads
<1>2. /\ walk' = [walk EXCEPT !.pc = "text", !.w = None] /\ queue' = queue /\ at' = at
      /\ \/ idx' = [idx EXCEPT ![e] = ver] /\ exposed' = exposed \cup ({e} \cap dead)
         \/ idx' = idx /\ exposed' = exposed
      /\ UNCHANGED <<src, side, marker, dead, mount, phase, hand, hydrate, visit, walks,
                     booted, lost, unsettled>>
  BY <1>1 DEF WalkLoad, PutBack, disk
<1>3. /\ walk' \in Walk /\ walk' # None /\ walk'.e = e /\ walk'.saw = ver /\ walk'.pc = "text"
      /\ walk'.w = None /\ walk'.kind = "reembed"
  <2>1. walk \in Walk
    BY <1>1, Walked
  <2>2. walk' \in Walk
    BY <1>2, <2>1 DEF Walk
  <2> QED
    BY <1>1, <1>2, <2>1, <2>2, NoneAssumption DEF Walk
<1>4. /\ idx' \in [Entry -> Version] /\ \A x \in Entry \ {e} : idx'[x] = idx[x]
      /\ idx'[e] = ver \/ idx'[e] = idx[e]
      /\ exposed \subseteq exposed' /\ exposed' \subseteq Entry
      /\ e \notin dead \/ e \in exposed' \/ idx'[e] = idx[e]
  BY <1>1, <1>2, Sorts
<1>0. TypeOK /\ TypeOK'
  BY <1>1, <1>2, <1>3, <1>4 DEF TypeOK
<1>5. Staffed'
  BY <1>0, <1>1, <1>2, <1>3, <1>4, Kept, Sorts, Held, Walked, Looked, NoneAssumption
     DEF IInv, Staffed
<1>6. Hands'
  BY <1>0, <1>1, <1>2, <1>3, <1>4, Kept, Sorts, Held, Walked, Looked, NoneAssumption
     DEF IInv, Hands
<1>7. Texts'
  BY <1>0, <1>1, <1>2, <1>3, <1>4, Kept, Sorts, Held, Walked, Looked, NoneAssumption
     DEF IInv, Texts
<1>8. Barriers'
  BY <1>0, <1>1, <1>2, <1>3, <1>4, Kept, Sorts, Held, Walked, Looked, NoneAssumption
     DEF IInv, Barriers
<1>9. Flushed'
  BY <1>0, <1>1, <1>2, <1>3, <1>4, Kept, Sorts, Held, Walked, Looked, NoneAssumption
     DEF IInv, Flushed, Hands
<1>10. Buried'
  BY <1>0, <1>2, <1>4, Kept, Sorts DEF IInv, Buried
<1>11. Expected'
  BY <1>0, <1>1, <1>2, <1>3, <1>4, Kept, Sorts, Held, Walked, Looked, NoneAssumption
     DEF IInv, Expected
<1>12. OneHolder'
  BY <1>0, <1>1, <1>2, <1>3, <1>4, Kept, Sorts, Held, Walked, Looked, NoneAssumption
     DEF IInv, OneHolder
<1>13. NewestLast'
  BY <1>0, <1>1, <1>2, <1>3, <1>4, Kept, Sorts, Held, Walked, Looked, NoneAssumption
     DEF IInv, NewestLast, InHand
<1>14. Halfway'
  BY <1>0, <1>1, <1>2, <1>3, <1>4, Kept, Sorts, Held, Walked, Looked, NoneAssumption
     DEF IInv, Halfway
<1>15. Reads'
  BY <1>0, <1>1, <1>2, <1>3, <1>4, Kept, Sorts, Held, Walked, Looked, NoneAssumption
     DEF IInv, Reads
<1>16. Fresh'
  BY <1>0, <1>1, <1>2, <1>3, <1>4, Kept, Sorts, Held, Walked, Looked, Attended,
     NoneAssumption DEF IInv, Fresh, InHand
<1>17. Settled'
  <2>1. \A x \in Entry : ~ Chasing(x)' => /\ ~ Chasing(x)
                                          /\ x = e => ver = src[x]
    BY <1>1, <1>2, <1>3 DEF Chasing
  <2>2. \A x \in Entry : (idx[x] = src[x] /\ ~ Chasing(x)') => idx'[x] = src[x]
    <3>1. ASSUME NEW x \in Entry, idx[x] = src[x], ~ Chasing(x)'
          PROVE  idx'[x] = src[x]
      <4>1. CASE x = e
        BY <1>4, <2>1, <3>1, <4>1
      <4>2. CASE x # e
        BY <1>4, <3>1, <4>2
      <4> QED
        BY <4>1, <4>2
    <3> QED
      BY <3>1
  <2>3. ASSUME NEW x \in Entry \ lost, src[x] # 0, ~ InHand(x), \A v \in Worker : ~ Due(v, x)
        PROVE  /\ side[x] = src[x]
               /\ (mount # None /\ (hydrate = None \/ x \notin hydrate) /\ ~ Chasing(x)') =>
                    idx'[x] = src[x]
    BY <2>1, <2>2, <2>3 DEF IInv, Settled
  <2> QED
    BY <1>2, <2>3, Kept DEF Settled, InHand
<1> QED
  BY <1>0, <1>5, <1>6, <1>7, <1>8, <1>9, <1>10, <1>11, <1>12, <1>13, <1>14, <1>15,
     <1>16, <1>17
  DEF IInv

LEMMA WalkTextStep ==
  ASSUME IInv, WalkText
  PROVE  IInv'
<1>1. PICK e \in Entry : TypeOK /\ walk # None /\ walk.pc = "text" /\ e = walk.e /\ src[e] # 0
  BY Walked DEF WalkText, IInv, Reads
<1>2. /\ walk' = [walk EXCEPT !.read = EmbedJob(e, src[e]), !.pc = "send"]
      /\ queue' = queue /\ at' = at
      /\ UNCHANGED <<src, side, marker, dead, idx, mount, phase, hand, hydrate, visit,
                     walks, booted, lost, unsettled, exposed>>
  BY <1>1 DEF WalkText, disk, history
<1>3. /\ EmbedJob(e, src[e]) \in Embed /\ EmbedJob(e, src[e]).e = e
      /\ EmbedJob(e, src[e]).ver = src[e]
  BY <1>1, Sorts DEF EmbedJob, Embed
<1>4. /\ walk' \in Walk /\ walk' # None /\ walk'.e = e /\ walk'.saw = walk.saw
      /\ walk'.pc = "send" /\ walk'.w = walk.w /\ walk'.kind = walk.kind
      /\ walk'.read # None /\ walk'.read.e = e /\ walk'.read.ver # 0
  <2>1. walk \in Walk
    BY <1>1, Walked
  <2>2. walk' \in Walk
    BY <1>2, <1>3, <2>1 DEF Walk
  <2>3. walk'.read = EmbedJob(e, src[e])
    BY <1>2, <2>1 DEF Walk
  <2> QED
    BY <1>1, <1>2, <1>3, <2>1, <2>2, <2>3, NoneAssumption DEF Walk
<1>0. TypeOK /\ TypeOK'
  BY <1>1, <1>2, <1>4 DEF TypeOK
<1>5. Staffed'
  BY <1>0, <1>1, <1>2, <1>4, Kept, Sorts, Held, Walked, Looked, NoneAssumption DEF
     IInv, Staffed
<1>6. Hands'
  BY <1>0, <1>1, <1>2, <1>4, Kept, Sorts, Held, Walked, Looked, NoneAssumption DEF
     IInv, Hands
<1>7. Texts'
  BY <1>0, <1>1, <1>2, <1>4, Kept, Sorts, Held, Walked, Looked, NoneAssumption DEF
     IInv, Texts
<1>8. Barriers'
  BY <1>0, <1>1, <1>2, <1>4, Kept, Sorts, Held, Walked, Looked, NoneAssumption DEF
     IInv, Barriers
<1>9. Flushed'
  BY <1>0, <1>1, <1>2, <1>4, Kept, Sorts, Held, Walked, Looked, NoneAssumption DEF
     IInv, Flushed, Hands
<1>10. Buried'
  BY <1>0, <1>1, <1>2, <1>4, Kept, Sorts, Held, Walked, Looked, NoneAssumption DEF
     IInv, Buried
<1>11. Expected'
  BY <1>0, <1>1, <1>2, <1>4, Kept, Sorts, Held, Walked, Looked, NoneAssumption DEF
     IInv, Expected
<1>12. OneHolder'
  BY <1>0, <1>1, <1>2, <1>4, Kept, Sorts, Held, Walked, Looked, NoneAssumption DEF
     IInv, OneHolder
<1>13. NewestLast'
  BY <1>0, <1>1, <1>2, <1>4, Kept, Sorts, Held, Walked, Looked, NoneAssumption DEF
     IInv, NewestLast, InHand
<1>14. Halfway'
  BY <1>0, <1>1, <1>2, <1>4, Kept, Sorts, Held, Walked, Looked, NoneAssumption DEF
     IInv, Halfway
<1>15. Reads'
  BY <1>0, <1>1, <1>2, <1>4, Kept, Sorts, Held, Walked, Looked, NoneAssumption DEF
     IInv, Reads
<1>16. Fresh'
  BY <1>0, <1>1, <1>2, <1>4, Kept, Sorts, Held, Walked, Looked, Attended,
     NoneAssumption DEF IInv, Fresh, InHand
<1>17. Settled'
  BY <1>0, <1>1, <1>2, <1>4, Kept, Sorts, Held, Walked, Looked, NoneAssumption DEF
     IInv, Settled, Chasing, InHand
<1> QED
  BY <1>0, <1>5, <1>6, <1>7, <1>8, <1>9, <1>10, <1>11, <1>12, <1>13, <1>14, <1>15,
     <1>16, <1>17
  DEF IInv

LEMMA WalkNoTextStep ==
  ASSUME IInv, WalkNoText
  PROVE  IInv'
<1>1. PICK e \in Entry : TypeOK /\ walk # None /\ walk.pc = "text" /\ e = walk.e
  BY Walked DEF WalkNoText, IInv, Reads
<1>2. /\ Ahead(walk.todo) /\ queue' = queue /\ at' = at
      /\ lost' = lost \cup ((IF walk.saw \in {0, src[e]} THEN {} ELSE {e}) \ dead)
      /\ UNCHANGED <<src, side, marker, dead, idx, mount, phase, hand, hydrate, visit,
                     walks, booted, unsettled, exposed>>
  BY <1>1 DEF WalkNoText, Lose, disk
<1>3. /\ walk' \in Walk \cup {None}
      /\ walk' # None => /\ walk'.pc = "visit" /\ walk'.saw = 0 /\ walk'.w = walk.w
                         /\ walk'.kind = walk.kind
  BY <1>1, <1>2, Went, Walked
<1>4. /\ lost \subseteq lost' /\ lost' \subseteq Entry
      /\ walk.saw \in {0, src[e]} \/ e \in lost' \cup dead
  BY <1>1, <1>2, Sorts
<1>0. TypeOK /\ TypeOK'
  BY <1>1, <1>2, <1>3, <1>4 DEF TypeOK
<1>5. Staffed'
  BY <1>0, <1>1, <1>2, <1>3, <1>4, Kept, Sorts, Held, Walked, Looked, NoneAssumption
     DEF IInv, Staffed
<1>6. Hands'
  BY <1>0, <1>1, <1>2, <1>3, <1>4, Kept, Sorts, Held, Walked, Looked, NoneAssumption
     DEF IInv, Hands
<1>7. Texts'
  BY <1>0, <1>1, <1>2, <1>3, <1>4, Kept, Sorts, Held, Walked, Looked, NoneAssumption
     DEF IInv, Texts
<1>8. Barriers'
  BY <1>0, <1>1, <1>2, <1>3, <1>4, Kept, Sorts, Held, Walked, Looked, NoneAssumption
     DEF IInv, Barriers
<1>9. Flushed'
  BY <1>0, <1>1, <1>2, <1>3, <1>4, Kept, Sorts, Held, Walked, Looked, NoneAssumption
     DEF IInv, Flushed, Hands
<1>10. Buried'
  BY <1>0, <1>1, <1>2, <1>3, <1>4, Kept, Sorts, Held, Walked, Looked, NoneAssumption
     DEF IInv, Buried
<1>11. Expected'
  BY <1>0, <1>1, <1>2, <1>3, <1>4, Kept, Sorts, Held, Walked, Looked, NoneAssumption
     DEF IInv, Expected
<1>12. OneHolder'
  BY <1>0, <1>1, <1>2, <1>3, <1>4, Kept, Sorts, Held, Walked, Looked, NoneAssumption
     DEF IInv, OneHolder
<1>13. NewestLast'
  BY <1>0, <1>1, <1>2, <1>3, <1>4, Kept, Sorts, Held, Walked, Looked, NoneAssumption
     DEF IInv, NewestLast, InHand
<1>14. Halfway'
  BY <1>0, <1>1, <1>2, <1>3, <1>4, Kept, Sorts, Held, Walked, Looked, NoneAssumption
     DEF IInv, Halfway
<1>15. Reads'
  BY <1>0, <1>1, <1>2, <1>3, <1>4, Kept, Sorts, Held, Walked, Looked, NoneAssumption
     DEF IInv, Reads
<1>16. Fresh'
  BY <1>0, <1>1, <1>2, <1>3, <1>4, Kept, Sorts, Held, Walked, Looked, Attended,
     NoneAssumption DEF IInv, Fresh, InHand
<1>17. Settled'
  <2>1. \A x \in Entry \ lost' : src[x] # 0 => ~ Chasing(x)
    BY <1>1, <1>4 DEF Chasing, IInv, Texts
  <2> QED
    BY <1>2, <1>4, <2>1, Kept DEF IInv, Settled, InHand
<1> QED
  BY <1>0, <1>5, <1>6, <1>7, <1>8, <1>9, <1>10, <1>11, <1>12, <1>13, <1>14, <1>15,
     <1>16, <1>17
  DEF IInv

LEMMA WalkSendStep ==
  ASSUME IInv, WalkSend
  PROVE  IInv'
<1>1. PICK j \in Embed, e \in Entry :
        /\ TypeOK /\ walk # None /\ walk.pc = "send" /\ walk.read = j /\ e = j.e /\ walk.e = e
        /\ j.kind = "embed" /\ j.ver # 0 /\ (src[e] # 0 \/ e \in dead)
  BY Walked DEF WalkSend, IInv, Reads
<1>2. /\ Ahead(walk.todo) /\ at' = at
      /\ UNCHANGED <<src, side, marker, dead, idx, mount, phase, hydrate, visit, walks,
                     booted, unsettled, exposed>>
  BY <1>1 DEF WalkSend, disk
<1>3. /\ walk' \in Walk \cup {None}
      /\ walk' # None => /\ walk'.pc = "visit" /\ walk'.saw = 0 /\ walk'.w = walk.w
                         /\ walk'.kind = walk.kind
  BY <1>1, <1>2, Went, Walked
\* Either there is no mount to ask, or a worker's queue has room for the job.
<1>4. \/ queue' = queue /\ lost' = lost /\ hand' = hand /\ mount = None
      \/ \E w \in Worker :
           /\ Room(w) /\ Put(w, j) /\ phase[w] # "new"
           /\ lost' = IF j.ver = src[e] /\ phase[w] = "run" THEN lost
                      ELSE lost \cup ({e} \ dead)
           /\ hand' = IF hand # None /\ hand.e = e
                      THEN [hand EXCEPT !.flushed = FALSE] ELSE hand
  <2>1. /\ walk.kind = "backfill" => walk.w \in Worker /\ phase[walk.w] # "new"
        /\ mount \in Worker \cup {None} /\ (mount # None => phase[mount] # "new")
    BY <1>1, Walked, Sorts DEF IInv, Reads, Staffed
  <2>2. PICK w : /\ w \in Worker \cup {None}
                 /\ w = IF walk.kind = "backfill" THEN walk.w ELSE mount
    BY <2>1
  <2>3. CASE w = None
    <3>1. mount = None
      BY <2>1, <2>2, <2>3, NoneAssumption
    <3> QED
      BY <1>1, <2>2, <2>3, <3>1 DEF WalkSend
  <2>4. CASE w # None
    <3>1. /\ Room(w) /\ Put(w, j) /\ w \in Worker
          /\ Lose(IF j.ver = src[e] /\ phase[w] = "run" THEN {} ELSE {e})
          /\ hand' = IF hand # None /\ hand.e = e
                      THEN [hand EXCEPT !.flushed = FALSE] ELSE hand
      BY <1>1, <2>2, <2>4 DEF WalkSend
    <3>2. lost' = IF j.ver = src[e] /\ phase[w] = "run" THEN lost
                  ELSE lost \cup ({e} \ dead)
      BY <3>1 DEF Lose
    <3>3. phase[w] # "new"
      BY <2>1, <2>2, <2>4
    <3> QED
      BY <3>1, <3>2, <3>3
  <2> QED
    BY <2>2, <2>3, <2>4
<1>5. /\ hand' \in Handler \cup {None} /\ ((hand # None) <=> (hand' # None))
      /\ hand # None => /\ hand'.op = hand.op /\ hand'.e = hand.e /\ hand'.w = hand.w
                        /\ hand'.pc = hand.pc /\ (hand'.flushed => hand.flushed)
                        /\ (hand'.e = e /\ hand'.flushed) => queue' = queue
  <2>1. hand # None => /\ hand \in Handler /\ [hand EXCEPT !.flushed = FALSE] \in Handler
                       /\ [hand EXCEPT !.flushed = FALSE].op = hand.op
                       /\ [hand EXCEPT !.flushed = FALSE].e = hand.e
                       /\ [hand EXCEPT !.flushed = FALSE].w = hand.w
                       /\ [hand EXCEPT !.flushed = FALSE].pc = hand.pc
                       /\ ~ [hand EXCEPT !.flushed = FALSE].flushed
    BY Held DEF IInv, Handler
  <2>2. CASE queue' = queue /\ hand' = hand
    BY <2>1, <2>2
  <2>3. CASE hand' = IF hand # None /\ hand.e = e
                     THEN [hand EXCEPT !.flushed = FALSE] ELSE hand
    BY <2>1, <2>3, NoneAssumption
  <2> QED
    BY <1>4, <2>2, <2>3
<1>6. PICK w :
      /\ \A v \in Worker, x \in Entry : Busy(v, x)' <=> Busy(v, x)
      /\ \A v \in Worker, x \in Entry : Queued(v, x) => Queued(v, x)'
      /\ \A v \in Worker, x \in Entry : Due(v, x) => Due(v, x)'
      /\ \A v \in Worker, x \in Entry, i \in Nat :
           Job(v, x, i)' => Job(v, x, i) \/ (v = w /\ x = e /\ queue' # queue)
      /\ \A v \in Worker, x \in Entry :
           Due(v, x)' => Due(v, x) \/ (v = w /\ x = e /\ queue' # queue)
      /\ \A v \in Worker, x \in Entry, i \in Nat : Last(v, x, i)' =>
              \/ Last(v, x, i) /\ queue'[v][i] = queue[v][i]
              \/ v = w /\ x = e /\ queue'[v][i].ver = j.ver /\ Queued(w, e)'
      /\ \A v \in Worker : \A i \in 1..Len(queue'[v]) :
              \/ i \in 1..Len(queue[v]) /\ queue'[v][i] = queue[v][i]
              \/ v = w /\ queue'[v][i] = j
      /\ queue' \in [Worker -> Seq(Embed \cup Barrier)]
      /\ \A v \in Worker : Len(queue'[v]) <= Capacity
      /\ \A v \in Worker : phase[v] \in {"new", "gone"} => queue'[v] = queue[v]
      /\ lost \subseteq lost' /\ lost' \subseteq lost \cup {e}
      /\ (queue' # queue /\ e \notin lost' \cup dead) =>
           j.ver = src[e] /\ w \in Worker /\ w = mount /\ mount # None /\ Queued(w, e)'
      /\ queue' = queue => e \in lost' \cup dead \/ mount = None
  <2>1. CASE queue' = queue /\ lost' = lost /\ mount = None
    <3>1. \A v \in Worker, x \in Entry : Queued(v, x)' <=> Queued(v, x)
      BY <1>2, <2>1, Kept
    <3>2. PICK w : w = None
      OBVIOUS
    <3> QED
      BY <1>2, <2>1, <3>1, <3>2, Kept, Sorts, ZenonT(30) DEF IInv, TypeOK
  <2>2. CASE \E w \in Worker :
           /\ Room(w) /\ Put(w, j) /\ phase[w] # "new"
           /\ lost' = IF j.ver = src[e] /\ phase[w] = "run" THEN lost
                      ELSE lost \cup ({e} \ dead)
    <3>1. PICK w \in Worker :
           /\ Room(w) /\ Put(w, j) /\ phase[w] # "new"
           /\ lost' = IF j.ver = src[e] /\ phase[w] = "run" THEN lost
                      ELSE lost \cup ({e} \ dead)
      BY <2>2
    <3>2. /\ \A v \in Worker, x \in Entry : Busy(v, x)' <=> Busy(v, x)
          /\ \A v \in Worker, x \in Entry : Queued(v, x) => Queued(v, x)'
          /\ \A v \in Worker, x \in Entry : Due(v, x) => Due(v, x)'
          /\ \A v \in Worker, x \in Entry, i \in Nat :
               Job(v, x, i)' => Job(v, x, i) \/ (phase[w] # "gone" /\ v = w /\ x = e)
          /\ \A v \in Worker, x \in Entry :
               Due(v, x)' => Due(v, x) \/ (phase[w] # "gone" /\ v = w /\ x = e)
          /\ phase[w] # "gone" => Queued(w, e)'
      BY <1>1, <1>2, <3>1, Sent DEF IInv
    <3>3. /\ \A v \in Worker, x \in Entry, i \in Nat : Last(v, x, i)' =>
                \/ Last(v, x, i) /\ queue'[v][i] = queue[v][i]
                \/ phase[w] # "gone" /\ v = w /\ x = e
          /\ \A i \in Nat : (phase[w] # "gone" /\ Last(w, e, i)') => queue'[w][i] = j
          /\ \A v \in Worker : \A i \in 1..Len(queue'[v]) :
                \/ i \in 1..Len(queue[v]) /\ queue'[v][i] = queue[v][i]
                \/ phase[w] # "gone" /\ v = w /\ queue'[v][i] = j
      BY <1>1, <1>2, <3>1, Sent DEF IInv
    <3>4. /\ queue' \in [Worker -> Seq(Embed \cup Barrier)]
          /\ \A v \in Worker : Len(queue'[v]) <= Capacity
          /\ phase[w] = "gone" => queue' = queue
          /\ \A v \in Worker \ {w} : queue'[v] = queue[v]
      BY <1>1, <1>2, <3>1, Sent DEF IInv
    <3>5. \A v \in Worker : phase[v] \in {"new", "gone"} => queue'[v] = queue[v]
      BY <3>1, <3>4
    <3>6. e \notin lost' \cup dead => j.ver = src[e] /\ phase[w] = "run"
      BY <3>1
    <3>7. phase[w] = "run" => w = mount /\ mount # None /\ Queued(w, e)'
      BY <3>2, NoneAssumption DEF IInv, Staffed
    <3>8. CASE phase[w] = "gone"
      <4>1. queue' = queue /\ e \in lost' \cup dead
        BY <3>4, <3>6, <3>8
      <4> QED
        BY <3>1, <3>2, <3>3, <3>4, <3>5, <3>8, <4>1
    <3>9. CASE phase[w] # "gone"
      <4>1. queue' # queue
        BY <1>1, <3>1, <3>9, PutIn, Queues DEF IInv, Item
      <4> QED
        BY <3>1, <3>2, <3>3, <3>4, <3>5, <3>6, <3>7, <3>9, <4>1
    <3> QED
      BY <3>8, <3>9
  <2> QED
    BY <1>4, <2>1, <2>2
<1>0. TypeOK /\ TypeOK'
  <2>1. lost' \subseteq Entry
    BY <1>2, <1>6, Sorts DEF IInv
  <2> QED
    BY <1>2, <1>3, <1>5, <1>6, <2>1 DEF IInv, TypeOK
<1>7. Staffed'
  BY <1>1, <1>2, <1>3, <1>5, <1>6 DEF IInv, Staffed
<1>8. Hands'
  BY <1>2, <1>5 DEF IInv, Hands
<1>9. Texts'
  <2>1. \A v \in Worker : \A i \in 1..Len(queue'[v]) :
          queue'[v][i].kind = "embed" => queue'[v][i].ver # 0
    <3>1. \A v \in Worker : \A i \in 1..Len(queue[v]) :
            queue[v][i].kind = "embed" => queue[v][i].ver # 0
      BY DEF IInv, Texts
    <3>2. \A v \in Worker : \A i \in 1..Len(queue'[v]) :
            \/ i \in 1..Len(queue[v]) /\ queue'[v][i] = queue[v][i]
            \/ queue'[v][i] = j
      BY <1>6
    <3>3. j.ver # 0
      BY <1>1
    <3> QED
      BY <3>1, <3>2, <3>3
  <2> QED
    BY <1>1, <1>2, <1>3, <1>6, <2>1 DEF IInv, Texts
<1>10. Barriers'
  <2>1. ASSUME NEW x \in Entry \ dead, NEW v \in Worker, NEW i \in 1..Len(queue'[v]),
               queue'[v][i].kind = "flush", queue'[v][i].tag = x
        PROVE  i \in 1..Len(queue[v]) /\ queue'[v][i] = queue[v][i]
    BY <1>1, <1>6, <2>1
  <2>2. \A x \in Entry, v \in Worker, i \in Nat :
          (hand' # None /\ hand'.e = x /\ hand'.flushed) => (Job(v, x, i)' => Job(v, x, i))
    BY <1>5, <1>6
  <2> QED
    BY <1>2, <1>5, <2>1, <2>2 DEF IInv, Barriers
<1>11. Flushed'
  <2>1. SUFFICES ASSUME hand' # None, hand'.pc = "remove", hand'.flushed,
                        NEW u, NEW x, u = hand'.w, x = hand'.e
                 PROVE  ~ Due(u, x)'
    BY DEF Flushed
  <2>2. /\ hand # None /\ u = hand.w /\ x = hand.e /\ hand.flushed /\ hand.pc = "remove"
        /\ u \in Worker /\ x \in Entry
    BY <1>0, <1>5, <2>1, Held DEF IInv, Hands
  <2>3. ~ Due(u, x)
    BY <2>2 DEF IInv, Flushed
  <2> QED
    BY <1>5, <1>6, <2>1, <2>2, <2>3
<1>12. Buried'
  BY <1>0, <1>2, <1>6, Sorts DEF IInv, Buried
<1>13. Expected'
  BY <1>0, <1>2, <1>6, Sorts DEF IInv, Expected
<1>14. OneHolder'
  <2>1. ASSUME NEW x \in Entry \ (lost' \cup dead), NEW u \in Worker, NEW v \in Worker,
               Due(u, x)'
        PROVE  (Due(v, x)' => u = v) /\ (mount # None => u = mount)
    BY <1>6, <2>1 DEF IInv, OneHolder
  <2> QED
    BY <1>2, <2>1 DEF OneHolder
<1>15. NewestLast'
  <2>1. \A x \in Entry : InHand(x)' <=> InHand(x)
    BY <1>5 DEF InHand
  <2>2. ASSUME NEW x \in Entry \ lost', src[x] # 0, ~ InHand(x), NEW v \in Worker
        PROVE  /\ \A i \in Nat : Last(v, x, i)' => queue'[v][i].ver = src[x]
               /\ (Busy(v, x)' /\ ~ Queued(v, x)') => at[v].ver = src[x]
    <3>1. x \in Entry \ lost /\ x \notin dead
      BY <1>6, <2>2 DEF IInv, Texts
    <3>2. CASE queue' = queue
      BY <1>6, <2>2, <3>1, <3>2, Kept, <1>2 DEF IInv, NewestLast
    <3>3. CASE queue' # queue
      BY <1>6, <2>2, <3>1, <3>3 DEF IInv, NewestLast
    <3> QED
      BY <3>2, <3>3
  <2> QED
    BY <1>2, <2>1, <2>2 DEF NewestLast
<1>16. Halfway'
  BY <1>2, <1>6 DEF IInv, Halfway
<1>17. Reads'
  BY <1>1, <1>2, <1>3, NoneAssumption DEF IInv, Reads
<1>18. Fresh'
  <2>1. \A x \in Entry : InHand(x)' <=> InHand(x)
    BY <1>5 DEF InHand
  <2>2. ASSUME hydrate # None, NEW m \in Worker, m = mount, NEW x \in Entry \ (lost' \cup dead),
               src[x] # 0, ~ InHand(x), NEW i \in Nat, Job(m, x, i)'
        PROVE  queue'[m][i].ver = src[x]
    <3>1. CASE i \in 1..Len(queue[m]) /\ queue'[m][i] = queue[m][i]
      <4>1. Job(m, x, i)
        BY <2>2, <3>1 DEF Job
      <4> QED
        BY <1>6, <2>2, <3>1, <4>1 DEF IInv, Fresh
    <3>2. CASE m = w /\ queue'[m][i] = j /\ queue' # queue
      BY <1>1, <1>6, <2>2, <3>2 DEF Job
    <3> QED
      BY <1>6, <2>2, <3>1, <3>2 DEF Job
  <2>3. hydrate # None => mount \in Worker
    BY <1>0, Sorts DEF IInv, Staffed
  <2> QED
    BY <1>2, <1>6, <2>1, <2>2, <2>3 DEF IInv, Fresh
<1>19. Settled'
  <2>1. \A x \in Entry : (InHand(x)' <=> InHand(x)) /\ (x # e => ~ Chasing(x))
    BY <1>1, <1>5 DEF InHand, Chasing
  <2>2. ASSUME e \notin lost', src[e] # 0, \A v \in Worker : ~ Due(v, e)'
        PROVE  mount = None
    BY <1>6, <2>2 DEF IInv, Texts, Due
  <2> QED
    BY <1>2, <1>6, <2>1, <2>2 DEF IInv, Settled
<1> QED
  BY <1>0, <1>7, <1>8, <1>9, <1>10, <1>11, <1>12, <1>13, <1>14, <1>15, <1>16, <1>17,
     <1>18, <1>19
  DEF IInv

LEMMA CrashStep ==
  ASSUME IInv, Crash
  PROVE  IInv'
<1>1. /\ phase' = [v \in Worker |-> IF phase[v] = "new" THEN "new" ELSE "gone"]
      /\ queue' = [v \in Worker |-> <<>>] /\ at' = [v \in Worker |-> None]
      /\ idx' = [e \in Entry |-> 0]
      /\ mount' = None /\ hand' = None /\ hydrate' = None /\ visit' = None
      /\ walk' = None
      /\ booted' = TRUE
      /\ UNCHANGED <<src, side, marker, dead, walks, unsettled, exposed>>
  BY DEF Crash, disk
<1>d. PICK D : /\ lost' = lost \cup (D \ dead)
               /\ \A x \in D : (\E v \in Worker : x \in Pending(v)) \/ (hand # None /\ x = hand.e)
               /\ \A v \in Worker : Running(v) => Pending(v) \subseteq D
               /\ (hand # None /\ hand.op = "update") => hand.e \in D
  <2> DEFINE P == UNION {Pending(v) : v \in {u \in Worker : Running(u)}}
             H == IF hand # None /\ hand.op = "update" THEN {hand.e} ELSE {}
  <2>1. lost' = lost \cup ((P \cup H) \ dead)
    BY DEF Crash, Lose
  <2>2. \A x \in P \cup H :
          (\E v \in Worker : x \in Pending(v)) \/ (hand # None /\ x = hand.e)
    OBVIOUS
  <2>3. /\ \A v \in Worker : Running(v) => Pending(v) \subseteq P \cup H
        /\ (hand # None /\ hand.op = "update") => hand.e \in P \cup H
    OBVIOUS
  <2> HIDE DEF P, H
  <2> QED
    BY <2>1, <2>2, <2>3
<1>2. lost \subseteq lost' /\ lost' \subseteq Entry
  <2>1. \A v \in Worker : Pending(v) \subseteq Entry
    <3>1. ASSUME NEW v \in Worker, NEW i \in 1..Len(queue[v]), queue[v][i].kind = "embed"
          PROVE  queue[v][i].e \in Entry
      BY <3>1, Queues, Items DEF IInv
    <3> QED
      BY <3>1, Hold DEF IInv, Pending
  <2>2. D \subseteq Entry
    BY <1>d, <2>1, Held DEF IInv
  <2> QED
    BY <1>d, <2>2, Sorts DEF IInv
<1>0. TypeOK /\ TypeOK'
  <2>1. queue' \in [Worker -> Seq(Embed \cup Barrier)] /\ \A v \in Worker : Len(queue'[v]) <= Capacity
    BY <1>1, CapacityAssumption
  <2>2. idx' \in [Entry -> Version]
    BY <1>1, BoundsAssumption DEF Version
  <2> QED
    BY <1>1, <1>2, <2>1, <2>2 DEF IInv, TypeOK
<1>3. /\ \A v \in Worker : at'[v] = None /\ queue'[v] = <<>> /\ phase'[v] \in {"new", "gone"}
      /\ \A v \in Worker, e \in Entry, i \in Nat : ~ Job(v, e, i)'
  BY <1>1 DEF Job
<1>4. \A v \in Worker, e \in Entry : ~ Due(v, e)' /\ ~ Busy(v, e)' /\ ~ Queued(v, e)'
  BY <1>3 DEF Due, Busy, Queued
<1>5. \A x \in Entry \ (lost' \cup dead) : ~ InHand(x) /\ \A v \in Worker : ~ Due(v, x)
  <2>1. ASSUME NEW x \in Entry \ (lost' \cup dead)
        PROVE  ~ InHand(x)
    BY <1>d, <2>1 DEF InHand
  <2>2. ASSUME NEW x \in Entry \ (lost' \cup dead), NEW v \in Worker
        PROVE  ~ Due(v, x)
    <3>1. CASE Running(v)
      BY <1>0, <1>d, <2>2, <3>1, Pendings
    <3>2. CASE ~ Running(v)
      <4>1. queue[v] = <<>> /\ at[v] = None
        BY <1>0, <3>2, Sorts DEF IInv, Staffed, Running
      <4> QED
        BY <4>1 DEF Due, Queued, Job, Busy
    <3> QED
      BY <3>1, <3>2
  <2> QED
    BY <2>1, <2>2
<1>6. Staffed' /\ Hands'
  BY <1>1, <1>3, NoneAssumption DEF Staffed, Hands
<1>7. Texts' /\ Barriers' /\ Flushed'
  BY <1>1, <1>3, <1>4 DEF IInv, Texts, Barriers, Flushed
<1>8. Buried'
  BY <1>0, <1>1, <1>4, Sorts DEF IInv, Buried
<1>9. Expected' /\ OneHolder' /\ Halfway'
  BY <1>1, <1>4 DEF Expected, OneHolder, Halfway
<1>10. NewestLast'
  BY <1>3, <1>4 DEF NewestLast, Last
<1>11. Reads' /\ Fresh'
  BY <1>1 DEF Reads, Fresh
<1>12. Settled'
  BY <1>1, <1>2, <1>5 DEF IInv, Settled, Texts
<1> QED
  BY <1>0, <1>6, <1>7, <1>8, <1>9, <1>10, <1>11, <1>12 DEF IInv

-----------------------------------------------------------------------------
LEMMA Start0 ==
  ASSUME Init
  PROVE  IInv
<1>1. TypeOK
  <2>1. \A w \in Worker : queue[w] \in Seq(Embed \cup Barrier) /\ Len(queue[w]) <= Capacity
    BY CapacityAssumption DEF Init
  <2> QED
    BY <2>1, BoundsAssumption DEF Init, TypeOK, Version
<1>2. /\ \A w \in Worker : queue[w] = <<>> /\ at[w] = None /\ phase[w] = "new"
      /\ mount = None /\ hand = None /\ walk = None /\ hydrate = None /\ visit = None
      /\ dead = {} /\ \A e \in Entry : src[e] = 0
  BY DEF Init
<1>3. \A w \in Worker, e \in Entry : ~ Due(w, e) /\ ~ Busy(w, e) /\ ~ Queued(w, e)
  BY <1>2 DEF Due, Busy, Queued, Job
<1>4. Staffed /\ Hands /\ Texts /\ Barriers /\ Flushed
  BY <1>2, <1>3, NoneAssumption DEF Staffed, Hands, Texts, Barriers, Flushed
<1>5. Buried /\ Expected /\ OneHolder /\ NewestLast /\ Halfway /\ Settled
  BY <1>2, <1>3 DEF Buried, Expected, OneHolder, NewestLast, Halfway, Settled
<1>6. Reads /\ Fresh
  BY <1>2 DEF Reads, Fresh
<1> QED
  BY <1>1, <1>4, <1>5, <1>6 DEF IInv

LEMMA Stutter ==
  ASSUME IInv, UNCHANGED vars
  PROVE  IInv'
<1>1. /\ queue' = queue /\ at' = at
      /\ UNCHANGED <<src, side, marker, dead, idx, mount, phase, hand, hydrate, visit, walk, walks,
                     booted, lost, unsettled, exposed>>
  BY DEF vars, disk, history
<1>2. /\ \A v \in Worker, e \in Entry, i \in Nat : Job(v, e, i)' <=> Job(v, e, i)
      /\ \A v \in Worker, e \in Entry, i \in Nat : Last(v, e, i)' <=> Last(v, e, i)
      /\ \A v \in Worker, e \in Entry : Queued(v, e)' <=> Queued(v, e)
      /\ \A v \in Worker, e \in Entry : Busy(v, e)' <=> Busy(v, e)
      /\ \A v \in Worker, e \in Entry : Due(v, e)' <=> Due(v, e)
  BY <1>1, Kept
<1>0. TypeOK /\ TypeOK'
  BY <1>1 DEF IInv, TypeOK
<1>3. Staffed' /\ Hands' /\ Texts'
  BY <1>1, <1>2 DEF IInv, Staffed, Hands, Texts
<1>4. Barriers' /\ Flushed'
  BY <1>0, <1>1, <1>2, Held DEF IInv, Barriers, Flushed, Hands
<1>5. Buried' /\ OneHolder'
  BY <1>0, <1>1, <1>2, Sorts DEF IInv, Buried, OneHolder
<1>6. Expected'
  BY <1>0, <1>1, <1>2, Sorts DEF IInv, Expected
<1>7. NewestLast' /\ Halfway'
  BY <1>1, <1>2 DEF IInv, NewestLast, Halfway, InHand
<1>8. Reads' /\ Fresh'
  BY <1>1, <1>2, Attended DEF IInv, Reads, Fresh, InHand
<1>9. Settled'
  BY <1>1, <1>2 DEF IInv, Settled, Chasing, InHand
<1> QED
  BY <1>0, <1>3, <1>4, <1>5, <1>6, <1>7, <1>8, <1>9 DEF IInv

\* The strengthening is inductive: every action of Next keeps it.
THEOREM JobsAccounted == Spec => []IInv
<1>1. Init => IInv
  BY Start0
<1>2. IInv /\ [Next]_vars => IInv'
  <2>1. SUFFICES ASSUME IInv, [Next]_vars
                 PROVE  IInv'
    OBVIOUS
  <2>2. CASE Handle
    BY <2>1, <2>2, CommitTextStep, BeginDeleteStep, FindWorkerStep, EnqueueStep,
       FlushSendStep, FlushCancelledStep, RemoveTicketStep DEF Handle
  <2>3. CASE \E w \in Worker : WorkerStep(w)
    BY <2>1, <2>3, TakeStep, EmbedOkStep, EmbedFailStep, SidecarFailStep, UpsertStep,
       ExitStep DEF WorkerStep
  <2>4. CASE Mounts
    BY <2>1, <2>4, EvictStep, MountStep, HydrateReadStep, HydrateLoadStep,
       HydrateTextStep, HydrateSendStep, HydrateSkipStep DEF Mounts
  <2>5. CASE Walks
    BY <2>1, <2>5, StartBackfillStep, StartReembedStep, WalkFlushStep,
       WalkCancelledStep, WalkPassStep, WalkReadStep, WalkLoadStep, WalkTextStep,
       WalkNoTextStep, WalkSendStep DEF Walks
  <2>6. CASE Crash
    BY <2>1, <2>6, CrashStep
  <2>7. CASE UNCHANGED vars
    BY <2>1, <2>7, Stutter
  <2> QED
    BY <2>4, <2>5, <2>6, <2>7, <2>1, <2>2, <2>3 DEF Next
<1> QED
  BY <1>1, <1>2, PTL DEF Spec

\* What rests has no job left anywhere.
LEMMA AtRest ==
  ASSUME IInv, Rest
  PROVE  /\ mount # None /\ hydrate = None /\ hand = None /\ walk = None
         /\ \A w \in Worker, e \in Entry : ~ Due(w, e) /\ ~ Queued(w, e) /\ ~ Busy(w, e)
<1>1. \A w \in Worker : queue[w] = <<>> /\ at[w] = None
  BY Sorts DEF IInv, Staffed, Rest, Running
<1> QED
  BY <1>1 DEF Rest, Due, Queued, Busy, Job

(* Once the queue is drained, sidecar and index hold the text on disk,     *)
(* unless a job for it was dropped, failed or overtaken.                   *)
THEOREM LastTextWins == Spec => []LatestWins
<1>1. IInv => LatestWins
  BY AtRest DEF LatestWins, Settled, Chasing, IInv, InHand
<1> QED
  BY <1>1, JobsAccounted, PTL

(* After a mount every text there was has a sidecar, or a marker that says *)
(* why not, unless since then an I/O error lost the job or the marker and  *)
(* was only logged (unsettled).                                            *)
THEOREM EveryTextAnswered == Spec => []NothingMissing
<1>1. ASSUME IInv, Rest
      PROVE  \A e \in Entry \ unsettled : src[e] # 0 => side[e] # 0 \/ e \in marker
  BY <1>1, AtRest, Sorts DEF Expected, IInv
<1>2. IInv => NothingMissing
  BY <1>1 DEF NothingMissing
<1> QED
  BY <1>2, JobsAccounted, PTL

(* A ticket removed behind a flush stays removed: no job writes a sidecar, *)
(* a marker or a vector for it later on.  What can bring one back is a job *)
(* in hand that was not flushed, or a hydrate or a re-embed that read its  *)
(* sidecar before the removal (exposed).                                   *)
THEOREM StaysRemoved == Spec => []NoResurrection
<1>1. IInv => NoResurrection
  BY DEF NoResurrection, Buried, IInv
<1> QED
  BY <1>1, JobsAccounted, PTL
=============================================================================
