---------------------------- MODULE TicketsProofs ----------------------------
(***************************************************************************)
(* Proofs about Tickets, for any tickets and phases and either setting of  *)
(* Enforce, while one LoadedProject handles the requests: Slot = {v}.  With*)
(* two, the board can be corrupted (MCTicketsReopen).                      *)
(*                                                                         *)
(* The inductive invariant has two halves.  The first holds however        *)
(* handlers fail: every record of a ticket, written or still to be written *)
(* by the running handler, carries its own number, is parked while it is   *)
(* an idea, and depends on work only (Vetted, Agreed); all files of a      *)
(* ticket are where the next step looks for them (Placed).  The second     *)
(* says, while no handler has been cut short, that the data dir is sound   *)
(* up to the steps the running handler has left (Resting, Heading).        *)
(***************************************************************************)
EXTENDS Tickets, FiniteSetTheorems, WellFoundedInduction, TLAPS

\* The steps the handler of v has left, and those of one sort for one ticket.
Todo(v) == IF job[v] = None THEN {}
           ELSE {job[v].todo[i] : i \in DOMAIN job[v].todo}
Left(v, act, t) == {s \in Todo(v) : s.act = act /\ s.t = t}

\* Every record of t that is on disk or about to be.
Records(v, t) ==
  {disk[l][t].yaml : l \in HasYaml(t)} \cup {s.rec : s \in Left(v, "yaml", t)}

\* The records of t in memory: lp.Tickets, and what it is about to become.
Copies(v, t) ==
  ((IF cache[v] = None THEN {} ELSE {cache[v][t]})
     \cup (IF job[v] = None THEN {} ELSE {job[v].cached[t]})) \ {None}

\* d is a work ticket wherever it is recorded.
IsWork(v, d) == d \in born /\ \A r \in Records(v, d) : r.kind = "work"

\* d is a work ticket once the handler of v is through.
EndsWork(v, d) ==
  IF Left(v, "yaml", d) = {} THEN IsWork(v, d)
  ELSE \A s \in Left(v, "yaml", d) : s.rec.kind = "work"

Vetted(v) ==
  /\ \A t \in Ticket : \A r \in Records(v, t) :
       /\ t \in born
       /\ r.num <= started
       /\ r.kind = "idea" => r.col = "todo"
       /\ \A d \in r.deps : IsWork(v, d)
  /\ \A t, u \in Ticket : \A r \in Records(v, t), q \in Records(v, u) :
       r.num = q.num => t = u

Agreed(v) ==
  /\ \A t \in Ticket : \A r \in Copies(v, t) :
       /\ t \in born
       /\ \A d \in r.deps : IsWork(v, d)
  /\ cache[v] # None =>
       \A t \in Ticket : cache[v][t] # None /\ cache[v][t].kind = "work" => IsWork(v, t)
  /\ job[v] # None =>
       \A t \in Ticket : job[v].cached[t] # None /\ job[v].cached[t].kind = "work"
         => EndsWork(v, t)

\* All files of t are at l.
Lies(t, l) == \A m \in Loc \ {l} : disk[m][t] = Gone

Placed(v) ==
  /\ \A t \in Ticket : \E l \in Loc : Lies(t, l)
  /\ \A t \in Ticket \ born, l \in Loc : disk[l][t] = Gone
  /\ \A s, x \in Todo(v) :
       s.t = x.t /\ s.act # "rename" /\ x.act # "rename" => s.loc = x.loc
  /\ \A s \in Todo(v) :
       /\ s.t \in born
       /\ Left(v, "rename", s.t) = {} => Lies(s.t, s.loc)
       /\ \A r \in Left(v, "rename", s.t) :
            Lies(s.t, r.loc) /\ (s.act # "rename" => s.loc = r.to)

\* No step is declared twice, and a directory moves before anything else.
InOrder(v) ==
  job[v] # None =>
    \A i, j \in DOMAIN job[v].todo :
      /\ job[v].todo[i].act = job[v].todo[j].act /\ job[v].todo[i].t = job[v].todo[j].t
           => i = j
      /\ job[v].todo[i].act = "rename" => i = 1

Holding(v) ==
  /\ job[v] # None /\ job[v].touched => lock = v
  /\ lock = v => job[v] # None

-----------------------------------------------------------------------------
(* A data dir as one directory per ticket: F[t] is what that of t holds.   *)

Board == [Ticket -> Files]
Present(F) == {t \in Ticket : F[t].yaml # None}
YamlOf(F) == [t \in Ticket |-> F[t].yaml]

Announced(f) ==
  /\ f.yaml.col = IF f.trail.col = None THEN "todo" ELSE f.trail.col
  /\ f.yaml.archived = IF f.trail.archived = None THEN FALSE ELSE f.trail.archived
  /\ f.trail.phase \in {None, f.yaml.phase}
  /\ f.trail.kind \in {None, f.yaml.kind}

Whole(f) ==
  /\ f.yaml = None => f = Gone
  /\ f.yaml # None =>
       f.body /\ (f.yaml.col = "done" => f.completion) /\ Announced(f)

Resolved(F) == \A t \in Present(F) : F[t].yaml.deps \subseteq Present(F)
NoCycle(F) ==
  \A S \in SUBSET Present(F) :
    (\A t \in S : F[t].yaml.deps \cap S # {}) => S = {}
Sound(F) == (\A t \in Ticket : Whole(F[t])) /\ Resolved(F) /\ NoCycle(F)

\* Files f become g by the steps left for t.
Becomes(v, t, f, g) ==
  /\ IF Left(v, "yaml", t) = {} THEN g.yaml = f.yaml
     ELSE \A s \in Left(v, "yaml", t) : g.yaml = s.rec
  /\ g.body = (f.body \/ Left(v, "body", t) # {})
  /\ g.completion = (f.completion \/ Left(v, "completion", t) # {})
  /\ IF Left(v, "note", t) = {} THEN g.trail = f.trail
     ELSE \A s \in Left(v, "note", t) : g.trail = Heard(f.trail, s.says)

\* The steps left for t make its directory the one F says.
Arrives(v, F, t) ==
  IF F[t].yaml = None
  THEN /\ \A s \in Todo(v) : s.t = t => s.act = "remove"
       /\ \A l \in Loc : disk[l][t] = Gone \/ Left(v, "remove", t) # {}
  ELSE /\ Left(v, "remove", t) = {}
       /\ F[t].yaml.phase \in Loc
       /\ \A s \in Todo(v) : s.t = t /\ s.act # "rename" => s.loc = F[t].yaml.phase
       /\ \E l \in Loc :
            /\ Lies(t, l)
            /\ Left(v, "rename", t) = {} => l = F[t].yaml.phase
            /\ \A s \in Left(v, "rename", t) : s.loc = l /\ s.to = F[t].yaml.phase
            /\ Becomes(v, t, disk[l][t], F[t])

\* The data dir holds F.
Holds(F) ==
  \A t \in Ticket, l \in Loc :
    disk[l][t] = IF F[t].yaml # None /\ F[t].yaml.phase = l THEN F[t] ELSE Gone

\* A done ticket stays done, and one enters in_progress with its dependencies
\* done.
Permitted(F) ==
  \A t \in Ticket, l \in Loc : disk[l][t].yaml # None =>
    /\ disk[l][t].yaml.col = "done" => F[t].yaml # None /\ F[t].yaml.col = "done"
    /\ (/\ Enforce /\ disk[l][t].yaml.col # "in_progress"
        /\ F[t].yaml # None /\ F[t].yaml.col = "in_progress")
         => \A d \in disk[l][t].yaml.deps :
              \E m \in Loc : disk[m][d].yaml # None /\ disk[m][d].yaml.col = "done"

Resting(v, F) == Sound(F) /\ Holds(F) /\ (cache[v] # None => cache[v] = YamlOf(F))
Heading(v, F) ==
  /\ Sound(F) /\ Permitted(F)
  /\ \A t \in Ticket : Arrives(v, F, t)
  /\ job[v].cached = YamlOf(F)

IInv(v) ==
  /\ TypeOK /\ IsFiniteSet(born)
  /\ Vetted(v) /\ Agreed(v) /\ Placed(v) /\ InOrder(v) /\ Holding(v)
  /\ ~cut /\ (job[v] # None => ~job[v].touched) => \E F \in Board : Resting(v, F)
  /\ ~cut /\ job[v] # None => \E F \in Board : Heading(v, F)

-----------------------------------------------------------------------------
\* A nonempty set of bounded naturals has a greatest element.
LEMMA Greatest ==
  ASSUME NEW n \in Nat, NEW S \in SUBSET (0..n), S # {}
  PROVE  /\ Max(S) \in S
         /\ \A y \in S : y <= Max(S)
<1> DEFINE R == {p \in Nat \X Nat : p[1] < p[2]}
           T == {k \in Nat : n - k \in S}
<1>1. OpToRel(<, Nat) = R
  BY DEF OpToRel
<1>2. IsWellFoundedOn(R, Nat)
  BY <1>1, NatLessThanWellFounded, Zenon
<1>3. \A s \in S : s \in 0..n /\ n - s \in T
  OBVIOUS
<1>4. PICK x \in T : \A y \in T : ~ (<<y, x>> \in R)
  <2> HIDE DEF R
  <2>1. T \subseteq Nat /\ T # {}
    BY <1>3
  <2> QED
    BY <1>2, <2>1, WFMin
<1>5. \A y \in S : n - x >= y
  <2>1. SUFFICES ASSUME NEW y \in S PROVE n - x >= y
    OBVIOUS
  <2>2. y \in Nat /\ x \in Nat /\ n - y \in T /\ n - y \in Nat
    BY <1>3
  <2>3. ~ (<<n - y, x>> \in R)
    BY <1>4, <2>2
  <2>4. ~ (n - y < x)
    BY <2>2, <2>3
  <2> QED
    BY <2>2, <2>4
<1> QED
  BY <1>3, <1>4, <1>5 DEF Max

\* What TypeOK says of one directory.
LEMMA Typed ==
  ASSUME TypeOK
  PROVE  /\ \A l \in Loc, t \in Ticket :
              /\ disk[l][t] \in Files
              /\ disk[l][t].yaml # None => disk[l][t].yaml \in Rec
         /\ Loc \subseteq Nat
         /\ Gone \in Files /\ Gone.yaml = None
BY PhaseAssumption DEF TypeOK, Files, Loc, Gone, NoTrail, Trail

\* The directory findTicketDir picks is one that has the record.
LEMMA Found ==
  ASSUME TypeOK, NEW t \in OnDisk
  PROVE  /\ t \in Ticket /\ DirOf(t) \in Loc
         /\ disk[DirOf(t)][t].yaml # None
         /\ RecordOf(t) \in Rec /\ RecordOf(t) = disk[DirOf(t)][t].yaml
<1>1. t \in Ticket /\ HasYaml(t) # {} /\ HasYaml(t) \subseteq 0..NPhase
  BY DEF OnDisk, HasYaml, Loc
<1>2. DirOf(t) \in HasYaml(t)
  BY <1>1, PhaseAssumption, Greatest DEF DirOf
<1> QED
  BY <1>1, <1>2, Typed DEF HasYaml, RecordOf

\* nextTicketNumber is above every number on disk, and by at most one above
\* the handlers begun so far.
LEMMA NextNumberFits ==
  ASSUME TypeOK, NEW v \in Slot, Vetted(v)
  PROVE  /\ NextNumber \in 1..(started + 1)
         /\ \A t \in Ticket : \A l \in HasYaml(t) : disk[l][t].yaml.num < NextNumber
<1> DEFINE S == {0} \cup UNION {{disk[l][t].yaml.num : l \in HasYaml(t)} : t \in Ticket}
<1>1. started \in Nat
  BY MaxOpsAssumption DEF TypeOK
<1>2. ASSUME NEW t \in Ticket, NEW l \in HasYaml(t)
      PROVE  disk[l][t].yaml.num \in 0..started /\ disk[l][t].yaml.num \in S
  <2>1. l \in Loc /\ disk[l][t].yaml \in Rec /\ disk[l][t].yaml \in Records(v, t)
    BY Typed DEF HasYaml, Records
  <2> QED
    BY <1>1, <2>1 DEF Vetted, Rec
<1>3. S \in SUBSET (0..started) /\ S # {}
  BY <1>1, <1>2
<1>4. Max(S) \in S /\ \A y \in S : y <= Max(S)
  <2> HIDE DEF S
  <2> QED BY <1>1, <1>3, Greatest
<1>5. NextNumber = 1 + Max(S)
  BY DEF NextNumber
<1>6. Max(S) \in 0..started
  BY <1>3, <1>4
<1> HIDE DEF S
<1> QED
  BY <1>1, <1>2, <1>4, <1>5, <1>6

\* Steps and records have their types.
LEMMA Members ==
  ASSUME TypeOK, NEW v \in Slot
  PROVE  /\ Todo(v) \subseteq Step
         /\ \A t \in Ticket : Records(v, t) \subseteq Rec /\ Copies(v, t) \subseteq Rec
         /\ \A s \in Todo(v) : s.act = "yaml" => s.rec \in Rec
         /\ \A s \in Todo(v) : s.t \in Ticket /\ s.loc \in Loc
         /\ \A s \in Todo(v) : s.act = "rename" => s.to \in Loc
<1>1. Todo(v) \subseteq Step
  <2>1. job[v] # None => job[v].todo \in Seq(Step)
    BY DEF TypeOK, Job
  <2> QED
    BY <2>1 DEF Todo
<1>2. \A s \in Step : /\ s.t \in Ticket /\ s.loc \in Loc
                      /\ s.act = "yaml" => s.rec \in Rec
                      /\ s.act = "rename" => s.to \in Loc
  BY DEF Step, YamlStep, BodyStep, CompletionStep, NoteStep, RenameStep, RemoveStep
<1>3. ASSUME NEW t \in Ticket PROVE Records(v, t) \subseteq Rec
  BY <1>1, <1>2, Typed DEF Records, Left, HasYaml
<1>4. ASSUME NEW t \in Ticket PROVE Copies(v, t) \subseteq Rec
  BY DEF Copies, TypeOK, Job, Cached
<1> QED
  BY <1>1, <1>2, <1>3, <1>4

\* Records that go take no promise with them.
LEMMA Shrinks ==
  ASSUME TypeOK, NEW v \in Slot, Vetted(v), born' = born, started' = started,
         \A t \in Ticket : Records(v, t)' \subseteq Records(v, t)
  PROVE  /\ Vetted(v)'
         /\ \A d \in Ticket : IsWork(v, d) => IsWork(v, d)'
<1>1. \A d \in Ticket : IsWork(v, d) => IsWork(v, d)'
  BY DEF IsWork
<1>2. \A t \in Ticket : \A r \in Records(v, t) : r.deps \subseteq Ticket
  BY Members DEF Rec
<1>3. Vetted(v)'
  BY <1>1, <1>2 DEF Vetted
<1> QED
  BY <1>1, <1>3

\* A step that leaves the disk alone, and lets the handler go on or end it.
LEMMA DiskKept ==
  ASSUME NEW v \in Slot, IInv(v), disk' = disk, born' = born, started' = started,
         job' = job \/ job'[v] = None
  PROVE  /\ Vetted(v)' /\ Placed(v)' /\ InOrder(v)'
         /\ \A d \in Ticket : IsWork(v, d) => IsWork(v, d)'
         /\ \A F : Holds(F) => Holds(F)'
<1>1. Todo(v)' \subseteq Todo(v) /\ (Todo(v)' = {} \/ Todo(v)' = Todo(v))
  BY DEF Todo
<1>2. \A t \in Ticket : Records(v, t)' \subseteq Records(v, t)
  BY <1>1 DEF Records, Left, HasYaml
<1>3. Vetted(v)' /\ \A d \in Ticket : IsWork(v, d) => IsWork(v, d)'
  BY <1>2, Shrinks DEF IInv
<1>4. Placed(v)'
  BY <1>1 DEF IInv, Placed, Left, Lies
<1>5. InOrder(v)'
  BY DEF IInv, InOrder
<1>6. \A F : Holds(F) => Holds(F)'
  BY DEF Holds
<1> QED
  BY <1>3, <1>4, <1>5, <1>6

\* What a board has for a ticket.
LEMMA Boarded ==
  ASSUME NEW F \in Board, NEW t \in Ticket
  PROVE  /\ F[t] \in Files
         /\ F[t].yaml # None => F[t].yaml \in Rec /\ F[t].yaml.phase \in Loc
BY DEF Board, Files, Rec

\* While the data dir holds F, reading it gives F.
LEMMA Reads ==
  ASSUME TypeOK, NEW F \in Board, Sound(F), Holds(F)
  PROVE  /\ OnDisk = Present(F)
         /\ \A t \in Present(F) :
              /\ HasYaml(t) = {F[t].yaml.phase}
              /\ DirOf(t) = F[t].yaml.phase
              /\ disk[DirOf(t)][t] = F[t]
              /\ RecordOf(t) = F[t].yaml
         /\ DiskView = YamlOf(F)
<1>1. ASSUME NEW t \in Ticket
      PROVE  HasYaml(t) = IF F[t].yaml # None THEN {F[t].yaml.phase} ELSE {}
  <2>1. \A l \in Loc : disk[l][t] = IF F[t].yaml # None /\ F[t].yaml.phase = l
                                    THEN F[t] ELSE Gone
    BY DEF Holds
  <2> QED
    BY <2>1, Boarded, Typed DEF HasYaml
<1>2. OnDisk = Present(F)
  BY <1>1 DEF OnDisk, Present
<1>3. ASSUME NEW t \in Present(F)
      PROVE  /\ HasYaml(t) = {F[t].yaml.phase}
             /\ DirOf(t) = F[t].yaml.phase
             /\ disk[DirOf(t)][t] = F[t]
             /\ RecordOf(t) = F[t].yaml
  <2>1. t \in Ticket /\ F[t].yaml # None /\ t \in OnDisk
    BY <1>2, <1>3 DEF Present
  <2>2. HasYaml(t) = {F[t].yaml.phase}
    BY <1>1, <2>1
  <2>3. DirOf(t) \in HasYaml(t) /\ DirOf(t) \in Loc
    BY <2>1, Found DEF HasYaml
  <2>4. disk[DirOf(t)][t] = F[t]
    BY <2>1, <2>2, <2>3 DEF Holds
  <2> QED
    BY <2>2, <2>3, <2>4 DEF RecordOf
<1>4. DiskView = YamlOf(F)
  BY <1>2, <1>3 DEF DiskView, YamlOf, Present
<1> QED
  BY <1>2, <1>3, <1>4

\* A load reads the board that is on disk (Cache.Get).
LEMMA LoadStep ==
  ASSUME NEW v, Slot = {v}, IInv(v), Load(v)
  PROVE  IInv(v)'
<1> USE DEF Load
<1>1. DiskView \in Cached
  BY Found DEF DiskView, Cached, IInv
<1>2. TypeOK' /\ cache'[v] = DiskView /\ job'[v] = None
  BY <1>1 DEF IInv, TypeOK
<1>3. /\ Vetted(v)' /\ Placed(v)' /\ InOrder(v)'
      /\ \A d \in Ticket : IsWork(v, d) => IsWork(v, d)'
      /\ \A F : Holds(F) => Holds(F)'
  BY DiskKept
<1>4. ASSUME NEW t \in Ticket, t \in OnDisk
      PROVE  /\ RecordOf(t) \in Records(v, t)
             /\ \A r \in Records(v, t) : r = RecordOf(t)
  <2>1. DirOf(t) \in Loc /\ disk[DirOf(t)][t].yaml # None /\ RecordOf(t) = disk[DirOf(t)][t].yaml
    BY <1>4, Found DEF IInv
  <2>2. PICK l \in Loc : Lies(t, l)
    BY DEF IInv, Placed
  <2>3. HasYaml(t) \subseteq {l} /\ DirOf(t) \in HasYaml(t)
    BY <2>1, <2>2, Typed DEF IInv, HasYaml, Lies
  <2>4. Left(v, "yaml", t) = {}
    BY DEF Left, Todo
  <2> QED
    BY <2>1, <2>3, <2>4 DEF Records
<1>5. Agreed(v)'
  <2>1. ASSUME NEW t \in Ticket, NEW r \in Copies(v, t)'
        PROVE  t \in OnDisk /\ r = RecordOf(t)
    BY <1>2 DEF Copies, DiskView
  <2>2. ASSUME NEW t \in Ticket, NEW r \in Copies(v, t)'
        PROVE  (t \in born /\ \A d \in r.deps : IsWork(v, d))'
    <3>1. r \in Records(v, t) /\ r \in Rec
      BY <1>4, <2>1, <2>2, Found DEF IInv
    <3>2. t \in born /\ r.deps \subseteq Ticket /\ \A d \in r.deps : IsWork(v, d)
      BY <3>1 DEF IInv, Vetted, Rec
    <3> QED
      BY <1>3, <3>2
  <2>3. ASSUME NEW t \in Ticket, cache'[v][t] # None, cache'[v][t].kind = "work"
        PROVE  IsWork(v, t)'
    <3>1. t \in OnDisk /\ RecordOf(t).kind = "work"
      BY <1>2, <2>3 DEF DiskView
    <3>2. t \in born /\ \A r \in Records(v, t) : r.kind = "work"
      BY <1>4, <3>1 DEF IInv, Vetted
    <3> QED
      BY <1>3, <3>2 DEF IsWork
  <2> QED
    BY <1>2, <2>2, <2>3 DEF Agreed
<1>6. ~cut' => \E F \in Board : Resting(v, F)'
  <2> SUFFICES ASSUME ~cut' PROVE \E F \in Board : Resting(v, F)'
    OBVIOUS
  <2>1. PICK F \in Board : Resting(v, F)
    BY DEF IInv
  <2>2. DiskView = YamlOf(F)
    BY <2>1, Reads DEF IInv, Resting
  <2>3. Resting(v, F)'
    BY <1>2, <1>3, <2>1, <2>2 DEF Resting
  <2> QED
    BY <2>3
<1> QED
  BY <1>2, <1>3, <1>5, <1>6 DEF IInv, Holding

\* Taking the file lock changes nothing else.
LEMMA AcquireStep ==
  ASSUME NEW v, Slot = {v}, IInv(v), Acquire(v)
  PROVE  IInv(v)'
<1> USE DEF Acquire
<1>1. TypeOK'
  BY DEF IInv, TypeOK
<1>2. Vetted(v)' /\ Placed(v)' /\ InOrder(v)' /\ \A F : Holds(F) => Holds(F)'
  BY DiskKept
<1>3. /\ Todo(v)' = Todo(v)
      /\ \A act, t : Left(v, act, t)' = Left(v, act, t)
      /\ \A t : Records(v, t)' = Records(v, t) /\ Copies(v, t)' = Copies(v, t)
  BY DEF Todo, Left, Records, Copies, HasYaml
<1>4. \A d : (IsWork(v, d)' <=> IsWork(v, d)) /\ (EndsWork(v, d)' <=> EndsWork(v, d))
  BY <1>3 DEF IsWork, EndsWork
<1>5. Agreed(v)'
  BY <1>3, <1>4 DEF IInv, Agreed
<1>6. \A F : Resting(v, F) => Resting(v, F)'
  BY <1>2 DEF Resting
<1>7. \A F : Heading(v, F) => Heading(v, F)'
  BY <1>3 DEF Heading, Permitted, Arrives, Becomes, Lies
<1> QED
  BY <1>1, <1>2, <1>5, <1>6, <1>7 DEF IInv, Holding

\* A handler that ends without having changed anything, or by being cut.
LEMMA EndStep ==
  ASSUME NEW v, Slot = {v}, IInv(v), job[v] # None,
         TypeOK', job'[v] = None, cache'[v] \in {cache[v], None},
         disk' = disk, born' = born, started' = started,
         lock' # v, cut' = (cut \/ job[v].touched)
  PROVE  IInv(v)'
<1>1. /\ Vetted(v)' /\ Placed(v)' /\ InOrder(v)'
      /\ \A d \in Ticket : IsWork(v, d) => IsWork(v, d)'
      /\ \A F : Holds(F) => Holds(F)'
  BY DiskKept
<1>2. \A t \in Ticket : Copies(v, t)' \subseteq Copies(v, t) /\ Copies(v, t) \subseteq Rec
  BY Members DEF Copies, IInv
<1>3. Agreed(v)'
  BY <1>1, <1>2 DEF IInv, Agreed, Rec
<1>4. ~cut' => \E F \in Board : Resting(v, F)'
  <2> SUFFICES ASSUME ~cut' PROVE \E F \in Board : Resting(v, F)'
    OBVIOUS
  <2>1. PICK F \in Board : Resting(v, F)
    BY DEF IInv
  <2> QED
    BY <1>1, <2>1 DEF Resting
<1> QED
  BY <1>1, <1>3, <1>4 DEF IInv, Holding

\* A Commit that never got the lock has touched nothing.
LEMMA RefusedStep ==
  ASSUME NEW v, Slot = {v}, IInv(v), Refused(v)
  PROVE  IInv(v)'
<1>1. TypeOK' /\ job'[v] = None
  BY DEF Refused, IInv, TypeOK
<1>2. cut' = (cut \/ job[v].touched)
  BY DEF Refused, IInv, Holding, TypeOK, Job
<1> QED
  BY <1>1, <1>2, NoneAssumption, EndStep DEF Refused

\* A failed step ends the handler, and cuts it short if it had written.
LEMMA FailStep ==
  ASSUME NEW v, Slot = {v}, IInv(v), Fail(v)
  PROVE  IInv(v)'
<1>1. TypeOK' /\ job'[v] = None
  BY DEF Fail, Applying, IInv, TypeOK, Job
<1> QED
  BY <1>1, NoneAssumption, EndStep DEF Fail, Applying

\* So does the death of the slot's process.
LEMMA CrashStep ==
  ASSUME NEW v, Slot = {v}, IInv(v), Crash(v)
  PROVE  IInv(v)'
<1>1. TypeOK' /\ job'[v] = None /\ cache'[v] = None
  BY DEF Crash, IInv, TypeOK, Job
<1> QED
  BY <1>1, NoneAssumption, EndStep DEF Crash

\* When no step is left, the disk holds the board the handler headed for, and
\* the cache becomes its records.
LEMMA FinishStep ==
  ASSUME NEW v, Slot = {v}, IInv(v), Finish(v)
  PROVE  IInv(v)'
<1> USE DEF Finish
<1>0. job[v] # None
  BY DEF IInv, Holding
<1>1. TypeOK' /\ job'[v] = None /\ cache'[v] = job[v].cached
  BY <1>0 DEF IInv, TypeOK, Job
<1>2. /\ Vetted(v)' /\ Placed(v)' /\ InOrder(v)'
      /\ \A d \in Ticket : IsWork(v, d) => IsWork(v, d)'
      /\ \A F : Holds(F) => Holds(F)'
  BY <1>1, DiskKept
<1>3. Todo(v) = {} /\ \A act, t : Left(v, act, t) = {}
  BY DEF Todo, Left
<1>4. \A t \in Ticket : Copies(v, t)' \subseteq Copies(v, t) /\ Copies(v, t) \subseteq Rec
  BY <1>0, <1>1, Members DEF Copies, IInv
<1>5. Agreed(v)'
  <2>1. ASSUME NEW t \in Ticket, cache'[v][t] # None, cache'[v][t].kind = "work"
        PROVE  IsWork(v, t)'
    <3>1. IsWork(v, t)
      BY <1>0, <1>1, <1>3, <2>1 DEF IInv, Agreed, EndsWork
    <3> QED
      BY <1>2, <3>1
  <2> QED
    BY <1>1, <1>2, <1>4, <2>1 DEF IInv, Agreed, Rec
<1>6. ~cut' => \E F \in Board : Resting(v, F)'
  <2> SUFFICES ASSUME ~cut' PROVE \E F \in Board : Resting(v, F)'
    OBVIOUS
  <2>1. PICK F \in Board : Heading(v, F)
    BY <1>0 DEF IInv
  <2>2. ASSUME NEW t \in Ticket, NEW l \in Loc
        PROVE  disk[l][t] = IF F[t].yaml # None /\ F[t].yaml.phase = l THEN F[t] ELSE Gone
    <3>1. CASE F[t].yaml = None
      BY <1>3, <2>1, <3>1 DEF Heading, Arrives
    <3>2. CASE F[t].yaml # None
      <4>1. PICK m \in Loc : Lies(t, m) /\ m = F[t].yaml.phase
                             /\ Becomes(v, t, disk[m][t], F[t])
        BY <1>3, <2>1, <3>2 DEF Heading, Arrives
      <4>2. disk[m][t] = F[t]
        <5>1. disk[m][t] \in Files /\ F[t] \in Files
          BY Typed, Boarded DEF IInv
        <5> QED
          BY <1>3, <4>1, <5>1, SMTT(30) DEF Becomes, Files
      <4> QED
        BY <3>2, <4>1, <4>2 DEF Lies
    <3> QED
      BY <3>1, <3>2
  <2>3. Holds(F)
    BY <2>2 DEF Holds
  <2>4. Resting(v, F)'
    BY <1>1, <1>2, <2>1, <2>3 DEF Resting, Heading
  <2> QED
    BY <2>4
<1> QED
  BY <1>1, <1>2, <1>5, <1>6, NoneAssumption DEF IInv, Holding

-----------------------------------------------------------------------------
(* The steps of a Commit.                                                  *)

\* Taking the first step off the list.
LEMMA StepTaken ==
  ASSUME NEW v \in Slot, IInv(v), Applying(v), job'[v] # None,
         job'[v].todo = Tail(job[v].todo)
  PROVE  /\ Upcoming(v) \in Todo(v)
         /\ job'[v].todo \in Seq(Step)
         /\ Todo(v)' = Todo(v) \ {Upcoming(v)}
         /\ \A x \in Todo(v)' :
              /\ x.act # "rename"
              /\ ~ (x.act = Upcoming(v).act /\ x.t = Upcoming(v).t)
         /\ Upcoming(v).act # "rename" => \A x \in Todo(v) : x.act # "rename"
         /\ InOrder(v)'
<1> DEFINE q == job[v].todo
<1>1. job[v] # None /\ q \in Seq(Step) /\ q # <<>>
  BY DEF Applying, IInv, TypeOK, Job
<1>2. /\ Len(q) \in Nat \ {0} /\ DOMAIN q = 1..Len(q) /\ Head(q) = q[1]
      /\ Tail(q) \in Seq(Step) /\ DOMAIN Tail(q) = 1..(Len(q) - 1)
      /\ \A i \in 1..(Len(q) - 1) : Tail(q)[i] = q[i + 1]
  BY <1>1
<1>3. \A i, j \in 1..Len(q) :
        /\ q[i].act = q[j].act /\ q[i].t = q[j].t => i = j
        /\ q[i].act = "rename" => i = 1
  BY <1>1, <1>2 DEF IInv, InOrder
<1>4. Todo(v) = {q[i] : i \in 1..Len(q)}
  BY <1>1, <1>2 DEF Todo
<1>5. Todo(v)' = {Tail(q)[i] : i \in 1..(Len(q) - 1)}
  BY <1>2 DEF Todo
<1> HIDE DEF q
<1>6. 1 \in 1..Len(q) /\ \A i \in 1..Len(q) : i # 1 => i - 1 \in 1..(Len(q) - 1)
  BY <1>2
<1>7. \A i \in 1..(Len(q) - 1) : i + 1 \in 1..Len(q) /\ i + 1 # 1
  BY <1>2
<1>8. \A x \in Todo(v)' : \E i \in 1..Len(q) : i # 1 /\ x = q[i]
  BY <1>2, <1>5, <1>7
<1>9. \A i \in 1..Len(q) : i # 1 => q[i] \in Todo(v)'
  <2> TAKE i \in 1..Len(q)
  <2> HAVE i # 1
  <2>1. i - 1 \in 1..(Len(q) - 1) /\ Tail(q)[i - 1] = q[i]
    BY <1>2, <1>6
  <2> QED
    BY <1>5, <2>1
<1>10. Upcoming(v) = q[1]
  BY <1>2 DEF Upcoming, q
<1>11. InOrder(v)'
  <2>1. \A i, j \in 1..(Len(q) - 1) :
          /\ Tail(q)[i].act = Tail(q)[j].act /\ Tail(q)[i].t = Tail(q)[j].t => i = j
          /\ Tail(q)[i].act # "rename"
    BY <1>2, <1>3, <1>7
  <2>2. job'[v].todo = Tail(q)
    BY DEF q
  <2> QED
    BY <1>2, <2>1, <2>2 DEF InOrder
<1>12. job'[v].todo \in Seq(Step)
  BY <1>2 DEF q
<1> QED
  BY <1>3, <1>4, <1>6, <1>8, <1>9, <1>10, <1>11, <1>12

\* What Apply does to the handler.
LEMMA Applied ==
  ASSUME NEW v, Slot = {v}, IInv(v), Apply(v), NEW s, s = Upcoming(v)
  PROVE  /\ s \in Todo(v) /\ s \in Step /\ s.act # "remove" /\ disk' = Effect(s)
         /\ job[v] # None /\ job'[v] # None
         /\ job'[v].cached = job[v].cached /\ job'[v].touched
         /\ job' \in [Slot -> Job \cup {None}]
         /\ Todo(v)' = Todo(v) \ {s}
         /\ \A x \in Todo(v)' : x.act # "rename" /\ ~ (x.act = s.act /\ x.t = s.t)
         /\ s.act # "rename" => \A x \in Todo(v) : x.act # "rename"
         /\ InOrder(v)'
<1>1. job[v] \in Job /\ job[v] # None
  BY DEF Apply, Applying, IInv, TypeOK
<1>2. job'[v] = [todo |-> Tail(job[v].todo), cached |-> job[v].cached, touched |-> TRUE]
  BY <1>1 DEF Apply, IInv, TypeOK, Job
<1>3. job[v].todo \in Seq(Step) /\ job[v].todo # <<>> /\ job[v].cached \in Cached
  BY <1>1 DEF Apply, Applying, Job
<1>4. job'[v] \in Job /\ job'[v] # None
  <2> DEFINE rest == Tail(job[v].todo)
  <2>1. rest \in Seq(Step)
    BY <1>3
  <2> HIDE DEF rest
  <2>2. [todo |-> rest, cached |-> job[v].cached, touched |-> TRUE] \in Job
    BY <1>3, <2>1 DEF Job
  <2> QED
    BY <1>2, <2>2, NoneIsNoJob DEF rest
<1>5. Applying(v) /\ job'[v].todo = Tail(job[v].todo)
  <2>1. Applying(v)
    BY DEF Apply
  <2> QED
    BY <1>2, <2>1
<1>6. /\ s \in Todo(v)
      /\ Todo(v)' = Todo(v) \ {s}
      /\ \A x \in Todo(v)' : x.act # "rename" /\ ~ (x.act = s.act /\ x.t = s.t)
      /\ s.act # "rename" => \A x \in Todo(v) : x.act # "rename"
      /\ InOrder(v)'
  BY <1>4, <1>5, StepTaken
<1>7. s \in Step
  BY <1>6, Members DEF IInv
<1>8. s.act # "remove" /\ disk' = Effect(s)
  BY DEF Apply
<1>9. job' \in [Slot -> Job \cup {None}]
  BY <1>4 DEF Apply, IInv, TypeOK
<1>10. job'[v].cached = job[v].cached
  BY <1>2
<1>11. job'[v].touched
  BY <1>2
<1> QED
  BY <1>1, <1>4, <1>6, <1>7, <1>8, <1>9, <1>10, <1>11

\* Files f are g once a step other than a rename has been applied.
Written(s, f, g) ==
  /\ g.yaml = IF s.act = "yaml" THEN s.rec ELSE f.yaml
  /\ g.body <=> (f.body \/ s.act = "body")
  /\ g.completion <=> (f.completion \/ s.act = "completion")
  /\ g.trail = IF s.act = "note" THEN Heard(f.trail, s.says) ELSE f.trail

\* What it does to the disk: every step but a rename changes one directory.
LEMMA Writes ==
  ASSUME NEW v, Slot = {v}, IInv(v), Apply(v), NEW s, s = Upcoming(v), s.act # "rename"
  PROVE  /\ disk' \in [Loc -> [Ticket -> Files]]
         /\ s.t \in Ticket /\ s.loc \in Loc
         /\ \A m \in Loc, u \in Ticket : m # s.loc \/ u # s.t => disk'[m][u] = disk[m][u]
         /\ Written(s, disk[s.loc][s.t], disk'[s.loc][s.t])
<1> DEFINE f == disk[s.loc][s.t]
<1>1. s \in Todo(v) /\ s \in Step /\ s.act # "remove" /\ disk' = Effect(s)
  BY Applied
<1>2. s.loc \in Loc /\ s.t \in Ticket /\ disk \in [Loc -> [Ticket -> Files]]
  BY <1>1, Members DEF IInv, TypeOK
<1>3. f \in Files
  BY <1>2
<1>4. CASE s \in YamlStep
  <2> DEFINE g == [f EXCEPT !.yaml = s.rec]
  <2>1. Effect(s) = [disk EXCEPT ![s.loc] = [disk[s.loc] EXCEPT ![s.t] = g]]
    BY <1>4 DEF YamlStep, Effect
  <2>3. g \in Files /\ Written(s, f, g)
    BY <1>3, <1>4 DEF YamlStep, Files, Written
  <2> HIDE DEF g
  <2> QED
    BY <1>1, <1>2, <2>1, <2>3
<1>5. CASE s \in BodyStep
  <2> DEFINE g == [f EXCEPT !.body = TRUE]
  <2>1. Effect(s) = [disk EXCEPT ![s.loc] = [disk[s.loc] EXCEPT ![s.t] = g]]
    BY <1>5 DEF BodyStep, Effect
  <2>3. g \in Files /\ Written(s, f, g)
    BY <1>3, <1>5 DEF BodyStep, Files, Written
  <2> HIDE DEF g
  <2> QED
    BY <1>1, <1>2, <2>1, <2>3
<1>6. CASE s \in CompletionStep
  <2> DEFINE g == [f EXCEPT !.completion = TRUE]
  <2>1. Effect(s) = [disk EXCEPT ![s.loc] = [disk[s.loc] EXCEPT ![s.t] = g]]
    BY <1>6 DEF CompletionStep, Effect
  <2>3. g \in Files /\ Written(s, f, g)
    BY <1>3, <1>6 DEF CompletionStep, Files, Written
  <2> HIDE DEF g
  <2> QED
    BY <1>1, <1>2, <2>1, <2>3
<1>7. CASE s \in NoteStep
  <2> DEFINE g == [f EXCEPT !.trail = Heard(f.trail, s.says)]
  <2>1. Effect(s) = [disk EXCEPT ![s.loc] = [disk[s.loc] EXCEPT ![s.t] = g]]
    BY <1>7 DEF NoteStep, Effect
  <2>2. Heard(f.trail, s.says) \in Trail
    BY <1>3, <1>7 DEF Heard, Trail, NoteStep, Files
  <2>3. g \in Files /\ Written(s, f, g)
    BY <1>3, <1>7, <2>2 DEF NoteStep, Files, Written
  <2> HIDE DEF g
  <2> QED
    BY <1>1, <1>2, <2>1, <2>3
<1> QED
  BY <1>1, <1>4, <1>5, <1>6, <1>7 DEF Step, RemoveStep, RenameStep

\* A rename moves one.
LEMMA Moves ==
  ASSUME NEW v, Slot = {v}, IInv(v), Apply(v), NEW s, s = Upcoming(v), s.act = "rename"
  PROVE  /\ disk' \in [Loc -> [Ticket -> Files]]
         /\ s.to # s.loc /\ s.to \in Loc /\ s.loc \in Loc /\ s.t \in Ticket
         /\ \A m \in Loc, u \in Ticket :
              disk'[m][u] = IF u # s.t \/ (m # s.loc /\ m # s.to) THEN disk[m][u]
                            ELSE IF m = s.to THEN disk[s.loc][s.t] ELSE Gone
<1>1. s \in Todo(v) /\ disk' = Effect(s) /\ Possible(s)
  BY Applied DEF Apply
<1>2. s.loc \in Loc /\ s.to \in Loc /\ s.t \in Ticket /\ disk \in [Loc -> [Ticket -> Files]]
  BY <1>1, Members DEF IInv, TypeOK
<1>3. s.to # s.loc
  BY <1>1 DEF Possible
<1>4. disk' = [disk EXCEPT ![s.to] = [disk[s.to] EXCEPT ![s.t] = disk[s.loc][s.t]],
                           ![s.loc] = [disk[s.loc] EXCEPT ![s.t] = Gone]]
  BY <1>1, <1>2, <1>3 DEF Effect
<1> QED
  BY <1>2, <1>3, <1>4, Typed, ZenonT(30) DEF IInv

\* What is left once a step has been applied.
LEMMA LeftOver ==
  ASSUME NEW v, Slot = {v}, IInv(v), Apply(v), NEW s, s = Upcoming(v)
  PROVE  /\ \A act, t : Left(v, act, t)' =
              IF act = s.act /\ t = s.t THEN {} ELSE Left(v, act, t)
         /\ Left(v, s.act, s.t) = {s}
         /\ \A t : Copies(v, t)' = Copies(v, t)
<1>1. /\ s \in Todo(v) /\ Todo(v)' = Todo(v) \ {s}
      /\ \A x \in Todo(v)' : ~ (x.act = s.act /\ x.t = s.t)
  BY Applied
<1>2. /\ job[v] # None /\ job'[v] # None /\ job'[v].cached = job[v].cached
      /\ cache' = cache
  <2>1. job[v] # None /\ job'[v] # None /\ job'[v].cached = job[v].cached
    BY Applied
  <2>2. cache' = cache
    BY DEF Apply
  <2> QED
    BY <2>1, <2>2
<1>3. \A t : Copies(v, t)' = Copies(v, t)
  BY <1>2 DEF Copies
<1> QED
  BY <1>1, <1>3 DEF Left

\* Writing one file takes the disk one step nearer to the board.
LEMMA WriteStep ==
  ASSUME NEW v, Slot = {v}, IInv(v), Apply(v), NEW s, s = Upcoming(v), s.act # "rename"
  PROVE  IInv(v)'
<1>1. /\ s \in Todo(v) /\ Todo(v)' = Todo(v) \ {s} /\ job[v] # None /\ job'[v] # None
      /\ job'[v].cached = job[v].cached /\ job'[v].touched
      /\ job' \in [Slot -> Job \cup {None}]
      /\ \A x \in Todo(v) : x.act # "rename"
      /\ s.act # "remove" /\ InOrder(v)'
  BY Applied
<1>2. /\ disk' \in [Loc -> [Ticket -> Files]]
      /\ s.t \in Ticket /\ s.loc \in Loc
      /\ \A m \in Loc, u \in Ticket : m # s.loc \/ u # s.t => disk'[m][u] = disk[m][u]
      /\ Written(s, disk[s.loc][s.t], disk'[s.loc][s.t])
  BY Writes
<1>3. cache' = cache /\ lock' = lock /\ born' = born /\ started' = started /\ cut' = cut /\ unseen' = unseen
      /\ lock = v
  BY DEF Apply, Applying
<1>4. /\ \A act, t : Left(v, act, t)' =
           IF act = s.act /\ t = s.t THEN {} ELSE Left(v, act, t)
      /\ Left(v, s.act, s.t) = {s}
      /\ \A t : Copies(v, t)' = Copies(v, t)
  BY LeftOver
<1>5. /\ \A t : Left(v, "rename", t) = {}
      /\ Lies(s.t, s.loc) /\ s.t \in born
      /\ \A x \in Todo(v) : Lies(x.t, x.loc) /\ x.t \in born
      /\ \A x \in Todo(v) : x.t = s.t => x.loc = s.loc
  BY <1>1 DEF IInv, Placed, Left
<1>6. TypeOK'
  BY <1>1, <1>2, <1>3 DEF IInv, TypeOK
<1>7. \A t \in Ticket : Records(v, t)' \subseteq Records(v, t)
  <2>1. ASSUME NEW t \in Ticket, NEW l \in Loc, disk'[l][t].yaml # None
        PROVE  disk'[l][t].yaml \in Records(v, t)
    <3>1. CASE l = s.loc /\ t = s.t /\ s.act = "yaml"
      BY <1>2, <1>4, <3>1 DEF Written, Records
    <3>2. CASE ~ (l = s.loc /\ t = s.t /\ s.act = "yaml")
      <4>1. disk'[l][t].yaml = disk[l][t].yaml
        BY <1>2, <3>2 DEF Written
      <4> QED
        BY <2>1, <4>1 DEF Records, HasYaml
    <3> QED
      BY <3>1, <3>2
  <2>2. ASSUME NEW t \in Ticket, NEW x \in Left(v, "yaml", t)'
        PROVE  x.rec \in Records(v, t)
    BY <1>4, <2>2 DEF Records
  <2> QED
    BY <2>1, <2>2 DEF Records, HasYaml
<1>8. Vetted(v)' /\ \A d \in Ticket : IsWork(v, d) => IsWork(v, d)'
  BY <1>3, <1>7, Shrinks DEF IInv
<1>9. Agreed(v)'
  <2>1. ASSUME NEW t \in Ticket, EndsWork(v, t) PROVE EndsWork(v, t)'
    <3>1. CASE s.act = "yaml" /\ t = s.t
      <4>1. s.rec.kind = "work" /\ Left(v, "yaml", t)' = {} /\ t \in born'
        BY <1>3, <1>4, <1>5, <2>1, <3>1 DEF EndsWork
      <4>2. \A l \in Loc : disk'[l][t].yaml # None => disk'[l][t].yaml = s.rec
        BY <1>2, <1>5, <3>1, Typed DEF Written, Lies, IInv
      <4>3. \A r \in Records(v, t)' : r = s.rec
        BY <4>1, <4>2 DEF Records, HasYaml
      <4> QED
        BY <4>1, <4>3 DEF EndsWork, IsWork
    <3>2. CASE ~ (s.act = "yaml" /\ t = s.t)
      <4>1. Left(v, "yaml", t)' = Left(v, "yaml", t)
        BY <1>4, <3>2
      <4> QED
        BY <1>8, <2>1, <4>1 DEF EndsWork
    <3> QED
      BY <3>1, <3>2
  <2>2. \A t \in Ticket : \A r \in Copies(v, t) : r.deps \subseteq Ticket
    BY Members DEF IInv, Rec
  <2>3. \A t \in Ticket : \A r \in Copies(v, t)' :
          (t \in born /\ \A d \in r.deps : IsWork(v, d))'
    BY <1>3, <1>4, <1>8, <2>2 DEF IInv, Agreed
  <2> QED
    BY <1>1, <1>3, <1>8, <2>1, <2>3 DEF IInv, Agreed
<1>10. Placed(v)'
  <2>1. ASSUME NEW t, NEW l, Lies(t, l), t \in Ticket, t = s.t => l = s.loc
        PROVE  Lies(t, l)'
    BY <1>2, <2>1 DEF Lies
  <2>2. \A t \in Ticket : \E l \in Loc : Lies(t, l)'
    <3> TAKE t \in Ticket
    <3>1. CASE t = s.t
      BY <1>2, <1>5, <2>1, <3>1
    <3>2. CASE t # s.t
      <4>1. PICK l \in Loc : Lies(t, l)
        BY DEF IInv, Placed
      <4> QED
        BY <2>1, <3>2, <4>1
    <3> QED
      BY <3>1, <3>2
  <2>3. \A t \in Ticket \ born, l \in Loc : disk'[l][t] = Gone
    BY <1>2, <1>5 DEF IInv, Placed
  <2>4. \A x \in Todo(v)' : x.t \in born /\ Lies(x.t, x.loc)'
    BY <1>1, <1>5, <2>1, Members DEF IInv
  <2> QED
    BY <1>1, <1>3, <1>4, <1>5, <2>2, <2>3, <2>4 DEF IInv, Placed
<1>11. ASSUME NEW F \in Board, ~cut, Heading(v, F)
       PROVE  Heading(v, F)'
  <2>1. /\ F[s.t].yaml # None /\ s.loc = F[s.t].yaml.phase
        /\ Becomes(v, s.t, disk[s.loc][s.t], F[s.t])
    <3>1. Arrives(v, F, s.t)
      BY <1>2, <1>11 DEF Heading
    <3> QED
      BY <1>1, <1>5, <3>1 DEF Arrives
  <2>2. s.act = "yaml" => F[s.t].yaml = s.rec /\ disk'[s.loc][s.t].yaml = F[s.t].yaml
    BY <1>2, <1>4, <2>1 DEF Becomes, Written
  <2>3. \A m \in Loc, u \in Ticket :
          \/ disk'[m][u].yaml = disk[m][u].yaml
          \/ u = s.t /\ m = s.loc /\ disk'[m][u].yaml = F[u].yaml
    BY <1>2, <2>2 DEF Written
  <2>4. Permitted(F)'
    <3>1. ASSUME NEW m \in Loc, NEW d \in Ticket, disk[m][d].yaml # None,
                 disk[m][d].yaml.col = "done"
          PROVE  disk'[m][d].yaml # None /\ disk'[m][d].yaml.col = "done"
      BY <1>11, <2>3, <3>1 DEF Heading, Permitted
    <3>2. \A m \in Loc, u \in Ticket : disk[m][u].yaml # None =>
             disk[m][u].yaml.deps \subseteq Ticket
      BY Typed DEF IInv, Rec
    <3> QED
      BY <1>11, <2>3, <3>1, <3>2 DEF Heading, Permitted
  <2>5. ASSUME NEW t \in Ticket PROVE Arrives(v, F, t)'
    <3>1. Arrives(v, F, t)
      BY <1>11 DEF Heading
    <3>2. CASE t # s.t
      <4>1. /\ \A l \in Loc : disk'[l][t] = disk[l][t]
            /\ \A act : Left(v, act, t)' = Left(v, act, t)
            /\ \A l : Lies(t, l)' <=> Lies(t, l)
        BY <1>2, <1>4, <3>2 DEF Lies
      <4>2. \A l \in Loc : Becomes(v, t, disk[l][t], F[t]) => Becomes(v, t, disk[l][t], F[t])'
        BY <4>1 DEF Becomes
      <4> QED
        BY <1>1, <3>1, <4>1, <4>2 DEF Arrives
    <3>3. CASE t = s.t
      <4>1. Lies(t, s.loc)'
        BY <1>2, <1>5, <3>3 DEF Lies
      <4>2. /\ F[t].yaml # None
            /\ disk[s.loc][t] \in Files /\ disk'[s.loc][t] \in Files /\ F[t] \in Files
        BY <1>2, <2>1, <3>3, Typed, Boarded, ZenonT(30) DEF IInv
      <4> DEFINE f == disk[s.loc][t]
                 g == disk'[s.loc][t]
      <4>5. Written(s, f, g) /\ Becomes(v, t, f, F[t])
        BY <1>2, <2>1, <3>3
      <4>6. \A act : Left(v, act, t)' = IF act = s.act THEN {} ELSE Left(v, act, t)
        BY <1>4, <3>3
      <4>7. Left(v, s.act, t) = {s}
        BY <1>4, <3>3
      <4>8. /\ F[t].body \in BOOLEAN /\ F[t].completion \in BOOLEAN
            /\ f.body \in BOOLEAN /\ f.completion \in BOOLEAN
            /\ g.body \in BOOLEAN /\ g.completion \in BOOLEAN
        BY <4>2 DEF Files
      <4> HIDE DEF f, g
      <4>9. IF Left(v, "yaml", t)' = {} THEN F[t].yaml = g.yaml
            ELSE \A x \in Left(v, "yaml", t)' : F[t].yaml = x.rec
        BY <4>5, <4>6, <4>7 DEF Becomes, Written
      <4>10. /\ F[t].body = (g.body \/ Left(v, "body", t)' # {})
             /\ F[t].completion = (g.completion \/ Left(v, "completion", t)' # {})
        BY <4>5, <4>6, <4>7, <4>8 DEF Becomes, Written
      <4>11. IF Left(v, "note", t)' = {} THEN F[t].trail = g.trail
             ELSE \A x \in Left(v, "note", t)' : F[t].trail = Heard(g.trail, x.says)
        BY <4>5, <4>6, <4>7 DEF Becomes, Written
      <4>3. Becomes(v, t, disk[s.loc][t], F[t])'
        BY <4>9, <4>10, <4>11 DEF Becomes, g
      <4>4. Left(v, "remove", t)' = {} /\ Left(v, "rename", t)' = {}
        BY <1>4, <1>5, <2>1, <3>1, <3>3, SMTT(30) DEF Arrives
      <4> QED
        BY <1>1, <1>2, <2>1, <3>1, <3>3, <4>1, <4>2, <4>3, <4>4 DEF Arrives
    <3> QED
      BY <3>2, <3>3
  <2> QED
    BY <1>1, <1>11, <2>4, <2>5 DEF Heading
<1>12. Holding(v)'
  BY <1>1, <1>3 DEF Holding
<1> QED
  BY <1>1, <1>3, <1>6, <1>8, <1>9, <1>10, <1>11, <1>12 DEF IInv

\* So does moving the directory of a ticket.
LEMMA MoveStep ==
  ASSUME NEW v, Slot = {v}, IInv(v), Apply(v), NEW s, s = Upcoming(v), s.act = "rename"
  PROVE  IInv(v)'
<1>1. /\ s \in Todo(v) /\ Todo(v)' = Todo(v) \ {s} /\ job[v] # None /\ job'[v] # None
      /\ job'[v].cached = job[v].cached /\ job'[v].touched
      /\ job' \in [Slot -> Job \cup {None}]
      /\ \A x \in Todo(v)' : x.act # "rename"
      /\ InOrder(v)'
  BY Applied
<1>2. /\ disk' \in [Loc -> [Ticket -> Files]]
      /\ s.to # s.loc /\ s.to \in Loc /\ s.loc \in Loc /\ s.t \in Ticket
      /\ \A m \in Loc, u \in Ticket :
           disk'[m][u] = IF u # s.t \/ (m # s.loc /\ m # s.to) THEN disk[m][u]
                         ELSE IF m = s.to THEN disk[s.loc][s.t] ELSE Gone
  BY Moves
<1>3. cache' = cache /\ lock' = lock /\ born' = born /\ started' = started /\ cut' = cut /\ unseen' = unseen
      /\ lock = v
  BY DEF Apply, Applying
<1>4. /\ \A act, t : Left(v, act, t)' =
           IF act = "rename" /\ t = s.t THEN {} ELSE Left(v, act, t)
      /\ Left(v, "rename", s.t) = {s}
      /\ \A t : Copies(v, t)' = Copies(v, t)
  BY LeftOver
<1>5. /\ \A t : t # s.t => Left(v, "rename", t) = {}
      /\ \A t : Left(v, "rename", t)' = {}
  BY <1>1, <1>4 DEF Left
<1>6. /\ Lies(s.t, s.loc) /\ s.t \in born
      /\ \A x \in Todo(v)' : x.t = s.t => x.loc = s.to
      /\ \A x \in Todo(v)' : x.t # s.t => Lies(x.t, x.loc)
      /\ \A x \in Todo(v)' : x.t \in born
  BY <1>1, <1>4, <1>5 DEF IInv, Placed, Left
<1>7. TypeOK'
  BY <1>1, <1>2, <1>3 DEF IInv, TypeOK
<1>8. \A t \in Ticket : Records(v, t)' \subseteq Records(v, t)
  <2>1. ASSUME NEW t \in Ticket, NEW l \in Loc, disk'[l][t].yaml # None
        PROVE  disk'[l][t].yaml \in Records(v, t)
    <3>1. \E m \in Loc : disk'[l][t] = disk[m][t]
      BY <1>2, <2>1, Typed DEF IInv
    <3> QED
      BY <2>1, <3>1 DEF Records, HasYaml
  <2> QED
    BY <1>4, <2>1 DEF Records, HasYaml
<1>9. Vetted(v)' /\ \A d \in Ticket : IsWork(v, d) => IsWork(v, d)'
  BY <1>3, <1>8, Shrinks DEF IInv
<1>10. Agreed(v)'
  <2>1. \A t \in Ticket : EndsWork(v, t) => EndsWork(v, t)'
    BY <1>4, <1>9 DEF EndsWork
  <2>2. \A t \in Ticket : \A r \in Copies(v, t) : r.deps \subseteq Ticket
    BY Members DEF IInv, Rec
  <2>3. \A t \in Ticket : \A r \in Copies(v, t)' :
          (t \in born /\ \A d \in r.deps : IsWork(v, d))'
    BY <1>3, <1>4, <1>9, <2>2 DEF IInv, Agreed
  <2> QED
    BY <1>1, <1>3, <1>9, <2>1, <2>3 DEF IInv, Agreed
<1>11. Lies(s.t, s.to)' /\ \A t \in Ticket : \A l : t # s.t => (Lies(t, l)' <=> Lies(t, l))
  BY <1>2, <1>6 DEF Lies
<1>12. Placed(v)'
  <2>1. \A t \in Ticket : \E l \in Loc : Lies(t, l)'
    BY <1>2, <1>11 DEF IInv, Placed
  <2>2. \A t \in Ticket \ born, l \in Loc : disk'[l][t] = Gone
    BY <1>2, <1>6 DEF IInv, Placed
  <2>3. \A x \in Todo(v)' : x.t \in Ticket /\ x.t \in born /\ Lies(x.t, x.loc)'
    BY <1>1, <1>6, <1>11, Members DEF IInv
  <2>4. \A x, y \in Todo(v)' : x.t = y.t => x.loc = y.loc
    BY <1>1, <1>6 DEF IInv, Placed
  <2> QED
    BY <1>3, <1>5, <2>1, <2>2, <2>3, <2>4 DEF Placed
<1>13. ASSUME NEW F \in Board, ~cut, Heading(v, F)
       PROVE  Heading(v, F)'
  <2>1. \A m \in Loc, u \in Ticket :
          disk'[m][u].yaml # None => \E k \in Loc : disk'[m][u] = disk[k][u]
    BY <1>2, Typed DEF IInv
  <2>2. \A k \in Loc, u \in Ticket :
          disk[k][u].yaml # None => \E m \in Loc : disk'[m][u] = disk[k][u]
    BY <1>2, <1>6, Typed DEF Lies, IInv
  <2>3. Permitted(F)'
    <3>1. \A u \in Ticket, k \in Loc : disk[k][u].yaml # None =>
             disk[k][u].yaml.deps \subseteq Ticket
      BY Typed DEF IInv, Rec
    <3>2. ASSUME NEW d \in Ticket, NEW k \in Loc, disk[k][d].yaml # None,
                 disk[k][d].yaml.col = "done"
          PROVE  \E m \in Loc : disk'[m][d].yaml # None /\ disk'[m][d].yaml.col = "done"
      BY <2>2, <3>2
    <3>3. ASSUME NEW t \in Ticket, NEW l \in Loc, disk'[l][t].yaml # None
          PROVE  /\ disk'[l][t].yaml.col = "done" => F[t].yaml # None /\ F[t].yaml.col = "done"
                 /\ (/\ Enforce /\ disk'[l][t].yaml.col # "in_progress"
                     /\ F[t].yaml # None /\ F[t].yaml.col = "in_progress")
                      => \A d \in disk'[l][t].yaml.deps :
                           \E m \in Loc : disk'[m][d].yaml # None /\ disk'[m][d].yaml.col = "done"
      <4>1. PICK k \in Loc : disk'[l][t] = disk[k][t]
        BY <2>1, <3>3
      <4>2. /\ disk[k][t].yaml.col = "done" => F[t].yaml # None /\ F[t].yaml.col = "done"
            /\ (/\ Enforce /\ disk[k][t].yaml.col # "in_progress"
                /\ F[t].yaml # None /\ F[t].yaml.col = "in_progress")
                 => \A d \in disk[k][t].yaml.deps :
                      \E m \in Loc : disk[m][d].yaml # None /\ disk[m][d].yaml.col = "done"
        BY <1>13, <3>3, <4>1 DEF Heading, Permitted
      <4> QED
        BY <3>1, <3>2, <3>3, <4>1, <4>2
    <3> QED
      BY <3>3 DEF Permitted
  <2>4. ASSUME NEW t \in Ticket PROVE Arrives(v, F, t)'
    <3>1. Arrives(v, F, t)
      BY <1>13 DEF Heading
    <3>2. CASE t # s.t
      <4>1. /\ \A l \in Loc : disk'[l][t] = disk[l][t]
            /\ \A act : Left(v, act, t)' = Left(v, act, t)
            /\ \A l : Lies(t, l)' <=> Lies(t, l)
        BY <1>2, <1>4, <1>11, <3>2
      <4>2. \A l \in Loc : Becomes(v, t, disk[l][t], F[t]) => Becomes(v, t, disk[l][t], F[t])'
        BY <4>1 DEF Becomes
      <4> QED
        BY <1>1, <3>1, <4>1, <4>2 DEF Arrives
    <3>3. CASE t = s.t
      <4>1. F[t].yaml # None
        BY <1>1, <3>1, <3>3 DEF Arrives
      <4>2. /\ Left(v, "remove", t) = {} /\ F[t].yaml.phase = s.to
            /\ Becomes(v, t, disk[s.loc][t], F[t])
        BY <1>4, <3>1, <3>3, <4>1 DEF Arrives
      <4>3. disk'[s.to][t] = disk[s.loc][t]
        BY <1>2, <3>3
      <4>4. Becomes(v, t, disk[s.to][t], F[t])'
        <5>1. \A act : act # "rename" => Left(v, act, t)' = Left(v, act, t)
          BY <1>4
        <5>2. /\ Left(v, "yaml", t)' = Left(v, "yaml", t)
              /\ Left(v, "body", t)' = Left(v, "body", t)
              /\ Left(v, "completion", t)' = Left(v, "completion", t)
              /\ Left(v, "note", t)' = Left(v, "note", t)
          BY <5>1
        <5> QED
          BY <4>2, <4>3, <5>2 DEF Becomes
      <4>5. Left(v, "remove", t)' = {}
        BY <1>4, <4>2
      <4> QED
        BY <1>2, <1>5, <1>6, <1>11, <3>3, <4>1, <4>2, <4>4, <4>5 DEF Arrives
    <3> QED
      BY <3>2, <3>3
  <2> QED
    BY <1>1, <1>13, <2>3, <2>4 DEF Heading
<1>14. Holding(v)'
  BY <1>1, <1>3 DEF Holding
<1> QED
  BY <1>1, <1>3, <1>7, <1>9, <1>10, <1>12, <1>13, <1>14 DEF IInv

\* The step of a RemoveAll that finds nothing more to unlink.
LEMMA RemovedStep ==
  ASSUME NEW v, Slot = {v}, IInv(v), ApplyRemove(v), NEW s, s = Upcoming(v),
         disk[s.loc][s.t] = Gone
  PROVE  IInv(v)'
<1>1. /\ Applying(v) /\ s.act = "remove" /\ disk' = disk /\ cache' = cache
      /\ lock' = lock /\ born' = born /\ started' = started /\ cut' = cut /\ unseen' = unseen
      /\ job' = [job EXCEPT ![v].todo = Tail(@)]
  BY DEF ApplyRemove
<1>2. job[v] \in Job /\ job[v] # None /\ job[v].todo \in Seq(Step) /\ job[v].todo # <<>>
      /\ job[v].cached \in Cached /\ job[v].touched \in BOOLEAN /\ lock = v
  BY <1>1 DEF Applying, IInv, TypeOK, Job
<1> DEFINE rest == Tail(job[v].todo)
<1>3. rest \in Seq(Step)
  BY <1>2
<1>4. job' = [job EXCEPT ![v] = [job[v] EXCEPT !.todo = rest]]
  BY <1>1
<1> HIDE DEF rest
<1>5. /\ job'[v] = [job[v] EXCEPT !.todo = rest] /\ job'[v] \in Job /\ job'[v] # None
      /\ job'[v].todo = rest /\ job'[v].cached = job[v].cached
      /\ job'[v].touched = job[v].touched
      /\ job' \in [Slot -> Job \cup {None}]
  BY <1>2, <1>3, <1>4, NoneIsNoJob DEF IInv, TypeOK, Job
<1>6. /\ s \in Todo(v) /\ Todo(v)' = Todo(v) \ {s}
      /\ \A x \in Todo(v)' : ~ (x.act = "remove" /\ x.t = s.t)
      /\ \A x \in Todo(v) : x.act # "rename"
      /\ InOrder(v)'
  BY <1>1, <1>5, StepTaken DEF rest
<1>7. \A t : Copies(v, t)' = Copies(v, t)
  BY <1>1, <1>2, <1>5 DEF Copies
<1>8. /\ \A act, t : Left(v, act, t)' =
           IF act = "remove" /\ t = s.t THEN {} ELSE Left(v, act, t)
      /\ Left(v, "remove", s.t) # {}
  BY <1>1, <1>6 DEF Left
<1>9. TypeOK'
  BY <1>1, <1>5 DEF IInv, TypeOK
<1>10. \A t \in Ticket : Records(v, t)' \subseteq Records(v, t)
  BY <1>1, <1>8 DEF Records, HasYaml
<1>11. Vetted(v)' /\ \A d \in Ticket : IsWork(v, d) => IsWork(v, d)'
  BY <1>1, <1>10, Shrinks DEF IInv
<1>12. Agreed(v)'
  <2>1. \A t \in Ticket : EndsWork(v, t) => EndsWork(v, t)'
    BY <1>8, <1>11 DEF EndsWork
  <2>2. \A t \in Ticket : \A r \in Copies(v, t) : r.deps \subseteq Ticket
    BY Members DEF IInv, Rec
  <2>3. \A t \in Ticket : \A r \in Copies(v, t)' :
          (t \in born /\ \A d \in r.deps : IsWork(v, d))'
    BY <1>1, <1>7, <1>11, <2>2 DEF IInv, Agreed
  <2> QED
    BY <1>1, <1>2, <1>5, <1>11, <2>1, <2>3 DEF IInv, Agreed
<1>13. \A t, l : Lies(t, l)' <=> Lies(t, l)
  BY <1>1 DEF Lies
<1>14. Placed(v)'
  BY <1>1, <1>6, <1>8, <1>13 DEF IInv, Placed
<1>15. \A F : Resting(v, F) => Resting(v, F)'
  BY <1>1 DEF Resting, Holds
<1>16. ASSUME NEW F \in Board, Heading(v, F)
       PROVE  Heading(v, F)'
  <2>1. Permitted(F)'
    BY <1>1, <1>16 DEF Heading, Permitted
  <2>2. ASSUME NEW t \in Ticket PROVE Arrives(v, F, t)'
    <3>1. Arrives(v, F, t)
      BY <1>16 DEF Heading
    <3>2. CASE F[t].yaml = None
      <4>1. \A l \in Loc : disk[l][t] = Gone \/ Left(v, "remove", t)' # {}
        <5>1. CASE t = s.t
          <6>1. Lies(t, s.loc)
            BY <1>6, <5>1 DEF IInv, Placed, Left
          <6> QED
            BY <5>1, <6>1 DEF Lies
        <5>2. CASE t # s.t
          BY <1>8, <3>1, <3>2, <5>2 DEF Arrives
        <5> QED
          BY <5>1, <5>2
      <4> QED
        BY <1>1, <1>6, <3>1, <3>2, <4>1 DEF Arrives
    <3>3. CASE F[t].yaml # None
      <4>1. Left(v, "remove", t) = {}
        BY <3>1, <3>3 DEF Arrives
      <4>2. t # s.t
        BY <1>8, <4>1
      <4>3. \A act : Left(v, act, t)' = Left(v, act, t)
        BY <1>8, <4>2
      <4>4. \A l \in Loc : Becomes(v, t, disk[l][t], F[t]) => Becomes(v, t, disk[l][t], F[t])'
        BY <1>1, <4>3 DEF Becomes
      <4> QED
        BY <1>1, <1>6, <1>13, <3>1, <3>3, <4>3, <4>4 DEF Arrives
    <3> QED
      BY <3>2, <3>3
  <2> QED
    BY <1>5, <1>16, <2>1, <2>2 DEF Heading
<1>17. Holding(v)'
  BY <1>1, <1>2, <1>5 DEF Holding
<1> QED
  BY <1>1, <1>2, <1>5, <1>6, <1>9, <1>11, <1>12, <1>14, <1>15, <1>16, <1>17 DEF IInv

\* One unlink of RemoveAll takes files from one directory.
LEMMA Unlinks ==
  ASSUME NEW v, Slot = {v}, IInv(v), ApplyRemove(v), NEW s, s = Upcoming(v),
         disk[s.loc][s.t] # Gone
  PROVE  /\ s \in Left(v, "remove", s.t) /\ s.loc \in Loc /\ s.t \in Ticket
         /\ job[v] # None /\ cut' = cut
         /\ disk' \in [Loc -> [Ticket -> Files]]
         /\ \A m \in Loc, u \in Ticket : m # s.loc \/ u # s.t => disk'[m][u] = disk[m][u]
         /\ disk'[s.loc][s.t].yaml \in {disk[s.loc][s.t].yaml, None}
<1>1. /\ Applying(v) /\ s.act = "remove" /\ cut' = cut
      /\ \E g \in OneLess(disk[s.loc][s.t]) : disk' = [disk EXCEPT ![s.loc][s.t] = g]
  BY DEF ApplyRemove
<1>2. job[v] # None /\ job[v].todo \in Seq(Step) /\ job[v].todo # <<>>
  BY <1>1 DEF Applying, IInv, TypeOK, Job
<1>3. s \in Todo(v)
  <2>1. DOMAIN job[v].todo = 1..Len(job[v].todo) /\ 1 \in DOMAIN job[v].todo
        /\ Head(job[v].todo) = job[v].todo[1]
    BY <1>2
  <2> QED
    BY <1>2, <2>1 DEF Todo, Upcoming
<1>4. s.loc \in Loc /\ s.t \in Ticket
  BY <1>3, Members DEF IInv
<1>5. \A f \in Files : \A g \in OneLess(f) : g \in Files /\ g.yaml \in {f.yaml, None}
  BY Typed, ZenonT(30) DEF OneLess, Files, Gone, IInv
<1>6. /\ disk' \in [Loc -> [Ticket -> Files]]
      /\ \A m \in Loc, u \in Ticket : m # s.loc \/ u # s.t => disk'[m][u] = disk[m][u]
      /\ disk'[s.loc][s.t].yaml \in {disk[s.loc][s.t].yaml, None}
  <2>1. PICK g \in OneLess(disk[s.loc][s.t]) : disk' = [disk EXCEPT ![s.loc][s.t] = g]
    BY <1>1
  <2>2. disk[s.loc][s.t] \in Files /\ disk \in [Loc -> [Ticket -> Files]]
    BY <1>4 DEF IInv, TypeOK
  <2>3. g \in Files /\ g.yaml \in {disk[s.loc][s.t].yaml, None}
    BY <1>5, <2>2
  <2> QED
    BY <1>4, <2>1, <2>2, <2>3
<1> QED
  BY <1>1, <1>2, <1>3, <1>4, <1>6 DEF Left


\* One that unlinks a file.
LEMMA UnlinkStep ==
  ASSUME NEW v, Slot = {v}, IInv(v), ApplyRemove(v), NEW s, s = Upcoming(v),
         disk[s.loc][s.t] # Gone
  PROVE  IInv(v)'
<1>1. /\ Applying(v) /\ s.act = "remove" /\ cache' = cache
      /\ lock' = lock /\ born' = born /\ started' = started /\ cut' = cut /\ unseen' = unseen
      /\ job' = [job EXCEPT ![v].touched = TRUE]
      /\ \E g \in OneLess(disk[s.loc][s.t]) : disk' = [disk EXCEPT ![s.loc][s.t] = g]
  BY DEF ApplyRemove
<1>2. job[v] \in Job /\ job[v] # None /\ job[v].todo \in Seq(Step) /\ job[v].todo # <<>>
      /\ job[v].cached \in Cached /\ lock = v
  BY <1>1 DEF Applying, IInv, TypeOK, Job
<1>3. job' = [job EXCEPT ![v] = [job[v] EXCEPT !.touched = TRUE]]
  BY <1>1
<1>4. /\ job'[v] \in Job /\ job'[v] # None
      /\ job'[v].todo = job[v].todo /\ job'[v].cached = job[v].cached
      /\ job'[v].touched
      /\ job' \in [Slot -> Job \cup {None}]
  BY <1>2, <1>3, NoneIsNoJob DEF IInv, TypeOK, Job
<1>5. Todo(v)' = Todo(v) /\ InOrder(v)'
  BY <1>2, <1>4 DEF Todo, IInv, InOrder
<1>6. s \in Todo(v)
  <2>1. DOMAIN job[v].todo = 1..Len(job[v].todo) /\ 1 \in DOMAIN job[v].todo
        /\ Head(job[v].todo) = job[v].todo[1]
    BY <1>2
  <2> QED
    BY <1>2, <2>1 DEF Todo, Upcoming
<1>7. /\ \A act, t : Left(v, act, t)' = Left(v, act, t)
      /\ s \in Left(v, "remove", s.t)
      /\ \A t : Copies(v, t)' = Copies(v, t)
  BY <1>1, <1>2, <1>4, <1>5, <1>6 DEF Left, Copies
<1>8. s.loc \in Loc /\ s.t \in Ticket
  BY <1>6, Members DEF IInv
<1>9. /\ disk' \in [Loc -> [Ticket -> Files]]
      /\ \A m \in Loc, u \in Ticket : m # s.loc \/ u # s.t => disk'[m][u] = disk[m][u]
      /\ disk'[s.loc][s.t].yaml \in {disk[s.loc][s.t].yaml, None}
  BY Unlinks
<1>11. TypeOK'
  BY <1>1, <1>4, <1>9 DEF IInv, TypeOK
<1>12. \A m \in Loc, u \in Ticket :
          disk'[m][u].yaml # None => disk'[m][u].yaml = disk[m][u].yaml
  BY <1>9
<1>13. \A t \in Ticket : Records(v, t)' \subseteq Records(v, t)
  BY <1>7, <1>12 DEF Records, HasYaml
<1>14. Vetted(v)' /\ \A d \in Ticket : IsWork(v, d) => IsWork(v, d)'
  BY <1>1, <1>13, Shrinks DEF IInv
<1>15. Agreed(v)'
  <2>1. \A t \in Ticket : EndsWork(v, t) => EndsWork(v, t)'
    BY <1>7, <1>14 DEF EndsWork
  <2>2. \A t \in Ticket : \A r \in Copies(v, t) : r.deps \subseteq Ticket
    BY Members DEF IInv, Rec
  <2>3. \A t \in Ticket : \A r \in Copies(v, t)' :
          (t \in born /\ \A d \in r.deps : IsWork(v, d))'
    BY <1>1, <1>7, <1>14, <2>2 DEF IInv, Agreed
  <2> QED
    BY <1>1, <1>2, <1>4, <1>14, <2>1, <2>3 DEF IInv, Agreed
<1>16. \A x \in Todo(v) : x.act # "rename"
  <2>1. DOMAIN job[v].todo = 1..Len(job[v].todo) /\ 1 \in DOMAIN job[v].todo
        /\ s = job[v].todo[1]
    BY <1>2 DEF Upcoming
  <2> QED
    BY <1>1, <1>2, <2>1, SMTT(30) DEF IInv, InOrder, Todo
<1>17. Lies(s.t, s.loc) /\ s.t \in born
  BY <1>6, <1>16 DEF IInv, Placed, Left
<1>18. \A t \in Ticket, l \in Loc : Lies(t, l) => Lies(t, l)'
  <2> SUFFICES ASSUME NEW t \in Ticket, NEW l \in Loc, Lies(t, l) PROVE Lies(t, l)'
    OBVIOUS
  <2>1. t = s.t => l = s.loc
    BY <1>8 DEF Lies
  <2> QED
    BY <1>9, <2>1 DEF Lies
<1>19. Placed(v)'
  <2>1. \A t \in Ticket : \E l \in Loc : Lies(t, l)'
    BY <1>18 DEF IInv, Placed
  <2>2. \A t \in Ticket \ born, l \in Loc : disk'[l][t] = Gone
    BY <1>9, <1>17 DEF IInv, Placed
  <2>3. \A x \in Todo(v) : x.t \in born /\ Lies(x.t, x.loc)'
    BY <1>16, <1>18, Members DEF IInv, Placed, Left
  <2> QED
    BY <1>1, <1>5, <1>7, <1>16, <2>1, <2>2, <2>3 DEF IInv, Placed, Left
<1>20. ASSUME NEW F \in Board, Heading(v, F)
       PROVE  Heading(v, F)'
  <2>1. F[s.t].yaml = None
    BY <1>7, <1>8, <1>20 DEF Heading, Arrives
  <2>2. Permitted(F)'
    <3>1. ASSUME NEW m \in Loc, NEW d \in Ticket, disk[m][d].yaml # None,
                 disk[m][d].yaml.col = "done"
          PROVE  disk'[m][d].yaml = disk[m][d].yaml
      BY <1>9, <1>20, <2>1, <3>1 DEF Heading, Permitted
    <3>2. \A m \in Loc, u \in Ticket : disk[m][u].yaml # None =>
             disk[m][u].yaml.deps \subseteq Ticket
      BY Typed DEF IInv, Rec
    <3> QED
      BY <1>12, <1>20, <3>1, <3>2 DEF Heading, Permitted
  <2>3. ASSUME NEW t \in Ticket PROVE Arrives(v, F, t)'
    <3>1. Arrives(v, F, t)
      BY <1>20 DEF Heading
    <3>2. CASE t = s.t
      BY <1>5, <1>7, <2>1, <3>1, <3>2 DEF Arrives
    <3>3. CASE t # s.t
      <4>1. \A l \in Loc : disk'[l][t] = disk[l][t]
        BY <1>9, <3>3
      <4>2. \A l : Lies(t, l)' <=> Lies(t, l)
        BY <4>1 DEF Lies
      <4>3. \A l \in Loc : Becomes(v, t, disk[l][t], F[t]) => Becomes(v, t, disk[l][t], F[t])'
        BY <1>7, <4>1 DEF Becomes
      <4> QED
        BY <1>5, <1>7, <3>1, <4>1, <4>2, <4>3 DEF Arrives
    <3> QED
      BY <3>2, <3>3
  <2> QED
    BY <1>4, <1>20, <2>2, <2>3 DEF Heading
<1>21. Holding(v)'
  BY <1>1, <1>2, <1>4 DEF Holding
<1> QED
  BY <1>1, <1>2, <1>4, <1>5, <1>11, <1>14, <1>15, <1>19, <1>20, <1>21 DEF IInv

-----------------------------------------------------------------------------
(* The handlers, up to their Commit.                                       *)

\* What every handler begins with.
LEMMA Begun ==
  ASSUME NEW v, Slot = {v}, IInv(v), Idle(v), NEW todo \in Seq(Step), NEW cached \in Cached,
         Begin(v, todo, cached)
  PROVE  /\ job'[v] \in Job /\ job'[v] # None /\ job' \in [Slot -> Job \cup {None}]
         /\ job'[v].todo = todo /\ job'[v].cached = cached /\ ~job'[v].touched
         /\ Todo(v) = {} /\ Todo(v)' = {todo[i] : i \in DOMAIN todo}
         /\ started \in Nat /\ started' = started + 1 /\ started' \in 0..MaxOps
         /\ disk' = disk /\ cache' = cache /\ lock' = lock /\ cut' = cut /\ unseen' = unseen
         /\ Holding(v)'
<1>1. [todo |-> todo, cached |-> cached, touched |-> FALSE] \in Job
  BY DEF Job
<1>2. job'[v] = [todo |-> todo, cached |-> cached, touched |-> FALSE]
  BY DEF Begin, IInv, TypeOK
<1>3. job'[v] \in Job /\ job'[v] # None /\ job' \in [Slot -> Job \cup {None}]
  BY <1>1, <1>2, NoneIsNoJob DEF Begin, IInv, TypeOK
<1>4. job'[v].todo = todo /\ job'[v].cached = cached /\ ~job'[v].touched
  BY <1>2
<1>5. Todo(v) = {} /\ Todo(v)' = {todo[i] : i \in DOMAIN todo}
  BY <1>3, <1>4 DEF Todo, Idle
<1>6. started \in Nat /\ started' = started + 1 /\ started' \in 0..MaxOps
  BY MaxOpsAssumption DEF Begin, IInv, TypeOK
<1>7. disk' = disk /\ cache' = cache /\ lock' = lock /\ cut' = cut /\ unseen' = unseen
  BY DEF Begin
<1> QED
  BY <1>3, <1>4, <1>5, <1>6, <1>7 DEF Holding

\* A handler that changes ticket t: its record becomes rec, in the directory
\* it has or after a rename to to, and its cached copy c.
Amending(v, t, todo, to, rec) ==
  /\ \A i, j \in DOMAIN todo :
       /\ todo[i].act = todo[j].act => i = j
       /\ todo[i].act = "rename" => i = 1
  /\ \A i \in DOMAIN todo :
       /\ todo[i].t = t /\ todo[i].act # "remove"
       /\ todo[i].act = "yaml" => todo[i].rec = rec
       /\ todo[i].act = "rename" => todo[i].loc = DirOf(t) /\ todo[i].to = to
       /\ todo[i].act # "rename" => todo[i].loc = to
  /\ \E i \in DOMAIN todo : todo[i].act = "yaml"
  /\ to # DirOf(t) => \E i \in DOMAIN todo : todo[i].act = "rename"

\* What must be so of the new record however earlier handlers have failed.
Fitting(v, t, rec, c) ==
  /\ rec.num = RecordOf(t).num
  /\ rec.kind \in {RecordOf(t).kind, "work"}
  /\ rec.kind = "idea" => rec.col = "todo"
  /\ \A d \in rec.deps \cup c.deps : IsWork(v, d)
  /\ c.kind = "work" => rec.kind = "work"

\* Beginning to amend a ticket keeps what holds however handlers fail.
LEMMA AmendKeeps ==
  ASSUME NEW v, Slot = {v}, IInv(v), Idle(v), NEW t \in Known(v) \cap OnDisk,
         NEW todo \in Seq(Step), NEW to \in Loc, NEW rec \in Rec, NEW c \in Rec,
         Begin(v, todo, [cache[v] EXCEPT ![t] = c]), born' = born,
         Amending(v, t, todo, to, rec), Fitting(v, t, rec, c)
  PROVE  /\ TypeOK' /\ IsFiniteSet(born)'
         /\ Vetted(v)' /\ Agreed(v)' /\ Placed(v)' /\ InOrder(v)' /\ Holding(v)'
         /\ \A F : Resting(v, F) => Resting(v, F)'
<1> DEFINE cached == [cache[v] EXCEPT ![t] = c]
           P == {todo[i] : i \in DOMAIN todo}
<1>1. t \in Ticket /\ cache[v] # None /\ job[v] = None /\ cache[v] \in Cached /\ cached \in Cached
  BY DEF Known, Idle, IInv, TypeOK, Cached
<1>2. /\ job'[v] \in Job /\ job'[v] # None /\ job' \in [Slot -> Job \cup {None}]
      /\ job'[v].todo = todo /\ job'[v].cached = cached /\ ~job'[v].touched
      /\ Todo(v) = {} /\ Todo(v)' = P
      /\ started \in Nat /\ started' = started + 1 /\ started' \in 0..MaxOps
      /\ disk' = disk /\ cache' = cache /\ lock' = lock /\ cut' = cut /\ unseen' = unseen
      /\ Holding(v)'
  BY <1>1, Begun
<1>3. TypeOK'
  BY <1>2 DEF IInv, TypeOK
<1>4. /\ \A u \in Ticket : u # t => Left(v, "yaml", u)' = {}
      /\ Left(v, "yaml", t)' # {} /\ \A s \in Left(v, "yaml", t)' : s.rec = rec
      /\ \A act, u : Left(v, act, u) = {}
  BY <1>2 DEF Amending, Left
<1>5. /\ DirOf(t) \in Loc /\ RecordOf(t) = disk[DirOf(t)][t].yaml /\ RecordOf(t) # None
      /\ RecordOf(t) \in Records(v, t)
  BY Found DEF IInv, Records, HasYaml
<1>6. /\ \A u \in Ticket : u # t => Records(v, u)' = Records(v, u)
      /\ \A r \in Records(v, t)' : r \in Records(v, t) \/ r = rec
  BY <1>2, <1>4 DEF Records, HasYaml
<1>7. t \in born /\ RecordOf(t).num <= started
  BY <1>1, <1>5 DEF IInv, Vetted
<1>8. \A d \in Ticket : IsWork(v, d) => IsWork(v, d)'
  BY <1>5, <1>6 DEF IsWork, Fitting
<1>9. Vetted(v)'
  <2>1. \A u \in Ticket : \A r \in Records(v, u) : r.deps \subseteq Ticket /\ r.num \in Nat
    BY Members DEF IInv, Rec
  <2>2. ASSUME NEW u \in Ticket, NEW r \in Records(v, u)'
        PROVE  (/\ u \in born /\ r.num <= started
                /\ r.kind = "idea" => r.col = "todo"
                /\ \A d \in r.deps : IsWork(v, d))'
    <3>1. CASE r \in Records(v, u)
      BY <1>2, <1>8, <2>1, <3>1 DEF IInv, Vetted
    <3>2. CASE r = rec /\ u = t
      BY <1>2, <1>7, <1>8, <2>1, <1>5, <3>2 DEF Fitting, Rec
    <3> QED
      BY <1>6, <2>2, <3>1, <3>2
  <2>3. ASSUME NEW u \in Ticket, NEW w \in Ticket,
               NEW r \in Records(v, u)', NEW q \in Records(v, w)', r.num = q.num
        PROVE  u = w
    <3>1. /\ \E a \in Records(v, u) : a.num = r.num
          /\ \E b \in Records(v, w) : b.num = q.num
      BY <1>5, <1>6 DEF Fitting
    <3> QED
      BY <2>3, <3>1 DEF IInv, Vetted
  <2> QED
    BY <2>2, <2>3 DEF Vetted
<1>10. Agreed(v)'
  <2>1. \A u \in Ticket : \A r \in Copies(v, u)' : r \in Copies(v, u) \/ (r = c /\ u = t)
    BY <1>1, <1>2 DEF Copies, Cached
  <2>2. \A u \in Ticket : \A r \in Copies(v, u) : r.deps \subseteq Ticket
    BY Members DEF IInv, Rec
  <2>3. ASSUME NEW u \in Ticket, NEW r \in Copies(v, u)'
        PROVE  (u \in born /\ \A d \in r.deps : IsWork(v, d))'
    <3>1. CASE r \in Copies(v, u)
      BY <1>8, <2>2, <3>1 DEF IInv, Agreed
    <3>2. CASE r = c /\ u = t
      BY <1>7, <1>8, <3>2 DEF Fitting, Rec
    <3> QED
      BY <2>1, <2>3, <3>1, <3>2
  <2>4. ASSUME NEW u \in Ticket, cached[u] # None, cached[u].kind = "work"
        PROVE  EndsWork(v, u)'
    <3>1. CASE u = t
      BY <1>1, <1>4, <2>4, <3>1 DEF EndsWork, Fitting, Cached
    <3>2. CASE u # t
      <4>1. IsWork(v, u)
        BY <1>1, <2>4, <3>2 DEF IInv, Agreed, Cached
      <4> QED
        BY <1>4, <1>8, <3>2, <4>1 DEF EndsWork
    <3> QED
      BY <3>1, <3>2
  <2> QED
    BY <1>1, <1>2, <1>8, <2>3, <2>4 DEF IInv, Agreed
<1>11. InOrder(v)'
  BY <1>2 DEF InOrder, Amending
<1>12. Placed(v)'
  <2>1. \A u, l : Lies(u, l)' <=> Lies(u, l)
    BY <1>2 DEF Lies
  <2>2. Lies(t, DirOf(t))
    <3>1. PICK l \in Loc : Lies(t, l)
      BY <1>1 DEF IInv, Placed
    <3>2. l = DirOf(t)
      BY <1>5, <3>1, Typed DEF Lies, IInv
    <3> QED
      BY <3>1, <3>2
  <2>3. \A s \in P : /\ s.t = t
                     /\ s.act = "rename" => s.loc = DirOf(t) /\ s.to = to
                     /\ s.act # "rename" => s.loc = to
    BY DEF Amending
  <2>4. Left(v, "rename", t)' = {} => to = DirOf(t)
    BY <1>2, <2>3 DEF Amending, Left
  <2>5. \A s \in P : Left(v, "rename", s.t)' = {} => s.act # "rename"
    BY <1>2 DEF Left
  <2>6. /\ \A u \in Ticket : \E l \in Loc : Lies(u, l)'
        /\ \A u \in Ticket \ born', l \in Loc : disk'[l][u] = Gone
    BY <1>2, <2>1 DEF IInv, Placed
  <2>7. ASSUME NEW s \in P
        PROVE  /\ s.t \in born'
               /\ Left(v, "rename", s.t)' = {} => Lies(s.t, s.loc)'
               /\ \A r \in Left(v, "rename", s.t)' :
                    Lies(s.t, r.loc)' /\ (s.act # "rename" => s.loc = r.to)
    <3>1. s.t = t
      BY <2>3
    <3>2. \A r \in Left(v, "rename", t)' : r \in P /\ r.act = "rename"
      BY <1>2 DEF Left
    <3> HIDE DEF P
    <3> QED
      BY <1>7, <2>4, <2>5, <2>1, <2>2, <2>3, <3>1, <3>2
  <2> HIDE DEF P
  <2> QED
    BY <1>2, <2>3, <2>6, <2>7 DEF Placed
<1>13. \A F : Resting(v, F) => Resting(v, F)'
  BY <1>2 DEF Resting, Holds
<1> QED
  BY <1>2, <1>3, <1>9, <1>10, <1>11, <1>12, <1>13 DEF IInv

\* The list todo makes files f, with record rec written, into g.
Turns(todo, f, rec, g) ==
  /\ g.yaml = rec
  /\ g.body = (f.body \/ \E i \in DOMAIN todo : todo[i].act = "body")
  /\ g.completion = (f.completion \/ \E i \in DOMAIN todo : todo[i].act = "completion")
  /\ IF \E i \in DOMAIN todo : todo[i].act = "note"
     THEN \A i \in DOMAIN todo : todo[i].act = "note" => g.trail = Heard(f.trail, todo[i].says)
     ELSE g.trail = f.trail

\* A done ticket stays done, and one enters in_progress only unblocked.
Passes(F, t, rec) ==
  /\ F[t].yaml.col = "done" => rec.col = "done"
  /\ Enforce /\ F[t].yaml.col # "in_progress" /\ rec.col = "in_progress" =>
       \A d \in F[t].yaml.deps : F[d].yaml # None /\ F[d].yaml.col = "done"

\* A ticket no step is about is where the board has it.
LEMMA Arrived ==
  ASSUME NEW v \in Slot, TypeOK, NEW F \in Board, Holds(F), disk' = disk,
         NEW G, NEW u \in Ticket, G[u] = F[u], \A s \in Todo(v)' : s.t # u
  PROVE  Arrives(v, G, u)'
<1>1. \A act : Left(v, act, u)' = {}
  BY DEF Left
<1>2. \A l \in Loc : disk[l][u] = IF F[u].yaml # None /\ F[u].yaml.phase = l
                                  THEN F[u] ELSE Gone
  BY DEF Holds
<1>3. CASE F[u].yaml = None
  BY <1>1, <1>2, <1>3 DEF Arrives
<1>4. CASE F[u].yaml # None
  <2>1. F[u].yaml.phase \in Loc /\ disk[F[u].yaml.phase][u] = F[u] /\ F[u] \in Files
    BY <1>2, <1>4, Boarded
  <2>2. Lies(u, F[u].yaml.phase)'
    BY <1>2 DEF Lies
  <2>3. Becomes(v, u, disk[F[u].yaml.phase][u], G[u])'
    BY <1>1, <2>1 DEF Becomes, Files
  <2> QED
    BY <1>1, <1>4, <2>1, <2>2, <2>3 DEF Arrives
<1> QED
  BY <1>3, <1>4

\* It heads for the board with the amended ticket.
LEMMA AmendHeads ==
  ASSUME NEW v, Slot = {v}, IInv(v), Idle(v), NEW t \in Known(v) \cap OnDisk,
         NEW todo \in Seq(Step), NEW to \in Loc, NEW rec \in Rec,
         Begin(v, todo, [cache[v] EXCEPT ![t] = rec]), Amending(v, t, todo, to, rec),
         NEW F \in Board, Resting(v, F), NEW g \in Files,
         rec.phase = to, Turns(todo, F[t], rec, g), Passes(F, t, rec),
         Sound([F EXCEPT ![t] = g])
  PROVE  \E G \in Board : Heading(v, G)'
<1> DEFINE G == [F EXCEPT ![t] = g]
           P == {todo[i] : i \in DOMAIN todo}
<1>1. t \in Ticket /\ cache[v] # None /\ cache[v] \in Cached
      /\ [cache[v] EXCEPT ![t] = rec] \in Cached
  BY DEF Known, Idle, IInv, TypeOK, Cached
<1>2. /\ job'[v].cached = [cache[v] EXCEPT ![t] = rec]
      /\ Todo(v)' = P /\ disk' = disk
  BY <1>1, Begun
<1>3. /\ t \in Present(F) /\ F[t].yaml # None /\ F[t].yaml \in Rec
      /\ DirOf(t) = F[t].yaml.phase /\ DirOf(t) \in Loc /\ disk[DirOf(t)][t] = F[t]
      /\ cache[v] = YamlOf(F)
  BY <1>1, Reads, Boarded DEF Resting, IInv, Present
<1>4. \A u \in Ticket, l \in Loc :
        disk[l][u] = IF F[u].yaml # None /\ F[u].yaml.phase = l THEN F[u] ELSE Gone
  BY DEF Resting, Holds
<1>5. G \in Board /\ G[t] = g /\ g.yaml = rec /\ rec # None
      /\ \A u \in Ticket : u # t => G[u] = F[u]
  BY <1>1, NoneAssumption DEF Board, Turns
<1>6. job'[v].cached = YamlOf(G)
  BY <1>1, <1>2, <1>3, <1>5 DEF YamlOf
<1> HIDE DEF G
<1>7. Permitted(G)'
  <2>1. \A u \in Ticket, l \in Loc : disk[l][u].yaml # None => disk[l][u].yaml = F[u].yaml
                                                          /\ F[u].yaml # None
    BY <1>4, Typed DEF IInv
  <2>2. \A d \in Ticket : F[d].yaml # None /\ F[d].yaml.col = "done" =>
           \E m \in Loc : disk[m][d].yaml # None /\ disk[m][d].yaml.col = "done"
    BY <1>4, Boarded
  <2>3. \A u \in Ticket : F[u].yaml # None => F[u].yaml.deps \subseteq Ticket
    BY Boarded DEF Rec
  <2>4. ASSUME NEW u \in Ticket, NEW l \in Loc, disk[l][u].yaml # None
        PROVE  /\ disk[l][u].yaml.col = "done" => G[u].yaml # None /\ G[u].yaml.col = "done"
               /\ (/\ Enforce /\ disk[l][u].yaml.col # "in_progress"
                   /\ G[u].yaml # None /\ G[u].yaml.col = "in_progress")
                    => \A d \in disk[l][u].yaml.deps :
                         \E m \in Loc : disk[m][d].yaml # None /\ disk[m][d].yaml.col = "done"
    <3>1. disk[l][u].yaml = F[u].yaml /\ F[u].yaml # None
      BY <2>1, <2>4
    <3>2. CASE u = t
      BY <1>5, <2>2, <2>3, <3>1, <3>2 DEF Passes
    <3>3. CASE u # t
      BY <1>5, <3>1, <3>3
    <3> QED
      BY <3>2, <3>3
  <2> QED
    BY <1>2, <2>4 DEF Permitted
<1>8. \A s \in P : /\ s.t = t /\ s.act # "remove"
                   /\ s.act = "yaml" => s.rec = rec
                   /\ s.act = "rename" => s.loc = DirOf(t) /\ s.to = to
                   /\ s.act # "rename" => s.loc = to
  BY DEF Amending
<1>9. \A act, u : Left(v, act, u)' = {s \in P : s.act = act /\ u = t}
  BY <1>2, <1>8 DEF Left
<1>10. ASSUME NEW u \in Ticket, u # t PROVE Arrives(v, G, u)'
  <2>1. \A s \in Todo(v)' : s.t # u
    BY <1>2, <1>8, <1>10
  <2>2. G[u] = F[u] /\ Holds(F)
    BY <1>5, <1>10 DEF Resting
  <2> QED
    BY <1>2, <2>1, <2>2, Arrived DEF IInv
<1>11. Arrives(v, G, t)'
  <2>1. Left(v, "remove", t)' = {}
    BY <1>8, <1>9
  <2>2. \A s \in Left(v, "rename", t)' : s.loc = DirOf(t) /\ s.to = to
    BY <1>8, <1>9
  <2>3. Left(v, "rename", t)' = {} => to = DirOf(t)
    BY <1>9 DEF Amending
  <2>6. DirOf(t)' = DirOf(t)
    BY <1>2 DEF DirOf, HasYaml
  <2>4. Lies(t, DirOf(t))'
    <3>1. \A m \in Loc \ {DirOf(t)} : disk'[m][t] = Gone
      BY <1>1, <1>2, <1>3, <1>4
    <3> QED
      BY <2>6, <3>1 DEF Lies
  <2>5. Becomes(v, t, disk[DirOf(t)][t], G[t])'
    <3>1. Left(v, "yaml", t)' # {} /\ \A s \in Left(v, "yaml", t)' : s.rec = rec
      BY <1>8, <1>9 DEF Amending
    <3>2. ASSUME NEW act
          PROVE  /\ Left(v, act, t)' # {} => \E i \in DOMAIN todo : todo[i].act = act
                 /\ \A i \in DOMAIN todo : todo[i].act = act => todo[i] \in Left(v, act, t)'
                 /\ \A s \in Left(v, act, t)' : \E i \in DOMAIN todo : todo[i] = s /\ s.act = act
      <4>1. Left(v, act, t)' = {s \in P : s.act = act}
        BY <1>9
      <4> QED
        BY <4>1
    <3> HIDE DEF P
    <3>3. g.body = (F[t].body \/ Left(v, "body", t)' # {})
      BY <3>2 DEF Turns
    <3>4. g.completion = (F[t].completion \/ Left(v, "completion", t)' # {})
      BY <3>2 DEF Turns
    <3>5. IF Left(v, "note", t)' = {} THEN g.trail = F[t].trail
          ELSE \A s \in Left(v, "note", t)' : g.trail = Heard(F[t].trail, s.says)
      BY <3>2 DEF Turns
    <3>6. disk'[DirOf(t)'][t] = F[t]
      BY <1>2, <1>3, <2>6
    <3> QED
      BY <1>5, <3>1, <3>3, <3>4, <3>5, <3>6 DEF Becomes
  <2> QED
    BY <1>2, <1>3, <1>5, <1>8, <2>4, <2>5, <2>6, <2>1, <2>2, <2>3 DEF Arrives
<1>12. Heading(v, G)'
  BY <1>6, <1>7, <1>10, <1>11 DEF Heading, G
<1> QED
  BY <1>5, <1>12

\* A sound board stays sound when a ticket's files change and its
\* dependencies do not.
LEMMA SoundTouched ==
  ASSUME NEW F \in Board, Sound(F), NEW t \in Present(F), NEW g \in Files,
         g.yaml # None, Whole(g), g.yaml.deps = F[t].yaml.deps
  PROVE  Sound([F EXCEPT ![t] = g])
<1> DEFINE G == [F EXCEPT ![t] = g]
<1>1. /\ t \in Ticket /\ F[t].yaml # None /\ G[t] = g
      /\ \A u \in Ticket : u # t => G[u] = F[u]
  BY DEF Present, Board
<1> HIDE DEF G
<1>2. Present(G) = Present(F) /\ \A u \in Present(F) : G[u].yaml.deps = F[u].yaml.deps
  BY <1>1 DEF Present
<1>3. \A u \in Ticket : Whole(G[u])
  BY <1>1 DEF Sound
<1>4. Resolved(G) /\ NoCycle(G)
  BY <1>2 DEF Sound, Resolved, NoCycle
<1> QED
  BY <1>3, <1>4 DEF Sound, G

\* What a handler has cached and what it reads are one record, its board's.
LEMMA SameRecord ==
  ASSUME NEW v \in Slot, IInv(v), Idle(v), NEW t \in Known(v) \cap OnDisk,
         NEW F \in Board, Resting(v, F)
  PROVE  /\ t \in Present(F) /\ F[t].yaml # None /\ F[t].yaml \in Rec
         /\ cache[v][t] = F[t].yaml /\ RecordOf(t) = F[t].yaml
         /\ DirOf(t) = F[t].yaml.phase /\ F[t].yaml.phase \in Loc
         /\ Known(v) = Present(F) /\ OnDisk = Present(F)
         /\ F[t] \in Files /\ Whole(F[t])
         /\ \A u \in Present(F) : cache[v][u] = F[u].yaml /\ F[u].yaml \in Rec
                                  /\ RecordOf(u) = F[u].yaml
<1>1. cache[v] = YamlOf(F) /\ Sound(F) /\ Holds(F)
  BY DEF Resting, Idle
<1>2. OnDisk = Present(F) /\ Known(v) = Present(F)
  BY <1>1, Reads DEF IInv, Known, YamlOf, Present
<1>3. \A u \in Present(F) : /\ u \in Ticket /\ F[u].yaml # None /\ F[u].yaml \in Rec
                           /\ cache[v][u] = F[u].yaml /\ RecordOf(u) = F[u].yaml
  BY <1>1, Reads, Boarded DEF IInv, YamlOf, Present
<1> QED
  BY <1>1, <1>2, <1>3, Reads, Boarded DEF IInv, Sound

\* What a handler knows of the ticket it is about.
LEMMA KnownTicket ==
  ASSUME NEW v \in Slot, IInv(v), Idle(v), NEW t \in Known(v) \cap OnDisk
  PROVE  /\ t \in Ticket /\ DirOf(t) \in Loc /\ RecordOf(t) \in Rec /\ cache[v][t] \in Rec
         /\ cache[v] \in Cached /\ cache[v] # None
         /\ RecordOf(t).kind = "idea" => RecordOf(t).col = "todo"
         /\ \A d \in RecordOf(t).deps \cup cache[v][t].deps : IsWork(v, d)
         /\ cache[v][t].kind = "work" => RecordOf(t).kind = "work"
<1>1. /\ t \in Ticket /\ DirOf(t) \in Loc /\ RecordOf(t) \in Rec
      /\ RecordOf(t) \in Records(v, t)
  BY Found DEF IInv, Records, HasYaml
<1>2. /\ cache[v] \in Cached /\ cache[v] # None /\ cache[v][t] \in Rec
      /\ cache[v][t] \in Copies(v, t)
  BY <1>1 DEF IInv, TypeOK, Idle, Known, Cached, Copies
<1>3. \A d \in RecordOf(t).deps : IsWork(v, d)
  BY <1>1 DEF IInv, Vetted
<1>4. \A d \in cache[v][t].deps : IsWork(v, d)
  BY <1>1, <1>2 DEF IInv, Agreed
<1>5. cache[v][t].kind = "work" => RecordOf(t).kind = "work"
  BY <1>1, <1>2, NoneAssumption DEF IInv, Agreed, IsWork
<1> QED
  BY <1>1, <1>2, <1>3, <1>4, <1>5 DEF IInv, Vetted

\* A handler that amends a ticket preserves the invariant.
LEMMA AmendStep ==
  ASSUME NEW v, Slot = {v}, IInv(v), Idle(v), NEW t \in Known(v) \cap OnDisk,
         NEW todo \in Seq(Step), NEW to \in Loc, NEW rec \in Rec, NEW c \in Rec,
         Begin(v, todo, [cache[v] EXCEPT ![t] = c]), born' = born,
         Amending(v, t, todo, to, rec), Fitting(v, t, rec, c),
         ASSUME NEW F \in Board, Resting(v, F)
         PROVE  /\ c = rec /\ rec.phase = to /\ Passes(F, t, rec)
                /\ \E g \in Files : Turns(todo, F[t], rec, g) /\ Sound([F EXCEPT ![t] = g])
  PROVE  IInv(v)'
<1>1. /\ TypeOK' /\ IsFiniteSet(born)'
      /\ Vetted(v)' /\ Agreed(v)' /\ Placed(v)' /\ InOrder(v)' /\ Holding(v)'
      /\ \A F : Resting(v, F) => Resting(v, F)'
  BY AmendKeeps
<1>2. cut' = cut /\ job[v] = None
  BY DEF Begin, Idle
<1>3. ASSUME ~cut
      PROVE  /\ \E F \in Board : Resting(v, F)'
             /\ \E G \in Board : Heading(v, G)'
  <2>1. PICK F \in Board : Resting(v, F)
    BY <1>2, <1>3 DEF IInv
  <2>2. /\ c = rec /\ rec.phase = to /\ Passes(F, t, rec)
        /\ \E g \in Files : Turns(todo, F[t], rec, g) /\ Sound([F EXCEPT ![t] = g])
    BY <2>1
  <2>3. PICK g \in Files : Turns(todo, F[t], rec, g) /\ Sound([F EXCEPT ![t] = g])
    BY <2>2
  <2>4. \E G \in Board : Heading(v, G)'
    BY <2>1, <2>2, <2>3, AmendHeads
  <2> QED
    BY <1>1, <2>1, <2>4
<1> QED
  BY <1>1, <1>2, <1>3 DEF IInv

\* The list of a handler that rewrites the record and leaves a comment.
LEMMA YamlNote ==
  ASSUME NEW v, NEW t \in Ticket, DirOf(t) \in Loc, NEW rec \in Rec, NEW says \in Trail,
         NEW todo, todo = <<WriteYaml(DirOf(t), t, rec), WriteNote(DirOf(t), t, says)>>
  PROVE  /\ todo \in Seq(Step) /\ Amending(v, t, todo, DirOf(t), rec)
         /\ \A f, g \in Files :
              (/\ g.yaml = rec /\ g.body = f.body /\ g.completion = f.completion
               /\ g.trail = Heard(f.trail, says)) => Turns(todo, f, rec, g)
<1> DEFINE l == DirOf(t)
           a == WriteYaml(l, t, rec)
           b == WriteNote(l, t, says)
<1>1. a \in YamlStep /\ b \in NoteStep
  BY DEF WriteYaml, WriteNote, YamlStep, NoteStep
<1>2. /\ a.act = "yaml" /\ a.t = t /\ a.loc = l /\ a.rec = rec
      /\ b.act = "note" /\ b.t = t /\ b.loc = l /\ b.says = says
  BY DEF WriteYaml, WriteNote
<1> HIDE DEF a, b
<1>3. a \in Step /\ b \in Step
  BY <1>1 DEF Step
<1>4. todo = <<a, b>>
  BY DEF a, b
<1>5. todo \in Seq(Step) /\ DOMAIN todo = {1, 2} /\ todo[1] = a /\ todo[2] = b
  BY <1>3, <1>4
<1>6. Amending(v, t, todo, l, rec)
  BY <1>2, <1>5 DEF Amending
<1>7. ASSUME NEW f \in Files, NEW g \in Files,
             g.yaml = rec, g.body = f.body, g.completion = f.completion,
             g.trail = Heard(f.trail, says)
      PROVE  Turns(todo, f, rec, g)
  <2>1. f.body \in BOOLEAN /\ f.completion \in BOOLEAN
    BY DEF Files
  <2>2. /\ ~ \E i \in DOMAIN todo : todo[i].act = "body"
        /\ ~ \E i \in DOMAIN todo : todo[i].act = "completion"
        /\ \E i \in DOMAIN todo : todo[i].act = "note"
        /\ \A i \in DOMAIN todo : todo[i].act = "note" => todo[i].says = says
    BY <1>2, <1>5
  <2> QED
    BY <1>7, <2>1, <2>2 DEF Turns
<1> QED
  BY <1>5, <1>6, <1>7

\* Adding what one comment says to a trail.
LEMMA Adds ==
  ASSUME NEW a \in Trail, NEW s \in Trail
  PROVE  /\ Heard(a, s) \in Trail
         /\ Heard(a, s).col = IF s.col # None THEN s.col ELSE a.col
         /\ Heard(a, s).phase = IF s.phase # None THEN s.phase ELSE a.phase
         /\ Heard(a, s).archived = IF s.archived # None THEN s.archived ELSE a.archived
         /\ Heard(a, s).kind = IF s.kind # None THEN s.kind ELSE a.kind
BY DEF Heard, Trail

\* Record q is r with what says announces.
Alters(r, says, q) ==
  /\ q.num = r.num /\ q.deps = r.deps
  /\ q.col = IF says.col # None THEN says.col ELSE r.col
  /\ q.phase = IF says.phase # None THEN says.phase ELSE r.phase
  /\ q.archived = IF says.archived # None THEN says.archived ELSE r.archived
  /\ q.kind = IF says.kind # None THEN says.kind ELSE r.kind

\* Whole files stay whole when the record changes as the comment says.
LEMMA Announces ==
  ASSUME NEW f \in Files, f.yaml \in Rec, f.yaml # None, Whole(f),
         NEW says \in Trail, NEW rec \in Rec, Alters(f.yaml, says, rec),
         NEW ended \in BOOLEAN, rec.col = "done" => f.completion \/ ended
  PROVE  \E g \in Files :
           /\ g.yaml = rec /\ g.body = f.body /\ g.completion = (f.completion \/ ended)
           /\ g.trail = Heard(f.trail, says)
           /\ g.yaml # None /\ Whole(g)
<1> DEFINE g == [yaml |-> rec, body |-> f.body, completion |-> f.completion \/ ended,
                 trail |-> Heard(f.trail, says)]
<1>1. /\ f.trail \in Trail /\ f.body \in BOOLEAN /\ f.completion \in BOOLEAN
  BY DEF Files
<1>2. /\ Heard(f.trail, says) \in Trail
      /\ Heard(f.trail, says).col = IF says.col # None THEN says.col ELSE f.trail.col
      /\ Heard(f.trail, says).phase = IF says.phase # None THEN says.phase ELSE f.trail.phase
      /\ Heard(f.trail, says).archived =
           IF says.archived # None THEN says.archived ELSE f.trail.archived
      /\ Heard(f.trail, says).kind = IF says.kind # None THEN says.kind ELSE f.trail.kind
  BY <1>1, Adds
<1>3. /\ g \in Files /\ g.yaml = rec /\ g.body = f.body
      /\ g.completion = (f.completion \/ ended) /\ g.trail = Heard(f.trail, says)
  BY <1>1, <1>2 DEF Files
<1>4. g.yaml # None
  BY <1>3, NoneAssumption
<1> HIDE DEF g
<1>5. /\ g.yaml.col = IF g.trail.col = None THEN "todo" ELSE g.trail.col
      /\ g.yaml.archived = IF g.trail.archived = None THEN FALSE ELSE g.trail.archived
  BY <1>2, <1>3, ZenonT(30) DEF Whole, Announced, Alters
<1>6. /\ g.trail.phase \in {None, g.yaml.phase}
      /\ g.trail.kind \in {None, g.yaml.kind}
  BY <1>2, <1>3 DEF Whole, Announced, Alters
<1>7. g.body /\ (g.yaml.col = "done" => g.completion)
  BY <1>3 DEF Whole
<1> QED
  BY <1>3, <1>4, <1>5, <1>6, <1>7 DEF Whole, Announced

\* A handler that changes what comments announce, and leaves the comment that
\* announces it, preserves the invariant.
LEMMA AnnounceStep ==
  ASSUME NEW v, Slot = {v}, IInv(v), Idle(v), NEW t \in Known(v) \cap OnDisk,
         NEW todo \in Seq(Step), NEW to \in Loc, NEW says \in Trail, NEW ended \in BOOLEAN,
         NEW rec \in Rec, Alters(RecordOf(t), says, rec),
         NEW c \in Rec, Alters(cache[v][t], says, c),
         Begin(v, todo, [cache[v] EXCEPT ![t] = c]), born' = born,
         Amending(v, t, todo, to, rec),
         \A f, g \in Files :
           (/\ g.yaml = rec /\ g.body = f.body /\ g.completion = (f.completion \/ ended)
            /\ g.trail = Heard(f.trail, says)) => Turns(todo, f, rec, g),
         says.kind \in {None, "work"}, rec.kind = "idea" => rec.col = "todo",
         to = IF says.phase # None THEN says.phase ELSE DirOf(t),
         rec.col = "done" => ended \/ RecordOf(t).col = "done",
         cache[v][t].col = "done" => c.col = "done",
         Enforce /\ cache[v][t].col # "in_progress" /\ c.col = "in_progress" => Unblocked(v, t)
  PROVE  IInv(v)'
<1>1. /\ t \in Ticket /\ DirOf(t) \in Loc /\ RecordOf(t) \in Rec /\ cache[v][t] \in Rec
      /\ \A d \in RecordOf(t).deps \cup cache[v][t].deps : IsWork(v, d)
      /\ cache[v][t].kind = "work" => RecordOf(t).kind = "work"
  BY KnownTicket
<1>2. Fitting(v, t, rec, c)
  BY <1>1 DEF Fitting, Alters
<1>3. ASSUME NEW F \in Board, Resting(v, F)
      PROVE  /\ c = rec /\ rec.phase = to /\ Passes(F, t, rec)
             /\ \E g \in Files : Turns(todo, F[t], rec, g) /\ Sound([F EXCEPT ![t] = g])
  <2>1. /\ t \in Present(F) /\ F[t].yaml # None /\ F[t].yaml \in Rec
        /\ cache[v][t] = F[t].yaml /\ RecordOf(t) = F[t].yaml /\ DirOf(t) = F[t].yaml.phase
        /\ Known(v) = Present(F) /\ F[t] \in Files /\ Whole(F[t])
        /\ \A u \in Present(F) : cache[v][u] = F[u].yaml
    BY <1>3, SameRecord
  <2>2. c = rec /\ rec.phase = to
    BY <2>1 DEF Alters, Rec
  <2>3. Passes(F, t, rec)
    <3>1. F[t].yaml.deps \subseteq Present(F)
      BY <1>3, <2>1 DEF Resting, Sound, Resolved
    <3> QED
      BY <2>1, <2>2, <3>1 DEF Passes, Unblocked, Present
  <2>4. rec.col = "done" => F[t].completion \/ ended
    BY <2>1 DEF Whole
  <2>5. PICK g \in Files : /\ g.yaml = rec /\ g.body = F[t].body
                           /\ g.completion = (F[t].completion \/ ended)
                           /\ g.trail = Heard(F[t].trail, says)
                           /\ g.yaml # None /\ Whole(g)
    BY <2>1, <2>4, Announces
  <2>6. g.yaml.deps = F[t].yaml.deps
    BY <2>1, <2>5 DEF Alters
  <2>7. Turns(todo, F[t], rec, g)
    BY <2>1, <2>5
  <2>8. Sound([F EXCEPT ![t] = g])
    BY <1>3, <2>1, <2>5, <2>6, SoundTouched DEF Resting
  <2> QED
    BY <2>2, <2>3, <2>7, <2>8
<1> QED
  BY <1>2, <1>3, AmendStep

\* MoveTicket: a new column and its comment.
LEMMA MoveTicketStep ==
  ASSUME NEW v, Slot = {v}, IInv(v), Idle(v), MoveTicket(v)
  PROVE  IInv(v)'
<1>1. PICK t \in Known(v) \cap OnDisk, target \in Column \ {"done"} :
        /\ cache[v][t].col # "done"
        /\ cache[v][t].kind = "idea" => target = "todo"
        /\ target = "in_progress" /\ Enforce => Unblocked(v, t)
        /\ Begin(v, <<WriteYaml(DirOf(t), t, [RecordOf(t) EXCEPT !.col = target]),
                      WriteNote(DirOf(t), t, [NoTrail EXCEPT !.col = target])>>,
                 [cache[v] EXCEPT ![t].col = target])
        /\ born' = born
  BY DEF MoveTicket
<1> DEFINE l == DirOf(t)
           rec == [RecordOf(t) EXCEPT !.col = target]
           c == [cache[v][t] EXCEPT !.col = target]
           says == [NoTrail EXCEPT !.col = target]
           ended == FALSE
           todo == <<WriteYaml(l, t, rec), WriteNote(l, t, says)>>
<1>2. /\ t \in Ticket /\ l \in Loc /\ RecordOf(t) \in Rec /\ cache[v][t] \in Rec
      /\ cache[v][t].kind = "work" => RecordOf(t).kind = "work"
  BY KnownTicket
<1>3. /\ rec \in Rec /\ c \in Rec /\ says \in Trail
      /\ says.phase = None /\ says.archived = None /\ says.kind = None
      /\ says.col = target /\ target # None /\ rec.col = target /\ c.col = target
      /\ rec.kind = RecordOf(t).kind
  BY <1>2, NoneAssumption DEF Rec, NoTrail, Trail
<1>4. Alters(RecordOf(t), says, rec) /\ Alters(cache[v][t], says, c)
  BY <1>2, <1>3 DEF Alters, Rec
<1>5. Begin(v, todo, [cache[v] EXCEPT ![t] = c]) /\ born' = born
  BY <1>1
<1>6. rec.kind = "idea" => target = "todo"
  BY <1>1, <1>2, <1>3 DEF Rec, Kind
<1> HIDE DEF rec, c, says
<1>7. todo \in Seq(Step) /\ Amending(v, t, todo, l, rec)
      /\ \A f, g \in Files :
           (/\ g.yaml = rec /\ g.body = f.body /\ g.completion = (f.completion \/ ended)
            /\ g.trail = Heard(f.trail, says)) => Turns(todo, f, rec, g)
  BY <1>2, <1>3, YamlNote DEF Files
<1> HIDE DEF l, ended, todo
<1>8. /\ says.kind \in {None, "work"} /\ rec.kind = "idea" => rec.col = "todo"
      /\ l = IF says.phase # None THEN says.phase ELSE DirOf(t)
      /\ rec.col # "done" /\ cache[v][t].col # "done" /\ ended \in BOOLEAN
      /\ Enforce /\ c.col = "in_progress" => Unblocked(v, t)
  BY <1>1, <1>3, <1>6 DEF l, ended
<1> QED
  BY <1>2, <1>3, <1>4, <1>5, <1>7, <1>8, AnnounceStep

\* flipArchive: the other archived flag and its comment.
LEMMA FlipArchiveStep ==
  ASSUME NEW v, Slot = {v}, IInv(v), Idle(v), FlipArchive(v)
  PROVE  IInv(v)'
<1>1. PICK t \in Known(v) \cap OnDisk :
        /\ Begin(v, <<WriteYaml(DirOf(t), t, [RecordOf(t) EXCEPT !.archived = ~cache[v][t].archived]),
                      WriteNote(DirOf(t), t, [NoTrail EXCEPT !.archived = ~cache[v][t].archived])>>,
                 [cache[v] EXCEPT ![t].archived = ~cache[v][t].archived])
        /\ born' = born
  BY DEF FlipArchive
<1> DEFINE l == DirOf(t)
           want == ~cache[v][t].archived
           rec == [RecordOf(t) EXCEPT !.archived = want]
           c == [cache[v][t] EXCEPT !.archived = want]
           says == [NoTrail EXCEPT !.archived = want]
           ended == FALSE
           todo == <<WriteYaml(l, t, rec), WriteNote(l, t, says)>>
<1>2. /\ t \in Ticket /\ l \in Loc /\ RecordOf(t) \in Rec /\ cache[v][t] \in Rec
      /\ RecordOf(t).kind = "idea" => RecordOf(t).col = "todo"
  BY KnownTicket
<1>3. /\ rec \in Rec /\ c \in Rec /\ says \in Trail
      /\ says.phase = None /\ says.col = None /\ says.kind = None
      /\ says.archived = want /\ want # None /\ rec.archived = want /\ c.archived = want
      /\ rec.kind = RecordOf(t).kind /\ rec.col = RecordOf(t).col /\ c.col = cache[v][t].col
  BY <1>2, NoneAssumption DEF Rec, NoTrail, Trail
<1>4. Alters(RecordOf(t), says, rec) /\ Alters(cache[v][t], says, c)
  BY <1>2, <1>3 DEF Alters, Rec
<1>5. Begin(v, todo, [cache[v] EXCEPT ![t] = c]) /\ born' = born
  BY <1>1
<1>6. rec.kind = "idea" => rec.col = "todo"
  BY <1>2, <1>3
<1> HIDE DEF rec, c, says
<1>7. todo \in Seq(Step) /\ Amending(v, t, todo, l, rec)
      /\ \A f, g \in Files :
           (/\ g.yaml = rec /\ g.body = f.body /\ g.completion = (f.completion \/ ended)
            /\ g.trail = Heard(f.trail, says)) => Turns(todo, f, rec, g)
  BY <1>2, <1>3, YamlNote DEF Files
<1> HIDE DEF l, ended, todo
<1>8. /\ says.kind \in {None, "work"} /\ rec.kind = "idea" => rec.col = "todo"
      /\ l = IF says.phase # None THEN says.phase ELSE DirOf(t)
      /\ ended \in BOOLEAN
  BY <1>3, <1>6 DEF l, ended
<1> QED
  BY <1>2, <1>3, <1>4, <1>5, <1>7, <1>8, AnnounceStep

\* flipIdeaToWork: kind work and its comment.
LEMMA PromoteIdeaStep ==
  ASSUME NEW v, Slot = {v}, IInv(v), Idle(v), PromoteIdea(v)
  PROVE  IInv(v)'
<1>1. PICK t \in (Known(v) \ KnownWork(v)) \cap OnDisk :
        /\ Begin(v, <<WriteYaml(DirOf(t), t, [RecordOf(t) EXCEPT !.kind = "work"]),
                      WriteNote(DirOf(t), t, [NoTrail EXCEPT !.kind = "work"])>>,
                 [cache[v] EXCEPT ![t].kind = "work"])
        /\ born' = born
  BY DEF PromoteIdea
<1> DEFINE l == DirOf(t)
           rec == [RecordOf(t) EXCEPT !.kind = "work"]
           c == [cache[v][t] EXCEPT !.kind = "work"]
           says == [NoTrail EXCEPT !.kind = "work"]
           ended == FALSE
           todo == <<WriteYaml(l, t, rec), WriteNote(l, t, says)>>
<1>2. /\ t \in Ticket /\ l \in Loc /\ RecordOf(t) \in Rec /\ cache[v][t] \in Rec
      /\ RecordOf(t).kind = "idea" => RecordOf(t).col = "todo"
  BY KnownTicket
<1>3. /\ rec \in Rec /\ c \in Rec /\ says \in Trail
      /\ says.phase = None /\ says.col = None /\ says.archived = None
      /\ says.kind = "work" /\ "work" # None /\ rec.kind = "work" /\ c.kind = "work"
      /\ rec.col = RecordOf(t).col /\ c.col = cache[v][t].col
  BY <1>2, NoneAssumption DEF Rec, NoTrail, Trail, Kind
<1>4. Alters(RecordOf(t), says, rec) /\ Alters(cache[v][t], says, c)
  BY <1>2, <1>3 DEF Alters, Rec
<1>5. Begin(v, todo, [cache[v] EXCEPT ![t] = c]) /\ born' = born
  BY <1>1
<1>6. rec.kind = "idea" => rec.col = "todo"
  BY <1>2, <1>3
<1> HIDE DEF rec, c, says
<1>7. todo \in Seq(Step) /\ Amending(v, t, todo, l, rec)
      /\ \A f, g \in Files :
           (/\ g.yaml = rec /\ g.body = f.body /\ g.completion = (f.completion \/ ended)
            /\ g.trail = Heard(f.trail, says)) => Turns(todo, f, rec, g)
  BY <1>2, <1>3, YamlNote DEF Files
<1> HIDE DEF l, ended, todo
<1>8. /\ says.kind \in {None, "work"} /\ rec.kind = "idea" => rec.col = "todo"
      /\ l = IF says.phase # None THEN says.phase ELSE DirOf(t)
      /\ ended \in BOOLEAN
  BY <1>3, <1>6 DEF l, ended
<1> QED
  BY <1>2, <1>3, <1>4, <1>5, <1>7, <1>8, AnnounceStep

\* The list of a handler that rewrites the record, adds completion.md and
\* leaves a comment.
LEMMA YamlCompletionNote ==
  ASSUME NEW v, NEW t \in Ticket, DirOf(t) \in Loc, NEW rec \in Rec, NEW says \in Trail,
         NEW todo, todo = <<WriteYaml(DirOf(t), t, rec), WriteCompletion(DirOf(t), t),
                           WriteNote(DirOf(t), t, says)>>
  PROVE  /\ todo \in Seq(Step) /\ Amending(v, t, todo, DirOf(t), rec)
         /\ \A f, g \in Files :
              (/\ g.yaml = rec /\ g.body = f.body /\ g.completion = TRUE
               /\ g.trail = Heard(f.trail, says)) => Turns(todo, f, rec, g)
<1> DEFINE l == DirOf(t)
           a == WriteYaml(l, t, rec)
           k == WriteCompletion(l, t)
           b == WriteNote(l, t, says)
<1>1. a \in YamlStep /\ k \in CompletionStep /\ b \in NoteStep
  BY DEF WriteYaml, WriteCompletion, WriteNote, YamlStep, CompletionStep, NoteStep
<1>2. /\ a.act = "yaml" /\ a.t = t /\ a.loc = l /\ a.rec = rec
      /\ k.act = "completion" /\ k.t = t /\ k.loc = l
      /\ b.act = "note" /\ b.t = t /\ b.loc = l /\ b.says = says
  BY DEF WriteYaml, WriteCompletion, WriteNote
<1> HIDE DEF a, k, b
<1>3. a \in Step /\ k \in Step /\ b \in Step
  BY <1>1 DEF Step
<1>4. todo = <<a, k, b>>
  BY DEF a, k, b
<1>5. todo \in Seq(Step) /\ DOMAIN todo = {1, 2, 3}
      /\ todo[1] = a /\ todo[2] = k /\ todo[3] = b
  BY <1>3, <1>4
<1>6. Amending(v, t, todo, l, rec)
  BY <1>2, <1>5 DEF Amending
<1>7. ASSUME NEW f \in Files, NEW g \in Files,
             g.yaml = rec, g.body = f.body, g.completion = TRUE,
             g.trail = Heard(f.trail, says)
      PROVE  Turns(todo, f, rec, g)
  <2>1. f.body \in BOOLEAN /\ f.completion \in BOOLEAN
    BY DEF Files
  <2>2. /\ ~ \E i \in DOMAIN todo : todo[i].act = "body"
        /\ \E i \in DOMAIN todo : todo[i].act = "completion"
        /\ \E i \in DOMAIN todo : todo[i].act = "note"
        /\ \A i \in DOMAIN todo : todo[i].act = "note" => todo[i].says = says
    BY <1>2, <1>5
  <2>3. g.completion = (f.completion \/ \E i \in DOMAIN todo : todo[i].act = "completion")
    <3> DEFINE E == \E i \in DOMAIN todo : todo[i].act = "completion"
    <3>1. E = TRUE
      BY <2>2
    <3> HIDE DEF E
    <3>2. g.completion = (f.completion \/ E)
      BY <1>7, <2>1, <3>1
    <3> QED
      BY <3>2 DEF E
  <2>4. g.body = (f.body \/ \E i \in DOMAIN todo : todo[i].act = "body")
    BY <1>7, <2>1, <2>2
  <2> QED
    BY <1>7, <2>2, <2>3, <2>4 DEF Turns
<1> QED
  BY <1>5, <1>6, <1>7

\* CompleteTicket: column done, completion.md and the comment.
LEMMA CompleteTicketStep ==
  ASSUME NEW v, Slot = {v}, IInv(v), Idle(v), CompleteTicket(v)
  PROVE  IInv(v)'
<1>1. PICK t \in KnownWork(v) \cap OnDisk :
        /\ cache[v][t].col # "done"
        /\ Begin(v, <<WriteYaml(DirOf(t), t, [RecordOf(t) EXCEPT !.col = "done"]),
                      WriteCompletion(DirOf(t), t),
                      WriteNote(DirOf(t), t, [NoTrail EXCEPT !.col = "done"])>>,
                 [cache[v] EXCEPT ![t].col = "done"])
        /\ born' = born
  BY DEF CompleteTicket
<1> DEFINE l == DirOf(t)
           rec == [RecordOf(t) EXCEPT !.col = "done"]
           c == [cache[v][t] EXCEPT !.col = "done"]
           says == [NoTrail EXCEPT !.col = "done"]
           ended == TRUE
           todo == <<WriteYaml(l, t, rec), WriteCompletion(l, t), WriteNote(l, t, says)>>
<1>2. /\ t \in Known(v) \cap OnDisk /\ t \in Ticket /\ l \in Loc /\ RecordOf(t) \in Rec /\ cache[v][t] \in Rec
      /\ cache[v][t].kind = "work" => RecordOf(t).kind = "work"
  BY KnownTicket DEF KnownWork
<1>3. /\ rec \in Rec /\ c \in Rec /\ says \in Trail
      /\ says.phase = None /\ says.archived = None /\ says.kind = None
      /\ says.col = "done" /\ "done" # None /\ rec.col = "done" /\ c.col = "done"
      /\ rec.kind = RecordOf(t).kind
  BY <1>2, NoneAssumption DEF Rec, NoTrail, Trail, Column
<1>4. Alters(RecordOf(t), says, rec) /\ Alters(cache[v][t], says, c)
  BY <1>2, <1>3 DEF Alters, Rec
<1>5. Begin(v, todo, [cache[v] EXCEPT ![t] = c]) /\ born' = born
  BY <1>1
<1>6. rec.kind # "idea"
  BY <1>1, <1>2, <1>3 DEF KnownWork
<1> HIDE DEF rec, c, says
<1>7. todo \in Seq(Step) /\ Amending(v, t, todo, l, rec)
      /\ \A f, g \in Files :
           (/\ g.yaml = rec /\ g.body = f.body /\ g.completion = (f.completion \/ ended)
            /\ g.trail = Heard(f.trail, says)) => Turns(todo, f, rec, g)
  BY <1>2, <1>3, YamlCompletionNote DEF Files
<1> HIDE DEF l, ended, todo
<1>8. /\ says.kind \in {None, "work"}
      /\ l = IF says.phase # None THEN says.phase ELSE DirOf(t)
      /\ cache[v][t].col # "done" /\ ended
  BY <1>1, <1>3 DEF l, ended
<1> QED
  BY <1>2, <1>3, <1>4, <1>5, <1>6, <1>7, <1>8, AnnounceStep, ZenonT(30)

\* The list of a handler that moves the directory, rewrites the record and
\* leaves a comment.
LEMMA RenameYamlNote ==
  ASSUME NEW v, NEW t \in Ticket, DirOf(t) \in Loc, NEW ph \in Loc, NEW rec \in Rec, NEW says \in Trail,
         NEW todo, todo = <<Rename(DirOf(t), ph, t), WriteYaml(ph, t, rec),
                           WriteNote(ph, t, says)>>
  PROVE  /\ todo \in Seq(Step) /\ Amending(v, t, todo, ph, rec)
         /\ \A f, g \in Files :
              (/\ g.yaml = rec /\ g.body = f.body /\ g.completion = f.completion
               /\ g.trail = Heard(f.trail, says)) => Turns(todo, f, rec, g)
<1> DEFINE k == Rename(DirOf(t), ph, t)
           a == WriteYaml(ph, t, rec)
           b == WriteNote(ph, t, says)
<1>1. a \in YamlStep /\ k \in RenameStep /\ b \in NoteStep
  BY DEF WriteYaml, Rename, WriteNote, YamlStep, RenameStep, NoteStep
<1>2. /\ a.act = "yaml" /\ a.t = t /\ a.loc = ph /\ a.rec = rec
      /\ k.act = "rename" /\ k.t = t /\ k.loc = DirOf(t) /\ k.to = ph
      /\ b.act = "note" /\ b.t = t /\ b.loc = ph /\ b.says = says
  BY DEF WriteYaml, Rename, WriteNote
<1> HIDE DEF a, k, b
<1>3. a \in Step /\ k \in Step /\ b \in Step
  BY <1>1 DEF Step
<1>4. todo = <<k, a, b>>
  BY DEF a, k, b
<1>5. todo \in Seq(Step) /\ DOMAIN todo = {1, 2, 3}
      /\ todo[1] = k /\ todo[2] = a /\ todo[3] = b
  BY <1>3, <1>4
<1>6. Amending(v, t, todo, ph, rec)
  BY <1>2, <1>5 DEF Amending
<1>7. ASSUME NEW f \in Files, NEW g \in Files,
             g.yaml = rec, g.body = f.body, g.completion = f.completion,
             g.trail = Heard(f.trail, says)
      PROVE  Turns(todo, f, rec, g)
  <2>1. f.body \in BOOLEAN /\ f.completion \in BOOLEAN
    BY DEF Files
  <2>2. /\ ~ \E i \in DOMAIN todo : todo[i].act = "body"
        /\ ~ \E i \in DOMAIN todo : todo[i].act = "completion"
        /\ \E i \in DOMAIN todo : todo[i].act = "note"
        /\ \A i \in DOMAIN todo : todo[i].act = "note" => todo[i].says = says
    BY <1>2, <1>5
  <2> QED
    BY <1>7, <2>1, <2>2 DEF Turns
<1> QED
  BY <1>5, <1>6, <1>7

\* AssignTicketToPhase: the directory moves before record and comment.
LEMMA AssignTicketToPhaseStep ==
  ASSUME NEW v, Slot = {v}, IInv(v), Idle(v), AssignTicketToPhase(v)
  PROVE  IInv(v)'
<1>1. PICK t \in Known(v) \cap OnDisk, ph \in Loc :
        /\ Begin(v, <<Rename(DirOf(t), ph, t),
                      WriteYaml(ph, t, [RecordOf(t) EXCEPT !.phase = ph]),
                      WriteNote(ph, t, [NoTrail EXCEPT !.phase = ph])>>,
                 [cache[v] EXCEPT ![t].phase = ph])
        /\ born' = born
  BY DEF AssignTicketToPhase
<1> DEFINE rec == [RecordOf(t) EXCEPT !.phase = ph]
           c == [cache[v][t] EXCEPT !.phase = ph]
           says == [NoTrail EXCEPT !.phase = ph]
           ended == FALSE
           todo == <<Rename(DirOf(t), ph, t), WriteYaml(ph, t, rec), WriteNote(ph, t, says)>>
<1>2. /\ t \in Ticket /\ DirOf(t) \in Loc /\ RecordOf(t) \in Rec /\ cache[v][t] \in Rec
      /\ RecordOf(t).kind = "idea" => RecordOf(t).col = "todo"
  BY KnownTicket
<1>3. /\ rec \in Rec /\ c \in Rec /\ says \in Trail
      /\ says.col = None /\ says.archived = None /\ says.kind = None
      /\ says.phase = ph /\ ph # None /\ rec.phase = ph /\ c.phase = ph
      /\ rec.kind = RecordOf(t).kind /\ rec.col = RecordOf(t).col /\ c.col = cache[v][t].col
  BY <1>2, NoneAssumption DEF Rec, NoTrail, Trail
<1>4. Alters(RecordOf(t), says, rec) /\ Alters(cache[v][t], says, c)
  BY <1>2, <1>3 DEF Alters, Rec
<1>5. Begin(v, todo, [cache[v] EXCEPT ![t] = c]) /\ born' = born
  BY <1>1
<1>6. rec.kind = "idea" => rec.col = "todo"
  BY <1>2, <1>3
<1> HIDE DEF rec, c, says
<1>7. todo \in Seq(Step) /\ Amending(v, t, todo, ph, rec)
      /\ \A f, g \in Files :
           (/\ g.yaml = rec /\ g.body = f.body /\ g.completion = (f.completion \/ ended)
            /\ g.trail = Heard(f.trail, says)) => Turns(todo, f, rec, g)
  BY <1>2, <1>3, RenameYamlNote, ZenonT(30) DEF Files
<1> HIDE DEF ended, todo
<1>8. /\ says.kind \in {None, "work"}
      /\ ph = IF says.phase # None THEN says.phase ELSE DirOf(t)
      /\ ended \in BOOLEAN
  BY <1>3 DEF ended
<1> QED
  BY <1>2, <1>3, <1>4, <1>5, <1>6, <1>7, <1>8, AnnounceStep

\* A sound board stays sound when t gets other dependencies, if no chain of
\* the old ones leads from them back to t: reached is what they lead to.
LEMMA SoundRelinked ==
  ASSUME NEW F \in Board, Sound(F), NEW t \in Present(F), NEW g \in Files,
         g.yaml # None, Whole(g), g.yaml.deps \subseteq Present(F),
         NEW reached, t \notin reached, g.yaml.deps \subseteq reached,
         \A x \in reached \cap Present(F) : F[x].yaml.deps \subseteq reached
  PROVE  Sound([F EXCEPT ![t] = g])
<1> DEFINE G == [F EXCEPT ![t] = g]
<1>1. /\ t \in Ticket /\ F[t].yaml # None /\ G[t] = g
      /\ \A u \in Ticket : u # t => G[u] = F[u]
  BY DEF Present, Board
<1> HIDE DEF G
<1>2. Present(G) = Present(F)
  BY <1>1 DEF Present
<1>3. \A u \in Present(F) : u # t => G[u].yaml.deps = F[u].yaml.deps
  BY <1>1 DEF Present
<1>4. \A u \in Ticket : Whole(G[u])
  BY <1>1 DEF Sound
<1>5. Resolved(G)
  BY <1>1, <1>2, <1>3 DEF Sound, Resolved
<1>6. ASSUME NEW S \in SUBSET Present(F), \A u \in S : G[u].yaml.deps \cap S # {}
      PROVE  S = {}
  <2>1. t \notin S
    <3> SUFFICES ASSUME t \in S PROVE FALSE
      OBVIOUS
    <3> DEFINE R == S \cap reached
    <3>1. R \in SUBSET Present(F) /\ R # {}
      BY <1>1, <1>6
    <3>2. ASSUME NEW u \in R PROVE F[u].yaml.deps \cap R # {}
      <4>1. u # t /\ u \in Present(F) /\ u \in reached
        OBVIOUS
      <4>2. G[u].yaml.deps \cap S # {} /\ G[u].yaml.deps = F[u].yaml.deps
        BY <1>3, <1>6, <4>1
      <4>3. F[u].yaml.deps \subseteq reached
        BY <4>1
      <4> QED
        BY <4>2, <4>3
    <3> HIDE DEF R
    <3> QED
      BY <3>1, <3>2 DEF Sound, NoCycle
  <2>2. \A u \in S : F[u].yaml.deps \cap S # {}
    BY <1>3, <1>6, <2>1
  <2> QED
    BY <2>2 DEF Sound, NoCycle
<1>7. NoCycle(G)
  BY <1>2, <1>6 DEF NoCycle
<1> QED
  BY <1>4, <1>5, <1>7 DEF Sound, G

\* The list of a handler that rewrites the record, and may be the body.
LEMMA YamlBody ==
  ASSUME NEW v, NEW t \in Ticket, DirOf(t) \in Loc, NEW rec \in Rec, NEW withBody \in BOOLEAN,
         NEW todo, todo = IF withBody
                          THEN <<WriteYaml(DirOf(t), t, rec), WriteBody(DirOf(t), t)>>
                          ELSE <<WriteYaml(DirOf(t), t, rec)>>
  PROVE  /\ todo \in Seq(Step) /\ Amending(v, t, todo, DirOf(t), rec)
         /\ \A f, g \in Files :
              (/\ g.yaml = rec /\ f.body /\ g.body /\ g.completion = f.completion
               /\ g.trail = f.trail) => Turns(todo, f, rec, g)
<1> DEFINE l == DirOf(t)
           a == WriteYaml(l, t, rec)
           b == WriteBody(l, t)
<1>1. a \in YamlStep /\ b \in BodyStep
  BY DEF WriteYaml, WriteBody, YamlStep, BodyStep
<1>2. /\ a.act = "yaml" /\ a.t = t /\ a.loc = l /\ a.rec = rec
      /\ b.act = "body" /\ b.t = t /\ b.loc = l
  BY DEF WriteYaml, WriteBody
<1> HIDE DEF a, b
<1>3. a \in Step /\ b \in Step
  BY <1>1 DEF Step
<1>4. todo = IF withBody THEN <<a, b>> ELSE <<a>>
  BY DEF a, b
<1>5. /\ todo \in Seq(Step) /\ 1 \in DOMAIN todo /\ todo[1] = a
      /\ \A i \in DOMAIN todo : i = 1 \/ (i = 2 /\ todo[2] = b)
  BY <1>3, <1>4
<1>6. Amending(v, t, todo, l, rec)
  BY <1>2, <1>5 DEF Amending
<1>7. ASSUME NEW f \in Files, NEW g \in Files,
             g.yaml = rec, f.body, g.body, g.completion = f.completion,
             g.trail = f.trail
      PROVE  Turns(todo, f, rec, g)
  <2>1. f.body = TRUE /\ g.body = TRUE /\ f.completion \in BOOLEAN
    BY <1>7 DEF Files
  <2>2. /\ ~ \E i \in DOMAIN todo : todo[i].act = "completion"
        /\ ~ \E i \in DOMAIN todo : todo[i].act = "note"
    BY <1>2, <1>5
  <2> QED
    BY <1>7, <2>1, <2>2 DEF Turns
<1> QED
  BY <1>5, <1>6, <1>7

\* UpdateTicket: other dependencies, without a comment.
LEMMA UpdateTicketStep ==
  ASSUME NEW v, Slot = {v}, IInv(v), Idle(v), UpdateTicket(v)
  PROVE  IInv(v)'
<1>0. PICK t \in Known(v) \cap OnDisk :
        \E withBody \in BOOLEAN : \E deps \in AllowedDeps(v, t) :
          /\ Begin(v, IF withBody
                      THEN <<WriteYaml(DirOf(t), t, [RecordOf(t) EXCEPT !.deps = deps]),
                             WriteBody(DirOf(t), t)>>
                      ELSE <<WriteYaml(DirOf(t), t, [RecordOf(t) EXCEPT !.deps = deps])>>,
                   [cache[v] EXCEPT ![t].deps = deps])
          /\ born' = born
  BY DEF UpdateTicket
<1>1. PICK withBody \in BOOLEAN, deps \in AllowedDeps(v, t) :
        /\ Begin(v, IF withBody
                    THEN <<WriteYaml(DirOf(t), t, [RecordOf(t) EXCEPT !.deps = deps]),
                           WriteBody(DirOf(t), t)>>
                    ELSE <<WriteYaml(DirOf(t), t, [RecordOf(t) EXCEPT !.deps = deps])>>,
                 [cache[v] EXCEPT ![t].deps = deps])
        /\ born' = born
  BY <1>0
<1> DEFINE l == DirOf(t)
           rec == [RecordOf(t) EXCEPT !.deps = deps]
           c == [cache[v][t] EXCEPT !.deps = deps]
           todo == IF withBody THEN <<WriteYaml(l, t, rec), WriteBody(l, t)>>
                   ELSE <<WriteYaml(l, t, rec)>>
<1>2. /\ t \in Ticket /\ l \in Loc /\ RecordOf(t) \in Rec /\ cache[v][t] \in Rec
      /\ RecordOf(t).kind = "idea" => RecordOf(t).col = "todo"
      /\ \A d \in RecordOf(t).deps \cup cache[v][t].deps : IsWork(v, d)
      /\ cache[v][t].kind = "work" => RecordOf(t).kind = "work"
      /\ cache[v] # None
  BY KnownTicket
<1>3. deps \in SUBSET Ticket /\ \A d \in deps : IsWork(v, d)
  <2>1. CASE deps = cache[v][t].deps
    BY <1>2, <2>1 DEF Rec
  <2>2. CASE deps \subseteq KnownWork(v)
    BY <1>2, <2>2 DEF KnownWork, Known, IInv, Agreed
  <2> QED
    BY <2>1, <2>2 DEF AllowedDeps
<1>4. /\ rec \in Rec /\ c \in Rec
      /\ rec.num = RecordOf(t).num /\ rec.col = RecordOf(t).col /\ rec.kind = RecordOf(t).kind
      /\ rec.phase = RecordOf(t).phase /\ rec.archived = RecordOf(t).archived
      /\ rec.deps = deps /\ c.deps = deps /\ c.kind = cache[v][t].kind
      /\ cache[v][t] = RecordOf(t) => c = rec
  BY <1>2, <1>3 DEF Rec
<1>5. Begin(v, todo, [cache[v] EXCEPT ![t] = c]) /\ born' = born
  BY <1>1
<1> HIDE DEF rec, c
<1>6. Fitting(v, t, rec, c)
  BY <1>2, <1>3, <1>4 DEF Fitting
<1>7. /\ todo \in Seq(Step) /\ Amending(v, t, todo, l, rec)
      /\ \A f, g \in Files :
           (/\ g.yaml = rec /\ f.body /\ g.body /\ g.completion = f.completion
            /\ g.trail = f.trail) => Turns(todo, f, rec, g)
  BY <1>2, <1>4, YamlBody
<1> HIDE DEF l, todo
<1>8. ASSUME NEW F \in Board, Resting(v, F)
      PROVE  /\ c = rec /\ rec.phase = l /\ Passes(F, t, rec)
             /\ \E g \in Files : Turns(todo, F[t], rec, g) /\ Sound([F EXCEPT ![t] = g])
  <2>1. /\ t \in Present(F) /\ F[t].yaml # None
        /\ cache[v][t] = F[t].yaml /\ RecordOf(t) = F[t].yaml /\ l = F[t].yaml.phase
        /\ Known(v) = Present(F) /\ F[t] \in Files /\ Whole(F[t])
        /\ \A u \in Present(F) : cache[v][u] = F[u].yaml
    BY <1>8, SameRecord DEF l
  <2>2. c = rec /\ rec.phase = l /\ Passes(F, t, rec)
    BY <1>4, <2>1 DEF Passes
  <2> DEFINE g == [F[t] EXCEPT !.yaml = rec]
  <2>3. /\ g \in Files /\ g.yaml = rec /\ g.body = F[t].body
        /\ g.completion = F[t].completion /\ g.trail = F[t].trail
    BY <1>4, <2>1 DEF Files
  <2> HIDE DEF g
  <2>4. g.yaml # None /\ Whole(g)
    <3>1. g.yaml # None
      BY <1>4, <2>3, NoneAssumption
    <3>2. /\ g.yaml.col = F[t].yaml.col /\ g.yaml.archived = F[t].yaml.archived
          /\ g.yaml.phase = F[t].yaml.phase /\ g.yaml.kind = F[t].yaml.kind
      BY <1>4, <2>1, <2>3
    <3>3. Announced(F[t]) /\ F[t].body /\ (F[t].yaml.col = "done" => F[t].completion)
      BY <2>1 DEF Whole
    <3>4. Announced(g)
      BY <2>3, <3>2, <3>3 DEF Announced
    <3> QED
      BY <2>3, <3>1, <3>2, <3>3, <3>4 DEF Whole
  <2>5. Turns(todo, F[t], rec, g)
    BY <1>7, <2>1, <2>3 DEF Whole
  <2>6. Sound([F EXCEPT ![t] = g])
    <3>1. Sound(F)
      BY <1>8 DEF Resting
    <3>2. CASE deps = cache[v][t].deps
      BY <1>4, <2>1, <2>3, <2>4, <3>1, <3>2, SoundTouched
    <3>3. CASE deps \in SUBSET (KnownWork(v) \ {t}) /\ ~CreatesCycle(v, t, deps)
      <4>1. PICK reached \in SUBSET Ticket :
              /\ deps \subseteq reached /\ t \notin reached
              /\ \A x \in reached \cap Known(v) : cache[v][x].deps \subseteq reached
        BY <3>3 DEF CreatesCycle
      <4>2. g.yaml.deps \subseteq Present(F)
        BY <1>4, <2>1, <2>3, <3>3 DEF KnownWork
      <4>3. \A x \in reached \cap Present(F) : F[x].yaml.deps \subseteq reached
        BY <2>1, <4>1
      <4> QED
        BY <1>4, <2>1, <2>3, <2>4, <3>1, <4>1, <4>2, <4>3, SoundRelinked
    <3> QED
      BY <3>2, <3>3 DEF AllowedDeps
  <2> QED
    BY <2>2, <2>3, <2>5, <2>6
<1> QED
  BY <1>2, <1>4, <1>5, <1>6, <1>7, <1>8, AmendStep, ZenonT(30)

\* What CreateTicket begins with: a fresh id, a number no record has, and
\* dependencies on work.
LEMMA Fresh ==
  ASSUME NEW v \in Slot, IInv(v), Idle(v), NEW t \in Ticket \ born,
         NEW deps \in SUBSET KnownWork(v)
  PROVE  /\ NextNumber \in 1..(started + 1)
         /\ \A u \in Ticket : \A r \in Records(v, u) : r.num # NextNumber
         /\ \A l \in Loc : disk[l][t] = Gone
         /\ Records(v, t) = {} /\ cache[v] # None /\ cache[v] \in Cached
         /\ \A d \in deps : d \in Ticket /\ d # t /\ IsWork(v, d)
<1>1. /\ NextNumber \in 1..(started + 1)
      /\ \A u \in Ticket : \A l \in HasYaml(u) : disk[l][u].yaml.num < NextNumber
  BY NextNumberFits DEF IInv
<1>2. \A act, u : Left(v, act, u) = {}
  BY DEF Left, Todo, Idle
<1>3. \A u \in Ticket : \A l \in HasYaml(u) : disk[l][u].yaml \in Rec
  BY Typed DEF IInv, HasYaml
<1>4. started \in Nat
  BY MaxOpsAssumption DEF IInv, TypeOK
<1>5. \A u \in Ticket : \A r \in Records(v, u) : r.num # NextNumber
  BY <1>1, <1>2, <1>3, <1>4 DEF Records, Rec
<1>6. \A l \in Loc : disk[l][t] = Gone
  BY DEF IInv, Placed
<1>7. Records(v, t) = {}
  BY DEF IInv, Vetted
<1>8. cache[v] # None /\ cache[v] \in Cached
  BY DEF Idle, IInv, TypeOK
<1>9. \A d \in deps : d \in Ticket /\ d # t /\ IsWork(v, d)
  BY <1>8 DEF KnownWork, Known, IInv, Agreed, IsWork
<1> QED
  BY <1>1, <1>5, <1>6, <1>7, <1>8, <1>9

\* The list of CreateTicket.
LEMMA NewFiles ==
  ASSUME NEW t \in Ticket, NEW ph \in Loc, NEW rec \in Rec,
         NEW todo, todo = <<WriteYaml(ph, t, rec), WriteBody(ph, t)>>
  PROVE  /\ todo \in Seq(Step) /\ DOMAIN todo = {1, 2}
         /\ todo[1].act = "yaml" /\ todo[1].rec = rec /\ todo[2].act = "body"
         /\ \A i \in {1, 2} : todo[i].t = t /\ todo[i].loc = ph
<1> DEFINE a == WriteYaml(ph, t, rec)
           b == WriteBody(ph, t)
<1>1. a \in YamlStep /\ b \in BodyStep
  BY DEF WriteYaml, WriteBody, YamlStep, BodyStep
<1>2. /\ a.act = "yaml" /\ a.t = t /\ a.loc = ph /\ a.rec = rec
      /\ b.act = "body" /\ b.t = t /\ b.loc = ph
  BY DEF WriteYaml, WriteBody
<1>3. todo = <<a, b>>
  OBVIOUS
<1> HIDE DEF a, b
<1>4. a \in Step /\ b \in Step
  BY <1>1 DEF Step
<1>5. todo \in Seq(Step) /\ DOMAIN todo = {1, 2} /\ todo[1] = a /\ todo[2] = b
  BY <1>3, <1>4
<1> QED
  BY <1>2, <1>5

\* The board with a new ticket is sound.
LEMMA SoundGrown ==
  ASSUME NEW F \in Board, Sound(F), NEW t \in Ticket, F[t].yaml = None, NEW g \in Files,
         g.yaml # None, Whole(g), g.yaml.deps \subseteq Present(F)
  PROVE  Sound([F EXCEPT ![t] = g])
<1> DEFINE G == [F EXCEPT ![t] = g]
<1>1. G[t] = g /\ \A u \in Ticket : u # t => G[u] = F[u]
  BY DEF Board
<1> HIDE DEF G
<1>2. Present(G) = Present(F) \cup {t} /\ t \notin Present(F)
  BY <1>1 DEF Present
<1>3. \A u \in Present(F) : G[u].yaml.deps = F[u].yaml.deps /\ F[u].yaml.deps \subseteq Present(F)
  BY <1>1, <1>2 DEF Present, Sound, Resolved
<1>4. \A u \in Ticket : Whole(G[u])
  BY <1>1 DEF Sound
<1>5. Resolved(G)
  BY <1>1, <1>2, <1>3 DEF Resolved
<1>6. ASSUME NEW S \in SUBSET Present(G), \A u \in S : G[u].yaml.deps \cap S # {}
      PROVE  S = {}
  <2> DEFINE R == S \ {t}
  <2>1. R \in SUBSET Present(F)
    BY <1>2
  <2>2. ASSUME NEW u \in R PROVE F[u].yaml.deps \cap R # {}
    <3>1. u \in Present(F) /\ G[u].yaml.deps \cap S # {}
      BY <1>6, <2>1
    <3> QED
      BY <1>2, <1>3, <3>1
  <2>3. R = {}
    <3> HIDE DEF R
    <3> QED
      BY <2>1, <2>2 DEF Sound, NoCycle
  <2>4. t \notin S
    BY <1>1, <1>2, <1>6, <2>3
  <2> QED
    BY <2>3, <2>4
<1>7. NoCycle(G)
  BY <1>6 DEF NoCycle
<1> QED
  BY <1>4, <1>5, <1>7 DEF Sound, G

\* CreateTicket with a given id, phase and record.
Creates(v, t, ph, rec, todo) ==
  /\ rec.num = NextNumber /\ rec.col = "todo" /\ rec.phase = ph /\ rec.archived = FALSE
  /\ rec.deps \subseteq KnownWork(v)
  /\ todo = <<WriteYaml(ph, t, rec), WriteBody(ph, t)>>
  /\ Begin(v, todo, [cache[v] EXCEPT ![t] = rec])
  /\ born' = born \cup {t}

\* Beginning to create a ticket keeps what holds however handlers fail.
LEMMA CreateKeeps ==
  ASSUME NEW v, Slot = {v}, IInv(v), Idle(v), NEW t \in Ticket \ born, NEW ph \in Loc,
         NEW rec \in Rec, NEW todo, Creates(v, t, ph, rec, todo)
  PROVE  /\ TypeOK' /\ IsFiniteSet(born)'
         /\ Vetted(v)' /\ Agreed(v)' /\ Placed(v)' /\ InOrder(v)' /\ Holding(v)'
         /\ \A F : Resting(v, F) => Resting(v, F)'
<1> DEFINE cached == [cache[v] EXCEPT ![t] = rec]
<1>1. /\ NextNumber \in 1..(started + 1) /\ rec.num = NextNumber /\ rec.col = "todo"
      /\ \A u \in Ticket : \A r \in Records(v, u) : r.num # NextNumber
      /\ \A l \in Loc : disk[l][t] = Gone
      /\ Records(v, t) = {} /\ cache[v] # None /\ cache[v] \in Cached /\ cached \in Cached
      /\ \A d \in rec.deps : d \in Ticket /\ d # t /\ IsWork(v, d)
  BY Fresh DEF Creates, Cached
<1>2. /\ todo \in Seq(Step) /\ DOMAIN todo = {1, 2}
      /\ todo[1].act = "yaml" /\ todo[1].rec = rec /\ todo[2].act = "body"
      /\ \A i \in {1, 2} : todo[i].t = t /\ todo[i].loc = ph
  BY NewFiles DEF Creates
<1>3a. Begin(v, todo, cached)
  BY DEF Creates
<1>3. /\ job'[v] \in Job /\ job'[v] # None /\ job' \in [Slot -> Job \cup {None}]
      /\ job'[v].todo = todo /\ job'[v].cached = cached /\ ~job'[v].touched
      /\ Todo(v) = {} /\ Todo(v)' = {todo[i] : i \in DOMAIN todo}
      /\ started \in Nat /\ started' = started + 1 /\ started' \in 0..MaxOps
      /\ disk' = disk /\ cache' = cache /\ lock' = lock /\ cut' = cut /\ unseen' = unseen
      /\ Holding(v)'
  <2> HIDE DEF cached
  <2> QED
    BY <1>1, <1>2, <1>3a, Begun
<1>4. born' = born \cup {t} /\ IsFiniteSet(born)' /\ born' \subseteq Ticket
  BY FS_AddElement DEF Creates, IInv, TypeOK
<1>5. TypeOK'
  BY <1>3, <1>4 DEF IInv, TypeOK
<1>6. /\ \A u \in Ticket : u # t => Left(v, "yaml", u)' = {}
      /\ Left(v, "yaml", t)' # {} /\ \A s \in Left(v, "yaml", t)' : s.rec = rec
      /\ \A u \in Ticket : Left(v, "rename", u)' = {}
      /\ \A act, u : Left(v, act, u) = {}
  BY <1>2, <1>3 DEF Left
<1>7. /\ \A u \in Ticket : u # t => Records(v, u)' = Records(v, u)
      /\ \A r \in Records(v, t)' : r = rec
  <2>1. \A u : HasYaml(u)' = HasYaml(u) /\ \A l \in HasYaml(u) : disk'[l][u] = disk[l][u]
    BY <1>3 DEF HasYaml
  <2>2. \A u : Records(v, u) = {disk[l][u].yaml : l \in HasYaml(u)}
    BY <1>6 DEF Records
  <2>3. \A u : Records(v, u)' = {disk[l][u].yaml : l \in HasYaml(u)}
                                  \cup {s.rec : s \in Left(v, "yaml", u)'}
    BY <2>1 DEF Records
  <2> QED
    <3>1. ASSUME NEW u \in Ticket, u # t PROVE Records(v, u)' = Records(v, u)
      <4>1. Left(v, "yaml", u)' = {}
        BY <1>6, <3>1
      <4>2. Records(v, u)' = {disk[l][u].yaml : l \in HasYaml(u)} \cup {s.rec : s \in {}}
        BY <2>3, <4>1
      <4> QED
        BY <2>2, <4>2
    <3>2. Records(v, t)' = Records(v, t) \cup {s.rec : s \in Left(v, "yaml", t)'}
      BY <2>2, <2>3
    <3>3. Records(v, t) = {}
      BY <1>1
    <3>4. \A r \in Records(v, t)' : r = rec
      BY <1>6, <3>2, <3>3
    <3> QED
      BY <3>1, <3>4
<1>8. \A d \in Ticket : IsWork(v, d) => IsWork(v, d)'
  BY <1>4, <1>7 DEF IsWork
<1>9. Vetted(v)'
  <2>1. \A u \in Ticket : \A r \in Records(v, u) : r.deps \subseteq Ticket /\ r.num \in Nat
    BY Members DEF IInv, Rec
  <2>2. ASSUME NEW u \in Ticket, NEW r \in Records(v, u)'
        PROVE  (/\ u \in born /\ r.num <= started
                /\ r.kind = "idea" => r.col = "todo"
                /\ \A d \in r.deps : IsWork(v, d))'
    <3>1. CASE u # t
      <4>1. r \in Records(v, u)
        BY <1>7, <2>2, <3>1
      <4>2. r.num <= started /\ r.num \in Nat
        BY <2>1, <4>1 DEF IInv, Vetted
      <4> QED
        BY <1>3, <1>4, <1>8, <2>1, <4>1, <4>2 DEF IInv, Vetted
    <3>2. CASE u = t
      BY <1>1, <1>3, <1>4, <1>7, <1>8, <2>2, <3>2
    <3> QED
      BY <3>1, <3>2
  <2>3. ASSUME NEW u \in Ticket, NEW w \in Ticket,
               NEW r \in Records(v, u)', NEW q \in Records(v, w)', r.num = q.num
        PROVE  u = w
    BY <1>1, <1>7, <2>3 DEF IInv, Vetted
  <2> QED
    BY <2>2, <2>3 DEF Vetted
<1>10. Agreed(v)'
  <2>1. \A u \in Ticket : \A r \in Copies(v, u)' : r \in Copies(v, u) \/ (r = rec /\ u = t)
    BY <1>1, <1>3 DEF Copies, Cached
  <2>2. \A u \in Ticket : \A r \in Copies(v, u) : r.deps \subseteq Ticket
    BY Members DEF IInv, Rec
  <2>3. ASSUME NEW u \in Ticket, NEW r \in Copies(v, u)'
        PROVE  (u \in born /\ \A d \in r.deps : IsWork(v, d))'
    <3>1. CASE r \in Copies(v, u)
      BY <1>4, <1>8, <2>2, <3>1 DEF IInv, Agreed
    <3>2. CASE r = rec /\ u = t
      BY <1>1, <1>4, <1>8, <3>2
    <3> QED
      BY <2>1, <2>3, <3>1, <3>2
  <2>4. ASSUME NEW u \in Ticket, cached[u] # None, cached[u].kind = "work"
        PROVE  EndsWork(v, u)'
    <3>1. CASE u = t
      BY <1>1, <1>6, <2>4, <3>1 DEF EndsWork, Cached
    <3>2. CASE u # t
      <4>1. IsWork(v, u)
        BY <1>1, <2>4, <3>2 DEF IInv, Agreed, Cached
      <4> QED
        BY <1>6, <1>8, <3>2, <4>1 DEF EndsWork
    <3> QED
      BY <3>1, <3>2
  <2> QED
    BY <1>1, <1>3, <1>8, <2>3, <2>4 DEF IInv, Agreed
<1>11. InOrder(v)'
  BY <1>2, <1>3 DEF InOrder
<1>12. Placed(v)'
  <2>1. \A u, l : Lies(u, l)' <=> Lies(u, l)
    BY <1>3 DEF Lies
  <2>2. Lies(t, ph)
    BY <1>1 DEF Lies
  <2>3. \A s \in Todo(v)' : s.t = t /\ s.loc = ph
    BY <1>2, <1>3
  <2>4. /\ \A u \in Ticket : \E l \in Loc : Lies(u, l)'
        /\ \A u \in Ticket \ born', l \in Loc : disk'[l][u] = Gone
    BY <1>3, <1>4, <2>1 DEF IInv, Placed
  <2> QED
    BY <1>4, <1>6, <2>1, <2>2, <2>3, <2>4 DEF Placed
<1>13. \A F : Resting(v, F) => Resting(v, F)'
  BY <1>3 DEF Resting, Holds
<1> QED
  BY <1>3, <1>4, <1>5, <1>9, <1>10, <1>11, <1>12, <1>13

\* It heads for the board with the new ticket.
LEMMA CreateHeads ==
  ASSUME NEW v, Slot = {v}, IInv(v), Idle(v), NEW t \in Ticket \ born, NEW ph \in Loc,
         NEW rec \in Rec, NEW todo, Creates(v, t, ph, rec, todo),
         NEW F \in Board, Resting(v, F)
  PROVE  \E G \in Board : Heading(v, G)'
<1> DEFINE g == [yaml |-> rec, body |-> TRUE, completion |-> FALSE, trail |-> NoTrail]
           G == [F EXCEPT ![t] = g]
           cached == [cache[v] EXCEPT ![t] = rec]
<1>1. /\ \A l \in Loc : disk[l][t] = Gone
      /\ cache[v] # None /\ cache[v] \in Cached /\ cached \in Cached
  BY Fresh DEF Creates, Cached
<1>2. /\ todo \in Seq(Step) /\ DOMAIN todo = {1, 2}
      /\ todo[1].act = "yaml" /\ todo[1].rec = rec /\ todo[2].act = "body"
      /\ \A i \in {1, 2} : todo[i].t = t /\ todo[i].loc = ph
  BY NewFiles DEF Creates
<1>3a. Begin(v, todo, cached) /\ rec.deps \subseteq KnownWork(v) /\ rec.phase = ph
       /\ rec.col = "todo" /\ rec.archived = FALSE
  BY DEF Creates
<1>3. /\ job'[v].cached = cached
      /\ Todo(v)' = {todo[i] : i \in DOMAIN todo} /\ disk' = disk
  <2> HIDE DEF cached
  <2> QED
    BY <1>1, <1>2, <1>3a, Begun
<1>4. /\ \A u \in Ticket, l \in Loc :
           disk[l][u] = IF F[u].yaml # None /\ F[u].yaml.phase = l THEN F[u] ELSE Gone
      /\ Sound(F) /\ Holds(F) /\ cache[v] = YamlOf(F)
  BY <1>1 DEF Resting, Holds
<1>5. F[t].yaml = None
  BY <1>1, <1>4, Boarded, Typed DEF IInv
<1>6. /\ g \in Files /\ g.yaml = rec /\ g.body = TRUE /\ g.completion = FALSE /\ g.trail = NoTrail
      /\ g.yaml # None
  BY NoneAssumption DEF Files, Trail, NoTrail
<1>7. /\ G \in Board /\ G[t] = g /\ \A u \in Ticket : u # t => G[u] = F[u]
  BY <1>6 DEF Board
<1> HIDE DEF g
<1>8. Whole(g)
  <2>1. /\ g.trail.col = None /\ g.trail.phase = None
        /\ g.trail.archived = None /\ g.trail.kind = None
    BY <1>6 DEF NoTrail
  <2>2. g.yaml.col = "todo" /\ g.yaml.archived = FALSE
    BY <1>6, <1>3a
  <2>3. Announced(g)
    BY <2>1, <2>2 DEF Announced
  <2> QED
    BY <1>6, <2>2, <2>3 DEF Whole
<1>9. g.yaml.deps \subseteq Present(F)
  <2>1. \A d \in rec.deps : d \in Ticket /\ cache[v][d] # None
    BY <1>3a DEF KnownWork, Known
  <2>2. \A d \in Ticket : cache[v][d] = F[d].yaml
    BY <1>4 DEF YamlOf
  <2> QED
    BY <1>6, <2>1, <2>2 DEF Present
<1>10. Sound(G)
  BY <1>4, <1>5, <1>6, <1>8, <1>9, SoundGrown
<1> HIDE DEF G
<1>11. job'[v].cached = YamlOf(G)
  BY <1>1, <1>3, <1>4, <1>6, <1>7 DEF YamlOf
<1>12. Permitted(G)'
  <2>1. \A u \in Ticket, l \in Loc : disk[l][u].yaml # None =>
           disk[l][u].yaml = F[u].yaml /\ F[u].yaml # None /\ u # t
    BY <1>1, <1>4, Typed DEF IInv
  <2> QED
    BY <1>3, <1>7, <2>1 DEF Permitted
<1>13. ASSUME NEW u \in Ticket, u # t PROVE Arrives(v, G, u)'
  <2>1. \A s \in Todo(v)' : s.t # u
    BY <1>2, <1>3, <1>13
  <2> QED
    BY <1>3, <1>4, <1>7, <1>13, <2>1, Arrived DEF IInv
<1>14. Arrives(v, G, t)'
  <2>1. /\ Left(v, "remove", t)' = {} /\ Left(v, "rename", t)' = {}
        /\ Left(v, "completion", t)' = {} /\ Left(v, "note", t)' = {}
        /\ Left(v, "body", t)' # {} /\ Left(v, "yaml", t)' # {}
        /\ \A s \in Left(v, "yaml", t)' : s.rec = rec
        /\ \A s \in Todo(v)' : s.loc = ph
    BY <1>2, <1>3 DEF Left
  <2>2. Lies(t, ph)'
    BY <1>1, <1>3 DEF Lies
  <2>3. disk'[ph][t] = Gone
    BY <1>1, <1>3
  <2>4. Becomes(v, t, disk[ph][t], G[t])'
    <3>1. Gone.body = FALSE /\ Gone.completion = FALSE /\ Gone.trail = NoTrail
      BY DEF Gone
    <3> QED
      BY <1>6, <1>7, <2>1, <2>3, <3>1 DEF Becomes
  <2>5. G[t].yaml # None /\ G[t].yaml.phase = ph
    BY <1>6, <1>7, <1>3a
  <2> QED
    BY <2>1, <2>2, <2>4, <2>5 DEF Arrives
<1>15. Heading(v, G)'
  BY <1>10, <1>11, <1>12, <1>13, <1>14 DEF Heading
<1> QED
  BY <1>7, <1>15

\* CreateTicket: record and body of a fresh ticket.
LEMMA CreateTicketStep ==
  ASSUME NEW v, Slot = {v}, IInv(v), Idle(v), CreateTicket(v)
  PROVE  IInv(v)'
<1>1. PICK t \in Ticket \ born, ph \in Loc, kind \in Kind, deps \in SUBSET KnownWork(v) :
        /\ Begin(v, <<WriteYaml(ph, t, [num |-> NextNumber, col |-> "todo", phase |-> ph,
                                        archived |-> FALSE, kind |-> kind, deps |-> deps]),
                      WriteBody(ph, t)>>,
                 [cache[v] EXCEPT ![t] = [num |-> NextNumber, col |-> "todo", phase |-> ph,
                                          archived |-> FALSE, kind |-> kind, deps |-> deps]])
        /\ born' = born \cup {t}
  BY DEF CreateTicket
<1> DEFINE rec == [num |-> NextNumber, col |-> "todo", phase |-> ph,
                   archived |-> FALSE, kind |-> kind, deps |-> deps]
           todo == <<WriteYaml(ph, t, rec), WriteBody(ph, t)>>
<1>2. NextNumber \in Nat /\ deps \subseteq Ticket
  <2>1. started \in Nat
    BY MaxOpsAssumption DEF IInv, TypeOK
  <2>2. NextNumber \in 1..(started + 1)
    BY Fresh
  <2> QED
    BY <2>1, <2>2 DEF KnownWork, Known
<1>3. rec \in Rec
  BY <1>2 DEF Rec, Column, Kind
<1>4. /\ rec.num = NextNumber /\ rec.col = "todo" /\ rec.phase = ph /\ rec.archived = FALSE
      /\ rec.deps \subseteq KnownWork(v)
  OBVIOUS
<1>5. Begin(v, todo, [cache[v] EXCEPT ![t] = rec]) /\ born' = born \cup {t}
  BY <1>1
<1> HIDE DEF rec
<1>6. Creates(v, t, ph, rec, todo)
  BY <1>4, <1>5 DEF Creates
<1> HIDE DEF todo
<1>7. /\ TypeOK' /\ IsFiniteSet(born)'
      /\ Vetted(v)' /\ Agreed(v)' /\ Placed(v)' /\ InOrder(v)' /\ Holding(v)'
      /\ \A F : Resting(v, F) => Resting(v, F)'
  BY <1>3, <1>6, CreateKeeps
<1>8. cut' = cut /\ job[v] = None
  BY <1>5 DEF Begin, Idle
<1>9. ASSUME ~cut
      PROVE  /\ \E F \in Board : Resting(v, F)'
             /\ \E G \in Board : Heading(v, G)'
  <2>1. PICK F \in Board : Resting(v, F)
    BY <1>8, <1>9 DEF IInv
  <2>2. \E G \in Board : Heading(v, G)'
    BY <1>3, <1>6, <2>1, CreateHeads
  <2> QED
    BY <1>7, <2>1, <2>2
<1> QED
  BY <1>7, <1>8, <1>9 DEF IInv

\* An order of a finite set lists each member once.
LEMMA Orders ==
  ASSUME NEW S, IsFiniteSet(S), NEW order \in SetToSeqs(S)
  PROVE  /\ order \in Seq(S) /\ Len(order) \in Nat /\ DOMAIN order = 1..Len(order)
         /\ \A i, j \in 1..Len(order) : order[i] = order[j] => i = j
         /\ \A x \in S : \E i \in 1..Len(order) : order[i] = x
<1> DEFINE n == Cardinality(S)
<1>1. n \in Nat
  BY FS_CardinalityType
<1>2. order \in [1..n -> S] /\ \A i, j \in 1..n : i # j => order[i] # order[j]
  BY DEF SetToSeqs
<1> HIDE DEF n
<1>3. order \in Seq(S) /\ Len(order) = n /\ DOMAIN order = 1..n
  BY <1>1, <1>2
<1>4. order \in Injection(1..n, S)
  BY <1>2 DEF Injection, IsInjective
<1>5. IsFiniteSet(1..n) /\ Cardinality(1..n) = n
  BY <1>1, FS_Interval
<1>6. Cardinality(1..n) = Cardinality(S)
  BY <1>5 DEF n
<1>7. order \in Surjection(1..n, S)
  BY <1>4, <1>6, FS_Injection
<1>8. \A x \in S : \E i \in 1..n : order[i] = x
  BY <1>7 DEF Surjection
<1> QED
  BY <1>1, <1>2, <1>3, <1>8

\* All files of a ticket are where its record is.
LEMMA LiesThere ==
  ASSUME NEW v \in Slot, TypeOK, Placed(v), NEW t \in OnDisk
  PROVE  Lies(t, DirOf(t))
<1>1. t \in Ticket /\ DirOf(t) \in Loc /\ disk[DirOf(t)][t].yaml # None
  BY Found
<1>2. PICK l \in Loc : Lies(t, l)
  BY <1>1 DEF Placed
<1>3. l = DirOf(t)
  BY <1>1, <1>2, Typed DEF Lies
<1> QED
  BY <1>2, <1>3

\* The record of x without its dependency on t.
Rid(x, t) == [RecordOf(x) EXCEPT !.deps = @ \ {t}]

\* A handler that removes t and rewrites the tickets that depend on it.
Removing(t, dependents, todo) ==
  /\ \A i, j \in DOMAIN todo :
       todo[i].act = todo[j].act /\ todo[i].t = todo[j].t => i = j
  /\ \A i \in DOMAIN todo :
       /\ todo[i].loc = DirOf(todo[i].t)
       /\ \/ todo[i].act = "remove" /\ todo[i].t = t
          \/ /\ todo[i].act = "yaml" /\ todo[i].t \in dependents
             /\ todo[i].rec = Rid(todo[i].t, t)
  /\ \A x \in dependents : \E i \in DOMAIN todo : todo[i].act = "yaml" /\ todo[i].t = x
  /\ \E i \in DOMAIN todo : todo[i].act = "remove"

\* A sequence with one more element.
LEMMA Followed ==
  ASSUME NEW S, NEW q \in Seq(S), NEW b \in S, NEW todo, todo = q \o <<b>>
  PROVE  /\ todo \in Seq(S) /\ Len(q) \in Nat /\ DOMAIN todo = 1..(Len(q) + 1)
         /\ \A i \in 1..Len(q) : todo[i] = q[i]
         /\ todo[Len(q) + 1] = b
<1>1. <<b>> \in Seq(S) /\ Len(<<b>>) = 1 /\ <<b>>[1] = b
  OBVIOUS
<1>2. /\ todo \in Seq(S) /\ Len(todo) = Len(q) + 1 /\ Len(q) \in Nat
  BY <1>1
<1>3. DOMAIN todo = 1..(Len(q) + 1)
  BY <1>2
<1>4. \A i \in 1..Len(q) : todo[i] = q[i]
  BY <1>1
<1>5. todo[Len(q) + 1] = b
  BY <1>1
<1> QED
  BY <1>2, <1>3, <1>4, <1>5

\* The step that takes t out of the record of x.
Rewriting(x, t) == WriteYaml(DirOf(x), x, Rid(x, t))

\* The list of DeleteTicket.
LEMMA Removal ==
  ASSUME TypeOK, NEW t \in OnDisk, NEW dependents, dependents \subseteq OnDisk \ {t},
         IsFiniteSet(dependents), NEW order \in SetToSeqs(dependents),
         NEW q, q = [i \in 1..Len(order) |-> Rewriting(order[i], t)],
         NEW b, b = RemoveDir(DirOf(t), t), NEW todo, todo = q \o <<b>>
  PROVE  todo \in Seq(Step) /\ Removing(t, dependents, todo)
<1>1. PICK n \in Nat : n = Len(order)
  BY Orders
<1>2. /\ \A i \in 1..n : order[i] \in dependents
      /\ \A i, j \in 1..n : order[i] = order[j] => i = j
      /\ \A x \in dependents : \E i \in 1..n : order[i] = x
  <2>1. /\ order \in Seq(dependents) /\ DOMAIN order = 1..Len(order)
        /\ \A i, j \in 1..Len(order) : order[i] = order[j] => i = j
        /\ \A x \in dependents : \E i \in 1..Len(order) : order[i] = x
    BY Orders
  <2> QED
    BY <1>1, <2>1
<1>3. ASSUME NEW x \in dependents
      PROVE  /\ Rewriting(x, t) \in Step /\ Rewriting(x, t).act = "yaml"
             /\ Rewriting(x, t).t = x /\ Rewriting(x, t).loc = DirOf(x)
             /\ Rewriting(x, t).rec = Rid(x, t)
  <2>1. x \in Ticket /\ DirOf(x) \in Loc /\ RecordOf(x) \in Rec
    BY <1>3, Found
  <2>2. Rid(x, t) \in Rec
    BY <2>1 DEF Rid, Rec
  <2>3. Rewriting(x, t) \in YamlStep
    BY <2>1, <2>2 DEF Rewriting, WriteYaml, YamlStep
  <2> QED
    BY <2>3 DEF Step, Rewriting, WriteYaml
<1>4. b \in Step /\ b.act = "remove" /\ b.t = t /\ b.loc = DirOf(t)
  <2>1. b \in RemoveStep
    BY Found DEF RemoveDir, RemoveStep
  <2> QED
    BY <2>1 DEF RemoveDir, Step
<1>5. q \in Seq(Step) /\ Len(q) = n /\ \A i \in 1..n : q[i] = Rewriting(order[i], t)
  <2>1. \A i \in 1..n : Rewriting(order[i], t) \in Step
    BY <1>2, <1>3
  <2>2. q = [i \in 1..n |-> Rewriting(order[i], t)]
    BY <1>1
  <2> QED
    BY <1>1, <2>1, <2>2
<1>6. /\ todo \in Seq(Step) /\ DOMAIN todo = 1..(n + 1)
      /\ \A i \in 1..n : todo[i] = q[i]
      /\ todo[n + 1] = b
  BY <1>4, <1>5, Followed
<1>7. \A i \in 1..n : /\ order[i] \in dependents /\ todo[i].act = "yaml"
                       /\ todo[i].t = order[i] /\ todo[i].loc = DirOf(order[i])
                       /\ todo[i].rec = Rid(order[i], t)
  BY <1>2, <1>3, <1>5, <1>6
<1>8. \A i \in DOMAIN todo : i \in 1..n \/ i = n + 1
  BY <1>1, <1>6
<1>9. \A i, j \in DOMAIN todo : todo[i].act = todo[j].act /\ todo[i].t = todo[j].t => i = j
  <2>1. SUFFICES ASSUME NEW i \in DOMAIN todo, NEW j \in DOMAIN todo,
                        todo[i].act = todo[j].act, todo[i].t = todo[j].t
                 PROVE  i = j
    BY ZenonT(30)
  <2>2. CASE i \in 1..n /\ j \in 1..n
    <3>1. order[i] = order[j]
      BY <1>7, <2>1, <2>2
    <3> QED
      BY <1>2, <2>2, <3>1
  <2>3. ASSUME NEW k \in 1..n PROVE todo[k].act # todo[n + 1].act
    <3>1. todo[k].act = "yaml"
      BY <1>7
    <3>2. todo[n + 1].act = "remove"
      BY <1>4, <1>6
    <3> QED
      BY <3>1, <3>2
  <2>4. CASE i = n + 1
    BY <1>8, <2>1, <2>3, <2>4
  <2>5. CASE j = n + 1
    BY <1>8, <2>1, <2>3, <2>5
  <2> QED
    BY <1>8, <2>2, <2>4, <2>5
<1>10. ASSUME NEW i \in DOMAIN todo
       PROVE  /\ todo[i].loc = DirOf(todo[i].t)
              /\ \/ todo[i].act = "remove" /\ todo[i].t = t
                 \/ /\ todo[i].act = "yaml" /\ todo[i].t \in dependents
                    /\ todo[i].rec = Rid(todo[i].t, t)
  <2>1. CASE i \in 1..n
    BY <1>7, <2>1
  <2>2. CASE i = n + 1
    BY <1>4, <1>6, <2>2
  <2> QED
    BY <1>8, <2>1, <2>2
<1>11. \A x \in dependents : \E i \in DOMAIN todo : todo[i].act = "yaml" /\ todo[i].t = x
  BY <1>1, <1>2, <1>6, <1>7, SMTT(30)
<1>12. \E i \in DOMAIN todo : todo[i].act = "remove"
  BY <1>1, <1>4, <1>6
<1> QED
  BY <1>6, <1>9, <1>10, <1>11, <1>12 DEF Removing

\* The cached tickets without t.
Pruned(v, t, dependents) ==
  [x \in Ticket |-> IF x = t THEN None
                    ELSE IF x \in dependents
                         THEN [cache[v][x] EXCEPT !.deps = @ \ {t}]
                         ELSE cache[v][x]]
Dependents(v, t) == {x \in Known(v) \ {t} : t \in cache[v][x].deps}

\* Beginning to delete a ticket keeps what holds however handlers fail.
LEMMA DeleteKeeps ==
  ASSUME NEW v, Slot = {v}, IInv(v), Idle(v), NEW t \in Known(v) \cap OnDisk,
         NEW D, D = Dependents(v, t), D \subseteq OnDisk, NEW todo \in Seq(Step),
         Begin(v, todo, Pruned(v, t, D)), born' = born, Removing(t, D, todo)
  PROVE  /\ TypeOK' /\ IsFiniteSet(born)'
         /\ Vetted(v)' /\ Agreed(v)' /\ Placed(v)' /\ InOrder(v)' /\ Holding(v)'
         /\ \A F : Resting(v, F) => Resting(v, F)'
<1> DEFINE cached == Pruned(v, t, D)
           P == {todo[i] : i \in DOMAIN todo}
<1>1. /\ t \in Ticket /\ cache[v] # None /\ cache[v] \in Cached /\ D \subseteq Ticket /\ t \notin D
      /\ \A x \in D : cache[v][x] # None /\ cache[v][x] \in Rec
  BY DEF Known, Idle, IInv, TypeOK, Cached, Dependents
<1>2. /\ cached[t] = None
      /\ \A x \in D : /\ cached[x] \in Rec /\ cached[x].kind = cache[v][x].kind
                      /\ cached[x].deps \subseteq cache[v][x].deps
      /\ \A x \in Ticket : x # t /\ x \notin D => cached[x] = cache[v][x]
  BY <1>1 DEF Pruned, Rec
<1>3. cached \in Cached
  BY <1>1, <1>2 DEF Cached, Pruned
<1> HIDE DEF cached
<1>4. Begin(v, todo, cached)
  BY DEF cached
<1>5. /\ job'[v] \in Job /\ job'[v] # None /\ job' \in [Slot -> Job \cup {None}]
      /\ job'[v].todo = todo /\ job'[v].cached = cached /\ ~job'[v].touched
      /\ Todo(v) = {} /\ Todo(v)' = P
      /\ started \in Nat /\ started' = started + 1 /\ started' \in 0..MaxOps
      /\ disk' = disk /\ cache' = cache /\ lock' = lock /\ cut' = cut /\ unseen' = unseen
      /\ Holding(v)'
  BY <1>3, <1>4, Begun
<1>6. TypeOK'
  BY <1>5 DEF IInv, TypeOK
<1>7. \A s \in P : /\ s.loc = DirOf(s.t) /\ s.t \in D \cup {t} /\ s.act # "rename"
                   /\ s.act = "yaml" => s.t \in D /\ s.rec = Rid(s.t, t)
  BY DEF Removing
<1> HIDE DEF P
<1>8. \A u : /\ Left(v, "rename", u)' = {} /\ Left(v, "yaml", u) = {}
             /\ \A s \in Left(v, "yaml", u)' : u \in D /\ s.rec = Rid(u, t)
  BY <1>5, <1>7 DEF Left
<1>9. \A x \in D \cup {t} : /\ RecordOf(x) \in Records(v, x) /\ RecordOf(x) \in Rec
                            /\ x \in Ticket /\ x \in born /\ Lies(x, DirOf(x))
  <2>1. ASSUME NEW x \in D \cup {t}
        PROVE  RecordOf(x) \in Records(v, x) /\ RecordOf(x) \in Rec /\ x \in Ticket
    BY Found DEF IInv, Records, HasYaml
  <2> QED
    BY <2>1, LiesThere DEF IInv, Vetted
<1>10. \A u \in D : /\ Rid(u, t).num = RecordOf(u).num /\ Rid(u, t).kind = RecordOf(u).kind
                    /\ Rid(u, t).col = RecordOf(u).col
                    /\ Rid(u, t).deps \subseteq RecordOf(u).deps
  BY <1>9 DEF Rid, Rec
<1>11. \A u \in Ticket : \A r \in Records(v, u)' : r \in Records(v, u) \/ (u \in D /\ r = Rid(u, t))
  BY <1>5, <1>8 DEF Records, HasYaml
<1>12. \A d \in Ticket : IsWork(v, d) => IsWork(v, d)'
  BY <1>9, <1>10, <1>11 DEF IsWork
<1>13. Vetted(v)'
  <2>1. \A u \in Ticket : \A r \in Records(v, u) : r.deps \subseteq Ticket /\ r.num \in Nat
    BY Members DEF IInv, Rec
  <2>2. ASSUME NEW u \in Ticket, NEW r \in Records(v, u)'
        PROVE  \E q \in Records(v, u) :
                 r.num = q.num /\ r.kind = q.kind /\ r.col = q.col /\ r.deps \subseteq q.deps
    BY <1>9, <1>10, <1>11, <2>2
  <2>3. ASSUME NEW u \in Ticket, NEW r \in Records(v, u)'
        PROVE  (/\ u \in born /\ r.num <= started
                /\ r.kind = "idea" => r.col = "todo"
                /\ \A d \in r.deps : IsWork(v, d))'
    <3>1. PICK q \in Records(v, u) :
            r.num = q.num /\ r.kind = q.kind /\ r.col = q.col /\ r.deps \subseteq q.deps
      BY <2>2, <2>3
    <3>2. /\ u \in born /\ q.num <= started /\ q.num \in Nat
          /\ q.kind = "idea" => q.col = "todo"
          /\ \A d \in q.deps : d \in Ticket /\ IsWork(v, d)
      BY <2>1 DEF IInv, Vetted
    <3> QED
      BY <1>5, <1>12, <3>1, <3>2
  <2>4. ASSUME NEW u \in Ticket, NEW w \in Ticket,
               NEW r \in Records(v, u)', NEW q \in Records(v, w)', r.num = q.num
        PROVE  u = w
    BY <2>2, <2>4 DEF IInv, Vetted
  <2> QED
    BY <2>3, <2>4 DEF Vetted
<1>14. Agreed(v)'
  <2>1. ASSUME NEW u \in Ticket, NEW r \in Copies(v, u)'
        PROVE  \E q \in Copies(v, u) : r.deps \subseteq q.deps
    <3>1. cache[v][u] # None => cache[v][u] \in Copies(v, u)
      BY <1>1 DEF Copies
    <3>2. r \in {cache[v][u], cached[u]} /\ r # None
      BY <1>1, <1>5, <2>1 DEF Copies
    <3>3. CASE r = cache[v][u]
      BY <3>1, <3>2, <3>3
    <3>4. CASE r = cached[u]
      BY <1>1, <1>2, <3>1, <3>2, <3>4
    <3> QED
      BY <3>2, <3>3, <3>4
  <2>2. \A u \in Ticket : \A r \in Copies(v, u) : r.deps \subseteq Ticket
    BY Members DEF IInv, Rec
  <2>3. ASSUME NEW u \in Ticket, NEW r \in Copies(v, u)'
        PROVE  (u \in born /\ \A d \in r.deps : IsWork(v, d))'
    BY <1>12, <2>1, <2>2, <2>3 DEF IInv, Agreed
  <2>4. ASSUME NEW u \in Ticket, cached[u] # None, cached[u].kind = "work"
        PROVE  EndsWork(v, u)'
    <3>1. cache[v][u] # None /\ cache[v][u].kind = "work"
      BY <1>1, <1>2, <2>4
    <3>2. IsWork(v, u)
      BY <1>1, <3>1 DEF IInv, Agreed
    <3> QED
      BY <1>8, <1>9, <1>10, <1>12, <3>2 DEF EndsWork, IsWork
  <2> QED
    BY <1>1, <1>5, <1>12, <2>3, <2>4 DEF IInv, Agreed
<1>15. InOrder(v)'
  <2>1. \A i \in DOMAIN todo : todo[i].act # "rename"
    BY DEF Removing
  <2> QED
    BY <1>5, <2>1 DEF InOrder, Removing
<1>16. Placed(v)'
  <2>1. \A u, l : Lies(u, l)' <=> Lies(u, l)
    BY <1>5 DEF Lies
  <2>2. /\ \A u \in Ticket : \E l \in Loc : Lies(u, l)'
        /\ \A u \in Ticket \ born', l \in Loc : disk'[l][u] = Gone
    BY <1>5, <2>1 DEF IInv, Placed
  <2> QED
    BY <1>5, <1>7, <1>8, <1>9, <2>1, <2>2 DEF Placed
<1>17. \A F : Resting(v, F) => Resting(v, F)'
  BY <1>5 DEF Resting, Holds
<1>18. IsFiniteSet(born)'
  BY DEF IInv
<1> QED
  BY <1>5, <1>6, <1>13, <1>14, <1>15, <1>16, <1>17, <1>18

\* The board without t: nobody depends on it any more.
LEMMA SoundRid ==
  ASSUME NEW F \in Board, Sound(F), NEW t \in Ticket, NEW G \in Board, G[t] = Gone,
         \A u \in Ticket : u # t /\ F[u].yaml = None => G[u] = F[u],
         \A u \in Ticket : u # t /\ F[u].yaml # None =>
           /\ Whole(G[u]) /\ G[u].yaml # None
           /\ G[u].yaml.deps = F[u].yaml.deps \ {t}
  PROVE  Sound(G)
<1>1. Present(G) = Present(F) \ {t}
  BY DEF Present, Gone
<1>2. \A u \in Present(G) : G[u].yaml.deps = F[u].yaml.deps \ {t} /\ u \in Present(F)
  BY <1>1 DEF Present
<1>3. ASSUME NEW u \in Ticket PROVE Whole(G[u])
  <2>1. CASE u = t
    BY <2>1 DEF Whole, Gone
  <2>2. CASE u # t /\ F[u].yaml = None
    BY <2>2 DEF Sound
  <2>3. CASE u # t /\ F[u].yaml # None
    BY <2>3
  <2> QED
    BY <2>1, <2>2, <2>3
<1>4. Resolved(G)
  BY <1>1, <1>2 DEF Sound, Resolved
<1>5. ASSUME NEW S \in SUBSET Present(G), \A u \in S : G[u].yaml.deps \cap S # {}
      PROVE  S = {}
  <2>1. \A u \in S : F[u].yaml.deps \cap S # {}
    BY <1>2, <1>5
  <2>2. S \in SUBSET Present(F)
    BY <1>1
  <2> QED
    BY <2>1, <2>2 DEF Sound, NoCycle
<1>6. NoCycle(G)
  BY <1>5 DEF NoCycle
<1> QED
  BY <1>3, <1>4, <1>6 DEF Sound

\* It heads for the board without the ticket.
LEMMA DeleteHeads ==
  ASSUME NEW v, Slot = {v}, IInv(v), Idle(v), NEW t \in Known(v) \cap OnDisk,
         cache[v][t].col # "done",
         NEW D, D = Dependents(v, t), D \subseteq OnDisk, NEW todo \in Seq(Step),
         Begin(v, todo, Pruned(v, t, D)), Removing(t, D, todo),
         NEW F \in Board, Resting(v, F)
  PROVE  \E G \in Board : Heading(v, G)'
<1> DEFINE P == {todo[i] : i \in DOMAIN todo}
           G == [u \in Ticket |-> IF u = t THEN Gone
                                  ELSE IF u \in D THEN [F[u] EXCEPT !.yaml = [F[u].yaml EXCEPT !.deps = @ \ {t}]]
                                  ELSE F[u]]
<1>1. /\ t \in Ticket /\ cache[v] # None /\ cache[v] \in Cached /\ D \subseteq Ticket /\ t \notin D
      /\ D \subseteq Known(v)
  BY DEF Known, Idle, IInv, TypeOK, Cached, Dependents
<1>2. Pruned(v, t, D) \in Cached
  BY <1>1 DEF Pruned, Cached, Known, Rec
<1>3. job'[v].cached = Pruned(v, t, D) /\ Todo(v)' = P /\ disk' = disk
  BY <1>2, Begun
<1>4. /\ \A u \in Ticket, l \in Loc :
           disk[l][u] = IF F[u].yaml # None /\ F[u].yaml.phase = l THEN F[u] ELSE Gone
      /\ Sound(F) /\ Holds(F)
  BY DEF Resting, Holds
<1>5. /\ \A u \in Present(F) :
           /\ cache[v][u] = F[u].yaml /\ RecordOf(u) = F[u].yaml /\ F[u].yaml \in Rec
           /\ u \in Ticket /\ F[u].yaml # None
           /\ F[u] \in Files /\ Whole(F[u]) /\ DirOf(u) = F[u].yaml.phase
           /\ F[u].yaml.phase \in Loc
      /\ Known(v) = Present(F) /\ t \in Present(F) /\ cache[v] = YamlOf(F)
  <2>1. /\ Known(v) = Present(F) /\ OnDisk = Present(F) /\ t \in Present(F)
    BY SameRecord
  <2>2. cache[v] = YamlOf(F)
    BY <1>1 DEF Resting
  <2>3. ASSUME NEW u \in Present(F)
        PROVE  /\ cache[v][u] = F[u].yaml /\ RecordOf(u) = F[u].yaml /\ F[u].yaml \in Rec
               /\ u \in Ticket /\ F[u].yaml # None
               /\ F[u] \in Files /\ Whole(F[u]) /\ DirOf(u) = F[u].yaml.phase
               /\ F[u].yaml.phase \in Loc
    <3>1. u \in Known(v) \cap OnDisk /\ u \in Ticket
      BY <2>1, <2>3 DEF Present
    <3> QED
      BY <3>1, SameRecord
  <2> QED
    BY <2>1, <2>2, <2>3
<1>6. \A u \in D : /\ Rid(u, t) \in Rec /\ Rid(u, t) # None
                   /\ Rid(u, t) = [F[u].yaml EXCEPT !.deps = @ \ {t}]
                   /\ Rid(u, t).deps = F[u].yaml.deps \ {t}
                   /\ Rid(u, t).col = F[u].yaml.col /\ Rid(u, t).phase = F[u].yaml.phase
                   /\ Rid(u, t).archived = F[u].yaml.archived
                   /\ Rid(u, t).kind = F[u].yaml.kind
  <2>1. ASSUME NEW u \in D
        PROVE  Rid(u, t) \in Rec /\ Rid(u, t) = [F[u].yaml EXCEPT !.deps = @ \ {t}]
    BY <1>1, <1>5, ZenonT(30) DEF Rid, Rec
  <2> QED
    BY <1>1, <1>5, <2>1, NoneAssumption DEF Rec
<1>7. /\ G[t] = Gone
      /\ \A u \in Ticket : u # t /\ u \notin D => G[u] = F[u]
      /\ \A u \in D : /\ G[u] \in Files /\ G[u].yaml = Rid(u, t) /\ G[u].body = F[u].body
                      /\ G[u].completion = F[u].completion /\ G[u].trail = F[u].trail
  <2>1. G[t] = Gone /\ \A u \in Ticket : u # t /\ u \notin D => G[u] = F[u]
    BY <1>1
  <2>2. ASSUME NEW u \in D
        PROVE  /\ G[u] \in Files /\ G[u].yaml = Rid(u, t) /\ G[u].body = F[u].body
               /\ G[u].completion = F[u].completion /\ G[u].trail = F[u].trail
    <3>1. G[u] = [F[u] EXCEPT !.yaml = [F[u].yaml EXCEPT !.deps = @ \ {t}]]
      BY <1>1
    <3>2. PICK r \in Rec : r = Rid(u, t) /\ r = [F[u].yaml EXCEPT !.deps = @ \ {t}]
      BY <1>6
    <3>3. G[u] = [F[u] EXCEPT !.yaml = r]
      BY <3>1, <3>2
    <3>4. F[u] \in Files
      BY <1>1, <1>5
    <3> HIDE DEF G
    <3> QED
      BY <3>2, <3>3, <3>4 DEF Files
  <2> QED
    BY <2>1, <2>2
<1>8. G \in Board
  BY <1>7, Typed DEF Board, IInv
<1> HIDE DEF G, P
<1>9. \A u \in D : Whole(G[u]) /\ G[u].yaml # None
  <2>1. SUFFICES ASSUME NEW u \in D PROVE Whole(G[u]) /\ G[u].yaml # None
    OBVIOUS
  <2>2. Announced(F[u]) /\ F[u].body /\ (F[u].yaml.col = "done" => F[u].completion)
    BY <1>1, <1>5 DEF Whole
  <2>3. Announced(G[u])
    <3>1. /\ G[u].yaml.col = F[u].yaml.col /\ G[u].yaml.phase = F[u].yaml.phase
          /\ G[u].yaml.archived = F[u].yaml.archived /\ G[u].yaml.kind = F[u].yaml.kind
          /\ G[u].trail = F[u].trail
      BY <1>6, <1>7
    <3> QED
      BY <2>2, <3>1 DEF Announced
  <2> QED
    BY <1>6, <1>7, <2>2, <2>3 DEF Whole
<1>10. Sound(G)
  <2>1. ASSUME NEW u \in Ticket, u # t, F[u].yaml # None
        PROVE  Whole(G[u]) /\ G[u].yaml # None /\ G[u].yaml.deps = F[u].yaml.deps \ {t}
    <3>1. CASE u \in D
      BY <1>6, <1>7, <1>9, <3>1
    <3>2. CASE u \notin D
      <4>1. u \in Present(F)
        BY <2>1 DEF Present
      <4>2. t \notin F[u].yaml.deps
        BY <1>5, <2>1, <3>2, <4>1 DEF Dependents
      <4> QED
        BY <1>5, <1>7, <2>1, <3>2, <4>1, <4>2
    <3> QED
      BY <3>1, <3>2
  <2>2. \A u \in Ticket : u # t /\ F[u].yaml = None => G[u] = F[u]
    BY <1>1, <1>5, <1>7
  <2> QED
    BY <1>1, <1>4, <1>7, <1>8, <2>1, <2>2, SoundRid
<1>11. Pruned(v, t, D) = YamlOf(G)
  <2>1. ASSUME NEW u \in Ticket PROVE Pruned(v, t, D)[u] = G[u].yaml
    <3>1. CASE u = t
      BY <1>7, <3>1 DEF Pruned, Gone
    <3>2. CASE u \in D
      BY <1>1, <1>5, <1>6, <1>7, <3>2 DEF Pruned
    <3>3. CASE u # t /\ u \notin D
      BY <1>5, <1>7, <3>3 DEF Pruned, YamlOf
    <3> QED
      BY <3>1, <3>2, <3>3
  <2> QED
    BY <2>1 DEF Pruned, YamlOf
<1>12. Permitted(G)'
  <2>1. ASSUME NEW u \in Ticket, NEW l \in Loc, disk[l][u].yaml # None
        PROVE  /\ F[u].yaml # None /\ disk[l][u].yaml = F[u].yaml
               /\ u = t => F[u].yaml.col # "done"
               /\ u # t => G[u].yaml # None /\ G[u].yaml.col = F[u].yaml.col
    <3>1. F[u].yaml # None /\ disk[l][u].yaml = F[u].yaml
      BY <1>4, <2>1, Typed DEF IInv
    <3>2. u = t => F[u].yaml.col # "done"
      BY <1>5
    <3>3. u # t => G[u].yaml # None /\ G[u].yaml.col = F[u].yaml.col
      BY <1>6, <1>7, <1>9, <3>1
    <3> QED
      BY <3>1, <3>2, <3>3
  <2>2. G[t].yaml = None
    BY <1>7 DEF Gone
  <2> QED
    BY <1>3, <2>1, <2>2 DEF Permitted
<1>13. \A s \in P : /\ s.loc = DirOf(s.t)
                    /\ \/ s.act = "remove" /\ s.t = t
                       \/ s.act = "yaml" /\ s.t \in D /\ s.rec = Rid(s.t, t)
  BY DEF Removing, P
<1>14. /\ \A x \in D : \E s \in P : s.act = "yaml" /\ s.t = x
       /\ \E s \in P : s.act = "remove"
  BY DEF Removing, P
<1>15. ASSUME NEW u \in Ticket, u # t, u \notin D PROVE Arrives(v, G, u)'
  <2>1. \A s \in Todo(v)' : s.t # u
    BY <1>3, <1>13, <1>15
  <2> QED
    BY <1>3, <1>4, <1>7, <1>15, <2>1, Arrived DEF IInv
<1>16. Arrives(v, G, t)'
  <2>1. \A s \in Todo(v)' : s.t = t => s.act = "remove"
    BY <1>1, <1>3, <1>13
  <2>2. Left(v, "remove", t)' # {}
    BY <1>3, <1>13, <1>14 DEF Left
  <2>3. G[t].yaml = None
    BY <1>7 DEF Gone
  <2> QED
    BY <2>1, <2>2, <2>3 DEF Arrives
<1>17. ASSUME NEW u \in D PROVE Arrives(v, G, u)'
  <2> DEFINE p == F[u].yaml.phase
  <2>1. /\ u \in Ticket /\ u # t /\ u \in Present(F) /\ p \in Loc /\ DirOf(u) = p
        /\ F[u] \in Files /\ G[u].yaml # None /\ G[u].yaml.phase = p /\ disk[p][u] = F[u]
    BY <1>1, <1>4, <1>5, <1>6, <1>7, <1>9
  <2>2. \A act : act # "yaml" => Left(v, act, u)' = {}
    BY <1>3, <1>13, <2>1 DEF Left
  <2>3. Left(v, "yaml", u)' # {} /\ \A s \in Left(v, "yaml", u)' : s.rec = Rid(u, t)
    BY <1>3, <1>13, <1>14, <2>1 DEF Left
  <2>4. \A s \in Todo(v)' : s.t = u => s.loc = p
    BY <1>3, <1>13, <2>1
  <2> HIDE DEF p
  <2>5. Lies(u, p)'
    <3>1. \A m \in Loc \ {p} : disk'[m][u] = Gone
      BY <1>3, <1>4, <2>1 DEF p
    <3> QED
      BY <3>1 DEF Lies
  <2>6. Becomes(v, u, disk[p][u], G[u])'
    <3>1. F[u].body \in BOOLEAN /\ F[u].completion \in BOOLEAN
      BY <2>1 DEF Files
    <3>2. disk'[p][u] = F[u]
      BY <1>3, <2>1
    <3> QED
      BY <1>7, <2>2, <2>3, <3>1, <3>2 DEF Becomes
  <2> QED
    BY <2>1, <2>2, <2>4, <2>5, <2>6 DEF Arrives
<1>18. \A u \in Ticket : Arrives(v, G, u)'
  BY <1>15, <1>16, <1>17
<1>19. Heading(v, G)'
  BY <1>3, <1>10, <1>11, <1>12, <1>18 DEF Heading
<1> QED
  BY <1>8, <1>19

\* DeleteTicket: the dependents first, then the directory.
LEMMA DeleteTicketStep ==
  ASSUME NEW v, Slot = {v}, IInv(v), Idle(v), DeleteTicket(v)
  PROVE  IInv(v)'
<1>1. PICK t \in Known(v) \cap OnDisk :
        /\ cache[v][t].col # "done" /\ Dependents(v, t) \subseteq OnDisk /\ born' = born
        /\ \E order \in SetToSeqs(Dependents(v, t)) :
             Begin(v, [i \in 1..Len(order) |-> Rewriting(order[i], t)]
                        \o <<RemoveDir(DirOf(t), t)>>,
                   Pruned(v, t, Dependents(v, t)))
  BY DEF DeleteTicket, Dependents, Rewriting, Rid, Pruned
<1>2. PICK D : D = Dependents(v, t)
  OBVIOUS
<1>3. PICK order \in SetToSeqs(D) :
        Begin(v, [i \in 1..Len(order) |-> Rewriting(order[i], t)] \o <<RemoveDir(DirOf(t), t)>>,
              Pruned(v, t, D))
  BY <1>1, <1>2
<1>4. PICK q, b, todo : /\ q = [i \in 1..Len(order) |-> Rewriting(order[i], t)]
                        /\ b = RemoveDir(DirOf(t), t) /\ todo = q \o <<b>>
  OBVIOUS
<1>5. Begin(v, todo, Pruned(v, t, D))
  BY <1>3, <1>4
<1>6. IsFiniteSet(D)
  <2>1. D \subseteq born
    BY <1>2 DEF Dependents, Known, IInv, Agreed, Copies, Idle
  <2> QED
    BY <2>1, FS_Subset DEF IInv
<1>7. D \subseteq OnDisk \ {t}
  BY <1>1, <1>2 DEF Dependents
<1>8. todo \in Seq(Step) /\ Removing(t, D, todo)
  BY <1>4, <1>6, <1>7, Removal DEF IInv
<1>9. /\ TypeOK' /\ IsFiniteSet(born)'
      /\ Vetted(v)' /\ Agreed(v)' /\ Placed(v)' /\ InOrder(v)' /\ Holding(v)'
      /\ \A F : Resting(v, F) => Resting(v, F)'
  BY <1>1, <1>2, <1>5, <1>8, DeleteKeeps
<1>10. cut' = cut /\ job[v] = None
  BY <1>5 DEF Begin, Idle
<1>11. ASSUME ~cut
       PROVE  /\ \E F \in Board : Resting(v, F)'
              /\ \E G \in Board : Heading(v, G)'
  <2>1. PICK F \in Board : Resting(v, F)
    BY <1>10, <1>11 DEF IInv
  <2>2. \E G \in Board : Heading(v, G)'
    BY <1>1, <1>2, <1>5, <1>8, <2>1, DeleteHeads
  <2> QED
    BY <1>9, <2>1, <2>2
<1> QED
  BY <1>9, <1>10, <1>11 DEF IInv

\* Every handler, up to its Commit.
LEMMA HandleStep ==
  ASSUME NEW v, Slot = {v}, IInv(v), Handle(v)
  PROVE  IInv(v)'
<1>1. Idle(v)
  BY DEF Handle
<1>2. \/ CreateTicket(v) \/ UpdateTicket(v) \/ MoveTicket(v) \/ CompleteTicket(v)
      \/ DeleteTicket(v) \/ AssignTicketToPhase(v) \/ FlipArchive(v) \/ PromoteIdea(v)
  BY DEF Handle
<1> QED
  BY <1>1, <1>2, CreateTicketStep, UpdateTicketStep, MoveTicketStep, CompleteTicketStep,
     DeleteTicketStep, AssignTicketToPhaseStep, FlipArchiveStep, PromoteIdeaStep

\* The next-state relation preserves the invariant.
LEMMA NextStep ==
  ASSUME NEW v, Slot = {v}, IInv(v), [Next]_vars
  PROVE  IInv(v)'
<1>1. CASE UNCHANGED vars
  <2>1. TypeOK' /\ IsFiniteSet(born)'
    BY <1>1 DEF IInv, TypeOK, vars
  <2>2. /\ disk' = disk /\ job' = job /\ cache' = cache /\ born' = born
        /\ started' = started /\ lock' = lock /\ cut' = cut
    BY <1>1 DEF vars
  <2>3. Todo(v)' = Todo(v) /\ \A act, t : Left(v, act, t)' = Left(v, act, t)
    BY <2>2 DEF Todo, Left
  <2>4. /\ Vetted(v)' /\ Placed(v)' /\ InOrder(v)'
        /\ \A d \in Ticket : IsWork(v, d) => IsWork(v, d)'
        /\ \A F : Holds(F) => Holds(F)'
    BY <2>2, DiskKept
  <2>5. Agreed(v)'
    <3>1. \A t : Copies(v, t)' = Copies(v, t)
      BY <2>2 DEF Copies
    <3>2. \A d \in Ticket : IsWork(v, d)' <=> IsWork(v, d)
      BY <2>2, <2>3 DEF IsWork, Records, HasYaml
    <3>3. \A d \in Ticket : EndsWork(v, d)' <=> EndsWork(v, d)
      BY <2>3, <3>2 DEF EndsWork
    <3>4. \A u \in Ticket : \A r \in Copies(v, u) : r.deps \subseteq Ticket
      BY Members DEF IInv, Rec
    <3> QED
      BY <2>2, <3>1, <3>2, <3>3, <3>4 DEF IInv, Agreed
  <2>6. Holding(v)'
    BY <2>2 DEF IInv, Holding
  <2>7. \A F : Resting(v, F) => Resting(v, F)'
    BY <2>2, <2>4 DEF Resting
  <2>8. \A F \in Board : Heading(v, F) => Heading(v, F)'
    <3>1. SUFFICES ASSUME NEW F \in Board, Heading(v, F) PROVE Heading(v, F)'
      OBVIOUS
    <3>2. \A t \in Ticket : Arrives(v, F, t)'
      BY <2>2, <2>3, <3>1 DEF Heading, Arrives, Becomes, Lies
    <3>3. Permitted(F)'
      BY <2>2, <3>1 DEF Heading, Permitted
    <3> QED
      BY <2>2, <3>1, <3>2, <3>3 DEF Heading
  <2> QED
    BY <2>1, <2>2, <2>4, <2>5, <2>6, <2>7, <2>8 DEF IInv
<1>2. CASE Next
  <2>1. \/ Load(v) \/ Handle(v) \/ Acquire(v) \/ Refused(v)
        \/ Apply(v) \/ ApplyRemove(v) \/ Fail(v) \/ Finish(v) \/ Crash(v)
    BY <1>2 DEF Next
  <2>2. PICK s : s = Upcoming(v)
    OBVIOUS
  <2>3. CASE Apply(v)
    BY <2>2, <2>3, WriteStep, MoveStep
  <2>4. CASE ApplyRemove(v)
    BY <2>2, <2>4, RemovedStep, UnlinkStep
  <2> QED
    BY <2>1, <2>3, <2>4, LoadStep, HandleStep, AcquireStep, RefusedStep, FailStep,
       FinishStep, CrashStep
<1> QED
  BY <1>1, <1>2

\* An empty project is a sound board.
LEMMA Beginning ==
  ASSUME NEW v, Slot = {v}, Init
  PROVE  IInv(v)
<1> DEFINE F == [t \in Ticket |-> Gone]
<1>1. /\ \A l \in Loc, t \in Ticket : disk[l][t] = Gone
      /\ job[v] = None /\ cache[v] = None /\ lock = None /\ born = {} /\ started = 0
      /\ cut = FALSE /\ unseen = [w \in Slot |-> {}]
  BY DEF Init
<1>2. Gone \in Files /\ Gone.yaml = None
  BY DEF Gone, NoTrail, Files, Trail
<1>3. TypeOK
  <2>1. 0 \in 0..MaxOps
    BY MaxOpsAssumption
  <2>2. disk \in [Loc -> [Ticket -> Files]]
    BY <1>2 DEF Init
  <2>3. cache \in [Slot -> Cached \cup {None}] /\ job \in [Slot -> Job \cup {None}]
    BY DEF Init
  <2> QED
    BY <1>1, <2>1, <2>2, <2>3 DEF TypeOK
<1>4. IsFiniteSet(born)
  BY <1>1, FS_EmptySet
<1>5. Todo(v) = {} /\ \A t : Copies(v, t) = {}
  BY <1>1 DEF Todo, Copies
<1>6. \A t \in Ticket : Records(v, t) = {}
  BY <1>1, <1>2, <1>5 DEF Records, HasYaml, Left
<1>7. Vetted(v) /\ Agreed(v)
  BY <1>1, <1>5, <1>6 DEF Vetted, Agreed
<1>8. Placed(v)
  <2>1. 0 \in Loc
    BY PhaseAssumption DEF Loc
  <2>2. \A t \in Ticket : Lies(t, 0)
    BY <1>1 DEF Lies
  <2> QED
    BY <1>1, <1>5, <2>1, <2>2 DEF Placed
<1>9. InOrder(v) /\ Holding(v)
  BY <1>1, NoneAssumption DEF InOrder, Holding
<1>10. F \in Board /\ \A t \in Ticket : F[t] = Gone
  BY <1>2 DEF Board
<1> HIDE DEF F
<1>11. Resting(v, F)
  <2>1. Present(F) = {}
    BY <1>2, <1>10 DEF Present
  <2>2. Sound(F)
    BY <1>2, <1>10, <2>1 DEF Sound, Whole, Resolved, NoCycle
  <2>3. Holds(F)
    BY <1>1, <1>2, <1>10 DEF Holds
  <2> QED
    BY <1>1, <2>2, <2>3 DEF Resting
<1> QED
  BY <1>1, <1>3, <1>4, <1>7, <1>8, <1>9, <1>10, <1>11 DEF IInv

-----------------------------------------------------------------------------
\* The inductive invariant: while one LoadedProject handles the requests, the
\* data dir is what its handlers have announced, up to the steps left.
THEOREM Invariance ==
  ASSUME NEW v, Slot = {v}
  PROVE  Spec => []IInv(v)
<1>1. Init => IInv(v)
  BY Beginning
<1>2. IInv(v) /\ [Next]_vars => IInv(v)'
  BY NextStep
<1> QED
  BY <1>1, <1>2, PTL DEF Spec

\* Between requests, while no handler was cut short, the disk holds a board.
LEMMA AtRest ==
  ASSUME NEW v, Slot = {v}, IInv(v), Quiet
  PROVE  \E F \in Board : Resting(v, F)
BY NoneAssumption DEF IInv, Quiet, Holding

\* The integrity check (integrity.go checkProject) finds nothing while every
\* handler finishes, and numbers are unique however they fail
\* (nextTicketNumber).
THEOREM Structure ==
  ASSUME NEW v, Slot = {v}
  PROVE  Spec => []StructureHolds
<1>1. ASSUME IInv(v), Quiet PROVE IntegrityHolds
  <2>1. PICK F \in Board : Resting(v, F)
    BY <1>1, AtRest
  <2>2. ASSUME NEW t \in Ticket, NEW l \in Loc, disk[l][t].yaml # None
        PROVE  /\ disk[l][t].body
               /\ disk[l][t].yaml.col = "done" => disk[l][t].completion
               /\ HasYaml(t) = {l}
               /\ disk[l][t].yaml.phase = l
    <3>1. F[t].yaml # None /\ F[t].yaml.phase = l /\ disk[l][t] = F[t]
      BY <1>1, <2>1, <2>2, Typed DEF Resting, Holds, IInv
    <3>2. HasYaml(t) = {l}
      BY <1>1, <2>1, <3>1, Reads DEF Resting, Present, IInv
    <3> QED
      BY <2>1, <3>1, <3>2 DEF Resting, Sound, Whole
  <2> QED
    BY <2>2 DEF IntegrityHolds
<1>2. ASSUME IInv(v) PROVE UniqueNumbers
  <2>1. \A t \in OnDisk : t \in Ticket /\ RecordOf(t) \in Records(v, t)
    BY <1>2, Found DEF IInv, Records, HasYaml
  <2> QED
    BY <1>2, <2>1 DEF IInv, Vetted, UniqueNumbers
<1>3. IInv(v) => StructureHolds
  BY <1>1, <1>2 DEF StructureHolds, IInv, IntegrityHolds
<1> QED
  BY <1>3, Invariance, PTL

\* No dangling dependency and no cycle while every handler finishes
\* (DeleteTicket, dependencyUpdateCreatesCycle), and ideas stay parked however
\* they fail.
THEOREM Graph ==
  ASSUME NEW v, Slot = {v}
  PROVE  Spec => []GraphHolds
<1>1. ASSUME IInv(v), Quiet PROVE RefsResolve /\ Acyclic
  <2>1. PICK F \in Board : Resting(v, F)
    BY <1>1, AtRest
  <2>2. OnDisk = Present(F) /\ \A t \in Present(F) : RecordOf(t) = F[t].yaml
    BY <1>1, <2>1, Reads DEF Resting, IInv
  <2>3. Resolved(F) /\ NoCycle(F)
    BY <2>1 DEF Resting, Sound
  <2>4. RefsResolve
    BY <2>2, <2>3 DEF RefsResolve, Resolved
  <2>5. ASSUME NEW S \in SUBSET OnDisk, \A t \in S : RecordOf(t).deps \cap S # {}
        PROVE  S = {}
    BY <2>2, <2>3, <2>5 DEF NoCycle
  <2> QED
    BY <2>4, <2>5 DEF Acyclic
<1>2. ASSUME IInv(v) PROVE IdeasParked
  <2>1. \A t \in OnDisk : t \in Ticket /\ RecordOf(t) \in Records(v, t)
    BY <1>2, Found DEF IInv, Records, HasYaml
  <2> QED
    BY <1>2, <2>1 DEF IInv, Vetted, IsWork, IdeasParked
<1>3. IInv(v) => GraphHolds
  BY <1>1, <1>2 DEF GraphHolds, RefsResolve, Acyclic
<1> QED
  BY <1>3, Invariance, PTL

\* The last system comments announce what the record shows (MoveTicket,
\* CompleteTicket, AssignTicketToPhase, flipArchive, PromoteIdea).
THEOREM Trails ==
  ASSUME NEW v, Slot = {v}
  PROVE  Spec => []AuditTrail
<1>1. ASSUME IInv(v), Quiet PROVE AuditTrail
  <2>1. PICK F \in Board : Resting(v, F)
    BY <1>1, AtRest
  <2>2. \A t \in OnDisk : /\ disk[DirOf(t)][t] = F[t] /\ RecordOf(t) = F[t].yaml
                          /\ Announced(F[t])
    BY <1>1, <2>1, Reads DEF Resting, IInv, Sound, Whole, Present
  <2> QED
    BY <2>2 DEF AuditTrail, Announced
<1>2. IInv(v) => AuditTrail
  BY <1>1 DEF AuditTrail
<1> QED
  BY <1>2, Invariance, PTL

\* What lp.Tickets holds is what the disk holds, between requests.
THEOREM CacheIsDisk ==
  ASSUME NEW v, Slot = {v}
  PROVE  Spec => []CacheMatchesDisk
<1>1. ASSUME IInv(v), Quiet, Idle(v) PROVE cache[v] = DiskView
  <2>1. PICK F \in Board : Resting(v, F)
    BY <1>1, AtRest
  <2> QED
    BY <1>1, <2>1, Reads DEF Resting, IInv, Idle
<1>2. IInv(v) => CacheMatchesDisk
  BY <1>1 DEF CacheMatchesDisk
<1> QED
  BY <1>2, Invariance, PTL

\* The last match, when there is one.
LEMMA Sole ==
  ASSUME NEW n \in Nat
  PROVE  Max({n}) = n
BY DEF Max

\* A record on disk is the one a ticket is read by.
LEMMA OneRecord ==
  ASSUME NEW v \in Slot, TypeOK, Placed(v), NEW t \in Ticket, NEW l \in Loc,
         disk[l][t].yaml # None
  PROVE  t \in OnDisk /\ RecordOf(t) = disk[l][t].yaml /\ HasYaml(t) = {l} /\ DirOf(t) = l
<1>1. t \in OnDisk
  BY DEF OnDisk, HasYaml
<1>2. Lies(t, DirOf(t)) /\ DirOf(t) \in Loc /\ disk[DirOf(t)][t].yaml # None
  BY <1>1, LiesThere, Found
<1>3. \A m \in Loc : disk[m][t].yaml # None => m = DirOf(t)
  BY <1>2, Typed DEF Lies
<1> QED
  BY <1>1, <1>2, <1>3 DEF RecordOf, HasYaml

\* What a step makes of the record of t: it stays, or is the one the running
\* handler writes, or goes with the directory.
LEMMA RecordChange ==
  ASSUME NEW v, Slot = {v}, IInv(v), Next, NEW t \in Ticket
  PROVE  \/ /\ t \in OnDisk' <=> t \in OnDisk
            /\ t \in OnDisk => RecordOf(t)' = RecordOf(t)
         \/ /\ job[v] # None /\ cut' = cut /\ t \in OnDisk'
            /\ \E s \in Left(v, "yaml", t) : RecordOf(t)' = s.rec
         \/ /\ job[v] # None /\ cut' = cut /\ t \notin OnDisk'
            /\ Left(v, "remove", t) # {}
<1>1. ASSUME \A l \in Loc : disk'[l][t].yaml = disk[l][t].yaml
      PROVE  (t \in OnDisk' <=> t \in OnDisk) /\ (t \in OnDisk => RecordOf(t)' = RecordOf(t))
  <2>1. HasYaml(t)' = HasYaml(t) /\ DirOf(t)' = DirOf(t)
    BY <1>1 DEF HasYaml, DirOf
  <2> QED
    BY <1>1, <2>1, Found DEF IInv, OnDisk, RecordOf
<1>2. PICK s : s = Upcoming(v)
  OBVIOUS
<1>3. CASE disk' = disk
  BY <1>1, <1>3
<1>4. CASE Apply(v) /\ s.act # "rename"
  <2>1. /\ s.t \in Ticket /\ s.loc \in Loc
        /\ \A m \in Loc, u \in Ticket : m # s.loc \/ u # s.t => disk'[m][u] = disk[m][u]
        /\ Written(s, disk[s.loc][s.t], disk'[s.loc][s.t])
    BY <1>2, <1>4, Writes
  <2>2. CASE t # s.t \/ s.act # "yaml"
    <3>1. \A l \in Loc : disk'[l][t].yaml = disk[l][t].yaml
      BY <2>1, <2>2 DEF Written
    <3> QED
      BY <1>1, <3>1
  <2>3. CASE t = s.t /\ s.act = "yaml"
    <3>1. /\ s \in Todo(v) /\ \A x \in Todo(v) : x.act # "rename"
          /\ s \in Left(v, "yaml", t) /\ job[v] # None
      BY <1>2, <1>4, <2>3, Applied DEF Left
    <3>2. Lies(t, s.loc)
      BY <2>3, <3>1 DEF IInv, Placed, Left
    <3>3. s.rec \in Rec /\ disk'[s.loc][t].yaml = s.rec
      BY <2>1, <2>3, <3>1, Members DEF IInv, Written
    <3>4. \A m \in Loc : m # s.loc => disk'[m][t].yaml = None
      BY <2>1, <3>2, Typed DEF Lies, IInv
    <3>5. HasYaml(t)' = {s.loc}
      BY <2>1, <3>3, <3>4, NoneAssumption DEF HasYaml
    <3>6. DirOf(t)' = s.loc
      <4>1. DirOf(t)' = Max(HasYaml(t)')
        BY DEF DirOf
      <4>2. s.loc \in Nat
        BY <2>1, PhaseAssumption DEF Loc
      <4> QED
        BY <3>5, <4>1, <4>2, Sole
    <3>7. t \in OnDisk' /\ RecordOf(t)' = s.rec
      BY <3>3, <3>5, <3>6 DEF OnDisk, RecordOf
    <3>8. cut' = cut
      BY <1>4 DEF Apply
    <3> QED
      BY <3>1, <3>7, <3>8
  <2> QED
    BY <2>2, <2>3
<1>5. CASE Apply(v) /\ s.act = "rename"
  <2>1. /\ s.to # s.loc /\ s.to \in Loc /\ s.loc \in Loc /\ s.t \in Ticket
        /\ \A m \in Loc, u \in Ticket :
             disk'[m][u] = IF u # s.t \/ (m # s.loc /\ m # s.to) THEN disk[m][u]
                           ELSE IF m = s.to THEN disk[s.loc][s.t] ELSE Gone
    BY <1>2, <1>5, Moves
  <2>2. CASE t # s.t
    <3>1. \A l \in Loc : disk'[l][t].yaml = disk[l][t].yaml
      BY <2>1, <2>2
    <3> QED
      BY <1>1, <3>1
  <2>3. CASE t = s.t
    <3>1. s \in Left(v, "rename", t) /\ s \in Todo(v)
      BY <1>2, <1>5, <2>3, Applied DEF Left
    <3>2. Lies(t, s.loc)
      BY <2>3, <3>1 DEF IInv, Placed
    <3>3. /\ disk'[s.to][t] = disk[s.loc][t]
          /\ \A m \in Loc : m # s.to => disk'[m][t].yaml = None
          /\ \A m \in Loc : m # s.loc => disk[m][t].yaml = None
      BY <2>1, <2>3, <3>2, Typed DEF Lies, IInv
    <3>4. CASE disk[s.loc][t].yaml = None
      <4>1. HasYaml(t) = {} /\ HasYaml(t)' = {}
        BY <3>3, <3>4 DEF HasYaml
      <4> QED
        BY <4>1 DEF OnDisk
    <3>5. CASE disk[s.loc][t].yaml # None
      <4>1. t \in OnDisk /\ RecordOf(t) = disk[s.loc][t].yaml
        BY <2>1, <3>5, OneRecord DEF IInv
      <4>2. HasYaml(t)' = {s.to}
        BY <2>1, <3>3, <3>5 DEF HasYaml
      <4>3. DirOf(t)' = s.to
        <5>1. DirOf(t)' = Max(HasYaml(t)')
          BY DEF DirOf
        <5>2. s.to \in Nat
          BY <2>1, PhaseAssumption DEF Loc
        <5> QED
          BY <4>2, <5>1, <5>2, Sole
      <4>4. t \in OnDisk' /\ RecordOf(t)' = disk[s.loc][t].yaml
        BY <3>3, <4>2, <4>3 DEF OnDisk, RecordOf
      <4> QED
        BY <4>1, <4>4
    <3> QED
      BY <3>4, <3>5
  <2> QED
    BY <2>2, <2>3
<1>6. CASE ApplyRemove(v) /\ disk' # disk
  <2>1. disk[s.loc][s.t] # Gone
    BY <1>2, <1>6 DEF ApplyRemove
  <2>2. /\ s \in Left(v, "remove", s.t) /\ s.loc \in Loc /\ s.t \in Ticket
        /\ job[v] # None /\ cut' = cut
        /\ \A m \in Loc, u \in Ticket : m # s.loc \/ u # s.t => disk'[m][u] = disk[m][u]
        /\ disk'[s.loc][s.t].yaml \in {disk[s.loc][s.t].yaml, None}
    BY <1>2, <1>6, <2>1, Unlinks
  <2>3. CASE \A l \in Loc : disk'[l][t].yaml = disk[l][t].yaml
    BY <1>1, <2>3
  <2>4. CASE t = s.t /\ disk'[s.loc][t].yaml = None /\ disk[s.loc][t].yaml # None
    <3>1. HasYaml(t) = {s.loc}
      BY <2>2, <2>4, OneRecord DEF IInv
    <3>2. HasYaml(t)' = {}
      BY <2>2, <2>4, <3>1 DEF HasYaml
    <3> QED
      BY <2>2, <2>4, <3>2 DEF OnDisk
  <2> QED
    BY <2>2, <2>3, <2>4
<1>7. \/ disk' = disk \/ Apply(v) \/ ApplyRemove(v)
  <2>1. Handle(v) => disk' = disk
    BY DEF Handle, Begin, CreateTicket, UpdateTicket, MoveTicket, CompleteTicket,
       DeleteTicket, AssignTicketToPhase, FlipArchive, PromoteIdea
  <2>2. Load(v) \/ Acquire(v) \/ Refused(v) \/ Fail(v) \/ Finish(v) \/ Crash(v) => disk' = disk
    BY DEF Load, Acquire, Refused, Fail, Finish, Crash
  <2> QED
    BY <2>1, <2>2 DEF Next
<1> QED
  BY <1>3, <1>4, <1>5, <1>6, <1>7

\* What a handler writes or removes is what its board allows.
LEMMA Destined ==
  ASSUME NEW v, Slot = {v}, IInv(v), ~cut, job[v] # None
  PROVE  \E F \in Board :
           /\ \A t \in Ticket : \A s \in Left(v, "yaml", t) :
                F[t].yaml = s.rec /\ F[t].yaml # None
           /\ \A t \in Ticket : Left(v, "remove", t) # {} => F[t].yaml = None
           /\ \A t \in OnDisk :
                /\ RecordOf(t).col = "done" => F[t].yaml # None /\ F[t].yaml.col = "done"
                /\ (/\ Enforce /\ RecordOf(t).col # "in_progress"
                    /\ F[t].yaml # None /\ F[t].yaml.col = "in_progress")
                     => \A d \in RecordOf(t).deps : Done(d)
<1>1. PICK F \in Board : Permitted(F) /\ \A t \in Ticket : Arrives(v, F, t)
  BY DEF IInv, Heading
<1>2. ASSUME NEW t \in Ticket, NEW s \in Left(v, "yaml", t)
      PROVE  F[t].yaml = s.rec /\ F[t].yaml # None
  <2>1. s \in Todo(v) /\ s.t = t /\ s.act = "yaml"
    BY <1>2 DEF Left
  <2>2. F[t].yaml # None
    BY <1>1, <2>1 DEF Arrives
  <2>3. \E l \in Loc : Becomes(v, t, disk[l][t], F[t])
    BY <1>1, <2>2 DEF Arrives
  <2> QED
    BY <2>2, <2>3 DEF Becomes
<1>3. \A t \in Ticket : Left(v, "remove", t) # {} => F[t].yaml = None
  BY <1>1 DEF Arrives
<1>4. ASSUME NEW t \in OnDisk
      PROVE  /\ RecordOf(t).col = "done" => F[t].yaml # None /\ F[t].yaml.col = "done"
             /\ (/\ Enforce /\ RecordOf(t).col # "in_progress"
                 /\ F[t].yaml # None /\ F[t].yaml.col = "in_progress")
                  => \A d \in RecordOf(t).deps : Done(d)
  <2>1. /\ t \in Ticket /\ DirOf(t) \in Loc /\ disk[DirOf(t)][t].yaml # None
        /\ RecordOf(t) = disk[DirOf(t)][t].yaml /\ RecordOf(t) \in Rec
    BY Found DEF IInv
  <2>2. RecordOf(t).col = "done" => F[t].yaml # None /\ F[t].yaml.col = "done"
    BY <1>1, <2>1 DEF Permitted
  <2>3. ASSUME Enforce, RecordOf(t).col # "in_progress",
               F[t].yaml # None, F[t].yaml.col = "in_progress", NEW d \in RecordOf(t).deps
        PROVE  Done(d)
    <3>1. PICK m \in Loc : disk[m][d].yaml # None /\ disk[m][d].yaml.col = "done"
      BY <1>1, <2>1, <2>3 DEF Permitted
    <3>2. d \in Ticket
      BY <2>1, <2>3 DEF Rec
    <3>3. d \in OnDisk /\ RecordOf(d) = disk[m][d].yaml
      BY <3>1, <3>2, OneRecord DEF IInv
    <3> QED
      BY <3>1, <3>3 DEF Done
  <2> QED
    BY <2>2, <2>3
<1> QED
  BY <1>2, <1>3, <1>4

-----------------------------------------------------------------------------
\* What is so of done tickets however handlers fail: the cache says so, or the
\* running handler will, or the slot was told otherwise (unseen); and no step
\* left undoes it.
Sticky(v) ==
  /\ cache[v] # None => \A t \in Ticket : Done(t) =>
       \/ SaysDone(cache[v], t) \/ t \in unseen[v]
       \/ job[v] # None /\ job[v].touched /\ SaysDone(job[v].cached, t)
  /\ job[v] # None => cache[v] # None
  /\ job[v] # None => \A t \in Ticket :
       SaysDone(cache[v], t) => SaysDone(job[v].cached, t)
  /\ \A t \in Ticket : \A s \in Left(v, "yaml", t) :
       s.rec.col = "done" => SaysDone(job[v].cached, t) \/ t \in unseen[v]
  /\ \A t \in Ticket \ unseen[v] :
       Done(t) \/ (\E s \in Left(v, "yaml", t) : s.rec.col = "done") =>
         (\A s \in Left(v, "yaml", t) : s.rec.col = "done") /\ Left(v, "remove", t) = {}

\* The list of a handler that begins keeps it.
LEMMA Starts ==
  ASSUME NEW v, Slot = {v}, IInv(v), Sticky(v), Idle(v),
         NEW todo \in Seq(Step), NEW cached \in Cached, Begin(v, todo, cached),
         \A t \in Ticket : SaysDone(cache[v], t) => SaysDone(cached, t),
         \A i \in DOMAIN todo : todo[i].act = "yaml" =>
           /\ todo[i].rec.col = "done" => SaysDone(cached, todo[i].t) \/ Done(todo[i].t)
           /\ Done(todo[i].t) => todo[i].rec.col = "done" \/ ~SaysDone(cache[v], todo[i].t),
         \A i, j \in DOMAIN todo :
           todo[i].act = "yaml" /\ todo[j].act \in {"yaml", "remove"} /\ todo[i].t = todo[j].t
             => i = j,
         \A i \in DOMAIN todo :
           todo[i].act = "remove" => ~SaysDone(cache[v], todo[i].t)
  PROVE  Sticky(v)'
<1>1. /\ job'[v] # None /\ job'[v].cached = cached /\ ~job'[v].touched
      /\ Todo(v)' = {todo[i] : i \in DOMAIN todo}
      /\ disk' = disk /\ cache' = cache /\ unseen' = unseen
  BY Begun
<1>2. job[v] = None /\ cache[v] # None
  BY DEF Idle
<1>3. \A t \in Ticket : Done(t)' <=> Done(t)
  BY <1>1 DEF Done, OnDisk, RecordOf, DirOf, HasYaml
<1>4. \A t \in Ticket : Done(t) => SaysDone(cache[v], t) \/ t \in unseen[v]
  BY <1>2 DEF Sticky
<1>5. \A t \in Ticket : SaysDone(cache'[v], t) <=> SaysDone(cache[v], t)
  BY <1>1
<1>6. ASSUME NEW t \in Ticket, NEW s \in Left(v, "yaml", t)', s.rec.col = "done"
      PROVE  SaysDone(cached, t) \/ t \in unseen[v]
  <2>1. PICK i \in DOMAIN todo : s = todo[i] /\ s.act = "yaml" /\ s.t = t
    BY <1>1, <1>6 DEF Left
  <2> QED
    BY <1>4, <1>6, <2>1
<1>7. ASSUME NEW t \in Ticket \ unseen[v],
             Done(t) \/ \E s \in Left(v, "yaml", t)' : s.rec.col = "done"
      PROVE  (\A s \in Left(v, "yaml", t)' : s.rec.col = "done") /\ Left(v, "remove", t)' = {}
  <2>1. \A act : \A s \in Left(v, act, t)' :
          \E i \in DOMAIN todo : s = todo[i] /\ s.act = act /\ s.t = t
    BY <1>1 DEF Left
  <2>2. CASE Done(t)
    BY <1>4, <2>1, <2>2
  <2>3. CASE \E s \in Left(v, "yaml", t)' : s.rec.col = "done"
    <3>1. PICK s \in Left(v, "yaml", t)' : s.rec.col = "done"
      BY <2>3
    <3>2. PICK i \in DOMAIN todo : s = todo[i] /\ s.act = "yaml" /\ s.t = t
      BY <2>1, <3>1
    <3>3. \A x \in Left(v, "yaml", t)' : x = s
      BY <2>1, <3>2
    <3>4. ~ \E x : x \in Left(v, "remove", t)'
      <4>1. SUFFICES ASSUME NEW x \in Left(v, "remove", t)' PROVE FALSE
        OBVIOUS
      <4>2. PICK j \in DOMAIN todo : x = todo[j] /\ x.act = "remove" /\ x.t = t
        BY <2>1, <4>1
      <4>3. i = j
        BY <3>2, <4>2
      <4> QED
        BY <3>2, <4>2, <4>3
    <3> QED
      BY <3>1, <3>3, <3>4
  <2> QED
    BY <1>7, <2>2, <2>3
<1>8. \A t \in Ticket : Done(t)' => SaysDone(cache'[v], t) \/ t \in unseen'[v]
  BY <1>1, <1>3, <1>4
<1>9. \A t \in Ticket : \A s \in Left(v, "yaml", t)' :
        s.rec.col = "done" => SaysDone(job'[v].cached, t) \/ t \in unseen'[v]
  BY <1>1, <1>6
<1>10. \A t \in Ticket \ unseen'[v] :
         Done(t)' \/ (\E s \in Left(v, "yaml", t)' : s.rec.col = "done") =>
           (\A s \in Left(v, "yaml", t)' : s.rec.col = "done") /\ Left(v, "remove", t)' = {}
  BY <1>1, <1>3, <1>7
<1>11. \A t \in Ticket : SaysDone(cache'[v], t) => SaysDone(job'[v].cached, t)
  BY <1>1
<1>12. cache'[v] # None
  BY <1>1, <1>2
<1> QED
  BY <1>8, <1>9, <1>10, <1>11, <1>12 DEF Sticky

\* A handler that changes one ticket and does not take back its completion.
LEMMA AmendStarts ==
  ASSUME NEW v, Slot = {v}, IInv(v), Sticky(v), Idle(v), NEW t \in Known(v) \cap OnDisk,
         NEW todo \in Seq(Step), NEW to, NEW rec, NEW c \in Rec,
         Begin(v, todo, [cache[v] EXCEPT ![t] = c]), Amending(v, t, todo, to, rec),
         cache[v][t].col = "done" =>
           c.col = "done" /\ (RecordOf(t).col = "done" => rec.col = "done"),
         rec.col = "done" => c.col = "done" \/ RecordOf(t).col = "done"
  PROVE  Sticky(v)'
<1> DEFINE cached == [cache[v] EXCEPT ![t] = c]
<1>1. t \in Ticket /\ cache[v] # None /\ cache[v] \in Cached /\ cached \in Cached
  BY DEF Known, Idle, IInv, TypeOK, Cached
<1>2. cache[v][t] # None /\ c # None /\ cached[t] = c
      /\ \A u \in Ticket : u # t => cached[u] = cache[v][u]
  BY <1>1, NoneAssumption DEF Known, Cached
<1>3. \A u \in Ticket : SaysDone(cache[v], u) => SaysDone(cached, u)
  BY <1>2 DEF SaysDone
<1>4. Done(t) <=> RecordOf(t).col = "done"
  BY DEF Done
<1>5. SaysDone(cache[v], t) <=> cache[v][t].col = "done"
  BY <1>2 DEF SaysDone
<1>6. SaysDone(cached, t) <=> c.col = "done"
  BY <1>2 DEF SaysDone
<1>7. Begin(v, todo, cached)
  OBVIOUS
<1> HIDE DEF cached
<1>8. \A i \in DOMAIN todo : todo[i].act = "yaml" =>
        /\ todo[i].rec.col = "done" => SaysDone(cached, todo[i].t) \/ Done(todo[i].t)
        /\ Done(todo[i].t) => todo[i].rec.col = "done" \/ ~SaysDone(cache[v], todo[i].t)
  BY <1>4, <1>5, <1>6 DEF Amending
<1>9. \A i, j \in DOMAIN todo :
        todo[i].act = "yaml" /\ todo[j].act \in {"yaml", "remove"} /\ todo[i].t = todo[j].t
          => i = j
  BY DEF Amending
<1>10. \A i \in DOMAIN todo : todo[i].act # "remove"
  BY DEF Amending
<1> QED
  BY <1>1, <1>3, <1>7, <1>8, <1>9, <1>10, Starts

\* No handler begins by taking back a completion the slot knows of.
LEMMA HandleSticks ==
  ASSUME NEW v, Slot = {v}, IInv(v), Sticky(v), Handle(v)
  PROVE  Sticky(v)'
<1>1. Idle(v)
  BY DEF Handle
<1>2. CASE CreateTicket(v)
  <2>1. PICK t \in Ticket \ born, ph \in Loc, kind \in Kind, deps \in SUBSET KnownWork(v) :
          Begin(v, <<WriteYaml(ph, t, [num |-> NextNumber, col |-> "todo", phase |-> ph,
                                       archived |-> FALSE, kind |-> kind, deps |-> deps]),
                     WriteBody(ph, t)>>,
                [cache[v] EXCEPT ![t] = [num |-> NextNumber, col |-> "todo", phase |-> ph,
                                         archived |-> FALSE, kind |-> kind, deps |-> deps]])
    BY <1>2 DEF CreateTicket
  <2> DEFINE rec == [num |-> NextNumber, col |-> "todo", phase |-> ph,
                     archived |-> FALSE, kind |-> kind, deps |-> deps]
             a == WriteYaml(ph, t, rec)
             b == WriteBody(ph, t)
             todo == <<a, b>>
             cached == [cache[v] EXCEPT ![t] = rec]
  <2>2. started \in Nat /\ NextNumber \in 1..(started + 1)
    <3>1. started \in Nat
      BY MaxOpsAssumption DEF IInv, TypeOK
    <3> QED
      BY <1>1, <3>1, Fresh
  <2>3. rec \in Rec /\ rec.col = "todo"
    BY <2>2 DEF Rec, Column, Kind, KnownWork, Known
  <2>4. a \in YamlStep /\ b \in BodyStep /\ a.act = "yaml" /\ a.t = t /\ a.rec = rec
        /\ b.act = "body"
    BY <2>3 DEF WriteYaml, WriteBody, YamlStep, BodyStep
  <2>5. cache[v] \in Cached /\ cached \in Cached
    BY <1>1, <2>3 DEF Idle, IInv, TypeOK, Cached
  <2>6. cache[v][t] = None
    BY <1>1 DEF Idle, IInv, Agreed, Copies
  <2>7. \A u \in Ticket : SaysDone(cache[v], u) => SaysDone(cached, u)
    BY <2>5, <2>6 DEF SaysDone, Cached
  <2>8. ~Done(t)
    <3>1. HasYaml(t) = {}
      BY Typed DEF HasYaml, IInv, Placed
    <3> QED
      BY <3>1 DEF Done, OnDisk
  <2>9. Begin(v, todo, cached)
    BY <2>1
  <2> HIDE DEF rec, a, b, cached
  <2>10. todo \in Seq(Step) /\ DOMAIN todo = {1, 2} /\ todo[1] = a /\ todo[2] = b
    BY <2>4 DEF Step
  <2> HIDE DEF todo
  <2> QED
    BY <1>1, <2>3, <2>4, <2>5, <2>7, <2>8, <2>9, <2>10, Starts
<1>3. CASE UpdateTicket(v)
  <2>1. PICK t \in Known(v) \cap OnDisk, withBody \in BOOLEAN : \E deps \in AllowedDeps(v, t) :
          Begin(v, IF withBody
                   THEN <<WriteYaml(DirOf(t), t, [RecordOf(t) EXCEPT !.deps = deps]),
                          WriteBody(DirOf(t), t)>>
                   ELSE <<WriteYaml(DirOf(t), t, [RecordOf(t) EXCEPT !.deps = deps])>>,
                [cache[v] EXCEPT ![t].deps = deps])
    BY <1>3 DEF UpdateTicket
  <2>2. PICK deps \in AllowedDeps(v, t) :
          Begin(v, IF withBody
                   THEN <<WriteYaml(DirOf(t), t, [RecordOf(t) EXCEPT !.deps = deps]),
                          WriteBody(DirOf(t), t)>>
                   ELSE <<WriteYaml(DirOf(t), t, [RecordOf(t) EXCEPT !.deps = deps])>>,
                [cache[v] EXCEPT ![t].deps = deps])
    BY <2>1
  <2>3. t \in Ticket /\ DirOf(t) \in Loc /\ RecordOf(t) \in Rec /\ cache[v][t] \in Rec
    BY <1>1, KnownTicket
  <2>4. deps \subseteq Ticket
    BY <2>3 DEF AllowedDeps, KnownWork, Known, Rec
  <2> DEFINE rec == [RecordOf(t) EXCEPT !.deps = deps]
             c == [cache[v][t] EXCEPT !.deps = deps]
             todo == IF withBody
                     THEN <<WriteYaml(DirOf(t), t, rec), WriteBody(DirOf(t), t)>>
                     ELSE <<WriteYaml(DirOf(t), t, rec)>>
  <2>5. rec \in Rec /\ c \in Rec /\ rec.col = RecordOf(t).col /\ c.col = cache[v][t].col
    BY <2>3, <2>4 DEF Rec
  <2>6. Begin(v, todo, [cache[v] EXCEPT ![t] = c])
    BY <2>2
  <2> HIDE DEF rec, c
  <2>7. todo \in Seq(Step) /\ Amending(v, t, todo, DirOf(t), rec)
    BY <2>3, <2>5, YamlBody
  <2> HIDE DEF todo
  <2> QED
    BY <1>1, <2>3, <2>5, <2>6, <2>7, AmendStarts
<1>4. CASE MoveTicket(v)
  <2>1. PICK t \in Known(v) \cap OnDisk, target \in Column \ {"done"} :
          /\ cache[v][t].col # "done"
          /\ Begin(v, <<WriteYaml(DirOf(t), t, [RecordOf(t) EXCEPT !.col = target]),
                        WriteNote(DirOf(t), t, [NoTrail EXCEPT !.col = target])>>,
                   [cache[v] EXCEPT ![t].col = target])
    BY <1>4 DEF MoveTicket
  <2>2. t \in Ticket /\ DirOf(t) \in Loc /\ RecordOf(t) \in Rec /\ cache[v][t] \in Rec
    BY <1>1, KnownTicket
  <2> DEFINE rec == [RecordOf(t) EXCEPT !.col = target]
             c == [cache[v][t] EXCEPT !.col = target]
             says == [NoTrail EXCEPT !.col = target]
             todo == <<WriteYaml(DirOf(t), t, rec), WriteNote(DirOf(t), t, says)>>
  <2>3. rec \in Rec /\ c \in Rec /\ rec.col = target /\ says \in Trail
    BY <2>2 DEF Rec, NoTrail, Trail
  <2>4. Begin(v, todo, [cache[v] EXCEPT ![t] = c])
    BY <2>1
  <2> HIDE DEF rec, c, says
  <2>5. todo \in Seq(Step) /\ Amending(v, t, todo, DirOf(t), rec)
    BY <2>2, <2>3, YamlNote
  <2> HIDE DEF todo
  <2> QED
    BY <1>1, <2>1, <2>3, <2>4, <2>5, AmendStarts
<1>5. CASE CompleteTicket(v)
  <2>1. PICK t \in KnownWork(v) \cap OnDisk :
          /\ cache[v][t].col # "done"
          /\ Begin(v, <<WriteYaml(DirOf(t), t, [RecordOf(t) EXCEPT !.col = "done"]),
                        WriteCompletion(DirOf(t), t),
                        WriteNote(DirOf(t), t, [NoTrail EXCEPT !.col = "done"])>>,
                   [cache[v] EXCEPT ![t].col = "done"])
    BY <1>5 DEF CompleteTicket
  <2>2. /\ t \in Known(v) \cap OnDisk /\ t \in Ticket /\ DirOf(t) \in Loc
        /\ RecordOf(t) \in Rec /\ cache[v][t] \in Rec
    BY <1>1, KnownTicket DEF KnownWork
  <2> DEFINE rec == [RecordOf(t) EXCEPT !.col = "done"]
             c == [cache[v][t] EXCEPT !.col = "done"]
             says == [NoTrail EXCEPT !.col = "done"]
             todo == <<WriteYaml(DirOf(t), t, rec), WriteCompletion(DirOf(t), t),
                       WriteNote(DirOf(t), t, says)>>
  <2>3. rec \in Rec /\ c \in Rec /\ c.col = "done" /\ rec.col = "done" /\ says \in Trail
    BY <2>2 DEF Rec, Column, NoTrail, Trail
  <2>4. Begin(v, todo, [cache[v] EXCEPT ![t] = c])
    BY <2>1
  <2> HIDE DEF rec, c, says
  <2>5. todo \in Seq(Step) /\ Amending(v, t, todo, DirOf(t), rec)
    BY <2>2, <2>3, YamlCompletionNote
  <2> HIDE DEF todo
  <2> QED
    BY <1>1, <2>3, <2>2, <2>5, <2>4, AmendStarts
<1>6. CASE AssignTicketToPhase(v)
  <2>1. PICK t \in Known(v) \cap OnDisk, ph \in Loc :
          Begin(v, <<Rename(DirOf(t), ph, t),
                     WriteYaml(ph, t, [RecordOf(t) EXCEPT !.phase = ph]),
                     WriteNote(ph, t, [NoTrail EXCEPT !.phase = ph])>>,
                [cache[v] EXCEPT ![t].phase = ph])
    BY <1>6 DEF AssignTicketToPhase
  <2>2. t \in Ticket /\ DirOf(t) \in Loc /\ RecordOf(t) \in Rec /\ cache[v][t] \in Rec
    BY <1>1, KnownTicket
  <2> DEFINE rec == [RecordOf(t) EXCEPT !.phase = ph]
             c == [cache[v][t] EXCEPT !.phase = ph]
             says == [NoTrail EXCEPT !.phase = ph]
             todo == <<Rename(DirOf(t), ph, t), WriteYaml(ph, t, rec), WriteNote(ph, t, says)>>
  <2>3. /\ rec \in Rec /\ c \in Rec /\ says \in Trail
        /\ rec.col = RecordOf(t).col /\ c.col = cache[v][t].col
    BY <2>2 DEF Rec, NoTrail, Trail
  <2>4. Begin(v, todo, [cache[v] EXCEPT ![t] = c])
    BY <2>1
  <2> HIDE DEF rec, c, says
  <2>5. todo \in Seq(Step) /\ Amending(v, t, todo, ph, rec)
    BY <2>2, <2>3, RenameYamlNote
  <2> HIDE DEF todo
  <2> QED
    BY <1>1, <2>3, <2>4, <2>5, AmendStarts
<1>7. CASE FlipArchive(v)
  <2>1. PICK t \in Known(v) \cap OnDisk, want \in BOOLEAN :
          Begin(v, <<WriteYaml(DirOf(t), t, [RecordOf(t) EXCEPT !.archived = want]),
                     WriteNote(DirOf(t), t, [NoTrail EXCEPT !.archived = want])>>,
                [cache[v] EXCEPT ![t].archived = want])
    BY <1>7 DEF FlipArchive
  <2>2. t \in Ticket /\ DirOf(t) \in Loc /\ RecordOf(t) \in Rec /\ cache[v][t] \in Rec
    BY <1>1, KnownTicket
  <2> DEFINE rec == [RecordOf(t) EXCEPT !.archived = want]
             c == [cache[v][t] EXCEPT !.archived = want]
             says == [NoTrail EXCEPT !.archived = want]
             todo == <<WriteYaml(DirOf(t), t, rec), WriteNote(DirOf(t), t, says)>>
  <2>3. /\ rec \in Rec /\ c \in Rec /\ says \in Trail
        /\ rec.col = RecordOf(t).col /\ c.col = cache[v][t].col
    BY <2>2 DEF Rec, NoTrail, Trail
  <2>4. Begin(v, todo, [cache[v] EXCEPT ![t] = c])
    BY <2>1
  <2> HIDE DEF rec, c, says
  <2>5. todo \in Seq(Step) /\ Amending(v, t, todo, DirOf(t), rec)
    BY <2>2, <2>3, YamlNote
  <2> HIDE DEF todo
  <2> QED
    BY <1>1, <2>3, <2>4, <2>5, AmendStarts
<1>8. CASE PromoteIdea(v)
  <2>1. PICK t \in Known(v) \cap OnDisk :
          Begin(v, <<WriteYaml(DirOf(t), t, [RecordOf(t) EXCEPT !.kind = "work"]),
                     WriteNote(DirOf(t), t, [NoTrail EXCEPT !.kind = "work"])>>,
                [cache[v] EXCEPT ![t].kind = "work"])
    BY <1>8 DEF PromoteIdea
  <2>2. t \in Ticket /\ DirOf(t) \in Loc /\ RecordOf(t) \in Rec /\ cache[v][t] \in Rec
    BY <1>1, KnownTicket
  <2> DEFINE rec == [RecordOf(t) EXCEPT !.kind = "work"]
             c == [cache[v][t] EXCEPT !.kind = "work"]
             says == [NoTrail EXCEPT !.kind = "work"]
             todo == <<WriteYaml(DirOf(t), t, rec), WriteNote(DirOf(t), t, says)>>
  <2>3. /\ rec \in Rec /\ c \in Rec /\ says \in Trail
        /\ rec.col = RecordOf(t).col /\ c.col = cache[v][t].col
    BY <2>2 DEF Rec, Kind, NoTrail, Trail
  <2>4. Begin(v, todo, [cache[v] EXCEPT ![t] = c])
    BY <2>1
  <2> HIDE DEF rec, c, says
  <2>5. todo \in Seq(Step) /\ Amending(v, t, todo, DirOf(t), rec)
    BY <2>2, <2>3, YamlNote
  <2> HIDE DEF todo
  <2> QED
    BY <1>1, <2>3, <2>4, <2>5, AmendStarts
<1>9. CASE DeleteTicket(v)
  <2>1. PICK t \in Known(v) \cap OnDisk :
          /\ cache[v][t].col # "done" /\ Dependents(v, t) \subseteq OnDisk
          /\ \E order \in SetToSeqs(Dependents(v, t)) :
               Begin(v, [i \in 1..Len(order) |-> Rewriting(order[i], t)]
                          \o <<RemoveDir(DirOf(t), t)>>,
                     Pruned(v, t, Dependents(v, t)))
    BY <1>9 DEF DeleteTicket, Dependents, Rewriting, Rid, Pruned
  <2>2. PICK D : D = Dependents(v, t)
    OBVIOUS
  <2>3. PICK order \in SetToSeqs(D) :
          Begin(v, [i \in 1..Len(order) |-> Rewriting(order[i], t)] \o <<RemoveDir(DirOf(t), t)>>,
                Pruned(v, t, D))
    BY <2>1, <2>2
  <2>4. PICK q, b, todo : /\ q = [i \in 1..Len(order) |-> Rewriting(order[i], t)]
                          /\ b = RemoveDir(DirOf(t), t) /\ todo = q \o <<b>>
    OBVIOUS
  <2>5. Begin(v, todo, Pruned(v, t, D))
    BY <2>3, <2>4
  <2>6. D \subseteq born
    BY <1>1, <2>2 DEF Dependents, Known, IInv, Agreed, Copies, Idle
  <2>7. IsFiniteSet(D) /\ D \subseteq OnDisk \ {t}
    BY <2>1, <2>2, <2>6, FS_Subset DEF Dependents, IInv
  <2>8. todo \in Seq(Step) /\ Removing(t, D, todo)
    BY <2>4, <2>7, Removal DEF IInv
  <2>9. cache[v] \in Cached /\ cache[v] # None /\ D \subseteq Ticket
    BY <1>1, <2>2 DEF Idle, IInv, TypeOK, Dependents, Known
  <2>10. PICK cached : cached = Pruned(v, t, D)
    OBVIOUS
  <2>11. \A x \in D : cache[v][x] \in Rec
    BY <2>2, <2>9 DEF Dependents, Known, Cached
  <2>12. cached \in Cached
    BY <2>9, <2>10, <2>11 DEF Pruned, Cached, Rec
  <2>13. \A u \in Ticket : SaysDone(cache[v], u) => SaysDone(cached, u)
    <3>1. SUFFICES ASSUME NEW u \in Ticket, SaysDone(cache[v], u)
                   PROVE  SaysDone(cached, u)
      OBVIOUS
    <3>2. u # t
      BY <2>1, <3>1 DEF SaysDone
    <3>3. CASE u \in D
      <4>1. cached[u] = [cache[v][u] EXCEPT !.deps = @ \ {t}] /\ cached[u] \in Rec
        BY <2>10, <2>11, <3>2, <3>3 DEF Pruned, Rec
      <4>2. cached[u].col = cache[v][u].col
        BY <2>11, <3>3, <4>1 DEF Rec
      <4> QED
        BY <3>1, <4>1, <4>2, NoneAssumption DEF SaysDone
    <3>4. CASE u \notin D
      BY <2>10, <3>1, <3>2, <3>4 DEF Pruned, SaysDone
    <3> QED
      BY <3>3, <3>4
  <2>14. \A i \in DOMAIN todo : todo[i].act = "yaml" =>
           /\ todo[i].rec.col = "done" => Done(todo[i].t)
           /\ Done(todo[i].t) => todo[i].rec.col = "done"
    <3>1. SUFFICES ASSUME NEW i \in DOMAIN todo, todo[i].act = "yaml"
                   PROVE  todo[i].rec.col = "done" <=> Done(todo[i].t)
      OBVIOUS
    <3>2. todo[i].t \in D /\ todo[i].rec = Rid(todo[i].t, t)
      BY <2>8, <3>1 DEF Removing
    <3>3. todo[i].t \in OnDisk /\ RecordOf(todo[i].t) \in Rec
      BY <2>7, <3>2, Found DEF IInv
    <3>4. Rid(todo[i].t, t).col = RecordOf(todo[i].t).col
      BY <3>3 DEF Rid, Rec
    <3> QED
      BY <3>2, <3>3, <3>4 DEF Done
  <2>15. \A i, j \in DOMAIN todo :
           todo[i].act = "yaml" /\ todo[j].act \in {"yaml", "remove"} /\ todo[i].t = todo[j].t
             => i = j
    BY <2>7, <2>8 DEF Removing
  <2>16. \A i \in DOMAIN todo : todo[i].act = "remove" => ~SaysDone(cache[v], todo[i].t)
    BY <2>1, <2>7, <2>8 DEF Removing, SaysDone
  <2> QED
    BY <1>1, <2>5, <2>8, <2>10, <2>12, <2>13, <2>14, <2>15, <2>16, Starts
<1> QED
  BY <1>2, <1>3, <1>4, <1>5, <1>6, <1>7, <1>8, <1>9 DEF Handle

\* Done or not is read off the disk.
LEMMA SameDisk ==
  ASSUME disk' = disk
  PROVE  \A t \in Ticket : Done(t)' <=> Done(t)
BY DEF Done, OnDisk, RecordOf, DirOf, HasYaml

\* Applying the next step: it writes what the handler will put in the cache.
LEMMA ApplySticks ==
  ASSUME NEW v, Slot = {v}, IInv(v), Sticky(v), Next, Apply(v) \/ ApplyRemove(v)
  PROVE  Sticky(v)'
<1>1. /\ job[v] # None /\ job[v] \in Job /\ cache' = cache /\ unseen' = unseen
      /\ job[v].todo \in Seq(Step) /\ job[v].todo # <<>>
  BY DEF Apply, ApplyRemove, Applying, IInv, TypeOK, Job
<1>2. /\ job'[v] # None /\ job'[v].cached = job[v].cached
      /\ \A t : \A act : Left(v, act, t)' \subseteq Left(v, act, t)
      /\ disk' # disk => job'[v].touched
      /\ job[v].touched => job'[v].touched
  <2>1. CASE Apply(v)
    <3>1. PICK s : s = Upcoming(v)
      OBVIOUS
    <3>2. /\ job'[v] # None /\ job'[v].cached = job[v].cached /\ job'[v].touched
          /\ Todo(v)' \subseteq Todo(v)
      BY <2>1, <3>1, Applied
    <3> QED
      BY <3>2 DEF Left
  <2>2. CASE ApplyRemove(v) /\ disk' # disk
    <3>1. job' = [job EXCEPT ![v].touched = TRUE]
      BY <2>2 DEF ApplyRemove
    <3>2. job'[v] = [todo |-> job[v].todo, cached |-> job[v].cached, touched |-> TRUE]
      BY <1>1, <3>1 DEF IInv, TypeOK, Job
    <3>3. job'[v] \in Job
      BY <1>1, <3>2 DEF Job
    <3>4. job'[v] # None
      BY <3>3, NoneIsNoJob
    <3>5. job'[v].todo = job[v].todo /\ job'[v].cached = job[v].cached
      BY <3>2
    <3>6. job'[v].touched
      BY <3>2
    <3>7. Todo(v)' = Todo(v)
      BY <1>1, <3>4, <3>5 DEF Todo
    <3> QED
      BY <3>4, <3>5, <3>6, <3>7 DEF Left
  <2>3. CASE ApplyRemove(v) /\ disk' = disk
    <3>1. \/ job' = [job EXCEPT ![v].todo = Tail(@)]
          \/ job' = [job EXCEPT ![v].touched = TRUE]
      BY <2>3 DEF ApplyRemove
    <3>2. CASE job' = [job EXCEPT ![v].todo = Tail(@)]
      <4> DEFINE rest == Tail(job[v].todo)
      <4>1. job'[v] = [todo |-> rest, cached |-> job[v].cached,
                       touched |-> job[v].touched]
        BY <1>1, <3>2 DEF IInv, TypeOK, Job
      <4>2. rest \in Seq(Step)
        BY <1>1
      <4> HIDE DEF rest
      <4>3. job'[v] \in Job
        BY <1>1, <4>1, <4>2 DEF Job
      <4>4. Applying(v) /\ job'[v].todo = rest
        BY <2>3, <4>1 DEF ApplyRemove
      <4>5. Todo(v)' \subseteq Todo(v)
        BY <4>3, <4>4, NoneIsNoJob, StepTaken DEF rest
      <4> QED
        BY <2>3, <4>1, <4>3, <4>5, NoneIsNoJob DEF Left
    <3>3. CASE job' = [job EXCEPT ![v].touched = TRUE]
      <4>1. job'[v] = [todo |-> job[v].todo, cached |-> job[v].cached, touched |-> TRUE]
        BY <1>1, <3>3 DEF IInv, TypeOK, Job
      <4>2. job'[v] \in Job
        BY <1>1, <4>1 DEF Job
      <4>3. job'[v] # None
        BY <4>2, NoneIsNoJob
      <4>4. job'[v].todo = job[v].todo /\ job'[v].cached = job[v].cached
        BY <4>1
      <4>5. job'[v].touched
        BY <4>1
      <4>6. Todo(v)' = Todo(v)
        BY <1>1, <4>3, <4>4 DEF Todo
      <4> QED
        BY <2>3, <4>3, <4>4, <4>5, <4>6 DEF Left
    <3> QED
      BY <3>1, <3>2, <3>3
  <2> QED
    BY <2>1, <2>2, <2>3
<1>3. ASSUME NEW t \in Ticket, Done(t)'
      PROVE  \/ Done(t)
             \/ disk' # disk /\ \E s \in Left(v, "yaml", t) : s.rec.col = "done"
  <2>1. CASE disk' = disk
    BY <1>3, <2>1, SameDisk
  <2>2. CASE disk' # disk
    BY <1>3, <2>2, RecordChange DEF Done
  <2> QED
    BY <2>1, <2>2
<1>4. cache[v] # None /\ \A t \in Ticket : SaysDone(cache'[v], t) <=> SaysDone(cache[v], t)
  BY <1>1 DEF Sticky
<1>5. ASSUME NEW t \in Ticket, Done(t)'
      PROVE  \/ SaysDone(cache'[v], t) \/ t \in unseen'[v]
             \/ job'[v].touched /\ SaysDone(job'[v].cached, t)
  <2>1. CASE Done(t)
    BY <1>1, <1>2, <1>4, <2>1 DEF Sticky
  <2>2. CASE disk' # disk /\ \E s \in Left(v, "yaml", t) : s.rec.col = "done"
    BY <1>1, <1>2, <2>2 DEF Sticky
  <2> QED
    BY <1>3, <1>5, <2>1, <2>2
<1>6. \A t \in Ticket : SaysDone(cache'[v], t) => SaysDone(job'[v].cached, t)
  BY <1>1, <1>2, <1>4 DEF Sticky
<1>7. \A t \in Ticket : \A s \in Left(v, "yaml", t)' :
        s.rec.col = "done" => SaysDone(job'[v].cached, t) \/ t \in unseen'[v]
  BY <1>1, <1>2 DEF Sticky
<1>8. ASSUME NEW t \in Ticket \ unseen'[v],
             Done(t)' \/ \E s \in Left(v, "yaml", t)' : s.rec.col = "done"
      PROVE  (\A s \in Left(v, "yaml", t)' : s.rec.col = "done") /\ Left(v, "remove", t)' = {}
  <2>1. Done(t) \/ \E s \in Left(v, "yaml", t) : s.rec.col = "done"
    BY <1>2, <1>3, <1>8
  <2>2. (\A s \in Left(v, "yaml", t) : s.rec.col = "done") /\ Left(v, "remove", t) = {}
    BY <1>1, <1>8, <2>1 DEF Sticky
  <2> QED
    BY <1>2, <2>2
<1>9. cache'[v] # None
  BY <1>1, <1>4
<1> QED
  BY <1>2, <1>5, <1>6, <1>7, <1>8, <1>9 DEF Sticky

\* Every step keeps it.
LEMMA StickyStep ==
  ASSUME NEW v, Slot = {v}, IInv(v), Sticky(v), [Next]_vars
  PROVE  Sticky(v)'
<1>1. CASE UNCHANGED vars
  <2>1. disk' = disk /\ cache' = cache /\ job' = job /\ unseen' = unseen
    BY <1>1 DEF vars
  <2>2. \A act, t : Left(v, act, t)' = Left(v, act, t)
    BY <2>1 DEF Left, Todo
  <2> QED
    BY <2>1, <2>2, SameDisk DEF Sticky
<1>2. ASSUME disk' = disk, job'[v] = None,
             cache'[v] # None => \A t \in Ticket : Done(t) => SaysDone(cache'[v], t) \/ t \in unseen'[v]
      PROVE  Sticky(v)'
  <2>1. \A act, t : Left(v, act, t)' = {}
    BY <1>2 DEF Left, Todo
  <2>2. \A t \in Ticket : Done(t)' <=> Done(t)
    BY <1>2, SameDisk
  <2> QED
    BY <1>2, <2>1, <2>2 DEF Sticky
<1>3. CASE Load(v)
  <2>1. cache'[v] = DiskView /\ job'[v] = None /\ disk' = disk
    BY <1>3 DEF Load, IInv, TypeOK
  <2>2. \A t \in Ticket : Done(t) => SaysDone(DiskView, t)
    <3>1. SUFFICES ASSUME NEW t \in Ticket, Done(t) PROVE SaysDone(DiskView, t)
      OBVIOUS
    <3>2. t \in OnDisk /\ RecordOf(t).col = "done" /\ RecordOf(t) \in Rec
      BY <3>1, Found DEF Done, IInv
    <3> QED
      BY <3>2, NoneAssumption DEF SaysDone, DiskView
  <2> QED
    BY <1>2, <2>1, <2>2
<1>4. CASE Handle(v)
  BY <1>4, HandleSticks
<1>5. CASE Acquire(v)
  <2>1. disk' = disk /\ cache' = cache /\ job' = job /\ unseen' = unseen
    BY <1>5 DEF Acquire
  <2>2. \A act, t : Left(v, act, t)' = Left(v, act, t)
    BY <2>1 DEF Left, Todo
  <2> QED
    BY <2>1, <2>2, SameDisk DEF Sticky
<1>6. CASE Refused(v)
  <2>1. /\ job[v] # None /\ ~job[v].touched /\ job'[v] = None
        /\ disk' = disk /\ cache' = cache /\ unseen' = unseen
    BY <1>6 DEF Refused, IInv, TypeOK, Holding
  <2>2. \A t \in Ticket : Done(t) => SaysDone(cache'[v], t) \/ t \in unseen'[v]
    BY <2>1 DEF Sticky
  <2> QED
    BY <1>2, <2>1, <2>2
<1>7. CASE Apply(v) \/ ApplyRemove(v)
  <2>1. Next
    BY <1>7 DEF Next
  <2> QED
    BY <1>7, <2>1, ApplySticks
<1>8. CASE Fail(v)
  <2>1. /\ job[v] # None /\ job'[v] = None /\ disk' = disk /\ cache' = cache
        /\ unseen'[v] = unseen[v] \cup
             {t \in Ticket : /\ Done(t) /\ SaysDone(job[v].cached, t)
                             /\ ~SaysDone(cache[v], t)}
    BY <1>8 DEF Fail, Applying, IInv, TypeOK
  <2>2. \A t \in Ticket : Done(t) => SaysDone(cache'[v], t) \/ t \in unseen'[v]
    BY <2>1 DEF Sticky
  <2> QED
    BY <1>2, <2>1, <2>2
<1>9. CASE Finish(v)
  <2>1. /\ job'[v] = None /\ disk' = disk /\ cache'[v] = job[v].cached
        /\ unseen'[v] = {t \in unseen[v] : ~SaysDone(job[v].cached, t)}
        /\ job[v] # None
    BY <1>9 DEF Finish, IInv, TypeOK, Holding
  <2>2. \A t \in Ticket : Done(t) => SaysDone(cache'[v], t) \/ t \in unseen'[v]
    BY <2>1 DEF Sticky
  <2> QED
    BY <1>2, <2>1, <2>2
<1>10. CASE Crash(v)
  <2>1. job'[v] = None /\ disk' = disk /\ cache'[v] = None
    BY <1>10 DEF Crash, IInv, TypeOK
  <2> QED
    BY <1>2, <2>1
<1> QED
  BY <1>1, <1>3, <1>4, <1>5, <1>6, <1>7, <1>8, <1>9, <1>10 DEF Next

\* A ticket that is done stays done and stays there however handlers fail,
\* save one whose completion this slot's own failed commit left behind and
\* denied (tickets.go MoveTicket, DeleteTicket).
THEOREM DoneIsFinal ==
  ASSUME NEW v, Slot = {v}
  PROVE  Spec => NoReopen
<1> DEFINE A == \A t \in Ticket : Done(t) => Done(t)' \/ \E w \in Slot : t \in unseen[w]
<1>1. ASSUME IInv(v), Sticky(v), Next, NEW t \in Ticket, Done(t), t \notin unseen[v]
      PROVE  Done(t)'
  <2>1. t \in OnDisk /\ RecordOf(t).col = "done"
    BY <1>1 DEF Done
  <2>2. (\A s \in Left(v, "yaml", t) : s.rec.col = "done") /\ Left(v, "remove", t) = {}
    BY <1>1 DEF Sticky
  <2> QED
    BY <1>1, <2>1, <2>2, RecordChange DEF Done
<1>2. IInv(v) /\ Sticky(v) /\ [Next]_vars => [A]_vars
  BY <1>1
<1>3. Init => Sticky(v)
  <2> SUFFICES ASSUME Init PROVE Sticky(v)
    OBVIOUS
  <2>1. cache[v] = None /\ job[v] = None
    BY DEF Init
  <2>2. \A act, t : Left(v, act, t) = {}
    BY <2>1 DEF Left, Todo
  <2>3. \A t \in Ticket : ~Done(t)
    BY DEF Init, Done, OnDisk, HasYaml, Gone
  <2> QED
    BY <2>1, <2>2, <2>3 DEF Sticky
<1>4. IInv(v) /\ Sticky(v) /\ [Next]_vars => Sticky(v)'
  BY StickyStep
<1> HIDE DEF A
<1>5. Spec => [][A]_vars
  BY <1>2, <1>3, <1>4, Invariance, PTL DEF Spec
<1> QED
  BY <1>5, PTL DEF A, NoReopen

\* With enforcement on, a ticket enters in_progress only when everything it
\* depends on is done (MoveTicket).
THEOREM GateKept ==
  ASSUME NEW v, Slot = {v}
  PROVE  Spec => GateHolds
<1> DEFINE A == Enforce /\ ~cut => \A t \in Ticket :
                  EntersInProgress(t) => \A d \in RecordOf(t).deps : Done(d)
<1>1. ASSUME IInv(v), Next, Enforce, ~cut, NEW t \in Ticket, EntersInProgress(t)
      PROVE  \A d \in RecordOf(t).deps : Done(d)
  <2>1. /\ t \in OnDisk /\ RecordOf(t).col # "in_progress"
        /\ t \in OnDisk' /\ RecordOf(t)'.col = "in_progress"
    BY <1>1 DEF EntersInProgress
  <2>2. job[v] # None /\ \E s \in Left(v, "yaml", t) : RecordOf(t)' = s.rec
    BY <1>1, <2>1, RecordChange
  <2>3. PICK s \in Left(v, "yaml", t) : RecordOf(t)' = s.rec
    BY <2>2
  <2>4. s.rec.col = "in_progress"
    BY <2>1, <2>3
  <2> QED
    BY <1>1, <2>1, <2>2, <2>4, Destined
<1>2. IInv(v) /\ [Next]_vars => [A]_vars
  BY <1>1
<1> HIDE DEF A
<1>3. Spec => [][A]_vars
  BY <1>2, Invariance, PTL DEF Spec
<1> QED
  BY <1>3 DEF A, GateHolds
=============================================================================
