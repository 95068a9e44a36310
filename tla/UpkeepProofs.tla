----------------------------- MODULE UpkeepProofs -----------------------------
(***************************************************************************)
(* Proofs about Upkeep, for any processes, callers, tickets, scores and    *)
(* bounds.  The inductive invariant has three parts: whoever holds the     *)
(* file lock has the file in memory (Held); a rating is of one ticket      *)
(* (Rated); and, of a walk, what is in the listing to stay has been listed *)
(* exactly up to the cursor's ticket (Walks).                              *)
(***************************************************************************)
EXTENDS Upkeep, FiniteSetTheorems, TLAPS

Held ==
  \A c \in Caller : Doing(c, "record") /\ op[c].held =>
    flock = c /\ mem[Home[c]] = tally

Rated ==
  \A c \in Caller : Doing(c, "record") /\ op[c].what \in {"like", "dislike"} =>
    \E t \in Ticket : op[c].keys = {t}

\* Ticket t comes after the anchor in p's listing.
Beyond(p, anchor, t) == anchor = None \/ Precedes(p, anchor, t)

Walk(c) ==
  LET p == Home[c]
      w == op[c]
      still == w.steady \ touched[c]
      fixed == w.anchor \notin touched[c]
  IN  /\ ~w.over =>
           /\ still \subseteq Listed(p)
           /\ fixed /\ w.anchor # None => w.anchor \in Listed(p)
      /\ w.sound =>
           /\ w.twice \cap w.steady = {}
           /\ w.over => w.steady \subseteq w.got
           /\ ~w.over /\ fixed =>
                \A t \in still : t \in w.got <=> ~Beyond(p, w.anchor, t)

Walks == \A c \in Caller : Doing(c, "walk") => Walk(c)

IInv == TypeOK /\ Held /\ Rated /\ Walks /\ TalliesExact

-----------------------------------------------------------------------------
\* What a caller is in the middle of tells which fields it has.
LEMMA Shape ==
  ASSUME TypeOK, NEW c \in Caller
  PROVE  /\ Doing(c, "record") =>
              /\ op[c] \in [kind : {"record"}, what : What,
                            keys : SUBSET Ticket, held : BOOLEAN]
              /\ op[c].what \in What /\ op[c].keys \subseteq Ticket
              /\ op[c].held \in BOOLEAN
         /\ Doing(c, "sweep") =>
              op[c] \in [kind : {"sweep"}, left : SUBSET Ticket]
         /\ Doing(c, "walk") =>
              op[c] \in [kind : {"walk"}, anchor : Ticket \cup {None},
                         over : BOOLEAN, got : SUBSET Ticket,
                         twice : SUBSET Ticket, steady : SUBSET Ticket,
                         sound : BOOLEAN]
<1> DEFINE R == [kind : {"record"}, what : What, keys : SUBSET Ticket,
                 held : BOOLEAN]
           S == [kind : {"sweep"}, left : SUBSET Ticket]
           W == [kind : {"walk"}, anchor : Ticket \cup {None}, over : BOOLEAN,
                 got : SUBSET Ticket, twice : SUBSET Ticket,
                 steady : SUBSET Ticket, sound : BOOLEAN]
<1>1. op[c] \in R \cup S \cup W \cup {None}
  BY DEF TypeOK, Op
<1>2. \A o \in R : o.kind = "record" /\ o.what \in What /\ o.keys \subseteq Ticket
                   /\ o.held \in BOOLEAN
  OBVIOUS
<1>3. (\A o \in S : o.kind = "sweep") /\ (\A o \in W : o.kind = "walk")
  OBVIOUS
<1> HIDE DEF R, S, W
<1>4. /\ Doing(c, "record") => op[c] \in R
      /\ Doing(c, "sweep") => op[c] \in S
      /\ Doing(c, "walk") => op[c] \in W
  BY <1>1, <1>2, <1>3 DEF Doing
<1> QED
  BY <1>2, <1>4 DEF R, S, W

LEMMA Numbers == Ticket \subseteq Nat /\ PageSize \in Nat /\ None \notin Nat
BY Constants

\* A listed ticket has a record.
LEMMA ListedCard ==
  ASSUME TypeOK, NEW p \in Proc, NEW t \in Listed(p)
  PROVE  view[p][t] \in Card /\ view[p][t].wave \in 0..1 /\ t \in Nat
         /\ view[p][t].wave # None
<1>1. t \in Ticket /\ view[p][t] # None
  BY DEF Listed
<1>2. view[p] \in [Ticket -> Card \cup {None}]
  BY DEF TypeOK, Cards
<1>3. view[p][t] \in Card
  BY <1>1, <1>2
<1>4. view[p][t].wave \in 0..1
  BY <1>3 DEF Card
<1> QED
  BY <1>1, <1>3, <1>4, Numbers

LEMMA HomeIsProc ==
  ASSUME NEW c \in Caller PROVE Home[c] \in Proc
  BY Constants

\* Waves order the listing, and the numbers within a wave.
LEMMA PrecedesIsOrder ==
  ASSUME TypeOK, NEW p \in Proc, NEW t \in Listed(p), NEW u \in Listed(p)
  PROVE  /\ Precedes(p, t, u) => ~Precedes(p, u, t)
         /\ ~Precedes(p, t, t)
         /\ t # u => Precedes(p, t, u) \/ Precedes(p, u, t)
         /\ \A x \in Listed(p) :
              Precedes(p, t, u) /\ Precedes(p, u, x) => Precedes(p, t, x)
<1>1. \A x \in Listed(p) : view[p][x].wave \in 0..1 /\ x \in Nat
  BY ListedCard
<1> QED
  BY <1>1 DEF Precedes

LEMMA LessTransitive == \A x, y, z \in Nat : x <= y /\ y < z => x < z
OBVIOUS

\* A page goes with every ticket on it also those before.
LEMMA FirstIsDown ==
  ASSUME TypeOK, NEW p \in Proc, NEW S \in SUBSET Listed(p),
         NEW t \in First(PageSize, S, LAMBDA x, y : Precedes(p, x, y)),
         NEW u \in S, Precedes(p, u, t)
  PROVE  u \in First(PageSize, S, LAMBDA x, y : Precedes(p, x, y))
<1> DEFINE B(x) == {y \in S : Precedes(p, y, x)}
<1>1. S \subseteq Ticket /\ t \in S /\ Cardinality(B(t)) < PageSize
  BY DEF First, Listed
<1>2. IsFiniteSet(B(t)) /\ IsFiniteSet(B(u))
  BY <1>1, Constants, FS_Subset
<1>3. B(u) \subseteq B(t)
  BY <1>1, PrecedesIsOrder
<1> HIDE DEF B
<1>4. Cardinality(B(u)) <= Cardinality(B(t))
      /\ Cardinality(B(u)) \in Nat /\ Cardinality(B(t)) \in Nat
  BY <1>2, <1>3, FS_Subset, FS_CardinalityType
<1>5. Cardinality(B(u)) < PageSize
  BY <1>1, <1>4, Numbers, LessTransitive, Zenon
<1> QED
  BY <1>5 DEF First, B

-----------------------------------------------------------------------------
\* What Note keeps: a ticket that is not noted stands where it stood.
LEMMA Noted ==
  ASSUME TypeOK, Note
  PROVE  /\ touched' \in [Caller -> SUBSET Ticket]
         /\ \A c \in Caller : Doing(c, "walk") /\ op'[c] = op[c] =>
              /\ touched[c] \subseteq touched'[c]
              /\ \A t \in Ticket \ touched'[c] :
                   Standing(Home[c], t)' = Standing(Home[c], t)
  BY DEF TypeOK, Note

\* A walk that does not turn a page stays as it should be, whatever becomes of
\* the listing.
LEMMA WalkStays ==
  ASSUME TypeOK, TypeOK', Walks, Note, NEW c \in Caller, Doing(c, "walk"),
         op'[c] = op[c]
  PROVE  Walk(c)'
<1> DEFINE p == Home[c]
           w == op[c]
<1>1. p \in Proc
  BY HomeIsProc
<1>2. touched[c] \subseteq touched'[c]
      /\ \A t \in Ticket \ touched'[c] : Standing(p, t)' = Standing(p, t)
  BY Noted
<1>3. \A t \in Ticket \ touched'[c] :
        /\ t \in Listed(p)' <=> t \in Listed(p)
        /\ t \in Listed(p) => view'[p][t].wave = view[p][t].wave
  <2>1. SUFFICES ASSUME NEW t \in Ticket \ touched'[c]
                 PROVE  /\ t \in Listed(p)' <=> t \in Listed(p)
                        /\ t \in Listed(p) => view'[p][t].wave = view[p][t].wave
    OBVIOUS
  <2>2. t \in Listed(p) => view[p][t].wave # None
    BY <1>1, ListedCard
  <2>3. t \in Listed(p)' => view'[p][t].wave # None
    <3>1. view'[p] \in [Ticket -> Card \cup {None}]
      BY <1>1 DEF TypeOK, Cards
    <3>2. t \in Listed(p)' => view'[p][t] \in Card
      BY <3>1 DEF Listed
    <3>3. \A card \in Card : card.wave \in 0..1
      BY DEF Card
    <3> QED
      BY <3>2, <3>3, Numbers
  <2> QED
    BY <1>2, <2>1, <2>2, <2>3 DEF Standing
<1>4. w.steady \subseteq Ticket /\ w.anchor \in Ticket \cup {None}
  BY Shape
<1>5. Walk(c)
  BY DEF Walks
<1>6. w.steady \ touched'[c] \subseteq w.steady \ touched[c]
      /\ (w.anchor \notin touched'[c] => w.anchor \notin touched[c])
  BY <1>2
<1>7. ~w.over =>
        /\ w.steady \ touched'[c] \subseteq Listed(p)'
        /\ w.anchor \notin touched'[c] /\ w.anchor # None =>
             w.anchor \in Listed(p)'
  BY <1>3, <1>4, <1>5, <1>6 DEF Walk
<1>8. ASSUME ~w.over, w.anchor \notin touched'[c],
             NEW t \in w.steady \ touched'[c]
      PROVE  Beyond(p, w.anchor, t)' <=> Beyond(p, w.anchor, t)
  <2>1. CASE w.anchor = None
    BY <2>1 DEF Beyond
  <2>2. CASE w.anchor # None
    <3>1. t \in Listed(p) /\ w.anchor \in Listed(p)
      BY <1>5, <1>6, <1>8, <2>2 DEF Walk
    <3>2. view'[p][t].wave = view[p][t].wave
          /\ view'[p][w.anchor].wave = view[p][w.anchor].wave
      BY <1>3, <1>4, <1>8, <2>2, <3>1
    <3>3. Precedes(p, w.anchor, t)' <=> Precedes(p, w.anchor, t)
      BY <3>2 DEF Precedes
    <3> QED
      BY <2>2, <3>3 DEF Beyond
  <2> QED
    BY <2>1, <2>2
<1>9. w.sound =>
        /\ w.twice \cap w.steady = {}
        /\ w.over => w.steady \subseteq w.got
        /\ ~w.over /\ w.anchor \notin touched'[c] =>
             \A t \in w.steady \ touched'[c] :
               t \in w.got <=> ~Beyond(p, w.anchor, t)'
  BY <1>5, <1>6, <1>8 DEF Walk
<1> QED
  BY <1>7, <1>9 DEF Walk

\* All the walks stay so in a step that begins none and turns no page.
LEMMA WalksStay ==
  ASSUME TypeOK, TypeOK', Walks, Note,
         \A c \in Caller : Doing(c, "walk")' => op'[c] = op[c]
  PROVE  Walks'
<1> SUFFICES ASSUME NEW c \in Caller, Doing(c, "walk")' PROVE Walk(c)'
  BY DEF Walks
<1>1. op'[c] = op[c] /\ Doing(c, "walk")
  BY DEF Doing
<1> QED
  BY <1>1, WalkStays

-----------------------------------------------------------------------------
LEMMA InitIInv == Init => IInv
<1> SUFFICES ASSUME Init PROVE IInv
  OBVIOUS
<1>1. disk \in Cards
  BY DEF Init, Cards, Card
<1>2. tally \in [Ticket -> Tally]
  BY Constants DEF Init, Tally
<1>3. TypeOK
  <2>1. view \in [Proc -> Cards] /\ mem \in [Proc -> [Ticket -> Tally]]
    BY <1>1, <1>2 DEF Init
  <2>2. ops \in 0..MaxOps
    BY Constants DEF Init
  <2>3. flock \in Caller \cup {None} /\ op \in [Caller -> Op \cup {None}]
        /\ touched \in [Caller -> SUBSET Ticket] /\ given \in [Ticket -> Tally]
    BY <1>2 DEF Init
  <2> QED
    BY <1>1, <1>2, <2>1, <2>2, <2>3 DEF TypeOK
<1>4. Held /\ Rated /\ Walks
  BY DEF Init, Held, Rated, Walks, Doing
<1> QED
  BY <1>3, <1>4 DEF Init, IInv, TalliesExact

\* Steps that leave feedback.yaml and its lock alone.
LEMMA TicketStep ==
  ASSUME IInv, Note, UNCHANGED feedback,
         disk' \in Cards, view' \in [Proc -> Cards], ops' \in 0..MaxOps,
         op' \in [Caller -> Op \cup {None}],
         \A c \in Caller :
           \/ op'[c] = op[c] \/ op'[c] = None
           \/ Doing(c, "sweep")'
           \/ /\ Doing(c, "record")' /\ ~op'[c].held
              /\ op'[c].what \in {"like", "dislike"} =>
                   \E t \in Ticket : op'[c].keys = {t}
  PROVE  IInv'
<1>1. TypeOK'
  BY Noted DEF IInv, TypeOK, feedback
<1>2. Held'
  BY DEF IInv, Held, Doing, feedback
<1>3. Rated'
  BY DEF IInv, Rated, Doing
<1>4. Walks'
  <2>1. \A c \in Caller : Doing(c, "walk")' => op'[c] = op[c]
    BY DEF Doing
  <2> QED
    BY <1>1, <2>1, WalksStay DEF IInv
<1> QED
  BY <1>1, <1>2, <1>3, <1>4 DEF IInv, TalliesExact, feedback

LEMMA HitsAreTickets ==
  ASSUME NEW p \in Proc PROVE Hits(p) \subseteq Ticket
  BY DEF Hits, First

LEMMA RateStep ==
  ASSUME IInv, Note, NEW c \in Caller, NEW t \in Ticket, NEW what \in What,
         Rate(c, t, what)
  PROVE  IInv'
<1> DEFINE o == Recording(what, {t})
<1>1. o \in Op /\ o.kind = "record" /\ ~o.held /\ o.keys = {t} /\ o # None
  <2>1. o \in Op /\ o.kind = "record" /\ ~o.held /\ o.keys = {t}
    BY DEF Recording, Op
  <2> QED
    BY <2>1, Markers
<1>2. op' = [op EXCEPT ![c] = o] /\ ops < MaxOps /\ ops' = ops + 1
      /\ UNCHANGED <<tickets, feedback>>
  BY DEF Rate, Begin, Idle
<1> HIDE DEF o
<1>3. ops' \in 0..MaxOps
  BY <1>2, Constants DEF IInv, TypeOK
<1>4. op' \in [Caller -> Op \cup {None}]
      /\ \A d \in Caller : op'[d] = IF d = c THEN o ELSE op[d]
  BY <1>1, <1>2 DEF IInv, TypeOK
<1> QED
  BY <1>1, <1>2, <1>3, <1>4, TicketStep DEF IInv, TypeOK, tickets, Doing

LEMMA SearchStep ==
  ASSUME IInv, Note, NEW c \in Caller, Search(c)
  PROVE  IInv'
<1> DEFINE o == Recording("use", Hits(Home[c]))
<1>1. o \in Op /\ o.kind = "record" /\ ~o.held /\ o.what = "use" /\ o # None
  <2>1. o \in Op /\ o.kind = "record" /\ ~o.held /\ o.what = "use"
    BY HomeIsProc, HitsAreTickets DEF Recording, Op, What
  <2> QED
    BY <2>1, Markers
<1>2. op' = [op EXCEPT ![c] = o] /\ ops < MaxOps /\ ops' = ops + 1
      /\ UNCHANGED <<tickets, feedback>>
  BY DEF Search, Begin, Idle
<1> HIDE DEF o
<1>3. ops' \in 0..MaxOps
  BY <1>2, Constants DEF IInv, TypeOK
<1>4. op' \in [Caller -> Op \cup {None}]
      /\ \A d \in Caller : op'[d] = IF d = c THEN o ELSE op[d]
  BY <1>1, <1>2 DEF IInv, TypeOK
<1> QED
  BY <1>1, <1>2, <1>3, <1>4, TicketStep DEF IInv, TypeOK, tickets, Doing

LEMMA DeleteTicketStep ==
  ASSUME IInv, Note, NEW c \in Caller, NEW t \in Ticket, DeleteTicket(c, t)
  PROVE  IInv'
<1> DEFINE o == Recording("drop", {t})
<1>1. o \in Op /\ o.kind = "record" /\ ~o.held /\ o.what = "drop" /\ o # None
  <2>1. o \in Op /\ o.kind = "record" /\ ~o.held /\ o.what = "drop"
    BY DEF Recording, Op, What
  <2> QED
    BY <2>1, Markers
<1>2. op' = [op EXCEPT ![c] = o] /\ ops < MaxOps /\ ops' = ops + 1
      /\ UNCHANGED feedback
      /\ disk' = [disk EXCEPT ![t] = None]
      /\ view' = [view EXCEPT ![Home[c]][t] = None]
  BY DEF DeleteTicket, Begin, Idle
<1> HIDE DEF o
<1>3. ops' \in 0..MaxOps
  BY <1>2, Constants DEF IInv, TypeOK
<1>4. op' \in [Caller -> Op \cup {None}]
      /\ \A d \in Caller : op'[d] = IF d = c THEN o ELSE op[d]
  BY <1>1, <1>2 DEF IInv, TypeOK
<1>5. disk' \in Cards /\ view' \in [Proc -> Cards]
  BY <1>2, HomeIsProc DEF IInv, TypeOK, Cards
<1> QED
  BY <1>1, <1>2, <1>3, <1>4, <1>5, TicketStep DEF Doing

\* Flipping the flag keeps the records records.
LEMMA FlipTyped ==
  ASSUME TypeOK, NEW c \in Caller, NEW t \in Ticket, NEW want \in BOOLEAN,
         FlipArchive(c, t, want)
  PROVE  disk' \in Cards /\ view' \in [Proc -> Cards]
<1> DEFINE flipped(card) ==
             [card EXCEPT !.archived = want, !.age = Renewed(t, card)]
           p == Home[c]
<1>1. p \in Proc
  BY HomeIsProc
<1>2. disk[t] \in Card /\ view[p][t] \in Card
  BY <1>1 DEF FlipArchive, Reachable, TypeOK, Cards
<1>3. \A card \in Card : flipped(card) \in Card
  <2>1. SUFFICES ASSUME NEW card \in Card PROVE flipped(card) \in Card
    OBVIOUS
  <2>2. card.age \in 0..2
    BY DEF Card
  <2>3. Renewed(t, card) \in 0..2
    BY <2>2 DEF Renewed
  <2> HIDE DEF Renewed
  <2> QED
    BY <2>3 DEF Card
<1>4. disk' = [disk EXCEPT ![t] = flipped(disk[t])]
      /\ view' = [view EXCEPT ![p] = [view[p] EXCEPT ![t] = flipped(view[p][t])]]
  BY <1>1 DEF FlipArchive, TypeOK
<1> HIDE DEF flipped, p
<1> QED
  BY <1>1, <1>2, <1>3, <1>4 DEF TypeOK, Cards

LEMMA ArchiveStep ==
  ASSUME IInv, Note, NEW c \in Caller, NEW t \in Ticket, NEW want \in BOOLEAN,
         Archive(c, t, want)
  PROVE  IInv'
<1>1. disk' \in Cards /\ view' \in [Proc -> Cards]
  BY FlipTyped DEF Archive, IInv
<1>2. ops' \in 0..MaxOps
  BY Constants DEF Archive, Idle, IInv, TypeOK
<1> QED
  BY <1>1, <1>2, TicketStep DEF Archive, IInv, TypeOK

LEMMA RewaveStep ==
  ASSUME IInv, Note, NEW c \in Caller, NEW t \in Ticket, NEW w \in 0..1,
         Rewave(c, t, w)
  PROVE  IInv'
<1> DEFINE p == Home[c]
<1>1. p \in Proc
  BY HomeIsProc
<1>2. disk[t] \in Card /\ view[p][t] \in Card
  BY <1>1 DEF Rewave, Reachable, IInv, TypeOK, Cards
<1>3. \A card \in Card : [card EXCEPT !.wave = w, !.age = 0] \in Card
  <2>1. SUFFICES ASSUME NEW card \in Card
                 PROVE  [card EXCEPT !.wave = w, !.age = 0] \in Card
    OBVIOUS
  <2>2. [card EXCEPT !.wave = w] \in Card
    BY DEF Card
  <2>3. \A x \in Card : [x EXCEPT !.age = 0] \in Card
    BY DEF Card
  <2>4. [card EXCEPT !.wave = w, !.age = 0]
          = [[card EXCEPT !.wave = w] EXCEPT !.age = 0]
    OBVIOUS
  <2> QED
    BY <2>2, <2>3, <2>4
<1>4. disk' = [disk EXCEPT ![t] = [disk[t] EXCEPT !.wave = w, !.age = 0]]
  BY DEF Rewave, IInv, TypeOK, Cards
<1>5. view' = [view EXCEPT ![p] = [view[p] EXCEPT ![t] =
                 [view[p][t] EXCEPT !.wave = w, !.age = 0]]]
  BY <1>1 DEF Rewave, IInv, TypeOK, Cards
<1> HIDE DEF p
<1>6. disk' \in Cards /\ view' \in [Proc -> Cards]
  BY <1>1, <1>2, <1>3, <1>4, <1>5 DEF IInv, TypeOK, Cards
<1>7. ops' \in 0..MaxOps
  BY Constants DEF Rewave, Idle, IInv, TypeOK
<1> QED
  BY <1>6, <1>7, TicketStep DEF Rewave, IInv, TypeOK

LEMMA RefreshStep ==
  ASSUME IInv, Note, NEW p \in Proc, Refresh(p)
  PROVE  IInv'
<1>1. view' \in [Proc -> Cards]
  BY DEF Refresh, IInv, TypeOK
<1> QED
  BY <1>1, TicketStep DEF Refresh, IInv, TypeOK

LEMMA TickStep ==
  ASSUME IInv, Note, Tick
  PROVE  IInv'
<1>1. ASSUME NEW cards \in Cards PROVE Aged(cards) \in Cards
  <2>1. SUFFICES ASSUME NEW t \in Ticket, cards[t] # None, cards[t].age < 2
                 PROVE  [cards[t] EXCEPT !.age = @ + 1] \in Card
    BY DEF Aged, Cards
  <2>2. cards[t] \in Card
    BY <2>1 DEF Cards
  <2> QED
    BY <2>1, <2>2 DEF Card
<1>2. disk' \in Cards /\ view' \in [Proc -> Cards]
  BY <1>1 DEF Tick, IInv, TypeOK
<1>3. ops' \in 0..MaxOps
  BY Constants DEF Tick, IInv, TypeOK
<1> QED
  BY <1>2, <1>3, TicketStep DEF Tick, IInv, TypeOK

LEMMA SweepStep ==
  ASSUME IInv, Note, NEW c \in Caller, Sweep(c)
  PROVE  IInv'
<1> DEFINE o == [kind |-> "sweep", left |-> {t \in Ticket : DueAt(Home[c], t)}]
<1>1. o \in Op /\ o.kind = "sweep" /\ o # None
  <2>1. o \in Op /\ o.kind = "sweep"
    BY DEF Op
  <2> QED
    BY <2>1, Markers
<1>2. op' = [op EXCEPT ![c] = o] /\ ops < MaxOps /\ ops' = ops + 1
      /\ UNCHANGED <<tickets, feedback>>
  BY DEF Sweep, Begin, Idle
<1> HIDE DEF o
<1>3. ops' \in 0..MaxOps
  BY <1>2, Constants DEF IInv, TypeOK
<1>4. op' \in [Caller -> Op \cup {None}]
      /\ \A d \in Caller : op'[d] = IF d = c THEN o ELSE op[d]
  BY <1>1, <1>2 DEF IInv, TypeOK
<1> QED
  BY <1>1, <1>2, <1>3, <1>4, TicketStep DEF IInv, TypeOK, tickets, Doing

LEMMA SweepOneStep ==
  ASSUME IInv, Note, NEW c \in Caller, SweepOne(c)
  PROVE  IInv'
<1>1. PICK t \in op[c].left : /\ FlipArchive(c, t, TRUE) \/ UNCHANGED tickets
                              /\ Swept(c, t)
  BY DEF SweepOne
<1>2. op[c] \in [kind : {"sweep"}, left : SUBSET Ticket]
  BY Shape DEF SweepOne, IInv
<1>3. disk' \in Cards /\ view' \in [Proc -> Cards]
  BY <1>1, <1>2, FlipTyped DEF IInv, TypeOK, tickets
<1> DEFINE o == [kind |-> "sweep", left |-> op[c].left \ {t}]
<1>4. o \in Op /\ o.kind = "sweep" /\ o # None
  <2>1. o \in Op /\ o.kind = "sweep"
    BY <1>2 DEF Op
  <2> QED
    BY <2>1, Markers
<1>5. op' = [op EXCEPT ![c] = None] \/ op' = [op EXCEPT ![c] = o]
  <2>1. CASE op[c].left \ {t} = {}
    BY <1>1, <2>1 DEF Swept
  <2>2. CASE op[c].left \ {t} # {}
    BY <1>1, <2>2 DEF Swept
  <2> QED
    BY <2>1, <2>2
<1> HIDE DEF o
<1>6. op' \in [Caller -> Op \cup {None}]
      /\ \A d \in Caller : op'[d] = op[d] \/ (d = c /\ op'[c] \in {None, o})
  BY <1>4, <1>5 DEF IInv, TypeOK
<1> QED
  BY <1>3, <1>4, <1>6, TicketStep DEF SweepOne, IInv, TypeOK, Doing

LEMMA EndWalkStep ==
  ASSUME IInv, Note, NEW c \in Caller, EndWalk(c)
  PROVE  IInv'
<1>1. op' \in [Caller -> Op \cup {None}]
      /\ \A d \in Caller : op'[d] = op[d] \/ op'[d] = None
  BY DEF EndWalk, IInv, TypeOK
<1> QED
  BY <1>1, TicketStep DEF EndWalk, IInv, TypeOK, tickets

-----------------------------------------------------------------------------
LEMMA CountedTyped ==
  ASSUME NEW what \in What, NEW r \in Tally
  PROVE  Counted(what, r) \in Tally
<1>1. [r EXCEPT !.likes = @ + 1] \in Tally
      /\ [r EXCEPT !.dislikes = @ + 1] \in Tally
      /\ [r EXCEPT !.used = @ + 1] \in Tally /\ Nothing \in Tally
  BY DEF Tally, Nothing
<1> QED
  BY <1>1 DEF Counted, What

LEMMA ChangedTyped ==
  ASSUME TypeOK, NEW c \in Caller, Doing(c, "record"),
         NEW file \in [Ticket -> Tally]
  PROVE  Changed(op[c], file) \in [Ticket -> Tally]
  BY Shape, CountedTyped DEF Changed

LEMMA LockStep ==
  ASSUME IInv, Note, NEW c \in Caller, Lock(c)
  PROVE  IInv'
<1> USE DEF IInv
<1> DEFINE o == [op[c] EXCEPT !.held = TRUE]
<1>1. op[c] \in [kind : {"record"}, what : What, keys : SUBSET Ticket,
                 held : BOOLEAN]
  BY Shape DEF Lock
<1>2. o \in Op /\ o.kind = "record" /\ o.what = op[c].what
      /\ o.keys = op[c].keys /\ o # None
  <2>1. o \in Op /\ o.kind = "record" /\ o.what = op[c].what
        /\ o.keys = op[c].keys
    BY <1>1 DEF Op
  <2> QED
    BY <2>1, Markers
<1>3. op' = [op EXCEPT ![c] = o] /\ flock = None /\ flock' = c
      /\ mem' = [mem EXCEPT ![Home[c]] = tally]
      /\ UNCHANGED <<tickets, tally, given, ops>> /\ Doing(c, "record")
  BY DEF Lock, TypeOK
<1> HIDE DEF o
<1>4. op' \in [Caller -> Op \cup {None}]
      /\ \A d \in Caller : op'[d] = IF d = c THEN o ELSE op[d]
  BY <1>2, <1>3 DEF TypeOK
<1>5. TypeOK'
  BY <1>3, <1>4, Noted DEF TypeOK, tickets
<1>6. \A d \in Caller : Doing(d, "record") => ~op[d].held
  BY <1>3, Constants, Shape DEF Held
<1>7. Held'
  BY <1>3, <1>4, <1>6, HomeIsProc DEF Held, Doing, TypeOK
<1>8. Rated'
  BY <1>2, <1>3, <1>4 DEF Rated, Doing
<1>9. \A d \in Caller : Doing(d, "walk")' => op'[d] = op[d]
  BY <1>2, <1>4 DEF Doing
<1>10. Walks'
  BY <1>5, <1>9, WalksStay
<1> QED
  BY <1>3, <1>5, <1>7, <1>8, <1>10 DEF TalliesExact

LEMMA WriteStep ==
  ASSUME IInv, Note, NEW c \in Caller, Write(c)
  PROVE  IInv'
<1> USE DEF IInv
<1>1. Doing(c, "record") /\ op[c].held /\ flock = c /\ mem[Home[c]] = tally
  BY DEF Write, Held
<1>2. tally' = Changed(op[c], tally) /\ given' = Changed(op[c], given)
      /\ mem' = [mem EXCEPT ![Home[c]] = tally'] /\ flock' = None
      /\ op' = [op EXCEPT ![c] = None] /\ UNCHANGED <<tickets, ops>>
  BY <1>1 DEF Write
<1>3. tally' \in [Ticket -> Tally] /\ given' \in [Ticket -> Tally]
  BY <1>1, <1>2, ChangedTyped DEF TypeOK
<1>4. op' \in [Caller -> Op \cup {None}]
      /\ \A d \in Caller : op'[d] = IF d = c THEN None ELSE op[d]
  BY <1>2 DEF TypeOK
<1>5. TypeOK'
  BY <1>2, <1>3, <1>4, Noted DEF TypeOK, tickets
<1>6. \A d \in Caller \ {c} : Doing(d, "record") => ~op[d].held
  BY <1>1, Shape DEF Held
<1>7. Held' /\ Rated'
  BY <1>4, <1>6 DEF Held, Rated, Doing
<1>8. \A d \in Caller : Doing(d, "walk")' => op'[d] = op[d]
  BY <1>4 DEF Doing
<1>9. Walks'
  BY <1>5, <1>8, WalksStay
<1> QED
  BY <1>2, <1>5, <1>7, <1>9 DEF TalliesExact

LEMMA FailStep ==
  ASSUME IInv, Note, NEW c \in Caller, Fail(c)
  PROVE  IInv'
<1> USE DEF IInv
<1>1. Doing(c, "record") /\ flock' = (IF op[c].held THEN None ELSE flock)
      /\ op' = [op EXCEPT ![c] = None]
      /\ UNCHANGED <<tickets, tally, mem, given, ops>>
  BY DEF Fail
<1>2. op' \in [Caller -> Op \cup {None}]
      /\ \A d \in Caller : op'[d] = IF d = c THEN None ELSE op[d]
  BY <1>1 DEF TypeOK
<1>3. TypeOK'
  BY <1>1, <1>2, Noted DEF TypeOK, tickets
<1>4. op[c].held => \A d \in Caller \ {c} : Doing(d, "record") => ~op[d].held
  BY <1>1 DEF Held
<1>5. Held'
  BY <1>1, <1>2, <1>4 DEF Held, Doing
<1>6. Rated'
  BY <1>2 DEF Rated, Doing
<1>7. \A d \in Caller : Doing(d, "walk")' => op'[d] = op[d]
  BY <1>2 DEF Doing
<1>8. Walks'
  BY <1>3, <1>7, WalksStay
<1> QED
  BY <1>1, <1>3, <1>5, <1>6, <1>8 DEF TalliesExact

LEMMA RemountStep ==
  ASSUME IInv, Note, NEW p \in Proc, Remount(p)
  PROVE  IInv'
<1> USE DEF IInv
<1>1. mem' = [mem EXCEPT ![p] = tally]
      /\ UNCHANGED <<tickets, tally, flock, given, op, ops>>
  BY DEF Remount
<1>2. TypeOK'
  BY <1>1, Noted DEF TypeOK, tickets
<1>3. Held' /\ Rated'
  BY <1>1, HomeIsProc DEF Held, Rated, Doing, TypeOK
<1>4. Walks'
  BY <1>1, <1>2, WalksStay
<1> QED
  BY <1>1, <1>2, <1>3, <1>4 DEF TalliesExact

-----------------------------------------------------------------------------
\* A caller that begins or goes on with a walk: the others are as they were.
LEMMA WalkStep ==
  ASSUME IInv, Note, UNCHANGED <<tickets, feedback>>, ops' \in 0..MaxOps,
         NEW c \in Caller,
         NEW w \in [kind : {"walk"}, anchor : Ticket \cup {None},
                    over : BOOLEAN, got : SUBSET Ticket,
                    twice : SUBSET Ticket, steady : SUBSET Ticket,
                    sound : BOOLEAN],
         op' = [op EXCEPT ![c] = w],
         ~w.over =>
           /\ w.steady \subseteq Listed(Home[c])
           /\ w.anchor # None => w.anchor \in Listed(Home[c]),
         w.sound =>
           /\ w.twice \cap w.steady = {}
           /\ w.over => w.steady \subseteq w.got
           /\ ~w.over =>
                \A t \in w.steady : t \in w.got <=> ~Beyond(Home[c], w.anchor, t)
  PROVE  IInv'
<1> USE DEF IInv
<1>1. w \in Op /\ w.kind = "walk" /\ w # None
  <2>1. w \in Op /\ w.kind = "walk"
    BY DEF Op
  <2> QED
    BY <2>1, Markers
<1>2. op' \in [Caller -> Op \cup {None}]
      /\ \A d \in Caller : op'[d] = IF d = c THEN w ELSE op[d]
  BY <1>1 DEF TypeOK
<1>3. TypeOK'
  BY <1>2, Noted DEF TypeOK, tickets, feedback
<1>4. Held' /\ Rated'
  BY <1>1, <1>2 DEF Held, Rated, Doing, feedback
<1>5. Walks'
  <2>1. SUFFICES ASSUME NEW d \in Caller, Doing(d, "walk")' PROVE Walk(d)'
    BY DEF Walks
  <2>2. CASE d = c
    <3>1. view' = view
      BY DEF tickets
    <3>2. Listed(Home[c])' = Listed(Home[c])
      BY <3>1 DEF Listed
    <3>3. \A t \in Ticket :
            Beyond(Home[c], w.anchor, t)' <=> Beyond(Home[c], w.anchor, t)
      BY <3>1 DEF Beyond, Precedes
    <3> QED
      BY <1>2, <2>2, <3>2, <3>3 DEF Walk
  <2>3. CASE d # c
    BY <1>2, <1>3, <2>1, <2>3, WalkStays DEF Doing
  <2> QED
    BY <2>2, <2>3
<1> QED
  BY <1>3, <1>4, <1>5 DEF TalliesExact, feedback

LEMMA StartWalkStep ==
  ASSUME IInv, Note, NEW c \in Caller, StartWalk(c)
  PROVE  IInv'
<1> DEFINE w == [kind |-> "walk", anchor |-> None, over |-> FALSE, got |-> {},
                 twice |-> {}, steady |-> Listed(Home[c]), sound |-> TRUE]
<1>1. Listed(Home[c]) \subseteq Ticket
  BY DEF Listed
<1>2. w \in [kind : {"walk"}, anchor : Ticket \cup {None}, over : BOOLEAN,
             got : SUBSET Ticket, twice : SUBSET Ticket,
             steady : SUBSET Ticket, sound : BOOLEAN]
  BY <1>1
<1>3. op' = [op EXCEPT ![c] = w] /\ ops' \in 0..MaxOps
      /\ UNCHANGED <<tickets, feedback>>
  BY Constants DEF StartWalk, Begin, Idle, IInv, TypeOK
<1>4. w.anchor = None /\ ~w.over /\ w.got = {} /\ w.twice = {}
      /\ w.steady = Listed(Home[c])
  OBVIOUS
<1> HIDE DEF w
<1>5. \A t \in w.steady : Beyond(Home[c], w.anchor, t)
  BY <1>4 DEF Beyond
<1> QED
  BY <1>2, <1>3, <1>4, <1>5, WalkStep

\* Turning a page lists what comes next, up to the new cursor's ticket.
LEMMA NextPageStep ==
  ASSUME IInv, Note, NEW c \in Caller, NextPage(c)
  PROVE  IInv'
<1> USE DEF IInv
<1> DEFINE p == Home[c]
           w == op[c]
           rest == After(p, w.anchor)
           page == First(PageSize, rest, LAMBDA t, u : Precedes(p, t, u))
           fixed == w.anchor \notin touched[c]
           turned(anchor, over) ==
             [w EXCEPT !.anchor = anchor, !.over = over, !.got = @ \cup page,
                       !.twice = @ \cup (w.got \cap page),
                       !.steady = @ \ touched[c], !.sound = @ /\ fixed]
           W == [kind : {"walk"}, anchor : Ticket \cup {None}, over : BOOLEAN,
                 got : SUBSET Ticket, twice : SUBSET Ticket,
                 steady : SUBSET Ticket, sound : BOOLEAN]
<1>1. w \in W /\ p \in Proc /\ Doing(c, "walk") /\ ~w.over
      /\ UNCHANGED <<tickets, feedback, ops>>
  BY Shape, HomeIsProc DEF NextPage
<1>2. \/ page = rest /\ op' = [op EXCEPT ![c] = turned(w.anchor, TRUE)]
      \/ /\ page # rest
         /\ \E last \in page :
              /\ \A u \in page : ~Precedes(p, last, u)
              /\ op' = [op EXCEPT ![c] = turned(last, FALSE)]
  BY DEF NextPage
<1>3. page \subseteq rest /\ rest \subseteq Listed(p) /\ Listed(p) \subseteq Ticket
  BY DEF First, After, Listed
<1>4. \A t \in page, u \in rest : Precedes(p, u, t) => u \in page
  BY <1>1, <1>3, FirstIsDown
<1>5. Walk(c)
  BY <1>1 DEF Walks
<1>6. rest = {t \in Listed(p) : w.anchor # None => w.anchor \in Listed(p) /\ Precedes(p, w.anchor, t)}
  BY DEF After
<1> HIDE DEF p, w, rest, page
<1>7. \A anchor \in Ticket \cup {None}, over \in BOOLEAN :
        LET n == turned(anchor, over)
        IN  /\ n \in W /\ n.anchor = anchor /\ n.over = over
            /\ n.got = w.got \cup page
            /\ n.twice = w.twice \cup (w.got \cap page)
            /\ n.steady = w.steady \ touched[c]
            /\ n.sound = (w.sound /\ fixed)
  <2>1. SUFFICES ASSUME NEW anchor \in Ticket \cup {None}, NEW over \in BOOLEAN
                 PROVE  LET n == turned(anchor, over)
                        IN  /\ n \in W /\ n.anchor = anchor /\ n.over = over
                            /\ n.got = w.got \cup page
                            /\ n.twice = w.twice \cup (w.got \cap page)
                            /\ n.steady = w.steady \ touched[c]
                            /\ n.sound = (w.sound /\ fixed)
    OBVIOUS
  <2>2. w \in W /\ page \subseteq Ticket
    BY <1>1, <1>3
  <2>3. (w.sound /\ fixed) \in BOOLEAN
    BY <2>2
  <2> HIDE DEF fixed
  <2> QED
    BY <2>2, <2>3
<1> HIDE DEF turned
<1>8. w.steady \ touched[c] \subseteq Listed(p)
      /\ (fixed /\ w.anchor # None => w.anchor \in Listed(p))
  BY <1>1, <1>5 DEF Walk, p, w
<1>9. w.sound => w.twice \cap w.steady = {}
  BY <1>5 DEF Walk, w
<1>10. ASSUME w.sound, fixed, NEW t \in w.steady \ touched[c]
       PROVE  t \in w.got <=> t \notin rest
  <2>1. t \in w.got <=> ~Beyond(p, w.anchor, t)
    BY <1>1, <1>5, <1>10 DEF Walk, p, w
  <2> QED
    BY <1>6, <1>8, <1>10, <2>1 DEF Beyond
<1>11. w.sound /\ fixed =>
         (w.twice \cup (w.got \cap page)) \cap (w.steady \ touched[c]) = {}
  BY <1>3, <1>9, <1>10
<1>12. CASE page = rest /\ op' = [op EXCEPT ![c] = turned(w.anchor, TRUE)]
  <2> DEFINE n == turned(w.anchor, TRUE)
  <2>1. w.anchor \in Ticket \cup {None}
    BY <1>1
  <2>2. n \in W /\ n.over /\ n.got = w.got \cup page
        /\ n.twice = w.twice \cup (w.got \cap page)
        /\ n.steady = w.steady \ touched[c] /\ n.sound = (w.sound /\ fixed)
    BY <1>7, <2>1
  <2> HIDE DEF n
  <2>3. n.sound => n.twice \cap n.steady = {} /\ n.steady \subseteq n.got
    BY <1>10, <1>11, <1>12, <2>2
  <2>4. op' = [op EXCEPT ![c] = n] /\ ops' \in 0..MaxOps
        /\ UNCHANGED <<tickets, feedback>>
    BY <1>1, <1>12 DEF n, TypeOK
  <2> QED
    BY <2>2, <2>3, <2>4, WalkStep
<1>13. CASE \E last \in page :
              /\ \A u \in page : ~Precedes(p, last, u)
              /\ op' = [op EXCEPT ![c] = turned(last, FALSE)]
  <2>1. PICK last \in page : /\ \A u \in page : ~Precedes(p, last, u)
                             /\ op' = [op EXCEPT ![c] = turned(last, FALSE)]
    BY <1>13
  <2> DEFINE n == turned(last, FALSE)
  <2>2. n \in W /\ n.anchor = last /\ ~n.over /\ n.got = w.got \cup page
        /\ n.twice = w.twice \cup (w.got \cap page)
        /\ n.steady = w.steady \ touched[c] /\ n.sound = (w.sound /\ fixed)
    BY <1>3, <1>7
  <2> HIDE DEF n
  <2>3. last \in Listed(p) /\ last \in rest /\ last \in Ticket /\ last # None
    BY <1>3, Constants
  <2>4. ASSUME w.sound, fixed, NEW t \in w.steady \ touched[c]
        PROVE  t \in w.got \cup page <=> ~Precedes(p, last, t)
    <3>1. t \in Listed(p)
      BY <1>8, <2>4
    <3>2. CASE t \in page
      BY <2>1, <3>2
    <3>3. CASE t \in rest \ page
      <4>1. ~Precedes(p, t, last) /\ t # last
        BY <1>4, <3>3
      <4>2. Precedes(p, last, t)
        BY <1>1, <2>3, <3>1, <4>1, PrecedesIsOrder DEF p
      <4> QED
        BY <1>10, <2>4, <3>3, <4>2
    <3>4. CASE t \notin rest
      <4>1. t \in w.got /\ w.anchor # None /\ w.anchor \in Listed(p)
            /\ ~Precedes(p, w.anchor, t) /\ Precedes(p, w.anchor, last)
        BY <1>6, <1>8, <1>10, <2>3, <2>4, <3>1, <3>4
      <4>2. ~Precedes(p, last, t)
        BY <1>1, <2>3, <3>1, <4>1, PrecedesIsOrder DEF p
      <4> QED
        BY <4>1, <4>2
    <3> QED
      BY <1>3, <3>2, <3>3, <3>4
  <2>5. op' = [op EXCEPT ![c] = n] /\ ops' \in 0..MaxOps
        /\ UNCHANGED <<tickets, feedback>>
    BY <1>1, <2>1 DEF n, TypeOK
  <2>6. /\ n.steady \subseteq Listed(Home[c])
        /\ n.anchor \in Listed(Home[c])
    BY <1>8, <2>2, <2>3 DEF p
  <2>7. n.sound =>
          /\ n.twice \cap n.steady = {}
          /\ \A t \in n.steady : t \in n.got <=> ~Beyond(Home[c], n.anchor, t)
    BY <1>11, <2>2, <2>3, <2>4 DEF p, Beyond
  <2> QED
    BY <2>2, <2>5, <2>6, <2>7, WalkStep
<1> QED
  BY <1>2, <1>12, <1>13

LEMMA NextIInv == IInv /\ [Next]_vars => IInv'
<1> SUFFICES ASSUME IInv, [Next]_vars PROVE IInv'
  OBVIOUS
<1>1. CASE UNCHANGED vars
  BY <1>1, SMTT(30) DEF IInv, TypeOK, Held, Rated, Walks, Walk, Beyond, Precedes, Listed,
              TalliesExact, Doing, vars
<1>2. CASE Next
  BY <1>2, RateStep, ArchiveStep, RewaveStep, DeleteTicketStep, SearchStep,
     LockStep, WriteStep, FailStep, SweepStep, SweepOneStep, StartWalkStep,
     NextPageStep, EndWalkStep, RefreshStep, RemountStep, TickStep
     DEF Next, Step
<1> QED
  BY <1>1, <1>2

-----------------------------------------------------------------------------
THEOREM Invariance == Spec => []IInv
<1> QED
  BY InitIInv, NextIInv, PTL DEF Spec

\* Records, tallies and what the callers are doing stay within their types.
THEOREM TypeCorrect == Spec => []TypeOK
<1>1. IInv => TypeOK
  BY DEF IInv
<1> QED
  BY <1>1, Invariance, PTL

\* feedback.yaml counts exactly the ratings and retrievals that were
\* acknowledged, however many processes rewrite it (store/feedback.go, mutate).
THEOREM NoRatingLost == Spec => []TalliesExact
<1>1. IInv => TalliesExact
  BY DEF IInv
<1> QED
  BY <1>1, Invariance, PTL

\* A listing read page by page has what stays in it once and not twice, unless
\* the cursor's own ticket moved (svc/tickets.go:508).
THEOREM ListingComplete == Spec => []WalkExact
<1>1. IInv => WalkExact
  BY DEF IInv, Walks, Walk, WalkExact
<1> QED
  BY <1>1, Invariance, PTL
-----------------------------------------------------------------------------
(* What one rating does to the ranks and to the policy.                    *)

LEMMA TimesLess ==
  ASSUME NEW a \in Int, NEW b \in Int, NEW c \in Int, a < b, c > 0
  PROVE  a * c < b * c
BY SMT

LEMMA TimesAtMost ==
  ASSUME NEW a \in Int, NEW b \in Int, NEW c \in Int, a <= b, c > 0
  PROVE  a * c <= b * c
BY SMT

LEMMA TimesCancel ==
  ASSUME NEW a \in Int, NEW b \in Int, NEW c \in Int, a * c < b * c, c > 0
  PROVE  a < b
<1> SUFFICES ASSUME b <= a PROVE FALSE
  OBVIOUS
<1>1. b * c <= a * c
  BY TimesAtMost
<1> QED
  BY <1>1

\* x is at least y times a/b, and a/b is more than d/e: x is more than y times
\* d/e.
LEMMA Falls ==
  ASSUME NEW x \in Int, NEW y \in Int, NEW a \in Int, NEW b \in Int,
         NEW d \in Int, NEW e \in Int, y > 0, b > 0, e > 0,
         d * b < a * e, y * a <= x * b
  PROVE  y * d < x * e
<1>1. (y * a) * e <= (x * b) * e
  BY TimesAtMost
<1>2. (d * b) * y < (a * e) * y
  BY TimesLess
<1>3. (y * d) * b = (d * b) * y /\ (a * e) * y = (y * a) * e
      /\ (x * b) * e = (x * e) * b
  BY SMT
<1>4. (y * d) * b < (x * e) * b
  BY <1>1, <1>2, <1>3
<1> QED
  BY <1>4, TimesCancel

Weight(p, x) == IF Cosine[x] <= 0 THEN <<1, 1>> ELSE Quality(mem[p][x])

\* The weights of a hit are positive whole numbers.
LEMMA Weights ==
  ASSUME TypeOK, NEW p \in Proc, NEW x \in Ticket
  PROVE  /\ Cosine[x] \in Int
         /\ Weight(p, x)[1] \in Int /\ Weight(p, x)[2] \in Int
         /\ Weight(p, x)[1] > 0 /\ Weight(p, x)[2] > 0
<1>1. Cosine[x] \in Int
  BY Constants
<1>2. mem[p][x].likes \in Nat /\ mem[p][x].dislikes \in Nat
  BY DEF TypeOK, Tally
<1> QED
  BY <1>1, <1>2 DEF Weight, Quality, Ratings

\* When t's weight becomes less, who was before t, or level with it, is before
\* it: C and D are the scores of t and of the other, d/e is t's new weight.
LEMMA RankFalls ==
  ASSUME NEW C \in Int, NEW D \in Int, NEW a \in Int, NEW b \in Int,
         NEW g \in Int, NEW h \in Int, NEW d \in Int, NEW e \in Int,
         C > 0, b > 0, h > 0, e > 0,
         d * b < a * e, D * g * b - C * a * h >= 0
  PROVE  D * g * e - C * d * h > 0
<1>1. C * h \in Int /\ D * g \in Int /\ C * h > 0
  BY TimesLess
<1>2. (C * h) * a <= (D * g) * b
  OBVIOUS
<1>3. (C * h) * d < (D * g) * e
  BY <1>1, <1>2, Falls
<1> QED
  BY <1>3

\* A rating of t by process p: only t's tally changes, and it gets better or
\* worse.
LEMMA RatingMoves ==
  ASSUME TypeOK, TypeOK', NEW p \in Proc, NEW t \in Ticket,
         NEW what \in {"like", "dislike"},
         mem'[p] = [mem[p] EXCEPT ![t] = Counted(what, mem[p][t])]
  PROVE  /\ \A u \in Ticket \ {t} : Weight(p, u)' = Weight(p, u)
         /\ Cosine[t] > 0 /\ what = "dislike" =>
              Weight(p, t)'[1] * Weight(p, t)[2]
                < Weight(p, t)[1] * Weight(p, t)'[2]
         /\ Cosine[t] > 0 /\ what = "like" =>
              Weight(p, t)[1] * Weight(p, t)'[2]
                < Weight(p, t)'[1] * Weight(p, t)[2]
         /\ Cosine[t] <= 0 => Weight(p, t)' = Weight(p, t)
<1> DEFINE l == mem[p][t].likes
           d == mem[p][t].dislikes
<1>1. mem[p] \in [Ticket -> Tally] /\ mem[p][t] \in Tally
      /\ l \in Nat /\ d \in Nat /\ Cosine[t] \in Int
  BY Constants DEF TypeOK, Tally
<1>2. \A u \in Ticket \ {t} : mem'[p][u] = mem[p][u]
  BY <1>1
<1>3. mem'[p][t] = Counted(what, mem[p][t])
  BY <1>1
<1>4. /\ what = "dislike" => mem'[p][t].likes = l /\ mem'[p][t].dislikes = d + 1
      /\ what = "like" => mem'[p][t].likes = l + 1 /\ mem'[p][t].dislikes = d
  BY <1>1, <1>3 DEF Counted, Tally
<1>5. \A u \in Ticket \ {t} : Weight(p, u)' = Weight(p, u)
  BY <1>2 DEF Weight
<1>6. Cosine[t] <= 0 => Weight(p, t)' = Weight(p, t)
  BY DEF Weight
<1>7. Cosine[t] > 0 => /\ Weight(p, t)[1] = 2 * l + d + 6
                       /\ Weight(p, t)[2] = 2 * (l + d + 4)
  BY <1>1 DEF Weight, Quality, Ratings
<1>8. Cosine[t] > 0 /\ what = "dislike" =>
        /\ Weight(p, t)'[1] = 2 * l + d + 7
        /\ Weight(p, t)'[2] = 2 * (l + d + 5)
  BY <1>1, <1>4 DEF Weight, Quality, Ratings
<1>9. Cosine[t] > 0 /\ what = "like" =>
        /\ Weight(p, t)'[1] = 2 * l + d + 8
        /\ Weight(p, t)'[2] = 2 * (l + d + 5)
  BY <1>1, <1>4 DEF Weight, Quality, Ratings
<1> HIDE DEF l, d
<1>10. (2 * l + d + 7) * (2 * (l + d + 4)) < (2 * l + d + 6) * (2 * (l + d + 5))
  BY <1>1
<1>11. (2 * l + d + 6) * (2 * (l + d + 5)) < (2 * l + d + 8) * (2 * (l + d + 4))
  BY <1>1
<1> QED
  BY <1>5, <1>6, <1>7, <1>8, <1>9, <1>10, <1>11

\* The order of two hits in terms of their weights.
LEMMA OutranksIs ==
  ASSUME NEW p, NEW t, NEW u
  PROVE  LET ahead == Cosine[u] * Weight(p, u)[1] * Weight(p, t)[2]
                      - Cosine[t] * Weight(p, t)[1] * Weight(p, u)[2]
         IN  Outranks(p, u, t) <=> ahead > 0 \/ (ahead = 0 /\ u < t)
BY DEF Outranks, Weight

\* One rating moves its ticket one way only: a dislike puts nothing behind it
\* that was before it, a like nothing before it that was behind.
LEMMA RatingRanks ==
  ASSUME TypeOK, TypeOK', NEW p \in Proc, NEW t \in Ticket, NEW u \in Ticket,
         NEW what \in {"like", "dislike"},
         mem'[p] = [mem[p] EXCEPT ![t] = Counted(what, mem[p][t])]
  PROVE  /\ what = "dislike" => (Outranks(p, u, t) => Outranks(p, u, t)')
         /\ what = "like" => (Outranks(p, u, t)' => Outranks(p, u, t))
<1> DEFINE C == Cosine[t]
           D == Cosine[u]
           a == Weight(p, t)[1]
           b == Weight(p, t)[2]
           d == Weight(p, t)'[1]
           e == Weight(p, t)'[2]
           g == Weight(p, u)[1]
           h == Weight(p, u)[2]
<1>1. /\ C \in Int /\ D \in Int /\ a \in Int /\ b \in Int /\ g \in Int /\ h \in Int
      /\ a > 0 /\ b > 0 /\ g > 0 /\ h > 0
  BY Weights
<1>2. /\ Weight(p, t)'[1] \in Int /\ Weight(p, t)'[2] \in Int
      /\ Weight(p, t)'[1] > 0 /\ Weight(p, t)'[2] > 0
  <2>1. mem'[p][t].likes \in Nat /\ mem'[p][t].dislikes \in Nat
    BY DEF TypeOK, Tally
  <2> QED
    BY <2>1 DEF Weight, Quality, Ratings
<1>3. Outranks(p, u, t) <=> \/ D * g * b - C * a * h > 0
                            \/ D * g * b - C * a * h = 0 /\ u < t
  BY OutranksIs
<1>4. CASE u = t
  <2>1. ~Outranks(p, u, t)
    BY <1>1, <1>3, <1>4, Numbers
  <2>2. ~Outranks(p, u, t)'
    BY <1>1, <1>2, <1>4, Numbers DEF Outranks, Weight
  <2> QED
    BY <2>1, <2>2
<1>5. CASE u # t
  <2>1. Weight(p, u)' = Weight(p, u)
    BY <1>5, RatingMoves
  <2>2. Outranks(p, u, t)' <=> \/ D * g * e - C * d * h > 0
                               \/ D * g * e - C * d * h = 0 /\ u < t
    BY <2>1 DEF Outranks, Weight
  <2>3. C > 0 /\ what = "dislike" => d * b < a * e
    BY RatingMoves
  <2>4. C > 0 /\ what = "like" => a * e < d * b
    BY RatingMoves
  <2>5. C <= 0 => d = a /\ e = b
    BY RatingMoves
  <2> HIDE DEF C, D, a, b, d, e, g, h
  <2>6. d \in Int /\ e \in Int /\ e > 0 /\ d > 0
    BY <1>2 DEF d, e
  <2>7. CASE C <= 0
    BY <1>3, <2>2, <2>5, <2>7
  <2>8. CASE C > 0 /\ what = "dislike"
    <3>1. D * g * b - C * a * h >= 0 => D * g * e - C * d * h > 0
      BY <1>1, <2>3, <2>6, <2>8, RankFalls
    <3> QED
      BY <1>1, <1>3, <2>2, <2>8, <3>1
  <2>9. CASE C > 0 /\ what = "like"
    <3>1. D * g * e - C * d * h >= 0 => D * g * b - C * a * h > 0
      BY <1>1, <2>4, <2>6, <2>9, RankFalls
    <3> QED
      BY <1>1, <1>3, <2>2, <2>6, <2>9, <3>1
  <2> QED
    BY <1>1, <2>7, <2>8, <2>9
<1> QED
  BY <1>4, <1>5

\* A hit stays a hit if nothing comes before it that did not before.
LEMMA HitStays ==
  ASSUME NEW S \in SUBSET Ticket, NEW A \in SUBSET S, NEW B \in SUBSET S,
         A \subseteq B, Cardinality(B) < HitLimit
  PROVE  Cardinality(A) < HitLimit
<1>1. IsFiniteSet(A) /\ IsFiniteSet(B)
  <2>1. IsFiniteSet(Ticket)
    BY Constants
  <2> QED
    BY <2>1, FS_Subset
<1>2. Cardinality(A) <= Cardinality(B)
      /\ Cardinality(A) \in Nat /\ Cardinality(B) \in Nat
  BY <1>1, FS_Subset, FS_CardinalityType
<1>3. HitLimit \in Nat
  BY Constants
<1> QED
  BY <1>2, <1>3

\* Ratings act in their direction: a dislike keeps a ticket due for archive due
\* and brings none among the hits, a like drives none out of them
\* (svc/feedback_score.go, svc/archive_decide.go).
THEOREM RatingsAct == Spec => RatingsCount
<1> DEFINE A == \A c \in Caller, t \in Ticket :
                  Doing(c, "record") /\ flock = c /\ t \in op[c].keys
                  /\ tally' # tally =>
                    LET p == Home[c]
                    IN  /\ op[c].what = "dislike" =>
                             /\ DueAt(p, t) => DueAt(p, t)'
                             /\ t \in Hits(p)' => t \in Hits(p)
                        /\ op[c].what = "like" =>
                             (t \in Hits(p) => t \in Hits(p)')
<1>1. IInv /\ IInv' /\ [Next]_vars => [A]_vars
  <2>1. SUFFICES ASSUME IInv, IInv', Next, NEW c \in Caller, NEW t \in Ticket,
                        Doing(c, "record"), flock = c, t \in op[c].keys,
                        tally' # tally, op[c].what \in {"like", "dislike"}
                 PROVE  LET p == Home[c]
                        IN  /\ op[c].what = "dislike" =>
                                 /\ DueAt(p, t) => DueAt(p, t)'
                                 /\ t \in Hits(p)' => t \in Hits(p)
                            /\ op[c].what = "like" =>
                                 (t \in Hits(p) => t \in Hits(p)')
    OBVIOUS
  <2> DEFINE p == Home[c]
             what == op[c].what
             shown == {x \in First(2 * HitLimit,
                                   {y \in Ticket : view[p][y] # None}, Closer) :
                         ~view[p][x].archived}
             above == {u \in shown : Outranks(p, u, t)}
             over == {u \in shown : Outranks(p, u, t)'}
  <2>2. Write(c)
    <3>1. PICK d \in Caller : Write(d)
      <4>1. \A d \in Caller, x \in Ticket :
              /\ \A y \in What : Rate(d, x, y) => tally' = tally
              /\ \A y \in BOOLEAN : Archive(d, x, y) => tally' = tally
              /\ \A y \in 0..1 : Rewave(d, x, y) => tally' = tally
              /\ DeleteTicket(d, x) => tally' = tally
        BY DEF Rate, Archive, Rewave, DeleteTicket, feedback
      <4>2. \A d \in Caller :
              Search(d) \/ Lock(d) \/ Fail(d) \/ Sweep(d) \/ SweepOne(d)
              \/ StartWalk(d) \/ NextPage(d) \/ EndWalk(d) => tally' = tally
        BY DEF Search, Lock, Fail, Sweep, SweepOne, StartWalk, NextPage,
           EndWalk, feedback
      <4>3. /\ \A q \in Proc : Refresh(q) \/ Remount(q) => tally' = tally
            /\ Tick => tally' = tally
        BY DEF Refresh, Remount, Tick, feedback
      <4> QED
        BY <2>1, <4>1, <4>2, <4>3 DEF Next, Step
    <3>2. d = c
      BY <2>1, <3>1 DEF Write, IInv, Held
    <3> QED
      BY <3>1, <3>2
  <2>3. p \in Proc /\ TypeOK /\ TypeOK'
    BY <2>1, HomeIsProc DEF IInv
  <2>4. op[c].keys = {t}
    BY <2>1 DEF IInv, Rated
  <2>5. mem[p] \in [Ticket -> Tally]
    BY <2>3 DEF TypeOK
  <2>6. mem'[p] = [mem[p] EXCEPT ![t] = Counted(what, mem[p][t])]
        /\ view' = view
    <3>1. mem'[p] = Changed(op[c], mem[p]) /\ view' = view
      BY <2>2, <2>3 DEF Write, TypeOK, tickets
    <3>2. Changed(op[c], mem[p])
            = [mem[p] EXCEPT ![t] = Counted(what, mem[p][t])]
      BY <2>4, <2>5 DEF Changed
    <3> QED
      BY <3>1, <3>2
  <2>7. what = "dislike" => (DueAt(p, t) => DueAt(p, t)')
    <3> DEFINE r == mem[p][t]
               s == mem'[p][t]
    <3>1. r.likes \in Nat /\ r.dislikes \in Nat /\ r.used \in Nat
      BY <2>5 DEF Tally
    <3>2. what = "dislike" => /\ s.likes = r.likes /\ s.used = r.used
                              /\ s.dislikes = r.dislikes + 1
      BY <2>5, <2>6 DEF Counted, Tally
    <3> HIDE DEF r, s
    <3>3. what = "dislike" => /\ Ratings(s) = Ratings(r) + 1
                              /\ Disliked(r) => Disliked(s)
                              /\ Ratings(r) = 0 => Disliked(s)
      BY <3>1, <3>2 DEF Ratings, Disliked
    <3>4. Ratings(r) \in Nat
      BY <3>1 DEF Ratings
    <3>5. what = "dislike" => (Due(view[p][t], r) => Due(view[p][t], s))
      BY <3>2, <3>3, <3>4 DEF Due
    <3> QED
      BY <2>6, <3>5 DEF DueAt, r, s
  <2>8. t \in Hits(p) <=> t \in shown /\ Cardinality(above) < HitLimit
    BY DEF Hits, First
  <2>9. t \in Hits(p)' <=> t \in shown /\ Cardinality(over) < HitLimit
    BY <2>6 DEF Hits, First
  <2>10. shown \subseteq Ticket
    BY DEF First
  <2>11. /\ what = "dislike" => above \subseteq over
         /\ what = "like" => over \subseteq above
    BY <2>1, <2>3, <2>6, <2>10, RatingRanks
  <2>12. above \in SUBSET shown /\ over \in SUBSET shown
    OBVIOUS
  <2> HIDE DEF shown, above, over, p, what
  <2>13. what = "dislike" => (t \in Hits(p)' => t \in Hits(p))
    BY <2>8, <2>9, <2>10, <2>11, <2>12, HitStays
  <2>14. what = "like" => (t \in Hits(p) => t \in Hits(p)')
    BY <2>8, <2>9, <2>10, <2>11, <2>12, HitStays
  <2> QED
    BY <2>7, <2>13, <2>14 DEF p, what
<1> HIDE DEF A
<1>2. Spec => [][A]_vars
  BY Invariance, <1>1, PTL DEF Spec
<1> QED
  BY <1>2 DEF A, RatingsCount
=============================================================================
