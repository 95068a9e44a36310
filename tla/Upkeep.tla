-------------------------------- MODULE Upkeep --------------------------------
(***************************************************************************)
(* What is read out of a project and what reading it leaves behind:        *)
(* ratings and retrievals (internal/store/feedback.go, svc/feedback.go),   *)
(* the searches that use and write them (svc/search.go, feedback_score.go),*)
(* the archive policy that is decided by them (svc/archive.go,             *)
(* archive_decide.go) and the paged listings of svc/tickets.go and         *)
(* svc/comments.go, with several processes at work on one data dir.        *)
(*                                                                         *)
(* Each process has its own copy of the tickets (ProjectCache) and of      *)
(* feedback.yaml, which it loads when the project is mounted and whenever  *)
(* it writes.  The staged commit of a ticket's change is one step here:    *)
(* what happens inside it is the subject of StageOp and Tickets.  A        *)
(* ticket's number is its place in the order of creation.                  *)
(***************************************************************************)
EXTENDS Integers, FiniteSets, FiniteSetsExt

CONSTANTS
  Proc,
  Caller,
  Home,       \* the process of each caller
  Ticket,     \* a set of numbers
  Completed,  \* the tickets that are done: only the archive flag still moves
  Cosine,     \* what the query scores against each ticket
  HitLimit,   \* hits a search returns
  PageSize,   \* tickets on a page
  MinUsed,    \* min_retrievals of the archive policy
  Tallies,    \* what feedback.yaml may say at the start
  MaxOps,     \* bound: operations begun
  None

ASSUME Constants ==
  /\ Home \in [Caller -> Proc]
  /\ Ticket \subseteq Nat /\ IsFiniteSet(Ticket) /\ Completed \subseteq Ticket
  /\ Cosine \in [Ticket -> Int]
  /\ HitLimit \in Nat /\ PageSize \in Nat \ {0} /\ MinUsed \in Nat
  /\ MaxOps \in Nat
  /\ Tallies \subseteq [Ticket -> [likes : Nat, dislikes : Nat, used : Nat]]
  /\ None \notin Nat /\ None \notin Caller

\* FeedbackRecord; a key that is absent counts nothing.
Tally == [likes : Nat, dislikes : Nat, used : Nat]
Nothing == [likes |-> 0, dislikes |-> 0, used |-> 0]

\* ticket.yaml, as far as it is decided on: wave 0 is no wave; the age is that
\* of the policy's anchor, 0 below early_archive_age_days, 2 from min_age_days.
Card == [archived : BOOLEAN, wave : 0..1, age : 0..2]
Cards == [Ticket -> Card \cup {None}]

What == {"like", "dislike", "use", "drop"}
Op == [kind : {"record"}, what : What, keys : SUBSET Ticket, held : BOOLEAN]
      \cup [kind : {"sweep"}, left : SUBSET Ticket]
      \cup [kind : {"walk"}, anchor : Ticket \cup {None}, over : BOOLEAN,
            got : SUBSET Ticket, twice : SUBSET Ticket,
            steady : SUBSET Ticket, sound : BOOLEAN]

ASSUME Markers == None \notin Card /\ None \notin Op

VARIABLES
  disk,     \* the ticket records, None for one that is not there
  view,     \* each process's LoadedProject.Tickets
  tally,    \* feedback.yaml
  mem,      \* each process's FeedbackStore.entries
  flock,    \* the caller that holds the project's file lock
  op,       \* what each caller is in the middle of
  ops,      \* operations begun so far
  given,    \* the ratings and retrievals acknowledged (history)
  touched   \* what a walker's listing has changed since its last page (history)

tickets == <<disk, view>>
feedback == <<tally, mem, flock, given>>
vars == <<disk, view, tally, mem, flock, op, ops, given, touched>>

TypeOK ==
  /\ disk \in Cards
  /\ view \in [Proc -> Cards]
  /\ tally \in [Ticket -> Tally]
  /\ mem \in [Proc -> [Ticket -> Tally]]
  /\ flock \in Caller \cup {None}
  /\ op \in [Caller -> Op \cup {None}]
  /\ ops \in 0..MaxOps
  /\ given \in [Ticket -> Tally]
  /\ touched \in [Caller -> SUBSET Ticket]

Init ==
  /\ disk = [t \in Ticket |-> [archived |-> FALSE, wave |-> 0, age |-> 1]]
  /\ view = [p \in Proc |-> disk]
  /\ tally \in Tallies
  /\ mem = [p \in Proc |-> tally]
  /\ flock = None
  /\ op = [c \in Caller |-> None]
  /\ ops = 0
  /\ given = tally
  /\ touched = [c \in Caller |-> {}]

-----------------------------------------------------------------------------
Doing(c, kind) == op[c] # None /\ op[c].kind = kind

\* LoadedProject.Lock: DeleteTicket holds it until its feedback is dropped.
Unlocked(p) ==
  \A c \in Caller : Home[c] = p /\ Doing(c, "record") => op[c].what # "drop"

Idle(c) == op[c] = None /\ ops < MaxOps

Begin(c, o) ==
  /\ Idle(c)
  /\ ops' = ops + 1
  /\ op' = [op EXCEPT ![c] = o]

\* The first k of S under an order.
First(k, S, Before(_, _)) ==
  {t \in S : Cardinality({u \in S : Before(u, t)}) < k}

-----------------------------------------------------------------------------
(* Ratings and retrievals.                                                 *)

Recording(what, keys) ==
  [kind |-> "record", what |-> what, keys |-> keys, held |-> FALSE]

\* A rating is taken for a ticket the process knows, and written later.
Rate(c, t, what) ==
  /\ Idle(c) /\ Unlocked(Home[c]) /\ view[Home[c]][t] # None
  /\ what \in {"like", "dislike"}
  /\ Begin(c, Recording(what, {t}))
  /\ UNCHANGED <<tickets, feedback>>

Ratings(r) == r.likes + r.dislikes

\* Multiplier with the defaults (alpha and beta 2, at least one half), as a
\* fraction.
Quality(r) == <<2 * r.likes + r.dislikes + 6, 2 * (Ratings(r) + 4)>>

\* The order of the rescored hits: by score, then by id.
Outranks(p, t, u) ==
  LET weight(x) == IF Cosine[x] <= 0 THEN <<1, 1>> ELSE Quality(mem[p][x])
      ahead == Cosine[t] * weight(t)[1] * weight(u)[2]
               - Cosine[u] * weight(u)[1] * weight(t)[2]
  IN  ahead > 0 \/ (ahead = 0 /\ t < u)

Closer(t, u) == Cosine[t] > Cosine[u] \/ (Cosine[t] = Cosine[u] /\ t < u)

\* Twice as many are fetched from the index as are returned, whether they are
\* archived or not; the archived ones are passed over afterwards.
Hits(p) ==
  LET raw == First(2 * HitLimit, {t \in Ticket : view[p][t] # None}, Closer)
      shown == {t \in raw : ~view[p][t].archived}
  IN  First(HitLimit, shown, LAMBDA t, u : Outranks(p, t, u))

Search(c) ==
  /\ Idle(c) /\ Unlocked(Home[c]) /\ Hits(Home[c]) # {}
  /\ Begin(c, Recording("use", Hits(Home[c])))
  /\ UNCHANGED <<tickets, feedback>>

Counted(what, r) ==
  CASE what = "like" -> [r EXCEPT !.likes = @ + 1]
    [] what = "dislike" -> [r EXCEPT !.dislikes = @ + 1]
    [] what = "use" -> [r EXCEPT !.used = @ + 1]
    [] what = "drop" -> Nothing

Changed(o, file) ==
  [t \in Ticket |-> IF t \in o.keys THEN Counted(o.what, file[t]) ELSE file[t]]

\* Mutant: what the process has in memory is taken to be the file.
LockTrusting(c) ==
  /\ Doing(c, "record") /\ flock = None
  /\ flock' = c
  /\ op' = [op EXCEPT ![c].held = TRUE]
  /\ UNCHANGED <<tickets, tally, mem, given, ops>>

\* mutate: under the file lock the file is read again...
Lock(c) ==
  /\ Doing(c, "record") /\ flock = None
  /\ flock' = c
  /\ mem' = [mem EXCEPT ![Home[c]] = tally]
  /\ op' = [op EXCEPT ![c].held = TRUE]
  /\ UNCHANGED <<tickets, tally, given, ops>>

\* ...changed and written.
Write(c) ==
  /\ Doing(c, "record") /\ op[c].held
  /\ tally' = Changed(op[c], mem[Home[c]])
  /\ mem' = [mem EXCEPT ![Home[c]] = tally']
  /\ given' = Changed(op[c], given)
  /\ flock' = None
  /\ op' = [op EXCEPT ![c] = None]
  /\ UNCHANGED <<tickets, ops>>

\* The lock is not to be had, or the file cannot be read or written: a rating
\* is refused, a retrieval or a deletion goes unrecorded.
Fail(c) ==
  /\ Doing(c, "record")
  /\ flock' = IF op[c].held THEN None ELSE flock
  /\ op' = [op EXCEPT ![c] = None]
  /\ UNCHANGED <<tickets, tally, mem, given, ops>>

\* attachMountFeedback: the project is mounted again.
Remount(p) ==
  /\ mem[p] # tally
  /\ \A c \in Caller : Home[c] = p => op[c] = None
  /\ mem' = [mem EXCEPT ![p] = tally]
  /\ UNCHANGED <<tickets, tally, flock, given, op, ops>>

-----------------------------------------------------------------------------
(* Tickets change: in one process, and then in the others.                 *)

\* A change needs the ticket in the process's copy and on the disk.
Reachable(c, t) ==
  /\ Unlocked(Home[c])
  /\ view[Home[c]][t] # None /\ disk[t] # None

\* UpdatedAt moves; a completed ticket ages from its completion on.
Renewed(t, card) == IF t \in Completed THEN card.age ELSE 0

FlipArchive(c, t, want) ==
  LET flipped(card) ==
        [card EXCEPT !.archived = want, !.age = Renewed(t, card)]
  IN  /\ Reachable(c, t) /\ view[Home[c]][t].archived # want
      /\ disk' = [disk EXCEPT ![t] = flipped(@)]
      /\ view' = [view EXCEPT ![Home[c]][t] = flipped(@)]

\* ArchiveTicket and UnarchiveTicket on someone's request.
Archive(c, t, want) ==
  /\ Idle(c) /\ FlipArchive(c, t, want)
  /\ ops' = ops + 1
  /\ UNCHANGED <<feedback, op>>

\* UpdateTicket with another wave.
Rewave(c, t, w) ==
  /\ Idle(c) /\ Reachable(c, t) /\ t \notin Completed
  /\ w \in 0..1 /\ w # view[Home[c]][t].wave
  /\ ops' = ops + 1
  /\ disk' = [disk EXCEPT ![t].wave = w, ![t].age = 0]
  /\ view' = [view EXCEPT ![Home[c]][t].wave = w, ![Home[c]][t].age = 0]
  /\ UNCHANGED <<feedback, op>>

DeleteTicket(c, t) ==
  /\ Idle(c) /\ Reachable(c, t) /\ t \notin Completed
  /\ disk' = [disk EXCEPT ![t] = None]
  /\ view' = [view EXCEPT ![Home[c]][t] = None]
  /\ Begin(c, Recording("drop", {t}))
  /\ UNCHANGED feedback

\* The watcher has seen the others' changes.
Refresh(p) ==
  /\ view[p] # disk
  /\ view' = [view EXCEPT ![p] = disk]
  /\ UNCHANGED <<disk, feedback, op, ops>>

Aged(cards) ==
  [t \in Ticket |-> IF cards[t] # None /\ cards[t].age < 2
                    THEN [cards[t] EXCEPT !.age = @ + 1] ELSE cards[t]]

Tick ==
  /\ ops < MaxOps /\ ops' = ops + 1
  /\ disk' = Aged(disk)
  /\ view' = [p \in Proc |-> Aged(view[p])]
  /\ UNCHANGED <<feedback, op>>

-----------------------------------------------------------------------------
(* The archive policy.                                                     *)

\* dislike_ratio is one half.
Disliked(r) == 2 * r.dislikes >= Ratings(r)

\* Mutant: any rating keeps a ticket.
DueUnrated(card, r) ==
  /\ card # None /\ ~card.archived
  /\ \/ card.age >= 1 /\ Ratings(r) >= 3 /\ Disliked(r)
     \/ card.age = 2 /\ r.used >= MinUsed /\ Ratings(r) = 0

\* Decide, for a policy that is enabled.
Due(card, r) ==
  /\ card # None /\ ~card.archived
  /\ \/ card.age >= 1 /\ Ratings(r) >= 3 /\ Disliked(r)
     \/ card.age = 2 /\ r.used >= MinUsed /\ (Ratings(r) = 0 \/ Disliked(r))

DueAt(p, t) == Due(view[p][t], mem[p][t])

\* ApplyArchivePolicy decides on every ticket first...
Sweep(c) ==
  LET due == {t \in Ticket : DueAt(Home[c], t)}
  IN  /\ Idle(c) /\ Unlocked(Home[c]) /\ due # {}
      /\ Begin(c, [kind |-> "sweep", left |-> due])
      /\ UNCHANGED <<tickets, feedback>>

Swept(c, t) ==
  LET left == op[c].left \ {t}
  IN  op' = [op EXCEPT ![c] = IF left = {} THEN None
                              ELSE [kind |-> "sweep", left |-> left]]

\* ...and then archives one after the other, or passes over it.
SweepOne(c) ==
  /\ Doing(c, "sweep")
  /\ \E t \in op[c].left :
       /\ \/ FlipArchive(c, t, TRUE)
          \/ UNCHANGED tickets
       /\ Swept(c, t)
  /\ UNCHANGED <<feedback, ops>>

-----------------------------------------------------------------------------
(* Listings, a page at a time.                                             *)

Listed(p) == {t \in Ticket : view[p][t] # None /\ ~view[p][t].archived}

\* ticketLess: wave 0 sorts last; within a wave by age.
Precedes(p, t, u) ==
  LET w(x) == IF view[p][x].wave = 0 THEN 2 ELSE view[p][x].wave
  IN  w(t) < w(u) \/ (w(t) = w(u) /\ t < u)

\* Mutant: the page begins with the anchor.
AfterWithAnchor(p, anchor) ==
  IF anchor = None THEN Listed(p)
  ELSE {t \in Listed(p) : anchor \in Listed(p) /\ ~Precedes(p, t, anchor)}

\* The anchor is looked for in the listing: when it is no longer there, nothing
\* comes after it.
After(p, anchor) ==
  IF anchor = None THEN Listed(p)
  ELSE {t \in Listed(p) : anchor \in Listed(p) /\ Precedes(p, anchor, t)}

StartWalk(c) ==
  /\ Begin(c, [kind |-> "walk", anchor |-> None, over |-> FALSE, got |-> {},
               twice |-> {}, steady |-> Listed(Home[c]), sound |-> TRUE])
  /\ UNCHANGED <<tickets, feedback>>

NextPage(c) ==
  LET p == Home[c]
      w == op[c]
      rest == After(p, w.anchor)
      page == First(PageSize, rest, LAMBDA t, u : Precedes(p, t, u))
      turned(anchor, over) ==
        [w EXCEPT !.anchor = anchor,
                  !.over = over,
                  !.got = @ \cup page,
                  !.twice = @ \cup (w.got \cap page),
                  !.steady = @ \ touched[c],
                  !.sound = @ /\ w.anchor \notin touched[c]]
  IN  /\ Doing(c, "walk") /\ ~w.over /\ Unlocked(p)
      /\ \/ /\ page = rest
            /\ op' = [op EXCEPT ![c] = turned(w.anchor, TRUE)]
         \/ /\ page # rest
            /\ \E last \in page :
                 /\ \A u \in page : ~Precedes(p, last, u)
                 /\ op' = [op EXCEPT ![c] = turned(last, FALSE)]
      /\ UNCHANGED <<tickets, feedback, ops>>

EndWalk(c) ==
  /\ Doing(c, "walk") /\ op[c].over
  /\ op' = [op EXCEPT ![c] = None]
  /\ UNCHANGED <<tickets, feedback, ops>>

-----------------------------------------------------------------------------
Standing(p, t) ==
  IF t \in Listed(p) THEN view[p][t].wave ELSE None

Step ==
  \/ \E c \in Caller :
       \/ \E t \in Ticket :
            \/ \E what \in What : Rate(c, t, what)
            \/ \E want \in BOOLEAN : Archive(c, t, want)
            \/ \E w \in 0..1 : Rewave(c, t, w)
            \/ DeleteTicket(c, t)
       \/ Search(c) \/ Lock(c) \/ Write(c) \/ Fail(c)
       \/ Sweep(c) \/ SweepOne(c)
       \/ StartWalk(c) \/ NextPage(c) \/ EndWalk(c)
  \/ \E p \in Proc : Refresh(p) \/ Remount(p)
  \/ Tick

\* A walker notes what changes in the listing between two of its own steps.
Note ==
  touched' = [c \in Caller |->
    IF Doing(c, "walk") /\ op'[c] = op[c]
    THEN touched[c]
         \cup {t \in Ticket : Standing(Home[c], t)' # Standing(Home[c], t)}
    ELSE {}]

Next == Step /\ Note

Spec == Init /\ [][Next]_vars

-----------------------------------------------------------------------------
\* No rating and no retrieval that was acknowledged is lost, and none is
\* counted twice, however many processes rewrite feedback.yaml.
TalliesExact == tally = given

\* What stays in the listing, unmoved, for the whole of a walk is listed once
\* and not twice, as long as no cursor's own ticket changes its place before the
\* next page is asked for.
WalkExact ==
  \A c \in Caller : Doing(c, "walk") /\ op[c].sound =>
    /\ op[c].twice \cap op[c].steady = {}
    /\ op[c].over => op[c].steady \subseteq op[c].got

\* Ratings act in their direction, through search and policy: a dislike never
\* takes a ticket out of the policy's reach nor brings it among the hits, and a
\* like never drives it out of them.
RatingsCount ==
  [][\A c \in Caller, t \in Ticket :
       Doing(c, "record") /\ flock = c /\ t \in op[c].keys /\ tally' # tally =>
         LET p == Home[c]
         IN  /\ op[c].what = "dislike" =>
                  /\ DueAt(p, t) => DueAt(p, t)'
                  /\ t \in Hits(p)' => t \in Hits(p)
             /\ op[c].what = "like" => (t \in Hits(p) => t \in Hits(p)')]_vars
=============================================================================
