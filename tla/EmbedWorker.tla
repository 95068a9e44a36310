----------------------------- MODULE EmbedWorker -----------------------------
(***************************************************************************)
(* internal/worker and its callers in internal/svc: the asynchronous       *)
(* embedding of ticket bodies.  A handler commits the text, then enqueues  *)
(* a job on its mount's worker; the worker embeds the text, writes the     *)
(* sidecar beside it and upserts the vector into the mount's index.  The   *)
(* queue is bounded and the live path drops on a full one.  Three walkers  *)
(* enqueue too: hydrate when a project is mounted, the backfill after a    *)
(* start, and a forced re-embed.                                           *)
(*                                                                         *)
(* An entry is a ticket, a text is a version number (0: no such file), and *)
(* a sidecar or a vector is the version it was made from.  The provider    *)
(* and its model stay the same, so a readable sidecar is never stale by    *)
(* identity.  Every mount of the project, and every start of the process,  *)
(* gets a fresh worker.                                                    *)
(***************************************************************************)
EXTENDS Naturals, Sequences, FiniteSets

CONSTANTS
  Entry,        \* tickets
  NWorkers,     \* bound: how many mounts there are in all
  Capacity,     \* the queue's buffer (256 in the code)
  MaxVersion,   \* bound: how often a text is written
  MaxWalks,     \* bound: backfills and re-embeds
  None

ASSUME CapacityAssumption == Capacity \in Nat \ {0}
ASSUME BoundsAssumption == NWorkers \in Nat /\ MaxVersion \in Nat /\ MaxWalks \in Nat

Worker == 1..NWorkers   \* worker instances, in the order they are started

\* Every Flush has a channel of its own.
ASSUME TagAssumption == Entry \cap (0..MaxWalks) = {}

VARIABLES
  src,        \* version of the text on disk, 0 when there is none
  side,       \* version the sidecar was made from, 0 when there is none
  marker,     \* entries with a .failed marker beside them
  idx,        \* the mount's resident index: version of the vector, or 0
  dead,       \* entries that were deleted
  mount,      \* the worker of the project's mount, None when evicted
  phase,      \* each worker: "new", "run", "stop" (cancelled) or "gone"
  queue,      \* each worker's channel
  at,         \* the job each worker is processing, or None
  hand,       \* the handler that holds lp.Lock, or None
  hydrate,    \* entries hydrateMount is not yet done with, None when not running
  visit,      \* the entry it is at, with what it has read, or None
  walk,       \* the backfill or re-embed that is running, or None
  walks,      \* how many there have been (bound)
  booted,     \* the process has started and not yet run its backfill
  lost,       \* entries whose last update may be missing (history)
  unsettled,  \* entries written since the last mount, or which a failure that
              \* was only logged has left behind since (history)
  exposed     \* entries removed while a worker that was not flushed had them in
              \* hand, or loaded into the index again after that (history)

disk == <<src, side, marker, dead>>
history == <<lost, unsettled, exposed>>
vars == <<disk, idx, mount, phase, queue, at, hand, hydrate, visit, walk, walks,
          booted, history>>

Version == 0..MaxVersion
Embed == [kind: {"embed"}, e: Entry, ver: Version]
Barrier == [kind: {"flush"}, tag: Entry \cup (0..MaxWalks)]
Processing == [e: Entry, ver: Version, pc: {"embed", "upsert"}]
Handler == [op: {"update", "delete"}, e: Entry, w: Worker \cup {None},
            pc: {"look", "send", "wait", "remove"}, flushed: BOOLEAN]
Visit == [e: Entry, saw: Version, read: Embed \cup {None}]
Walk == [kind: {"backfill", "reembed"}, w: Worker \cup {None}, todo: SUBSET Entry,
         pc: {"flush", "wait", "visit", "load", "text", "send"},
         e: Entry \cup {None}, saw: Version, read: Embed \cup {None}]

ASSUME NoneAssumption ==
  /\ None \notin Worker \cup Entry \cup Embed \cup Processing \cup Handler
                 \cup Visit \cup Walk
  /\ \A S \in SUBSET Entry : None # S

TypeOK ==
  /\ src \in [Entry -> Version]
  /\ side \in [Entry -> Version]
  /\ marker \subseteq Entry
  /\ idx \in [Entry -> Version]
  /\ dead \subseteq Entry
  /\ mount \in Worker \cup {None}
  /\ phase \in [Worker -> {"new", "run", "stop", "gone"}]
  /\ queue \in [Worker -> Seq(Embed \cup Barrier)]
  /\ \A w \in Worker : Len(queue[w]) <= Capacity
  /\ at \in [Worker -> Processing \cup {None}]
  /\ hand \in Handler \cup {None}
  /\ hydrate \in (SUBSET Entry) \cup {None}
  /\ visit \in Visit \cup {None}
  /\ walk \in Walk \cup {None}
  /\ walks \in 0..MaxWalks
  /\ booted \in BOOLEAN
  /\ lost \subseteq Entry /\ unsettled \subseteq Entry /\ exposed \subseteq Entry

Init ==
  /\ src = [e \in Entry |-> 0]
  /\ side = [e \in Entry |-> 0]
  /\ marker = {}
  /\ idx = [e \in Entry |-> 0]
  /\ dead = {}
  /\ mount = None
  /\ phase = [w \in Worker |-> "new"]
  /\ queue = [w \in Worker |-> <<>>]
  /\ at = [w \in Worker |-> None]
  /\ hand = None
  /\ hydrate = None
  /\ visit = None
  /\ walk = None
  /\ walks = 0
  /\ booted = TRUE
  /\ lost = {} /\ unsettled = {} /\ exposed = {}

\* A worker that has returned never receives again: what is put into its
\* channel is as good as gone.
Room(w) == Len(queue[w]) < Capacity
Put(w, j) ==
  queue' = IF phase[w] = "gone" THEN queue ELSE [queue EXCEPT ![w] = Append(@, j)]
EmbedJob(e, ver) == [kind |-> "embed", e |-> e, ver |-> ver]
FlushJob(tag) == [kind |-> "flush", tag |-> tag]

\* The entries a worker has, or will have, in its hands.
Busy(w, e) == at[w] # None /\ at[w].e = e
Pending(w) ==
  {queue[w][i].e : i \in {k \in 1..Len(queue[w]) : queue[w][k].kind = "embed"}}
    \cup (IF at[w] = None THEN {} ELSE {at[w].e})

\* Of an entry that is gone nothing can be lost.
Lose(S) == lost' = lost \cup (S \ dead)

Running(w) == phase[w] \in {"run", "stop"}

-----------------------------------------------------------------------------
(* Handlers.  One at a time: they hold lp.Lock to the end.                 *)

\* CreateTicket or UpdateTicket has committed a new text.
CommitText(e) ==
  /\ hand = None
  /\ e \notin dead
  /\ src[e] < MaxVersion
  /\ src' = [src EXCEPT ![e] = @ + 1]
  /\ hand' = [op |-> "update", e |-> e, w |-> None, pc |-> "look", flushed |-> FALSE]
  /\ unsettled' = unsettled \cup {e}
  /\ UNCHANGED <<side, marker, dead, idx, mount, phase, queue, at, hydrate, visit,
                 walk, walks, booted, lost, exposed>>

\* DeleteTicket has passed its checks.
BeginDelete(e) ==
  /\ hand = None
  /\ src[e] # 0
  /\ hand' = [op |-> "delete", e |-> e, w |-> None, pc |-> "look", flushed |-> FALSE]
  /\ UNCHANGED <<disk, idx, mount, phase, queue, at, hydrate, visit, walk, walks,
                 booted, history>>

\* mountForSlug: waits for whoever holds mountsMu.  Without a worker nothing is
\* enqueued, and nothing flushed.
FindWorker ==
  /\ hand # None /\ hand.pc = "look"
  /\ hydrate = None
  /\ hand' = IF mount # None THEN [hand EXCEPT !.w = mount, !.pc = "send"]
             ELSE IF hand.op = "delete" THEN [hand EXCEPT !.pc = "remove"]
             ELSE None
  /\ Lose(IF mount = None THEN {hand.e} ELSE {})
  /\ UNCHANGED <<disk, idx, mount, phase, queue, at, hydrate, visit, walk, walks,
                 booted, unsettled, exposed>>

\* Enqueue never blocks: it drops the job when the queue is full.
Enqueue ==
  /\ hand # None /\ hand.op = "update" /\ hand.pc = "send"
  /\ IF Room(hand.w)
     THEN Put(hand.w, EmbedJob(hand.e, src[hand.e]))
     ELSE UNCHANGED queue
  /\ Lose(IF Room(hand.w) /\ phase[hand.w] = "run" THEN {} ELSE {hand.e})
  /\ hand' = None
  /\ UNCHANGED <<disk, idx, mount, phase, at, hydrate, visit, walk, walks, booted,
                 unsettled, exposed>>

\* Mutant: Flush sends its barrier and does not wait for it.
FlushSendOnly ==
  /\ hand # None /\ hand.op = "delete" /\ hand.pc = "send"
  /\ Room(hand.w)
  /\ Put(hand.w, FlushJob(hand.e))
  /\ hand' = [hand EXCEPT !.pc = "remove", !.flushed = TRUE]
  /\ UNCHANGED <<disk, idx, mount, phase, at, hydrate, visit, walk, walks, booted,
                 history>>

\* Flush blocks until the queue has room, then until the worker has dequeued
\* the barrier.
FlushSend ==
  /\ hand # None /\ hand.op = "delete" /\ hand.pc = "send"
  /\ Room(hand.w)
  /\ Put(hand.w, FlushJob(hand.e))
  /\ hand' = [hand EXCEPT !.pc = "wait", !.flushed = TRUE]
  /\ UNCHANGED <<disk, idx, mount, phase, at, hydrate, visit, walk, walks, booted,
                 history>>

\* The request's context is cancelled: the handler goes on all the same.
FlushCancelled ==
  /\ hand # None /\ hand.op = "delete" /\ hand.pc \in {"send", "wait"}
  /\ hand' = [hand EXCEPT !.pc = "remove", !.w = None, !.flushed = FALSE]
  /\ UNCHANGED <<disk, idx, mount, phase, queue, at, hydrate, visit, walk, walks,
                 booted, history>>

\* The ticket dir goes, with all that lies in it, and its index entry.
RemoveTicket ==
  /\ hand # None /\ hand.pc = "remove"
  /\ LET e == hand.e
     IN /\ src' = [src EXCEPT ![e] = 0]
        /\ side' = [side EXCEPT ![e] = 0]
        /\ marker' = marker \ {e}
        /\ idx' = [idx EXCEPT ![e] = 0]
        /\ dead' = dead \cup {e}
        /\ exposed' = IF \E w \in Worker : Busy(w, e) /\ (w = hand.w => ~ hand.flushed)
                      THEN exposed \cup {e} ELSE exposed
        /\ lost' = lost \ {e}
        /\ unsettled' = unsettled \ {e}
  /\ hand' = None
  /\ UNCHANGED <<mount, phase, queue, at, hydrate, visit, walk, walks, booted>>

-----------------------------------------------------------------------------
(* The worker's loop.                                                      *)

\* Mutant: the test for an empty text comes first and skips the barriers.
TakeSkipsBarrier(w) ==
  /\ Running(w)
  /\ at[w] = None
  /\ queue[w] # <<>>
  /\ queue' = [queue EXCEPT ![w] = Tail(@)]
  /\ LET j == Head(queue[w])
     IN at' = IF j.kind = "flush" \/ src[j.e] = 0 THEN at
              ELSE [at EXCEPT ![w] = [e |-> j.e, ver |-> j.ver, pc |-> "embed"]]
  /\ UNCHANGED <<disk, idx, mount, phase, hand, hydrate, visit, walk, walks, booted,
                 history>>

\* process: a barrier is closed; a job whose source is gone, or cannot be looked
\* up, is skipped.
Take(w) ==
  /\ Running(w)
  /\ at[w] = None
  /\ queue[w] # <<>>
  /\ queue' = [queue EXCEPT ![w] = Tail(@)]
  /\ LET j == Head(queue[w])
     IN \/ /\ j.kind = "flush"
           /\ hand' = IF hand # None /\ hand.pc = "wait" /\ j.tag = hand.e
                      THEN [hand EXCEPT !.pc = "remove"] ELSE hand
           /\ walk' = IF walk # None /\ walk.pc = "wait" /\ j.tag = walks
                      THEN [walk EXCEPT !.pc = "visit", !.w = None] ELSE walk
           /\ UNCHANGED <<at, lost, unsettled>>
        \/ /\ j.kind = "embed" /\ src[j.e] # 0
           /\ at' = [at EXCEPT ![w] = [e |-> j.e, ver |-> j.ver, pc |-> "embed"]]
           /\ UNCHANGED <<hand, walk, lost, unsettled>>
        \/ /\ j.kind = "embed"
           /\ Lose({j.e})
           /\ unsettled' = unsettled \cup ({j.e} \ dead)
           /\ UNCHANGED <<at, hand, walk>>
  /\ UNCHANGED <<disk, idx, mount, phase, hydrate, visit, walks, booted, exposed>>

Doing(w, pc) == at[w] # None /\ at[w].pc = pc

\* Removing the marker of an earlier failure can fail: that is only logged.
ClearMarker(e) == marker' \in {marker, marker \ {e}}

\* Mutant: a sidecar that is there already is left alone.
EmbedOkKeeps(w) ==
  /\ Doing(w, "embed")
  /\ ClearMarker(at[w].e)
  /\ side' = IF side[at[w].e] = 0 THEN [side EXCEPT ![at[w].e] = at[w].ver] ELSE side
  /\ at' = [at EXCEPT ![w].pc = "upsert"]
  /\ UNCHANGED <<src, dead, idx, mount, phase, queue, hand, hydrate, visit, walk,
                 walks, booted, history>>

\* The provider answers: an earlier failure marker is cleared, and WriteSidecar
\* replaces the sidecar atomically, making the directory when it is not there.
EmbedOk(w) ==
  /\ Doing(w, "embed")
  /\ ClearMarker(at[w].e)
  /\ side' = [side EXCEPT ![at[w].e] = at[w].ver]
  /\ at' = [at EXCEPT ![w].pc = "upsert"]
  /\ UNCHANGED <<src, dead, idx, mount, phase, queue, hand, hydrate, visit, walk,
                 walks, booted, history>>

\* Mutant: a failed embed is only logged.
EmbedFailSilent(w) ==
  /\ Doing(w, "embed")
  /\ Lose({at[w].e})
  /\ at' = [at EXCEPT ![w] = None]
  /\ UNCHANGED <<disk, idx, mount, phase, queue, hand, hydrate, visit, walk, walks,
                 booted, unsettled, exposed>>

\* The retries are used up, or the context is cancelled.  The failure marker is
\* written if it can be: that it cannot is only logged.
EmbedFail(w) ==
  /\ Doing(w, "embed")
  /\ LET e == at[w].e
     IN /\ marker' \in {marker, marker \cup {e}}
        /\ unsettled' = unsettled \cup ({e} \ (dead \cup marker'))
        /\ Lose({e})
  /\ at' = [at EXCEPT ![w] = None]
  /\ UNCHANGED <<src, side, dead, idx, mount, phase, queue, hand, hydrate, visit,
                 walk, walks, booted, exposed>>

\* The sidecar cannot be written, after the marker was cleared.
SidecarFail(w) ==
  /\ Doing(w, "embed")
  /\ ClearMarker(at[w].e)
  /\ Lose({at[w].e})
  /\ unsettled' = unsettled \cup ({at[w].e} \ dead)
  /\ at' = [at EXCEPT ![w] = None]
  /\ UNCHANGED <<src, side, dead, idx, mount, phase, queue, hand, hydrate, visit,
                 walk, walks, booted, exposed>>

\* A worker that outlived its mount has indexes nobody searches.
Upsert(w) ==
  /\ Doing(w, "upsert")
  /\ idx' = IF mount = w THEN [idx EXCEPT ![at[w].e] = at[w].ver] ELSE idx
  /\ at' = [at EXCEPT ![w] = None]
  /\ UNCHANGED <<disk, mount, phase, queue, hand, hydrate, visit, walk, walks,
                 booted, history>>

\* Cancelled, and the queue is drained.
Exit(w) ==
  /\ phase[w] = "stop"
  /\ at[w] = None
  /\ queue[w] = <<>>
  /\ phase' = [phase EXCEPT ![w] = "gone"]
  /\ UNCHANGED <<disk, idx, mount, queue, at, hand, hydrate, visit, walk, walks,
                 booted, history>>

WorkerStep(w) ==
  \/ Take(w) \/ EmbedOk(w) \/ EmbedFail(w) \/ SidecarFail(w) \/ Upsert(w)
  \/ Exit(w)

-----------------------------------------------------------------------------
(* Mounts, under mountsMu.                                                 *)

\* maybeEvictLocked: Stop waits 5s for the worker, then leaves it behind; the
\* next mount may come before or after it has returned.
Evict ==
  /\ mount # None
  /\ hydrate = None
  /\ phase' = [phase EXCEPT ![mount] = "stop"]
  /\ mount' = None
  /\ idx' = [e \in Entry |-> 0]
  /\ UNCHANGED <<disk, queue, at, hand, hydrate, visit, walk, walks, booted,
                 history>>

\* RegisterProjectMount or ResolveProjectStore: fresh indexes, fresh worker.
Mount(w) ==
  /\ mount = None
  /\ phase[w] = "new"
  /\ \A v \in Worker : v < w => phase[v] # "new"
  /\ mount' = w
  /\ phase' = [phase EXCEPT ![w] = "run"]
  /\ hydrate' = Entry
  /\ Lose(UNION {Pending(v) : v \in {u \in Worker : Running(u)}})
  /\ unsettled' = {}
  /\ UNCHANGED <<disk, idx, queue, at, hand, visit, walk, walks, booted, exposed>>

\* hydrateMount is done with an entry, and returns after the last.
Visited(e) ==
  /\ hydrate' = IF hydrate \subseteq {e} THEN None ELSE hydrate \ {e}
  /\ visit' = None

\* upsertOrEnqueue, in its steps: nobody keeps the ticket from being changed or
\* removed meanwhile, by a handler that found its worker before the mount.
HydrateRead(e) ==
  /\ hydrate # None /\ visit = None /\ e \in hydrate
  /\ IF src[e] = 0 THEN Visited(e)
     ELSE visit' = [e |-> e, saw |-> side[e], read |-> None] /\ UNCHANGED hydrate
  /\ UNCHANGED <<disk, idx, mount, phase, queue, at, hand, walk, walks, booted,
                 history>>

\* The vector of a ticket that was removed in between comes back.
PutBack(e, ver) ==
  /\ idx' = [idx EXCEPT ![e] = ver]
  /\ exposed' = exposed \cup ({e} \cap dead)

\* There is a sidecar: its vector goes into the index.
HydrateLoad ==
  /\ visit # None /\ visit.saw # 0
  /\ PutBack(visit.e, visit.saw)
  /\ Visited(visit.e)
  /\ UNCHANGED <<disk, mount, phase, queue, at, hand, walk, walks, booted, lost,
                 unsettled>>

\* There is none: read the text, if it is still there.
HydrateText ==
  /\ visit # None /\ visit.saw = 0 /\ visit.read = None
  /\ IF src[visit.e] = 0 THEN Visited(visit.e)
     ELSE /\ visit' = [visit EXCEPT !.read = EmbedJob(visit.e, src[visit.e])]
          /\ UNCHANGED hydrate
  /\ UNCHANGED <<disk, idx, mount, phase, queue, at, hand, walk, walks, booted,
                 history>>

\* EnqueueBlocking: waits for room.
HydrateSend ==
  /\ visit # None /\ visit.read # None
  /\ Room(mount)
  /\ Put(mount, visit.read)
  /\ Visited(visit.e)
  /\ UNCHANGED <<disk, idx, mount, phase, at, hand, walk, walks, booted, history>>

\* The ticket or its text cannot be read: it is passed over, with a log line for
\* all there is to say so.
HydrateSkip(e) ==
  /\ hydrate # None /\ e \in hydrate
  /\ visit # None => visit.e = e /\ visit.saw = 0 /\ visit.read = None
  /\ Visited(e)
  /\ Lose({e})
  /\ unsettled' = unsettled \cup ({e} \ dead)
  /\ UNCHANGED <<disk, idx, mount, phase, queue, at, hand, walk, walks, booted,
                 exposed>>

-----------------------------------------------------------------------------
(* The walkers that hold no lock.                                          *)

Start(kind, pc) ==
  /\ mount # None /\ hydrate = None
  /\ walk = None /\ walks < MaxWalks
  /\ walk' = [kind |-> kind, w |-> mount, todo |-> Entry, pc |-> pc, e |-> None,
              saw |-> 0, read |-> None]
  /\ walks' = walks + 1
  /\ UNCHANGED <<disk, idx, mount, phase, queue, at, hand, hydrate, visit, history>>

\* runBootBackfill, once the service has started.
StartBackfill == booted /\ Start("backfill", "visit") /\ booted' = FALSE

\* ReembedProject with an unchanged provider.
StartReembed == Start("reembed", "flush") /\ UNCHANGED booted

\* ReembedProject lets the jobs before it drain, unless it is cancelled.
WalkFlush ==
  /\ walk # None /\ walk.pc = "flush"
  /\ Room(walk.w)
  /\ Put(walk.w, FlushJob(walks))
  /\ walk' = [walk EXCEPT !.pc = "wait"]
  /\ UNCHANGED <<disk, idx, mount, phase, at, hand, hydrate, visit, walks, booted,
                 history>>

WalkCancelled ==
  /\ walk # None /\ walk.pc \in {"flush", "wait"}
  /\ walk' = [walk EXCEPT !.pc = "visit", !.w = None]
  /\ UNCHANGED <<disk, idx, mount, phase, queue, at, hand, hydrate, visit, walks,
                 booted, history>>

\* The walk goes on, or ends after the last entry.
Ahead(S) ==
  walk' = IF S = {} THEN None
          ELSE [walk EXCEPT !.todo = S, !.pc = "visit", !.e = None, !.saw = 0,
                            !.read = None]

\* What is gone or cannot be read is passed over, by a backfill also what has a
\* sidecar.
WalkPass(e) ==
  /\ walk # None /\ walk.pc = "visit" /\ e \in walk.todo
  /\ Ahead(walk.todo \ {e})
  /\ UNCHANGED <<disk, idx, mount, phase, queue, at, hand, hydrate, visit, walks,
                 booted, history>>

\* A backfill looks whether there is a sidecar; a re-embed reads it, for the
\* index its mount has at this moment.
WalkRead(e) ==
  /\ walk # None /\ walk.pc = "visit" /\ e \in walk.todo
  /\ src[e] # 0
  /\ walk.kind = "backfill" => side[e] = 0
  /\ walk' = [walk EXCEPT !.todo = @ \ {e}, !.e = e, !.saw = side[e],
                          !.pc = IF side[e] # 0 THEN "load" ELSE "text",
                          !.w = IF side[e] # 0 THEN mount
                                ELSE IF walk.kind = "backfill" THEN @ ELSE None]
  /\ UNCHANGED <<disk, idx, mount, phase, queue, at, hand, hydrate, visit, walks,
                 booted, history>>

\* upsertOrEnqueue with force goes on after the upsert.
WalkLoad ==
  /\ walk # None /\ walk.pc = "load"
  /\ IF mount # None /\ mount = walk.w
     THEN PutBack(walk.e, walk.saw)
     ELSE UNCHANGED <<idx, exposed>>
  /\ walk' = [walk EXCEPT !.pc = "text", !.w = None]
  /\ UNCHANGED <<disk, mount, phase, queue, at, hand, hydrate, visit, walks, booted,
                 lost, unsettled>>

WalkText ==
  /\ walk # None /\ walk.pc = "text" /\ src[walk.e] # 0
  /\ walk' = [walk EXCEPT !.read = EmbedJob(walk.e, src[walk.e]), !.pc = "send"]
  /\ UNCHANGED <<disk, idx, mount, phase, queue, at, hand, hydrate, visit, walks,
                 booted, history>>

\* The text is gone, or cannot be read; the vector that was loaded may by now be
\* older than the one it replaced.
WalkNoText ==
  /\ walk # None /\ walk.pc = "text"
  /\ Lose(IF walk.saw \in {0, src[walk.e]} THEN {} ELSE {walk.e})
  /\ Ahead(walk.todo)
  /\ UNCHANGED <<disk, idx, mount, phase, queue, at, hand, hydrate, visit, walks,
                 booted, unsettled, exposed>>

\* EnqueueBlocking of what was read: a backfill keeps the worker it started
\* with, a re-embed asks the mount each time.
WalkSend ==
  /\ walk # None /\ walk.pc = "send"
  /\ LET w == IF walk.kind = "backfill" THEN walk.w ELSE mount
         j == walk.read
     IN IF w = None
        THEN UNCHANGED <<queue, lost, hand>>
        ELSE /\ Room(w)
             /\ Put(w, j)
             /\ Lose(IF j.ver = src[j.e] /\ phase[w] = "run" THEN {} ELSE {j.e})
             /\ hand' = IF hand # None /\ hand.e = j.e
                        THEN [hand EXCEPT !.flushed = FALSE] ELSE hand
  /\ Ahead(walk.todo)
  /\ UNCHANGED <<disk, idx, mount, phase, at, hydrate, visit, walks, booted,
                 unsettled, exposed>>

\* The process dies and starts again: only the disk is left.
Crash ==
  /\ Lose((UNION {Pending(w) : w \in {u \in Worker : Running(u)}})
            \cup (IF hand # None /\ hand.op = "update" THEN {hand.e} ELSE {}))
  /\ phase' = [w \in Worker |-> IF phase[w] = "new" THEN "new" ELSE "gone"]
  /\ queue' = [w \in Worker |-> <<>>]
  /\ at' = [w \in Worker |-> None]
  /\ idx' = [e \in Entry |-> 0]
  /\ mount' = None
  /\ hand' = None
  /\ hydrate' = None
  /\ visit' = None
  /\ walk' = None
  /\ booted' = TRUE
  /\ UNCHANGED <<disk, walks, unsettled, exposed>>

Handle ==
  \/ \E e \in Entry : CommitText(e) \/ BeginDelete(e)
  \/ FindWorker \/ Enqueue \/ FlushSend \/ FlushCancelled \/ RemoveTicket

Mounts == Evict \/ (\E w \in Worker : Mount(w))
            \/ HydrateLoad \/ HydrateText \/ HydrateSend
            \/ (\E e \in Entry : HydrateRead(e) \/ HydrateSkip(e))

Walks == StartBackfill \/ StartReembed \/ WalkFlush \/ WalkCancelled \/ WalkLoad
           \/ WalkText \/ WalkNoText \/ WalkSend
           \/ (\E e \in Entry : WalkPass(e) \/ WalkRead(e))

Next == Handle \/ (\E w \in Worker : WorkerStep(w)) \/ Mounts \/ Walks \/ Crash

\* A worker's goroutine keeps running, and every provider call returns: each
\* client has a timeout, and the job's context is cancelled on Stop.
Spec == Init /\ [][Next]_vars /\ \A w \in Worker : WF_vars(WorkerStep(w))

-----------------------------------------------------------------------------
(* Properties.                                                             *)

\* Nothing is under way in the mounted project.
Rest ==
  /\ mount # None /\ hydrate = None /\ walk = None /\ hand = None
  /\ \A w \in Worker : Running(w) => queue[w] = <<>> /\ at[w] = None

(* The last text wins: once the queue is drained, sidecar and index hold   *)
(* the text on disk, whatever the order of updates, re-embeds, evictions   *)
(* and mounts, unless a job was dropped, failed or overtaken (Flush before *)
(* a re-embed, Stop before a new worker, one queue per mount).             *)
LatestWins ==
  Rest => \A e \in Entry \ lost :
    src[e] # 0 => side[e] = src[e] /\ idx[e] = src[e]

(* Nothing stays invisible that was not left so by an I/O error: after a   *)
(* mount, every text there was has a sidecar or a failure marker that says *)
(* why not, or since then its source could not be read, or its sidecar or  *)
(* its marker not be written.  Those errors are logged and no more, so for *)
(* them "absent from search forever and nothing anywhere says so", which   *)
(* process gives as the reason for the marker, stays true.                 *)
NothingMissing ==
  Rest => \A e \in Entry \ unsettled :
    src[e] # 0 => side[e] # 0 \/ e \in marker

(* Flush is a barrier: what comes back of a ticket that was removed can    *)
(* come only from a worker that had it in hand and was not flushed, or     *)
(* from hydrate or a re-embed, which read the sidecar before and put its   *)
(* vector into the index after; a job still queued finds no source         *)
(* (DeleteTicket "so it doesn't write a sidecar into the ticket dir").     *)
NoResurrection ==
  \A e \in dead \ exposed : side[e] = 0 /\ e \notin marker /\ idx[e] = 0

(* Flush returns, even if its context is never cancelled, unless the       *)
(* worker it waits for has already returned.                               *)
FlushReturns ==
  \A e \in Entry :
    (hand # None /\ hand.e = e /\ hand.pc = "wait") ~>
      (hand = None \/ hand.e # e \/ hand.pc # "wait" \/ phase[hand.w] = "gone")
=============================================================================
