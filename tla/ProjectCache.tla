----------------------------- MODULE ProjectCache -----------------------------
(***************************************************************************)
(* internal/cache and the watcher of internal/store: the cache of one      *)
(* process, for one project, with other processes writing to its data dir. *)
(*                                                                         *)
(* A request calls Cache.Get, which returns the cached LoadedProject or    *)
(* loads one file by file; then it takes the project's RWMutex, to read    *)
(* or to run a handler.  The handler is UpdateProject: it rewrites         *)
(* project.yaml from the record it reads, overwrites summary.md, and       *)
(* changes the cached project in place.  The loader reads the files in the *)
(* same order.  Another process that updates the project does the same     *)
(* with a cache of its own, of which only the commit is seen here.         *)
(*                                                                         *)
(* The content of project.yaml is the set of updates in it, that of        *)
(* summary.md the update that wrote it.  A LoadedProject is an object of a *)
(* pool, reused once neither the cache nor a request refers to it.         *)
(* Entries of other projects show up only as evictions.                    *)
(***************************************************************************)
EXTENDS Naturals, Sequences, FiniteSets

CONSTANTS
  Req,     \* request goroutines of this process
  Other,   \* updates made by other processes
  Load,         \* the pool of LoadedProjects (bound: loads in use at a time)
  MaxUpdates,   \* bound: updates in all
  None

Writer == Req \cup Other
File == {"yaml", "summary"}
Content == SUBSET Writer
Job == [yaml : Content, todo : {<<>>, <<"yaml">>, <<"summary">>, <<"yaml", "summary">>}]

ASSUME ActorsAssumption == Req \cap Other = {}
ASSUME BoundAssumption == MaxUpdates \in Nat
ASSUME NoneAssumption ==
  /\ None \notin Writer /\ None \notin Load
  /\ \A content \in Content : content # None
  /\ \A j \in Job : j # None

VARIABLES
  disk,     \* project.yaml and summary.md
  flock,    \* the writer holding the project's file lock
  job,      \* what each writer is committing, or None
  wrote,    \* the writers that have begun their update (bound: one each)
  loaded,   \* c.loaded[slug], or None
  data,     \* what each LoadedProject holds, None where it is not read yet
  stale,    \* those whose Stale flag is set
  watch,    \* each one's watcher: "none", "on" or "closed"
  event,    \* those whose watcher has seen a change it has not signalled yet
  lock,     \* who holds each one's Lock for writing
  pc,       \* where each request stands
  lp,       \* the LoadedProject it has in hand
  missed,   \* loads that a change went by unwatched, after the read (history)
  asker,    \* the request whose answer is judged, or None (history)
  held,     \* what the disk held since it began (history)
  via,      \* the LoadedProject each update was made under (history)
  between   \* who rewrote project.yaml since each writer read it (history)

store == <<disk, flock, job, wrote>>
entries == <<loaded, data, stale, watch, event, lock>>
requests == <<pc, lp>>
history == <<missed, asker, held, via, between>>
vars == <<store, entries, requests, history>>

PC == {"idle", "yaml", "summary", "watch", "insert", "have", "commit"}

TypeOK ==
  /\ disk \in [File -> Content]
  /\ flock \in Writer \cup {None}
  /\ job \in [Writer -> Job \cup {None}]
  /\ wrote \subseteq Writer
  /\ loaded \in Load \cup {None}
  /\ data \in [Load -> [File -> Content \cup {None}]]
  /\ stale \subseteq Load /\ event \subseteq Load /\ missed \subseteq Load
  /\ watch \in [Load -> {"none", "on", "closed"}]
  /\ lock \in [Load -> Req \cup {None}]
  /\ pc \in [Req -> PC]
  /\ lp \in [Req -> Load \cup {None}]
  /\ asker \in Req \cup {None}
  /\ held \in [File -> SUBSET Content]
  /\ via \in [Writer -> Load \cup {None}]
  /\ between \in [Writer -> SUBSET Writer]

Init ==
  /\ disk = [f \in File |-> {}] /\ flock = None
  /\ job = [w \in Writer |-> None] /\ wrote = {}
  /\ loaded = None
  /\ data = [l \in Load |-> [f \in File |-> None]]
  /\ stale = {} /\ event = {} /\ missed = {}
  /\ watch = [l \in Load |-> "none"]
  /\ lock = [l \in Load |-> None]
  /\ pc = [r \in Req |-> "idle"] /\ lp = [r \in Req |-> None]
  /\ asker = None /\ held = [f \in File |-> {}]
  /\ via = [w \in Writer |-> None] /\ between = [w \in Writer |-> {}]

-----------------------------------------------------------------------------
(* Cache.Get.                                                              *)

\* No update is under way and every event has been signalled.
Quiet == event = {} /\ \A w \in Writer : job[w] = None

\* A request begins.  What it is served can be told fresh from old if nothing is
\* in flight now; one request at a time is picked to be judged.
Began(r) ==
  \/ /\ asker = None /\ Quiet
     /\ asker' = r
     /\ held' = [f \in File |-> {disk[f]}]
  \/ UNCHANGED <<asker, held>>

\* A request ends.
Ended(r) ==
  IF asker = r
  THEN asker' = None /\ held' = [f \in File |-> {}]
  ELSE UNCHANGED <<asker, held>>

\* Mutant: Get does not look at the Stale flag.
HitStale(r) ==
  /\ pc[r] = "idle"
  /\ loaded # None
  /\ lp' = [lp EXCEPT ![r] = loaded]
  /\ pc' = [pc EXCEPT ![r] = "have"]
  /\ Began(r)
  /\ UNCHANGED <<store, entries, missed, via, between>>

\* The entry is there and not stale.
Hit(r) ==
  /\ pc[r] = "idle"
  /\ loaded # None /\ loaded \notin stale
  /\ lp' = [lp EXCEPT ![r] = loaded]
  /\ pc' = [pc EXCEPT ![r] = "have"]
  /\ Began(r)
  /\ UNCHANGED <<store, entries, missed, via, between>>

\* closeWatcher, for the entries in L: events not signalled yet are dropped.
CloseWatchers(L) ==
  /\ watch' = [l \in Load |-> IF l \in L /\ watch[l] = "on" THEN "closed" ELSE watch[l]]
  /\ event' = event \ L

\* The LoadedProjects nobody refers to.
Unused == {l \in Load : l # loaded /\ \A r \in Req : lp[r] # l}

\* No entry, or a stale one, which is evicted: loadFromDisk begins.
Miss(r) ==
  /\ pc[r] = "idle"
  /\ loaded = None \/ loaded \in stale
  /\ \E l \in Unused :
        /\ lp' = [lp EXCEPT ![r] = l]
        /\ data' = [data EXCEPT ![l] = [f \in File |-> None]]
        /\ stale' = stale \ {l}
        /\ missed' = missed \ {l}
        /\ watch' = [k \in Load |-> IF k = l THEN "none"
                                    ELSE IF k = loaded /\ watch[k] = "on" THEN "closed"
                                    ELSE watch[k]]
        /\ event' = event \ {loaded}
        /\ via' = [w \in Writer |-> IF via[w] = l THEN None ELSE via[w]]
  /\ loaded' = None
  /\ pc' = [pc EXCEPT ![r] = "yaml"]
  /\ Began(r)
  /\ UNCHANGED <<store, lock, between>>

\* ReadProject, then ReadProjectSummary: no lock is held.
ReadFile(r) ==
  /\ pc[r] \in File
  /\ data' = [data EXCEPT ![lp[r]][pc[r]] = disk[pc[r]]]
  /\ pc' = [pc EXCEPT ![r] = IF pc[r] = "yaml" THEN "summary" ELSE "watch"]
  /\ UNCHANGED <<store, loaded, stale, watch, event, lock, lp, history>>

\* WatchProject; when it fails the project is used without a watcher.
StartWatch(r) ==
  /\ pc[r] = "watch"
  /\ \E started \in {"on", "none"} : watch' = [watch EXCEPT ![lp[r]] = started]
  /\ pc' = [pc EXCEPT ![r] = "insert"]
  /\ UNCHANGED <<store, loaded, data, stale, event, lock, lp, history>>

\* Mutant: the project of a load that comes too late keeps its watcher.
InsertLeak(r) ==
  /\ pc[r] = "insert"
  /\ IF loaded # None /\ loaded \notin stale
     THEN /\ lp' = [lp EXCEPT ![r] = loaded]
          /\ UNCHANGED <<loaded, watch, event>>
     ELSE /\ CloseWatchers({loaded})
          /\ loaded' = lp[r]
          /\ lp' = lp
  /\ pc' = [pc EXCEPT ![r] = "have"]
  /\ UNCHANGED <<store, data, stale, lock, history>>

\* loadAndInsert: a live entry inserted meanwhile wins over ours, which is
\* dropped; a stale one is replaced.
Insert(r) ==
  /\ pc[r] = "insert"
  /\ IF loaded # None /\ loaded \notin stale
     THEN /\ CloseWatchers({lp[r]})
          /\ lp' = [lp EXCEPT ![r] = loaded]
          /\ loaded' = loaded
     ELSE /\ CloseWatchers({loaded})
          /\ loaded' = lp[r]
          /\ lp' = lp
  /\ pc' = [pc EXCEPT ![r] = "have"]
  /\ UNCHANGED <<store, data, stale, lock, history>>

\* The watcher's debounced signal reaches watchLoop.
MarkStale(l) ==
  /\ l \in event
  /\ stale' = stale \cup {l}
  /\ event' = event \ {l}
  /\ UNCHANGED <<store, loaded, data, watch, lock, requests, history>>

\* SweepIdle, the LRU bound, or a handler's Evict.
Evict ==
  /\ loaded # None
  /\ CloseWatchers({loaded})
  /\ loaded' = None
  /\ UNCHANGED <<store, data, stale, lock, requests, history>>

-----------------------------------------------------------------------------
(* Serving.                                                                *)

\* GetProject and the other read-only handlers, under RLock.
Read(r) ==
  /\ pc[r] = "have"
  /\ lock[lp[r]] = None
  /\ pc' = [pc EXCEPT ![r] = "idle"]
  /\ lp' = [lp EXCEPT ![r] = None]
  /\ Ended(r)
  /\ UNCHANGED <<store, entries, missed, via, between>>

\* An update begins: the record is read, without the file lock.
Begin(w) ==
  /\ w \notin wrote /\ Cardinality(wrote) < MaxUpdates
  /\ wrote' = wrote \cup {w}
  /\ \E todo \in {<<"yaml">>, <<"yaml", "summary">>} :
       job' = [job EXCEPT ![w] = [yaml |-> disk["yaml"] \cup {w}, todo |-> todo]]
  /\ UNCHANGED <<disk, flock>>

\* Mutant: the handler takes the read lock only.
UpdateShared(r) ==
  /\ pc[r] = "have"
  /\ lock[lp[r]] = None
  /\ Begin(r)
  /\ via' = [via EXCEPT ![r] = lp[r]]
  /\ pc' = [pc EXCEPT ![r] = "commit"]
  /\ UNCHANGED <<loaded, data, stale, watch, event, lock, lp, missed, asker, held, between>>

\* updateProjectLocked, up to its Commit.
Update(r) ==
  /\ pc[r] = "have"
  /\ lock[lp[r]] = None
  /\ Begin(r)
  /\ lock' = [lock EXCEPT ![lp[r]] = r]
  /\ via' = [via EXCEPT ![r] = lp[r]]
  /\ pc' = [pc EXCEPT ![r] = "commit"]
  /\ UNCHANGED <<loaded, data, stale, watch, event, lp, missed, asker, held, between>>

\* The same in another process.
UpdateElsewhere(o) ==
  /\ Begin(o)
  /\ UNCHANGED <<entries, requests, history>>

Acquire(w) ==
  /\ job[w] # None
  /\ flock = None
  /\ flock' = w
  /\ UNCHANGED <<disk, job, wrote, entries, requests, history>>

\* One step of Commit: a file is renamed into place.
WriteFile(w) ==
  /\ flock = w /\ job[w].todo # <<>>
  /\ LET f == Head(job[w].todo)
         content == IF f = "yaml" THEN job[w].yaml ELSE {w}
     IN /\ disk' = [disk EXCEPT ![f] = content]
        /\ event' = event \cup {l \in Load : watch[l] = "on"}
        /\ missed' = missed \cup {l \in Load : watch[l] # "on" /\ data[l][f] # None}
        /\ held' = IF asker = None THEN held ELSE [held EXCEPT ![f] = @ \cup {content}]
        /\ between' = IF f = "yaml"
                      THEN [x \in Writer |-> IF job[x] # None /\ x # w
                                             THEN between[x] \cup {w} ELSE between[x]]
                      ELSE between
  /\ job' = [job EXCEPT ![w].todo = Tail(@)]
  /\ UNCHANGED <<flock, wrote, loaded, data, stale, watch, lock, requests, asker, via>>

\* The writer's Commit has returned: it lets go of the file lock, and a request
\* of the write lock.
Return(w) ==
  /\ job' = [job EXCEPT ![w] = None]
  /\ between' = [between EXCEPT ![w] = {}]
  /\ flock' = IF flock = w THEN None ELSE flock
  /\ IF w \in Req
     THEN /\ lock' = [lock EXCEPT ![lp[w]] = None]
          /\ pc' = [pc EXCEPT ![w] = "idle"]
          /\ lp' = [lp EXCEPT ![w] = None]
          /\ Ended(w)
     ELSE UNCHANGED <<lock, requests, asker, held>>
  /\ UNCHANGED <<disk, wrote, loaded, stale, watch, event, missed, via>>

\* It timed out on the file lock, or a step failed: the cached project is left
\* as it was.
Fail(w) ==
  /\ job[w] # None
  /\ flock = w => job[w].todo # <<>>
  /\ Return(w)
  /\ UNCHANGED data

\* The cached project is changed in place to what was written.
Finish(w) ==
  /\ flock = w /\ job[w].todo = <<>>
  /\ data' = IF w \in Req
             THEN [data EXCEPT ![lp[w]] = [f \in File |->
                     IF f = "yaml" THEN job[w].yaml
                     ELSE IF disk[f] = {w} THEN {w} ELSE data[lp[w]][f]]]
             ELSE data
  /\ Return(w)

-----------------------------------------------------------------------------
Get(r) == Hit(r) \/ Miss(r)
Loading(r) == ReadFile(r) \/ StartWatch(r) \/ Insert(r)
Commit(w) == Acquire(w) \/ WriteFile(w) \/ Fail(w) \/ Finish(w)

Next ==
  \/ \E r \in Req : Get(r) \/ Loading(r) \/ Read(r) \/ Update(r)
  \/ \E o \in Other : UpdateElsewhere(o)
  \/ \E w \in Writer : Commit(w)
  \/ \E l \in Load : MarkStale(l)
  \/ Evict

Spec == Init /\ [][Next]_vars

-----------------------------------------------------------------------------
(* Properties.                                                             *)

\* No watcher is leaked: an open one belongs to the entry in the cache or to a
\* load that is still to be inserted, however loads, evictions and
\* replacements race (evictLocked, loadAndInsert).
WatcherOwned ==
  \A l \in Load : watch[l] = "on" =>
    l = loaded \/ \E r \in Req : pc[r] = "insert" /\ lp[r] = l

\* Files the judged request is served that the disk has not held since it began.
Outdated ==
  IF asker # None /\ pc[asker] = "have"
  THEN {f \in File : data[lp[asker]][f] \notin held[f]}
  ELSE {}

\* A request that begins when nothing is in flight is served, file by file,
\* what the disk held at some moment since; the only outdated projects ever
\* served are those a change went by between the read of the file and the start
\* of the watcher, or that have none (SPEC.md "Any change (from any process)
\* emits an event [...]; the next call into that project reloads from disk").
OutdatedOnlyIfMissed == Outdated # {} => lp[asker] \in missed

\* Updates made under one LoadedProject never lose one another: when an update
\* drops another from project.yaml, then the file was rewritten, after it read
\* it, under another LoadedProject, of this process or of another
\* (updateProjectLocked under lp.Lock).
LostOnlyAcross ==
  [][\A w \in Writer :
       (WriteFile(w) /\ ~(disk["yaml"] \subseteq disk'["yaml"]))
         => \E x \in between[w] : via[x] = None \/ via[x] # via[w]]_vars
=============================================================================
