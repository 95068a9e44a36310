-------------------------- MODULE ProjectCacheProofs --------------------------
(***************************************************************************)
(* The project cache, for any number of requests, of updates elsewhere and *)
(* of LoadedProjects: type correctness, who owns a watcher, what updates   *)
(* can lose, and when a request is served an outdated project.             *)
(***************************************************************************)
EXTENDS ProjectCache, TLAPS

-----------------------------------------------------------------------------
(* The strengthening.                                                      *)

Unshared == {"yaml", "summary", "watch", "insert"}   \* the load is its own
Read1 == {"summary", "watch", "insert", "have", "commit"}
Read2 == {"watch", "insert", "have", "commit"}

\* What a request has in hand, and how far it is read.
Hands ==
  /\ \A r \in Req :
       /\ lp[r] = None <=> pc[r] = "idle"
       /\ pc[r] \in Read1 => data[lp[r]]["yaml"] # None
       /\ pc[r] \in Read2 => data[lp[r]]["summary"] # None
       /\ pc[r] \in Unshared =>
            /\ lp[r] # loaded
            /\ \A q \in Req : q # r => lp[q] # lp[r]
       /\ pc[r] \in Unshared => watch[lp[r]] # "closed"
       /\ pc[r] \in Unshared \ {"insert"} => watch[lp[r]] = "none"
  /\ loaded # None =>
       /\ watch[loaded] # "closed"
       /\ \A f \in File : data[loaded][f] # None

\* Whoever holds the file lock commits, and a request that commits holds the
\* Lock of its LoadedProject.
Locked ==
  /\ flock # None => job[flock] # None
  /\ \A r \in Req :
       /\ pc[r] = "commit" <=> job[r] # None
       /\ pc[r] = "commit" => lock[lp[r]] = r /\ via[r] = lp[r]
  /\ \A o \in Other : via[o] = None

\* Whoever rewrote project.yaml since an update read it did so elsewhere; and
\* if nobody did, all that is in the file is in the update.
Attributed ==
  \A w \in Writer :
    /\ job[w] # None => w \in wrote
    /\ job[w] = None => between[w] = {}
    /\ between[w] \subseteq wrote
    /\ \A x \in between[w] : via[x] = None \/ via[x] # via[w]
    /\ job[w] # None => disk["yaml"] \subseteq job[w].yaml \/ between[w] # {}

\* Only running watchers see events.
EventsWatched == \A l \in event : watch[l] = "on"

\* Where no change went by, none is pending, and no watcher was closed.
Settled(l) == l \notin missed \cup stale \cup event /\ watch[l] # "closed"

\* What was read of such a project is what the disk holds.
Coherent ==
  \A l \in Load, f \in File :
    Settled(l) /\ data[l][f] # None => data[l][f] = disk[f]

\* While a request is judged: what the disk holds was held since it began, and
\* so was all that a project holds which is not known to be outdated.
Judged ==
  asker # None =>
    /\ pc[asker] # "idle"
    /\ \A f \in File : disk[f] \in held[f]
    /\ \A l \in Load, f \in File :
         l \notin missed \cup stale /\ watch[l] # "closed" /\ data[l][f] # None
           => data[l][f] \in held[f]
    /\ \A f \in File : pc[asker] \in Read2 =>
         lp[asker] \in missed \/ data[lp[asker]][f] \in held[f]
    /\ pc[asker] = "summary" =>
         lp[asker] \in missed \/ data[lp[asker]]["yaml"] \in held["yaml"]

\* An update that has rewritten project.yaml.
Rewrote(w) == job[w] # None /\ job[w].todo \in {<<>>, <<"summary">>}

\* It was seen by the watcher of its LoadedProject, or went by it, and a judged
\* request began before it.
Written ==
  \A w \in Writer : Rewrote(w) =>
    /\ w \in Req => ~Settled(lp[w])
    /\ asker # None => job[w].yaml \in held["yaml"]

IInv ==
  /\ TypeOK
  /\ Hands
  /\ Locked
  /\ Attributed
  /\ WatcherOwned
  /\ EventsWatched
  /\ Coherent
  /\ Judged
  /\ Written

-----------------------------------------------------------------------------
(* Facts about the constants and the writers' jobs.                        *)

\* None is none of the things a variable may hold.
LEMMA NoneFacts ==
  /\ None \notin Req /\ None \notin Other /\ None \notin Writer /\ None \notin Load
  /\ \A content \in Content : content # None
  /\ \A j \in Job : j # None
BY NoneAssumption DEF Writer

\* What beginning an update does: the writer gets a job, built on what it has
\* read, and nothing on disk changes.
LEMMA BeginFacts ==
  ASSUME TypeOK, NEW w \in Writer, Begin(w)
  PROVE  /\ job' \in [Writer -> Job \cup {None}]
         /\ job'[w] # None
         /\ job'[w].yaml = disk["yaml"] \cup {w}
         /\ job'[w].todo \notin {<<>>, <<"summary">>}
         /\ \A x \in Writer : x # w => job'[x] = job[x]
         /\ w \notin wrote /\ wrote' = wrote \cup {w}
         /\ UNCHANGED <<disk, flock>>
<1>1. disk["yaml"] \cup {w} \in Content
  BY DEF TypeOK, File, Content
<1>2. PICK todo \in {<<"yaml">>, <<"yaml", "summary">>} :
        job' = [job EXCEPT ![w] = [yaml |-> disk["yaml"] \cup {w}, todo |-> todo]]
  BY DEF Begin
<1>3. [yaml |-> disk["yaml"] \cup {w}, todo |-> todo] \in Job
  BY <1>1 DEF Job
<1>4. todo \notin {<<>>, <<"summary">>}
  OBVIOUS
<1>5. job'[w] = [yaml |-> disk["yaml"] \cup {w}, todo |-> todo]
  BY <1>2 DEF TypeOK
<1>6. \A x \in Writer : x # w => job'[x] = job[x]
  BY <1>2 DEF TypeOK
<1>7. job' \in [Writer -> Job \cup {None}]
  BY <1>2, <1>3 DEF TypeOK
<1>8. job'[w] # None
  BY <1>3, <1>5, NoneFacts
<1>9. w \notin wrote /\ wrote' = wrote \cup {w} /\ UNCHANGED <<disk, flock>>
  BY DEF Begin
<1>. QED
  BY <1>4, <1>5, <1>6, <1>7, <1>8, <1>9

\* What one step of Commit does to its job.  If the file is not project.yaml,
\* project.yaml has been rewritten before.
LEMMA WriteFileFacts ==
  ASSUME TypeOK, Locked, NEW w \in Writer, WriteFile(w)
  PROVE  /\ job[w] \in Job /\ job[w] # None
         /\ job' \in [Writer -> Job \cup {None}]
         /\ job'[w] # None
         /\ job'[w].yaml = job[w].yaml
         /\ \A x \in Writer : x # w => job'[x] = job[x]
         /\ Head(job[w].todo) \in File
         /\ Head(job[w].todo) = "yaml" \/ Rewrote(w)
<1>1. job[w] \in Job /\ job[w] # None
  BY NoneFacts DEF TypeOK, Locked, WriteFile
<1>a. job[w].todo # <<>> /\ job' = [job EXCEPT ![w].todo = Tail(@)]
  BY DEF WriteFile
<1>2. /\ job[w].yaml \in Content
      /\ job[w].todo \in {<<"yaml">>, <<"summary">>, <<"yaml", "summary">>}
  BY <1>1, <1>a DEF Job
<1>3. job'[w] = [job[w] EXCEPT !.todo = Tail(@)]
  BY <1>a, <1>1 DEF TypeOK
<1>4. Tail(job[w].todo) \in {<<>>, <<"summary">>}
  <2>1. CASE job[w].todo = <<"yaml">>
    BY <2>1
  <2>2. CASE job[w].todo = <<"summary">>
    BY <2>2
  <2>3. CASE job[w].todo = <<"yaml", "summary">>
    BY <2>3
  <2>. QED
    BY <1>2, <2>1, <2>2, <2>3
<1>5. job'[w] \in Job /\ job'[w].yaml = job[w].yaml
  BY <1>1, <1>2, <1>3, <1>4 DEF Job
<1>6. /\ Head(job[w].todo) \in File
      /\ Head(job[w].todo) = "yaml" \/ Rewrote(w)
  BY <1>1, <1>2 DEF Rewrote, File
<1>7. \A x \in Writer : x # w => job'[x] = job[x]
  BY <1>a DEF TypeOK
<1>8. job' \in [Writer -> Job \cup {None}]
  BY <1>a, <1>5, <1>7 DEF TypeOK
<1>. QED
  BY <1>1, <1>5, <1>6, <1>7, <1>8, NoneFacts

-----------------------------------------------------------------------------
(* One lemma per action.                                                   *)

\* A request is served from the cache.
LEMMA HitStep ==
  ASSUME IInv, NEW r \in Req, Hit(r)
  PROVE  IInv'
<1>a. /\ TypeOK /\ Hands /\ Locked /\ Attributed /\ WatcherOwned
      /\ EventsWatched /\ Coherent /\ Judged /\ Written
  BY DEF IInv
<1>1. TypeOK'
  BY <1>a DEF Hit, Began, store, entries, TypeOK, PC
<1>2. Hands'
  BY <1>a DEF Hit, entries, TypeOK, Hands, Unshared, File
<1>3. Locked'
  BY <1>a DEF Hit, store, entries, Locked
<1>4. Attributed'
  BY <1>a DEF Hit, Began, Quiet, store, entries, Attributed
<1>5. WatcherOwned'
  BY <1>a DEF Hit, entries, WatcherOwned
<1>6. EventsWatched'
  BY <1>a DEF Hit, entries, EventsWatched
<1>7. Coherent'
  BY <1>a DEF Hit, store, entries, Coherent, Settled
<1>8. Judged'
  BY <1>a DEF Hit, Began, Quiet, store, entries, TypeOK, Hands, Coherent, Settled, Judged
<1>9. Written'
  BY <1>a DEF Hit, Began, Quiet, store, entries, Locked, Settled, Written, Rewrote
<1>. QED
  BY <1>1, <1>2, <1>3, <1>4, <1>5, <1>6, <1>7, <1>8, <1>9 DEF IInv

\* A load begins, on an object nobody refers to; a stale entry is evicted.
LEMMA MissStep ==
  ASSUME IInv, NEW r \in Req, Miss(r)
  PROVE  IInv'
<1>a. /\ TypeOK /\ Hands /\ Locked /\ Attributed /\ WatcherOwned
      /\ EventsWatched /\ Coherent /\ Judged /\ Written
  BY DEF IInv
<1>1. TypeOK'
  BY <1>a DEF Miss, Unused, Began, store, TypeOK, PC
<1>2. Hands'
  BY <1>a DEF Miss, Unused, TypeOK, Hands, Read1, Read2
<1>3. Locked'
  BY <1>a DEF Miss, Unused, store, Locked, Writer
<1>4. Attributed'
  BY <1>a, SMTT(30) DEF Miss, store, TypeOK, Attributed
<1>5. WatcherOwned'
  BY <1>a DEF Miss, WatcherOwned
<1>6. EventsWatched'
  BY <1>a DEF Miss, Unused, TypeOK, EventsWatched, WatcherOwned
<1>7. Coherent'
  BY <1>a DEF Miss, store, TypeOK, EventsWatched, Coherent, Settled
<1>8. Judged'
  BY <1>a DEF Miss, Unused, Began, Quiet, store, TypeOK, Read2, Coherent, Settled, Judged
<1>9. Written'
  BY <1>a DEF Miss, Unused, Began, Quiet, store, TypeOK, Hands, Locked, Settled,
         Written, Rewrote
<1>. QED
  BY <1>1, <1>2, <1>3, <1>4, <1>5, <1>6, <1>7, <1>8, <1>9 DEF IInv

\* The loader reads a file into an object only it refers to.
LEMMA ReadFileStep ==
  ASSUME IInv, NEW r \in Req, ReadFile(r)
  PROVE  IInv'
<1>a. /\ TypeOK /\ Hands /\ Locked /\ Attributed /\ WatcherOwned
      /\ EventsWatched /\ Coherent /\ Judged /\ Written
  BY DEF IInv
<1>1. TypeOK'
  BY <1>a DEF ReadFile, store, history, TypeOK, PC
<1>2. Hands'
  BY <1>a, NoneFacts DEF ReadFile, TypeOK, Hands, Unshared, Read1, Read2, File
<1>3. Locked'
  BY <1>a DEF ReadFile, File, store, history, Locked
<1>4. Attributed'
  BY <1>a DEF ReadFile, store, history, Attributed
<1>5. WatcherOwned'
  BY <1>a DEF ReadFile, File, WatcherOwned
<1>6. EventsWatched'
  BY <1>a DEF ReadFile, EventsWatched
<1>7. Coherent'
  BY <1>a DEF ReadFile, store, history, Coherent, Settled
<1>8. Judged'
  BY <1>a DEF ReadFile, store, history, TypeOK, Hands, Read2, Judged, File
<1>9. Written'
  BY <1>a DEF ReadFile, store, history, Settled, Written, Rewrote
<1>. QED
  BY <1>1, <1>2, <1>3, <1>4, <1>5, <1>6, <1>7, <1>8, <1>9 DEF IInv

\* The watcher starts: what went by before is in missed.
LEMMA StartWatchStep ==
  ASSUME IInv, NEW r \in Req, StartWatch(r)
  PROVE  IInv'
<1>a. /\ TypeOK /\ Hands /\ Locked /\ Attributed /\ WatcherOwned
      /\ EventsWatched /\ Coherent /\ Judged /\ Written
  BY DEF IInv
<1>1. TypeOK'
  BY <1>a DEF StartWatch, store, history, TypeOK, Hands, PC
<1>2. Hands'
  BY <1>a DEF StartWatch, TypeOK, Hands, Unshared, Read1, Read2
<1>3. Locked'
  BY <1>a DEF StartWatch, store, history, Locked
<1>4. Attributed'
  BY <1>a DEF StartWatch, store, history, Attributed
<1>5. WatcherOwned'
  BY <1>a DEF StartWatch, TypeOK, WatcherOwned
<1>6. EventsWatched'
  BY <1>a DEF StartWatch, EventsWatched, Hands, Unshared
<1>7. Coherent'
  BY <1>a DEF StartWatch, store, history, Hands, Unshared, Coherent, Settled
<1>8. Judged'
  BY <1>a DEF StartWatch, store, history, Hands, Unshared, Read2, Judged
<1>9. Written'
  BY <1>a DEF StartWatch, store, history, Hands, Unshared, Settled, Written, Rewrote
<1>. QED
  BY <1>1, <1>2, <1>3, <1>4, <1>5, <1>6, <1>7, <1>8, <1>9 DEF IInv

\* A load is inserted, or yields to a live entry.
LEMMA InsertStep ==
  ASSUME IInv, NEW r \in Req, Insert(r)
  PROVE  IInv'
<1>a. /\ TypeOK /\ Hands /\ Locked /\ Attributed /\ WatcherOwned
      /\ EventsWatched /\ Coherent /\ Judged /\ Written
  BY DEF IInv
<1>1. TypeOK'
  BY <1>a DEF Insert, CloseWatchers, store, history, TypeOK, PC
<1>2. Hands'
  BY <1>a DEF Insert, CloseWatchers, TypeOK, Hands, Unshared, Read1, Read2, File
<1>3. Locked'
  BY <1>a DEF Insert, store, history, TypeOK, Locked
<1>4. Attributed'
  BY <1>a, NoneFacts DEF Insert, store, history, Attributed
<1>5. WatcherOwned'
  <2>1. CASE loaded # None /\ loaded \notin stale
    <3>. SUFFICES ASSUME NEW l \in Load, watch'[l] = "on", l # loaded'
                  PROVE  \E q \in Req : pc'[q] = "insert" /\ lp'[q] = l
      BY DEF WatcherOwned
    <3>1. watch[l] = "on" /\ l # lp[r] /\ l # loaded
      BY <2>1, <1>a DEF Insert, CloseWatchers, TypeOK
    <3>2. PICK q \in Req : pc[q] = "insert" /\ lp[q] = l
      BY <3>1, <1>a DEF WatcherOwned
    <3>3. pc'[q] = "insert" /\ lp'[q] = l
      BY <2>1, <3>1, <3>2, <1>a DEF Insert, TypeOK
    <3>. QED
      BY <3>3
  <2>2. CASE ~(loaded # None /\ loaded \notin stale)
    BY <2>2, <1>a DEF Insert, CloseWatchers, TypeOK, WatcherOwned
  <2>. QED
    BY <2>1, <2>2
<1>6. EventsWatched'
  BY <1>a DEF Insert, CloseWatchers, TypeOK, EventsWatched
<1>7. Coherent'
  BY <1>a DEF Insert, CloseWatchers, store, history, EventsWatched, Coherent, Settled
<1>8. Judged'
  BY <1>a DEF Insert, CloseWatchers, store, history, TypeOK, Hands, Read2, Judged
<1>9. Written'
  BY <1>a, NoneFacts DEF Insert, CloseWatchers, store, history, TypeOK, Hands, Unshared,
         Locked, Settled, Written, Rewrote
<1>. QED
  BY <1>1, <1>2, <1>3, <1>4, <1>5, <1>6, <1>7, <1>8, <1>9 DEF IInv

\* A pending event becomes the Stale flag: what was not settled stays so.
LEMMA MarkStaleStep ==
  ASSUME IInv, NEW l \in Load, MarkStale(l)
  PROVE  IInv'
<1>a. /\ TypeOK /\ Hands /\ Locked /\ Attributed /\ WatcherOwned
      /\ EventsWatched /\ Coherent /\ Judged /\ Written
  BY DEF IInv
<1>1. TypeOK'
  BY <1>a DEF MarkStale, store, requests, history, TypeOK
<1>2. Hands'
  BY <1>a DEF MarkStale, requests, Hands
<1>3. Locked'
  BY <1>a DEF MarkStale, store, requests, history, Locked
<1>4. Attributed'
  BY <1>a DEF MarkStale, store, history, Attributed
<1>5. WatcherOwned'
  BY <1>a DEF MarkStale, requests, WatcherOwned
<1>6. EventsWatched'
  BY <1>a DEF MarkStale, EventsWatched
<1>7. Coherent'
  BY <1>a DEF MarkStale, store, history, Coherent, Settled
<1>8. Judged'
  BY <1>a DEF MarkStale, store, requests, history, Judged
<1>9. Written'
  BY <1>a DEF MarkStale, store, requests, history, Settled, Written, Rewrote
<1>. QED
  BY <1>1, <1>2, <1>3, <1>4, <1>5, <1>6, <1>7, <1>8, <1>9 DEF IInv

\* The entry leaves the cache and its watcher is closed.
LEMMA EvictStep ==
  ASSUME IInv, Evict
  PROVE  IInv'
<1>a. /\ TypeOK /\ Hands /\ Locked /\ Attributed /\ WatcherOwned
      /\ EventsWatched /\ Coherent /\ Judged /\ Written
  BY DEF IInv
<1>1. TypeOK'
  BY <1>a DEF Evict, CloseWatchers, store, requests, history, TypeOK
<1>2. Hands'
  BY <1>a DEF Evict, CloseWatchers, requests, TypeOK, Hands, Unshared
<1>3. Locked'
  BY <1>a DEF Evict, store, requests, history, Locked
<1>4. Attributed'
  BY <1>a DEF Evict, store, history, Attributed
<1>5. WatcherOwned'
  BY <1>a DEF Evict, CloseWatchers, requests, WatcherOwned
<1>6. EventsWatched'
  BY <1>a DEF Evict, CloseWatchers, TypeOK, EventsWatched
<1>7. Coherent'
  BY <1>a DEF Evict, CloseWatchers, store, history, EventsWatched, Coherent, Settled
<1>8. Judged'
  BY <1>a DEF Evict, CloseWatchers, store, requests, history, Judged
<1>9. Written'
  BY <1>a DEF Evict, CloseWatchers, store, requests, history, TypeOK, Hands, Locked,
         EventsWatched, Settled, Written, Rewrote
<1>. QED
  BY <1>1, <1>2, <1>3, <1>4, <1>5, <1>6, <1>7, <1>8, <1>9 DEF IInv

\* A read ends.
LEMMA ReadStep ==
  ASSUME IInv, NEW r \in Req, Read(r)
  PROVE  IInv'
<1>a. /\ TypeOK /\ Hands /\ Locked /\ Attributed /\ WatcherOwned
      /\ EventsWatched /\ Coherent /\ Judged /\ Written
  BY DEF IInv
<1>1. TypeOK'
  BY <1>a DEF Read, Ended, store, entries, TypeOK, PC
<1>2. Hands'
  BY <1>a DEF Read, entries, TypeOK, Hands, Unshared, Read1, Read2
<1>3. Locked'
  BY <1>a DEF Read, store, entries, Locked
<1>4. Attributed'
  BY <1>a DEF Read, store, Attributed
<1>5. WatcherOwned'
  BY <1>a DEF Read, entries, WatcherOwned
<1>6. EventsWatched'
  BY <1>a DEF Read, entries, EventsWatched
<1>7. Coherent'
  BY <1>a DEF Read, store, entries, Coherent, Settled
<1>8. Judged'
  BY <1>a DEF Read, Ended, store, entries, Judged
<1>9. Written'
  BY <1>a DEF Read, Ended, store, entries, Locked, Settled, Written, Rewrote
<1>. QED
  BY <1>1, <1>2, <1>3, <1>4, <1>5, <1>6, <1>7, <1>8, <1>9 DEF IInv

\* An update begins: it takes the Lock nobody holds.
LEMMA UpdateStep ==
  ASSUME IInv, NEW r \in Req, Update(r)
  PROVE  IInv'
<1>a. /\ TypeOK /\ Hands /\ Locked /\ Attributed /\ WatcherOwned
      /\ EventsWatched /\ Coherent /\ Judged /\ Written
  BY DEF IInv
<1>b. /\ pc[r] = "have" /\ lock[lp[r]] = None /\ lp[r] \in Load
      /\ lock' = [lock EXCEPT ![lp[r]] = r]
      /\ via' = [via EXCEPT ![r] = lp[r]]
      /\ pc' = [pc EXCEPT ![r] = "commit"]
      /\ UNCHANGED <<loaded, data, stale, watch, event, lp, missed, asker, held, between>>
  BY <1>a DEF Update, TypeOK, Hands
<1>c. /\ job'[r] # None /\ job'[r].yaml = disk["yaml"] \cup {r}
      /\ job'[r].todo \notin {<<>>, <<"summary">>}
      /\ \A x \in Writer : x # r => job'[x] = job[x]
      /\ r \notin wrote /\ wrote' = wrote \cup {r} /\ UNCHANGED <<disk, flock>>
      /\ job' \in [Writer -> Job \cup {None}]
      /\ r \in Writer
  BY <1>a, BeginFacts, ZenonT(30) DEF Update, Writer
<1>d. job[r] = None
  BY <1>a, <1>c DEF Attributed
<1>1. TypeOK'
  BY <1>a, <1>b, <1>c DEF TypeOK, PC
<1>2. Hands'
  BY <1>a, <1>b, <1>c DEF TypeOK, Hands, Unshared, Read1, Read2
<1>3. Locked'
  <2>1. flock' # None => job'[flock'] # None
    BY <1>a, <1>c DEF TypeOK, Locked
  <2>2. ASSUME NEW q \in Req
        PROVE  /\ pc'[q] = "commit" <=> job'[q] # None
               /\ pc'[q] = "commit" => lock'[lp'[q]] = q /\ via'[q] = lp'[q]
    <3>1. CASE q = r
      BY <3>1, <1>a, <1>b, <1>c DEF TypeOK
    <3>2. CASE q # r
      BY <3>2, <1>a, <1>b, <1>c, NoneFacts DEF TypeOK, Locked, Writer
    <3>. QED
      BY <3>1, <3>2
  <2>3. \A o \in Other : via'[o] = None
    BY <1>a, <1>b, ActorsAssumption DEF TypeOK, Locked, Writer
  <2>. QED
    BY <2>1, <2>2, <2>3 DEF Locked
<1>4. Attributed'
  <2>. SUFFICES ASSUME NEW w \in Writer
                PROVE  /\ job'[w] # None => w \in wrote'
                       /\ job'[w] = None => between'[w] = {}
                       /\ between'[w] \subseteq wrote'
                       /\ \A x \in between'[w] : via'[x] = None \/ via'[x] # via'[w]
                       /\ job'[w] # None =>
                            disk'["yaml"] \subseteq job'[w].yaml \/ between'[w] # {}
    BY DEF Attributed
  <2>1. CASE w = r
    BY <2>1, <1>a, <1>b, <1>c, <1>d DEF TypeOK, Attributed
  <2>2. CASE w # r
    BY <2>2, <1>a, <1>b, <1>c, <1>d DEF TypeOK, Attributed
  <2>. QED
    BY <2>1, <2>2
<1>5. WatcherOwned'
  BY <1>a, <1>b DEF TypeOK, WatcherOwned
<1>6. EventsWatched'
  BY <1>a, <1>b DEF EventsWatched
<1>7. Coherent'
  BY <1>a, <1>b, <1>c DEF Coherent, Settled
<1>8. Judged'
  BY <1>a, <1>b, <1>c DEF TypeOK, Judged, Read2
<1>9. Written'
  BY <1>a, <1>b, <1>c DEF Written, Rewrote, Settled
<1>. QED
  BY <1>1, <1>2, <1>3, <1>4, <1>5, <1>6, <1>7, <1>8, <1>9 DEF IInv

\* An update begins in another process.
LEMMA UpdateElsewhereStep ==
  ASSUME IInv, NEW o \in Other, UpdateElsewhere(o)
  PROVE  IInv'
<1>a. /\ TypeOK /\ Hands /\ Locked /\ Attributed /\ WatcherOwned
      /\ EventsWatched /\ Coherent /\ Judged /\ Written
  BY DEF IInv
<1>b. UNCHANGED <<entries, requests, history>>
  BY DEF UpdateElsewhere
<1>c. /\ job'[o] # None /\ job'[o].yaml = disk["yaml"] \cup {o}
      /\ job'[o].todo \notin {<<>>, <<"summary">>}
      /\ \A x \in Writer : x # o => job'[x] = job[x]
      /\ o \notin wrote /\ wrote' = wrote \cup {o} /\ UNCHANGED <<disk, flock>>
      /\ job' \in [Writer -> Job \cup {None}]
      /\ o \in Writer /\ o \notin Req
  BY <1>a, BeginFacts, ActorsAssumption DEF UpdateElsewhere, Writer
<1>d. job[o] = None
  BY <1>a, <1>c DEF Attributed
<1>1. TypeOK'
  BY <1>a, <1>b, <1>c DEF TypeOK, entries, requests, history
<1>2. Hands'
  BY <1>a, <1>b DEF Hands, entries, requests
<1>3. Locked'
  BY <1>a, <1>b, <1>c DEF TypeOK, Locked, Writer, entries, requests, history
<1>4. Attributed'
  BY <1>a, <1>b, <1>c, <1>d DEF Attributed, history
<1>5. WatcherOwned'
  BY <1>a, <1>b DEF WatcherOwned, entries, requests
<1>6. EventsWatched'
  BY <1>a, <1>b DEF EventsWatched, entries
<1>7. Coherent'
  BY <1>a, <1>b, <1>c DEF Coherent, Settled, entries, history
<1>8. Judged'
  BY <1>a, <1>b, <1>c DEF Judged, entries, requests, history
<1>9. Written'
  BY <1>a, <1>b, <1>c DEF Written, Rewrote, Settled, entries, requests, history
<1>. QED
  BY <1>1, <1>2, <1>3, <1>4, <1>5, <1>6, <1>7, <1>8, <1>9 DEF IInv

\* A writer gets the file lock.
LEMMA AcquireStep ==
  ASSUME IInv, NEW w \in Writer, Acquire(w)
  PROVE  IInv'
<1>a. /\ TypeOK /\ Hands /\ Locked /\ Attributed /\ WatcherOwned
      /\ EventsWatched /\ Coherent /\ Judged /\ Written
  BY DEF IInv
<1>1. TypeOK'
  BY <1>a DEF Acquire, entries, requests, history, TypeOK
<1>2. Hands'
  BY <1>a DEF Acquire, entries, requests, Hands
<1>3. Locked'
  BY <1>a DEF Acquire, entries, requests, history, Locked
<1>4. Attributed'
  BY <1>a DEF Acquire, history, Attributed
<1>5. WatcherOwned'
  BY <1>a DEF Acquire, entries, requests, WatcherOwned
<1>6. EventsWatched'
  BY <1>a DEF Acquire, entries, EventsWatched
<1>7. Coherent'
  BY <1>a DEF Acquire, entries, history, Coherent, Settled
<1>8. Judged'
  BY <1>a DEF Acquire, entries, requests, history, Judged
<1>9. Written'
  BY <1>a DEF Acquire, entries, requests, history, Settled, Written, Rewrote
<1>. QED
  BY <1>1, <1>2, <1>3, <1>4, <1>5, <1>6, <1>7, <1>8, <1>9 DEF IInv

\* A file is renamed into place: each object that has read it sees an event, or
\* has missed it; every other update under way is told who rewrote the file.
LEMMA WriteFileStep ==
  ASSUME IInv, NEW w \in Writer, WriteFile(w)
  PROVE  IInv'
<1>. DEFINE f == Head(job[w].todo)
            content == IF f = "yaml" THEN job[w].yaml ELSE {w}
<1>a. /\ TypeOK /\ Hands /\ Locked /\ Attributed /\ WatcherOwned
      /\ EventsWatched /\ Coherent /\ Judged /\ Written
  BY DEF IInv
<1>b. /\ flock = w
      /\ disk' = [disk EXCEPT ![f] = content]
      /\ event' = event \cup {l \in Load : watch[l] = "on"}
      /\ missed' = missed \cup {l \in Load : watch[l] # "on" /\ data[l][f] # None}
      /\ held' = IF asker = None THEN held ELSE [held EXCEPT ![f] = @ \cup {content}]
      /\ between' = IF f = "yaml"
                    THEN [x \in Writer |-> IF job[x] # None /\ x # w
                                           THEN between[x] \cup {w} ELSE between[x]]
                    ELSE between
      /\ UNCHANGED <<flock, wrote, loaded, data, stale, watch, lock, pc, lp, asker, via>>
  BY DEF WriteFile, requests
<1>c. /\ job[w] \in Job /\ job[w] # None
      /\ job' \in [Writer -> Job \cup {None}]
      /\ job'[w] # None /\ job'[w].yaml = job[w].yaml
      /\ \A x \in Writer : x # w => job'[x] = job[x]
      /\ f \in File /\ (f = "yaml" \/ Rewrote(w))
      /\ content \in Content
  <2>1. {w} \in Content /\ job[w].yaml \in Content
    BY <1>a, WriteFileFacts DEF Content, Job
  <2>. QED
    BY <1>a, <2>1, WriteFileFacts
<1>. HIDE DEF f, content
<1>1. TypeOK'
  BY <1>a, <1>b, <1>c DEF TypeOK
<1>2. Hands'
  BY <1>a, <1>b DEF Hands
<1>3. Locked'
  BY <1>a, <1>b, <1>c DEF TypeOK, Locked, Writer
<1>4. Attributed'
  <2>1. ASSUME NEW x \in Writer, job[x] # None, x # w
        PROVE  via[w] = None \/ via[w] # via[x]
    BY <2>1, <1>a, <1>c, NoneFacts DEF TypeOK, Locked, Writer
  <2>2. CASE f = "yaml"
    <3>1. disk'["yaml"] = job[w].yaml
      BY <2>2, <1>a, <1>b, <1>c DEF TypeOK, File, content
    <3>2. \A x \in Writer :
            between'[x] = IF job[x] # None /\ x # w THEN between[x] \cup {w} ELSE between[x]
      BY <2>2, <1>b
    <3>. QED
      BY <2>1, <3>1, <3>2, <1>a, <1>b, <1>c DEF Attributed
  <2>3. CASE f # "yaml"
    <3>1. disk'["yaml"] = disk["yaml"]
      BY <2>3, <1>a, <1>b DEF TypeOK, File
    <3>. QED
      BY <2>3, <3>1, <1>a, <1>b, <1>c DEF Attributed
  <2>. QED
    BY <2>2, <2>3
<1>5. WatcherOwned'
  BY <1>a, <1>b DEF WatcherOwned
<1>6. EventsWatched'
  BY <1>a, <1>b DEF EventsWatched
<1>7. Coherent'
  BY <1>a, <1>b DEF TypeOK, Coherent, Settled
<1>8. Judged'
  BY <1>a, <1>b, <1>c DEF TypeOK, Judged
<1>9. Written'
  <2>. SUFFICES ASSUME NEW x \in Writer, Rewrote(x)'
                PROVE  /\ x \in Req => ~Settled(lp[x])'
                       /\ asker' # None => job'[x].yaml \in held'["yaml"]
    BY DEF Written
  <2>1. CASE Rewrote(x)
    BY <2>1, <1>a, <1>b, <1>c DEF TypeOK, Written, Settled, File
  <2>2. CASE ~Rewrote(x)
    <3>1. x = w /\ f = "yaml"
      BY <2>2, <1>c DEF Rewrote
    <3>2. x \in Req => lp[x] \in Load /\ data[lp[x]]["yaml"] # None
      BY <3>1, <1>a, <1>c DEF TypeOK, Hands, Locked, Read1
    <3>3. x \in Req => ~Settled(lp[x])'
      BY <3>1, <3>2, <1>b DEF Settled
    <3>4. asker' # None => job'[x].yaml \in held'["yaml"]
      BY <3>1, <1>a, <1>b, <1>c DEF TypeOK, File, content
    <3>. QED
      BY <3>3, <3>4
  <2>. QED
    BY <2>1, <2>2
<1>. QED
  BY <1>1, <1>2, <1>3, <1>4, <1>5, <1>6, <1>7, <1>8, <1>9 DEF IInv

\* A writer gives up and leaves the cached project as it was.
LEMMA FailStep ==
  ASSUME IInv, NEW w \in Writer, Fail(w)
  PROVE  IInv'
<1>a. /\ TypeOK /\ Hands /\ Locked /\ Attributed /\ WatcherOwned
      /\ EventsWatched /\ Coherent /\ Judged /\ Written
  BY DEF IInv
<1>1. TypeOK'
  <2>1. job' \in [Writer -> Job \cup {None}] /\ between' \in [Writer -> SUBSET Writer]
    BY <1>a DEF Fail, Return, TypeOK
  <2>2. flock' \in Writer \cup {None}
    BY <1>a DEF Fail, Return, TypeOK
  <2>3. /\ lock' \in [Load -> Req \cup {None}]
        /\ pc' \in [Req -> PC] /\ lp' \in [Req -> Load \cup {None}]
        /\ asker' \in Req \cup {None} /\ held' \in [File -> SUBSET Content]
    BY <1>a DEF Fail, Return, Ended, requests, TypeOK, PC
  <2>4. UNCHANGED <<disk, wrote, loaded, data, stale, watch, event, missed, via>>
    BY DEF Fail, Return
  <2>. QED
    BY <1>a, <2>1, <2>2, <2>3, <2>4 DEF TypeOK
<1>2. Hands'
  BY <1>a DEF Fail, Return, requests, TypeOK, Hands, Unshared, Read1, Read2
<1>3. Locked'
  BY <1>a DEF Fail, Return, requests, TypeOK, Hands, Locked
<1>4. Attributed'
  BY <1>a DEF Fail, Return, TypeOK, Attributed
<1>5. WatcherOwned'
  BY <1>a DEF Fail, Return, Ended, requests, TypeOK, Locked, WatcherOwned
<1>6. EventsWatched'
  BY <1>a DEF Fail, Return, EventsWatched
<1>7. Coherent'
  BY <1>a DEF Fail, Return, Coherent, Settled
<1>8. Judged'
  BY <1>a DEF Fail, Return, Ended, requests, TypeOK, Judged
<1>9. Written'
  BY <1>a DEF Fail, Return, Ended, requests, TypeOK, Settled, Written, Rewrote
<1>. QED
  BY <1>1, <1>2, <1>3, <1>4, <1>5, <1>6, <1>7, <1>8, <1>9 DEF IInv

\* A writer returns, the cached project changed in place to what was written.
LEMMA FinishStep ==
  ASSUME IInv, NEW w \in Writer, Finish(w)
  PROVE  IInv'
<1>a. /\ TypeOK /\ Hands /\ Locked /\ Attributed /\ WatcherOwned
      /\ EventsWatched /\ Coherent /\ Judged /\ Written
  BY DEF IInv
<1>. DEFINE written == [f \in File |-> IF f = "yaml" THEN job[w].yaml
                                    ELSE IF disk[f] = {w} THEN {w} ELSE data[lp[w]][f]]
<1>b. /\ job[w] \in Job /\ job[w] # None /\ Rewrote(w)
      /\ job[w].yaml \in Content /\ {w} \in Content
      /\ w \in Req => pc[w] = "commit" /\ lp[w] \in Load
  BY <1>a, NoneFacts DEF Finish, TypeOK, Hands, Locked, Rewrote, Job, Content
<1>c. /\ w \notin Req => data' = data
      /\ w \in Req =>
           /\ data' = [data EXCEPT ![lp[w]] = written]
           /\ written \in [File -> Content \cup {None}]
           /\ \A f \in File :
                /\ written[f] \in Content
                /\ \/ f = "yaml" /\ written[f] = job[w].yaml
                   \/ written[f] \in {disk[f], data[lp[w]][f]}
  <2>1. w \notin Req => data' = data
    BY DEF Finish
  <2>2. w \in Req => data' = [data EXCEPT ![lp[w]] = written]
    BY DEF Finish
  <2>3. w \in Req => data[lp[w]] \in [File -> Content \cup {None}] /\ data[lp[w]]["summary"] # None
    BY <1>a, <1>b DEF TypeOK, Hands, Read2
  <2>4. w \in Req => written \in [File -> Content \cup {None}]
    BY <1>b, <2>3 DEF File
  <2>5. ASSUME w \in Req, NEW f \in File
        PROVE  /\ written[f] \in Content
               /\ \/ f = "yaml" /\ written[f] = job[w].yaml
                  \/ written[f] \in {disk[f], data[lp[w]][f]}
    BY <1>b, <2>3, <2>5 DEF File
  <2>. QED
    BY <2>1, <2>2, <2>4, <2>5
<1>. HIDE DEF written
<1>d. \A l \in Load, f \in File :
        /\ data'[l][f] = None <=> data[l][f] = None
        /\ \/ data'[l][f] = data[l][f]
           \/ asker # None => data'[l][f] \in held[f]
  <2>. SUFFICES ASSUME NEW l \in Load, NEW f \in File
                PROVE  /\ data'[l][f] = None <=> data[l][f] = None
                       /\ \/ data'[l][f] = data[l][f]
                          \/ asker # None => data'[l][f] \in held[f]
    OBVIOUS
  <2>1. CASE w \in Req /\ l = lp[w]
    <3>1. data'[l] = written
      BY <2>1, <1>a, <1>b, <1>c DEF TypeOK
    <3>2. data[l][f] # None
      BY <2>1, <1>a, <1>b DEF Hands, Read1, Read2, File
    <3>3. asker # None => disk[f] \in held[f] /\ job[w].yaml \in held["yaml"]
      BY <1>a, <1>b DEF Judged, Written
    <3>. QED
      BY <2>1, <3>1, <3>2, <3>3, <1>c, NoneFacts
  <2>2. CASE ~(w \in Req /\ l = lp[w])
    BY <2>2, <1>a, <1>c DEF TypeOK
  <2>. QED
    BY <2>1, <2>2
<1>e. /\ asker' # None => asker' = asker /\ held' = held /\ asker # w
      /\ \A q \in Req : q # w => pc'[q] = pc[q] /\ lp'[q] = lp[q]
      /\ w \in Req => pc'[w] = "idle" /\ lp'[w] = None
      /\ UNCHANGED <<disk, loaded, stale, watch, event, missed>>
  BY <1>a DEF Finish, Return, Ended, requests, TypeOK
<1>1. TypeOK'
  <2>1. job' \in [Writer -> Job \cup {None}] /\ between' \in [Writer -> SUBSET Writer]
    BY <1>a DEF Finish, Return, TypeOK
  <2>2. flock' \in Writer \cup {None}
    BY <1>a DEF Finish, Return, TypeOK
  <2>3. /\ lock' \in [Load -> Req \cup {None}]
        /\ pc' \in [Req -> PC] /\ lp' \in [Req -> Load \cup {None}]
        /\ asker' \in Req \cup {None} /\ held' \in [File -> SUBSET Content]
    BY <1>a DEF Finish, Return, Ended, requests, TypeOK, PC
  <2>4. data' \in [Load -> [File -> Content \cup {None}]]
    BY <1>a, <1>b, <1>c DEF TypeOK
  <2>5. UNCHANGED <<disk, wrote, loaded, stale, watch, event, missed, via>>
    BY DEF Finish, Return
  <2>. QED
    BY <1>a, <2>4, <2>5, <2>1, <2>2, <2>3 DEF TypeOK
<1>2. Hands'
  BY <1>a, <1>d, <1>e, NoneFacts DEF TypeOK, Hands, Unshared, Read1, Read2, File
<1>3. Locked'
  BY <1>a, NoneFacts DEF Finish, Return, requests, TypeOK, Hands, Locked
<1>4. Attributed'
  BY <1>a, NoneFacts DEF Finish, Return, TypeOK, Attributed
<1>5. WatcherOwned'
  BY <1>a, NoneFacts DEF Finish, Return, requests, TypeOK, Locked, WatcherOwned
<1>6. EventsWatched'
  BY <1>a DEF Finish, Return, EventsWatched
<1>7. Coherent'
  BY <1>a, NoneFacts DEF Finish, Return, Locked, Coherent, Settled, Written, Rewrote
<1>8. Judged'
  BY <1>a, <1>d, <1>e, NoneFacts DEF TypeOK, Hands, Judged, Read2, File
<1>9. Written'
  BY <1>a DEF Finish, Return, Ended, requests, TypeOK, Settled, Written, Rewrote
<1>. QED
  BY <1>1, <1>2, <1>3, <1>4, <1>5, <1>6, <1>7, <1>8, <1>9 DEF IInv

\* A stutter.
LEMMA InvStutter ==
  ASSUME IInv, UNCHANGED vars
  PROVE  IInv'
BY DEF IInv, TypeOK, Hands, Locked, Attributed, WatcherOwned, EventsWatched,
       Coherent, Settled, Judged, Written, Rewrote, vars, store, entries, requests, history

\* The initial states.
LEMMA InvInit == Init => IInv
<1>. SUFFICES ASSUME Init PROVE IInv
  OBVIOUS
<1>. USE NoneFacts DEF Init
<1>1. TypeOK
  BY DEF TypeOK, PC, File, Content
<1>2. Hands
  BY DEF Hands, Unshared, Read1, Read2
<1>3. Locked /\ Attributed
  BY DEF Locked, Attributed, Writer
<1>4. WatcherOwned /\ EventsWatched
  BY DEF WatcherOwned, EventsWatched
<1>5. Coherent /\ Judged /\ Written
  BY DEF Coherent, Judged, Written, Rewrote
<1>. QED
  BY <1>1, <1>2, <1>3, <1>4, <1>5 DEF IInv

\* Every step.
LEMMA InvStep ==
  ASSUME IInv, [Next]_vars
  PROVE  IInv'
<1>1. ASSUME NEW r \in Req, Get(r) PROVE IInv'
  BY <1>1, HitStep, MissStep DEF Get
<1>2. ASSUME NEW r \in Req, Loading(r) PROVE IInv'
  BY <1>2, ReadFileStep, StartWatchStep, InsertStep DEF Loading
<1>3. ASSUME NEW r \in Req, Read(r) PROVE IInv'
  BY <1>3, ReadStep
<1>4. ASSUME NEW r \in Req, Update(r) PROVE IInv'
  BY <1>4, UpdateStep
<1>5. ASSUME NEW o \in Other, UpdateElsewhere(o) PROVE IInv'
  BY <1>5, UpdateElsewhereStep
<1>6. ASSUME NEW w \in Writer, Commit(w) PROVE IInv'
  BY <1>6, AcquireStep, WriteFileStep, FailStep, FinishStep DEF Commit
<1>7. ASSUME NEW l \in Load, MarkStale(l) PROVE IInv'
  BY <1>7, MarkStaleStep
<1>8. CASE Evict
  BY <1>8, EvictStep
<1>9. CASE UNCHANGED vars
  BY <1>9, InvStutter
<1>. QED
  BY <1>1, <1>2, <1>3, <1>4, <1>5, <1>6, <1>7, <1>8, <1>9 DEF Next

-----------------------------------------------------------------------------
\* The strengthening holds in every reachable state.
THEOREM Invariance == Spec => []IInv
<1>1. IInv /\ [Next]_vars => IInv'
  BY InvStep
<1>. QED
  BY InvInit, <1>1, PTL DEF Spec

\* The cache and all that works on it keep their types.
THEOREM CacheTypeCorrect == Spec => []TypeOK
<1>1. IInv => TypeOK
  BY DEF IInv
<1>. QED
  BY Invariance, <1>1, PTL

\* No watcher is leaked, whatever loads, evictions and replacements race
\* (evictLocked, loadAndInsert).
THEOREM NoWatcherLeaks == Spec => []WatcherOwned
<1>1. IInv => WatcherOwned
  BY DEF IInv
<1>. QED
  BY Invariance, <1>1, PTL

\* A request that begins when nothing is in flight is served an outdated project
\* only if a change went by unwatched between its read and the start of its
\* watcher, or no watcher runs (loadFromDisk, watchLoop).
THEOREM OutdatedIsMissed == Spec => []OutdatedOnlyIfMissed
<1>1. IInv => OutdatedOnlyIfMissed
  BY DEF IInv, Judged, OutdatedOnlyIfMissed, Outdated, Read2
<1>. QED
  BY Invariance, <1>1, PTL

\* Updates made under the Lock of one LoadedProject never lose one another
\* (updateProjectLocked).
THEOREM LockKeepsUpdates == Spec => LostOnlyAcross
<1>. DEFINE Lost == \A w \in Writer :
              (WriteFile(w) /\ ~(disk["yaml"] \subseteq disk'["yaml"]))
                => \E x \in between[w] : via[x] = None \/ via[x] # via[w]
<1>1. IInv /\ [Next]_vars => [Lost]_vars
  <2>. SUFFICES ASSUME IInv, NEW w \in Writer, WriteFile(w),
                       ~(disk["yaml"] \subseteq disk'["yaml"])
                PROVE  \E x \in between[w] : via[x] = None \/ via[x] # via[w]
    OBVIOUS
  <2>1. TypeOK /\ Locked /\ Attributed
    BY DEF IInv
  <2>2. job[w] # None /\ Head(job[w].todo) \in File
    BY <2>1, WriteFileFacts
  <2>3. ~(disk["yaml"] \subseteq job[w].yaml)
    BY <2>1, <2>2 DEF WriteFile, TypeOK, File
  <2>4. PICK x \in between[w] : TRUE
    BY <2>1, <2>2, <2>3 DEF Attributed
  <2>. QED
    BY <2>1, <2>4 DEF Attributed
<1>. QED
  BY Invariance, <1>1, PTL DEF Spec, LostOnlyAcross
=============================================================================
