-------------------------------- MODULE Mounts --------------------------------
(***************************************************************************)
(* The project mounts of one service (internal/svc/service.go, projects.go *)
(* and registry.go): projectMounts maps a slug to the mount of a project,  *)
(* of which only Limit keep a store and an embed worker, least recently    *)
(* used first out; registry.yaml lists the repositories to mount again     *)
(* after a restart; project.yaml in each repository says what is there.    *)
(*                                                                         *)
(* mountsMu is held from the lookup of a mount to the end of the save of   *)
(* the registry when a project is registered; a delete drops the mount     *)
(* under it and saves the registry after.  A section under the mutex that  *)
(* touches no file another actor writes is one step.  A mount is an object *)
(* that goroutines keep a pointer to: one of a pool here, reused when      *)
(* nothing refers to it and no worker runs in it.                          *)
(***************************************************************************)
EXTENDS Naturals, FiniteSets

CONSTANTS
  Repo,
  Default,   \* the repository whose data dir is cfg.DataDir, or Nil
  Slug,
  Req,       \* requests in flight
  Limit,     \* cfg.MaxLoadedProjects
  Mount,     \* the pool of ProjectMounts (bound: those in use at a time)
  MaxId,     \* bound: projects ever created
  MaxCall,   \* bound: calls that change mounts, restarts included
  Nil

ASSUME Constants ==
  /\ IsFiniteSet(Slug)
  /\ Limit \in Nat \ {0} /\ MaxId \in Nat /\ MaxCall \in Nat
  /\ Default \in Repo \cup {Nil} /\ Nil \notin Repo
  /\ \A m \in Mount : m \notin {Nil, "none", "pulling"}
  /\ \A c \in Req : c # Nil

VARIABLES
  disk,      \* project.yaml of each repository, or Nil
  registry,  \* the paths in registry.yaml
  mounts,    \* projectMounts: the mount of each slug, or Nil
  mount,     \* what each ProjectMount holds
  older,     \* the pairs of mounted slugs, the one touched earlier first
  mu,        \* the request holding mountsMu across steps, or Nil
  req,       \* what each request is doing
  pull,      \* the model pull of each slug: none, pulling, or about to swap
  up,        \* "boot", "up", "closing" or "closed"
  todo,      \* what boot has yet to mount
  ids,       \* projects created so far
  calls,     \* calls made so far, restarts included
  served,    \* repositories whose project the service has mounted since it was
             \* started (history)
  recorded,  \* those whose registration was saved (history)
  contested, \* those registered while a delete that drops their mount or their
             \* path, or a save from before, was under way, or whose slug the
             \* project of another repository has (history)
  loose      \* why the worker of a mount may run outside of the table, or
             \* without a store, or after Close (history)

shared == <<disk, registry>>
table == <<mounts, mount, older>>
service == <<up, todo>>
bound == <<ids, calls>>
history == <<served, recorded, contested, loose>>
mountsVars == <<disk, registry, mounts, mount, older, mu, req, pull, up, todo,
          ids, calls, served, recorded, contested, loose>>

Project == [slug : Slug, id : 1..MaxId]
Held == [repo : Repo, id : 1..MaxId, store : BOOLEAN, worker : BOOLEAN]

\* Nil is no record.
ASSUME Absence == Nil \notin Project \cup Held

NoCall == [at |-> "idle"]
Creating == [at : {"commit"}, repo : Repo, slug : Slug]
Registering == [at : {"read"}, repo : Repo]
               \cup [at : {"insert"}, repo : Repo, rec : Project]
               \cup [at : {"load"}, repo : Repo, add : BOOLEAN]
               \cup [at : {"save"}, repo : Repo, add : BOOLEAN,
                     paths : SUBSET Repo]
Deleting == [at : {"remove", "drop"}, repo : Repo, slug : Slug]
Reembedding == [at : {"swap"}, m : Mount]

\* The project of the mount was deleted, its model was changed while it was
\* evicted, its worker was started after Close had stopped the others.
Reason == {"deleted", "evicted", "closed"}

MountsTypeOK ==
  /\ disk \in [Repo -> Project \cup {Nil}]
  /\ registry \in SUBSET Repo
  /\ mounts \in [Slug -> Mount \cup {Nil}]
  /\ mount \in [Mount -> Held \cup {Nil}]
  /\ older \in SUBSET (Slug \X Slug)
  /\ mu \in Req \cup {Nil}
  /\ req \in [Req -> {NoCall} \cup Creating \cup Registering \cup Deleting
                     \cup Reembedding]
  /\ pull \in [Slug -> {"none", "pulling"} \cup Mount]
  /\ up \in {"boot", "up", "closing", "closed"}
  /\ todo \in SUBSET Repo
  /\ ids \in 0..MaxId /\ calls \in 0..MaxCall
  /\ served \in SUBSET Repo /\ recorded \in SUBSET Repo
  /\ contested \in SUBSET Repo
  /\ loose \in [Mount -> SUBSET Reason]

MountsInit ==
  /\ disk = [r \in Repo |-> Nil] /\ registry = {}
  /\ mounts = [s \in Slug |-> Nil] /\ mount = [m \in Mount |-> Nil]
  /\ older = {} /\ mu = Nil
  /\ req = [c \in Req |-> NoCall]
  /\ pull = [s \in Slug |-> "none"]
  /\ up = "up" /\ todo = {} /\ ids = 0 /\ calls = 0
  /\ served = {} /\ recorded = {} /\ contested = {}
  /\ loose = [m \in Mount |-> {}]

Goto(c, call) == req' = [req EXCEPT ![c] = call]
Stop(c) == Goto(c, NoCall)

\* A request comes in.
Call(c) ==
  /\ up = "up" /\ req[c] = NoCall
  /\ calls < MaxCall /\ calls' = calls + 1

-----------------------------------------------------------------------------
(* The table of mounts.                                                    *)

Free == {m \in Mount :
           /\ \A s \in Slug : mounts[s] # m /\ pull[s] # m
           /\ mount[m] # Nil => ~ mount[m].worker
           /\ \A c \in Req : req[c].at = "swap" => req[c].m # m}

Without(s) == {p \in older : s \notin {p[1], p[2]}}
Touch(s) ==
  Without(s) \cup {<<x, s>> : x \in {y \in Slug \ {s} : mounts[y] # Nil}}

Resident(table1, held) ==
  {s \in Slug : table1[s] # Nil /\ held[table1[s]].store}

\* Mutant: the count stops one short.
VictimsShort(table1, held, order, keep) ==
  LET resident == Resident(table1, held)
      Before(s) == {x \in resident \ {keep} : <<x, s>> \in order}
  IN {s \in resident \ {keep} :
        Limit + Cardinality(Before(s)) + 1 < Cardinality(resident)}

\* maybeEvictLocked: the first of the residents in the order of use, as many as
\* there are too many; keep has just been touched and stays.
Victims(table1, held, order, keep) ==
  LET resident == Resident(table1, held)
      Before(s) == {x \in resident \ {keep} : <<x, s>> \in order}
  IN {s \in resident \ {keep} :
        Limit + Cardinality(Before(s)) < Cardinality(resident)}

\* The mounts once they are evicted: no store, no worker, the path kept.
Evicted(table1, held, order, keep) ==
  LET victims == {table1[s] : s \in Victims(table1, held, order, keep)}
  IN [m \in Mount |->
        IF m \in victims
        THEN [held[m] EXCEPT !.store = FALSE, !.worker = FALSE]
        ELSE held[m]]

Opened(r, id) == [repo |-> r, id |-> id, store |-> TRUE, worker |-> TRUE]

\* What is said of a worker that is started now.
Late == IF up = "closed" THEN {"closed"} ELSE {}

\* A mount that is in the table is used: it is opened again if it was evicted.
UseMount(s) ==
  LET m == mounts[s]
      held == [mount EXCEPT ![m].store = TRUE,
                            ![m].worker = mount[m].worker \/ ~ mount[m].store]
  IN /\ older' = Touch(s)
     /\ mount' = Evicted(mounts, held, Touch(s), s)
     /\ loose' = [loose EXCEPT ![m] =
                    (@ \ {"evicted"}) \cup (IF mount[m].store \/ mount[m].worker
                                           THEN {} ELSE Late)]
     /\ UNCHANGED mounts

DefaultHosts(s) ==
  /\ Default # Nil
  /\ disk[Default] # Nil /\ disk[Default].slug = s

\* ResolveProjectStore: the project of the default store is mounted on demand,
\* and nothing is evicted for it.
ResolveProjectStore(s) ==
  \/ mounts[s] # Nil /\ UseMount(s)
  \/ /\ mounts[s] = Nil /\ DefaultHosts(s)
     /\ \E m \in Free :
          /\ mounts' = [mounts EXCEPT ![s] = m]
          /\ mount' = [mount EXCEPT ![m] = Opened(Default, disk[Default].id)]
          /\ loose' = [loose EXCEPT ![m] = Late]
     /\ older' = Touch(s)

\* A request that needs the project's store, or the cache that does.
Lookup(s) ==
  /\ up = "up" /\ mu = Nil
  /\ ResolveProjectStore(s)
  /\ UNCHANGED <<shared, mu, req, pull, service, bound, served, recorded,
                 contested>>

\* cacheResolveStore: a resident mount is touched and no more.
CacheResolve(s) ==
  /\ up = "up" /\ mu = Nil
  /\ mounts[s] # Nil /\ mount[mounts[s]].store
  /\ older' = Touch(s)
  /\ UNCHANGED <<shared, mounts, mount, mu, req, pull, service, bound,
                 history>>

-----------------------------------------------------------------------------
(* Creating and registering a project.                                     *)

\* createProjectImpl: the data dir holds no project yet.
Create(c, r, s) ==
  /\ Call(c)
  /\ disk[r] = Nil
  /\ Goto(c, [at |-> "commit", repo |-> r, slug |-> s])
  /\ UNCHANGED <<shared, table, mu, pull, service, ids, history>>

\* The files are written under the global lock of the data dir.
CommitCreate(c) ==
  /\ req[c].at = "commit"
  /\ ids < MaxId /\ ids' = ids + 1
  /\ disk' = [disk EXCEPT ![req[c].repo] =
                [slug |-> req[c].slug, id |-> ids + 1]]
  /\ served' = served \ {req[c].repo}
  /\ recorded' = recorded \ {req[c].repo}
  /\ LET r == req[c].repo
         same == {q \in Repo \ {r} :
                    disk[q] # Nil /\ disk[q].slug = req[c].slug}
     IN contested' = IF same = {} THEN contested
                     ELSE contested \cup same \cup {r}
  /\ Goto(c, [at |-> "read", repo |-> req[c].repo])
  /\ UNCHANGED <<registry, table, mu, pull, service, calls, loose>>

\* RegisterProjectMount, called by register_agent.
Register(c, r) ==
  /\ Call(c)
  /\ Goto(c, [at |-> "read", repo |-> r])
  /\ UNCHANGED <<shared, table, mu, pull, service, ids, history>>

\* project.yaml is read before the mutex is taken.
ReadProject(c) ==
  /\ req[c].at = "read"
  /\ LET rec == disk[req[c].repo]
     IN IF rec = Nil THEN Stop(c)
        ELSE Goto(c, [at |-> "insert", repo |-> req[c].repo, rec |-> rec])
  /\ UNCHANGED <<shared, table, mu, pull, service, bound, history>>

Same(m, r, rec) == mount[m].repo = r /\ mount[m].id = rec.id

\* The repository cannot be read, or its store not be built: the registration
\* fails, and at boot the project is left out with a warning.
RegisterFails(c) ==
  /\ \/ req[c].at = "read"
     \/ /\ req[c].at = "insert" /\ mu = Nil
        /\ LET s == req[c].rec.slug
           IN mounts[s] # Nil => Same(mounts[s], req[c].repo, req[c].rec)
                                 /\ ~ mount[mounts[s]].store
  /\ served' = IF up = "boot" THEN served \ {req[c].repo} ELSE served
  /\ Stop(c)
  /\ UNCHANGED <<shared, table, mu, pull, service, bound, recorded, contested, loose>>

\* A delete under way will drop the mount of slug s, or one of repository r, or
\* take r's path out of the registry.
Undoes(c, r, s) ==
  \/ /\ req[c].at \in {"remove", "drop"}
     /\ LET m == mounts[req[c].slug]
        IN req[c].slug = s \/ (m # Nil /\ mount[m].repo = r)
  \/ req[c].at \in {"load", "save"} /\ ~ req[c].add /\ req[c].repo = r

\* The mount is found or made, and the registry will be saved under the mutex.
\* A missing model may be pulled in the background for a new mount.
Insert(c) ==
  /\ req[c].at = "insert" /\ mu = Nil
  /\ LET r == req[c].repo
         rec == req[c].rec
         s == rec.slug
     IN /\ \/ /\ mounts[s] # Nil /\ Same(mounts[s], r, rec)
              /\ \/ /\ mount[mounts[s]].store
                    /\ older' = Touch(s)
                    /\ UNCHANGED <<mounts, mount, loose>>
                 \/ ~ mount[mounts[s]].store /\ UseMount(s)
              /\ UNCHANGED pull
           \/ /\ mounts[s] = Nil
              /\ \E m \in Free :
                   LET table1 == [mounts EXCEPT ![s] = m]
                       held == [mount EXCEPT ![m] = Opened(r, rec.id)]
                   IN /\ mounts' = table1
                      /\ mount' = Evicted(table1, held, Touch(s), s)
                      /\ loose' = [loose EXCEPT ![m] = Late]
              /\ older' = Touch(s)
              /\ \/ UNCHANGED pull
                 \/ pull[s] = "none" /\ pull' = [pull EXCEPT ![s] = "pulling"]
        /\ mu' = c
        /\ Goto(c, [at |-> "load", repo |-> r, add |-> TRUE])
        /\ contested' = IF \E d \in Req \ {c} : Undoes(d, r, s)
                         THEN contested \cup {r} ELSE contested
  /\ UNCHANGED <<shared, service, bound, served, recorded>>

\* Another repository, or another project, has the slug.
InsertRefused(c) ==
  /\ req[c].at = "insert" /\ mu = Nil
  /\ LET s == req[c].rec.slug
     IN mounts[s] # Nil /\ ~ Same(mounts[s], req[c].repo, req[c].rec)
  /\ Stop(c)
  /\ UNCHANGED <<shared, table, mu, pull, service, bound, history>>

\* The slug's mount is of the project that is in the repository now.
Mounted(s, r) ==
  LET m == mounts[s]
  IN /\ disk[r] # Nil /\ disk[r].slug = s
     /\ m # Nil /\ mount[m].repo = r /\ mount[m].id = disk[r].id

\* A call that loaded the registry when r was not in it will save it without.
Overwrites(c, r) == req[c].at = "save" /\ r \notin req[c].paths
ContestSave(c) ==
  contested' = IF req[c].add /\ \E d \in Req \ {c} : Overwrites(d, req[c].repo)
               THEN contested \cup {req[c].repo} ELSE contested

\* loadMountRegistry, with the mutex when a mount is added.
LoadRegistry(c) ==
  /\ req[c].at = "load"
  /\ ContestSave(c)
  /\ Goto(c, [at |-> "save", repo |-> req[c].repo, add |-> req[c].add,
              paths |-> registry])
  /\ UNCHANGED <<shared, table, mu, pull, service, bound, served, recorded, loose>>

\* The project that is registered is mounted, and is the one in the repository.
Registers(c) == req[c].add /\ \E s \in Slug : Mounted(s, req[c].repo)
Serve(c) ==
  served' = IF Registers(c) THEN served \cup {req[c].repo} ELSE served

\* saveMountRegistry, unless the path is there already, or gone already.
SaveRegistry(c) ==
  /\ req[c].at = "save"
  /\ LET r == req[c].repo
         paths == req[c].paths
     IN /\ registry' = IF req[c].add
                       THEN IF r \in paths THEN registry ELSE paths \cup {r}
                       ELSE IF r \in paths THEN paths \ {r} ELSE registry
        /\ recorded' = IF Registers(c) THEN recorded \cup {r} ELSE recorded
  /\ Serve(c)
  /\ ContestSave(c)
  /\ mu' = IF mu = c THEN Nil ELSE mu
  /\ Stop(c)
  /\ UNCHANGED <<disk, table, pull, service, bound, loose>>

\* persistMountRegistry logs that the registry could not be read or written,
\* and the call succeeds.
SaveFails(c) ==
  /\ req[c].at \in {"load", "save"}
  /\ Serve(c)
  /\ mu' = IF mu = c THEN Nil ELSE mu
  /\ Stop(c)
  /\ UNCHANGED <<shared, table, pull, service, bound, recorded, contested, loose>>

-----------------------------------------------------------------------------
(* Deleting a project.                                                     *)

Delete(c, s) ==
  /\ Call(c)
  /\ mu = Nil
  /\ ResolveProjectStore(s)
  /\ Goto(c, [at |-> "remove", repo |-> mount'[mounts'[s]].repo, slug |-> s])
  /\ UNCHANGED <<shared, mu, pull, service, ids, served, recorded, contested>>

\* The project's files are removed from the store resolved before.
RemoveFiles(c) ==
  /\ req[c].at = "remove"
  /\ disk' = [disk EXCEPT ![req[c].repo] = Nil]
  /\ served' = served \ {req[c].repo}
  /\ recorded' = recorded \ {req[c].repo}
  /\ contested' = contested \ {req[c].repo}
  /\ Goto(c, [req[c] EXCEPT !.at = "drop"])
  /\ UNCHANGED <<registry, table, mu, pull, service, bound, loose>>

\* The slug's mount is dropped with its worker running; the registry is saved
\* without the mutex.
DropMount(c) ==
  /\ req[c].at = "drop" /\ mu = Nil
  /\ LET s == req[c].slug
         m == mounts[s]
     IN IF m = Nil
        THEN Stop(c) /\ UNCHANGED <<table, loose>>
        ELSE /\ mounts' = [mounts EXCEPT ![s] = Nil]
             /\ older' = Without(s)
             /\ loose' = [loose EXCEPT ![m] = @ \cup {"deleted"}]
             /\ Goto(c, [at |-> "load", repo |-> mount[m].repo, add |-> FALSE])
             /\ UNCHANGED mount
  /\ UNCHANGED <<shared, mu, pull, service, bound, served, recorded, contested>>

-----------------------------------------------------------------------------
(* Changing the model of a mount.                                          *)

\* ReembedProject finds the mount; it will lock the table again to rebuild it.
Reembed(c, s) ==
  /\ Call(c)
  /\ mu = Nil
  /\ ResolveProjectStore(s)
  /\ disk[mount'[mounts'[s]].repo] # Nil
  /\ Goto(c, [at |-> "swap", m |-> mounts'[s]])
  /\ UNCHANGED <<shared, mu, pull, service, ids, served, recorded, contested>>

\* rebuildMountEmbedAssets: the old worker is stopped, a new one started.
Rebuild(m) ==
  /\ mount' = [mount EXCEPT ![m].worker = TRUE]
  /\ loose' = [loose EXCEPT ![m] =
                 @ \cup Late \cup (IF mount[m].store THEN {} ELSE {"evicted"})]

\* The provider answers a probe.
Swap(c) ==
  /\ req[c].at = "swap" /\ mu = Nil
  /\ Rebuild(req[c].m)
  /\ Stop(c)
  /\ UNCHANGED <<shared, mounts, older, mu, pull, service, bound,
                 served, recorded, contested>>

\* The mount has the model already, or the probe fails.
SwapNothing(c) ==
  /\ req[c].at = "swap" /\ mu = Nil
  /\ Stop(c)
  /\ UNCHANGED <<shared, table, mu, pull, service, bound, history>>

\* ensureMountModelAsync: the model has been pulled, before Close cancelled the
\* pull; is the slug mounted, be it evicted?
PullEnds(s) ==
  /\ pull[s] = "pulling" /\ mu = Nil
  /\ \/ pull' = [pull EXCEPT ![s] = "none"]   \* the pull failed
     \/ /\ up # "closed"
        /\ pull' = [pull EXCEPT ![s] = IF mounts[s] = Nil
                                       THEN "none" ELSE mounts[s]]
  /\ UNCHANGED <<shared, table, mu, req, service, bound, history>>

PullSwaps(s) ==
  /\ pull[s] \in Mount /\ mu = Nil
  /\ Rebuild(pull[s]) \/ UNCHANGED <<mount, loose>>
  /\ pull' = [pull EXCEPT ![s] = "none"]
  /\ UNCHANGED <<shared, mounts, older, mu, req, service, bound,
                 served, recorded, contested>>

-----------------------------------------------------------------------------
(* The life of the service.                                                *)

\* Close cancels the pulls and waits for their goroutines.
Close ==
  /\ up = "up"
  /\ up' = "closing"
  /\ UNCHANGED <<shared, table, mu, req, pull, todo, bound, history>>

\* Mutant: an evicted mount is passed over.
StopResident ==
  /\ up = "closing" /\ mu = Nil
  /\ \A s \in Slug : pull[s] = "none"
  /\ LET known == {mounts[s] : s \in Slug}
     IN mount' = [m \in Mount |->
                    IF m \in known /\ mount[m].store
                    THEN [mount[m] EXCEPT !.worker = FALSE] ELSE mount[m]]
  /\ up' = "closed"
  /\ UNCHANGED <<shared, mounts, older, mu, req, pull, todo, bound, history>>

\* It then stops the worker of every mount of the table.
StopWorkers ==
  /\ up = "closing" /\ mu = Nil
  /\ \A s \in Slug : pull[s] = "none"
  /\ LET known == {mounts[s] : s \in Slug}
     IN mount' = [m \in Mount |->
                    IF m \in known
                    THEN [mount[m] EXCEPT !.worker = FALSE] ELSE mount[m]]
  /\ up' = "closed"
  /\ UNCHANGED <<shared, mounts, older, mu, req, pull, todo, bound, history>>

\* A process that starts.
Unmount ==
  /\ mounts' = [s \in Slug |-> Nil] /\ mount' = [m \in Mount |-> Nil]
  /\ older' = {} /\ mu' = Nil
  /\ req' = [c \in Req |-> NoCall]
  /\ pull' = [s \in Slug |-> "none"]
  /\ loose' = [m \in Mount |-> {}]

\* Mutant: a restart mounts again only as many as may be resident.
RestartFewer ==
  /\ calls < MaxCall /\ calls' = calls + 1
  /\ up' = "boot"
  /\ \E few \in SUBSET registry :
       /\ Cardinality(few) <= Limit
       /\ todo' = few \cup (IF Default # Nil /\ disk[Default] # Nil
                           THEN {Default} ELSE {})
  /\ served' = recorded \cup (served \cap {Default})
  /\ Unmount
  /\ UNCHANGED <<shared, ids, recorded, contested>>

\* The process ends, or crashes, and starts again: nothing is mounted.  It will
\* mount the project of the default store and those of the registry, if that
\* can be read.
Restart ==
  /\ calls < MaxCall /\ calls' = calls + 1
  /\ up' = "boot"
  /\ LET default == IF Default # Nil /\ disk[Default] # Nil THEN {Default} ELSE {}
     IN \/ /\ todo' = registry \cup default
           /\ served' = recorded \cup (served \cap {Default})
        \/ /\ todo' = default
           /\ served' = (served \cup recorded) \cap {Default}
  /\ Unmount
  /\ UNCHANGED <<shared, ids, recorded, contested>>

\* newServiceCore mounts the default project, then those of the registry.
BootMount(c, r) ==
  /\ up = "boot" /\ \A d \in Req : req[d] = NoCall
  /\ r \in todo /\ (Default \in todo => r = Default)
  /\ todo' = todo \ {r}
  /\ Goto(c, [at |-> "read", repo |-> r])
  /\ UNCHANGED <<shared, table, mu, pull, up, bound, history>>

Booted ==
  /\ up = "boot" /\ todo = {} /\ \A c \in Req : req[c] = NoCall
  /\ up' = "up"
  /\ UNCHANGED <<shared, table, mu, req, pull, todo, bound, history>>

-----------------------------------------------------------------------------
MountsNext ==
  \/ \E c \in Req :
       \/ \E r \in Repo :
            \/ \E s \in Slug : Create(c, r, s)
            \/ Register(c, r) \/ BootMount(c, r)
       \/ \E s \in Slug : Delete(c, s) \/ Reembed(c, s)
       \/ CommitCreate(c) \/ ReadProject(c) \/ RegisterFails(c)
       \/ Insert(c) \/ InsertRefused(c)
       \/ LoadRegistry(c) \/ SaveRegistry(c) \/ SaveFails(c)
       \/ RemoveFiles(c) \/ DropMount(c)
       \/ Swap(c) \/ SwapNothing(c)
  \/ \E s \in Slug :
       Lookup(s) \/ CacheResolve(s) \/ PullEnds(s) \/ PullSwaps(s)
  \/ Close \/ StopWorkers \/ Restart \/ Booted

MountsSpec == MountsInit /\ [][MountsNext]_mountsVars

-----------------------------------------------------------------------------
\* maybeEvictLocked keeps at most Limit projects resident; only those of the
\* default store, mounted on demand, may come on top, the one that is there and
\* any that is being deleted (service.go:960-985, 1059-1099).
ResidentBound ==
  Cardinality({s \in Resident(mounts, mount) : mount[mounts[s]].repo # Default})
    <= Limit

\* A worker that runs has a store to work for, unless the model of its mount was
\* changed while the mount was evicted, and belongs to a mount of the table,
\* unless the project was deleted; after Close only workers of deleted projects
\* run, and those that a call still under way has started since
\* (service.go:434-466).
WorkersOwned ==
  \A m \in Mount :
    mount[m] # Nil /\ mount[m].worker =>
      /\ mount[m].store \/ "evicted" \in loose[m]
      /\ (\E s \in Slug : mounts[s] = m) \/ "deleted" \in loose[m]
      /\ up = "closed" => loose[m] \cap {"deleted", "closed"} # {}

\* A project this service has mounted stays mounted until its files are removed,
\* across evictions and whatever else is registered or deleted, and one whose
\* registration was saved is in the registry, and so mounted by the next process
\* too, if the registry and the project can be read then.  What may be lost: a
\* project registered while a delete was going to drop its mount or its path, or
\* while another save, loaded before, was going to overwrite its own; and one
\* whose slug another repository's project has too (registry.go:20-32).
KeptUntilDeleted ==
  /\ \A r \in served \ contested :
       disk[r] # Nil => up = "boot" \/ Mounted(disk[r].slug, r)
  /\ \A r \in recorded \ contested : disk[r] # Nil => r \in registry
=============================================================================
