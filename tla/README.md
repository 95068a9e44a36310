# tickets_please: specifications, model checks and proofs

This directory holds a TLA+ development of tickets_please: modules that model
its stateful core, TLC configurations that check them on small instances, and
theorems that TLAPS proves for every instance. Paths below are relative to the
repository; `internal/...` stands for `src/internal/...`.

Parse with `tlasany M.tla`, check with `tlc -config X.cfg M`, prove with
`tlapm M.tla` for `StageOpProofs`, `TicketsProofs`, `ProjectCacheProofs`,
`MountsAndEventsProofs`, `PhasesAndEmbedProofs`, `AccountsAndPagesProofs`,
`AgentSessionsProofs` and `UpkeepProofs`.

## 1. The system

tickets_please is a ticket server whose database is a directory of YAML and
markdown files in a repository. Agents reach it over MCP, people over a web UI.
Several processes (one MCP server per agent, a web server) may share one data
dir, and all processes on a machine share one central store of agents, users
and invitations. Inside a process requests run concurrently.

| component | state | operations | interacts with |
|---|---|---|---|
| **Staged mutation and file lock** `internal/store/{stage,lock,lock_unix,git}.go` | `.staging/<op>/`, the data dir, `.lock` (flock), git index and head | BeginOp, Write, RenameDir, RemovePath, Abort, Commit, acquireFlock, gitCommit | every handler that writes |
| **Ticket handlers** `internal/svc/{tickets,tickets_phase,archive,ideation}.go` | `lp.Tickets` (cached), ticket dirs on disk | Create, Update, Move, Complete, Delete, List, AssignTicketToPhase, (Un)Archive, PromoteIdea | cache, staged mutation, embed worker, event bus |
| **Phases** `internal/svc/phases.go` | `lp.Phases`, phase dirs | Create, Update, Delete | cache, tickets in the dirs |
| **Project cache and watcher** `internal/cache`, `internal/store/watch.go` | loaded projects, their RWMutex, stale flags, LRU, TTL | Get, load, watch, mark stale, evict | handlers, fsnotify |
| **Embedding worker** `internal/worker`, `internal/svc/hydrate.go` | job queue (256), sidecars, `.failed` markers, the mount's index | Enqueue, EnqueueBlocking, Flush, process, Stop; hydrate, backfill, re-embed | handlers, mounts, provider |
| **Mounts and lifecycle** `internal/svc/{service,registry,projects}.go` | mounts by slug, registry file, model pulls | Create, Register, Delete, Reembed, lookup, eviction, boot, Close | worker, cache |
| **Event bus and SSE** `internal/eventbus`, `internal/web/handlers_sse.go` | seq, a ring per topic, subscriptions with a bounded channel | Publish, Subscribe, cancel, handleSSE | handlers publish; browsers read |
| **Agents and sessions** `internal/store/agents.go`, `internal/svc/{agents,agent_archive,middleware}.go`, `internal/mcptools/{identity,tools}.go`, `internal/web/session.go` | agent records, archive, key index; an identity per MCP connection, a cookie per browser | register, touch, resolve, retry with a refreshed session, sweep | every handler asks for a session |
| **Users, memberships, invitations** `internal/store/{users,memberships,invitations}.go`, `internal/svc/invitations.go`, `internal/web/{auth,bootstrap,handlers_members}.go` | records in the central store, login cookies | login, first-owner bootstrap, set role, remove, invite, accept, cancel, grant-owner | role guard of every web page |
| **Search, feedback, archive policy** `internal/svc/{search,feedback,feedback_score,archive,archive_decide}.go`, `internal/store/feedback.go` | `feedback.yaml`, each process's copy of it | search, rate, record retrievals, decide, sweep | tickets, vector index |
| **MCP tools** `internal/mcptools/tools.go` | none but the identities above | 40 tools: check, call one operation with a retry, format | all operations of `internal/svc` |
| **Web pages** `internal/web` | a browser's page, its forms' tokens, its stream | some 60 routes: check, read or call an operation, render; patches of a page over `/sse`; the optimistic comment form | operations, event bus |
| **Providers**, **config/log** | none of their own | HTTP calls, set-up | worker, process |

### What is hard

- *Two locks of different scope.* A handler runs under the write lock of its
  `LoadedProject` (one process), and its Commit runs under the flock (all
  processes). Its checks, and its read of the record it rewrites, come before
  the flock.
- *No multi-file atomicity.* A Commit is a list of renames and removals; a
  crash or an error leaves a prefix. What makes that bearable is the residue in
  `.staging`.
- *A queue that drops.* Embedding is asynchronous, the live path drops jobs on
  a full queue, and what is lost must be found again from the files.
- *Delivery after the unlock.* The bus chooses an event's targets under its
  mutex and sends without it, never waiting; a slow consumer is cut off.
- *Judged without the lock.* Agent records are read and touched without the
  lock that the sweep moves them under; roles are checked when a page is
  entered and used later; an invitation is found, granted and deleted in three
  locked steps.
- *One answer for several steps.* A tool or a form may be several operations,
  each with its own look at the session; the answer is one, and the tool is
  repeated when the session has expired.
- *A page that follows.* It is rendered from several reads, subscribes later,
  is patched by frames of which several have one id, and shows what it has sent
  before the server has it.
- *Several tables of one thing.* A mount is in the mutex's table, in
  registry.yaml and on disk; a worker belongs to a mount that may be evicted,
  replaced or deleted while a model pull for it is under way.

`PROJECT.json` lists each hazard at its line with the properties that watch it.
Where the hazard does bite, the property says when and nothing else happens, and
the note names the exception; section 5 lists those that a document denies.

### What makes each component correct

- Staged mutation: the lock excludes; a partial op is legible; the git head is
  the data dir; the ops take effect one at a time; no one hangs.
- Ticket handlers: the data dir passes its own integrity check, references
  resolve, the dependency graph is acyclic, numbers are unique, ideas are
  parked, the comments tell the record's history, the cache is the disk, done
  stays done, the gate holds; a listing shows what stays put exactly once.
- Phases: a number is given once, a ticket lies where its record says, and a
  deletion takes no ticket its process knew of.
- Worker: the last text wins; nothing stays invisible but for I/O errors; what
  can bring a removed ticket back is known; Flush returns.
- Cache: a request is served what the disk held since it began; no watcher
  leaks; updates under one entry keep one another.
- Mounts: no more than the limit resident but for the default store's; which
  workers run without an owner, and which projects are forgotten before they are
  deleted, is known.
- Bus: exactly once while the subscription is open; a publisher's order is
  kept; what a resume may lose is known; publishers never wait; subscriptions
  of gone clients are dropped.
- Agents: a key has one live holder, an issued id always resolves, a record is
  in one place, a connection speaks with the identity it declared last.
- Accounts: one account per identity, one first owner, one use per token, and a
  project keeps an owner.
- Upkeep: no rating is lost or doubled, and ratings act in their own direction.
- Tools and routes: a success means that all of it is done, once; an error that
  nothing is, but for a few handlers that are known; an expiry is mended.
- Pages: a page whose stream has nothing more to say shows what the store holds,
  but for the system's comments; a comment that was submitted is neither lost
  from sight nor shown twice.

## 2. Modules and code

| module | models | notes |
|---|---|---|
| `StageOp` | `internal/store` mutation path | the ops are the actors |
| `AtomicStore` | what the store promises | abstract specification |
| `StageOpRefinement` | `StageOp` with a history variable, and the mapping to `AtomicStore` | |
| `Tickets` | the ticket handlers of `internal/svc` | StageOp's Commit, reduced to its steps |
| `Phases` | phase handlers and AssignTicketToPhase, several processes | StageOp's Commit as one step |
| `EmbedWorker` | `internal/worker`, hydrate, mounts as it needs them | |
| `ProjectCache` | `internal/cache`, the watcher, UpdateProject as its writer | |
| `Mounts` | `internal/svc/{service,registry,projects}.go` | |
| `EventBus` | `internal/eventbus`, handleSSE, a reconnecting page | |
| `AgentSessions` | the agent store, its sweep, MCP connections and browsers | |
| `Accounts` | users, memberships, invitations, login and the members' page | |
| `Upkeep` | feedback, search, archive policy, paged listings | |
| `Operations` | the operations of `internal/svc` as their callers meet them | no state |
| `Tools`, `Routes` | the handlers of `internal/mcptools/tools.go` and of `internal/web`, one definition each | no state |
| `FrontEnd` | calls of agents and browsers, with sessions, retry and form tokens | instantiates `Tools` and `Routes` |
| `LivePages` | a ticket's page, its stream and its comment form | extends `FrontEnd`, over the bus as `EventBus` shows it |
| `*Proofs` | theorems about the module of that name | TLAPS; `StageOpProofs` is about `StageOpRefinement` too, `PhasesAndEmbedProofs` about `Phases` and `EmbedWorker` |
| `MC*` | small instances for TLC | |

A definition whose comment begins with *Mutant* is not part of a specification:
it is a definition with a plausible mistake in it, and replacing the original by
it violates the property named in `PROJECT.json`.

### StageOp

`status[o]` is the program counter of the goroutine that runs the op:
`idle -> open` (BeginOp) `-> try` (Commit has marked the op committed) `<-> wait`
(the 50 ms poll) `-> apply -> clean -> git -> done`. It may also end as `aborted`
(deferred Abort), `refused` (deadline or context), `failed` (a step returned an
error), `ungit` (git returned an error, which is only logged) or `crashed`. The
data dir `tree` maps directory and file name to the op that wrote the content;
`staged` is what lies in `.staging/<op>`. Renames and writes are one system call
each; RemoveAll unlinks file by file and can be cut short. A handler may declare
any of the step lists in the constant `Plan`; none of the code's lists fills a
directory again that it has emptied (`NoRefill`), and `HeadIsDisk` needs that. `index`, `head` and `added` are
the part of git the auto-commit uses. `Hung` names ops whose process may stop
running without dying, so it keeps the lock.

`AtomicStore` has two variables: the data dir as of the last moment the lock was
free, and what each op has done to it. An op acts once, as a whole or up to some
point of its plan (`Run` lists the trees a plan goes through). The mapping needs
one history variable, `base`, the tree the holder of the lock found.

### Tickets

A *slot* is one `LoadedProject` with its write lock: one per process, or two in
one process when a stale project was replaced while a handler still held the old
one. A handler is one action up to its Commit (checks against `cache`, record
read from `disk`, steps declared) followed by Acquire, one Apply per step and
Finish, which updates the cache. Every step may fail and the process may die
between any two. The record keeps number, column, phase, archived, kind and
depends_on; a comment is reduced to what it announces. Titles, bodies, labels,
`parallelizable_with` and the lookup of short references are left out.
A load of the cache is one step here; `ProjectCache` takes it apart. Two history
variables: `cut` (a handler was stopped half-way, so that the cache may be behind
the disk for good) and `unseen[v]`, the tickets of which slot v's CompleteTicket
failed after the record was in place, until v loads the project again. What
`NoReopen` leaves out is `unseen` and no more; `NoReopenUndisturbed`, what the
documents say while nothing fails, is what two slots break.

### Phases

The slots of `Tickets`, with the other half of the data dir: `phaseAt` maps a
directory (number and slug) to the phase.yaml in it, `lies` and `label` say
where a ticket is and what its record names. `view` is what a slot has loaded
and stays as it was while other slots commit; handlers judge by it, and the
Commit actions act on the disk. A phase written over another one takes its
directory and what lies in it. `moved` and `astray` record what a slot could
not know.

### EmbedWorker

A text is a version number, a sidecar or vector the version it was made from.
`queue` and `at` are a worker's channel and the job it holds; `hand` is the
handler with the project's write lock, split at the points where another
goroutine can get in: commit, look up the mount's worker, enqueue or flush,
remove. `hydrate` and `walk` are hydrateMount, the boot backfill and a forced
re-embed, entry by entry, and at an entry step by step: the sidecar is read
(`HydrateRead`, `WalkRead`), its vector loaded (`HydrateLoad`, `WalkLoad`), the
text read (`HydrateText`, `WalkText`) and the job sent (`HydrateSend`,
`WalkSend`). None of them holds lp.Lock, so a handler may change or remove the
ticket in between; `visit` and `walk` keep what was read. What cannot be read is
passed over (`HydrateSkip`, `WalkPass`, `WalkNoText`), a failed embed leaves its
marker or fails to (`EmbedFail`), an old marker is cleared or stays
(`ClearMarker`), and a sidecar may not be written (`SidecarFail`). `unsettled`
collects the texts such an error, which is only logged, may have left without
sidecar and marker since the mount; `exposed` the tickets that were removed
while a worker that no flush had waited for had them in hand, or whose vector
was loaded after; `lost` those whose last update was dropped, failed or
overtaken. Mounts, evictions and restarts make new workers; an evicted worker
may still run. Learnings, comments and summaries take the same path and are not
told apart. Provider and model stay the same, so every sidecar is readable and
current: what hydrate does with a stale one, which it drops and embeds anew, is
left out.

### ProjectCache

A request is `idle`, loads (`yaml`, `summary`, `watch`, `insert`), has a
LoadedProject in hand (`have`) or commits (`commit`). `Hit` and `Miss` are
Cache.Get under `c.mu`; the loader holds no lock while it reads, and starts its
watcher last; `Insert` is the second half of loadAndInsert. The handler is
UpdateProject, whose two files the loader reads in the order they are written.
`event` marks a watcher that has seen a change and not yet signalled it (the
50 ms debounce and the channel of one coalesce); `MarkStale` is watchLoop.
Evictions come at any time. Another process is seen through its commits only.
A LoadedProject is an object of the pool `Load`, used again once neither the
cache nor a request refers to it, so loads need no bound. `asker` and `held`
record what the disk has held since one request, picked at random, began at a
moment when nothing was in flight; `via` and `between` record under which object
an update was made and who rewrote the file since it was read. SPEC.md says the
watcher skips a process's own writes; the code does not, and neither does the
model. `Invalidate` has no caller. SetArchivePolicy, which writes project.yaml
in the same way without changing the cached project, is not told apart.

### Mounts

`mounts` is projectMounts, `mount` what each ProjectMount holds (an object of a
pool, since goroutines keep pointers to it), `older` the order of use, as the
pairs of slugs of which the first was touched earlier; `Victims` takes those that
come first in it, as many as there are too many. The project of the default
store is mounted on demand without an eviction, so it may be resident beyond the
limit, and under two slugs while the project before it is being deleted:
`ResidentBound` counts the others.

Sections under mountsMu that touch no file another actor writes are one step; a
registration holds the mutex over several (`mu`), and a delete saves the
registry after it has let go. `pull` is the goroutine that pulls a model and
then rebuilds the mount's worker; it may end after the mount was evicted,
replaced or deleted. `Close`, `StopWorkers`, `Restart` and `BootMount` are a
process's end and the next one's boot from registry.yaml.

What only logs its failure may fail here: a registration's or a delete's load or
save of registry.yaml (`SaveFails`; the call succeeds), the load of it at boot,
and the mounting of a project at boot, which is then left out (`RegisterFails`).
So two histories are told apart. `served` holds the repositories whose project
this process has mounted; they stay in the table until their files are removed.
`recorded` holds those whose registration was saved; they stay in registry.yaml,
also across restarts. `contested` are those a concurrent call may undo: a delete
was going to drop their mount or path when they were registered, a save that had
read the registry before was going to overwrite theirs, or another repository's
project has their slug. `loose` says why the worker of a mount may run outside
of the table (`deleted`), without a store (`evicted`: a pull or a re-embed
rebuilt it after the eviction) or after Close (`closed`: a call still under way
started it then), until the pool reuses the object.

### EventBus

`Stamp` is the locked half of Publish, `Deliver` one target of the unlocked
half; the select in Publish chooses at random when the subscription is closed
and its channel has room, as Go does. `Connect` is Subscribe, whose snapshot and
registration are one critical section; `WriteReplay`, `Receive`, `WriteLive`,
`Leave`, `Unregister` are the handler. Every delivery writes at least the signal
frame with its id, so a client's `lastId` moves with each. The history variables
record what a client was sent, what the rings had already lost when it came
back, and which events were overtaken by a later one on the way into a channel.
Ticket handlers publish under `lp.Lock`; agents' touches
(`internal/svc/agents.go:98`, `internal/svc/middleware.go:105`) publish without
it, so two publishers can be in Publish at once. A restart of the process (seq
starts at zero again) and the frames of a delivery are in `LivePages`; heartbeat
frames and topic authorisation are left out.

### AgentSessions

`live`, `archive` and `index` are the three directories, `lock` the machine-wide
flock that registration and the sweep take and everyone else does without.
`call` runs one request: an MCP tool (check the cached identity, and on
ErrUnauthenticated register it again once and retry), register_agent, or a page
of a browser, whose id is minted into a cookie before its record exists. A
lookup reads `agents/` and then the archive, in two steps; a touch reads and
writes in two steps. The sweep judges without the lock, then moves, drops and
fills under it, record by record. `slot` is the MCP registry's identity of a
connection or the browser's cookie. Time is a clock that ticks; a request
lasts at most `Patience` (it waits for nothing but the lock, whose timeout is
seconds).

### Accounts

A record is what its readers decide on: a user's subject, a role per project and
user, an invitation's project, role and whether it has expired. `req` is a
request between two holds of the store's lock: an OAuth callback (find or write
the user, walk the projects, promote), an owner's page past the role guard, or
the accept page. `raced` marks the invitations two requests have held at once,
or one left behind. GrantOwner is the command line's `admin grant-owner`.

### Upkeep

Each process has its copy of the tickets (`view`) and of feedback.yaml (`mem`),
which it reads again under the flock when it writes. A search takes the closest
hits from the index, passes over archived ones, rescores and records the
retrievals; the score is kept as an exact fraction of the default parameters.
`Sweep` is ApplyArchivePolicy, ticket by ticket, by `Due` (Decide). A walk lists
page after page with the cursor of ListTickets. A ticket's change is one step
per process: first where it is made, then where the watcher brings it.

### Operations, Tools, Routes, FrontEnd

An operation is a sequence of *stretches*, each ended by one error: whether it
asks for a session first (`requireSession`), what it changes, and whether its
caller stops at the error or notes it and goes on (`Try`). A commit that stops
halfway is StageOp's matter and no part of it. `Tools` and `Routes` have one
definition per handler, by the handler's name, with a parameter where its cases
differ (a promotion with or without a phase): the checks that can only refuse
the call, and the operations it puts together. `FrontEnd` runs them: `Arrive` is
the middleware, `Refuse` and `Begin` the checks, `Do`, `FailPart` and
`Unauthenticated` a stretch, `refreshSession` and the restart at the first
stretch callWithRetry. `session` is the agent record behind a client, which may
expire at any moment; `fits` says whether the forms a browser shows carry the
token of the session its cookie names (`internal/web/csrf.go`). Who may do what
is in `Accounts` and is here only a reason to be refused. `CallsSpec` is the calls
alone, in any interleaving.

### LivePages

`page` goes from `closed` over `reading` (handleTicketDetail has read the ticket)
and `rendered` (the thread has been read too) to `open` (the stream is
attached). `ticket` counts the changes of column, archived flag and kind, `log`
the events published for them and for comments; both are counted from the
page's first read. Every event stands for a comment of the ticket as well, the
one that was written or the one that the handler of a move, completion, archive
flip or promotion appends for the system. `shown` is what the badges say,
`actions` the state the buttons were rendered for, `rows` the thread: all
comments when it is read, and from then on those that frames append, which are
the written ones. `Deliver` renders the frames of
an event from the ticket as it is then; `Receive` applies one and moves
`lastId`; `Cut` and `Restart` end the stream with what is on its way, and
`Attach` is Subscribe with the replay that `lastId` asks for. `sending` and
`failed` are the placeholders of `optimistic.js`, whose ids are those of the
tries. `missed` and `lost` are history; `missed` is worked out from ids and starts
of the server (`Untold`) and not from what `Replay` finds, so a replay that
forgot something would not excuse itself. The assignment to a phase
(`internal/svc/tickets_phase.go:193`) publishes no event, shows on no badge, and
is left out with its comment. Types are in terms of the log: that it
is no longer than `MaxEvents` is a bound of the run (`Room`), of which no
property speaks. A page's other forms are not submitted
while it is up: they would be one more call like an agent's.

## 3. Runs

| run | states | what it shows | bounds and why they do |
|---|---|---|---|
| `stage_op` (`MCStageOp.cfg`) | 25,715 | PartialIsLegible, HeadIsDisk, HolderWrites, the refinement of AtomicStore, LockIsLive | two ops (a holder and a waiter), two directories with two files, the four shapes of step list the handlers declare; one op may hang |
| `tickets_one_slot` (`MCTickets.cfg`) | 1.27 M | StructureHolds, GraphHolds, AuditTrail, CacheMatchesDisk, NoReopen and GateHolds of the handlers of one loaded project, with failures and crashes | three tickets (a cycle through a third), one phase, four handlers; ids are symmetric |
| `tickets_reopen` (`MCTicketsReopen.cfg`) | violation | NoReopenUndisturbed fails between two slots, with nothing failing | two slots, two tickets, three handlers |
| `embed_worker` (`MCEmbedWorker.cfg`) | 693,632 | LatestWins, NothingMissing, NoResurrection, FlushReturns | one entry (entries meet only in the queue, which the bound fills), a queue of one, two workers (an old and a new one), two texts, one walk |
| `event_bus` (`MCEventBus.cfg`) | 1.8 M | InOrderExactlyOnce, GapOnlyOvertaken, NeverHeldUp | two publishers and two topics (an event in both rings), ring and channel of one, so that three events overflow each; two connections of one page |
| `front_end` (`MCLivePages.cfg`) | 1.59 M | AnswersHold for every tool and route, UpToDate and CommentsHold of a ticket page | one agent and one browser; calls that do not touch the page's ticket run alone, as calls meet only in the store; two events (a change of a part and a comment, or two that overtake a read), two tries of comments (one and its retry, or two), one lost connection or restart |
| `project_cache` (`MCProjectCache.cfg`) | 1.0 M | WatcherOwned, OutdatedOnlyIfMissed, LostOnlyAcross | two requests (a loader and a writer, or two loaders), one update elsewhere, two updates in all; three LoadedProject objects suffice, one per request and one for the cache; `LiveView` leaves out what unreferenced objects hold |
| `agent_sessions` (`MCAgentSessions.cfg`) | 1.94 M | RegistryExact, IssuedResolves, LatestIdentity | one connection or one browser, with two requests at once and a sweep; two keys, three records, a lifetime, a grace and a request's patience of one tick each, so that a record expires, is archived and comes back within three ticks |
| `accounts` (`MCAccounts.cfg`) | 1.58 M | OneUserPerSubject, OneFirstOwner, AcceptedOnce, OwnerKept | two requests (a pair that interferes), two identities and accounts (an owner and another), one project, one invitation |
| `mounts` (`MCMounts.cfg`) | 1.63 M | ResidentBound, WorkersOwned, KeptUntilDeleted | two repositories and slugs with one resident mount, so that every use evicts; two requests; three mount objects, one per request and one in the table; two project ids (one for each repository, or one that is deleted and created again), four calls |
| `phases` (`MCPhases.cfg`) | 1.65 M | NumberOnce, LiesWhereLabelled, LostOnlyUnseen | two slots, two tickets, two names, three ids, seven operations: two to fill each view, three that meet |
| `upkeep` (`MCUpkeep.cfg`) | 828,781 | TalliesExact, WalkExact, RatingsCount | two processes with a caller each, three tickets, one hit and one entry a page, so that every limit is met; four operations; processes and callers are permuted together |

Deadlock is checked in the StageOp, Tickets, EmbedWorker, ProjectCache and
LivePages runs (a finished StageOp system stutters explicitly; a request for a
project can always begin, a page always be closed). It is switched off for the others: an idle bus has no pending
step, and in `AgentSessions`, `Accounts`, `Mounts`, `Phases` and `Upkeep` no
request is ever due, so a behaviour ends where its bound on ids, calls or ops
does.

### Bounds

The bounds are constants of the modules: `MaxOps`, `MaxSeq`, `MaxId`,
`MaxCall`, `MaxUser`, `MaxTime`, `MaxVersion`, `MaxWalks`, `MaxUpdates`,
`NConns`, `NWorkers`, `MaxEvents`, `MaxTries`, `MaxCuts`. Each stands in a guard of the action that would exceed it.
Every hazard here is a meeting of two actors, so two of each is the smallest
instance that has it; a third record is there where a chain or a bystander
matters (a dependency cycle, a page that moves under a cursor, an agent that
comes back under a new id). What the theorems cover holds beyond the bounds.

### Fairness

- **StageOp**: acquireFlock runs on timers, so a waiter keeps polling (weak) and
  its deadline, looked at between polls, comes (strong, since polling disables
  and re-enables it). A holder is straight-line code (weak). Neither is assumed
  of an op in `Hung`.
- **EmbedWorker**: the worker's loop is scheduled and each provider call ends
  (`internal/embed/ollama.go` sets a timeout on its client). Handlers and
  cancellations get no fairness: Flush must return without them.
- **EventBus**: none. `NeverHeldUp` says by ENABLED that a publisher with
  targets left, and the handler of a client that is gone, can always take a step
  of their own, whatever the clients do; each has finitely many left, so the
  scheduler alone brings them through.
- The other modules state safety only and assume no fairness: what their
  components promise is about the meeting of requests, and nothing in them waits
  but for the file lock, whose liveness is StageOp's.

## 4. What is proved

Each proof is for every value of the constants, from the module's named ASSUMEs
alone; TLC evaluates those on every run.

| module | theorem | property |
|---|---|---|
| `StageOpProofs` | `TypeCorrect`, `LockIsExact` | `TypeOK`, `LockExact` |
| | `MutualExclusion` | two ops are never both between acquire and close |
| | `NoEffectWithoutLock` | `NoEffectBeforeLock` |
| | `RecoveryIsLegible` | `PartialIsLegible` |
| | `StagedIsKept` | `StagedUntilApplied` |
| | `OnlyHolderWrites` | `HolderWrites` |
| | `HeadKeepsUp` | `HeadIsDisk`, for plans that are `NoRefill` |
| | `HolderOnItsWay` | the holder's tree is what the first of its steps make of `base` |
| | `Implements` | `ImplementsAtomicStore` |
| `TicketsProofs`, for one slot | `Structure`, `Graph`, `Trails`, `CacheIsDisk` | `StructureHolds`, `GraphHolds`, `AuditTrail`, `CacheMatchesDisk` |
| | `DoneIsFinal`, `GateKept` | `NoReopen`, `GateHolds` |
| `ProjectCacheProofs` | `CacheTypeCorrect` | `TypeOK` |
| | `NoWatcherLeaks`, `OutdatedIsMissed`, `LockKeepsUpdates` | `WatcherOwned`, `OutdatedOnlyIfMissed`, `LostOnlyAcross` |
| `MountsAndEventsProofs` | `TypeCorrect` | `EventBus`' `TypeOK` |
| | `OnceAndInOrder`, `LostOnlyOvertaken` | `InOrderExactlyOnce`, `GapOnlyOvertaken` |
| | `MountsTypes` | `MountsTypeOK` |
| | `EveryWorkerOwned`, `ResidentsBounded`, `ProjectsKept` | `WorkersOwned`, `ResidentBound`, `KeptUntilDeleted` |
| `PhasesAndEmbedProofs` | `PhasesTypes` | `PhasesTypeOK` |
| | `NumbersDiffer`, `LabelsTrue`, `NothingSeenIsLost` | `NumberOnce`, `LiesWhereLabelled`, `LostOnlyUnseen` |
| | `JobsAccounted` | `EmbedWorker`'s `TypeOK` and its whole inductive invariant |
| | `LastTextWins`, `EveryTextAnswered`, `StaysRemoved` | `LatestWins`, `NothingMissing`, `NoResurrection` |
| `AccountsAndPagesProofs` | `TypeCorrect` | `Accounts`' `TypeOK` |
| | `OneAccount`, `OneWinner`, `UsedOnce`, `LastOwnerStays` | `OneUserPerSubject`, `OneFirstOwner`, `AcceptedOnce`, `OwnerKept` |
| | `CallsAreSane` | `FrontEnd`'s whole inductive invariant, of any clients' calls in any interleaving (`CallsSpec`) |
| | `AnswersAreTrue` | `AnswersHold` of them, for every tool and route |
| | `PagesMakeCalls`, `PagesAnswersAreTrue` | `PagesSpec => CallsSpec`, and so `AnswersHold` beside a page |
| | `NoCommentLost`, `PageIsUpToDate` | `CommentsHold`, `UpToDate`, for one browser and any agents |
| `AgentSessionsProofs` | `TypeCorrect` | `TypeOK` |
| | `IssuedIdsResolve`, `IdentityIsLatest` | `IssuedResolves`, `LatestIdentity` |
| | `RegistryIsExact` | `RegistryExact`, for `Patience <= Ttl` and `3 * Patience <= Grace` |
| `UpkeepProofs` | `TypeCorrect` | `TypeOK` |
| | `NoRatingLost`, `ListingComplete`, `RatingsAct` | `TalliesExact`, `WalkExact`, `RatingsCount` |

### The arguments

*StageOp.* `PartialIsLegible` alone is not inductive. It needs to know which ops
still have a staging dir, and that depends on how far the op has come:
`Progress` ties the counters `declared` and `applied` to `status` (nothing is
applied before `apply`, everything is at `clean` and later), `Residue` says that
an op which is neither idle nor aborted has its staging dir or has applied its
whole list, a crash included, and `StagedFiles` that every declared and
unapplied write is there. `IInv` is their conjunction with `TypeOK`, `LockExact`
and `NoEffectBeforeLock`. `LockExact` is what lets a step conclude that no other
op is in `Holding`, and so `MutualExclusion` and `HolderWrites`.

*HeadIsDisk.* git stages the touched paths after all steps are applied, so the
invariant says what the index still misses while an op holds the lock: it
differs from the tree only where an applied step reaches that is not staged yet
(`Behind`), and agrees with it, as the head does, while the lock is free and
nobody has died or failed (`Committed`). A path that is gone is dropped from the
index only when its whole directory is gone, so a file that has vanished has to
lie in a directory that stays empty to the op's end. Hence the hypothesis
`NoRefill`: no list puts files into a directory an earlier step of it emptied.
That is so of every handler's list, and of the run's by an ASSUME.

*The refinement.* `RInv` adds to `IInv` what `base` is: with the lock free it is
the data dir (`Settled`), and while an op holds the lock the data dir is what
its applied steps make of `base`, or, inside a RemoveAll, such a tree less some
files of the directory (`Tracked`, by `After` and `Midway`). A step of the
holder lengthens the prefix by one. Release maps to the abstract op's one step,
every other action to a stutter. `Run`, the function that lists the trees of a
plan, is recursive; that it exists comes from taking the least length for which
it does not.

*Tickets.* The theorems are about one slot, `Slot = {v}`: with two,
`tickets_reopen` shows the corruption. The invariant has two halves. `Vetted`,
`Agreed` and `Placed` hold however handlers fail: every record of a ticket,
already written or still among the running handler's steps, has a number no
other ticket has, is parked while it is an idea and depends only on work; all
files of a ticket are where the next step looks for them. They give the
unconditional parts (unique numbers, parked ideas). The rest says that there is
a board, a function from tickets to files, that is `Sound` (complete, resolved,
acyclic, with its trails), and that, as long as no handler was cut short, the
disk is the board (`Resting`) or comes to it by the steps the running handler
has left (`Heading`), while the cache is the board, or will be. A step of
Commit shortens the list and keeps where it leads; a handler's checks are what
makes the board it heads for sound: the cycle check of UpdateTicket gives
`Acyclic` through an order of the board, the refusal to delete a ticket others
depend on gives resolution. `GateHolds` follows from `CacheMatchesDisk`'s
half: what a handler judged in memory is what its write replaces. `NoReopen` holds however handlers fail, so it
has an invariant of its own, `Sticky`: what is done on disk is done in the
cache, or will be when the running handler finishes, or is in `unseen`; and
whatever a handler has yet to write of such a ticket says done, and removes
nothing of it.

*ProjectCache.* `Hands` says what each request refers to: a load nobody else has
seen until it is inserted, then a project read to the end. `Coherent` says that
a project no change went by, with none pending and its watcher not closed, holds
what the disk holds; only an update in place breaks the equality, and `Written`
says that its own rename has been seen or missed by then. `Judged` carries this
to a request that is under way: what is not known to be outdated was on the disk
since it began. `Locked` ties a committing request to the Lock it holds, from
which `Attributed` follows: whoever rewrote the file between an update's read
and its write held another Lock, or none of this process.

*EventBus.* `Way` is the list of what has come and is to come over a client's
link, so most of the handler's steps leave it as it is: writing a frame moves
one event from its second part to its first. `Linked` says whose connection each
link is and which buffers are empty at which point of the handler; `Publishing`
that a publisher inside Publish still delivers its latest event, from which it
follows that no two deliver the same one and that an event joins the way behind
all of its publisher's earlier ones. `Gaps` is the strengthening for what is
lost: for every event about a client's topics that an event further on in its
way passes by, it is known why it is not before that one: the client has seen
it, the rings had lost it, or it was overtaken on the way into the channel.

*Mounts.* Three invariants, one on top of the other. `TableInv`: every pointer
held across steps (by the table, a pull, a re-embed) is to a mount that is there
(`Assigned`), and a mount is of the table or deleted, a running worker has a
store or was rebuilt without one, and after Close was started late or belongs to
a deleted mount (`Owned`); so an eviction, which closes what the table holds,
leaves no running worker behind. `BoundInv` adds that `older` is a strict order
of the mounted slugs (`Ordered`). The residents an eviction spares are then of
pairwise different rank, none below the number of victims, and `FewLeft` counts
them: no more than the limit, for any number of slugs.

`KeptInv` is about the uncontested projects that must stay, those in the table
(`Kept`) and those in the registry (`Noted`), and about calls that are half done.
A registration that has found its mount holds the mutex until it has saved
(`Mutex`), and no delete against an uncontested one is under way then (`Alone`);
a path it has found in the registry stays there, and no call will save a list
without it (`Undisturbed`). So no call will write back a list without a project
that is recorded (`Loaded`), and the registry has it (`Registered`). A delete
waiting for the mutex can drop a mount of another project only if two
repositories share the slug, which makes them contested (`Aimed`, `Apart`); a
recorded project that boot could not mount has its slug to itself (`Left`); ids
grow, so a mount is never taken for one of a later project (`Counted`). Once the
service is up, every served project is mounted (`InPlace`), and at boot it is to
come, on its way or mounted, or it has failed and is no longer served
(`Booting`). The property holds at every moment, calls half done included.
`Mounts` and `EventBus` share no state; one module extends both.

*Phases.* `Counted` says that numbers never run ahead of the phases created, on
disk, in a view or in a handler's hand (that a finite set of numbers has a
greatest comes from well-foundedness); `Seen` that the labels a slot sees are
right but for the tickets others have moved; `Judged` that what a handler
decided still holds of its slot's view when it commits. With them a commit that
takes a ticket along, or doubles a number, is one whose slot could not know.

*EmbedWorker.* What is proved is that no job goes astray, for queues of any
length and any number of mounts. A worker is `Due` an entry while it has a job
for it in its queue or in its hands. `OneHolder` says that two workers are never
due the same entry unless its last update is given up as lost: an evicted worker
may still run while the next mount's begins. With it `NewestLast` (the last job
a worker has for an entry carries the text on disk) is kept by every step that
adds a job, and `Settled` (who is due nothing has its sidecar and vector) by
every step that ends one, but while a re-embed still has a newer job in hand for
the older vector it has loaded (`Chasing`); at rest nobody is due anything and
nobody walks, which is `LatestWins`. `Fresh` is what hydrate relies on between
its steps: the handlers that could overtake it wait for the mutex, or have lost
their mount. `Reads` says that what it or a walker has read is of a text there
is, or of one that was removed meanwhile.
`Expected` is what `NothingMissing` needs: a text without sidecar or marker is
still before hydrate or in the mount's queue, or in its worker's hands, unless
an error that was only logged ended that (`unsettled`). For `NoResurrection`, `Barriers` says where the token of a deleting handler's Flush
stands (behind every job for the entry, unless one was put in after it), so that
when it comes out the worker is due nothing for it (`Flushed`), and `Buried` that
of a removed ticket that is not `exposed` no worker has a job in hand: one that
is taken from a queue after the removal finds no source.
`Staffed`, `Hands` and `Texts` tie workers, handlers and walkers to their phases.
`Phases` and `EmbedWorker` share no state; one module extends both.

*Accounts.* `Requests` says what a request in flight still knows (a login about
to write holds the lock, and no other user has its subject; the page's rule on
demotion and removal was met at its check); `FirstKnown` that the user first
logged in is the only one there was; `Invitations` what becomes of an invitation
nobody raced for: one request holds it, and once a user has joined by it, that
request can only delete it.

*FrontEnd.* Not the handlers are taken as cases at each step, but what they are
made of, once. A piece of work is `CleanWork` if no error that ends the call
comes after a change; `Joined` and `Noted` say how that carries over from the
operations to what a handler puts together, and `ToolShapes` and `RouteShapes`
that every tool and route is so, the named `Halves` excepted, and that a tool
callWithRetry repeats is `Repeatable`: no stretch that may send the call back
comes after a change, but for the promotion, which cannot be made twice. The
invariant `CallsInv` says of a call at work that the changes before its place
have been made and those at or after it have not (`Fresh`), through the
repetition; and of an agent's that is at work for the second time without a
session that its session has expired again (`Mended`). `CallsInv` is proved
of `CallsSpec`: any number of agents and browsers (no step of the proof uses
`BrowserAssumption`), whose calls meet in any order. The run makes most calls
one at a time, which its bounds need and the theorem does not. `PagesMakeCalls`
then says that LivePages is a composition: each of its steps is a `CallStep` of
one client or leaves `calls` alone, so `PagesSpec => CallsSpec`, and what is
proved of calls holds beside a page. FrontEnd and Accounts share no state, and
one module extends both.

*LivePages.* The variables are those of one page in one browser
(`BrowserAssumption`); agents, events, tries and cuts are any number. `PageInv`
follows each comment submitted from its placeholder to its row. A try is stored
as soon as its call has made its one change, and before that only the last try
can be open (`Submission`, from `CallsInv`'s account of the call). A placeholder
that waits is stored or under way, a red one is not stored or had no answer, and
of the tries of one text only the last may be stored with its answer heard or
still be shown (`Placeholders`): so each further copy has a lost answer of its
own, and `FewCopies` counts them. The frames on their way are in the order of
their events, and of one event in the order they are rendered, ahead of every
row that is there, and what removes a placeholder comes before its row
(`Framing`); so no row is there twice, nor beside its placeholder. The event of
a stored placeholder is to come, was missed, or has its frame on the way
(`Replaced`); on a settled page nothing is to come or on its way. `ToldInv` says
the same of what the page shows: the badge of a part's last change (`Badges`),
the buttons of that or any later change of the ticket (`Buttons`) and the row of
each comment (`RowsTold`) are to come, missed, on the way, or there, and what is
on the way is no older than what it replaces. `ThreadInv` adds that the system's
comments in the thread are those up to the place in the log where it was read
(`SystemRows`), and that ids are places in the log as long as the server has not
been started again (`Numbered`): without a start, then, what is not replayed has
been told, which is what the account of `missed` apart from `Replay` rests
on. A cut puts `pos` back behind the frames it drops, or counts the event as
missed, so every step keeps it.

*AgentSessions.* `Sound` says what a request may rely on at the point it has
reached: an id it carries is on disk, in `agents/` or in the archive, a lookup
that missed `agents/` finds it in the archive (agents' records move that way
only), and a request that speaks for an older key is known as overtaken. `Cached`
says that the identity a connection caches is on disk.

*RegistryExact* rests on time, for a touch may write back what it read long ago.
`Timely` bounds what a request can hold by how long it has run: the expiry it
writes, and every expiry its record may have, is at most two `Patience` before
its start, so a record that is `Outdated` for the sweep is one that no request
is at work with (`Recent`). The `2` comes from refreshes: two requests of one
browser may register one pending id at expiries a `Patience` apart (`Spread`);
an MCP client's id is known to one request alone until it is written (`Sole`).
From this follow that no touch brings an archived record back (`Homes`), and
that the index names every issued id but those nobody can use (`Indexed`), which
makes RegisterAgent's check see the holder (`Vacant`). With a
`Patience` as long as the lifetime and the grace the property is false:
overlapping touches carry an old expiry along from one to the next. In the code
it is seconds against an hour and a day.

*Upkeep.* `Held` says that who holds the file lock has the file in memory, from
which `TalliesExact` is inductive; `Walks` that of what is in the listing to
stay, exactly what comes before the cursor's ticket has been listed.
`RatingsAct` needs no invariant but the types: it rests on arithmetic lemmas
about the score as a fraction (`RankFalls`, `RatingMoves`, `RatingRanks`).

### Model-checked only

- Liveness (`LockIsLive`, `FlushReturns`) and ENABLED (`NeverHeldUp`) are beyond
  tlapm.
- What two slots of `Tickets` do to the properties: NoReopenUndisturbed, and so
  NoReopen, does not survive them.

## 5. Where code and documents disagree

One is a run, whose trace is the scenario.

1. **Done can be reopened** (`tickets_reopen`). MoveTicket's check and its read
   of ticket.yaml come before the flock. A completion by another process in
   between is overwritten. `internal/svc/tickets.go:693-694`, `src/SPEC.md:159`.

Within one slot NoReopen holds but for item 17. The following were met on the
way; each is stated in the properties as the exception it makes.

2. Racing processes can leave a broken ticket: its path is resolved before the
   flock, and writing to it after another process has removed or moved the
   ticket makes a record without a body, or one id at two paths
   (`internal/svc/tickets.go:619`; `src/SPEC.md:127`, `src/README.md:184`).
   StructureHolds is checked for one slot.
3. A dropped job is not always recoverable: the old text's sidecar hides the
   loss from hydrate and backfill (`internal/worker/embed.go:9-10, 155-156`).
   LatestWins excepts such texts.
4. A resume can skip an event the ring has: after an event is refused, a later
   one may still be sent and written, and moves the Last-Event-ID past it
   (`internal/eventbus/eventbus.go:10-12`, `internal/web/handlers_sse.go:89-90`).
   GapOnlyOvertaken says that these are the only ones lost.
5. A change can go by the cache: the loader reads first and watches afterwards
   (`internal/cache/projectcache.go:610`; `src/SPEC.md:131, 134`).
   OutdatedOnlyIfMissed says it is the only way to be served an outdated project.
6. The flock does not guard CreatePhase against cross-process races, as
   `internal/svc/phases.go:58-61` says: the number is taken from the cache.
   NumberOnce says when two phases share one. The same holds of
   `internal/svc/archive.go:296-297` ("read-modify-write-under-flock"), where
   the read comes first.
7. Two concurrent creations of one slug both succeed, and the second writes
   over the first (`internal/svc/projects.go:152-157`); and two saves of
   registry.yaml, each of which loads it, changes it and writes it back, can lose
   the first one's path, although "concurrent callers can't corrupt the file"
   (`internal/svc/registry.go:26-30`): a creation saves under the mounts mutex, a
   delete without it. KeptUntilDeleted is about projects that were not contested
   so. It also says no more of a project than that it stays in the table while
   this process runs and in the registry once its save succeeded: a save that
   fails, or a mount that fails at boot, is only logged
   (`internal/svc/service.go:363-384, 920-942`), and such a project is forgotten.
8. Workers run without an owner: DeleteProject does not stop the worker it
   unmounts, against the doc of Close (`internal/svc/service.go:428-433`), and
   after a model was pulled the worker of an evicted mount is built anew, where
   `internal/svc/service.go:896-898` has "nothing to swap" (an evicted mount
   stays in the table, so it is found). A call that is still under way at Close
   may start one after it. WorkersOwned names the three (`loose`).
9. A refresh of a session can overwrite an identity declared in between
   (`internal/mcptools/tools.go:1998-2000`). LatestIdentity excepts overlaps.
10. The sweep on mount has no session, and so archives nothing
    (`internal/svc/service.go:601-609`; `src/SPEC.md:1138`).
11. PromoteIdea with a phase is two operations that each ask for the session, so
    ErrUnauthenticated does not mean "a no-op" (`internal/mcptools/tools.go:470-473`):
    when it expires between them the retry fails on a ticket that is no idea any
    more. AnswersHold names it among the handlers that can end half done
    (`Halves`).
12. Handlers that fill `BlockedBy` write to cached tickets under the read lock
    (`internal/svc/tickets.go:245, 488`).
13. A subscription's first attach replays nothing, and after a restart an id the
    page has means another event: `internal/eventbus/eventbus.go:10-14` and
    `internal/web/handlers_sse.go:34-36` promise a resume. UpToDate and
    CommentsHold except what was missed so, and an event the stream was cut in
    the middle of, whose other frames have the id the page already has.
14. The bundled Datastar (`internal/web/static/datastar.js`, v1.0.1) has no plugin
    for `data-on-load`, by which the pages open `/sse`
    (`internal/web/components/pages/tickets/detail.templ:20` and four more), and
    it does not reconnect when the server ends a stream in good order, as it
    does to a slow consumer (`internal/web/handlers_sse.go:88-90`). `LivePages`
    takes the templates at their word, and a page that never subscribes or
    never comes back is among its behaviours.
15. A comment whose answer was lost and that is sent again is stored twice,
    although the request carries an Idempotency-Key
    (`internal/web/static/optimistic.js:106`). CommentsHold says it is the only way.
16. A like that is a ticket's third rating can make it due for archiving
    earlier (`internal/svc/archive_decide.go:145`): RatingsCount states only the
    direction that does hold.
17. A CompleteTicket that fails after its ticket.yaml is in place leaves the
    cache with the ticket not done. The same process then moves it back, or
    deletes it, until it has loaded the project again: the check that "once-done
    tickets cannot be reopened" (`internal/svc/tickets.go:693-694`) is of the
    cache. NoReopen names these tickets (`unseen`).
18. The failure marker is there so that an entry is not "absent from search
    forever and nothing anywhere says so" (`internal/worker/embed.go:265-268`),
    but its own write (`internal/worker/failure.go:101-111`), the sidecar's and
    hydrate's read of the source (`internal/svc/hydrate.go:260-267`) only log
    their errors. NothingMissing names the entries such an error met
    (`unsettled`).
19. Flush before a delete waits for the mount's worker. Hydrate and a re-embed,
    which put a vector into the index some steps after they read its sidecar
    (`internal/svc/hydrate.go:192-230`), and the worker of an evicted mount are
    not waited for, and can bring back what was deleted. NoResurrection names the
    tickets they had in hand (`exposed`).
20. The system's comment of a move, completion, archive flip or promotion
    (`internal/svc/tickets.go:858, 1068`) is not patched into an open page: the
    events carry a comment id "when the caller wants the thread patched"
    (`internal/eventbus/eventbus.go:72-74`), the handlers set it, and
    `renderTicketPatch` sends a row for CommentAdded only
    (`internal/web/sse_patch_ticket.go:51-66, 106-131`). UpToDate is about the
    written comments, and says of the system's that they are those there were
    when the thread was read.

## 6. Not modelled, and the plan

The map covers 13,400 source lines. Of the 42,893 lines of Go here, 15,074 are
generated from templ files, which have no behaviour beyond their markup. Most of
the rest that is not mapped moves data and decides nothing: properties for
templates, record types, YAML and front matter, HTTP clients, configuration,
logging and command-line set-up.

Left out, and why:

- Rendering and templates (`internal/web/components`), formats
  (`internal/domain`, `internal/store/{records,frontmatter}.go`,
  `internal/mcptools/format.go`): no state.
- Providers (`internal/embed`): outside calls, which answer or fail in
  EmbedWorker. Cosine and the index file: floating point and I/O; Upkeep takes
  given scores.
- `internal/store/lock_windows.go`: the contract of the Unix lock.
- Learnings and comments as embedding targets and search results: the path of
  ticket bodies, not told apart.
- SetArchivePolicy, agents' activity reports, wave plans, load_project: reports,
  or one more write of the shape modelled; `Operations` has them as calls only.
- The patches of the phase and agent pages (`internal/web/sse_patch_phase.go`,
  `sse_patch_agent.go`): they render a fragment again from what is read then, as
  the ticket page's do. The optimistic move, which shows no state of its own but
  a toast. The ring's limit in `LivePages`: `EventBus` has it. The deletion of
  the ticket a page shows.
- The command line's commit hook and process set-up (`cmd/tickets_please`).

Every safety property of the passing runs but `NeverHeldUp` has a theorem. Next
in the models: several projects in one cache (the order the LRU bound picks in),
a change of provider under running workers, the phase page, which shows tickets
two reads apart, and dependency gate and cycle check between two slots.
