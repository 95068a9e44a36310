--------------------------- MODULE AgentSessions ---------------------------
(***************************************************************************)
(* Agent sessions: the registry of internal/store/agents.go, shared by     *)
(* every process on the machine through one flock, and its three users:    *)
(*   - the MCP tools (internal/mcptools), which cache one identity for each *)
(*     connection and silently re-register it when its session expired;    *)
(*   - the web UI (internal/web/session.go), whose browsers carry the id   *)
(*     in a signed cookie that may precede the record;                     *)
(*   - the hourly sweep that moves long-expired records to the archive.    *)
(*                                                                         *)
(* Records are read, and touched, without the lock; only registration and  *)
(* the sweep's moves and index writes hold it.  A record is its key and    *)
(* its expiry: LastSeenAt, names and metadata never steer the code.  The   *)
(* key of a browser's agent is "web-ui:<id>", written here as the id.      *)
(***************************************************************************)
EXTENDS Naturals, FiniteSets

CONSTANTS
  Key,      \* keys MCP clients choose for their agents
  Conn,     \* MCP connections
  Browser,  \* browsers holding a tp_sid cookie
  Call,     \* requests in flight
  Sweeper,  \* processes running runAgentArchiver
  MaxId,    \* bound: agent ids are 1..MaxId, minted in order
  Ttl,      \* lifetime of a session
  Grace,    \* agentArchiveGrace
  Patience, \* how long a request may take
  MaxTime,  \* bound on the clock
  Budget,   \* bound: the populations considered, and the ids each may mint
  None

Id == 1..MaxId
Client == Conn \cup Browser
KeySpace == Key \cup Id
Actor == Call \cup Sweeper

ASSUME Constants ==
  /\ MaxId \in Nat /\ Ttl \in Nat /\ Grace \in Nat /\ MaxTime \in Nat
  /\ Patience \in Nat
  /\ Key \cap Id = {}
  /\ Conn \cap Browser = {}
  /\ Call \cap Sweeper = {}
  /\ DOMAIN Budget \subseteq SUBSET Client
  /\ \A p \in DOMAIN Budget : Budget[p] \in 0..MaxId
  /\ \A i \in Id : i # None
  /\ \A a \in Actor : a # None

VARIABLES
  present,   \* the clients of this behaviour
  now,       \* the clock
  live,      \* agents/<id>.yaml
  archive,   \* agents-archive/<id>.yaml
  index,     \* agent-keys/<sha256(key)>
  lock,      \* holder of <Root>/.lock
  minted,    \* ids handed out by uuid.NewString
  slot,      \* Registry.sessions of a connection, cookie of a browser
  call,      \* what each request is doing
  sweep,     \* what each sweeper is doing
  issued,    \* ids whose registration returned to its caller
  declared,  \* key of the last register_agent answered to a connection
  overtaken  \* connections that re-declared themselves under a running call

store == <<live, archive, index, lock>>
ghost == <<issued, declared, overtaken>>
vars == <<present, now, live, archive, index, lock, minted, slot, call, sweep,
          issued, declared, overtaken>>

Rec == [key : KeySpace, exp : Nat]
Session == [id : Id, key : KeySpace]

ASSUME Markers == None \notin Rec /\ None \notin Session

Idle == [pc |-> "idle"]

\* A request: what kind of caller, on which client, since when, and the
\* session it checks or the one it is registering.
Busy == [pc : {"readLive", "readArchive", "unknown", "touch", "touchWrite",
               "reg", "index", "bind"},
         kind : {"tool", "retry", "refresh", "register", "web"},
         client : Client, since : Nat, id : Id, key : KeySpace, exp : Nat]

Sweeping == [pc : {"lockOld", "move", "drop", "lockYoung", "fill"},
             old : SUBSET Session, young : SUBSET Session]

TypeOK ==
  /\ present \in DOMAIN Budget
  /\ now \in Nat
  /\ live \in [Id -> Rec \cup {None}]
  /\ archive \in [Id -> Rec \cup {None}]
  /\ index \in [KeySpace -> Id \cup {None}]
  /\ lock \in Actor \cup {None}
  /\ minted \in Nat
  /\ slot \in [Client -> Session \cup {None}]
  /\ call \in [Call -> Busy \cup {Idle}]
  /\ sweep \in [Sweeper -> Sweeping \cup {Idle}]
  /\ issued \in SUBSET Id
  /\ declared \in [Client -> Key \cup {None}]
  /\ overtaken \in SUBSET Client
-----------------------------------------------------------------------------
\* The registry starts empty, or with one session written before the key
\* index existed, or left behind by a registration that failed half way.
Init ==
  /\ present \in DOMAIN Budget
  /\ now = 0
  /\ archive = [i \in Id |-> None]
  /\ index = [k \in KeySpace |-> None]
  /\ lock = None
  /\ \/ /\ live = [i \in Id |-> None]
        /\ minted = 0
     \/ \E k \in Key :
          /\ present \cap Conn # {}
          /\ live = [i \in Id |->
                       IF i = 1 THEN [key |-> k, exp |-> Ttl] ELSE None]
          /\ minted = 1
  /\ slot = [x \in Client |-> None]
  /\ call = [c \in Call |-> Idle]
  /\ sweep = [s \in Sweeper |-> Idle]
  /\ issued = {}
  /\ declared = [x \in Client |-> None]
  /\ overtaken = {}

\* The unexpired live record the key index points at.
ActiveHolder(k) ==
  LET i == index[k]
  IN IF i = None \/ live[i] = None THEN None
     ELSE IF live[i].key = k /\ live[i].exp > now THEN i ELSE None

\* The record an id resolves to.
Resolved(i) == IF live[i] # None THEN live[i] ELSE archive[i]

Goto(c, pc) == call' = [call EXCEPT ![c].pc = pc]
Stop(c) == call' = [call EXCEPT ![c] = Idle]

\* A registration prepared in registerAgent: the id and the expiry are fixed
\* before the lock is asked for.
Registering(kind, x, i, k, since) ==
  [pc |-> "reg", kind |-> kind, client |-> x, since |-> since,
   id |-> i, key |-> k, exp |-> now + Ttl]

Checking(kind, x, s, since) ==
  [pc |-> "readLive", kind |-> kind, client |-> x, since |-> since,
   id |-> s.id, key |-> s.key, exp |-> 0]

\* A fresh uuid.
Mint == minted < Budget[present] /\ minted' = minted + 1
-----------------------------------------------------------------------------
\* A tool call takes the identity its connection has at that moment.
StartTool(c, x) ==
  /\ call[c] = Idle
  /\ slot[x] # None
  /\ call' = [call EXCEPT ![c] = Checking("tool", x, slot[x], now)]
  /\ UNCHANGED <<present, now, store, minted, slot, sweep, ghost>>

\* register_agent: a new record on every call.
StartRegister(c, x, k) ==
  /\ call[c] = Idle
  /\ Mint
  /\ call' = [call EXCEPT ![c] =
                   Registering("register", x, minted + 1, k, now)]
  /\ UNCHANGED <<present, now, store, slot, sweep, ghost>>

\* A GET from a browser without a cookie, or whose session has expired, is
\* answered with a pending id.
WebRead(b) ==
  /\ slot[b] # None =>
       Resolved(slot[b].id) # None /\ Resolved(slot[b].id).exp <= now
  /\ Mint
  /\ slot' = [slot EXCEPT ![b] = [id |-> minted + 1, key |-> minted + 1]]
  /\ UNCHANGED <<present, now, store, call, sweep, ghost>>

\* A request that may change something needs a record behind the cookie.
StartWeb(c, b) ==
  /\ call[c] = Idle
  /\ IF slot[b] # None
     THEN /\ call' = [call EXCEPT ![c] = Checking("web", b, slot[b], now)]
          /\ UNCHANGED minted
     ELSE /\ Mint
          /\ call' = [call EXCEPT ![c] =
                        Registering("web", b, minted + 1, minted + 1, now)]
  /\ UNCHANGED <<present, now, store, slot, sweep, ghost>>

\* The session cannot be used.  A first attempt of a tool call re-registers
\* the cached identity, a retried one is refused, a browser starts over.
Expired(c) ==
  LET r == call[c] IN
  CASE r.kind = "tool" ->
         /\ Mint
         /\ call' = [call EXCEPT ![c] =
               Registering("refresh", r.client, minted + 1, r.key, r.since)]
    [] r.kind = "web" ->
         /\ Mint
         /\ call' = [call EXCEPT ![c] =
               Registering("web", r.client, minted + 1, minted + 1, r.since)]
    [] OTHER -> Stop(c) /\ UNCHANGED minted

\* requireSession accepts a session to its last instant, the web does not.
Judge(c, rec) ==
  IF IF call[c].kind = "web" THEN rec.exp > now ELSE rec.exp >= now
  THEN Goto(c, "touch") /\ UNCHANGED minted
  ELSE Expired(c)

\* Mutant: an agent without a live record is taken to be unknown.
ReadLiveOnly(c) ==
  /\ call[c].pc = "readLive"
  /\ IF live[call[c].id] # None THEN Judge(c, live[call[c].id])
     ELSE Goto(c, "unknown") /\ UNCHANGED minted
  /\ UNCHANGED <<present, now, store, slot, sweep, ghost>>

\* ReadAgent looks in agents/ ...
ReadLive(c) ==
  /\ call[c].pc = "readLive"
  /\ IF live[call[c].id] # None THEN Judge(c, live[call[c].id])
     ELSE Goto(c, "readArchive") /\ UNCHANGED minted
  /\ UNCHANGED <<present, now, store, slot, sweep, ghost>>

\* ... and then in agents-archive/.
ReadArchive(c) ==
  /\ call[c].pc = "readArchive"
  /\ IF archive[call[c].id] # None THEN Judge(c, archive[call[c].id])
     ELSE Goto(c, "unknown") /\ UNCHANGED minted
  /\ UNCHANGED <<present, now, store, slot, sweep, ghost>>

\* Neither holds it: an expired session to a tool, a pending id to the web.
Unknown(c) ==
  /\ call[c].pc = "unknown"
  /\ IF call[c].kind = "web"
     THEN /\ LET r == call[c]
             IN call' = [call EXCEPT ![c] =
                           Registering("web", r.client, r.id, r.id, r.since)]
          /\ UNCHANGED minted
     ELSE Expired(c)
  /\ UNCHANGED <<present, now, store, slot, sweep, ghost>>

\* touchAgentDebounced, and Heartbeat, read the record again; within the
\* debounce window, or when the read fails, nothing is written.
TouchRead(c) ==
  /\ call[c].pc = "touch"
  /\ LET rec == Resolved(call[c].id)
     IN \/ Stop(c)
        \/ /\ rec # None
           /\ call' = [call EXCEPT ![c].pc = "touchWrite", ![c].exp = rec.exp]
  /\ UNCHANGED <<present, now, store, minted, slot, sweep, ghost>>

\* WriteAgentRecord: the record as it was read, without the lock.
TouchWrite(c) ==
  /\ call[c].pc = "touchWrite"
  /\ live' = [live EXCEPT ![call[c].id] =
                   [key |-> call[c].key, exp |-> call[c].exp]]
  /\ Stop(c)
  /\ UNCHANGED <<present, now, archive, index, lock, minted, slot, sweep,
                 ghost>>
-----------------------------------------------------------------------------
\* AgentStore.RegisterAgent under the lock: refused when another session
\* holds the key, else the record is written ...
Register(c) ==
  /\ call[c].pc = "reg"
  /\ lock = None
  /\ IF ActiveHolder(call[c].key) \notin {None, call[c].id}
     THEN Stop(c) /\ UNCHANGED <<live, lock>>
     ELSE /\ live' = [live EXCEPT ![call[c].id] =
                        [key |-> call[c].key, exp |-> call[c].exp]]
          /\ lock' = c
          /\ Goto(c, "index")
  /\ UNCHANGED <<present, now, archive, index, minted, slot, sweep, ghost>>

\* ... and then the key index.
RegisterIndex(c) ==
  /\ call[c].pc = "index"
  /\ index' = [index EXCEPT ![call[c].key] = call[c].id]
  /\ lock' = None
  /\ issued' = issued \cup {call[c].id}
  /\ Goto(c, "bind")
  /\ UNCHANGED <<present, now, live, archive, minted, slot, sweep, declared,
                 overtaken>>

\* The index cannot be written: the record stays and nobody is told its id.
RegisterFails(c) ==
  /\ call[c].pc = "index"
  /\ lock' = None
  /\ Stop(c)
  /\ UNCHANGED <<present, now, live, archive, index, minted, slot, sweep,
                 ghost>>

\* acquireFlock gives up while somebody else holds the lock.
RegisterTimeout(c) ==
  /\ call[c].pc = "reg"
  /\ lock # None
  /\ Stop(c)
  /\ UNCHANGED <<present, now, store, minted, slot, sweep, ghost>>

\* Calls of x other than c that work with another identity than k.
Stale(c, x, k) ==
  {d \in Call \ {c} : /\ call[d] # Idle
                      /\ call[d].client = x
                      /\ call[d].kind \in {"tool", "refresh"}
                      /\ call[d].key # k}

\* Mutant: a connection that has an identity keeps it.
BindOnce(c) ==
  LET r == call[c]
      s == [id |-> r.id, key |-> r.key]
  IN /\ r.pc = "bind"
     /\ slot' = IF r.kind = "register" /\ slot[r.client] # None THEN slot
                ELSE [slot EXCEPT ![r.client] = s]
     /\ CASE r.kind = "refresh" ->
               /\ call' = [call EXCEPT ![c] =
                             Checking("retry", r.client, s, r.since)]
               /\ UNCHANGED <<declared, overtaken>>
          [] r.kind = "register" ->
               /\ Stop(c)
               /\ declared' = [declared EXCEPT ![r.client] = r.key]
               /\ UNCHANGED overtaken
          [] OTHER -> Goto(c, "touch") /\ UNCHANGED <<declared, overtaken>>
     /\ UNCHANGED <<present, now, store, minted, sweep, issued>>

\* Registry.Register overwrites the connection's entry, whatever it is by
\* now; the web sends the cookie.  A refreshed tool call runs once more.
Bind(c) ==
  LET r == call[c]
      s == [id |-> r.id, key |-> r.key]
  IN /\ r.pc = "bind"
     /\ slot' = [slot EXCEPT ![r.client] = s]
     /\ CASE r.kind = "refresh" ->
               /\ call' = [call EXCEPT ![c] =
                                Checking("retry", r.client, s, r.since)]
               /\ UNCHANGED <<declared, overtaken>>
          [] r.kind = "register" ->
               /\ Stop(c)
               /\ declared' = [declared EXCEPT ![r.client] = r.key]
               /\ overtaken' = IF Stale(c, r.client, r.key) = {}
                               THEN overtaken \ {r.client}
                               ELSE overtaken \cup {r.client}
          [] OTHER -> Goto(c, "touch") /\ UNCHANGED <<declared, overtaken>>
     /\ UNCHANGED <<present, now, store, minted, sweep, issued>>
-----------------------------------------------------------------------------
Judged(i) == [id |-> i, key |-> live[i].key]

\* ArchiveExpired reads every live record without the lock.
SweepRead(s) ==
  /\ sweep[s] = Idle
  /\ LET files == {i \in Id : live[i] # None}
     IN sweep' = [sweep EXCEPT ![s] =
          [pc |-> "lockOld",
           old |-> {Judged(i) :
                      i \in {j \in files : live[j].exp + Grace < now}},
           young |-> {Judged(i) : i \in {j \in files : live[j].exp > now}}]]
  /\ UNCHANGED <<present, now, store, minted, slot, call, ghost>>

\* The expired ones are moved in one hold of the lock (a batch).
SweepLock(s) ==
  /\ sweep[s].pc = "lockOld"
  /\ IF sweep[s].old = {}
     THEN /\ sweep' = [sweep EXCEPT ![s].pc = "lockYoung"]
          /\ UNCHANGED lock
     ELSE /\ lock = None
          /\ lock' = s
          /\ sweep' = [sweep EXCEPT ![s].pc = "move"]
  /\ UNCHANGED <<present, now, live, archive, index, minted, slot, call,
                 ghost>>

\* archiveOne renames the file; a sibling may have done it first.
SweepMove(s) ==
  /\ sweep[s].pc = "move"
  /\ IF sweep[s].old = {}
     THEN /\ sweep' = [sweep EXCEPT ![s].pc = "lockYoung"]
          /\ lock' = None
          /\ UNCHANGED <<live, archive>>
     ELSE \E r \in sweep[s].old :
          /\ \A q \in sweep[s].old : r.id <= q.id
          /\ IF live[r.id] = None
             THEN /\ sweep' = [sweep EXCEPT ![s].old = @ \ {r}]
                  /\ UNCHANGED <<live, archive>>
             ELSE /\ archive' = [archive EXCEPT ![r.id] = live[r.id]]
                  /\ live' = [live EXCEPT ![r.id] = None]
                  /\ sweep' = [sweep EXCEPT ![s].pc = "drop"]
          /\ UNCHANGED lock
  /\ UNCHANGED <<present, now, index, minted, slot, call, ghost>>

\* Mutant: the entry is dropped whoever holds the key by now.
SweepDropBlind(s) ==
  /\ sweep[s].pc = "drop"
  /\ \E r \in sweep[s].old :
       /\ \A q \in sweep[s].old : r.id <= q.id
       /\ index' = [index EXCEPT ![r.key] = None]
       /\ sweep' = [sweep EXCEPT ![s].pc = "move", ![s].old = @ \ {r}]
  /\ UNCHANGED <<present, now, live, archive, lock, minted, slot, call, ghost>>

\* It then drops the key-index entry if that still names the record.
SweepDrop(s) ==
  /\ sweep[s].pc = "drop"
  /\ \E r \in sweep[s].old :
       /\ \A q \in sweep[s].old : r.id <= q.id
       /\ index' = IF index[r.key] = r.id
                   THEN [index EXCEPT ![r.key] = None] ELSE index
       /\ sweep' = [sweep EXCEPT ![s].pc = "move", ![s].old = @ \ {r}]
  /\ UNCHANGED <<present, now, live, archive, lock, minted, slot, call, ghost>>

\* Live records without an index entry get one, in one hold of the lock.
SweepFill(s) ==
  /\ sweep[s].pc \in {"lockYoung", "fill"}
  /\ IF sweep[s].young = {}
     THEN /\ sweep' = [sweep EXCEPT ![s] = Idle]
          /\ lock' = IF sweep[s].pc = "fill" THEN None ELSE lock
          /\ UNCHANGED index
     ELSE /\ sweep[s].pc = "fill" \/ lock = None
          /\ lock' = s
          /\ \E r \in sweep[s].young :
               /\ index' = IF index[r.key] = None
                           THEN [index EXCEPT ![r.key] = r.id] ELSE index
               /\ sweep' = [sweep EXCEPT ![s].pc = "fill",
                                      ![s].young = @ \ {r}]
  /\ UNCHANGED <<present, now, live, archive, minted, slot, call, ghost>>

\* The sweep gives up: the lock timed out, a file failed, or its process died.
SweepStops(s) ==
  /\ sweep[s] # Idle
  /\ sweep' = [sweep EXCEPT ![s] = Idle]
  /\ lock' = IF lock = s THEN None ELSE lock
  /\ UNCHANGED <<present, now, live, archive, index, minted, slot, call,
                 ghost>>
-----------------------------------------------------------------------------
\* The process serving x dies: its requests end, the kernel drops its flock
\* and an MCP connection loses its registry entry.
Crash(x) ==
  /\ slot[x] # None \/ \E c \in Call : call[c] # Idle /\ call[c].client = x
  /\ call' = [c \in Call |-> IF call[c] # Idle /\ call[c].client = x THEN Idle
                             ELSE call[c]]
  /\ lock' = IF lock \in Call /\ call[lock] # Idle /\ call[lock].client = x
             THEN None ELSE lock
  /\ slot' = IF x \in Conn THEN [slot EXCEPT ![x] = None] ELSE slot
  /\ declared' = [declared EXCEPT ![x] = None]
  /\ overtaken' = overtaken \ {x}
  /\ UNCHANGED <<present, now, live, archive, index, minted, sweep, issued>>

\* Time.  A request waits for nothing but the lock, whose timeout is seconds
\* against a session's hour and the grace's day.
Tick ==
  /\ now < MaxTime
  /\ \A c \in Call : call[c] # Idle => now - call[c].since < Patience
  /\ now' = now + 1
  /\ UNCHANGED <<present, store, minted, slot, call, sweep, ghost>>

CallStep(c) ==
  \/ \E x \in present \cap Conn : StartTool(c, x)
  \/ \E x \in present \cap Conn, k \in Key : StartRegister(c, x, k)
  \/ \E b \in present \cap Browser : StartWeb(c, b)
  \/ ReadLive(c) \/ ReadArchive(c) \/ Unknown(c)
  \/ TouchRead(c) \/ TouchWrite(c)
  \/ Register(c) \/ RegisterIndex(c) \/ RegisterFails(c) \/ RegisterTimeout(c)
  \/ Bind(c)

SweepStep(s) ==
  \/ SweepRead(s) \/ SweepLock(s) \/ SweepMove(s) \/ SweepDrop(s)
  \/ SweepFill(s) \/ SweepStops(s)

Next ==
  \/ \E c \in Call : CallStep(c)
  \/ \E s \in Sweeper : SweepStep(s)
  \/ \E b \in present \cap Browser : WebRead(b)
  \/ \E x \in present : Crash(x)
  \/ Tick

Spec == Init /\ [][Next]_vars
-----------------------------------------------------------------------------
Active(i) == Resolved(i) # None /\ Resolved(i).exp > now

\* RegisterAgent's promise: two sessions it handed out never hold one key at
\* the same time, whatever registrations of other processes, touches, sweeps
\* and half-finished registrations came between.
KeyHeldOnce ==
  \A i, j \in issued :
    Active(i) /\ Active(j) /\ Resolved(i).key = Resolved(j).key => i = j

\* Attribution: an id that was handed to a connection always resolves, also
\* while the sweep is moving its record between the two directories.
IssuedResolves ==
  \A c \in Call : call[c].pc = "unknown" => call[c].kind = "web"

\* What the grace is for: although records are judged, touched and written
\* without a common lock, none is ever in both directories.
OneHome == \A i \in Id : live[i] = None \/ archive[i] = None

\* Keys and records stay exact although the sweep and the registrations share no
\* lock with the touches.
RegistryExact == KeyHeldOnce /\ OneHome

\* A connection speaks with the identity it declared last, unless it declared
\* it while a call with its earlier identity was still running.
LatestIdentity ==
  \A x \in Conn :
    slot[x] # None /\ slot[x].key # declared[x] => x \in overtaken
=============================================================================
