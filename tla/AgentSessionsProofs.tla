------------------------- MODULE AgentSessionsProofs -------------------------
(***************************************************************************)
(* Proofs about AgentSessions, for any keys, connections, browsers,        *)
(* requests, sweepers, lifetimes and budgets.  The inductive invariant     *)
(* says of each request what it may rely on at the point it has reached    *)
(* (Sound), and of each connection that the identity it caches is on disk. *)
(*                                                                         *)
(* RegistryExact has an invariant of its own (Exact), for it rests on how  *)
(* long a request may last: Patience against Ttl and Grace.                *)
(***************************************************************************)
EXTENDS AgentSessions, TLAPS

Known(i) == live[i] # None \/ archive[i] # None

\* What holds of a request r in whatever state it is.
Sound(r) ==
  r.pc # "idle" =>
    /\ r.kind = "web" <=> r.client \notin Conn
    /\ r.kind = "register" => r.key \in Key
    /\ IF r.pc \in {"reg", "index", "bind"}
       THEN r.kind \in {"refresh", "register", "web"}
       ELSE r.kind \in {"tool", "retry", "web"}
    /\ r.pc \in {"index", "bind"} => Known(r.id)
    /\ r.pc \in {"readLive", "readArchive"} /\ r.kind # "web" => Known(r.id)
    /\ r.pc = "readArchive" /\ r.kind # "web" => archive[r.id] # None
    /\ r.pc = "unknown" => r.kind = "web"
    /\ r.kind \in {"tool", "refresh"} /\ r.key # declared[r.client]
         => r.client \in overtaken

Requests == \A c \in Call : Sound(call[c])

Cached == \A x \in Conn : slot[x] # None => Known(slot[x].id)

IInv == TypeOK /\ Requests /\ Cached /\ LatestIdentity

-----------------------------------------------------------------------------
\* What a request is doing tells which fields it has.
LEMMA Shape ==
  ASSUME TypeOK, NEW c \in Call
  PROVE  /\ call[c] = Idle <=> call[c].pc = "idle"
         /\ call[c].pc # "idle" => call[c] \in Busy
BY DEF TypeOK, Busy, Idle

\* The same of a sweeper.
LEMMA SweepShape ==
  ASSUME TypeOK, NEW s \in Sweeper, sweep[s] # Idle
  PROVE  sweep[s] \in Sweeping
BY DEF TypeOK

LEMMA RegisteringTyped ==
  ASSUME NEW kind \in {"refresh", "register", "web"}, NEW x \in Client,
         NEW i \in Id, NEW k \in KeySpace, NEW since \in Nat, now \in Nat
  PROVE  Registering(kind, x, i, k, since) \in Busy
BY Constants DEF Registering, Busy

LEMMA CheckingTyped ==
  ASSUME NEW kind \in {"tool", "retry", "web"}, NEW x \in Client,
         NEW s \in Session, NEW since \in Nat
  PROVE  Checking(kind, x, s, since) \in Busy
BY DEF Checking, Busy, Session

\* A record on disk, and a session, are not the absence of one.
LEMMA RecIsNotNone == ASSUME NEW rec \in Rec PROVE rec # None
BY Markers

LEMMA SessionIsNotNone == ASSUME NEW s \in Session PROVE s # None
BY Markers

LEMMA Minted ==
  ASSUME TypeOK, Mint
  PROVE  /\ minted + 1 \in Id /\ minted + 1 \in KeySpace
         /\ minted' \in Nat
<1>1. minted \in Nat
  BY DEF TypeOK
<1>2. Budget[present] \in 0..MaxId
  BY Constants DEF TypeOK
<1> QED
  BY <1>1, <1>2, Constants DEF Mint, Id, KeySpace

-----------------------------------------------------------------------------
\* A step that loses no record, re-declares nobody, and leaves each request
\* and each cached identity alone or in order, preserves the invariant.
LEMMA Ordinary ==
  ASSUME IInv, TypeOK', UNCHANGED <<declared, overtaken>>,
         \A i \in Id : /\ Known(i) => Known(i)'
                       /\ archive[i] # None => archive'[i] # None,
         \A c \in Call : call'[c] = call[c] \/ Sound(call[c])',
         \A x \in Conn :
           \/ slot'[x] = slot[x]
           \/ /\ Known(slot[x].id)'
              /\ slot'[x].key # declared[x] => x \in overtaken
  PROVE  IInv'
<1>1. Requests'
  <2> SUFFICES ASSUME NEW c \in Call, call'[c] = call[c], call[c].pc # "idle"
               PROVE  Sound(call[c])'
    BY DEF Requests, Sound
  <2>1. call[c] \in Busy /\ call[c].id \in Id
    BY Shape DEF IInv, Busy
  <2>2. Sound(call[c])
    BY DEF IInv, Requests
  <2> QED
    BY <2>1, <2>2 DEF Sound
<1>2. Cached'
  <2> SUFFICES ASSUME NEW x \in Conn, slot'[x] = slot[x], slot[x] # None
               PROVE  Known(slot[x].id)'
    BY DEF Cached
  <2>1. slot[x] \in Session
    BY DEF IInv, TypeOK, Client
  <2> QED
    BY <2>1 DEF IInv, Cached, Session
<1>3. LatestIdentity'
  BY DEF IInv, LatestIdentity
<1> QED
  BY <1>1, <1>2, <1>3 DEF IInv

\* The same, for a step of request c that touches nothing else.
LEMMA Alone ==
  ASSUME IInv, NEW c \in Call, NEW v \in Busy \cup {Idle}, Sound(v),
         call' = [call EXCEPT ![c] = v],
         minted' \in Nat, UNCHANGED <<present, now, store, slot, sweep, ghost>>
  PROVE  IInv'
<1> USE DEF store, ghost
<1>1. \A d \in Call : call'[d] = IF d = c THEN v ELSE call[d]
  BY DEF IInv, TypeOK
<1>2. TypeOK'
  BY DEF IInv, TypeOK
<1>3. Sound(call[c])'
  BY <1>1 DEF Sound, Known
<1> QED
  BY <1>1, <1>2, <1>3, Ordinary DEF Known

-----------------------------------------------------------------------------
LEMMA InitIInv == Init => IInv
<1> SUFFICES ASSUME Init PROVE IInv
  OBVIOUS
<1>1. live \in [Id -> Rec \cup {None}] /\ minted \in Nat
  <2>1. CASE live = [i \in Id |-> None] /\ minted = 0
    BY <2>1
  <2>2. ASSUME NEW k \in Key, minted = 1,
               live = [i \in Id |->
                         IF i = 1 THEN [key |-> k, exp |-> Ttl] ELSE None]
        PROVE  live \in [Id -> Rec \cup {None}] /\ minted \in Nat
    BY <2>2, Constants DEF Rec, KeySpace
  <2> QED
    BY <2>1, <2>2 DEF Init
<1>2. TypeOK
  BY <1>1 DEF Init, TypeOK
<1>3. \A c \in Call : call[c].pc = "idle"
  BY DEF Init, Idle
<1>4. Requests
  BY <1>3 DEF Requests, Sound
<1>5. Cached /\ LatestIdentity
  BY DEF Init, Cached, LatestIdentity, Client
<1> QED
  BY <1>2, <1>4, <1>5 DEF IInv

-----------------------------------------------------------------------------
LEMMA StartToolStep ==
  ASSUME IInv, NEW c \in Call, NEW x \in Conn, StartTool(c, x)
  PROVE  IInv'
<1> DEFINE v == Checking("tool", x, slot[x], now)
<1>1. slot[x] \in Session /\ x \in Client /\ now \in Nat
  BY DEF StartTool, IInv, TypeOK, Client
<1>2. v \in Busy
  BY <1>1, CheckingTyped
<1>3. Known(slot[x].id) /\ (slot[x].key # declared[x] => x \in overtaken)
  BY DEF StartTool, IInv, Cached, LatestIdentity
<1>4. Sound(v)
  BY <1>3 DEF Sound, Checking
<1> HIDE DEF v
<1> QED
  BY <1>2, <1>4, Alone DEF StartTool, IInv, TypeOK, v

LEMMA StartRegisterStep ==
  ASSUME IInv, NEW c \in Call, NEW x \in Conn, NEW k \in Key,
         StartRegister(c, x, k)
  PROVE  IInv'
<1> DEFINE v == Registering("register", x, minted + 1, k, now)
<1>1. minted + 1 \in Id /\ minted' \in Nat
  BY Minted DEF StartRegister, IInv
<1>2. v \in Busy
  <2>1. x \in Client /\ k \in KeySpace /\ now \in Nat
    BY DEF IInv, TypeOK, Client, KeySpace
  <2> QED
    BY <1>1, <2>1, RegisteringTyped
<1>3. Sound(v)
  BY DEF Sound, Registering
<1> HIDE DEF v
<1> QED
  BY <1>1, <1>2, <1>3, Alone DEF StartRegister, v

LEMMA WebReadStep ==
  ASSUME IInv, NEW b \in Browser, WebRead(b)
  PROVE  IInv'
<1> USE DEF store, ghost
<1> DEFINE s == [id |-> minted + 1, key |-> minted + 1]
<1>1. s \in Session /\ minted' \in Nat
  BY Minted DEF WebRead, IInv, Session
<1>2. slot' = [slot EXCEPT ![b] = s]
      /\ UNCHANGED <<present, now, store, call, sweep, ghost>>
  BY DEF WebRead
<1> HIDE DEF s
<1>3. TypeOK'
  BY <1>1, <1>2 DEF IInv, TypeOK
<1>4. \A x \in Conn : slot'[x] = slot[x]
  BY <1>2, Constants DEF IInv, TypeOK, Client
<1> QED
  BY <1>2, <1>3, <1>4, Ordinary DEF Known

LEMMA StartWebStep ==
  ASSUME IInv, NEW c \in Call, NEW b \in Browser, StartWeb(c, b)
  PROVE  IInv'
<1>1. b \in Client /\ b \notin Conn /\ now \in Nat
  BY Constants DEF Client, IInv, TypeOK
<1>2. CASE slot[b] # None
  <2> DEFINE v == Checking("web", b, slot[b], now)
  <2>1. slot[b] \in Session
    BY <1>1, <1>2 DEF IInv, TypeOK
  <2>2. v \in Busy
    BY <1>1, <2>1, CheckingTyped
  <2>3. Sound(v)
    BY <1>1 DEF Sound, Checking
  <2> HIDE DEF v
  <2> QED
    BY <1>2, <2>2, <2>3, Alone DEF StartWeb, v, IInv, TypeOK
<1>3. CASE slot[b] = None
  <2> DEFINE v == Registering("web", b, minted + 1, minted + 1, now)
  <2>1. minted + 1 \in Id /\ minted + 1 \in KeySpace /\ minted' \in Nat
    BY <1>3, Minted DEF StartWeb, IInv
  <2>2. v \in Busy
    BY <1>1, <2>1, RegisteringTyped
  <2>3. Sound(v)
    BY <1>1 DEF Sound, Registering
  <2> HIDE DEF v
  <2> QED
    BY <1>3, <2>1, <2>2, <2>3, Alone DEF StartWeb, v
<1> QED
  BY <1>2, <1>3

-----------------------------------------------------------------------------
\* Going on, giving up and starting over, from a point where the session is
\* only being looked at.
LEMMA Forward ==
  ASSUME IInv, NEW c \in Call,
         call[c].pc \in {"readLive", "readArchive"},
         NEW pc \in {"readArchive", "unknown", "touch"},
         pc = "readArchive" /\ call[c].kind # "web"
           => archive[call[c].id] # None,
         pc = "unknown" => call[c].kind = "web",
         Goto(c, pc), UNCHANGED <<present, now, store, minted, slot, sweep, ghost>>
  PROVE  IInv'
<1> DEFINE v == [call[c] EXCEPT !.pc = pc]
<1>1. call[c] \in Busy /\ Sound(call[c])
  BY Shape DEF IInv, Requests
<1>2. v \in Busy
  BY <1>1 DEF Busy
<1>3. /\ v.pc = pc /\ v.kind = call[c].kind /\ v.client = call[c].client
      /\ v.id = call[c].id /\ v.key = call[c].key
  BY <1>1 DEF Busy
<1>4. call' = [call EXCEPT ![c] = v]
  BY DEF Goto
<1> HIDE DEF v
<1>5. Sound(v)
  BY <1>1, <1>3 DEF Sound, Known
<1> QED
  BY <1>2, <1>4, <1>5, Alone DEF IInv, TypeOK

LEMMA Ends ==
  ASSUME IInv, NEW c \in Call, Stop(c), minted' = minted,
         UNCHANGED <<present, now, store, slot, sweep, ghost>>
  PROVE  IInv'
<1>1. Sound(Idle) /\ Idle \in Busy \cup {Idle}
  BY DEF Sound, Idle
<1> QED
  BY <1>1, Alone DEF Stop, IInv, TypeOK

LEMMA ExpiredStep ==
  ASSUME IInv, NEW c \in Call,
         call[c].pc \in {"readLive", "readArchive", "unknown"},
         Expired(c), UNCHANGED <<present, now, store, slot, sweep, ghost>>
  PROVE  IInv'
<1> DEFINE r == call[c]
<1>1. r \in Busy /\ Sound(r)
  BY Shape DEF IInv, Requests
<1>2. r.client \in Client /\ r.key \in KeySpace /\ r.since \in Nat
      /\ now \in Nat
  BY <1>1 DEF Busy, IInv, TypeOK
<1> HIDE DEF r
<1>3. CASE r.kind = "tool"
  <2> DEFINE v == Registering("refresh", r.client, minted + 1, r.key, r.since)
  <2>0. Mint /\ call' = [call EXCEPT ![c] = v]
    BY <1>3 DEF Expired, r
  <2>1. minted + 1 \in Id /\ minted' \in Nat
    BY <2>0, Minted DEF IInv
  <2>2. v \in Busy
    BY <1>2, <2>1, RegisteringTyped
  <2>3. Sound(v)
    <3>1. /\ r.client \in Conn
          /\ r.key # declared[r.client] => r.client \in overtaken
      BY <1>1, <1>3 DEF Sound, Busy, r
    <3> QED
      BY <3>1 DEF Sound, Registering
  <2> HIDE DEF v
  <2> QED
    BY <2>0, <2>1, <2>2, <2>3, Alone
<1>4. CASE r.kind = "web"
  <2> DEFINE v == Registering("web", r.client, minted + 1, minted + 1, r.since)
  <2>0. Mint /\ call' = [call EXCEPT ![c] = v]
    BY <1>4 DEF Expired, r
  <2>1. minted + 1 \in Id /\ minted + 1 \in KeySpace /\ minted' \in Nat
    BY <2>0, Minted DEF IInv
  <2>2. v \in Busy
    BY <1>2, <2>1, RegisteringTyped
  <2>3. Sound(v)
    <3>1. r.client \notin Conn
      BY <1>1, <1>4 DEF Sound, r
    <3> QED
      BY <3>1 DEF Sound, Registering
  <2> HIDE DEF v
  <2> QED
    BY <2>0, <2>1, <2>2, <2>3, Alone
<1>5. CASE r.kind \notin {"tool", "web"}
  BY <1>5, Ends DEF Expired, r
<1> QED
  BY <1>3, <1>4, <1>5

LEMMA JudgeStep ==
  ASSUME IInv, NEW c \in Call, call[c].pc \in {"readLive", "readArchive"},
         NEW rec, Judge(c, rec),
         UNCHANGED <<present, now, store, slot, sweep, ghost>>
  PROVE  IInv'
<1>1. CASE Goto(c, "touch") /\ minted' = minted
  BY <1>1, Forward
<1>2. CASE Expired(c)
  BY <1>2, ExpiredStep
<1> QED
  BY <1>1, <1>2 DEF Judge

LEMMA ReadLiveStep ==
  ASSUME IInv, NEW c \in Call, ReadLive(c)
  PROVE  IInv'
<1>1. CASE live[call[c].id] # None
  BY <1>1, JudgeStep DEF ReadLive
<1>2. CASE live[call[c].id] = None
  <2>1. call[c].kind # "web" => archive[call[c].id] # None
    BY <1>2 DEF ReadLive, IInv, Requests, Sound, Known
  <2> QED
    BY <1>2, <2>1, Forward DEF ReadLive
<1> QED
  BY <1>1, <1>2

LEMMA ReadArchiveStep ==
  ASSUME IInv, NEW c \in Call, ReadArchive(c)
  PROVE  IInv'
<1>1. CASE archive[call[c].id] # None
  BY <1>1, JudgeStep DEF ReadArchive
<1>2. CASE archive[call[c].id] = None
  <2>1. call[c].kind = "web"
    BY <1>2 DEF ReadArchive, IInv, Requests, Sound
  <2> QED
    BY <1>2, <2>1, Forward DEF ReadArchive
<1> QED
  BY <1>1, <1>2

LEMMA UnknownStep ==
  ASSUME IInv, NEW c \in Call, Unknown(c)
  PROVE  IInv'
<1> DEFINE r == call[c]
           v == Registering("web", r.client, r.id, r.id, r.since)
<1>1. r \in Busy /\ Sound(r) /\ r.pc = "unknown"
  BY Shape DEF IInv, Requests, Unknown
<1>2. r.kind = "web" /\ r.client \notin Conn
  BY <1>1 DEF Sound
<1>3. r.client \in Client /\ r.id \in Id /\ r.id \in KeySpace
      /\ r.since \in Nat /\ now \in Nat
  BY <1>1 DEF Busy, KeySpace, IInv, TypeOK
<1>4. call' = [call EXCEPT ![c] = v] /\ minted' = minted
      /\ UNCHANGED <<present, now, store, slot, sweep, ghost>>
  BY <1>2 DEF Unknown
<1> HIDE DEF r
<1>5. v \in Busy
  BY <1>3, RegisteringTyped
<1>6. Sound(v)
  BY <1>2 DEF Sound, Registering
<1> HIDE DEF v
<1> QED
  BY <1>4, <1>5, <1>6, Alone DEF IInv, TypeOK

LEMMA TouchReadStep ==
  ASSUME IInv, NEW c \in Call, TouchRead(c)
  PROVE  IInv'
<1> DEFINE rec == Resolved(call[c].id)
           v == [call[c] EXCEPT !.pc = "touchWrite", !.exp = rec.exp]
<1>1. CASE Stop(c)
  BY <1>1, Ends DEF TouchRead
<1>2. CASE rec # None /\ call' = [call EXCEPT ![c].pc = "touchWrite",
                                              ![c].exp = rec.exp]
  <2>1. call[c] \in Busy /\ Sound(call[c]) /\ call[c].pc = "touch"
    BY Shape DEF IInv, Requests, TouchRead
  <2>2. rec.exp \in Nat
    BY <1>2, <2>1 DEF Busy, Resolved, IInv, TypeOK, Rec
  <2>3. v \in Busy
    BY <2>1, <2>2 DEF Busy
  <2>4. /\ v.pc = "touchWrite" /\ v.kind = call[c].kind
        /\ v.client = call[c].client /\ v.key = call[c].key
    BY <2>1 DEF Busy
  <2>5. call' = [call EXCEPT ![c] = v]
    BY <1>2, <2>1 DEF IInv, TypeOK
  <2> HIDE DEF v
  <2>6. Sound(v)
    BY <2>1, <2>4 DEF Sound
  <2> QED
    BY <2>3, <2>5, <2>6, Alone DEF TouchRead, IInv, TypeOK
<1> QED
  BY <1>1, <1>2 DEF TouchRead

LEMMA TouchWriteStep ==
  ASSUME IInv, NEW c \in Call, TouchWrite(c)
  PROVE  IInv'
<1> USE DEF ghost
<1> DEFINE rec == [key |-> call[c].key, exp |-> call[c].exp]
<1>1. call[c] \in Busy
  BY Shape DEF IInv, TouchWrite
<1>2. rec \in Rec /\ rec # None /\ call[c].id \in Id
  BY <1>1, RecIsNotNone DEF Busy, Rec
<1> HIDE DEF rec
<1>3. live' = [live EXCEPT ![call[c].id] = rec]
  BY DEF TouchWrite, rec
<1>4. TypeOK'
  BY <1>2, <1>3 DEF TouchWrite, Stop, IInv, TypeOK
<1>5. \A d \in Call : call'[d] = call[d] \/ call'[d] = Idle
  BY DEF TouchWrite, Stop, IInv, TypeOK
<1>6. \A i \in Id : live'[i] = live[i] \/ live'[i] = rec
  BY <1>2, <1>3 DEF IInv, TypeOK
<1> QED
  BY <1>2, <1>4, <1>5, <1>6, Ordinary DEF TouchWrite, Known, Sound, Idle

-----------------------------------------------------------------------------
LEMMA RegisterStep ==
  ASSUME IInv, NEW c \in Call, Register(c)
  PROVE  IInv'
<1> USE DEF ghost
<1> DEFINE rec == [key |-> call[c].key, exp |-> call[c].exp]
           v == [call[c] EXCEPT !.pc = "index"]
<1>1. call[c] \in Busy /\ Sound(call[c]) /\ call[c].pc = "reg"
  BY Shape DEF IInv, Requests, Register
<1>2. CASE Stop(c) /\ UNCHANGED <<live, lock>>
  BY <1>2, Ends DEF Register, store, IInv, TypeOK
<1>3. CASE /\ live' = [live EXCEPT ![call[c].id] = rec]
           /\ lock' = c
           /\ Goto(c, "index")
  <2>1. rec \in Rec /\ rec # None /\ call[c].id \in Id
    BY <1>1, RecIsNotNone DEF Busy, Rec
  <2> HIDE DEF rec
  <2>2. v \in Busy
    BY <1>1 DEF Busy
  <2>3. /\ v.pc = "index" /\ v.kind = call[c].kind /\ v.id = call[c].id
        /\ v.client = call[c].client /\ v.key = call[c].key
    BY <1>1 DEF Busy
  <2>4. call' = [call EXCEPT ![c] = v]
    BY <1>3 DEF Goto
  <2> HIDE DEF v
  <2>5. TypeOK'
    BY <1>3, <2>1, <2>2, <2>4 DEF Register, IInv, TypeOK, Actor
  <2>6. \A d \in Call : call'[d] = IF d = c THEN v ELSE call[d]
    BY <2>4 DEF IInv, TypeOK
  <2>7. \A i \in Id : live'[i] = IF i = call[c].id THEN rec ELSE live[i]
    BY <1>3 DEF IInv, TypeOK
  <2>8. live'[v.id] # None
    BY <2>1, <2>3, <2>7
  <2>9. Sound(call[c])'
    BY <1>1, <2>3, <2>6, <2>8 DEF Sound, Known, Register
  <2> QED
    BY <2>1, <2>5, <2>6, <2>7, <2>9, Ordinary DEF Register, Known
<1> QED
  BY <1>2, <1>3 DEF Register

LEMMA RegisterIndexStep ==
  ASSUME IInv, NEW c \in Call, RegisterIndex(c)
  PROVE  IInv'
<1> DEFINE v == [call[c] EXCEPT !.pc = "bind"]
<1>1. call[c] \in Busy /\ Sound(call[c]) /\ call[c].pc = "index"
  BY Shape DEF IInv, Requests, RegisterIndex
<1>2. v \in Busy
  BY <1>1 DEF Busy
<1>3. /\ v.pc = "bind" /\ v.kind = call[c].kind /\ v.id = call[c].id
      /\ v.client = call[c].client /\ v.key = call[c].key
  BY <1>1 DEF Busy
<1>4. call' = [call EXCEPT ![c] = v]
  BY DEF RegisterIndex, Goto
<1> HIDE DEF v
<1>5. TypeOK'
  <2>1. call[c].id \in Id /\ call[c].key \in KeySpace
    BY <1>1 DEF Busy
  <2> QED
    BY <2>1, <1>2, <1>4 DEF RegisterIndex, IInv, TypeOK
<1>6. \A d \in Call : call'[d] = IF d = c THEN v ELSE call[d]
  BY <1>4 DEF IInv, TypeOK
<1>7. Sound(call[c])'
  BY <1>1, <1>3, <1>6 DEF Sound, Known, RegisterIndex
<1> QED
  BY <1>5, <1>6, <1>7, Ordinary DEF RegisterIndex, Known

LEMMA RegisterEndsStep ==
  ASSUME IInv, NEW c \in Call, RegisterFails(c) \/ RegisterTimeout(c)
  PROVE  IInv'
<1>1. CASE RegisterTimeout(c)
  BY <1>1, Ends DEF RegisterTimeout
<1>2. CASE RegisterFails(c)
  <2>1. TypeOK'
    BY <1>2 DEF RegisterFails, Stop, ghost, IInv, TypeOK
  <2>2. \A d \in Call : call'[d] = call[d] \/ call'[d] = Idle
    BY <1>2 DEF RegisterFails, Stop, IInv, TypeOK
  <2> QED
    BY <1>2, <2>1, <2>2, Ordinary DEF RegisterFails, Known, Sound, Idle, ghost
<1> QED
  BY <1>1, <1>2

\* The only step that changes what a connection caches.
LEMMA BindStep ==
  ASSUME IInv, NEW c \in Call, Bind(c)
  PROVE  IInv'
<1> USE DEF store
<1> DEFINE r == call[c]
           s == [id |-> r.id, key |-> r.key]
<1>1. r \in Busy /\ Sound(r) /\ r.pc = "bind"
  BY Shape DEF IInv, Requests, Bind
<1>2. /\ r.client \in Client /\ r.since \in Nat /\ s \in Session
      /\ s # None /\ s.id = r.id /\ s.key = r.key
  BY <1>1, SessionIsNotNone DEF Busy, Session
<1>3. slot' = [slot EXCEPT ![r.client] = s]
  BY DEF Bind
<1>4. slot' \in [Client -> Session \cup {None}]
      /\ \A x \in Client : slot'[x] = IF x = r.client THEN s ELSE slot[x]
  BY <1>2, <1>3 DEF IInv, TypeOK
<1>5. Known(s.id) /\ UNCHANGED <<live, archive>>
  BY <1>1, <1>2 DEF Sound, Bind
<1>6. Conn \subseteq Client
  BY DEF Client
<1>7. CASE r.kind = "refresh"
  <2> DEFINE v == Checking("retry", r.client, s, r.since)
  <2>1. call' = [call EXCEPT ![c] = v] /\ UNCHANGED <<declared, overtaken>>
    BY <1>7 DEF Bind
  <2>2. v \in Busy
    BY <1>2, CheckingTyped
  <2>3. r.client \in Conn /\ (r.key # declared[r.client] => r.client \in overtaken)
    BY <1>1, <1>7 DEF Sound, Busy
  <2>4. /\ v.pc = "readLive" /\ v.kind = "retry" /\ v.client = r.client
        /\ v.id = s.id
    BY DEF Checking
  <2> HIDE DEF r, s, v
  <2>5. TypeOK'
    BY <1>4, <2>1, <2>2 DEF Bind, IInv, TypeOK
  <2>6. \A d \in Call : call'[d] = IF d = c THEN v ELSE call[d]
    BY <2>1 DEF IInv, TypeOK
  <2>7. Sound(call[c])'
    BY <2>3, <2>4, <2>6, <1>5 DEF Sound, Known
  <2> QED
    BY <1>2, <1>4, <1>5, <1>6, <2>1, <2>3, <2>5, <2>6, <2>7, Ordinary
    DEF Bind, Known
<1>8. CASE r.kind = "web"
  <2> DEFINE v == [r EXCEPT !.pc = "touch"]
  <2>1. call' = [call EXCEPT ![c] = v] /\ UNCHANGED <<declared, overtaken>>
    BY <1>8 DEF Bind, Goto
  <2>2. v \in Busy /\ v.pc = "touch" /\ v.kind = "web" /\ v.client = r.client
    BY <1>1, <1>8 DEF Busy
  <2>3. r.client \notin Conn
    BY <1>1, <1>8 DEF Sound
  <2> HIDE DEF r, s, v
  <2>4. TypeOK'
    BY <1>4, <2>1, <2>2 DEF Bind, IInv, TypeOK
  <2>5. \A d \in Call : call'[d] = IF d = c THEN v ELSE call[d]
    BY <2>1 DEF IInv, TypeOK
  <2>6. Sound(call[c])'
    BY <2>2, <2>3, <2>5 DEF Sound, Known
  <2>7. \A x \in Conn : slot'[x] = slot[x]
    BY <1>4, <1>6, <2>3
  <2> QED
    BY <2>1, <2>4, <2>5, <2>6, <2>7, Ordinary DEF Bind, Known
<1>9. CASE r.kind = "register"
  <2>1. /\ call' = [call EXCEPT ![c] = Idle]
        /\ declared' = [declared EXCEPT ![r.client] = r.key]
        /\ overtaken' = IF Stale(c, r.client, r.key) = {}
                        THEN overtaken \ {r.client}
                        ELSE overtaken \cup {r.client}
    BY <1>9 DEF Bind, Stop
  <2>2. r.key \in Key
    BY <1>1, <1>9 DEF Sound
  <2>3. TypeOK'
    BY <1>2, <1>4, <2>1, <2>2 DEF Bind, IInv, TypeOK
  <2>4. /\ \A d \in Call : call'[d] = IF d = c THEN Idle ELSE call[d]
        /\ \A x \in Client :
             declared'[x] = IF x = r.client THEN r.key ELSE declared[x]
        /\ \A x \in Client \ {r.client} : x \in overtaken => x \in overtaken'
    BY <2>1 DEF IInv, TypeOK
  <2>5. Requests'
    <3> SUFFICES ASSUME NEW d \in Call \ {c}, call[d].pc # "idle"
                 PROVE  Sound(call[d])'
      BY <2>4 DEF Requests, Sound, Idle
    <3>1. call[d] \in Busy /\ call[d] # Idle /\ Sound(call[d])
          /\ call'[d] = call[d]
      BY <2>4, Shape DEF IInv, Requests
    <3>2. ASSUME call[d].kind \in {"tool", "refresh"},
                 call[d].key # declared'[call[d].client]
          PROVE  call[d].client \in overtaken'
      <4>1. call[d].client \in Client
        BY <3>1 DEF Busy
      <4>2. CASE call[d].client = r.client
        <5>1. d \in Stale(c, r.client, r.key)
          BY <1>2, <2>4, <3>1, <3>2, <4>2 DEF Stale
        <5> QED
          BY <2>1, <4>2, <5>1
      <4>3. CASE call[d].client # r.client
        BY <2>4, <3>1, <3>2, <4>1, <4>3 DEF Sound
      <4> QED
        BY <4>2, <4>3
    <3> HIDE DEF r
    <3> QED
      BY <3>1, <3>2 DEF Sound, Known, Bind
  <2> HIDE DEF r, s
  <2>6. Cached'
    BY <1>4, <1>5, <1>6 DEF IInv, Cached, Known, Bind
  <2>7. LatestIdentity'
    BY <1>2, <1>4, <1>6, <2>4 DEF IInv, LatestIdentity
  <2> QED
    BY <2>3, <2>5, <2>6, <2>7 DEF IInv
<1> QED
  <2>1. r.kind \in {"refresh", "register", "web"}
    BY <1>1 DEF Sound
  <2> QED
    BY <2>1, <1>7, <1>8, <1>9

-----------------------------------------------------------------------------
LEMMA SweepReadStep ==
  ASSUME IInv, NEW s \in Sweeper, SweepRead(s)
  PROVE  IInv'
<1> USE DEF store, ghost
<1>1. PICK old \in SUBSET Id, young \in SUBSET Id :
        /\ \A i \in old \cup young : live[i] # None
        /\ sweep' = [sweep EXCEPT ![s] =
             [pc |-> "lockOld", old |-> {Judged(i) : i \in old},
              young |-> {Judged(i) : i \in young}]]
  <2> DEFINE files == {i \in Id : live[i] # None}
             old == {j \in files : live[j].exp + Grace < now}
             young == {j \in files : live[j].exp > now}
  <2>1. old \in SUBSET Id /\ young \in SUBSET Id
    OBVIOUS
  <2>2. \A i \in old \cup young : live[i] # None
    OBVIOUS
  <2>3. sweep' = [sweep EXCEPT ![s] =
             [pc |-> "lockOld", old |-> {Judged(i) : i \in old},
              young |-> {Judged(i) : i \in young}]]
    BY DEF SweepRead
  <2> HIDE DEF old, young
  <2> QED
    BY <2>1, <2>2, <2>3
<1>2. \A i \in old \cup young : Judged(i) \in Session
  BY <1>1 DEF IInv, TypeOK, Judged, Session, Rec
<1>3. [pc |-> "lockOld", old |-> {Judged(i) : i \in old},
       young |-> {Judged(i) : i \in young}] \in Sweeping
  BY <1>2 DEF Sweeping
<1>4. TypeOK'
  BY <1>1, <1>3, ZenonT(30) DEF SweepRead, IInv, TypeOK
<1> QED
  BY <1>4, Ordinary DEF SweepRead, Known

\* The steps of a sweep that leave the records alone.
LEMMA SweepSidesteps ==
  ASSUME IInv, NEW s \in Sweeper, UNCHANGED <<live, archive, slot, call, ghost>>,
         TypeOK'
  PROVE  IInv'
BY Ordinary DEF Known, ghost

LEMMA SweepLockStep ==
  ASSUME IInv, NEW s \in Sweeper, SweepLock(s)
  PROVE  IInv'
<1> USE DEF ghost
<1>1. sweep[s] \in Sweeping
  BY SweepShape DEF IInv, SweepLock, Idle
<1>2. [sweep[s] EXCEPT !.pc = "lockYoung"] \in Sweeping
      /\ [sweep[s] EXCEPT !.pc = "move"] \in Sweeping
  BY <1>1 DEF Sweeping
<1>3. sweep' \in [Sweeper -> Sweeping \cup {Idle}]
  BY <1>2 DEF SweepLock, IInv, TypeOK
<1>4. lock' \in Actor \cup {None}
  BY DEF SweepLock, IInv, TypeOK, Actor
<1>5. TypeOK'
  BY <1>3, <1>4 DEF SweepLock, IInv, TypeOK
<1> QED
  BY <1>5, SweepSidesteps DEF SweepLock

LEMMA SweepMoveStep ==
  ASSUME IInv, NEW s \in Sweeper, SweepMove(s)
  PROVE  IInv'
<1> USE DEF ghost
<1>1. sweep[s] \in Sweeping
  BY SweepShape DEF IInv, SweepMove, Idle
<1>2. CASE sweep[s].old = {}
  <2>1. [sweep[s] EXCEPT !.pc = "lockYoung"] \in Sweeping
    BY <1>1 DEF Sweeping
  <2>2. TypeOK'
    BY <1>2, <2>1 DEF SweepMove, IInv, TypeOK
  <2> QED
    BY <1>2, <2>2, SweepSidesteps DEF SweepMove
<1>3. CASE sweep[s].old # {}
  <2>1. PICK r \in sweep[s].old :
          IF live[r.id] = None
          THEN /\ sweep' = [sweep EXCEPT ![s].old = @ \ {r}]
               /\ UNCHANGED <<live, archive>>
          ELSE /\ archive' = [archive EXCEPT ![r.id] = live[r.id]]
               /\ live' = [live EXCEPT ![r.id] = None]
               /\ sweep' = [sweep EXCEPT ![s].pc = "drop"]
    BY <1>3 DEF SweepMove
  <2>2. UNCHANGED <<present, now, index, lock, minted, slot, call, ghost>>
    BY <1>3 DEF SweepMove
  <2>3. r.id \in Id
    BY <1>1 DEF Sweeping, Session
  <2>4. CASE live[r.id] = None
    <3>1. [sweep[s] EXCEPT !.old = @ \ {r}] \in Sweeping
      BY <1>1 DEF Sweeping
    <3>2. TypeOK'
      BY <2>1, <2>2, <2>4, <3>1 DEF IInv, TypeOK
    <3> QED
      BY <2>1, <2>2, <2>4, <3>2, SweepSidesteps
  <2>5. CASE live[r.id] # None
    <3>1. [sweep[s] EXCEPT !.pc = "drop"] \in Sweeping
      BY <1>1 DEF Sweeping
    <3>2. TypeOK'
      BY <2>1, <2>2, <2>3, <2>5, <3>1 DEF IInv, TypeOK
    <3>3. \A i \in Id :
            /\ live'[i] = IF i = r.id THEN None ELSE live[i]
            /\ archive'[i] = IF i = r.id THEN live[r.id] ELSE archive[i]
      BY <2>1, <2>5 DEF IInv, TypeOK
    <3> QED
      BY <2>2, <2>5, <3>2, <3>3, Ordinary DEF Known
  <2> QED
    BY <2>4, <2>5
<1> QED
  BY <1>2, <1>3

LEMMA SweepDropStep ==
  ASSUME IInv, NEW s \in Sweeper, SweepDrop(s)
  PROVE  IInv'
<1> USE DEF ghost
<1>1. sweep[s] \in Sweeping
  BY SweepShape DEF IInv, SweepDrop, Idle
<1>2. PICK r \in sweep[s].old :
        /\ index' = IF index[r.key] = r.id
                    THEN [index EXCEPT ![r.key] = None] ELSE index
        /\ sweep' = [sweep EXCEPT ![s].pc = "move", ![s].old = @ \ {r}]
  BY DEF SweepDrop
<1>3. [sweep[s] EXCEPT !.pc = "move", !.old = @ \ {r}] \in Sweeping
  BY <1>1 DEF Sweeping
<1>4. sweep' \in [Sweeper -> Sweeping \cup {Idle}]
  BY <1>1, <1>2, <1>3 DEF IInv, TypeOK, Sweeping
<1>5. TypeOK'
  BY <1>2, <1>4 DEF SweepDrop, IInv, TypeOK
<1> QED
  BY <1>5, SweepSidesteps DEF SweepDrop

LEMMA SweepFillStep ==
  ASSUME IInv, NEW s \in Sweeper, SweepFill(s)
  PROVE  IInv'
<1> USE DEF ghost
<1>1. sweep[s] \in Sweeping
  BY SweepShape DEF IInv, SweepFill, Idle
<1>2. CASE sweep[s].young = {}
  <2>1. TypeOK'
    BY <1>2 DEF SweepFill, IInv, TypeOK
  <2> QED
    BY <1>2, <2>1, SweepSidesteps DEF SweepFill
<1>3. CASE sweep[s].young # {}
  <2>1. PICK r \in sweep[s].young :
          /\ index' = IF index[r.key] = None
                      THEN [index EXCEPT ![r.key] = r.id] ELSE index
          /\ sweep' = [sweep EXCEPT ![s].pc = "fill", ![s].young = @ \ {r}]
    BY <1>3 DEF SweepFill
  <2>2. r.id \in Id /\ [sweep[s] EXCEPT !.pc = "fill", !.young = @ \ {r}]
                         \in Sweeping
    BY <1>1 DEF Sweeping, Session
  <2>3. sweep' \in [Sweeper -> Sweeping \cup {Idle}]
    BY <1>1, <2>1, <2>2 DEF IInv, TypeOK, Sweeping
  <2>4. TypeOK'
    BY <1>3, <2>1, <2>2, <2>3 DEF SweepFill, IInv, TypeOK, Actor
  <2> QED
    BY <2>4, SweepSidesteps DEF SweepFill
<1> QED
  BY <1>2, <1>3

LEMMA SweepStopsStep ==
  ASSUME IInv, NEW s \in Sweeper, SweepStops(s)
  PROVE  IInv'
<1>1. TypeOK'
  BY DEF SweepStops, ghost, IInv, TypeOK
<1> QED
  BY <1>1, SweepSidesteps DEF SweepStops

-----------------------------------------------------------------------------
LEMMA CrashStep ==
  ASSUME IInv, NEW x \in Client, Crash(x)
  PROVE  IInv'
<1>1. \A c \in Call :
        call'[c] = IF call[c] # Idle /\ call[c].client = x THEN Idle
                   ELSE call[c]
  BY DEF Crash
<1>2. /\ slot' \in [Client -> Session \cup {None}]
      /\ \A y \in Conn : slot'[y] = IF y = x THEN None ELSE slot[y]
  BY DEF Crash, IInv, TypeOK, Client
<1>3. /\ declared' \in [Client -> Key \cup {None}]
      /\ \A y \in Client : declared'[y] = IF y = x THEN None ELSE declared[y]
  BY DEF Crash, IInv, TypeOK
<1>4. TypeOK'
  <2>1. call' \in [Call -> Busy \cup {Idle}]
    BY DEF Crash, IInv, TypeOK
  <2>2. lock' \in Actor \cup {None}
    BY DEF Crash, IInv, TypeOK
  <2> QED
    BY <1>2, <1>3, <2>1, <2>2 DEF Crash, IInv, TypeOK
<1>5. Requests'
  <2> SUFFICES ASSUME NEW c \in Call, call'[c].pc # "idle"
               PROVE  Sound(call[c])'
    BY DEF Requests, Sound
  <2>1. call[c] # Idle /\ call'[c] = call[c] /\ call[c].client # x
    BY <1>1 DEF Idle
  <2>2. Sound(call[c]) /\ call[c] \in Busy /\ call[c].pc # "idle"
    BY <2>1, Shape DEF IInv, Requests
  <2>3. call[c].client \in Client
    BY <2>2 DEF Busy
  <2> QED
    BY <1>3, <2>1, <2>2, <2>3 DEF Sound, Known, Crash
<1>6. Cached' /\ LatestIdentity'
  BY <1>2, <1>3 DEF IInv, Cached, LatestIdentity, Known, Crash, Client
<1> QED
  BY <1>4, <1>5, <1>6 DEF IInv

LEMMA TickStep == IInv /\ Tick => IInv'
<1> SUFFICES ASSUME IInv, Tick PROVE IInv'
  OBVIOUS
<1>1. TypeOK'
  BY DEF Tick, store, ghost, IInv, TypeOK
<1> QED
  BY <1>1, Ordinary DEF Tick, store, ghost, Known

-----------------------------------------------------------------------------
LEMMA CallStepStep ==
  ASSUME IInv, NEW c \in Call, CallStep(c)
  PROVE  IInv'
BY StartToolStep, StartRegisterStep, StartWebStep, ReadLiveStep,
   ReadArchiveStep, UnknownStep, TouchReadStep, TouchWriteStep, RegisterStep,
   RegisterIndexStep, RegisterEndsStep, BindStep
DEF CallStep

LEMMA SweepStepStep ==
  ASSUME IInv, NEW s \in Sweeper, SweepStep(s)
  PROVE  IInv'
BY SweepReadStep, SweepLockStep, SweepMoveStep, SweepDropStep, SweepFillStep,
   SweepStopsStep
DEF SweepStep

LEMMA NextIInv == IInv /\ [Next]_vars => IInv'
<1> SUFFICES ASSUME IInv, [Next]_vars PROVE IInv'
  OBVIOUS
<1>1. CASE \E c \in Call : CallStep(c)
  BY <1>1, CallStepStep
<1>2. CASE \E s \in Sweeper : SweepStep(s)
  BY <1>2, SweepStepStep
<1>3. CASE \E b \in present \cap Browser : WebRead(b)
  BY <1>3, WebReadStep
<1>4. CASE \E x \in present : Crash(x)
  <2>1. present \subseteq Client
    BY Constants DEF IInv, TypeOK
  <2> QED
    BY <1>4, <2>1, CrashStep
<1>5. CASE Tick
  BY <1>5, TickStep
<1>6. CASE UNCHANGED vars
  <2>1. TypeOK'
    BY <1>6 DEF vars, IInv, TypeOK
  <2> QED
    BY <1>6, <2>1, Ordinary DEF vars, Known
<1> QED
  BY <1>1, <1>2, <1>3, <1>4, <1>5, <1>6 DEF Next

\* The inductive invariant holds in every behaviour.
THEOREM Invariance == Spec => []IInv
<1> QED
  BY InitIInv, NextIInv, PTL DEF Spec

\* Every variable stays in its type: in particular no request ever asks for
\* an id beyond the budget of its population (uuid.NewString, agents.go).
THEOREM TypeCorrect == Spec => []TypeOK
<1>1. IInv => TypeOK
  BY DEF IInv
<1> QED
  BY <1>1, Invariance, PTL

\* ReadAgent (store/agents.go) finds every id that was handed to a
\* connection in agents/ or in agents-archive/, although it looks into one
\* after the other, without the lock, while any number of sweeps move
\* records between them: a tool call is never told that its agent is unknown.
THEOREM IssuedIdsResolve == Spec => []IssuedResolves
<1>1. IInv => IssuedResolves
  BY DEF IInv, Requests, Sound, IssuedResolves
<1> QED
  BY <1>1, Invariance, PTL

\* The silent re-registration of an expired session (mcptools/tools.go) gives
\* a connection back the identity it declared last, unless the connection
\* declared another one under a call that was still running with the first.
THEOREM IdentityIsLatest == Spec => []LatestIdentity
<1>1. IInv => LatestIdentity
  BY DEF IInv
<1> QED
  BY <1>1, Invariance, PTL
-----------------------------------------------------------------------------
(***************************************************************************)
(* The registry stays exact.                                               *)
(***************************************************************************)
\* A key under which something knows an id: a record, a request, a client or
\* the list of a sweep.
Uses(i, k) ==
  \/ live[i] # None /\ live[i].key = k
  \/ archive[i] # None /\ archive[i].key = k
  \/ \E c \in Call : call[c].pc # "idle" /\ call[c].id = i /\ call[c].key = k
  \/ \E x \in Client : slot[x] # None /\ slot[x].id = i /\ slot[x].key = k
  \/ \E s \in Sweeper : /\ sweep[s].pc # "idle"
                        /\ [id |-> i, key |-> k] \in sweep[s].old \cup sweep[s].young

\* An expiry the record of an id has, or may be given by a touch.
Value(i, e) ==
  \/ live[i] # None /\ live[i].exp = e
  \/ \E c \in Call : call[c].pc = "touchWrite" /\ call[c].id = i /\ call[c].exp = e

\* The record of i is as old as the sweep wants it.
Outdated(i) ==
  /\ Known(i)
  /\ live[i] # None => live[i].exp + Grace < now

\* An id has one key, that of an MCP client or its own, and is not in use
\* before it is minted.
Named ==
  /\ \A i \in Id, k, l \in KeySpace : Uses(i, k) =>
       /\ i <= minted
       /\ k \in Key \/ k = i
       /\ Uses(i, l) => l = k
  /\ \A c \in Call : call[c].pc # "idle" =>
       IF call[c].kind = "web" THEN call[c].key = call[c].id ELSE call[c].key \in Key
  /\ \A b \in Browser : slot[b] # None => slot[b].key = slot[b].id
  /\ \A x \in Conn : slot[x] # None => slot[x].key \in Key

\* A request that registers an MCP client is the only one to know the id.
Sole ==
  \A c \in Call : call[c].pc = "reg" /\ call[c].kind # "web" =>
    /\ ~Known(call[c].id)
    /\ \A d \in Call \ {c} : call[d].pc # "idle" => call[d].id # call[c].id
    /\ \A x \in Client : slot[x] # None => slot[x].id # call[c].id

\* What a request may rely on, by the time it has taken.
Timely(r) ==
  r.pc # "idle" =>
    /\ r.since <= now /\ now <= r.since + Patience
    /\ r.pc \in {"reg", "index", "bind"}
         => r.since + Ttl <= r.exp /\ r.exp <= now + Ttl
    /\ (\/ r.pc \in {"unknown", "reg", "index", "bind"}
        \/ r.pc = "readArchive" /\ archive[r.id] = None)
         => /\ archive[r.id] = None
            /\ \A e \in Nat : Value(r.id, e) =>
                 r.since + Ttl <= e + Patience /\ e <= r.since + Ttl + Patience
    /\ r.pc \in {"index", "bind", "touch", "touchWrite"}
         => live[r.id] # None /\ archive[r.id] = None
    /\ r.pc \in {"touch", "touchWrite"} =>
         \A e \in Nat : Value(r.id, e) => r.since <= e + 2 * Patience

\* The expiries of one id differ by no more than the requests that wrote them
\* could be apart; those of an MCP client's id do not.
Spread ==
  \A i \in Id, e, f \in Nat : Value(i, e) /\ Value(i, f) =>
    /\ e <= f + 2 * Patience
    /\ \A k \in Key : Uses(i, k) => e = f

Homes ==
  /\ OneHome
  /\ \A i \in Id : archive[i] # None => archive[i].exp + Grace < now
  /\ \A s \in Sweeper : sweep[s].pc # "idle" =>
       \A r \in sweep[s].old : Outdated(r.id)

\* Who holds the lock.
Locked ==
  /\ \A c \in Call : call[c].pc = "index" => lock = c
  /\ \A s \in Sweeper : sweep[s].pc \in {"move", "drop", "fill"} => lock = s

\* The index names an issued id, unless nobody can use it any more.
Indexed ==
  \A i \in issued :
    /\ Known(i)
    /\ \/ index[Resolved(i).key] = i
       \/ Outdated(i)
       \/ Resolved(i).key \in Key /\ ~Active(i)

\* While a key is being given to a new session, no other holds it.
Vacant ==
  \A c \in Call : call[c].pc = "index" =>
    \A i \in issued : Active(i) /\ Resolved(i).key = call[c].key => i = call[c].id

Exact == /\ Named /\ Sole /\ (\A c \in Call : Timely(call[c])) /\ Spread
         /\ Homes /\ Locked /\ Indexed /\ Vacant
-----------------------------------------------------------------------------
\* Steps that leave the records, the index and the sweeps alone: request c goes
\* on, in its own name or under a fresh id of key k, others may end, and
\* clients take the id of c, a fresh one, or none.
Taken(c, i, k) ==
  \/ c \in Call /\ call[c].pc # "idle" /\ call[c].id = i /\ call[c].key = k
  \/ \E x \in Client : slot[x] # None /\ slot[x].id = i /\ slot[x].key = k

Fresh(i, k, key) == i = minted + 1 /\ minted' = i /\ k = key

Proceeds(c, v, key) ==
  v.pc # "idle" =>
    /\ Taken(c, v.id, v.key) \/ Fresh(v.id, v.key, key)
    /\ IF v.kind = "web" THEN v.key = v.id ELSE v.key \in Key
    /\ v.pc = "touchWrite" => Value(v.id, v.exp)
    /\ v.pc # "index"
    /\ v.pc = "reg" /\ v.kind # "web" => Fresh(v.id, v.key, key)
    /\ Timely(v)

Calm(c, key) ==
  /\ UNCHANGED <<now, live, archive, index, sweep, issued>>
  /\ lock' = lock \/ (lock' = None /\ lock \in Call /\ call'[lock].pc # "index")
  /\ minted <= minted'
  /\ key \in Key \/ key = minted + 1
  /\ \A d \in Call : d # c => call'[d] = call[d] \/ call'[d] = Idle
  /\ c \in Call => Proceeds(c, call'[c], key)
  /\ \A x \in Client : slot'[x] # slot[x] /\ slot'[x] # None =>
       /\ \/ Taken(c, slot'[x].id, slot'[x].key)
          \/ c \notin Call /\ Fresh(slot'[x].id, slot'[x].key, key)
       /\ IF x \in Browser THEN slot'[x].key = slot'[x].id ELSE slot'[x].key \in Key
       /\ c \in Call => call'[c].pc # "reg"

\* Whatever knows an id knows it by its type.
LEMMA UsesTyped ==
  ASSUME TypeOK
  PROVE  /\ \A i \in Id : \A k : Uses(i, k) => k \in KeySpace
         /\ \A i \in Id : \A e : Value(i, e) => e \in Nat /\ \E k \in KeySpace : Uses(i, k)
         /\ \A c \in Call : call[c].pc # "idle" =>
              /\ call[c].id \in Id /\ call[c].key \in KeySpace
              /\ Uses(call[c].id, call[c].key)
         /\ \A x \in Client : slot[x] # None =>
              /\ slot[x].id \in Id /\ slot[x].key \in KeySpace
              /\ Uses(slot[x].id, slot[x].key)
         /\ \A i \in Id : Known(i) => \E k \in KeySpace : Uses(i, k)
<1>1. \A c \in Call : call[c].pc # "idle" => call[c] \in Busy
  BY Shape
<1>2. \A s \in Sweeper : sweep[s].pc # "idle" => sweep[s] \in Sweeping
  BY DEF TypeOK, Idle
<1>3. \A x \in Client : slot[x] # None => slot[x] \in Session
  BY DEF TypeOK
<1>4. \A i \in Id : /\ live[i] # None => live[i] \in Rec
                    /\ archive[i] # None => archive[i] \in Rec
  BY DEF TypeOK
<1>5. \A c \in Call : call[c].pc # "idle" =>
        call[c].id \in Id /\ call[c].key \in KeySpace /\ call[c].exp \in Nat
  BY <1>1 DEF Busy
<1>6. \A x \in Client : slot[x] # None => slot[x].id \in Id /\ slot[x].key \in KeySpace
  BY <1>3 DEF Session
<1>7. \A i \in Id : /\ live[i] # None => live[i].key \in KeySpace /\ live[i].exp \in Nat
                    /\ archive[i] # None => archive[i].key \in KeySpace
  BY <1>4 DEF Rec
<1>8. ASSUME NEW s \in Sweeper, sweep[s].pc # "idle", NEW i, NEW k,
             [id |-> i, key |-> k] \in sweep[s].old \cup sweep[s].young
      PROVE  k \in KeySpace
  <2>1. [id |-> i, key |-> k] \in Session
    BY <1>2, <1>8 DEF Sweeping
  <2>2. PICK r \in Session : r = [id |-> i, key |-> k]
    BY <2>1
  <2>3. r.key \in KeySpace /\ r.key = k
    BY <2>2 DEF Session
  <2> QED
    BY <2>3
<1>9. \A i \in Id : \A k : Uses(i, k) => k \in KeySpace
  BY <1>5, <1>6, <1>7, <1>8 DEF Uses
<1>10. \A i \in Id : \A e : Value(i, e) => e \in Nat /\ \E k \in KeySpace : Uses(i, k)
  <2> SUFFICES ASSUME NEW i \in Id, NEW e, Value(i, e)
               PROVE  e \in Nat /\ \E k \in KeySpace : Uses(i, k)
    OBVIOUS
  <2>1. CASE live[i] # None /\ live[i].exp = e
    BY <2>1, <1>7 DEF Uses
  <2>2. ASSUME NEW c \in Call, call[c].pc = "touchWrite", call[c].id = i, call[c].exp = e
        PROVE  e \in Nat /\ \E k \in KeySpace : Uses(i, k)
    BY <2>2, <1>5 DEF Uses
  <2> QED
    BY <2>1, <2>2 DEF Value
<1> QED
  BY <1>5, <1>6, <1>7, <1>9, <1>10 DEF Uses, Known

\* No id beyond those minted is known to anybody.
LEMMA Unminted ==
  ASSUME TypeOK, Named, NEW i \in Id, i > minted
  PROVE  /\ \A k : ~Uses(i, k)
         /\ \A e : ~Value(i, e)
         /\ ~Known(i)
         /\ \A c \in Call : call[c].pc # "idle" => call[c].id # i
         /\ \A x \in Client : slot[x] # None => slot[x].id # i
<1>1. minted \in Nat /\ i \in Nat
  BY Constants DEF TypeOK, Id
<1>2. \A k : ~Uses(i, k)
  BY <1>1, UsesTyped DEF Named
<1> QED
  BY <1>2, UsesTyped

\* Nothing is known under a new name, and no expiry appears.
LEMMA CalmUses ==
  ASSUME TypeOK, TypeOK', Named, NEW c, NEW key, Calm(c, key)
  PROVE  /\ \A i \in Id : \A k : Uses(i, k)' => Uses(i, k) \/ Fresh(i, k, key)
         /\ \A i \in Id : \A e : Value(i, e)' => Value(i, e)
<1>1. \A d \in Call : d # c => call'[d] = call[d] \/ call'[d].pc = "idle"
  BY DEF Calm, Idle
<1>2. \A i, k : Taken(c, i, k) => Uses(i, k)
  BY DEF Taken, Uses
<1>3. ASSUME NEW i \in Id, NEW k, NEW d \in Call, call'[d].pc # "idle",
             call'[d].id = i, call'[d].key = k
      PROVE  Uses(i, k) \/ Fresh(i, k, key)
  <2>1. CASE d = c
    BY <2>1, <1>2, <1>3 DEF Calm, Proceeds
  <2>2. CASE d # c
    BY <2>2, <1>1, <1>3 DEF Uses
  <2> QED
    BY <2>1, <2>2
<1>4. ASSUME NEW i \in Id, NEW k, NEW x \in Client, slot'[x] # None,
             slot'[x].id = i, slot'[x].key = k
      PROVE  Uses(i, k) \/ Fresh(i, k, key)
  <2>1. CASE slot'[x] = slot[x]
    BY <2>1, <1>4 DEF Uses
  <2>2. CASE slot'[x] # slot[x]
    BY <2>2, <1>2, <1>4 DEF Calm
  <2> QED
    BY <2>1, <2>2
<1>5. \A i \in Id : \A k : Uses(i, k)' => Uses(i, k) \/ Fresh(i, k, key)
  BY <1>3, <1>4 DEF Uses, Calm
<1>6. ASSUME NEW i \in Id, NEW e, Value(i, e)'
      PROVE  Value(i, e)
  <2>1. CASE live[i] # None /\ live[i].exp = e
    BY <2>1 DEF Value
  <2>2. ASSUME NEW d \in Call, call'[d].pc = "touchWrite", call'[d].id = i,
               call'[d].exp = e
        PROVE  Value(i, e)
    BY <2>2, <1>1 DEF Value, Calm, Proceeds
  <2> QED
    BY <1>6, <2>1, <2>2 DEF Value, Calm
<1> QED
  BY <1>5, <1>6

\* Ids keep their keys.
LEMMA CalmNamed ==
  ASSUME TypeOK, TypeOK', Exact, NEW c, NEW key, Calm(c, key)
  PROVE  Named'
<1>0. Named /\ minted \in Nat /\ minted' \in Nat /\ \A i \in Id : i \in Nat
  BY Constants DEF Exact, TypeOK, Id
<1>1. ASSUME NEW i \in Id, NEW k \in KeySpace, NEW l \in KeySpace, Uses(i, k)'
      PROVE  /\ i <= minted'
             /\ k \in Key \/ k = i
             /\ Uses(i, l)' => l = k
  <2>1. CASE i = minted + 1
    <3>1. \A m : Uses(i, m)' => Fresh(i, m, key)
      BY <1>0, <2>1, CalmUses, Unminted
    <3> QED
      BY <3>1, <1>0, <1>1 DEF Fresh, Calm
  <2>2. CASE i # minted + 1
    <3>1. \A m : Uses(i, m)' => Uses(i, m)
      BY <1>0, <2>2, CalmUses DEF Fresh
    <3>2. Uses(i, k)
      BY <3>1, <1>1
    <3> QED
      BY <3>1, <3>2, <1>0 DEF Named, Calm
  <2> QED
    BY <2>1, <2>2
<1>2. ASSUME NEW d \in Call, call'[d].pc # "idle"
      PROVE  IF call'[d].kind = "web" THEN call'[d].key = call'[d].id
             ELSE call'[d].key \in Key
  <2>1. CASE d = c
    BY <2>1, <1>2 DEF Calm, Proceeds
  <2>2. CASE d # c
    BY <2>2, <1>0, <1>2 DEF Calm, Idle, Named
  <2> QED
    BY <2>1, <2>2
<1>3. ASSUME NEW b \in Browser, slot'[b] # None
      PROVE  slot'[b].key = slot'[b].id
  BY <1>0, <1>3 DEF Calm, Named, Client
<1>4. ASSUME NEW x \in Conn, slot'[x] # None
      PROVE  slot'[x].key \in Key
  BY <1>0, <1>4, Constants DEF Calm, Named, Client
<1> QED
  BY <1>1, <1>2, <1>3, <1>4 DEF Named

\* A prepared registration stays the only one to know its id.
LEMMA CalmSole ==
  ASSUME TypeOK, TypeOK', Exact, NEW c, NEW key, Calm(c, key)
  PROVE  Sole'
<1>0. Named /\ Sole /\ minted \in Nat /\ \A i \in Id : i \in Nat
  BY Constants DEF Exact, TypeOK, Id
<1>a. \A d \in Call : d # c => call'[d] = call[d] \/ call'[d].pc = "idle"
  BY DEF Calm, Idle
<1>b. \A i \in Id : Known(i)' = Known(i)
  BY DEF Calm, Known
<1>c. \A d \in Call : call'[d].pc # "idle" => call'[d].id \in Id
  BY DEF TypeOK, Busy, Idle
<1> SUFFICES ASSUME NEW d \in Call, call'[d].pc = "reg", call'[d].kind # "web"
             PROVE  /\ ~Known(call'[d].id)
                    /\ \A f \in Call \ {d} :
                         call'[f].pc # "idle" => call'[f].id # call'[d].id
                    /\ \A x \in Client : slot'[x] # None => slot'[x].id # call'[d].id
  BY <1>b, <1>c DEF Sole
<1>1. CASE d = c
  <2>1. call'[d].id = minted + 1 /\ minted' = minted + 1
    BY <1>1 DEF Calm, Proceeds, Fresh
  <2>2. call'[d].id \in Id /\ call'[d].id > minted
    BY <1>0, <1>c, <2>1
  <2>3. \A f \in Call : call[f].pc # "idle" => call[f].id # call'[d].id
    BY <1>0, <2>2, Unminted
  <2>4. \A x \in Client : slot'[x] = slot[x] \/ slot'[x] = None
    BY <1>1 DEF Calm
  <2> QED
    BY <1>0, <1>1, <1>a, <2>2, <2>3, <2>4, Unminted
<1>2. CASE d # c
  <2>1. call'[d] = call[d] /\ call[d].pc = "reg" /\ call[d].kind # "web"
    BY <1>2, <1>a
  <2>2. /\ ~Known(call[d].id)
        /\ \A f \in Call \ {d} : call[f].pc # "idle" => call[f].id # call[d].id
        /\ \A x \in Client : slot[x] # None => slot[x].id # call[d].id
    BY <1>0, <2>1 DEF Sole
  <2>3. call[d].id \in Id /\ call[d].id <= minted
    BY <1>0, <2>1, UsesTyped DEF Named
  <2>4. \A k : ~Taken(c, call[d].id, k)
    BY <1>2, <2>2 DEF Taken
  <2>5. \A k : ~Fresh(call[d].id, k, key)
    BY <1>0, <2>3 DEF Fresh
  <2>6. c \in Call /\ call'[c].pc # "idle" => call'[c].id # call[d].id
    BY <2>4, <2>5 DEF Calm, Proceeds
  <2>7. \A x \in Client : slot'[x] # None => slot'[x].id # call[d].id
    BY <2>2, <2>4, <2>5 DEF Calm
  <2> QED
    BY <1>a, <2>1, <2>2, <2>6, <2>7
<1> QED
  BY <1>1, <1>2

\* A request keeps what it relies on, as time, records and known expiries do.
LEMMA StaysTimely ==
  ASSUME TypeOK, NEW d \in Call, Timely(call[d]), call'[d] = call[d],
         UNCHANGED <<now, archive>>,
         \A i \in Id : live[i] # None => live'[i] # None,
         \A i \in Id : \A e : Value(i, e)' => Value(i, e)
  PROVE  Timely(call[d])'
<1>1. call[d].pc # "idle" => call[d].id \in Id
  BY UsesTyped
<1> QED
  BY <1>1 DEF Timely

\* Such a step preserves the invariant.
LEMMA CalmStep ==
  ASSUME IInv, TypeOK', Exact, NEW c, NEW key, Calm(c, key)
  PROVE  Exact'
<1>0. TypeOK /\ Named /\ Spread /\ Homes /\ Locked /\ Indexed /\ Vacant
      /\ minted \in Nat /\ \A i \in Id : i \in Nat
  BY Constants DEF Exact, IInv, TypeOK, Id
<1>a. \A d \in Call : d # c => call'[d] = call[d] \/ call'[d].pc = "idle"
  BY DEF Calm, Idle
<1>b. /\ \A i \in Id : \A k : Uses(i, k)' => Uses(i, k) \/ Fresh(i, k, key)
      /\ \A i \in Id : \A e : Value(i, e)' => Value(i, e)
  BY <1>0, CalmUses
<1>c. UNCHANGED <<now, live, archive, index, sweep, issued>>
  BY DEF Calm
<1>1. Named' /\ Sole'
  BY <1>0, CalmNamed, CalmSole
<1>2. ASSUME NEW d \in Call PROVE Timely(call[d])'
  <2>1. CASE d = c /\ call'[d].pc # "idle"
    <3>1. Timely(call'[d])
      BY <2>1 DEF Calm, Proceeds
    <3>2. call'[d].id \in Id
      BY <2>1 DEF TypeOK, Busy, Idle
    <3> QED
      BY <3>1, <3>2, <1>b, <1>c DEF Timely
  <2>2. CASE call'[d] = call[d]
    BY <2>2, <1>0, <1>b, <1>c, StaysTimely DEF Exact
  <2>3. CASE call'[d].pc = "idle"
    BY <2>3 DEF Timely
  <2> QED
    BY <2>1, <2>2, <2>3, <1>a
<1>3. Spread'
  <2> SUFFICES ASSUME NEW i \in Id, NEW e \in Nat, NEW f \in Nat,
                      Value(i, e)', Value(i, f)'
               PROVE  /\ e <= f + 2 * Patience
                      /\ \A k \in Key : Uses(i, k)' => e = f
    BY DEF Spread
  <2>1. Value(i, e) /\ Value(i, f)
    BY <1>b
  <2>2. \A k : ~Fresh(i, k, key)
    BY <1>0, <2>1, Unminted DEF Fresh
  <2> QED
    BY <1>0, <1>b, <2>1, <2>2 DEF Spread
<1>4. Homes'
  BY <1>0, <1>c DEF Homes, OneHome, Outdated, Known
<1>5. Locked'
  <2>1. ASSUME NEW d \in Call, call'[d].pc = "index" PROVE lock' = d
    <3>1. call'[d] = call[d]
      BY <2>1, <1>a DEF Calm, Proceeds
    <3> QED
      BY <3>1, <2>1, <1>0 DEF Locked, Calm
  <2>2. ASSUME NEW s \in Sweeper, sweep[s].pc \in {"move", "drop", "fill"}
        PROVE  lock' = s
    BY <2>2, <1>0, Constants DEF Locked, Calm
  <2> QED
    BY <2>1, <2>2, <1>c DEF Locked
<1>6. Indexed'
  BY <1>0, <1>c DEF Indexed, Known, Outdated, Resolved, Active
<1>7. Vacant'
  <2>1. \A d \in Call : call'[d].pc = "index" => call'[d] = call[d]
    BY <1>a DEF Calm, Proceeds
  <2> QED
    BY <2>1, <1>0, <1>c DEF Vacant, Active, Resolved
<1> QED
  BY <1>1, <1>2, <1>3, <1>4, <1>5, <1>6, <1>7 DEF Exact
\* The same, for a step that touches only request c.
LEMMA Going ==
  ASSUME IInv, IInv', Exact, NEW c \in Call, NEW v, NEW key,
         call' = [call EXCEPT ![c] = v], Proceeds(c, v, key),
         key \in Key \/ key = minted + 1, minted <= minted',
         UNCHANGED <<now, store, slot, sweep, issued>>
  PROVE  Exact'
<1>1. \A d \in Call : call'[d] = IF d = c THEN v ELSE call[d]
  BY DEF IInv, TypeOK
<1>2. Calm(c, key)
  BY <1>1 DEF Calm, store
<1> QED
  BY <1>2, CalmStep DEF IInv

LEMMA Stopping ==
  ASSUME IInv, IInv', Exact, NEW c \in Call, Stop(c), minted' = minted,
         UNCHANGED <<now, store, slot, sweep, issued>>
  PROVE  Exact'
<1>1. Proceeds(c, Idle, minted + 1) /\ minted <= minted'
  BY DEF Proceeds, Idle, IInv, TypeOK
<1> QED
  BY <1>1, Going DEF Stop

\* A new registration under a fresh id.
LEMMA Minting ==
  ASSUME IInv, IInv', Exact, NEW c \in Call, Mint,
         NEW kind \in {"register", "refresh", "web"}, NEW x, NEW since \in Nat,
         NEW k, IF kind = "web" THEN k = minted + 1 ELSE k \in Key,
         since <= now, now <= since + Patience,
         call' = [call EXCEPT ![c] = Registering(kind, x, minted + 1, k, since)],
         UNCHANGED <<now, store, slot, sweep, issued>>
  PROVE  Exact'
<1> DEFINE v == Registering(kind, x, minted + 1, k, since)
<1>1. /\ minted \in Nat /\ now \in Nat /\ Ttl \in Nat /\ Patience \in Nat
      /\ minted + 1 \in Id /\ minted' = minted + 1
  BY Constants, Minted DEF IInv, TypeOK, Mint
<1>2. /\ v.pc = "reg" /\ v.kind = kind /\ v.id = minted + 1 /\ v.key = k
      /\ v.since = since /\ v.exp = now + Ttl
  BY DEF Registering
<1>3. ~Known(minted + 1) /\ \A e : ~Value(minted + 1, e)
  BY <1>1, Unminted DEF Exact, IInv
<1> HIDE DEF v
<1>4. Timely(v)
  BY <1>1, <1>2, <1>3 DEF Timely, Known
<1>5. Proceeds(c, v, k)
  BY <1>1, <1>2, <1>4 DEF Proceeds, Fresh
<1>6. minted <= minted' /\ (k \in Key \/ k = minted + 1)
  BY <1>1
<1>7. call' = [call EXCEPT ![c] = v]
  BY DEF v
<1> QED
  BY <1>5, <1>6, <1>7, Going

\* The handlers that begin a request.
LEMMA StartToolExact ==
  ASSUME IInv, IInv', Exact, NEW c \in Call, NEW x \in Conn, StartTool(c, x)
  PROVE  Exact'
<1> DEFINE v == Checking("tool", x, slot[x], now)
<1>1. /\ x \in Client /\ slot[x] # None /\ slot[x].key \in Key
      /\ now \in Nat /\ Patience \in Nat /\ minted \in Nat
  BY Constants DEF StartTool, Exact, Named, Client, IInv, TypeOK
<1>2. /\ v.pc = "readLive" /\ v.kind = "tool" /\ v.id = slot[x].id
      /\ v.key = slot[x].key /\ v.since = now
  BY DEF Checking
<1> HIDE DEF v
<1>3. Proceeds(c, v, minted + 1)
  BY <1>1, <1>2 DEF Proceeds, Taken, Timely
<1>4. /\ call' = [call EXCEPT ![c] = v] /\ minted <= minted'
      /\ UNCHANGED <<now, store, slot, sweep, issued>>
  BY <1>1 DEF StartTool, v, ghost
<1> QED
  BY <1>3, <1>4, Going

LEMMA StartRegisterExact ==
  ASSUME IInv, IInv', Exact, NEW c \in Call, NEW x \in Conn, NEW k \in Key,
         StartRegister(c, x, k)
  PROVE  Exact'
<1>1. now \in Nat /\ now <= now + Patience
  BY Constants DEF IInv, TypeOK
<1>2. /\ call' = [call EXCEPT ![c] = Registering("register", x, minted + 1, k, now)]
      /\ Mint /\ UNCHANGED <<now, store, slot, sweep, issued>>
  BY DEF StartRegister, ghost
<1>3. now <= now
  BY <1>1
<1> QED
  BY <1>1, <1>2, <1>3, Minting

LEMMA StartWebExact ==
  ASSUME IInv, IInv', Exact, NEW c \in Call, NEW b \in Browser, StartWeb(c, b)
  PROVE  Exact'
<1>1. now \in Nat /\ Patience \in Nat /\ now <= now + Patience /\ minted \in Nat
  BY Constants DEF IInv, TypeOK
<1>2. CASE slot[b] = None
  BY <1>1, <1>2, Minting DEF StartWeb, ghost
<1>3. CASE slot[b] # None
  <2> DEFINE v == Checking("web", b, slot[b], now)
  <2>1. b \in Client /\ slot[b].key = slot[b].id
    BY <1>3 DEF Exact, Named, Client
  <2>2. /\ v.pc = "readLive" /\ v.kind = "web" /\ v.id = slot[b].id
        /\ v.key = slot[b].key /\ v.since = now
    BY DEF Checking
  <2> HIDE DEF v
  <2>3. Proceeds(c, v, minted + 1)
    BY <1>1, <1>3, <2>1, <2>2 DEF Proceeds, Taken, Timely
  <2> QED
    BY <1>1, <1>3, <2>3, Going DEF StartWeb, v, ghost
<1> QED
  BY <1>2, <1>3

LEMMA WebReadExact ==
  ASSUME IInv, IInv', Exact, NEW b \in Browser, WebRead(b)
  PROVE  Exact'
<1> DEFINE s == [id |-> minted + 1, key |-> minted + 1]
<1>1. minted \in Nat /\ minted' = minted + 1 /\ b \in Client /\ None \notin Call
  BY Constants DEF IInv, TypeOK, Client, WebRead, Mint, Actor
<1>2. /\ slot' = [slot EXCEPT ![b] = s] /\ s.id = minted + 1 /\ s.key = minted + 1
      /\ UNCHANGED <<now, live, archive, index, lock, call, sweep, issued>>
  BY DEF WebRead, store, ghost
<1> HIDE DEF s
<1>3. \A x \in Client : slot'[x] = IF x = b THEN s ELSE slot[x]
  BY <1>2 DEF IInv, TypeOK
<1>4. Calm(None, minted + 1)
  BY <1>1, <1>2, <1>3 DEF Calm, Fresh
<1> QED
  BY <1>4, CalmStep DEF IInv

\* A request that found its record, or missed it, goes on with what it has.
LEMMA Onward ==
  ASSUME IInv, IInv', Exact, NEW c \in Call, NEW pc, call[c].pc # "idle",
         Goto(c, pc), pc \notin {"idle", "index", "touchWrite", "reg"},
         Timely([call[c] EXCEPT !.pc = pc]), minted' = minted,
         UNCHANGED <<now, store, slot, sweep, issued>>
  PROVE  Exact'
<1> DEFINE v == [call[c] EXCEPT !.pc = pc]
<1>1. call[c] \in Busy /\ minted \in Nat
  BY Shape DEF IInv, TypeOK
<1>2. /\ v.pc = pc /\ v.kind = call[c].kind /\ v.id = call[c].id /\ v.key = call[c].key
  BY <1>1 DEF Busy
<1>3. call' = [call EXCEPT ![c] = v]
  BY DEF Goto
<1> HIDE DEF v
<1>4. Proceeds(c, v, minted + 1)
  BY <1>2 DEF Proceeds, Taken, Exact, Named, v
<1>5. minted <= minted'
  BY <1>1
<1> QED
  BY <1>3, <1>4, <1>5, Going

LEMMA ExpiredExact ==
  ASSUME IInv, IInv', Exact, NEW c \in Call, call[c].pc # "idle", Expired(c),
         UNCHANGED <<now, store, slot, sweep, issued>>
  PROVE  Exact'
<1>1. /\ call[c].since \in Nat /\ call[c].since <= now
      /\ now <= call[c].since + Patience
  BY Shape DEF IInv, Busy, Exact, Timely
<1>2. CASE call[c].kind = "tool"
  <2>1. call[c].key \in Key
    BY <1>2 DEF Exact, Named
  <2> QED
    BY <1>1, <1>2, <2>1, Minting DEF Expired
<1>3. CASE call[c].kind = "web"
  BY <1>1, <1>3, Minting DEF Expired
<1>4. CASE call[c].kind \notin {"tool", "web"}
  BY <1>4, Stopping DEF Expired
<1> QED
  BY <1>2, <1>3, <1>4

\* A record found in agents/ is accepted or is found expired.
LEMMA ReadLiveExact ==
  ASSUME IInv, IInv', Exact, NEW c \in Call, ReadLive(c)
  PROVE  Exact'
<1> DEFINE r == call[c]
<1>0. /\ r.pc = "readLive" /\ r \in Busy /\ Timely(r)
      /\ UNCHANGED <<now, store, slot, sweep, issued>>
  BY Shape DEF ReadLive, IInv, Exact, ghost
<1>1. r.id \in Id /\ r.since \in Nat /\ now \in Nat /\ Patience \in Nat
  BY <1>0, Constants DEF Busy, IInv, TypeOK
<1>2. CASE live[r.id] # None
  <2>1. live[r.id].exp \in Nat /\ archive[r.id] = None
    BY <1>1, <1>2 DEF IInv, TypeOK, Rec, Exact, Homes, OneHome
  <2>2. CASE live[r.id].exp >= now /\ Goto(c, "touch") /\ minted' = minted
    <3> DEFINE v == [r EXCEPT !.pc = "touch"]
    <3>1. v.pc = "touch" /\ v.since = r.since /\ v.id = r.id
      BY <1>0 DEF Busy
    <3>2. r.since <= now /\ now <= r.since + Patience /\ r.since <= live[r.id].exp
      BY <1>0, <1>1, <2>1, <2>2 DEF Timely
    <3>3. ASSUME NEW e \in Nat, Value(r.id, e) PROVE r.since <= e + 2 * Patience
      <4>1. Value(r.id, live[r.id].exp)
        BY <1>2 DEF Value
      <4>2. live[r.id].exp <= e + 2 * Patience
        BY <1>1, <2>1, <3>3, <4>1 DEF Exact, Spread
      <4> QED
        BY <1>1, <2>1, <3>2, <4>2
    <3> HIDE DEF v
    <3>4. Timely(v)
      BY <1>2, <2>1, <3>1, <3>2, <3>3 DEF Timely
    <3> QED
      BY <1>0, <2>2, <3>4, Onward DEF v
  <2>3. CASE Expired(c)
    BY <1>0, <2>3, ExpiredExact
  <2> QED
    BY <1>1, <1>2, <2>1, <2>2, <2>3 DEF ReadLive, Judge
<1>3. CASE live[r.id] = None
  <2> DEFINE v == [r EXCEPT !.pc = "readArchive"]
  <2>1. v.pc = "readArchive" /\ v.since = r.since /\ v.id = r.id
    BY <1>0 DEF Busy
  <2>2. \A e : ~Value(r.id, e)
    BY <1>3 DEF Value, Exact, Timely
  <2> HIDE DEF v
  <2>3. Timely(v)
    BY <1>0, <2>1, <2>2 DEF Timely
  <2> QED
    BY <1>0, <1>3, <2>3, Onward DEF ReadLive, v
<1> QED
  BY <1>2, <1>3

\* What lies in the archive has expired, and so is never accepted.
LEMMA ReadArchiveExact ==
  ASSUME IInv, IInv', Exact, NEW c \in Call, ReadArchive(c)
  PROVE  Exact'
<1> DEFINE r == call[c]
<1>0. /\ r.pc = "readArchive" /\ r \in Busy /\ Timely(r)
      /\ UNCHANGED <<now, store, slot, sweep, issued>>
  BY Shape DEF ReadArchive, IInv, Exact, ghost
<1>1. r.id \in Id /\ now \in Nat /\ Grace \in Nat
  BY <1>0, Constants DEF Busy, IInv, TypeOK
<1>2. CASE archive[r.id] # None
  <2>1. archive[r.id].exp \in Nat /\ archive[r.id].exp + Grace < now
    BY <1>1, <1>2 DEF IInv, TypeOK, Rec, Exact, Homes
  <2>2. ~(archive[r.id].exp > now) /\ ~(archive[r.id].exp >= now)
    BY <1>1, <2>1
  <2>3. Expired(c)
    BY <1>2, <2>2 DEF ReadArchive, Judge
  <2> QED
    BY <1>0, <2>3, ExpiredExact
<1>3. CASE archive[r.id] = None
  <2> DEFINE v == [r EXCEPT !.pc = "unknown"]
  <2>1. v.pc = "unknown" /\ v.since = r.since /\ v.id = r.id
    BY <1>0 DEF Busy
  <2> HIDE DEF v
  <2>2. Timely(v)
    BY <1>0, <1>3, <2>1 DEF Timely
  <2> QED
    BY <1>0, <1>3, <2>2, Onward DEF ReadArchive, v
<1> QED
  BY <1>2, <1>3

\* A pending browser registers under the id it already has.
LEMMA UnknownExact ==
  ASSUME IInv, IInv', Exact, NEW c \in Call, Unknown(c)
  PROVE  Exact'
<1> DEFINE r == call[c]
           v == Registering("web", r.client, r.id, r.id, r.since)
<1>0. /\ r.pc = "unknown" /\ r \in Busy /\ Timely(r) /\ r.kind = "web"
      /\ UNCHANGED <<now, store, slot, sweep, issued>>
  BY Shape DEF Unknown, IInv, Exact, ghost, Requests, Sound
<1>1. /\ r.since \in Nat /\ now \in Nat /\ Ttl \in Nat /\ Patience \in Nat
      /\ minted \in Nat /\ r.key = r.id
  BY <1>0, Constants DEF Busy, IInv, TypeOK, Exact, Named
<1>2. call' = [call EXCEPT ![c] = v] /\ minted' = minted
  BY <1>0 DEF Unknown
<1>3. /\ v.pc = "reg" /\ v.kind = "web" /\ v.id = r.id /\ v.key = r.id
      /\ v.since = r.since /\ v.exp = now + Ttl
  BY DEF Registering
<1> HIDE DEF v
<1>4. Timely(v)
  BY <1>0, <1>1, <1>3 DEF Timely
<1>5. Proceeds(c, v, minted + 1)
  BY <1>0, <1>1, <1>3, <1>4 DEF Proceeds, Taken
<1>6. minted <= minted'
  BY <1>1, <1>2
<1> QED
  BY <1>0, <1>2, <1>5, <1>6, Going

\* The expiry a touch will write is the record's.
LEMMA TouchReadExact ==
  ASSUME IInv, IInv', Exact, NEW c \in Call, TouchRead(c)
  PROVE  Exact'
<1> DEFINE r == call[c]
           rec == Resolved(r.id)
           v == [r EXCEPT !.pc = "touchWrite", !.exp = rec.exp]
<1>0. /\ r.pc = "touch" /\ r \in Busy /\ Timely(r) /\ minted' = minted
      /\ UNCHANGED <<now, store, slot, sweep, issued>>
  BY Shape DEF TouchRead, IInv, Exact, ghost
<1>1. CASE Stop(c)
  BY <1>0, <1>1, Stopping
<1>2. CASE call' = [call EXCEPT ![c].pc = "touchWrite", ![c].exp = rec.exp]
  <2>1. live[r.id] # None
    BY <1>0 DEF Timely
  <2>2. /\ v.pc = "touchWrite" /\ v.kind = r.kind /\ v.id = r.id /\ v.key = r.key
        /\ v.since = r.since /\ v.exp = live[r.id].exp
    BY <1>0, <2>1 DEF Busy, Resolved
  <2>a. call' = [call EXCEPT ![c] = v]
    BY <1>0, <1>2, <2>1 DEF IInv, TypeOK, Resolved
  <2>b. minted <= minted'
    BY <1>0 DEF IInv, TypeOK
  <2> HIDE DEF v
  <2>4. Timely(v)
    BY <1>0, <2>2 DEF Timely
  <2>5. Proceeds(c, v, minted + 1)
    BY <1>0, <2>1, <2>2, <2>4 DEF Proceeds, Taken, Value, Exact, Named
  <2> QED
    BY <1>0, <2>a, <2>b, <2>5, Going
<1> QED
  BY <1>1, <1>2 DEF TouchRead

LEMMA RegisterEndsExact ==
  ASSUME IInv, IInv', Exact, NEW c \in Call, RegisterFails(c) \/ RegisterTimeout(c)
  PROVE  Exact'
<1>1. CASE RegisterTimeout(c)
  BY <1>1, Stopping DEF RegisterTimeout, ghost
<1>2. CASE RegisterFails(c)
  <2>1. lock = c /\ minted \in Nat
    BY <1>2 DEF RegisterFails, Exact, Locked, IInv, TypeOK
  <2>2. \A d \in Call : call'[d] = IF d = c THEN Idle ELSE call[d]
    BY <1>2 DEF RegisterFails, Stop, IInv, TypeOK
  <2>3. Calm(c, minted + 1)
    BY <1>2, <2>1, <2>2 DEF RegisterFails, Calm, Proceeds, Idle, ghost
  <2> QED
    BY <2>3, CalmStep DEF IInv
<1> QED
  BY <1>1, <1>2

\* The client takes the id its request registered.
LEMMA BindExact ==
  ASSUME Patience <= Ttl, IInv, IInv', Exact, NEW c \in Call, Bind(c)
  PROVE  Exact'
<1> DEFINE r == call[c]
           s == [id |-> r.id, key |-> r.key]
<1>0. /\ r.pc = "bind" /\ r \in Busy /\ Timely(r) /\ Sound(r)
      /\ UNCHANGED <<now, live, archive, index, lock, sweep, issued, minted>>
  BY Shape DEF Bind, IInv, Exact, store, Requests
<1>1. /\ r.client \in Client /\ r.since \in Nat /\ minted \in Nat
      /\ Ttl \in Nat /\ Patience \in Nat
      /\ IF r.kind = "web" THEN r.key = r.id ELSE r.key \in Key
      /\ IF r.kind = "web" THEN r.client \notin Conn ELSE r.client \in Conn
  BY <1>0, Constants DEF Busy, IInv, TypeOK, Exact, Named, Sound
<1>2. /\ \A x \in Client : slot'[x] = IF x = r.client THEN s ELSE slot[x]
      /\ s.id = r.id /\ s.key = r.key
  BY DEF Bind, IInv, TypeOK
<1>3. /\ \A d \in Call : d # c => call'[d] = call[d]
      /\ call'[c].pc # "idle" =>
           /\ call'[c].pc \in {"readLive", "touch"} /\ call'[c].id = r.id
           /\ call'[c].key = r.key /\ call'[c].since = r.since
           /\ call'[c].kind = "web" <=> r.kind = "web"
  <2>1. CASE r.kind = "refresh"
    <3> DEFINE v == Checking("retry", r.client, s, r.since)
    <3>1. /\ v.pc = "readLive" /\ v.id = r.id /\ v.key = r.key
          /\ v.since = r.since /\ v.kind = "retry"
      BY DEF Checking
    <3>2. call' = [call EXCEPT ![c] = v]
      BY <2>1 DEF Bind
    <3> HIDE DEF v
    <3> QED
      BY <2>1, <3>1, <3>2 DEF IInv, TypeOK
  <2>2. CASE r.kind = "register"
    BY <2>2 DEF Bind, Stop, Idle, IInv, TypeOK
  <2>3. CASE r.kind = "web"
    <3> DEFINE v == [r EXCEPT !.pc = "touch"]
    <3>1. /\ v.pc = "touch" /\ v.id = r.id /\ v.key = r.key
          /\ v.since = r.since /\ v.kind = "web"
      BY <1>0, <2>3 DEF Busy
    <3>2. call' = [call EXCEPT ![c] = v]
      BY <2>3 DEF Bind, Goto
    <3> HIDE DEF v
    <3> QED
      BY <2>3, <3>1, <3>2 DEF IInv, TypeOK
  <2> QED
    BY <1>0, <2>1, <2>2, <2>3 DEF Sound
<1> HIDE DEF s
<1>4. ASSUME call'[c].pc # "idle" PROVE Timely(call'[c])
  <2>1. r.since <= now /\ now <= r.since + Patience
        /\ live[r.id] # None /\ archive[r.id] = None
    BY <1>0 DEF Timely
  <2>2. \A e \in Nat : Value(r.id, e) => r.since <= e + 2 * Patience
    BY <1>0, <1>1 DEF Timely
  <2> QED
    BY <1>3, <1>4, <2>1, <2>2 DEF Timely
<1>5. Proceeds(c, call'[c], minted + 1)
  BY <1>0, <1>1, <1>3, <1>4 DEF Proceeds, Taken
<1>6. \A x \in Client : slot'[x] # slot[x] =>
        /\ Taken(c, slot'[x].id, slot'[x].key)
        /\ IF x \in Browser THEN slot'[x].key = slot'[x].id ELSE slot'[x].key \in Key
  BY <1>0, <1>1, <1>2, Constants DEF Taken, Client
<1>7. call'[c].pc # "reg"
  BY <1>3
<1>8. Calm(c, minted + 1)
  BY <1>0, <1>1, <1>3, <1>5, <1>6, <1>7 DEF Calm
<1> QED
  BY <1>8, CalmStep DEF IInv

LEMMA CrashExact ==
  ASSUME IInv, IInv', Exact, NEW x \in Client, Crash(x)
  PROVE  Exact'
<1>1. \A d \in Call : call'[d] = call[d] \/ call'[d] = Idle
  BY DEF Crash
<1>2. lock' = lock \/ (lock' = None /\ lock \in Call /\ call'[lock].pc # "index")
  BY DEF Crash, Idle
<1>3. \A y \in Client : slot'[y] = slot[y] \/ slot'[y] = None
  BY DEF Crash, IInv, TypeOK
<1>4. None \notin Call /\ minted \in Nat
  BY Constants DEF Actor, IInv, TypeOK
<1>5. Calm(None, minted + 1)
  BY <1>1, <1>2, <1>3, <1>4 DEF Calm, Crash
<1> QED
  BY <1>5, CalmStep DEF IInv
-----------------------------------------------------------------------------
\* Nobody at work with an id sees it swept: a request is over long before the
\* record it was accepted on, or the one it is writing, is that old.
LEMMA Recent ==
  ASSUME Patience <= Ttl, 3 * Patience <= Grace, IInv, Exact, NEW c \in Call,
         call[c].pc \in {"unknown", "reg", "index", "bind", "touch", "touchWrite"}
  PROVE  ~Outdated(call[c].id)
<1> DEFINE r == call[c]
<1>1. /\ r \in Busy /\ Timely(r) /\ r.id \in Id /\ r.since \in Nat /\ now \in Nat
      /\ Patience \in Nat /\ Ttl \in Nat /\ Grace \in Nat
  BY Shape, Constants DEF IInv, TypeOK, Exact, Busy
<1>2. archive[r.id] = None /\ r.since <= now /\ now <= r.since + Patience
  BY <1>1 DEF Timely
<1>3. ASSUME live[r.id] # None
      PROVE  ~(live[r.id].exp + Grace < now)
  <2>1. live[r.id].exp \in Nat /\ Value(r.id, live[r.id].exp)
    BY <1>1, <1>3 DEF IInv, TypeOK, Rec, Value
  <2>2. r.since <= live[r.id].exp + 2 * Patience
    BY <1>1, <2>1 DEF Timely
  <2> QED
    BY <1>1, <1>2, <2>1, <2>2
<1> QED
  BY <1>2, <1>3 DEF Outdated, Known

\* Nor can it be used: what the sweep wants has expired.
LEMMA OutdatedIsDead ==
  ASSUME IInv, Exact, NEW i \in Id, Outdated(i)
  PROVE  ~Active(i)
<1>1. now \in Nat /\ Grace \in Nat
  BY Constants DEF IInv, TypeOK
<1>2. /\ live[i] # None => live[i].exp \in Nat
      /\ archive[i] # None => archive[i].exp \in Nat /\ archive[i].exp + Grace < now
  BY DEF IInv, TypeOK, Rec, Exact, Homes
<1> QED
  BY <1>1, <1>2 DEF Outdated, Active, Resolved, Known

\* Two names of one id are one.
LEMMA OneKey ==
  ASSUME IInv, Exact, NEW i \in Id, NEW k, NEW l, Uses(i, k), Uses(i, l)
  PROVE  k = l /\ (k \in Key \/ k = i) /\ k \in KeySpace
BY UsesTyped DEF IInv, Exact, Named

\* A touch writes an expiry back that a refresh may have moved since; it is no
\* other for an MCP client's record, and no sweep has judged the record old.
LEMMA TouchWriteExact ==
  ASSUME Patience <= Ttl, 3 * Patience <= Grace,
         IInv, IInv', Exact, NEW c \in Call, TouchWrite(c)
  PROVE  Exact'
<1> SUFFICES ASSUME NEW r, r = call[c], NEW i, i = r.id,
                    NEW rec, rec = [key |-> r.key, exp |-> r.exp]
             PROVE  Exact'
  OBVIOUS
<1>0. /\ r.pc = "touchWrite" /\ r \in Busy /\ Timely(r)
      /\ UNCHANGED <<now, archive, index, lock, slot, sweep, issued, minted>>
  BY Shape DEF TouchWrite, IInv, Exact, ghost
<1>1. /\ i \in Id /\ live[i] # None /\ archive[i] = None
      /\ rec # None /\ rec.key = r.key /\ rec.exp = r.exp /\ r.exp \in Nat
  BY <1>0, RecIsNotNone DEF Busy, Timely, Rec
<1>2. live' = [live EXCEPT ![i] = rec]
  BY DEF TouchWrite
<1>3. /\ \A j \in Id : live'[j] = IF j = i THEN rec ELSE live[j]
      /\ \A d \in Call : call'[d] = IF d = c THEN Idle ELSE call[d]
  BY <1>2 DEF TouchWrite, Stop, IInv, TypeOK
<1>4. \A j \in Id : Known(j)' = Known(j) /\ (live[j] # None => live'[j] # None)
  BY <1>0, <1>1, <1>3 DEF Known
<1>5. /\ \A j \in Id : \A k : Uses(j, k)' => Uses(j, k)
      /\ \A j \in Id : \A e : Value(j, e)' => Value(j, e)
  BY <1>0, <1>1, <1>3 DEF Uses, Value, Idle
<1>6. /\ Uses(i, r.key) /\ Uses(i, live[i].key) /\ live[i].key = r.key
      /\ Value(i, live[i].exp) /\ Value(i, r.exp)
      /\ live[i].exp \in Nat
  BY <1>0, <1>1, OneKey DEF Uses, Value, IInv, TypeOK, Rec
<1>7. r.key \in Key => live[i].exp = r.exp
  BY <1>1, <1>6 DEF Exact, Spread
<1>8. ~Outdated(i)
  BY <1>0, Recent
<1>9. \A j \in Id : j # i => /\ (Outdated(j)' <=> Outdated(j))
                             /\ Resolved(j)' = Resolved(j)
                             /\ (Active(j)' <=> Active(j))
  BY <1>0, <1>3 DEF Outdated, Known, Resolved, Active
<1>a. Resolved(i) = live[i] /\ Resolved(i)' = rec
  <2>1. live'[i] = rec /\ archive' = archive
    BY <1>0, <1>1, <1>3
  <2> QED
    BY <1>1, <2>1 DEF Resolved
<1>b. Resolved(i).key = r.key /\ Resolved(i)'.key = r.key
  BY <1>1, <1>6, <1>a
<1>c. r.key \in Key => (Active(i)' <=> Active(i))
  <2> SUFFICES ASSUME r.key \in Key PROVE Active(i)' <=> Active(i)
    OBVIOUS
  <2>1. Resolved(i)'.exp = Resolved(i).exp /\ Resolved(i) # None /\ Resolved(i)' # None
    BY <1>1, <1>7, <1>a
  <2>2. now' = now
    BY <1>0
  <2> QED
    BY <2>1, <2>2 DEF Active
<1>d. \A j \in Id : Resolved(j)'.key = Resolved(j).key
  BY <1>9, <1>b
<1>11. \A d \in Call : call'[d].pc # "idle" => d # c /\ call'[d] = call[d]
  BY <1>3 DEF Idle
<1>12. Named'
  BY <1>0, <1>5, <1>11 DEF Exact, Named
<1>13. Sole'
  <2>1. \A d \in Call : call[d].pc # "idle" => call[d].id \in Id
    BY UsesTyped DEF IInv
  <2> QED
    BY <1>0, <1>4, <1>11, <2>1 DEF Exact, Sole
<1>14. \A d \in Call : Timely(call[d])'
  BY <1>0, <1>4, <1>5, <1>11, StaysTimely DEF Exact, Timely, IInv
<1>15. Spread'
  BY <1>5 DEF Exact, Spread
<1>16. Homes'
  <2>1. \A s \in Sweeper : sweep[s].pc # "idle" =>
          \A q \in sweep[s].old : q.id \in Id
    BY DEF IInv, TypeOK, Sweeping, Session, Idle
  <2>2. OneHome'
    BY <1>0, <1>1, <1>3 DEF Exact, Homes, OneHome
  <2> QED
    BY <1>0, <1>8, <1>9, <2>1, <2>2 DEF Exact, Homes
<1>17. Locked'
  BY <1>0, <1>11 DEF Exact, Locked
<1>18. Indexed'
  <2> SUFFICES ASSUME NEW j \in issued
               PROVE  /\ Known(j)'
                      /\ \/ index[Resolved(j)'.key] = j
                         \/ Outdated(j)'
                         \/ Resolved(j)'.key \in Key /\ ~Active(j)'
    BY <1>0 DEF Indexed
  <2>1. j \in Id
    BY DEF IInv, TypeOK
  <2>2. Known(j)' /\ Resolved(j)'.key = Resolved(j).key
    BY <2>1, <1>4, <1>d DEF Exact, Indexed
  <2>3. CASE index[Resolved(j).key] = j
    BY <2>2, <2>3
  <2>4. CASE Outdated(j)
    <3>1. j # i
      BY <1>8, <2>4
    <3>2. Outdated(j)'
      BY <2>1, <2>4, <3>1, <1>9
    <3> QED
      BY <2>2, <3>2
  <2>5. CASE Resolved(j).key \in Key /\ ~Active(j)
    <3>1. CASE j # i
      BY <2>1, <2>2, <2>5, <3>1, <1>9
    <3>2. CASE j = i
      BY <2>2, <2>5, <3>2, <1>b, <1>c
    <3> QED
      BY <3>1, <3>2
  <2> QED
    BY <2>3, <2>4, <2>5 DEF Exact, Indexed
<1>19. Vacant'
  <2> SUFFICES ASSUME NEW d \in Call, d # c, call[d].pc = "index", call'[d] = call[d],
                      NEW j \in issued, Active(j)', Resolved(j)'.key = call[d].key
               PROVE  j = call[d].id
    BY <1>0, <1>11 DEF Vacant
  <2>1. j \in Id /\ call[d].id \in Id /\ Uses(call[d].id, call[d].key)
    BY UsesTyped DEF IInv, TypeOK
  <2>2. Resolved(j).key = call[d].key
    BY <2>1, <1>d
  <2>3. CASE Active(j)
    BY <2>2, <2>3 DEF Exact, Vacant
  <2>4. CASE ~Active(j)
    <3>1. j = i /\ r.key \notin Key
      BY <2>1, <2>4, <1>9, <1>c
    <3>2. call[d].key = r.key
      BY <2>2, <3>1, <1>b
    <3>3. r.key = i
      BY <1>1, <1>6, <3>1, OneKey
    <3>4. call[d].key \in Key \/ call[d].key = call[d].id
      BY <2>1, OneKey
    <3> QED
      BY <3>1, <3>2, <3>3, <3>4
  <2> QED
    BY <2>3, <2>4
<1> QED
  BY <1>12, <1>13, <1>14, <1>15, <1>16, <1>17, <1>18, <1>19 DEF Exact

\* The record is written: its expiry is close to any the id has, and the key
\* is free but for the id itself.
LEMMA RegisterWrites ==
  ASSUME Patience <= Ttl, 3 * Patience <= Grace,
         IInv, IInv', Exact, NEW c \in Call, Register(c),
         ActiveHolder(call[c].key) \in {None, call[c].id}
  PROVE  Exact'
<1> SUFFICES ASSUME NEW r, r = call[c], NEW i, i = r.id,
                    NEW rec, rec = [key |-> r.key, exp |-> r.exp],
                    NEW v, v = [r EXCEPT !.pc = "index"]
             PROVE  Exact'
  OBVIOUS
<1>0. /\ r.pc = "reg" /\ r \in Busy /\ Timely(r) /\ lock = None
      /\ UNCHANGED <<now, archive, index, slot, sweep, issued, minted>>
  BY Shape DEF Register, IInv, Exact, ghost
<1>a. /\ v.pc = "index" /\ v.kind = r.kind /\ v.id = i /\ v.key = r.key
      /\ v.since = r.since /\ v.exp = r.exp /\ v.client = r.client
  BY <1>0 DEF Busy
<1>1. /\ i \in Id /\ rec # None /\ rec.key = r.key /\ rec.exp = r.exp
      /\ r.exp \in Nat /\ r.since \in Nat /\ now \in Nat /\ r.key \in KeySpace
      /\ Ttl \in Nat /\ Patience \in Nat /\ Grace \in Nat
  BY <1>0, RecIsNotNone, Constants DEF Busy, Rec, IInv, TypeOK
<1>2. /\ archive[i] = None
      /\ r.since + Ttl <= r.exp /\ r.exp <= now + Ttl
      /\ r.since <= now /\ now <= r.since + Patience
      /\ \A e \in Nat : Value(i, e) =>
           r.since + Ttl <= e + Patience /\ e <= r.since + Ttl + Patience
  BY <1>0 DEF Timely
<1>3. /\ live' = [live EXCEPT ![i] = rec] /\ lock' = c /\ call' = [call EXCEPT ![c] = v]
  BY DEF Register, Goto
<1>4. /\ \A j \in Id : live'[j] = IF j = i THEN rec ELSE live[j]
      /\ \A d \in Call : call'[d] = IF d = c THEN v ELSE call[d]
  BY <1>3 DEF IInv, TypeOK
<1>b. /\ \A d \in Call : call'[d].pc # "idle" =>
           /\ call[d].pc # "idle" /\ call'[d].id = call[d].id
           /\ call'[d].key = call[d].key /\ call'[d].kind = call[d].kind
           /\ call'[d].since = call[d].since /\ call'[d].exp = call[d].exp
           /\ \/ call'[d].pc = call[d].pc
              \/ call'[d].pc = "index" /\ call[d].pc = "reg" /\ d = c
      /\ call'[c].pc = "index"
  <2>1. call'[c] = v /\ \A d \in Call : d # c => call'[d] = call[d]
    BY <1>4
  <2>2. /\ v.pc = "index" /\ v.id = r.id /\ v.key = r.key /\ v.kind = r.kind
        /\ v.since = r.since /\ v.exp = r.exp /\ r.pc = "reg"
    BY <1>0, <1>a
  <2>3. call'[c].pc = "index"
    BY <2>1, <2>2
  <2> QED
    BY <2>1, <2>2, <2>3, ZenonT(30)
<1>5. \A j \in Id : /\ Known(j) => Known(j)'
                    /\ live[j] # None => live'[j] # None
                    /\ j # i => (Known(j)' <=> Known(j))
  BY <1>0, <1>1, <1>4 DEF Known
<1>6. /\ \A j \in Id : \A k : Uses(j, k)' => Uses(j, k)
      /\ \A j \in Id : \A e : Value(j, e)' => Value(j, e) \/ (j = i /\ e = r.exp)
  <2>1. Uses(i, r.key)
    BY <1>0 DEF Uses
  <2>3. ASSUME NEW j \in Id, NEW k, Uses(j, k)' PROVE Uses(j, k)
    <3>1. CASE live'[j] # None /\ live'[j].key = k
      BY <1>1, <1>4, <2>1, <3>1 DEF Uses
    <3>2. CASE ~(live'[j] # None /\ live'[j].key = k)
      BY <1>0, <1>b, <2>3, <3>2 DEF Uses
    <3> QED
      BY <3>1, <3>2
  <2>4. ASSUME NEW j \in Id, NEW e, Value(j, e)'
        PROVE  Value(j, e) \/ (j = i /\ e = r.exp)
    BY <1>1, <1>4, <1>b, <2>4 DEF Value
  <2> QED
    BY <2>3, <2>4
<1>7. r.kind # "web" <=> r.key \in Key
  BY <1>0, <1>1, Constants DEF Exact, Named
<1>8. r.key \in Key => \A e : ~Value(i, e)
  <2> SUFFICES ASSUME r.key \in Key, NEW e, Value(i, e) PROVE FALSE
    OBVIOUS
  <2>1. /\ ~Known(i)
        /\ \A d \in Call \ {c} : call[d].pc # "idle" => call[d].id # i
    BY <1>0, <1>7 DEF Exact, Sole
  <2> QED
    BY <1>0, <2>1 DEF Value, Known
<1>9. ~Outdated(i)
  BY <1>0, Recent
<1>10. \A j \in Id : j # i => /\ (Outdated(j)' <=> Outdated(j))
                              /\ Resolved(j)' = Resolved(j)
                              /\ (Active(j)' <=> Active(j))
  BY <1>0, <1>4 DEF Outdated, Known, Resolved, Active
<1>11. Named'
  BY <1>0, <1>6, <1>b DEF Exact, Named
<1>12. Sole'
  <2> SUFFICES ASSUME NEW d \in Call, call'[d].pc = "reg", call'[d].kind # "web"
               PROVE  /\ ~Known(call[d].id)'
                      /\ \A f \in Call \ {d} :
                           call'[f].pc # "idle" => call'[f].id # call'[d].id
                      /\ \A x \in Client : slot'[x] # None => slot'[x].id # call'[d].id
    BY DEF Sole
  <2>1. d # c /\ call'[d] = call[d]
    BY <1>4, <1>b
  <2>2. /\ ~Known(call[d].id)
        /\ \A f \in Call \ {d} : call[f].pc # "idle" => call[f].id # call[d].id
        /\ \A x \in Client : slot[x] # None => slot[x].id # call[d].id
    BY <2>1 DEF Exact, Sole
  <2>3. call[d].id \in Id /\ call[d].id # i
    BY <1>0, <2>1, <2>2, UsesTyped DEF IInv
  <2> QED
    BY <1>0, <1>5, <1>b, <2>1, <2>2, <2>3
<1>13. ASSUME NEW d \in Call PROVE Timely(call[d])'
  <2> SUFFICES ASSUME NEW q, q = call'[d], q.pc # "idle" PROVE Timely(q)'
    BY DEF Timely
  <2>1. /\ q.since = call[d].since /\ q.id = call[d].id /\ q.exp = call[d].exp
        /\ call[d].pc # "idle"
        /\ \/ q.pc = call[d].pc
           \/ q.pc = "index" /\ call[d].pc = "reg" /\ d = c
    BY <1>b
  <2>2. /\ q.id \in Id /\ q.since \in Nat /\ Timely(call[d])
        /\ q.since <= now /\ now <= q.since + Patience
    BY <2>1, Shape DEF Exact, IInv, Busy, Timely
  <2>3. q.since + Ttl <= r.exp + Patience /\ r.exp <= q.since + Ttl + Patience
        /\ q.since <= r.exp + 2 * Patience
    BY <1>1, <1>2, <2>2
  <2>4. q.pc \in {"index", "bind", "touch", "touchWrite"} =>
          live'[q.id] # None /\ archive[q.id] = None
    BY <1>0, <1>1, <1>2, <1>4, <1>5, <2>1, <2>2 DEF Timely
  <2>5. \A e \in Nat : Value(q.id, e)' => Value(q.id, e) \/ e = r.exp
    BY <1>6, <2>2
  <2> QED
    BY <1>0, <2>4, <2>5, <2>1, <2>2, <2>3 DEF Timely
<1>14. Spread'
  <2> SUFFICES ASSUME NEW j \in Id, NEW e \in Nat, NEW f \in Nat,
                      Value(j, e)', Value(j, f)'
               PROVE  /\ e <= f + 2 * Patience
                      /\ \A k \in Key : Uses(j, k)' => e = f
    BY DEF Spread
  <2>1. CASE Value(j, e) /\ Value(j, f)
    BY <1>6, <2>1 DEF Exact, Spread
  <2>2. CASE j = i /\ ~(Value(j, e) /\ Value(j, f))
    <3>1. (Value(i, e) \/ e = r.exp) /\ (Value(i, f) \/ f = r.exp)
      BY <1>6, <2>2
    <3>2. /\ r.since + Ttl <= e + Patience /\ e <= r.since + Ttl + Patience
          /\ r.since + Ttl <= f + Patience /\ f <= r.since + Ttl + Patience
      BY <1>1, <1>2, <3>1
    <3>3. ASSUME NEW k \in Key, Uses(i, k)' PROVE e = f
      <4>1. Uses(i, k) /\ Uses(i, r.key)
        BY <1>0, <1>1, <1>6, <3>3 DEF Uses
      <4>2. r.key \in Key
        BY <1>1, <4>1, OneKey
      <4> QED
        BY <1>8, <3>1, <4>2
    <3>4. e <= f + 2 * Patience
      BY <1>1, <3>2
    <3> QED
      BY <2>2, <3>3, <3>4
  <2> QED
    BY <1>6, <2>1, <2>2
<1>15. Homes'
  <2>1. \A s \in Sweeper : sweep[s].pc # "idle" =>
          \A q \in sweep[s].old : q.id \in Id
    BY DEF IInv, TypeOK, Sweeping, Session, Idle
  <2>2. OneHome'
    BY <1>0, <1>2, <1>4 DEF Exact, Homes, OneHome
  <2> QED
    BY <1>0, <1>9, <1>10, <2>1, <2>2 DEF Exact, Homes
<1>16. /\ \A d \in Call : call'[d].pc = "index" => d = c
       /\ \A s \in Sweeper : sweep[s].pc \notin {"move", "drop", "fill"}
  <2>1. \A a \in Actor : a # None
    BY Constants
  <2> QED
    BY <1>0, <1>4, <2>1 DEF Exact, Locked, Actor
<1>17. Locked'
  BY <1>0, <1>3, <1>16 DEF Locked
<1>18. Indexed'
  <2> SUFFICES ASSUME NEW j \in issued
               PROVE  /\ Known(j)'
                      /\ \/ index[Resolved(j)'.key] = j
                         \/ Outdated(j)'
                         \/ Resolved(j)'.key \in Key /\ ~Active(j)'
    BY <1>0 DEF Indexed
  <2>1. j \in Id /\ Known(j) /\ Known(j)'
    BY <1>5 DEF IInv, TypeOK, Exact, Indexed
  <2>2. CASE j # i
    <3>1. \/ index[Resolved(j).key] = j
          \/ Outdated(j)
          \/ Resolved(j).key \in Key /\ ~Active(j)
      BY DEF Exact, Indexed
    <3>2. /\ Resolved(j)' = Resolved(j) /\ (Outdated(j) => Outdated(j)')
          /\ (~Active(j) => ~Active(j)')
      BY <1>10, <2>1, <2>2
    <3> QED
      BY <2>1, <3>1, <3>2
  <2>3. CASE j = i
    <3>1. r.key \notin Key
      BY <1>0, <1>7, <2>1, <2>3 DEF Exact, Sole
    <3>2. live[i] # None /\ Uses(i, live[i].key) /\ Uses(i, r.key)
      BY <1>0, <1>1, <1>2, <2>1, <2>3 DEF Uses, Known
    <3>3. live[i].key = r.key
      BY <1>1, <3>2, OneKey
    <3>4. Resolved(i) = live[i] /\ Resolved(i)' = rec
      <4>1. live'[i] = rec
        BY <1>1, <1>4
      <4> QED
        BY <1>1, <3>2, <4>1 DEF Resolved
    <3>5. index[r.key] = i
      BY <1>9, <2>3, <3>1, <3>3, <3>4 DEF Exact, Indexed
    <3> QED
      BY <1>1, <2>1, <2>3, <3>4, <3>5
  <2> QED
    BY <2>2, <2>3
<1>19. Vacant'
  <2> SUFFICES ASSUME NEW j \in issued, Active(j)', Resolved(j)'.key = r.key, j # i
               PROVE  FALSE
    BY <1>0, <1>b, <1>16 DEF Vacant
  <2>1. j \in Id /\ j # None
    BY Constants DEF IInv, TypeOK
  <2>2. Active(j) /\ Resolved(j).key = r.key
    BY <1>10, <2>1
  <2>3. index[r.key] = j
    BY <2>1, <2>2, OutdatedIsDead DEF Exact, Indexed
  <2>4. live[j] # None
    <3> SUFFICES ASSUME live[j] = None PROVE FALSE
      OBVIOUS
    <3>1. archive[j] # None /\ archive[j].exp > now /\ archive[j].exp \in Nat
      BY <2>1, <2>2 DEF Active, Resolved, IInv, TypeOK, Rec
    <3>2. archive[j].exp + Grace < now
      BY <2>1, <3>1 DEF Exact, Homes
    <3> QED
      BY <1>1, <3>1, <3>2
  <2>5. ActiveHolder(r.key) = j
    BY <2>1, <2>2, <2>3, <2>4 DEF ActiveHolder, Active, Resolved
  <2> QED
    BY <2>1, <2>5
<1> QED
  BY <1>11, <1>12, <1>13, <1>14, <1>15, <1>17, <1>18, <1>19 DEF Exact

LEMMA RegisterExact ==
  ASSUME Patience <= Ttl, 3 * Patience <= Grace,
         IInv, IInv', Exact, NEW c \in Call, Register(c)
  PROVE  Exact'
<1>1. CASE ActiveHolder(call[c].key) \in {None, call[c].id}
  BY <1>1, RegisterWrites
<1>2. CASE ActiveHolder(call[c].key) \notin {None, call[c].id}
  BY <1>2, Stopping DEF Register, store, ghost
<1> QED
  BY <1>1, <1>2

\* The index names the new holder; whoever held the key before is no longer
\* active, or is the same.
LEMMA RegisterIndexExact ==
  ASSUME IInv, IInv', Exact, NEW c \in Call, RegisterIndex(c)
  PROVE  Exact'
<1> SUFFICES ASSUME NEW r, r = call[c], NEW i, i = r.id,
                    NEW v, v = [r EXCEPT !.pc = "bind"]
             PROVE  Exact'
  OBVIOUS
<1>0. /\ r.pc = "index" /\ r \in Busy /\ Timely(r) /\ lock' = None
      /\ UNCHANGED <<now, live, archive, slot, sweep, minted>>
      /\ issued' = issued \cup {i}
  BY Shape DEF RegisterIndex, IInv, Exact
<1>a. /\ v.pc = "bind" /\ v.kind = r.kind /\ v.id = i /\ v.key = r.key
      /\ v.since = r.since /\ v.exp = r.exp
  BY <1>0 DEF Busy
<1>1. i \in Id /\ r.key \in KeySpace /\ Uses(i, r.key)
      /\ live[i] # None /\ archive[i] = None
  BY <1>0 DEF Busy, Uses, Timely
<1>3. /\ \A d \in Call : call'[d] = IF d = c THEN v ELSE call[d]
      /\ \A k \in KeySpace : index'[k] = IF k = r.key THEN i ELSE index[k]
  <2>1. call' = [call EXCEPT ![c] = v] /\ index' = [index EXCEPT ![r.key] = i]
    BY DEF RegisterIndex, Goto
  <2> QED
    BY <2>1 DEF IInv, TypeOK
<1>4. /\ \A d \in Call : call'[d].pc # "idle" =>
           /\ call[d].pc # "idle" /\ call'[d].id = call[d].id
           /\ call'[d].key = call[d].key /\ call'[d].kind = call[d].kind
           /\ call'[d].since = call[d].since /\ call'[d].exp = call[d].exp
           /\ \/ call'[d].pc = call[d].pc
              \/ call'[d].pc = "bind" /\ call[d].pc = "index"
      /\ \A d \in Call : call'[d].pc = "index" => d # c /\ call[d].pc = "index"
  BY <1>0, <1>a, <1>3, ZenonT(30)
<1>5. /\ \A j \in Id : \A k : Uses(j, k)' => Uses(j, k)
      /\ \A j \in Id : \A e : Value(j, e)' => Value(j, e)
      /\ \A j \in Id : Known(j)' <=> Known(j)
  BY <1>0, <1>4 DEF Uses, Value, Known
<1>6. Named'
  BY <1>0, <1>4, <1>5 DEF Exact, Named
<1>7. Sole'
  <2> SUFFICES ASSUME NEW d \in Call, call'[d].pc = "reg", call'[d].kind # "web"
               PROVE  /\ ~Known(call[d].id)'
                      /\ \A f \in Call \ {d} :
                           call'[f].pc # "idle" => call'[f].id # call'[d].id
                      /\ \A x \in Client : slot'[x] # None => slot'[x].id # call'[d].id
    BY DEF Sole
  <2>1. call'[d] = call[d] /\ call[d].pc = "reg"
    BY <1>a, <1>3
  <2>2. call[d].id \in Id
    BY <2>1, UsesTyped DEF IInv
  <2> QED
    BY <1>0, <1>4, <1>5, <2>1, <2>2 DEF Exact, Sole
<1>8. ASSUME NEW d \in Call PROVE Timely(call[d])'
  <2> SUFFICES ASSUME NEW q, q = call'[d], q.pc # "idle" PROVE Timely(q)'
    BY DEF Timely
  <2>1. /\ q.since = call[d].since /\ q.id = call[d].id /\ q.exp = call[d].exp
        /\ call[d].pc # "idle" /\ q.id \in Id /\ Timely(call[d])
        /\ \/ q.pc = call[d].pc
           \/ q.pc = "bind" /\ call[d].pc = "index"
    BY <1>4, UsesTyped DEF IInv, Exact
  <2> QED
    BY <1>0, <1>5, <2>1 DEF Timely
<1>9. Spread'
  BY <1>5 DEF Exact, Spread
<1>10. Homes'
  BY <1>0 DEF Exact, Homes, OneHome, Outdated, Known
<1>11. /\ \A d \in Call : call'[d].pc # "index"
       /\ \A s \in Sweeper : sweep[s].pc \notin {"move", "drop", "fill"}
  <2>1. lock = c
    BY <1>0 DEF Exact, Locked
  <2>2. \A s \in Sweeper : s # c
    BY Constants
  <2> QED
    BY <1>4, <2>1, <2>2 DEF Exact, Locked
<1>12. Locked' /\ Vacant'
  BY <1>0, <1>11 DEF Locked, Vacant
<1>13. Indexed'
  <2> SUFFICES ASSUME NEW j \in issued'
               PROVE  /\ Known(j)
                      /\ \/ index'[Resolved(j).key] = j
                         \/ Outdated(j)
                         \/ Resolved(j).key \in Key /\ ~Active(j)
    BY <1>0 DEF Indexed, Known, Resolved, Outdated, Active
  <2>1. CASE j = i
    <3>1. Resolved(i) = live[i] /\ Uses(i, live[i].key)
      BY <1>1 DEF Resolved, Uses
    <3>2. live[i].key = r.key
      BY <1>1, <3>1, OneKey
    <3> QED
      BY <1>1, <1>3, <2>1, <3>1, <3>2 DEF Known
  <2>2. CASE j # i
    <3>1. j \in issued /\ j \in Id
      BY <1>0, <2>2 DEF IInv, TypeOK
    <3>2. Known(j) /\ Uses(j, Resolved(j).key)
      BY <3>1 DEF Exact, Indexed, Known, Resolved, Uses
    <3>3. Resolved(j).key \in KeySpace
      BY <3>1, <3>2, OneKey
    <3>4. CASE Resolved(j).key # r.key
      BY <1>3, <3>1, <3>2, <3>3, <3>4 DEF Exact, Indexed
    <3>5. CASE Resolved(j).key = r.key
      <4>1. ~Active(j)
        BY <1>0, <2>2, <3>1, <3>5 DEF Exact, Vacant
      <4>2. r.key \in Key
        BY <1>1, <2>2, <3>1, <3>2, <3>5, OneKey
      <4> QED
        BY <3>2, <3>5, <4>1, <4>2
    <3> QED
      BY <3>4, <3>5
  <2> QED
    BY <2>1, <2>2
<1> QED
  BY <1>6, <1>7, <1>8, <1>9, <1>10, <1>12, <1>13 DEF Exact
-----------------------------------------------------------------------------
\* Steps of a sweep that move no record: the lists it works through hold what
\* they held, and an index entry changes only if it names nobody or a record
\* nobody can use.
LEMMA SweepCalm ==
  ASSUME IInv, Exact,
         UNCHANGED <<now, live, archive, call, slot, minted, issued>>,
         \A j \in Id : \A k : Uses(j, k)' => Uses(j, k),
         \A t \in Sweeper : sweep'[t].pc # "idle" =>
           \A q \in sweep'[t].old : Outdated(q.id),
         Locked',
         \A k \in KeySpace : \/ index'[k] = index[k]
                             \/ index[k] = None
                             \/ index[k] \in Id /\ Outdated(index[k])
  PROVE  Exact'
<1>1. \A j \in Id : /\ Known(j)' <=> Known(j)
                    /\ \A e : Value(j, e)' <=> Value(j, e)
                    /\ Outdated(j)' <=> Outdated(j)
                    /\ Active(j)' <=> Active(j)
                    /\ Resolved(j)' = Resolved(j)
  BY DEF Known, Value, Outdated, Active, Resolved
<1>2. Named'
  BY DEF Exact, Named
<1>3. Sole'
  BY DEF Exact, Sole, Known
<1>4. \A d \in Call : Timely(call[d])'
  BY DEF Exact, Timely, Value
<1>5. Spread'
  BY <1>1 DEF Exact, Spread
<1>6. Homes'
  BY DEF Exact, Homes, OneHome, Outdated, Known
<1>7. Vacant'
  BY DEF Exact, Vacant, Active, Resolved
<1>8. Indexed'
  <2> SUFFICES ASSUME NEW j \in issued
               PROVE  /\ Known(j)
                      /\ \/ index'[Resolved(j).key] = j
                         \/ Outdated(j)
                         \/ Resolved(j).key \in Key /\ ~Active(j)
    BY DEF Indexed, Known, Resolved, Outdated, Active
  <2>1. j \in Id /\ j # None
    BY Constants DEF IInv, TypeOK
  <2>2. Known(j) /\ Uses(j, Resolved(j).key)
    BY DEF Exact, Indexed, Known, Resolved, Uses
  <2>3. Resolved(j).key \in KeySpace
    BY <2>1, <2>2, OneKey
  <2> QED
    BY <2>1, <2>2, <2>3 DEF Exact, Indexed
<1> QED
  BY <1>2, <1>3, <1>4, <1>5, <1>6, <1>7, <1>8 DEF Exact

\* The lists of a sweep hold what was known under its key, and old records.
LEMMA SweepLists ==
  ASSUME IInv, Exact, NEW s \in Sweeper, sweep[s] # Idle
  PROVE  /\ sweep[s].pc # "idle"
         /\ \A q \in sweep[s].old \cup sweep[s].young : q \in Session
         /\ \A q \in sweep[s].old : Outdated(q.id)
<1>1. sweep[s] \in Sweeping
  BY SweepShape DEF IInv
<1> QED
  BY <1>1 DEF Sweeping, Exact, Homes

\* A step that only shortens its lists introduces no name for an id.
LEMMA SweepUses ==
  ASSUME NEW s \in Sweeper, UNCHANGED <<live, archive, call, slot>>,
         \A t \in Sweeper : t # s => sweep'[t] = sweep[t],
         sweep'[s].pc # "idle" =>
           /\ sweep[s].pc # "idle"
           /\ sweep'[s].old \subseteq sweep[s].old
           /\ sweep'[s].young \subseteq sweep[s].young
  PROVE  \A j \in Id : \A k : Uses(j, k)' => Uses(j, k)
BY DEF Uses

LEMMA SweepReadExact ==
  ASSUME IInv, Exact, NEW s \in Sweeper, SweepRead(s)
  PROVE  Exact'
<1> SUFFICES ASSUME NEW files, files = {i \in Id : live[i] # None},
                    NEW old, NEW young,
                    old = {j \in files : live[j].exp + Grace < now},
                    young = {j \in files : live[j].exp > now},
                    NEW w, w = [pc |-> "lockOld", old |-> {Judged(i) : i \in old},
                                young |-> {Judged(i) : i \in young}]
             PROVE  Exact'
  OBVIOUS
<1>1. /\ sweep[s] = Idle /\ sweep' = [sweep EXCEPT ![s] = w]
      /\ UNCHANGED <<now, live, archive, index, lock, call, slot, minted, issued>>
  BY DEF SweepRead, store, ghost
<1>2. /\ \A t \in Sweeper : sweep'[t] = IF t = s THEN w ELSE sweep[t]
      /\ w.pc = "lockOld" /\ w.old = {Judged(i) : i \in old}
      /\ w.young = {Judged(i) : i \in young}
  BY <1>1 DEF IInv, TypeOK
<1>3. \A q \in w.old \cup w.young : \E i \in Id :
        live[i] # None /\ q.id = i /\ q.key = live[i].key
  BY <1>2 DEF Judged
<1>4. \A q \in w.old : Outdated(q.id)
  <2> SUFFICES ASSUME NEW i \in old PROVE Outdated(Judged(i).id)
    BY <1>2
  <2> QED
    BY DEF Judged, Outdated, Known
<1>5. ASSUME NEW j \in Id, NEW k, Uses(j, k)' PROVE Uses(j, k)
  <2>1. ASSUME NEW t \in Sweeper, sweep'[t].pc # "idle",
               [id |-> j, key |-> k] \in sweep'[t].old \cup sweep'[t].young
        PROVE  Uses(j, k)
    <3>1. CASE t = s
      <4>1. [id |-> j, key |-> k] \in w.old \cup w.young
        BY <1>2, <2>1, <3>1
      <4> QED
        BY <1>3, <4>1 DEF Uses
    <3>2. CASE t # s
      BY <1>2, <2>1, <3>2 DEF Uses
    <3> QED
      BY <3>1, <3>2
  <2> QED
    BY <1>1, <1>5, <2>1 DEF Uses
<1>6. \A t \in Sweeper : sweep'[t].pc # "idle" =>
        \A q \in sweep'[t].old : Outdated(q.id)
  BY <1>2, <1>4 DEF Exact, Homes
<1>7. Locked'
  BY <1>1, <1>2 DEF Exact, Locked
<1> QED
  BY <1>1, <1>5, <1>6, <1>7, SweepCalm

\* The steps that take the lock, give it up, or shorten a list.
LEMMA SweepGoes ==
  ASSUME IInv, Exact, NEW s \in Sweeper, sweep[s] # Idle,
         UNCHANGED <<now, live, archive, call, slot, minted, issued>>,
         \A t \in Sweeper : t # s => sweep'[t] = sweep[t],
         sweep'[s].pc # "idle" =>
           /\ sweep'[s].old \subseteq sweep[s].old
           /\ sweep'[s].young \subseteq sweep[s].young,
         \/ lock' = lock
         \/ lock = None
         \/ lock = s,
         sweep'[s].pc \in {"move", "drop", "fill"} => lock' = s,
         \A k \in KeySpace : \/ index'[k] = index[k]
                             \/ index[k] = None
                             \/ index[k] \in Id /\ Outdated(index[k])
  PROVE  Exact'
<1>1. sweep[s].pc # "idle"
  BY SweepLists
<1>2. \A j \in Id : \A k : Uses(j, k)' => Uses(j, k)
  BY <1>1, SweepUses
<1>3. \A t \in Sweeper : sweep'[t].pc # "idle" =>
        \A q \in sweep'[t].old : Outdated(q.id)
  BY <1>1 DEF Exact, Homes
<1>4. Locked'
  <2>1. /\ \A c \in Call : c # None /\ c # s
        /\ \A t \in Sweeper : t # None
    BY Constants DEF Actor
  <2> QED
    BY <2>1 DEF Exact, Locked
<1> QED
  BY <1>2, <1>3, <1>4, SweepCalm

LEMMA SweepLockExact ==
  ASSUME IInv, Exact, NEW s \in Sweeper, SweepLock(s)
  PROVE  Exact'
<1>1. sweep[s] \in Sweeping /\ sweep[s] # Idle
  BY SweepShape DEF IInv, SweepLock, Idle
<1>2. /\ \A t \in Sweeper : t # s => sweep'[t] = sweep[t]
      /\ sweep'[s].old = sweep[s].old /\ sweep'[s].young = sweep[s].young
      /\ \/ lock' = lock /\ sweep'[s].pc = "lockYoung"
         \/ lock = None /\ lock' = s
  BY <1>1 DEF SweepLock, IInv, TypeOK, Sweeping
<1> QED
  BY <1>1, <1>2, SweepGoes DEF SweepLock, ghost

LEMMA SweepDropExact ==
  ASSUME IInv, Exact, NEW s \in Sweeper, SweepDrop(s)
  PROVE  Exact'
<1>1. sweep[s] \in Sweeping /\ sweep[s] # Idle /\ lock = s
  BY SweepShape DEF IInv, SweepDrop, Idle, Exact, Locked
<1>2. PICK r \in sweep[s].old :
        /\ index' = IF index[r.key] = r.id
                    THEN [index EXCEPT ![r.key] = None] ELSE index
        /\ sweep' = [sweep EXCEPT ![s].pc = "move", ![s].old = @ \ {r}]
  BY DEF SweepDrop
<1>3. r.id \in Id /\ Outdated(r.id)
  BY <1>1, <1>2, SweepLists DEF Session
<1>4. \A k \in KeySpace : \/ index'[k] = index[k]
                          \/ index[k] \in Id /\ Outdated(index[k])
  BY <1>2, <1>3 DEF IInv, TypeOK
<1>5. /\ \A t \in Sweeper : t # s => sweep'[t] = sweep[t]
      /\ sweep'[s].old \subseteq sweep[s].old /\ sweep'[s].young = sweep[s].young
  BY <1>1, <1>2 DEF IInv, TypeOK, Sweeping
<1> QED
  BY <1>1, <1>4, <1>5, SweepGoes DEF SweepDrop, ghost

LEMMA SweepFillExact ==
  ASSUME IInv, Exact, NEW s \in Sweeper, SweepFill(s)
  PROVE  Exact'
<1>1. sweep[s] \in Sweeping /\ sweep[s] # Idle
  BY SweepShape DEF IInv, SweepFill, Idle
<1>2. sweep[s].pc = "fill" => lock = s
  BY DEF Exact, Locked
<1>3. CASE sweep[s].young = {}
  <2>1. /\ \A t \in Sweeper : t # s => sweep'[t] = sweep[t]
        /\ sweep'[s].pc = "idle"
    BY <1>3 DEF SweepFill, Idle, IInv, TypeOK
  <2> QED
    BY <1>1, <1>2, <1>3, <2>1, SweepGoes DEF SweepFill, ghost
<1>4. CASE sweep[s].young # {}
  <2>1. PICK r \in sweep[s].young :
          /\ index' = IF index[r.key] = None
                      THEN [index EXCEPT ![r.key] = r.id] ELSE index
          /\ sweep' = [sweep EXCEPT ![s].pc = "fill", ![s].young = @ \ {r}]
    BY <1>4 DEF SweepFill
  <2>2. \A k \in KeySpace : index'[k] = index[k] \/ index[k] = None
    BY <2>1 DEF IInv, TypeOK
  <2>3. /\ \A t \in Sweeper : t # s => sweep'[t] = sweep[t]
        /\ sweep'[s].old = sweep[s].old /\ sweep'[s].young \subseteq sweep[s].young
    BY <1>1, <2>1 DEF IInv, TypeOK, Sweeping
  <2>4. lock' = s /\ (lock = s \/ lock = None)
    BY <1>2, <1>4 DEF SweepFill
  <2> QED
    BY <1>1, <2>2, <2>3, <2>4, SweepGoes DEF SweepFill, ghost
<1> QED
  BY <1>3, <1>4

LEMMA SweepStopsExact ==
  ASSUME IInv, Exact, NEW s \in Sweeper, SweepStops(s)
  PROVE  Exact'
<1>1. /\ sweep[s] # Idle
      /\ \A t \in Sweeper : t # s => sweep'[t] = sweep[t]
      /\ sweep'[s].pc = "idle"
  BY DEF SweepStops, Idle, IInv, TypeOK
<1> QED
  BY <1>1, SweepGoes DEF SweepStops, ghost

\* A record is moved: it is old, so no request is at work with it and nobody
\* can use its key.
LEMMA SweepMoveExact ==
  ASSUME Patience <= Ttl, 3 * Patience <= Grace,
         IInv, IInv', Exact, NEW s \in Sweeper, SweepMove(s)
  PROVE  Exact'
<1>1. /\ sweep[s] \in Sweeping /\ sweep[s] # Idle /\ sweep[s].pc = "move" /\ lock = s
      /\ UNCHANGED <<now, index, minted, slot, call, issued>>
  BY SweepShape DEF IInv, SweepMove, Idle, Exact, Locked, ghost
<1>2. CASE sweep[s].old = {}
  <2>1. /\ \A t \in Sweeper : t # s => sweep'[t] = sweep[t]
        /\ sweep'[s].pc = "lockYoung"
        /\ sweep'[s].old = sweep[s].old /\ sweep'[s].young = sweep[s].young
    BY <1>1, <1>2 DEF SweepMove, IInv, TypeOK, Sweeping
  <2> QED
    BY <1>1, <1>2, <2>1, SweepGoes DEF SweepMove
<1>3. CASE sweep[s].old # {}
  <2>1. PICK r \in sweep[s].old :
          IF live[r.id] = None
          THEN /\ sweep' = [sweep EXCEPT ![s].old = @ \ {r}]
               /\ UNCHANGED <<live, archive>>
          ELSE /\ archive' = [archive EXCEPT ![r.id] = live[r.id]]
               /\ live' = [live EXCEPT ![r.id] = None]
               /\ sweep' = [sweep EXCEPT ![s].pc = "drop"]
    BY <1>3 DEF SweepMove
  <2>2. lock' = lock
    BY <1>3 DEF SweepMove
  <2>3. r.id \in Id /\ Outdated(r.id)
    BY <1>1, <2>1, SweepLists DEF Session
  <2>4. CASE live[r.id] = None
    <3>1. /\ \A t \in Sweeper : t # s => sweep'[t] = sweep[t]
          /\ sweep'[s].old \subseteq sweep[s].old /\ sweep'[s].young = sweep[s].young
      BY <1>1, <2>1, <2>4 DEF IInv, TypeOK, Sweeping
    <3> QED
      BY <1>1, <2>1, <2>2, <2>4, <3>1, SweepGoes
  <2>5. CASE live[r.id] # None
    <3> SUFFICES ASSUME NEW i, i = r.id PROVE Exact'
      OBVIOUS
    <3>1. /\ i \in Id /\ Outdated(i) /\ live[i] # None /\ archive[i] = None
          /\ live[i].exp + Grace < now
      BY <2>3, <2>5 DEF Outdated, Exact, Homes, OneHome
    <3>2. \A j \in Id :
            /\ live'[j] = IF j = i THEN None ELSE live[j]
            /\ archive'[j] = IF j = i THEN live[i] ELSE archive[j]
      BY <2>1, <2>5 DEF IInv, TypeOK
    <3>3. \A t \in Sweeper :
            /\ sweep'[t].pc # "idle" <=> sweep[t].pc # "idle"
            /\ sweep[t].pc # "idle" =>
                 sweep'[t].old = sweep[t].old /\ sweep'[t].young = sweep[t].young
            /\ t # s => sweep'[t] = sweep[t]
      BY <1>1, <2>1, <2>5 DEF IInv, TypeOK, Sweeping
    <3>4. /\ \A j \in Id : \A k : Uses(j, k)' => Uses(j, k)
          /\ \A j \in Id : \A e : Value(j, e)' => Value(j, e)
      BY <1>1, <3>1, <3>2, <3>3 DEF Uses, Value
    <3>5. \A j \in Id : Resolved(j)' = Resolved(j)
      BY <3>1, <3>2 DEF Resolved
    <3>6. \A j \in Id : /\ Known(j)' <=> Known(j)
                        /\ Active(j)' <=> Active(j)
                        /\ Outdated(j) => Outdated(j)'
      <4> SUFFICES ASSUME NEW j \in Id
                   PROVE  /\ Known(j)' <=> Known(j)
                          /\ Active(j)' <=> Active(j)
                          /\ Outdated(j) => Outdated(j)'
        OBVIOUS
      <4>1. Known(j)' <=> Known(j)
        BY <3>1, <3>2 DEF Known
      <4>2. Active(j)' <=> Active(j)
        BY <1>1, <3>5 DEF Active
      <4>3. Outdated(j) => Outdated(j)'
        BY <1>1, <3>2, <4>1 DEF Outdated
      <4> QED
        BY <4>1, <4>2, <4>3
    <3>7. Named'
      BY <1>1, <3>4 DEF Exact, Named
    <3>8. Sole'
      <4>1. \A d \in Call : call[d].pc # "idle" => call[d].id \in Id
        BY UsesTyped DEF IInv
      <4> QED
        BY <1>1, <3>6, <4>1 DEF Exact, Sole
    <3>9. ASSUME NEW d \in Call PROVE Timely(call[d])'
      <4> SUFFICES ASSUME call[d].pc # "idle" PROVE Timely(call[d])'
        BY <1>1 DEF Timely
      <4>1. call[d].id \in Id /\ Timely(call[d]) /\ call'[d] = call[d]
        BY <1>1, UsesTyped DEF IInv, Exact
      <4>2. CASE call[d].id = i
        <5>1. call[d].pc \notin {"unknown", "reg", "index", "bind", "touch", "touchWrite"}
          BY <3>1, <4>2, Recent
        <5>2. archive'[i] # None
          BY <3>1, <3>2
        <5> QED
          BY <1>1, <4>1, <4>2, <5>1, <5>2 DEF Timely
      <4>3. CASE call[d].id # i
        BY <1>1, <3>2, <3>4, <4>1, <4>3 DEF Timely
      <4> QED
        BY <4>2, <4>3
    <3>10. Spread'
      BY <3>4 DEF Exact, Spread
    <3>11. Homes'
      <4>1. \A t \in Sweeper : sweep[t].pc # "idle" =>
              \A q \in sweep[t].old : q.id \in Id
        BY DEF IInv, TypeOK, Sweeping, Session, Idle
      <4>2. OneHome'
        BY <3>1, <3>2 DEF Exact, Homes, OneHome
      <4>3. \A j \in Id : archive'[j] # None => archive'[j].exp + Grace < now
        BY <3>1, <3>2 DEF Exact, Homes
      <4> QED
        BY <1>1, <3>3, <3>6, <4>1, <4>2, <4>3 DEF Exact, Homes
    <3>12. Locked'
      BY <1>1, <2>2, <3>3 DEF Exact, Locked
    <3>13. Indexed' /\ Vacant'
      <4>1. issued \subseteq Id
        BY DEF IInv, TypeOK
      <4> QED
        BY <1>1, <3>5, <3>6, <4>1 DEF Exact, Indexed, Vacant
    <3> QED
      BY <3>7, <3>8, <3>9, <3>10, <3>11, <3>12, <3>13 DEF Exact
  <2> QED
    BY <2>4, <2>5
<1> QED
  BY <1>2, <1>3

\* Time passes only as far as the requests at work have patience.
LEMMA TickExact ==
  ASSUME IInv, Exact, Tick
  PROVE  Exact'
<1>1. /\ now \in Nat /\ now' = now + 1 /\ Grace \in Nat /\ Patience \in Nat /\ Ttl \in Nat
      /\ UNCHANGED <<live, archive, index, lock, minted, slot, call, sweep, issued>>
  BY Constants DEF Tick, store, ghost, IInv, TypeOK
<1>2. \A j \in Id : /\ live[j] # None => live[j].exp \in Nat
                    /\ archive[j] # None => archive[j].exp \in Nat
  BY DEF IInv, TypeOK, Rec
<1>3. \A j \in Id : /\ Outdated(j) => Outdated(j)'
                    /\ Active(j)' => Active(j)
                    /\ Resolved(j)' = Resolved(j)
                    /\ Known(j)' <=> Known(j)
  <2> SUFFICES ASSUME NEW j \in Id
               PROVE  /\ Outdated(j) => Outdated(j)'
                      /\ Active(j)' => Active(j)
                      /\ Resolved(j)' = Resolved(j)
                      /\ Known(j)' <=> Known(j)
    OBVIOUS
  <2>1. (Known(j)' <=> Known(j)) /\ Resolved(j)' = Resolved(j)
    BY <1>1 DEF Known, Resolved
  <2>2. Outdated(j) => Outdated(j)'
    BY <1>1, <1>2, <2>1 DEF Outdated
  <2>3. Active(j)' => Active(j)
    BY <1>1, <1>2, <2>1 DEF Active, Resolved
  <2> QED
    BY <2>1, <2>2, <2>3
<1>4. /\ \A j \in Id : \A k : Uses(j, k)' <=> Uses(j, k)
      /\ \A j \in Id : \A e : Value(j, e)' <=> Value(j, e)
  BY <1>1 DEF Uses, Value
<1>5. Named' /\ Locked'
  BY <1>1, <1>4 DEF Exact, Named, Locked
<1>6. Sole'
  BY <1>1 DEF Exact, Sole, Known
<1>7. ASSUME NEW d \in Call PROVE Timely(call[d])'
  <2> SUFFICES ASSUME call[d].pc # "idle" PROVE Timely(call[d])'
    BY <1>1 DEF Timely
  <2>1. /\ call[d] \in Busy /\ Timely(call[d]) /\ now - call[d].since < Patience
    BY Shape DEF IInv, Exact, Tick, Idle
  <2>2. /\ call[d].id \in Id /\ call[d].since \in Nat /\ call[d].exp \in Nat
        /\ call[d].since <= now
    BY <2>1 DEF Busy, Timely
  <2>3. call[d].since <= now' /\ now' <= call[d].since + Patience
        /\ (call[d].exp <= now + Ttl => call[d].exp <= now' + Ttl)
    BY <1>1, <2>1, <2>2
  <2> QED
    BY <1>1, <1>4, <2>1, <2>2, <2>3 DEF Timely
<1>8. Spread'
  BY <1>4 DEF Exact, Spread
<1>9. Homes'
  <2>1. \A t \in Sweeper : sweep[t].pc # "idle" =>
          \A q \in sweep[t].old : q.id \in Id
    BY DEF IInv, TypeOK, Sweeping, Session, Idle
  <2>2. \A j \in Id : archive[j] # None => archive[j].exp + Grace < now'
    BY <1>1, <1>2 DEF Exact, Homes
  <2> QED
    BY <1>1, <1>3, <2>1, <2>2 DEF Exact, Homes, OneHome
<1>10. Indexed' /\ Vacant'
  <2>1. issued \subseteq Id
    BY DEF IInv, TypeOK
  <2> QED
    BY <1>1, <1>3, <2>1 DEF Exact, Indexed, Vacant
<1> QED
  BY <1>5, <1>6, <1>7, <1>8, <1>9, <1>10 DEF Exact

LEMMA InitExact == Init => Exact
<1> SUFFICES ASSUME Init PROVE Exact
  OBVIOUS
<1>1. /\ \A c \in Call : call[c].pc = "idle"
      /\ \A s \in Sweeper : sweep[s].pc = "idle"
      /\ \A x \in Client : slot[x] = None
      /\ \A i \in Id : archive[i] = None
      /\ issued = {}
  BY DEF Init, Idle
<1>2. \E k : \A i \in Id : live[i] # None =>
        i <= minted /\ k \in Key /\ live[i].key = k /\ live[i].exp = Ttl
  <2>1. CASE live = [i \in Id |-> None]
    BY <2>1
  <2>2. ASSUME NEW k \in Key, minted = 1,
               live = [i \in Id |->
                         IF i = 1 THEN [key |-> k, exp |-> Ttl] ELSE None]
        PROVE  \A i \in Id : live[i] # None =>
                 i <= minted /\ k \in Key /\ live[i].key = k /\ live[i].exp = Ttl
    BY <2>2
  <2> QED
    BY <2>1, <2>2 DEF Init
<1>3. PICK k : \A i \in Id : live[i] # None =>
        i <= minted /\ k \in Key /\ live[i].key = k /\ live[i].exp = Ttl
  BY <1>2
<1>4. \A i \in Id : \A l : Uses(i, l) => i <= minted /\ l = k /\ k \in Key
  BY <1>1, <1>3 DEF Uses
<1>5. \A i \in Id : \A e : Value(i, e) => e = Ttl
  BY <1>1, <1>3 DEF Value
<1>6. Named /\ Sole
  BY <1>1, <1>4, Constants DEF Named, Sole, Client
<1>7. \A c \in Call : Timely(call[c])
  BY <1>1 DEF Timely
<1>8. Spread
  <2>1. Ttl \in Nat /\ Patience \in Nat /\ Ttl <= Ttl + 2 * Patience
    BY Constants
  <2> QED
    BY <1>5, <2>1 DEF Spread
<1>9. Homes /\ Locked /\ Indexed /\ Vacant
  BY <1>1 DEF Homes, OneHome, Locked, Indexed, Vacant
<1> QED
  BY <1>6, <1>7, <1>8, <1>9 DEF Exact

LEMMA CallStepExact ==
  ASSUME Patience <= Ttl, 3 * Patience <= Grace,
         IInv, IInv', Exact, NEW c \in Call, CallStep(c)
  PROVE  Exact'
BY StartToolExact, StartRegisterExact, StartWebExact, ReadLiveExact,
   ReadArchiveExact, UnknownExact, TouchReadExact, TouchWriteExact,
   RegisterExact, RegisterIndexExact, RegisterEndsExact, BindExact
DEF CallStep

LEMMA SweepStepExact ==
  ASSUME Patience <= Ttl, 3 * Patience <= Grace,
         IInv, IInv', Exact, NEW s \in Sweeper, SweepStep(s)
  PROVE  Exact'
BY SweepReadExact, SweepLockExact, SweepMoveExact, SweepDropExact,
   SweepFillExact, SweepStopsExact
DEF SweepStep

LEMMA NextExact ==
  ASSUME Patience <= Ttl, 3 * Patience <= Grace, IInv, IInv', Exact, [Next]_vars
  PROVE  Exact'
<1>1. CASE \E c \in Call : CallStep(c)
  BY <1>1, CallStepExact
<1>2. CASE \E s \in Sweeper : SweepStep(s)
  BY <1>2, SweepStepExact
<1>3. CASE \E b \in present \cap Browser : WebRead(b)
  BY <1>3, WebReadExact
<1>4. CASE \E x \in present : Crash(x)
  <2>1. present \subseteq Client
    BY Constants DEF IInv, TypeOK
  <2> QED
    BY <1>4, <2>1, CrashExact
<1>5. CASE Tick
  BY <1>5, TickExact
<1>6. CASE UNCHANGED vars
  <2>1. None \notin Call /\ minted \in Nat /\ minted <= minted'
    BY <1>6, Constants DEF Actor, IInv, TypeOK, vars
  <2>2. Calm(None, minted + 1)
    BY <1>6, <2>1 DEF Calm, vars
  <2> QED
    BY <2>2, CalmStep DEF IInv
<1> QED
  BY <1>1, <1>2, <1>3, <1>4, <1>5, <1>6 DEF Next

\* Of two active sessions with one key, the index names both.
LEMMA ExactIsExact == IInv /\ Exact => RegistryExact
<1> SUFFICES ASSUME IInv, Exact PROVE KeyHeldOnce
  BY DEF Exact, Homes, RegistryExact
<1>1. ASSUME NEW i \in issued, Active(i) PROVE index[Resolved(i).key] = i
  <2>1. i \in Id
    BY DEF IInv, TypeOK
  <2> QED
    BY <1>1, <2>1, OutdatedIsDead DEF Exact, Indexed
<1> QED
  BY <1>1 DEF KeyHeldOnce

\* RegisterAgent's promise (store/agents.go): two sessions it handed out never
\* hold one key at the same time, and no record is ever in agents/ and in
\* agents-archive/, although touches take no lock at all and the sweep judges
\* records long before it moves them.  It holds as long as a request is over
\* in a third of the sweep's grace and in the life of a session, which the
\* code's day and hours leave room for.
THEOREM RegistryIsExact ==
  ASSUME Patience <= Ttl, 3 * Patience <= Grace
  PROVE  Spec => []RegistryExact
<1>1. Init => IInv /\ Exact
  BY InitIInv, InitExact
<1>2. IInv /\ Exact /\ [Next]_vars => (IInv /\ Exact)'
  BY NextIInv, NextExact
<1>3. IInv /\ Exact => RegistryExact
  BY ExactIsExact
<1> QED
  BY <1>1, <1>2, <1>3, PTL DEF Spec
=============================================================================
