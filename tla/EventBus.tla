------------------------------ MODULE EventBus ------------------------------
(***************************************************************************)
(* internal/eventbus and the /sse handler of internal/web that reads it.   *)
(* Publish stamps an event with the next seq, appends it to the ring of    *)
(* each of its topics and picks its targets under the bus's mutex; it      *)
(* delivers after the unlock, without ever waiting.  A handler subscribes  *)
(* with the client's Last-Event-ID, writes the replayed events, then what  *)
(* its channel brings, until the client is gone or the bus gave it up.     *)
(*                                                                         *)
(* An event is its seq; log keeps what each was about.  A connection is    *)
(* one run of handleSSE with its subscription, a client is a page that     *)
(* reconnects and remembers the id of the last frame it has seen.  A       *)
(* publisher stands for a caller whose events are published one after      *)
(* another: the holder of a project's lp.Lock, or one agent's touches.     *)
(***************************************************************************)
EXTENDS Naturals, Sequences, FiniteSets, Functions

CONSTANTS
  Topic,
  Publisher,
  Client,
  RingSize,     \* events a topic's ring keeps (1024 in the code)
  LiveBuffer,   \* depth of a subscription's channel (64 in the code)
  NConns,       \* bound: connections opened in all
  MaxSeq,       \* bound: events published in all
  None

ASSUME SizesAssumption == RingSize \in Nat \ {0} /\ LiveBuffer \in Nat \ {0}
ASSUME BoundsAssumption == NConns \in Nat /\ MaxSeq \in Nat
ASSUME NoneAssumption == None \notin 1..NConns

Conn == 1..NConns   \* connections, in the order they are opened

VARIABLES
  seq,         \* the bus's last seq
  rings,       \* each topic's ring
  subs,        \* registered subscriptions
  pub,         \* each publisher: the event it delivers and the targets left
  pc,          \* each handler: "new", "replay", "select", "write", "left", "gone"
  owner,       \* whose connection it is, None before it is opened
  replay,      \* what Subscribe returned for replay and is not written yet
  ch,          \* the live channel
  out,         \* what the handler has received and not written yet
  done,        \* subscriptions that are closed
  wants,       \* the topics of each client's page
  link,        \* the connection each client still hears, None when cut
  lastId,      \* id of the last frame each client has seen, 0 for none
  log,         \* every event: its topics and who published it (history)
  base,        \* seq when each client last connected (history)
  sent,        \* what it has seen over its link (history)
  since,       \* seq from which each client should see everything (history)
  got,         \* events each client has seen (history)
  shed,        \* events the rings had lost when the client came back (history)
  overtaken    \* events each client was sent a later one before (history)

bus == <<seq, rings, subs, log>>
handlers == <<pc, owner, replay, ch, out, done>>
clients == <<wants, link, lastId, base, sent, since, got, shed, overtaken>>
vars == <<bus, pub, handlers, clients>>

Idle == [seq |-> 0, todo |-> {}]
PC == {"new", "replay", "select", "write", "left", "gone"}

TypeOK ==
  /\ seq \in 0..MaxSeq
  /\ log \in [1..seq -> [topics : SUBSET Topic, by : Publisher]]
  /\ rings \in [Topic -> Seq(1..seq)] /\ \A t \in Topic : Len(rings[t]) <= RingSize
  /\ subs \subseteq Conn /\ done \subseteq Conn
  /\ pub \in [Publisher -> [seq : 0..seq, todo : SUBSET Conn]]
  /\ pc \in [Conn -> PC]
  /\ owner \in [Conn -> Client \cup {None}]
  /\ {replay, ch, out} \subseteq [Conn -> Seq(1..seq)]
  /\ \A k \in Conn :
       /\ Len(ch[k]) <= LiveBuffer
       /\ out[k] # <<>> => pc[k] = "write" /\ Len(out[k]) = 1
       /\ pc[k] \in {"replay", "select", "write", "left"} <=> k \in subs
  /\ wants \in [Client -> SUBSET Topic]
  /\ link \in [Client -> Conn \cup {None}]
  /\ {lastId, base, since} \subseteq [Client -> 0..seq]
  /\ sent \in [Client -> Seq(1..seq)]
  /\ {got, shed, overtaken} \subseteq [Client -> SUBSET (1..seq)]
  /\ \A c \in Client : Range(sent[c]) \subseteq got[c]

Init ==
  /\ seq = 0 /\ log = <<>>
  /\ rings = [t \in Topic |-> <<>>]
  /\ subs = {} /\ done = {}
  /\ pub = [p \in Publisher |-> Idle]
  /\ pc = [k \in Conn |-> "new"]
  /\ owner = [k \in Conn |-> None]
  /\ replay = [k \in Conn |-> <<>>]
  /\ ch = [k \in Conn |-> <<>>]
  /\ out = [k \in Conn |-> <<>>]
  /\ base = [c \in Client |-> 0]
  /\ sent = [c \in Client |-> <<>>]
  /\ wants \in [Client -> SUBSET Topic \ {{}}]
  /\ link = [c \in Client |-> None]
  /\ lastId = [c \in Client |-> 0]
  /\ since = [c \in Client |-> 0]
  /\ got = [c \in Client |-> {}]
  /\ shed = [c \in Client |-> {}]
  /\ overtaken = [c \in Client |-> {}]

\* What has come and is to come over a client's link, in order, and what
\* publishers are about to put into its channel.
Way(c) ==
  LET k == link[c] IN IF k = None THEN <<>> ELSE sent[c] \o out[k] \o replay[k] \o ch[k]
Coming(c) == {pub[p].seq : p \in {q \in Publisher : link[c] \in pub[q].todo}}
About(c) == {s \in 1..seq : log[s].topics \cap wants[c] # {}}

-----------------------------------------------------------------------------
(* Publish.                                                                *)

Newest(r) == IF Len(r) > RingSize THEN SubSeq(r, Len(r) - RingSize + 1, Len(r)) ELSE r

\* The part under b.mu.
Stamp(p, T) ==
  /\ pub[p].todo = {}
  /\ seq < MaxSeq
  /\ seq' = seq + 1
  /\ log' = Append(log, [topics |-> T, by |-> p])
  /\ rings' = [t \in Topic |-> IF t \in T THEN Newest(Append(rings[t], seq')) ELSE rings[t]]
  /\ LET targets == {k \in subs : wants[owner[k]] \cap T # {}}
     IN pub' = [pub EXCEPT ![p] = IF targets = {} THEN Idle ELSE [seq |-> seq', todo |-> targets]]
  /\ UNCHANGED <<subs, handlers, clients>>

\* Targets come out of a map: in any order.
Delivered(p, k) ==
  /\ k \in pub[p].todo
  /\ pub' = [pub EXCEPT ![p] = IF @.todo = {k} THEN Idle
                                ELSE [seq |-> @.seq, todo |-> @.todo \ {k}]]
  /\ UNCHANGED <<bus, pc, owner, replay, out, base, sent, wants, link, lastId, since,
                 got, shed>>

Room(k) == Len(ch[k]) < LiveBuffer

\* The select's send case; it may win over a closed done.
Send(p, k) ==
  /\ Room(k)
  /\ Delivered(p, k)
  /\ ch' = IF k \in subs THEN [ch EXCEPT ![k] = Append(@, pub[p].seq)] ELSE ch
  /\ LET c == owner[k] IN
     overtaken' = IF link[c] = k
       THEN [overtaken EXCEPT ![c] =
               @ \cup ({s \in About(c) : base[c] < s /\ s < pub[p].seq} \ Range(Way(c)))]
       ELSE overtaken
  /\ UNCHANGED done

\* Its done case.
Skip(p, k) ==
  /\ k \in done
  /\ Delivered(p, k)
  /\ UNCHANGED <<ch, done, overtaken>>

\* Its default: neither case is ready.
GiveUp(p, k) ==
  /\ ~Room(k) /\ k \notin done
  /\ Delivered(p, k)
  /\ done' = done \cup {k}
  /\ UNCHANGED <<ch, overtaken>>

Deliver(p) == \E k \in Conn : Send(p, k) \/ Skip(p, k) \/ GiveUp(p, k)

-----------------------------------------------------------------------------
(* handleSSE.                                                              *)

Buffered(T) == UNION {Range(rings[t]) : t \in T}
\* The events of S, in some order and in that of their seq.
Listed(S) == {r \in [1..Cardinality(S) -> S] : Range(r) = S}
Sorted(S) == {r \in Listed(S) : \A i, j \in DOMAIN r : i < j => r[i] < r[j]}

\* Mutants: without the sort; one past the last seen.
ReplayUnsorted(T, last) ==
  IF last = 0 THEN {<<>>} ELSE Listed({s \in Buffered(T) : s > last})
ReplaySkipsOne(T, last) ==
  IF last = 0 THEN {<<>>} ELSE Sorted({s \in Buffered(T) : s > last + 1})

\* What Subscribe collects for a client that has seen `last`: nothing on a
\* fresh attach.
Replay(T, last) ==
  IF last = 0 THEN {<<>>} ELSE Sorted({s \in Buffered(T) : s > last})

\* A client (re)connects; Subscribe's snapshot and registration are one
\* critical section.
Connect(c) ==
  /\ link[c] = None
  /\ \E k \in Conn :
       /\ pc[k] = "new" /\ \A j \in 1..(k - 1) : pc[j] # "new"
       /\ owner' = [owner EXCEPT ![k] = c]
       /\ \E r \in Replay(wants[c], lastId[c]) : replay' = [replay EXCEPT ![k] = r]
       /\ pc' = [pc EXCEPT ![k] = IF replay'[k] = <<>> THEN "select" ELSE "replay"]
       /\ subs' = subs \cup {k}
       /\ link' = [link EXCEPT ![c] = k]
  /\ base' = [base EXCEPT ![c] = seq]
  /\ since' = IF lastId[c] = 0 THEN [since EXCEPT ![c] = seq] ELSE since
  /\ shed' = [shed EXCEPT ![c] = @ \cup ((lastId[c] + 1)..seq \ Buffered(wants[c]))]
  /\ UNCHANGED <<seq, rings, log, pub, ch, out, done, sent, wants, lastId, got, overtaken>>

\* One frame goes out.  The client sees it unless its link is cut.
WriteDelivery(k, s) ==
  LET c == owner[k] IN
  IF link[c] = k
  THEN /\ lastId' = [lastId EXCEPT ![c] = s]
       /\ sent' = [sent EXCEPT ![c] = Append(@, s)]
       /\ got' = [got EXCEPT ![c] = @ \cup {s}]
  ELSE UNCHANGED <<lastId, sent, got>>

WriteReplay(k) ==
  /\ pc[k] = "replay"
  /\ WriteDelivery(k, Head(replay[k]))
  /\ replay' = [replay EXCEPT ![k] = Tail(@)]
  /\ pc' = IF replay'[k] = <<>> THEN [pc EXCEPT ![k] = "select"] ELSE pc
  /\ UNCHANGED <<bus, pub, owner, ch, out, done, base, wants, link, since, shed,
                 overtaken>>

\* The loop's select takes any case that is ready.
Receive(k) ==
  /\ pc[k] = "select" /\ ch[k] # <<>>
  /\ out' = [out EXCEPT ![k] = <<Head(ch[k])>>]
  /\ ch' = [ch EXCEPT ![k] = Tail(@)]
  /\ pc' = [pc EXCEPT ![k] = "write"]
  /\ UNCHANGED <<bus, pub, owner, replay, done, clients>>

WriteLive(k) ==
  /\ pc[k] = "write"
  /\ WriteDelivery(k, Head(out[k]))
  /\ out' = [out EXCEPT ![k] = <<>>]
  /\ pc' = [pc EXCEPT ![k] = "select"]
  /\ UNCHANGED <<bus, pub, owner, replay, ch, done, base, wants, link, since, shed,
                 overtaken>>

Disconnected(c) ==
  /\ link' = [link EXCEPT ![c] = None]
  /\ sent' = [sent EXCEPT ![c] = <<>>] /\ base' = [base EXCEPT ![c] = 0]

\* Mutant: the loop does not watch the request's context.
LeaveOnDoneOnly(k) ==
  /\ pc[k] = "select" /\ k \in done
  /\ pc' = [pc EXCEPT ![k] = "left"]
  /\ UNCHANGED <<bus, pub, owner, replay, ch, out, done, clients>>

\* The request's context is done, or the bus gave the subscription up: the
\* deferred cancel closes done, then takes the mutex and unregisters.
Leave(k) ==
  /\ pc[k] = "select"
  /\ link[owner[k]] # k \/ k \in done
  /\ done' = done \cup {k}
  /\ pc' = [pc EXCEPT ![k] = "left"]
  /\ UNCHANGED <<bus, pub, owner, replay, ch, out, clients>>

Unregister(k) ==
  /\ pc[k] = "left"
  /\ subs' = subs \ {k}
  /\ pc' = [pc EXCEPT ![k] = "gone"]
  /\ ch' = [ch EXCEPT ![k] = <<>>]   \* nobody reads it again
  /\ IF link[owner[k]] = k THEN Disconnected(owner[k]) ELSE UNCHANGED <<link, sent, base>>
  /\ UNCHANGED <<seq, rings, log, pub, owner, replay, out, done, wants, lastId, since,
                 got, shed, overtaken>>

\* The network, the proxy or the browser drops the connection.
Cut(c) ==
  /\ link[c] # None
  /\ Disconnected(c)
  /\ UNCHANGED <<bus, pub, handlers, wants, lastId, since, got, shed, overtaken>>

Write(k) == WriteReplay(k) \/ WriteLive(k)

Next ==
  \/ \E p \in Publisher : Deliver(p) \/ \E T \in SUBSET Topic \ {{}} : Stamp(p, T)
  \/ \E c \in Client : Connect(c) \/ Cut(c)
  \/ \E k \in Conn : Write(k) \/ Receive(k) \/ Leave(k) \/ Unregister(k)

\* A write on a cut link fails at once; on one that stands it may block for as
\* long as the client reads slowly.
WriteToNobody(k) == pc[k] # "new" /\ link[owner[k]] # k /\ Write(k)

Spec == Init /\ [][Next]_vars

-----------------------------------------------------------------------------
(* Properties.                                                             *)

\* An event reaches a connection at most once, however many of its topics the
\* page follows and however Publish races with Subscribe: what is replayed is
\* never delivered live as well.
OncePerConnection ==
  \A c \in Client : IsInjective(Way(c)) /\ Coming(c) \cap Range(Way(c)) = {}

\* A subscription that has not been closed has every event published since it
\* was made: none falls between the snapshot and the live channel, and none is
\* dropped on a full channel without the disconnect that tells the handler.
NoGapWhileOpen ==
  \A c \in Client : link[c] \in subs \ done =>
    {s \in About(c) : s > base[c]} \subseteq Range(Way(c)) \cup Coming(c)

\* Events of one publisher reach a connection in the order they were published,
\* over replay and live together: a page is never patched back to an older
\* state of the same ticket.
PublisherOrder ==
  \A c \in Client : \A i, j \in DOMAIN Way(c) :
    i < j /\ log[Way(c)[i]].by = log[Way(c)[j]].by => Way(c)[i] < Way(c)[j]

\* Exactly once while it is open, and in order: a subscription has everything it
\* is owed, nothing twice, and no publisher's events turned round.
InOrderExactlyOnce == TypeOK /\ OncePerConnection /\ NoGapWhileOpen /\ PublisherOrder

\* What a client will never be sent again although it came before the last
\* frame it has seen, and the rings still had it when the client came back.
Missed(c) == {s \in About(c) : since[c] < s /\ s <= lastId[c]} \ (got[c] \cup shed[c])

\* The only events a resuming client can lose are those a later event was put
\* into the channel before: one another publisher was about to send, or one
\* refused because the channel was full.
GapOnlyOvertaken ==
  \A c \in Client : link[c] = None => Missed(c) \subseteq overtaken[c]

\* Nobody is held up by a client.  A publisher with targets left can always
\* deliver, whatever its consumers do: its own steps bring it through.  And the
\* handler of a client that is gone, writing or waiting, with a backlog or none,
\* can always go on by itself until it has unregistered: targets do not pile up.
NeverHeldUp ==
  /\ \A p \in Publisher : pub[p].todo # {} => ENABLED Deliver(p)
  /\ \A k \in subs : link[owner[k]] # k =>
       ENABLED (WriteToNobody(k) \/ Leave(k) \/ Unregister(k))
=============================================================================
