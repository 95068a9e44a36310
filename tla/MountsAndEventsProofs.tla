------------------------ MODULE MountsAndEventsProofs ------------------------
(***************************************************************************)
(* Proofs about two components that share no state.                        *)
(*                                                                         *)
(* EventBus, for any topics, publishers, clients, sizes of rings and       *)
(* channels, and bounds.  The inductive invariant adds to the types which  *)
(* connections hold what (Linked), that a publisher in Publish delivers    *)
(* its latest event (Publishing), and, for every event a client may have   *)
(* been passed by, why (Gaps).                                             *)
(*                                                                         *)
(* Mounts, for any repositories, slugs, requests, pool and limit.  One     *)
(* inductive invariant gives the types and who runs a worker (TableInv),   *)
(* one adds the order of use and counts the residents (BoundInv), and one  *)
(* says what keeps a project mounted and in the registry while calls are   *)
(* half done (KeptInv).                                                    *)
(***************************************************************************)
EXTENDS EventBus, Mounts, SequenceTheorems, FiniteSetTheorems, TLAPS

-----------------------------------------------------------------------------
(*                               EventBus                                  *)

Linked ==
  /\ \A c \in Client :
       /\ link[c] # None => owner[link[c]] = c /\ link[c] \in subs
       /\ link[c] = None => sent[c] = <<>>
  /\ \A k \in Conn :
       /\ pc[k] = "new" => ch[k] = <<>> /\ \A p \in Publisher : k \notin pub[p].todo
       /\ pc[k] = "replay" => replay[k] # <<>>
       /\ pc[k] \in {"select", "write", "left"} => replay[k] = <<>>
       /\ pc[k] = "write" => out[k] # <<>>
       /\ pc[k] # "new" => owner[k] \in Client

Publishing ==
  \A p \in Publisher : pub[p].todo # {} =>
    /\ pub[p].seq \in 1..seq /\ log[pub[p].seq].by = p
    /\ \A s \in 1..seq : log[s].by = p => s <= pub[p].seq

\* The client has seen event s, or it is known why it has not.
Accounted(c, s) == s \in got[c] \cup shed[c] \cup overtaken[c]

Gaps ==
  \A c \in Client : \A s \in About(c) : since[c] < s =>
    /\ s <= lastId[c] => Accounted(c, s)
    /\ link[c] # None /\ s <= base[c] => Accounted(c, s) \/ s \in Range(Way(c))
    /\ \A i \in DOMAIN Way(c) :
         s < Way(c)[i] => Accounted(c, s) \/ \E j \in 1..i-1 : Way(c)[j] = s

Paths == OncePerConnection /\ NoGapWhileOpen /\ PublisherOrder /\ Gaps
IInv == TypeOK /\ Linked /\ Publishing /\ Paths

-----------------------------------------------------------------------------
(* Sequences.                                                              *)

LEMMA EmptySequence == ASSUME NEW S PROVE <<>> \in Seq(S) /\ Range(<<>>) = {}
BY EmptySeq DEF Range

\* A list and one more.
LEMMA OneMore ==
  ASSUME NEW S, NEW s \in Seq(S), NEW e \in S
  PROVE  /\ Append(s, e) \in Seq(S)
         /\ DOMAIN s = 1..Len(s) /\ Len(s) \in Nat
         /\ DOMAIN Append(s, e) = 1..(Len(s) + 1)
         /\ \A i \in DOMAIN s : Append(s, e)[i] = s[i]
         /\ Append(s, e)[Len(s) + 1] = e
         /\ Range(Append(s, e)) = Range(s) \cup {e}
<1>1. Append(s, e) \in Seq(S) /\ Len(Append(s, e)) = Len(s) + 1
  BY AppendProperties
<1>2. /\ DOMAIN s = 1..Len(s) /\ Len(s) \in Nat
      /\ DOMAIN Append(s, e) = 1..(Len(s) + 1)
  BY <1>1, LenProperties
<1>3. /\ \A i \in DOMAIN s : Append(s, e)[i] = s[i]
      /\ Append(s, e)[Len(s) + 1] = e
  BY <1>2, AppendProperties
<1>4. Range(Append(s, e)) = Range(s) \cup {e}
  BY <1>2, <1>3 DEF Range
<1> QED
  BY <1>1, <1>2, <1>3, <1>4

\* The first of a list is one of it, and the rest make up the others.
LEMMA HeadAndTail ==
  ASSUME NEW S, NEW r \in Seq(S), r # <<>>
  PROVE  /\ Head(r) \in S /\ Head(r) = r[1] /\ Tail(r) \in Seq(S)
         /\ r = <<Head(r)>> \o Tail(r) /\ <<Head(r)>> \in Seq(S)
<1>1. Head(r) \in S /\ Tail(r) \in Seq(S) /\ Len(r) \in Nat \ {0}
      /\ Len(Tail(r)) = Len(r) - 1 /\ \A i \in 1..Len(Tail(r)) : Tail(r)[i] = r[i + 1]
  BY HeadTailProperties, EmptySeq
<1>2. Head(r) = r[1]
  BY <1>1
<1>3. <<Head(r)>> \in Seq(S) /\ Len(<<Head(r)>>) = 1 /\ <<Head(r)>>[1] = Head(r)
  BY <1>1
<1>4. <<Head(r)>> \o Tail(r) \in Seq(S) /\ Len(<<Head(r)>> \o Tail(r)) = Len(r)
  BY <1>1, <1>3, ConcatProperties
<1>5. ASSUME NEW i \in 1..Len(r) PROVE r[i] = (<<Head(r)>> \o Tail(r))[i]
  <2>1. (<<Head(r)>> \o Tail(r))[i] = IF i <= 1 THEN Head(r) ELSE Tail(r)[i - 1]
    BY <1>1, <1>3, ConcatProperties
  <2>2. CASE i = 1
    BY <1>2, <2>1, <2>2
  <2>3. CASE i # 1
    <3>1. i - 1 \in 1..Len(Tail(r)) /\ ~ i <= 1
      BY <1>1, <2>3
    <3>2. Tail(r)[i - 1] = r[(i - 1) + 1] /\ (i - 1) + 1 = i
      BY <1>1, <3>1
    <3> QED
      BY <2>1, <3>1, <3>2
  <2> QED
    BY <2>2, <2>3
<1>6. r = <<Head(r)>> \o Tail(r)
  BY <1>4, <1>5, SeqEqual
<1> QED
  BY <1>1, <1>2, <1>3, <1>6

\* Concatenations in which one element has moved from the head of a part to the
\* end of the one before.
LEMMA MovedAlong ==
  ASSUME NEW S, NEW s \in Seq(S), NEW r \in Seq(S), NEW w \in Seq(S), r # <<>>
  PROVE  (Append(s, Head(r)) \o Tail(r)) \o w = (s \o r) \o w
<1>1. /\ Head(r) \in S /\ Tail(r) \in Seq(S)
      /\ r = <<Head(r)>> \o Tail(r) /\ <<Head(r)>> \in Seq(S)
  BY HeadAndTail
<1>2. Append(s, Head(r)) = s \o <<Head(r)>>
  BY <1>1, AppendIsConcat
<1>3. (s \o <<Head(r)>>) \o Tail(r) = s \o (<<Head(r)>> \o Tail(r))
  BY <1>1, ConcatAssociative
<1> QED
  BY <1>1, <1>2, <1>3

LEMMA AppendBehind ==
  ASSUME NEW S, NEW s \in Seq(S), NEW t \in Seq(S), NEW e \in S
  PROVE  s \o Append(t, e) = Append(s \o t, e)
<1>1. s \o t \in Seq(S) /\ <<e>> \in Seq(S)
  BY ConcatProperties
<1>2. Append(t, e) = t \o <<e>> /\ Append(s \o t, e) = (s \o t) \o <<e>>
  BY <1>1, AppendIsConcat
<1>3. (s \o t) \o <<e>> = s \o (t \o <<e>>)
  BY <1>1, ConcatAssociative
<1> QED
  BY <1>2, <1>3

-----------------------------------------------------------------------------
(* What is on its way.                                                     *)

\* The parts of a client's way are lists of events.
LEMMA Parts ==
  ASSUME TypeOK, NEW c \in Client, NEW k \in Conn
  PROVE  /\ sent[c] \in Seq(1..seq) /\ out[k] \in Seq(1..seq)
         /\ replay[k] \in Seq(1..seq) /\ ch[k] \in Seq(1..seq)
         /\ (sent[c] \o out[k]) \o replay[k] \in Seq(1..seq)
<1>1. /\ sent[c] \in Seq(1..seq) /\ out[k] \in Seq(1..seq)
      /\ replay[k] \in Seq(1..seq) /\ ch[k] \in Seq(1..seq)
  BY DEF TypeOK
<1>2. sent[c] \o out[k] \in Seq(1..seq)
  BY <1>1, ConcatProperties
<1> QED
  BY <1>1, <1>2, ConcatProperties

LEMMA WayTyped ==
  ASSUME TypeOK, NEW c \in Client
  PROVE  /\ Way(c) \in Seq(1..seq) /\ Len(Way(c)) \in Nat
         /\ DOMAIN Way(c) = 1..Len(Way(c)) /\ \A i \in DOMAIN Way(c) : Way(c)[i] \in 1..seq
<1>1. Way(c) \in Seq(1..seq)
  <2>1. CASE link[c] = None
    BY <2>1, EmptySequence DEF Way
  <2>2. CASE link[c] # None
    <3>1. link[c] \in Conn
      BY <2>2 DEF TypeOK
    <3>2. (sent[c] \o out[link[c]]) \o replay[link[c]] \in Seq(1..seq) /\ ch[link[c]] \in Seq(1..seq)
      BY <3>1, Parts
    <3> QED
      BY <2>2, <3>2, ConcatProperties DEF Way
  <2> QED
    BY <2>1, <2>2
<1>2. Len(Way(c)) \in Nat /\ DOMAIN Way(c) = 1..Len(Way(c))
  BY <1>1, LenProperties
<1> QED
  BY <1>1, <1>2, ElementOfSeq

LEMMA Events ==
  ASSUME TypeOK
  PROVE  /\ seq \in Nat
         /\ \A c \in Client : /\ About(c) \subseteq 1..seq
                              /\ lastId[c] \in 0..seq /\ base[c] \in 0..seq /\ since[c] \in 0..seq
                              /\ link[c] \in Conn \cup {None}
         /\ \A s \in 1..seq : log[s].by \in Publisher /\ log[s].topics \subseteq Topic
         /\ \A p \in Publisher : pub[p].seq \in 0..seq /\ pub[p].todo \subseteq Conn
         /\ None \notin Conn /\ Conn \subseteq Nat
BY BoundsAssumption, NoneAssumption DEF TypeOK, About, Conn

\* A publisher with targets left delivers an event nobody else delivers, its
\* latest.
LEMMA OwnEvent ==
  ASSUME TypeOK, Publishing, NEW p \in Publisher, NEW q \in Publisher,
         pub[p].todo # {}, pub[q].todo # {}, pub[p].seq = pub[q].seq
  PROVE  p = q
BY DEF Publishing

\* Paths, client by client.
PathOf(c) ==
  /\ IsInjective(Way(c)) /\ Coming(c) \cap Range(Way(c)) = {}
  /\ link[c] \in subs \ done =>
       {s \in About(c) : s > base[c]} \subseteq Range(Way(c)) \cup Coming(c)
  /\ \A i, j \in DOMAIN Way(c) :
       i < j /\ log[Way(c)[i]].by = log[Way(c)[j]].by => Way(c)[i] < Way(c)[j]
  /\ \A s \in About(c) : since[c] < s =>
       /\ s <= lastId[c] => Accounted(c, s)
       /\ link[c] # None /\ s <= base[c] => Accounted(c, s) \/ s \in Range(Way(c))
       /\ \A i \in DOMAIN Way(c) :
            s < Way(c)[i] => Accounted(c, s) \/ \E j \in 1..i-1 : Way(c)[j] = s

LEMMA EachPath == Paths <=> \A c \in Client : PathOf(c)
<1>1. OncePerConnection <=> \A c \in Client :
        IsInjective(Way(c)) /\ Coming(c) \cap Range(Way(c)) = {}
  BY DEF OncePerConnection
<1>2. NoGapWhileOpen <=> \A c \in Client : link[c] \in subs \ done =>
        {s \in About(c) : s > base[c]} \subseteq Range(Way(c)) \cup Coming(c)
  BY DEF NoGapWhileOpen
<1>3. PublisherOrder <=> \A c \in Client : \A i, j \in DOMAIN Way(c) :
        i < j /\ log[Way(c)[i]].by = log[Way(c)[j]].by => Way(c)[i] < Way(c)[j]
  BY DEF PublisherOrder
<1> QED
  BY <1>1, <1>2, <1>3, Zenon DEF Paths, Gaps, PathOf

LEMMA EachPathNext == Paths' <=> \A c \in Client : PathOf(c)'
<1>1. (Paths <=> \A c \in Client : PathOf(c))'
  BY EachPath, PTL
<1> QED
  BY <1>1

\* What is known of a client is kept by a step that leaves its way as it is, and
\* takes nothing from what is coming while its subscription is open.
LEMMA Unmoved ==
  ASSUME NEW c \in Client, PathOf(c),
         Way(c)' = Way(c), Coming(c)' \subseteq Coming(c),
         link'[c] \in subs' \ done' =>
           link[c] \in subs \ done /\ Coming(c) \subseteq Coming(c)',
         UNCHANGED <<seq, log, wants>>, link'[c] = link[c], base'[c] = base[c],
         since'[c] = since[c],
         got[c] \subseteq got'[c], shed[c] \subseteq shed'[c],
         overtaken[c] \subseteq overtaken'[c],
         \A s \in About(c) : since[c] < s /\ s <= lastId'[c] => Accounted(c, s)'
  PROVE  PathOf(c)'
<1>1. About(c)' = About(c)
  BY DEF About
<1>2. \A s : Accounted(c, s) => Accounted(c, s)'
  BY DEF Accounted
<1>3. /\ (IsInjective(Way(c)) /\ Coming(c) \cap Range(Way(c)) = {})'
      /\ (\A i, j \in DOMAIN Way(c) :
           i < j /\ log[Way(c)[i]].by = log[Way(c)[j]].by => Way(c)[i] < Way(c)[j])'
  BY DEF PathOf
<1>4. (link[c] \in subs \ done =>
        {s \in About(c) : s > base[c]} \subseteq Range(Way(c)) \cup Coming(c))'
  BY <1>1 DEF PathOf
<1>5. ASSUME NEW s \in About(c), since[c] < s
      PROVE  /\ s <= lastId'[c] => Accounted(c, s)'
             /\ link[c] # None /\ s <= base[c] => Accounted(c, s)' \/ s \in Range(Way(c))
             /\ \A i \in DOMAIN Way(c) : s < Way(c)[i] =>
                  Accounted(c, s)' \/ \E j \in 1..i-1 : Way(c)[j] = s
  BY <1>2, <1>5 DEF PathOf
<1> QED
  BY <1>1, <1>3, <1>4, <1>5 DEF PathOf

\* Of a client whose id of the last frame stays, nothing more is to be shown.
LEMMA StillAccounted ==
  ASSUME NEW c \in Client, PathOf(c), lastId'[c] = lastId[c], got[c] \subseteq got'[c],
         shed[c] \subseteq shed'[c], overtaken[c] \subseteq overtaken'[c]
  PROVE  \A s \in About(c) : since[c] < s /\ s <= lastId'[c] => Accounted(c, s)'
BY DEF PathOf, Accounted

-----------------------------------------------------------------------------
(* Publish.                                                                *)

\* A ring keeps its newest events, no more than it has room for.
LEMMA RingKeeps ==
  ASSUME NEW S, NEW r \in Seq(S), NEW e \in S, Len(r) <= RingSize
  PROVE  Newest(Append(r, e)) \in Seq(S) /\ Len(Newest(Append(r, e))) <= RingSize
<1> DEFINE a == Append(r, e)
<1>1. a \in Seq(S) /\ Len(a) = Len(r) + 1 /\ Len(r) \in Nat /\ RingSize \in Nat \ {0}
  BY AppendProperties, LenProperties, SizesAssumption
<1>2. CASE Len(a) > RingSize
  <2>1. \A i \in (Len(a) - RingSize + 1)..Len(a) : a[i] \in S
    <3>1. \A i \in (Len(a) - RingSize + 1)..Len(a) : i \in 1..Len(a)
      BY <1>1, <1>2
    <3> HIDE DEF a
    <3> QED
      BY <1>1, <3>1, ElementOfSeq
  <2>2. Len(a) - RingSize + 1 \in Int /\ Len(a) \in Int
    BY <1>1
  <2> HIDE DEF a
  <2>3. /\ SubSeq(a, Len(a) - RingSize + 1, Len(a)) \in Seq(S)
        /\ Len(SubSeq(a, Len(a) - RingSize + 1, Len(a))) = RingSize
    BY <1>1, <2>1, <2>2, SubSeqProperties
  <2> QED
    BY <1>1, <1>2, <2>3 DEF a, Newest
<1>3. CASE ~ Len(a) > RingSize
  BY <1>1, <1>3 DEF Newest
<1> QED
  BY <1>2, <1>3

LEMMA LogGrows ==
  ASSUME TypeOK, NEW e \in [topics : SUBSET Topic, by : Publisher]
  PROVE  /\ Append(log, e) \in [1..(seq + 1) -> [topics : SUBSET Topic, by : Publisher]]
         /\ \A s \in 1..seq : Append(log, e)[s] = log[s]
         /\ Append(log, e)[seq + 1] = e
<1> DEFINE R == [topics : SUBSET Topic, by : Publisher]
<1>1. log \in [1..seq -> R] /\ seq \in Nat
  BY Events DEF TypeOK
<1> HIDE DEF R
<1>2. log \in Seq(R) /\ Len(log) = seq
  BY <1>1
<1>3. e \in R
  BY DEF R
<1>4. /\ Append(log, e) \in Seq(R) /\ Len(Append(log, e)) = seq + 1
      /\ \A s \in 1..seq : Append(log, e)[s] = log[s]
      /\ Append(log, e)[seq + 1] = e
  BY <1>1, <1>2, <1>3, AppendProperties
<1>5. Append(log, e) \in [1..(seq + 1) -> R]
  BY <1>4, LenProperties
<1> QED
  BY <1>4, <1>5 DEF R

LEMMA StampTypes ==
  ASSUME IInv, NEW p \in Publisher, NEW T \in SUBSET Topic, Stamp(p, T)
  PROVE  TypeOK'
<1> USE DEF IInv
<1>1. seq \in Nat /\ seq' = seq + 1 /\ seq' \in 0..MaxSeq /\ 1..seq \subseteq 1..seq'
      /\ seq' \in 1..seq' /\ 0..seq \subseteq 0..seq'
  BY BoundsAssumption DEF TypeOK, Stamp
<1>2. \A r \in Seq(1..seq) : r \in Seq(1..seq')
  BY <1>1, SeqMonotonic
<1>3. log' \in [1..seq' -> [topics : SUBSET Topic, by : Publisher]]
  BY <1>1, LogGrows DEF Stamp
<1>4. rings' \in [Topic -> Seq(1..seq')] /\ \A t \in Topic : Len(rings'[t]) <= RingSize
  <2>1. ASSUME NEW t \in Topic
        PROVE  /\ Newest(Append(rings[t], seq')) \in Seq(1..seq')
               /\ Len(Newest(Append(rings[t], seq'))) <= RingSize
    <3>1. rings[t] \in Seq(1..seq') /\ Len(rings[t]) <= RingSize
      BY <1>2 DEF TypeOK
    <3> QED
      BY <1>1, <3>1, RingKeeps
  <2>2. rings' = [t \in Topic |-> IF t \in T THEN Newest(Append(rings[t], seq')) ELSE rings[t]]
    BY DEF Stamp
  <2> QED
    BY <1>2, <2>1, <2>2 DEF TypeOK
<1>5. pub' \in [Publisher -> [seq : 0..seq', todo : SUBSET Conn]]
  <2>1. pub \in [Publisher -> [seq : 0..seq', todo : SUBSET Conn]]
    <3>1. [seq : 0..seq, todo : SUBSET Conn] \subseteq [seq : 0..seq', todo : SUBSET Conn]
      BY <1>1
    <3> QED
      BY <3>1 DEF TypeOK
  <2>2. {k \in subs : wants[owner[k]] \cap T # {}} \subseteq Conn
    BY DEF TypeOK
  <2>3. 0 \in 0..seq' /\ seq' \in 0..seq'
    BY <1>1
  <2> QED
    BY <2>1, <2>2, <2>3 DEF Stamp, Idle
<1>6. /\ {replay, ch, out}' \subseteq [Conn -> Seq(1..seq')]
      /\ sent' \in [Client -> Seq(1..seq')]
  BY <1>2 DEF TypeOK, Stamp, handlers, clients
<1>7. /\ {lastId, base, since}' \subseteq [Client -> 0..seq']
      /\ {got, shed, overtaken}' \subseteq [Client -> SUBSET (1..seq')]
  BY <1>1 DEF TypeOK, Stamp, handlers, clients
<1>8. UNCHANGED <<subs, pc, owner, replay, ch, out, done, wants, link, sent, got>>
  BY DEF Stamp, handlers, clients
<1> QED
  BY <1>1, <1>3, <1>4, <1>5, <1>6, <1>7, <1>8 DEF TypeOK

LEMMA StampStep ==
  ASSUME IInv, NEW p \in Publisher, NEW T \in SUBSET Topic, Stamp(p, T)
  PROVE  IInv'
<1> DEFINE targets == {k \in subs : wants[owner[k]] \cap T # {}}
<1>1. TypeOK'
  BY StampTypes
<1>2. /\ seq \in Nat /\ seq' = seq + 1 /\ pub[p].todo = {}
      /\ \A s \in 1..seq : log'[s] = log[s]
      /\ log'[seq + 1] = [topics |-> T, by |-> p]
  BY Events, LogGrows DEF Stamp, IInv
<1>3. /\ \A q \in Publisher \ {p} : pub'[q] = pub[q]
      /\ targets = {} => pub'[p].todo = {}
      /\ targets # {} => pub'[p].seq = seq + 1 /\ pub'[p].todo = targets
      /\ pub'[p].todo = targets
  BY <1>2 DEF Stamp, Idle, IInv, TypeOK
<1>4. UNCHANGED <<subs, pc, owner, replay, ch, out, done, wants, link, lastId, base, sent,
                  since, got, shed, overtaken>>
  BY DEF Stamp, handlers, clients
<1>5. Linked'
  <2>1. \A k \in targets : k \in Conn /\ pc[k] # "new"
    BY DEF IInv, TypeOK
  <2>2. \A k \in Conn : pc[k] = "new" => \A q \in Publisher : k \notin pub'[q].todo
    BY <1>3, <2>1 DEF IInv, Linked
  <2> HIDE DEF targets
  <2> QED
    BY <1>4, <2>2 DEF IInv, Linked
<1>6. Publishing'
  <2> SUFFICES ASSUME NEW q \in Publisher, pub'[q].todo # {}
               PROVE  /\ pub'[q].seq \in 1..seq' /\ log'[pub'[q].seq].by = q
                      /\ \A s \in 1..seq' : log'[s].by = q => s <= pub'[q].seq
    BY DEF Publishing
  <2>1. CASE q = p
    BY <1>2, <1>3, <2>1
  <2>2. CASE q # p
    <3>1. /\ pub'[q] = pub[q] /\ pub[q].seq \in 1..seq /\ log[pub[q].seq].by = q
          /\ \A s \in 1..seq : log[s].by = q => s <= pub[q].seq
      BY <1>3, <2>2 DEF IInv, Publishing
    <3> QED
      BY <1>2, <2>2, <3>1
  <2> QED
    BY <2>1, <2>2
<1>7. Paths'
  <2> SUFFICES ASSUME NEW c \in Client PROVE PathOf(c)'
    BY EachPathNext
  <2>1. PathOf(c)
    BY EachPath DEF IInv
  <2>2. /\ Way(c)' = Way(c) /\ Way(c) \in Seq(1..seq) /\ DOMAIN Way(c) = 1..Len(Way(c))
        /\ \A i \in DOMAIN Way(c) : Way(c)[i] \in 1..seq
    BY <1>4, WayTyped DEF Way, IInv
  <2>3. Coming(c)' = Coming(c) \cup (IF link[c] \in targets THEN {seq + 1} ELSE {})
    <3> HIDE DEF targets
    <3> QED
      BY <1>2, <1>3, <1>4 DEF Coming
  <2>4. About(c)' = About(c) \cup (IF T \cap wants[c] # {} THEN {seq + 1} ELSE {})
    BY <1>2, <1>4 DEF About
  <2>5. About(c) \subseteq 1..seq /\ lastId[c] \in 0..seq /\ base[c] \in 0..seq
    BY Events DEF IInv
  <2>6. seq + 1 \notin Range(Way(c)) /\ seq + 1 \notin 1..seq
    BY <1>2, <2>2 DEF Range
  <2>7. (IsInjective(Way(c)) /\ Coming(c) \cap Range(Way(c)) = {})'
    BY <2>1, <2>2, <2>3, <2>6 DEF PathOf
  <2>8. (link[c] \in subs \ done =>
          {s \in About(c) : s > base[c]} \subseteq Range(Way(c)) \cup Coming(c))'
    <3>1. link[c] \in subs => owner[link[c]] = c
      BY NoneAssumption DEF IInv, Linked, TypeOK, Conn
    <3>2. link[c] \in subs /\ T \cap wants[c] # {} => link[c] \in targets
      BY <3>1
    <3> HIDE DEF targets
    <3> QED
      BY <1>4, <2>1, <2>2, <2>3, <2>4, <3>2 DEF PathOf
  <2>9. (\A i, j \in DOMAIN Way(c) :
          i < j /\ log[Way(c)[i]].by = log[Way(c)[j]].by => Way(c)[i] < Way(c)[j])'
    BY <1>2, <2>1, <2>2 DEF PathOf
  <2>10. ASSUME NEW s \in About(c)', since[c] < s
         PROVE  /\ s <= lastId[c] => Accounted(c, s)
                /\ link[c] # None /\ s <= base[c] => Accounted(c, s) \/ s \in Range(Way(c))
                /\ \A i \in DOMAIN Way(c) :
                     s < Way(c)[i] => Accounted(c, s) \/ \E j \in 1..i-1 : Way(c)[j] = s
    <3>1. CASE s \in About(c)
      BY <2>1, <2>10, <3>1 DEF PathOf
    <3>2. CASE s \notin About(c)
      <4>1. s = seq + 1
        BY <2>4, <3>2
      <4> QED
        BY <1>2, <2>2, <2>5, <4>1
    <3> QED
      BY <3>1, <3>2
  <2>11. \A s : Accounted(c, s)' <=> Accounted(c, s)
    BY <1>4 DEF Accounted
  <2> QED
    BY <1>4, <2>2, <2>7, <2>8, <2>9, <2>10, <2>11 DEF PathOf
<1> QED
  BY <1>1, <1>5, <1>6, <1>7 DEF IInv

\* Publisher p is done with target k: what is left of its event, and of what is
\* coming to each client.
LEMMA OneTargetLess ==
  ASSUME IInv, NEW p \in Publisher, NEW k \in Conn, Delivered(p, k)
  PROVE  /\ pub[p].todo # {} /\ pc[k] # "new" /\ owner[k] \in Client
         /\ pub[p].seq \in 1..seq /\ pub' \in [Publisher -> [seq : 0..seq, todo : SUBSET Conn]]
         /\ pub'[p].todo = pub[p].todo \ {k}
         /\ pub'[p].todo # {} => pub'[p].seq = pub[p].seq
         /\ \A q \in Publisher \ {p} : pub'[q] = pub[q]
         /\ UNCHANGED <<seq, rings, subs, log, pc, owner, replay, out, base, sent, wants,
                        link, lastId, since, got, shed>>
<1>1. /\ k \in pub[p].todo /\ pub[p] \in [seq : 0..seq, todo : SUBSET Conn]
      /\ pub' = [pub EXCEPT ![p] = IF @.todo = {k} THEN Idle
                                ELSE [seq |-> @.seq, todo |-> @.todo \ {k}]]
  BY DEF Delivered, IInv, TypeOK
<1>2. pub[p].todo # {} /\ pc[k] # "new" /\ owner[k] \in Client /\ pub[p].seq \in 1..seq
  BY <1>1 DEF IInv, Linked, Publishing
<1>3. 0 \in 0..seq
  BY Events DEF IInv
<1>4. Idle \in [seq : 0..seq, todo : SUBSET Conn]
  BY <1>3 DEF Idle
<1>5. pub'[p] = IF pub[p].todo = {k} THEN Idle
                 ELSE [seq |-> pub[p].seq, todo |-> pub[p].todo \ {k}]
  BY <1>1 DEF IInv, TypeOK
<1>6. /\ pub'[p] \in [seq : 0..seq, todo : SUBSET Conn]
      /\ pub'[p].todo = pub[p].todo \ {k}
      /\ pub'[p].todo # {} => pub'[p].seq = pub[p].seq
  BY <1>1, <1>4, <1>5 DEF Idle
<1>7. pub' \in [Publisher -> [seq : 0..seq, todo : SUBSET Conn]]
      /\ \A q \in Publisher \ {p} : pub'[q] = pub[q]
  BY <1>1, <1>5, <1>6 DEF IInv, TypeOK
<1> QED
  BY <1>2, <1>6, <1>7 DEF Delivered, bus

LEMMA LessComing ==
  ASSUME IInv, NEW p \in Publisher, NEW k \in Conn, Delivered(p, k), NEW c \in Client
  PROVE  /\ link[c] # k => Coming(c)' = Coming(c)
         /\ link[c] = k => pub[p].seq \in Coming(c) /\ Coming(c)' = Coming(c) \ {pub[p].seq}
<1>1. /\ pub[p].todo # {} /\ pub'[p].todo = pub[p].todo \ {k} /\ link' = link
      /\ pub'[p].todo # {} => pub'[p].seq = pub[p].seq
      /\ \A q \in Publisher \ {p} : pub'[q] = pub[q]
  BY OneTargetLess
<1>2. k \in pub[p].todo
  BY DEF Delivered
<1>3. CASE link[c] # k
  <2>1. \A q \in Publisher : /\ link[c] \in pub'[q].todo <=> link[c] \in pub[q].todo
                             /\ link[c] \in pub[q].todo => pub'[q].seq = pub[q].seq
    BY <1>1, <1>3
  <2> QED
    BY <1>1, <1>3, <2>1 DEF Coming
<1>4. CASE link[c] = k
  <2>1. \A q \in Publisher : k \in pub'[q].todo <=> k \in pub[q].todo /\ q # p
    BY <1>1
  <2>2. \A q \in Publisher \ {p} : k \in pub[q].todo => pub[q].seq # pub[p].seq
    BY <1>1, OwnEvent DEF IInv
  <2>3. Coming(c)' = {pub[q].seq : q \in {q \in Publisher \ {p} : k \in pub[q].todo}}
    BY <1>1, <1>4, <2>1 DEF Coming
  <2>4. Coming(c) = {pub[q].seq : q \in {q \in Publisher : k \in pub[q].todo}}
    BY <1>4 DEF Coming
  <2> QED
    BY <1>2, <1>4, <2>2, <2>3, <2>4
<1> QED
  BY <1>3, <1>4

\* It is enough to look at what becomes of the channels and of the ways.
LEMMA DeliverStep ==
  ASSUME IInv, NEW p \in Publisher, NEW k \in Conn, Delivered(p, k),
         ch' \in [Conn -> Seq(1..seq)], done' \subseteq Conn,
         overtaken' \in [Client -> SUBSET (1..seq)],
         \A j \in Conn : Len(ch'[j]) <= LiveBuffer /\ (j # k => ch'[j] = ch[j]),
         \A c \in Client : PathOf(c)'
  PROVE  IInv'
<1>1. /\ pub[p].todo # {} /\ pc[k] # "new" /\ owner[k] \in Client
      /\ pub[p].seq \in 1..seq /\ pub' \in [Publisher -> [seq : 0..seq, todo : SUBSET Conn]]
      /\ pub'[p].todo = pub[p].todo \ {k}
      /\ pub'[p].todo # {} => pub'[p].seq = pub[p].seq
      /\ \A q \in Publisher \ {p} : pub'[q] = pub[q]
      /\ UNCHANGED <<seq, rings, subs, log, pc, owner, replay, out, base, sent, wants,
                     link, lastId, since, got, shed>>
  BY OneTargetLess
<1>2. TypeOK'
  <2>1. /\ {replay, ch, out}' \subseteq [Conn -> Seq(1..seq)]
        /\ {got, shed, overtaken}' \subseteq [Client -> SUBSET (1..seq)]
    <3>1. {replay, ch, out} \subseteq [Conn -> Seq(1..seq)]
          /\ {got, shed, overtaken} \subseteq [Client -> SUBSET (1..seq)]
      BY DEF IInv, TypeOK
    <3>2. UNCHANGED <<replay, out, got, shed>>
      BY <1>1
    <3> QED
      BY <3>1, <3>2
  <2>2. \A j \in Conn : /\ Len(ch'[j]) <= LiveBuffer
                         /\ out[j] # <<>> => pc[j] = "write" /\ Len(out[j]) = 1
                         /\ pc[j] \in {"replay", "select", "write", "left"} <=> j \in subs
    BY DEF IInv, TypeOK
  <2> QED
    BY <1>1, <2>1, <2>2 DEF IInv, TypeOK
<1>3. Linked'
  <2>1. \A j \in Conn : pc[j] = "new" => ch'[j] = ch[j]
    BY <1>1
  <2>2. \A q \in Publisher : pub'[q].todo \subseteq pub[q].todo
    BY <1>1
  <2> QED
    BY <1>1, <2>1, <2>2 DEF IInv, Linked
<1>4. Publishing'
  <2> SUFFICES ASSUME NEW q \in Publisher, pub'[q].todo # {}
               PROVE  /\ pub'[q].seq \in 1..seq /\ log[pub'[q].seq].by = q
                      /\ \A s \in 1..seq : log[s].by = q => s <= pub'[q].seq
    BY <1>1 DEF Publishing
  <2>1. pub'[q].seq = pub[q].seq /\ pub[q].todo # {}
    BY <1>1
  <2> QED
    BY <2>1 DEF IInv, Publishing
<1> QED
  BY <1>2, <1>3, <1>4, EachPathNext DEF IInv

\* A delivery that puts nothing into the channel: the subscription is closed.
LEMMA RefusedStep ==
  ASSUME IInv, NEW p \in Publisher, NEW k \in Conn, Delivered(p, k),
         done' = done \cup {k}, UNCHANGED <<ch, overtaken>>
  PROVE  IInv'
<1>1. UNCHANGED <<seq, rings, subs, log, pc, owner, replay, out, base, sent, wants,
                  link, lastId, since, got, shed>>
  BY OneTargetLess
<1>2. ASSUME NEW c \in Client PROVE PathOf(c)'
  <2>1. PathOf(c)
    BY EachPath DEF IInv
  <2>2. Way(c)' = Way(c)
    BY <1>1 DEF Way
  <2>3. link[c] \in subs' \ done' => link[c] # k
    OBVIOUS
  <2>4. \A s \in About(c) : since[c] < s /\ s <= lastId'[c] => Accounted(c, s)'
    BY <1>1, <2>1, StillAccounted
  <2> QED
    BY <1>1, <2>1, <2>2, <2>3, <2>4, LessComing, Unmoved
<1>3. /\ ch \in [Conn -> Seq(1..seq)] /\ done' \subseteq Conn
      /\ overtaken \in [Client -> SUBSET (1..seq)]
      /\ \A j \in Conn : Len(ch[j]) <= LiveBuffer
  BY DEF IInv, TypeOK
<1> QED
  BY <1>2, <1>3, DeliverStep

LEMMA SkipStep ==
  ASSUME IInv, NEW p \in Publisher, NEW k \in Conn, Skip(p, k)
  PROVE  IInv'
<1>1. Delivered(p, k) /\ done' = done \cup {k} /\ UNCHANGED <<ch, overtaken>>
  BY DEF Skip
<1> QED
  BY <1>1, RefusedStep

LEMMA GiveUpStep ==
  ASSUME IInv, NEW p \in Publisher, NEW k \in Conn, GiveUp(p, k)
  PROVE  IInv'
<1>1. Delivered(p, k) /\ done' = done \cup {k} /\ UNCHANGED <<ch, overtaken>>
  BY DEF GiveUp
<1> QED
  BY <1>1, RefusedStep

\* An event of a publisher comes to the end of a client's way.
LEMMA Joins ==
  ASSUME IInv, NEW p \in Publisher, NEW k \in Conn, Send(p, k), k \in subs,
         NEW c \in Client, link[c] = k
  PROVE  PathOf(c)'
<1> DEFINE e == pub[p].seq
<1>1. /\ Delivered(p, k) /\ ch' = [ch EXCEPT ![k] = Append(@, e)] /\ done' = done
      /\ c = owner[k]
  BY NoneAssumption DEF Send, IInv, Linked, Conn
<1>2. overtaken' = [overtaken EXCEPT ![c] =
        @ \cup ({s \in About(c) : base[c] < s /\ s < e} \ Range(Way(c)))]
  BY <1>1 DEF Send
<1>3. /\ e \in 1..seq /\ pub[p].todo # {} /\ Coming(c)' = Coming(c) \ {e} /\ e \in Coming(c)
      /\ UNCHANGED <<seq, subs, log, owner, replay, out, base, sent, wants, link, lastId,
                     since, got, shed>>
  BY <1>1, OneTargetLess, LessComing
<1> HIDE DEF e
<1>4. Way(c)' = Append(Way(c), e)
  <2>1. /\ ch[k] \in Seq(1..seq) /\ (sent[c] \o out[k]) \o replay[k] \in Seq(1..seq)
        /\ k # None
    BY Parts, NoneAssumption DEF IInv, Conn
  <2>2. ch'[k] = Append(ch[k], e)
    BY <1>1 DEF IInv, TypeOK
  <2> DEFINE ahead == (sent[c] \o out[k]) \o replay[k]
  <2>3. Way(c)' = ahead \o Append(ch[k], e) /\ Way(c) = ahead \o ch[k]
    BY <1>3, <2>1, <2>2 DEF Way
  <2> HIDE DEF ahead
  <2>4. ahead \in Seq(1..seq)
    BY <2>1 DEF ahead
  <2> QED
    BY <1>3, <2>1, <2>3, <2>4, AppendBehind, SMTT(30)
<1> DEFINE W == Way(c)
           X == Append(Way(c), e)
<1>5. /\ Len(W) \in Nat /\ DOMAIN W = 1..Len(W) /\ DOMAIN X = 1..(Len(W) + 1)
      /\ \A i \in DOMAIN W : X[i] = W[i]
      /\ X[Len(W) + 1] = e /\ Range(X) = Range(W) \cup {e}
      /\ \A i \in DOMAIN W : W[i] \in 1..seq
  <2>1. W \in Seq(1..seq) /\ \A i \in DOMAIN W : W[i] \in 1..seq
    BY WayTyped DEF IInv
  <2>2. /\ DOMAIN W = 1..Len(W) /\ Len(W) \in Nat
        /\ DOMAIN Append(W, e) = 1..(Len(W) + 1)
        /\ \A i \in DOMAIN W : Append(W, e)[i] = W[i]
        /\ Append(W, e)[Len(W) + 1] = e
        /\ Range(Append(W, e)) = Range(W) \cup {e}
    <3> DEFINE events == 1..seq
    <3>1. W \in Seq(events) /\ e \in events
      BY <1>3, <2>1
    <3> HIDE DEF W, events
    <3> QED
      BY <3>1, OneMore
  <2> QED
    BY <2>1, <2>2
<1>6. PathOf(c)
  BY EachPath DEF IInv
<1>7. \A i \in DOMAIN W : W[i] # e
  BY <1>3, <1>6 DEF PathOf, Range
<1>8. \A i \in DOMAIN W : log[W[i]].by = log[e].by => W[i] < e
  <2>1. log[e].by = p /\ \A s \in 1..seq : log[s].by = p => s <= e
    BY <1>3 DEF e, IInv, Publishing
  <2> SUFFICES ASSUME NEW i \in DOMAIN W, log[W[i]].by = log[e].by PROVE W[i] < e
    OBVIOUS
  <2>2. W[i] \in 1..seq /\ W[i] # e
    BY <1>5, <1>7
  <2>3. W[i] <= e
    BY <2>1, <2>2
  <2> QED
    BY <1>3, <2>2, <2>3
<1>9. /\ IsInjective(X)
      /\ \A i, j \in DOMAIN X : i < j /\ log[X[i]].by = log[X[j]].by => X[i] < X[j]
  <2> HIDE DEF W, X
  <2>1. /\ \A i, j \in DOMAIN W : W[i] = W[j] => i = j
        /\ \A i, j \in DOMAIN W : i < j /\ log[W[i]].by = log[W[j]].by => W[i] < W[j]
    BY <1>6 DEF PathOf, IsInjective, W
  <2>2. \A i \in DOMAIN X : i \in DOMAIN W \/ i = Len(W) + 1
    BY <1>5
  <2>3. \A i, j \in DOMAIN X : X[i] = X[j] => i = j
    BY <1>5, <1>7, <2>1, <2>2
  <2>4. ASSUME NEW i \in DOMAIN X, NEW j \in DOMAIN X, i < j, log[X[i]].by = log[X[j]].by
        PROVE  X[i] < X[j]
    <3>1. i \in DOMAIN W
      BY <1>5, <2>4
    <3>2. CASE j \in DOMAIN W
      BY <1>5, <2>1, <2>4, <3>1, <3>2
    <3>3. CASE j = Len(W) + 1
      BY <1>5, <1>8, <2>4, <3>1, <3>3
    <3> QED
      BY <2>2, <3>2, <3>3
  <2> QED
    BY <2>3, <2>4 DEF IsInjective
<1>10. About(c)' = About(c) /\ About(c) \subseteq 1..seq /\ base[c] \in 0..seq
  BY <1>3, Events DEF About, IInv
<1>11. Coming(c)' \cap Range(X) = {}
  BY <1>3, <1>5, <1>6 DEF PathOf
<1>12. link[c] \in subs \ done =>
         {s \in About(c) : s > base[c]} \subseteq Range(X) \cup Coming(c)'
  BY <1>3, <1>5, <1>6 DEF PathOf
<1>13. /\ \A s : Accounted(c, s) => Accounted(c, s)'
       /\ \A s \in About(c) : base[c] < s /\ s < e => Accounted(c, s)' \/ s \in Range(W)
  BY <1>2, <1>3 DEF Accounted, IInv, TypeOK
<1>14. ASSUME NEW s \in About(c), since[c] < s
       PROVE  /\ s <= lastId[c] => Accounted(c, s)'
              /\ link[c] # None /\ s <= base[c] => Accounted(c, s)' \/ s \in Range(X)
              /\ \A i \in DOMAIN X : s < X[i] =>
                   Accounted(c, s)' \/ \E j \in 1..i-1 : X[j] = s
  <2>1. /\ s <= lastId[c] => Accounted(c, s)'
        /\ link[c] # None /\ s <= base[c] => Accounted(c, s)' \/ s \in Range(W)
        /\ \A i \in DOMAIN W : s < W[i] =>
             Accounted(c, s)' \/ \E j \in 1..i-1 : W[j] = s
    BY <1>6, <1>13, <1>14 DEF PathOf
  <2>2. s < e => Accounted(c, s)' \/ s \in Range(W)
    BY <1>3, <1>10, <1>13, <2>1, NoneAssumption DEF Conn
  <2>3. ASSUME NEW i \in DOMAIN X, s < X[i]
        PROVE  Accounted(c, s)' \/ \E j \in 1..i-1 : X[j] = s
    <3>1. CASE i \in DOMAIN W
      <4>1. Accounted(c, s)' \/ \E j \in 1..i-1 : W[j] = s
        BY <1>5, <2>1, <2>3, <3>1
      <4>2. \A j \in 1..i-1 : j \in DOMAIN W
        BY <1>5, <3>1
      <4> QED
        BY <1>5, <4>1, <4>2
    <3>2. CASE i = Len(W) + 1
      <4>1. Accounted(c, s)' \/ \E j \in DOMAIN W : W[j] = s
        BY <1>5, <2>2, <2>3, <3>2 DEF Range
      <4>2. \A j \in DOMAIN W : j \in 1..i-1
        BY <1>5, <3>2
      <4> QED
        BY <1>5, <4>1, <4>2
    <3> QED
      BY <1>5, <3>1, <3>2
  <2> QED
    BY <1>5, <2>1, <2>3
<1> QED
  BY <1>1, <1>3, <1>4, <1>9, <1>10, <1>11, <1>12, <1>14 DEF PathOf

LEMMA SendStep ==
  ASSUME IInv, NEW p \in Publisher, NEW k \in Conn, Send(p, k)
  PROVE  IInv'
<1>1. /\ Delivered(p, k) /\ done' = done /\ Len(ch[k]) < LiveBuffer
      /\ ch' = IF k \in subs THEN [ch EXCEPT ![k] = Append(@, pub[p].seq)] ELSE ch
  BY DEF Send, Room
<1>2. /\ pub[p].seq \in 1..seq /\ owner[k] \in Client
      /\ UNCHANGED <<seq, rings, subs, log, pc, owner, replay, out, base, sent, wants,
                     link, lastId, since, got, shed>>
  BY <1>1, OneTargetLess
<1>3. /\ ch' \in [Conn -> Seq(1..seq)] /\ done' \subseteq Conn
      /\ \A j \in Conn : Len(ch'[j]) <= LiveBuffer /\ (j # k => ch'[j] = ch[j])
  <2>1. ch[k] \in Seq(1..seq) /\ Len(ch[k]) \in Nat
    BY LenProperties DEF IInv, TypeOK
  <2>2. Append(ch[k], pub[p].seq) \in Seq(1..seq)
        /\ Len(Append(ch[k], pub[p].seq)) = Len(ch[k]) + 1
    BY <1>2, <2>1, AppendProperties
  <2> QED
    BY <1>1, <2>1, <2>2, SizesAssumption DEF IInv, TypeOK
<1>4. /\ overtaken' \in [Client -> SUBSET (1..seq)]
      /\ \A c \in Client : overtaken[c] \subseteq overtaken'[c]
  <2>1. About(owner[k]) \subseteq 1..seq /\ overtaken \in [Client -> SUBSET (1..seq)]
    BY <1>2, Events DEF IInv, TypeOK
  <2> QED
    BY <1>2, <2>1 DEF Send
<1>5. ASSUME NEW c \in Client PROVE PathOf(c)'
  <2>1. CASE link[c] = k
    <3>1. k \in subs
      BY <2>1, NoneAssumption DEF IInv, Linked, Conn
    <3> QED
      BY <2>1, <3>1, Joins
  <2>2. CASE link[c] # k
    <3>1. PathOf(c)
      BY EachPath DEF IInv
    <3>2. Way(c)' = Way(c)
      BY <1>2, <1>3, <2>2 DEF Way, IInv, TypeOK
    <3>3. \A s \in About(c) : since[c] < s /\ s <= lastId'[c] => Accounted(c, s)'
      BY <1>2, <1>4, <3>1, StillAccounted
    <3> QED
      BY <1>1, <1>2, <1>4, <2>2, <3>1, <3>2, <3>3, LessComing, Unmoved
  <2> QED
    BY <2>1, <2>2
<1> QED
  BY <1>1, <1>3, <1>4, <1>5, DeliverStep

-----------------------------------------------------------------------------
(* The handler.                                                            *)

\* Where the first of r is, in s, then r, then w.
LEMMA HeadOfRest ==
  ASSUME NEW S, NEW s \in Seq(S), NEW r \in Seq(S), NEW w \in Seq(S), r # <<>>
  PROVE  /\ Len(s) + 1 \in 1..Len((s \o r) \o w)
         /\ ((s \o r) \o w)[Len(s) + 1] = Head(r)
         /\ \A j \in 1..Len(s) : ((s \o r) \o w)[j] = s[j]
<1>1. /\ Len(s) \in Nat /\ Len(r) \in Nat \ {0} /\ Len(w) \in Nat
      /\ Head(r) = r[1]
  BY LenProperties, EmptySeq, HeadAndTail
<1>2. /\ s \o r \in Seq(S) /\ Len(s \o r) = Len(s) + Len(r)
      /\ \A i \in 1..Len(s) + Len(r) :
           (s \o r)[i] = IF i <= Len(s) THEN s[i] ELSE r[i - Len(s)]
  BY ConcatProperties
<1>3. /\ Len((s \o r) \o w) = Len(s) + Len(r) + Len(w)
      /\ \A i \in 1..Len(s) + Len(r) : ((s \o r) \o w)[i] = (s \o r)[i]
  <2> DEFINE sr == s \o r
  <2> HIDE DEF sr
  <2>1. sr \in Seq(S) /\ Len(sr) = Len(s) + Len(r)
    BY <1>2 DEF sr
  <2>2. /\ Len(sr \o w) = Len(sr) + Len(w)
        /\ \A i \in 1..Len(sr) + Len(w) :
             (sr \o w)[i] = IF i <= Len(sr) THEN sr[i] ELSE w[i - Len(sr)]
    <3>1. sr \in Seq(S)
      BY <2>1
    <3> QED
      BY <3>1, ConcatProperties
  <2>3. /\ Len(sr \o w) = Len(s) + Len(r) + Len(w)
        /\ \A i \in 1..Len(s) + Len(r) : (sr \o w)[i] = sr[i]
    BY <1>1, <2>1, <2>2
  <2> QED
    BY <2>3 DEF sr
<1>4. (s \o r)[Len(s) + 1] = r[1] /\ \A j \in 1..Len(s) : (s \o r)[j] = s[j]
  <2>1. /\ Len(s) + 1 \in 1..Len(s) + Len(r) /\ ~ Len(s) + 1 <= Len(s)
        /\ (Len(s) + 1) - Len(s) = 1
    BY <1>1
  <2>2. \A j \in 1..Len(s) : j \in 1..Len(s) + Len(r) /\ j <= Len(s)
    BY <1>1
  <2> QED
    BY <1>2, <2>1, <2>2
<1>5. /\ Len(s) + 1 \in 1..Len(s) + Len(r) /\ Len(s) + 1 \in 1..Len(s) + Len(r) + Len(w)
      /\ \A j \in 1..Len(s) : j \in 1..Len(s) + Len(r)
  BY <1>1
<1> QED
  BY <1>1, <1>3, <1>4, <1>5

\* What a frame does to what the clients have seen.
LEMMA WriteTypes ==
  ASSUME IInv, NEW k \in Conn, pc[k] # "new", NEW h \in 1..seq, WriteDelivery(k, h)
  PROVE  /\ lastId' \in [Client -> 0..seq] /\ sent' \in [Client -> Seq(1..seq)]
         /\ got' \in [Client -> SUBSET (1..seq)]
         /\ \A c \in Client : Range(sent'[c]) \subseteq got'[c] /\ got[c] \subseteq got'[c]
         /\ \A c \in Client : link[c] # k => lastId'[c] = lastId[c] /\ sent'[c] = sent[c]
         /\ \A c \in Client : link[c] = k =>
              /\ lastId'[c] = h /\ sent'[c] = Append(sent[c], h) /\ got'[c] = got[c] \cup {h}
<1>1. /\ lastId \in [Client -> 0..seq] /\ sent \in [Client -> Seq(1..seq)]
      /\ got \in [Client -> SUBSET (1..seq)] /\ owner[k] \in Client
      /\ \A c \in Client : Range(sent[c]) \subseteq got[c]
      /\ \A c \in Client : link[c] = k => c = owner[k]
  BY NoneAssumption, SMTT(30) DEF IInv, TypeOK, Linked, Conn
<1>2. CASE link[owner[k]] = k
  <2>1. /\ lastId' = [lastId EXCEPT ![owner[k]] = h]
        /\ sent' = [sent EXCEPT ![owner[k]] = Append(@, h)]
        /\ got' = [got EXCEPT ![owner[k]] = @ \cup {h}]
    BY <1>2 DEF WriteDelivery
  <2>2. h \in 0..seq /\ sent[owner[k]] \in Seq(1..seq)
    BY <1>1
  <2>3. /\ Append(sent[owner[k]], h) \in Seq(1..seq)
        /\ Range(Append(sent[owner[k]], h)) = Range(sent[owner[k]]) \cup {h}
    <3> DEFINE events == 1..seq
               seen == sent[owner[k]]
    <3>1. seen \in Seq(events) /\ h \in events
      BY <2>2
    <3> HIDE DEF events, seen
    <3>2. Append(seen, h) \in Seq(events) /\ Range(Append(seen, h)) = Range(seen) \cup {h}
      BY <3>1, OneMore
    <3> QED
      BY <3>2 DEF events, seen
  <2>4. /\ lastId' \in [Client -> 0..seq] /\ sent' \in [Client -> Seq(1..seq)]
        /\ got' \in [Client -> SUBSET (1..seq)]
    BY <1>1, <2>1, <2>2, <2>3
  <2>5. /\ \A c \in Client : link[c] # k => lastId'[c] = lastId[c] /\ sent'[c] = sent[c]
                                           /\ got'[c] = got[c]
        /\ \A c \in Client : link[c] = k =>
              /\ lastId'[c] = h /\ sent'[c] = Append(sent[c], h) /\ got'[c] = got[c] \cup {h}
    BY <1>1, <1>2, <2>1
  <2>6. ASSUME NEW c \in Client PROVE Range(sent'[c]) \subseteq got'[c] /\ got[c] \subseteq got'[c]
    <3>1. CASE link[c] = k
      <4>1. Range(Append(sent[c], h)) = Range(sent[c]) \cup {h}
        BY <1>1, <2>3, <3>1
      <4>2. Range(sent'[c]) = Range(sent[c]) \cup {h}
        BY <2>5, <3>1, <4>1
      <4>3. got'[c] = got[c] \cup {h} /\ Range(sent[c]) \subseteq got[c]
        BY <1>1, <2>5, <3>1
      <4> QED
        BY <4>2, <4>3
    <3>2. CASE link[c] # k
      BY <1>1, <2>5, <3>2
    <3> QED
      BY <3>1, <3>2
  <2> QED
    BY <2>4, <2>5, <2>6
<1>3. CASE link[owner[k]] # k
  BY <1>1, <1>3 DEF WriteDelivery
<1> QED
  BY <1>2, <1>3

\* A frame written: the ways are what they were.
LEMMA WrittenPaths ==
  ASSUME IInv, NEW k \in Conn, pc[k] # "new", NEW r \in Seq(1..seq), r # <<>>,
         NEW w \in Seq(1..seq), WriteDelivery(k, Head(r)),
         UNCHANGED <<seq, rings, subs, log, pub, done, base, wants, link, since, shed, overtaken>>,
         \A j \in Conn \ {k} : out'[j] = out[j] /\ replay'[j] = replay[j] /\ ch'[j] = ch[j],
         \A c \in Client : link[c] = k =>
           /\ Way(c) = (sent[c] \o r) \o w
           /\ Way(c)' = (Append(sent[c], Head(r)) \o Tail(r)) \o w
  PROVE  Paths'
<1> DEFINE h == Head(r)
           events == 1..seq
<1>1. h \in 1..seq
  <2> HIDE DEF events
  <2>1. r \in Seq(events)
    BY DEF events
  <2>2. h \in events
    BY <2>1, HeadAndTail
  <2> QED
    BY <2>2 DEF events
<1> HIDE DEF h, events
<1>2. /\ \A c \in Client : Range(sent[c]) \subseteq got[c] /\ got[c] \subseteq got'[c]
      /\ \A c \in Client : link[c] # k => lastId'[c] = lastId[c] /\ sent'[c] = sent[c]
      /\ \A c \in Client : link[c] = k =>
           /\ lastId'[c] = h /\ got'[c] = got[c] \cup {h}
  <2>1. WriteDelivery(k, h)
    BY DEF h
  <2>2. \A c \in Client : Range(sent[c]) \subseteq got[c]
    BY DEF IInv, TypeOK
  <2> QED
    BY <1>1, <2>1, <2>2, WriteTypes
<1>3. UNCHANGED <<seq, subs, log, pub, done, base, wants, link, since, shed, overtaken>>
  OBVIOUS
<1> SUFFICES ASSUME NEW c \in Client PROVE PathOf(c)'
  BY EachPathNext
<1>4. PathOf(c)
  BY EachPath DEF IInv
<1>5. Coming(c)' = Coming(c)
  BY <1>3 DEF Coming
<1>6. CASE link[c] # k
  <2>1. Way(c)' = Way(c)
    BY <1>2, <1>3, <1>6, SMTT(30) DEF Way, IInv, TypeOK
  <2>2. \A s \in About(c) : since[c] < s /\ s <= lastId'[c] => Accounted(c, s)'
    BY <1>2, <1>3, <1>4, <1>6, StillAccounted
  <2> QED
    BY <1>2, <1>3, <1>4, <1>5, <2>1, <2>2, Unmoved
<1>7. CASE link[c] = k
  <2>1. sent[c] \in Seq(1..seq) /\ Len(sent[c]) \in Nat
    BY LenProperties DEF IInv, TypeOK
  <2>2. /\ Way(c)' = Way(c)
        /\ Len(sent[c]) + 1 \in DOMAIN Way(c) /\ Way(c)[Len(sent[c]) + 1] = h
        /\ \A j \in 1..Len(sent[c]) : Way(c)[j] = sent[c][j]
    <3> DEFINE seen == sent[c]
    <3>1. seen \in Seq(events) /\ r \in Seq(events) /\ w \in Seq(events)
      BY <2>1 DEF events
    <3>2. /\ Way(c) = (seen \o r) \o w /\ DOMAIN Way(c) = 1..Len(Way(c))
          /\ Way(c)' = (Append(seen, Head(r)) \o Tail(r)) \o w
      BY <1>7, WayTyped DEF IInv
    <3> HIDE DEF seen
    <3>3. (Append(seen, Head(r)) \o Tail(r)) \o w = (seen \o r) \o w
      BY <3>1, MovedAlong
    <3>4. /\ Len(seen) + 1 \in 1..Len((seen \o r) \o w)
          /\ ((seen \o r) \o w)[Len(seen) + 1] = Head(r)
          /\ \A j \in 1..Len(seen) : ((seen \o r) \o w)[j] = seen[j]
      BY <3>1, HeadOfRest
    <3> QED
      BY <3>2, <3>3, <3>4 DEF h, seen
  <2>4. \A j \in 1..Len(sent[c]) : sent[c][j] \in got[c]
    BY <1>2, <2>1, LenProperties DEF Range
  <2>5. ASSUME NEW s \in About(c), since[c] < s, s <= lastId'[c] PROVE Accounted(c, s)'
    <3>1. s <= h /\ s \in Nat
      BY <1>2, <1>7, <2>5, Events DEF IInv
    <3>2. CASE s = h
      BY <1>2, <1>7, <3>2 DEF Accounted
    <3>3. CASE s # h
      <4>1. Accounted(c, s) \/ \E j \in 1..(Len(sent[c]) + 1) - 1 : Way(c)[j] = s
        BY <1>1, <1>4, <2>2, <2>5, <3>1, <3>3 DEF PathOf
      <4>2. (Len(sent[c]) + 1) - 1 = Len(sent[c])
        BY <2>1
      <4>3. Accounted(c, s)
        BY <2>2, <2>4, <4>1, <4>2 DEF Accounted
      <4> QED
        BY <1>2, <1>3, <4>3 DEF Accounted
    <3> QED
      BY <3>2, <3>3
  <2> QED
    BY <1>2, <1>3, <1>4, <1>5, <2>2, <2>5, Unmoved
<1> QED
  BY <1>6, <1>7

\* A list without its first is a list.
LEMMA Rest ==
  ASSUME NEW r, r \in Seq(1..seq), r # <<>>
  PROVE  /\ Head(r) \in 1..seq /\ Tail(r) \in Seq(1..seq) /\ <<Head(r)>> \in Seq(1..seq)
         /\ Len(r) \in Nat /\ (Len(r) = 1 => Tail(r) = <<>>)
<1> DEFINE events == 1..seq
<1> HIDE DEF events
<1>1. r \in Seq(events)
  BY DEF events
<1>2. /\ Head(r) \in events /\ Tail(r) \in Seq(events) /\ <<Head(r)>> \in Seq(events)
      /\ Len(Tail(r)) = Len(r) - 1 /\ Len(r) \in Nat
  BY <1>1, HeadAndTail, HeadTailProperties, LenProperties
<1>3. Len(r) = 1 => Tail(r) = <<>>
  <2> DEFINE t == Tail(r)
  <2>1. t \in Seq(events) /\ (Len(r) = 1 => Len(t) = 0)
    BY <1>2
  <2> HIDE DEF t
  <2>2. Len(r) = 1 => t = <<>>
    BY <2>1, EmptySeq
  <2> QED
    BY <2>2 DEF t
<1> QED
  BY <1>2, <1>3 DEF events

\* The way of a client whose handler has only two of its parts.
LEMMA WayReplaying ==
  ASSUME IInv, NEW c \in Client, link[c] \in Conn, out[link[c]] = <<>>
  PROVE  Way(c) = (sent[c] \o replay[link[c]]) \o ch[link[c]]
<1>1. sent[c] \in Seq(1..seq) /\ link[c] # None
  BY NoneAssumption DEF IInv, TypeOK, Conn
<1>2. sent[c] \o <<>> = sent[c]
  BY <1>1, ConcatEmptySeq
<1> QED
  BY <1>1, <1>2 DEF Way

LEMMA WayLive ==
  ASSUME IInv, NEW c \in Client, link[c] \in Conn, replay[link[c]] = <<>>
  PROVE  Way(c) = (sent[c] \o out[link[c]]) \o ch[link[c]]
<1>1. sent[c] \in Seq(1..seq) /\ out[link[c]] \in Seq(1..seq) /\ link[c] # None
  BY NoneAssumption DEF IInv, TypeOK, Conn
<1>2. sent[c] \o out[link[c]] \in Seq(1..seq)
  BY <1>1, ConcatProperties
<1>3. (sent[c] \o out[link[c]]) \o <<>> = sent[c] \o out[link[c]]
  BY <1>2, ConcatEmptySeq
<1> QED
  BY <1>1, <1>3 DEF Way

\* A channel holds a list of events, one being written is the only one.
LEMMA OneOut ==
  ASSUME IInv, NEW k \in Conn, pc[k] = "write"
  PROVE  out[k] # <<>> /\ Tail(out[k]) = <<>> /\ replay[k] = <<>>
<1>1. out[k] # <<>> /\ replay[k] = <<>>
  BY DEF IInv, Linked
<1>2. out[k] \in Seq(1..seq) /\ Len(out[k]) = 1 /\ seq \in Nat
  BY <1>1, Events DEF IInv, TypeOK
<1>3. Tail(out[k]) = <<>>
  BY <1>1, <1>2, Rest
<1> QED
  BY <1>1, <1>3

LEMMA WriteReplayStep ==
  ASSUME IInv, NEW k \in Conn, WriteReplay(k)
  PROVE  IInv'
<1> DEFINE r == replay[k]
           h == Head(replay[k])
<1>1. /\ pc[k] = "replay" /\ r \in Seq(1..seq) /\ r # <<>> /\ out[k] = <<>>
      /\ ch[k] \in Seq(1..seq) /\ seq \in Nat /\ k \in subs /\ k # None
  BY Events, NoneAssumption, ZenonT(30) DEF WriteReplay, IInv, TypeOK, Linked, Conn
<1>2. h \in 1..seq /\ Tail(r) \in Seq(1..seq)
  BY <1>1, Rest
<1>3. /\ WriteDelivery(k, h) /\ replay' = [replay EXCEPT ![k] = Tail(@)]
      /\ pc' = IF replay'[k] = <<>> THEN [pc EXCEPT ![k] = "select"] ELSE pc
      /\ UNCHANGED <<seq, rings, subs, log, pub, owner, ch, out, done, base, wants, link,
                     since, shed, overtaken>>
  BY DEF WriteReplay, bus
<1>4. /\ lastId' \in [Client -> 0..seq] /\ sent' \in [Client -> Seq(1..seq)]
      /\ got' \in [Client -> SUBSET (1..seq)]
      /\ \A c \in Client : Range(sent'[c]) \subseteq got'[c] /\ got[c] \subseteq got'[c]
      /\ \A c \in Client : link[c] # k => lastId'[c] = lastId[c] /\ sent'[c] = sent[c]
      /\ \A c \in Client : link[c] = k => sent'[c] = Append(sent[c], h)
  <2>1. pc[k] # "new" /\ h \in 1..seq /\ WriteDelivery(k, h)
    BY <1>1, <1>2, <1>3
  <2> HIDE DEF r, h
  <2> QED
    BY <2>1, WriteTypes
<1>5. /\ replay' \in [Conn -> Seq(1..seq)] /\ replay'[k] = Tail(r)
      /\ \A j \in Conn \ {k} : replay'[j] = replay[j]
  BY <1>2, <1>3 DEF IInv, TypeOK
<1>6. /\ pc' \in [Conn -> PC] /\ \A j \in Conn \ {k} : pc'[j] = pc[j]
      /\ pc'[k] = IF Tail(r) = <<>> THEN "select" ELSE "replay"
  BY <1>1, <1>3, <1>5 DEF IInv, TypeOK, PC
<1> HIDE DEF r, h
<1>7. TypeOK'
  <2>1. \A j \in Conn : /\ Len(ch[j]) <= LiveBuffer
                        /\ out[j] # <<>> => pc'[j] = "write" /\ Len(out[j]) = 1
                        /\ pc'[j] \in {"replay", "select", "write", "left"} <=> j \in subs
    BY <1>1, <1>6 DEF IInv, TypeOK
  <2>2. {replay, ch, out}' \subseteq [Conn -> Seq(1..seq)]
    BY <1>3, <1>5 DEF IInv, TypeOK
  <2>3. /\ {got, shed, overtaken}' \subseteq [Client -> SUBSET (1..seq)]
        /\ {lastId, base, since}' \subseteq [Client -> 0..seq]
    BY <1>3, <1>4 DEF IInv, TypeOK
  <2> QED
    BY <1>3, <1>4, <1>6, <2>1, <2>2, <2>3 DEF IInv, TypeOK
<1>8. Linked'
  <2>1. \A c \in Client : link[c] = None => sent'[c] = <<>>
    BY <1>1, <1>4 DEF IInv, Linked
  <2>2. \A j \in Conn :
          /\ pc'[j] = "new" => ch[j] = <<>> /\ \A p \in Publisher : j \notin pub[p].todo
          /\ pc'[j] = "replay" => replay'[j] # <<>>
          /\ pc'[j] \in {"select", "write", "left"} => replay'[j] = <<>>
          /\ pc'[j] = "write" => out[j] # <<>>
          /\ pc'[j] # "new" => owner[j] \in Client
    BY <1>1, <1>5, <1>6 DEF IInv, Linked
  <2> QED
    BY <1>3, <2>1, <2>2 DEF IInv, Linked
<1>9. Publishing'
  BY <1>3 DEF IInv, Publishing
<1>10. Paths'
  <2>1. ASSUME NEW c \in Client, link[c] = k
        PROVE  /\ Way(c) = (sent[c] \o r) \o ch[k]
               /\ Way(c)' = (Append(sent[c], h) \o Tail(r)) \o ch[k]
    <3>1. sent'[c] = Append(sent[c], h) /\ sent'[c] \in Seq(1..seq)
      BY <1>4, <2>1
    <3>2. sent'[c] \o <<>> = sent'[c]
      BY <3>1, ConcatEmptySeq
    <3>3. Way(c)' = ((sent'[c] \o <<>>) \o Tail(r)) \o ch[k]
      BY <1>1, <1>3, <1>5, <2>1 DEF Way
    <3> QED
      BY <1>1, <2>1, <3>1, <3>2, <3>3, WayReplaying DEF r
  <2>2. pc[k] # "new" /\ r \in Seq(1..seq) /\ r # <<>> /\ ch[k] \in Seq(1..seq)
    BY <1>1
  <2>3. WriteDelivery(k, Head(r)) /\ h = Head(r)
    BY <1>3 DEF r, h
  <2>4. \A j \in Conn \ {k} : out'[j] = out[j] /\ replay'[j] = replay[j] /\ ch'[j] = ch[j]
    BY <1>3, <1>5
  <2>5. \A c \in Client : link[c] = k =>
           /\ Way(c) = (sent[c] \o r) \o ch[k]
           /\ Way(c)' = (Append(sent[c], Head(r)) \o Tail(r)) \o ch[k]
    BY <2>1, <2>3
  <2> QED
    BY <1>3, <2>2, <2>3, <2>4, <2>5, WrittenPaths
<1> QED
  BY <1>7, <1>8, <1>9, <1>10 DEF IInv

LEMMA WriteLiveStep ==
  ASSUME IInv, NEW k \in Conn, WriteLive(k)
  PROVE  IInv'
<1> DEFINE r == out[k]
           h == Head(out[k])
<1>1. /\ pc[k] = "write" /\ r \in Seq(1..seq) /\ r # <<>> /\ Tail(r) = <<>>
      /\ replay[k] = <<>> /\ ch[k] \in Seq(1..seq) /\ k \in subs /\ k # None
  BY OneOut, NoneAssumption DEF WriteLive, IInv, TypeOK, Conn
<1>2. h \in 1..seq
  BY <1>1, Rest
<1>3. /\ WriteDelivery(k, h) /\ out' = [out EXCEPT ![k] = <<>>]
      /\ pc' = [pc EXCEPT ![k] = "select"]
      /\ UNCHANGED <<seq, rings, subs, log, pub, owner, replay, ch, done, base, wants, link,
                     since, shed, overtaken>>
  BY DEF WriteLive, bus
<1>4. /\ lastId' \in [Client -> 0..seq] /\ sent' \in [Client -> Seq(1..seq)]
      /\ got' \in [Client -> SUBSET (1..seq)]
      /\ \A c \in Client : Range(sent'[c]) \subseteq got'[c] /\ got[c] \subseteq got'[c]
      /\ \A c \in Client : link[c] # k => lastId'[c] = lastId[c] /\ sent'[c] = sent[c]
      /\ \A c \in Client : link[c] = k => sent'[c] = Append(sent[c], h)
  <2>1. pc[k] # "new" /\ h \in 1..seq /\ WriteDelivery(k, h)
    BY <1>1, <1>2, <1>3
  <2> HIDE DEF r, h
  <2> QED
    BY <2>1, WriteTypes
<1>5. /\ out' \in [Conn -> Seq(1..seq)] /\ out'[k] = <<>>
      /\ \A j \in Conn \ {k} : out'[j] = out[j]
  <2>1. <<>> \in Seq(1..seq)
    BY EmptySequence
  <2> QED
    BY <1>3, <2>1 DEF IInv, TypeOK
<1>6. pc' \in [Conn -> PC] /\ pc'[k] = "select" /\ \A j \in Conn \ {k} : pc'[j] = pc[j]
  BY <1>3 DEF IInv, TypeOK, PC
<1> HIDE DEF r, h
<1>7. TypeOK'
  <2>1. \A j \in Conn : /\ Len(ch[j]) <= LiveBuffer
                        /\ out'[j] # <<>> => pc'[j] = "write" /\ Len(out'[j]) = 1
                        /\ pc'[j] \in {"replay", "select", "write", "left"} <=> j \in subs
    BY <1>1, <1>5, <1>6 DEF IInv, TypeOK
  <2>2. {replay, ch, out}' \subseteq [Conn -> Seq(1..seq)]
    BY <1>3, <1>5 DEF IInv, TypeOK
  <2>3. /\ {got, shed, overtaken}' \subseteq [Client -> SUBSET (1..seq)]
        /\ {lastId, base, since}' \subseteq [Client -> 0..seq]
    BY <1>3, <1>4 DEF IInv, TypeOK
  <2> QED
    BY <1>3, <1>4, <1>6, <2>1, <2>2, <2>3 DEF IInv, TypeOK
<1>8. Linked'
  <2>1. \A c \in Client : link[c] = None => sent'[c] = <<>>
    BY <1>1, <1>4 DEF IInv, Linked
  <2>2. \A j \in Conn :
          /\ pc'[j] = "new" => ch[j] = <<>> /\ \A p \in Publisher : j \notin pub[p].todo
          /\ pc'[j] = "replay" => replay[j] # <<>>
          /\ pc'[j] \in {"select", "write", "left"} => replay[j] = <<>>
          /\ pc'[j] = "write" => out'[j] # <<>>
          /\ pc'[j] # "new" => owner[j] \in Client
    BY <1>1, <1>5, <1>6 DEF IInv, Linked
  <2> QED
    BY <1>3, <2>1, <2>2 DEF IInv, Linked
<1>9. Publishing'
  BY <1>3 DEF IInv, Publishing
<1>10. Paths'
  <2>1. ASSUME NEW c \in Client, link[c] = k
        PROVE  /\ Way(c) = (sent[c] \o r) \o ch[k]
               /\ Way(c)' = (Append(sent[c], h) \o Tail(r)) \o ch[k]
    <3>1. sent'[c] = Append(sent[c], h) /\ sent'[c] \in Seq(1..seq)
      BY <1>4, <2>1
    <3>2. sent'[c] \o <<>> = sent'[c]
      BY <3>1, ConcatEmptySeq
    <3>3. Way(c)' = ((sent'[c] \o <<>>) \o <<>>) \o ch[k]
      BY <1>1, <1>3, <1>5, <2>1 DEF Way
    <3> QED
      BY <1>1, <2>1, <3>1, <3>2, <3>3, WayLive DEF r
  <2>2. pc[k] # "new" /\ r \in Seq(1..seq) /\ r # <<>> /\ ch[k] \in Seq(1..seq)
    BY <1>1
  <2>3. WriteDelivery(k, Head(r)) /\ h = Head(r)
    BY <1>3 DEF r, h
  <2>4. \A j \in Conn \ {k} : out'[j] = out[j] /\ replay'[j] = replay[j] /\ ch'[j] = ch[j]
    BY <1>3, <1>5
  <2>5. \A c \in Client : link[c] = k =>
           /\ Way(c) = (sent[c] \o r) \o ch[k]
           /\ Way(c)' = (Append(sent[c], Head(r)) \o Tail(r)) \o ch[k]
    BY <2>1, <2>3
  <2> QED
    BY <1>3, <2>2, <2>3, <2>4, <2>5, WrittenPaths
<1> QED
  BY <1>7, <1>8, <1>9, <1>10 DEF IInv

\* A step of a handler that leaves what the clients know, and their ways, as
\* they are.
LEMMA AloneInPaths ==
  ASSUME IInv, done \subseteq done',
         UNCHANGED <<seq, subs, log, pub, wants, link, lastId, base, since, got, shed,
                     overtaken>>,
         \A c \in Client : Way(c)' = Way(c)
  PROVE  Paths'
<1> SUFFICES ASSUME NEW c \in Client PROVE PathOf(c)'
  BY EachPathNext
<1>1. PathOf(c)
  BY EachPath DEF IInv
<1>2. Coming(c)' = Coming(c)
  BY DEF Coming
<1>3. \A s \in About(c) : since[c] < s /\ s <= lastId'[c] => Accounted(c, s)'
  BY <1>1, StillAccounted
<1> QED
  BY <1>1, <1>2, <1>3, Unmoved

LEMMA ReceiveStep ==
  ASSUME IInv, NEW k \in Conn, Receive(k)
  PROVE  IInv'
<1> DEFINE r == ch[k]
<1>1. /\ pc[k] = "select" /\ r \in Seq(1..seq) /\ r # <<>> /\ out[k] = <<>>
      /\ replay[k] = <<>> /\ k \in subs /\ k # None /\ Len(r) <= LiveBuffer
      /\ seq \in Nat
  BY NoneAssumption, Events DEF Receive, IInv, TypeOK, Linked, Conn
<1>2. /\ <<Head(r)>> \in Seq(1..seq) /\ Tail(r) \in Seq(1..seq)
      /\ Len(Tail(r)) <= LiveBuffer
  <2>1. <<Head(r)>> \in Seq(1..seq) /\ Tail(r) \in Seq(1..seq)
    BY <1>1, Rest
  <2>2. Len(Tail(r)) = Len(r) - 1 /\ Len(r) \in Nat
    BY <1>1, HeadTailProperties, LenProperties
  <2> QED
    BY <1>1, <2>1, <2>2, SizesAssumption
<1>3. /\ out' = [out EXCEPT ![k] = <<Head(r)>>] /\ ch' = [ch EXCEPT ![k] = Tail(@)]
      /\ pc' = [pc EXCEPT ![k] = "write"]
      /\ UNCHANGED <<seq, rings, subs, log, pub, owner, replay, done, wants, link, lastId,
                     base, sent, since, got, shed, overtaken>>
  BY DEF Receive, bus, clients
<1>4. /\ out' \in [Conn -> Seq(1..seq)] /\ out'[k] = <<Head(r)>>
      /\ \A j \in Conn \ {k} : out'[j] = out[j]
      /\ Len(out'[k]) = 1 /\ out'[k] # <<>>
  <2>1. /\ out' \in [Conn -> Seq(1..seq)] /\ out'[k] = <<Head(r)>>
        /\ \A j \in Conn \ {k} : out'[j] = out[j]
    BY <1>2, <1>3 DEF IInv, TypeOK
  <2>2. Len(<<Head(r)>>) = 1 /\ <<Head(r)>> # <<>>
    OBVIOUS
  <2> QED
    BY <2>1, <2>2
<1>5. /\ ch' \in [Conn -> Seq(1..seq)] /\ ch'[k] = Tail(r)
      /\ \A j \in Conn \ {k} : ch'[j] = ch[j]
  BY <1>2, <1>3 DEF IInv, TypeOK
<1>6. pc' \in [Conn -> PC] /\ pc'[k] = "write" /\ \A j \in Conn \ {k} : pc'[j] = pc[j]
  BY <1>3 DEF IInv, TypeOK, PC
<1> HIDE DEF r
<1>7. TypeOK'
  <2>1. \A j \in Conn : /\ Len(ch'[j]) <= LiveBuffer
                        /\ out'[j] # <<>> => pc'[j] = "write" /\ Len(out'[j]) = 1
                        /\ pc'[j] \in {"replay", "select", "write", "left"} <=> j \in subs
    BY <1>1, <1>2, <1>4, <1>5, <1>6, ZenonT(40) DEF IInv, TypeOK
  <2>2. {replay, ch, out}' \subseteq [Conn -> Seq(1..seq)]
    BY <1>3, <1>4, <1>5 DEF IInv, TypeOK
  <2> QED
    BY <1>3, <1>6, <2>1, <2>2 DEF IInv, TypeOK
<1>8. Linked'
  <2>1. \A j \in Conn :
          /\ pc'[j] = "new" => ch'[j] = <<>> /\ \A p \in Publisher : j \notin pub[p].todo
          /\ pc'[j] = "replay" => replay[j] # <<>>
          /\ pc'[j] \in {"select", "write", "left"} => replay[j] = <<>>
          /\ pc'[j] = "write" => out'[j] # <<>>
          /\ pc'[j] # "new" => owner[j] \in Client
    BY <1>1, <1>4, <1>5, <1>6 DEF IInv, Linked
  <2> QED
    BY <1>3, <2>1 DEF IInv, Linked
<1>9. Publishing'
  BY <1>3 DEF IInv, Publishing
<1>10. ASSUME NEW c \in Client PROVE Way(c)' = Way(c)
  <2>1. CASE link[c] # k
    BY <1>3, <1>4, <1>5, <2>1 DEF Way, IInv, TypeOK
  <2>2. CASE link[c] = k
    <3> DEFINE events == 1..seq
               seen == sent[c]
    <3>1. /\ Way(c) = ((seen \o <<>>) \o <<>>) \o r
          /\ Way(c)' = ((seen \o <<Head(r)>>) \o <<>>) \o Tail(r)
      BY <1>1, <1>3, <1>4, <1>5, <2>2 DEF Way, r
    <3>2. /\ seen \in Seq(events) /\ r \in Seq(events) /\ <<Head(r)>> \in Seq(events)
          /\ Tail(r) \in Seq(events)
      BY <1>1, <1>2 DEF IInv, TypeOK
    <3> HIDE DEF events, seen
    <3>3. (seen \o <<>>) \o <<>> = seen
      BY <3>2, ConcatEmptySeq
    <3>4. seen \o <<Head(r)>> \in Seq(events)
      BY <3>2, ConcatProperties
    <3>5. (seen \o <<Head(r)>>) \o <<>> = seen \o <<Head(r)>>
      BY <3>4, ConcatEmptySeq
    <3>6. (seen \o <<Head(r)>>) \o Tail(r) = seen \o (<<Head(r)>> \o Tail(r))
      BY <3>2, ConcatAssociative
    <3>7. r = <<Head(r)>> \o Tail(r)
      BY <1>1, <3>2, HeadAndTail
    <3> QED
      BY <3>1, <3>3, <3>5, <3>6, <3>7
  <2> QED
    BY <2>1, <2>2
<1>11. Paths'
  BY <1>3, <1>10, AloneInPaths
<1> QED
  BY <1>7, <1>8, <1>9, <1>11 DEF IInv

LEMMA LeaveStep ==
  ASSUME IInv, NEW k \in Conn, Leave(k)
  PROVE  IInv'
<1>1. /\ pc[k] = "select" /\ done' = done \cup {k}
      /\ pc' = [pc EXCEPT ![k] = "left"]
      /\ UNCHANGED <<seq, rings, subs, log, pub, owner, replay, ch, out, wants, link, lastId,
                     base, sent, since, got, shed, overtaken>>
  BY DEF Leave, bus, clients
<1>2. /\ pc' \in [Conn -> PC] /\ pc'[k] = "left" /\ \A j \in Conn \ {k} : pc'[j] = pc[j]
      /\ out[k] = <<>> /\ replay[k] = <<>> /\ k \in subs
  BY <1>1 DEF IInv, TypeOK, Linked, PC
<1>3. TypeOK'
  <2>1. \A j \in Conn : /\ Len(ch[j]) <= LiveBuffer
                        /\ out[j] # <<>> => pc'[j] = "write" /\ Len(out[j]) = 1
                        /\ pc'[j] \in {"replay", "select", "write", "left"} <=> j \in subs
    BY <1>2 DEF IInv, TypeOK
  <2> QED
    BY <1>1, <1>2, <2>1 DEF IInv, TypeOK
<1>4. Linked'
  <2>1. \A j \in Conn :
          /\ pc'[j] = "new" => ch[j] = <<>> /\ \A p \in Publisher : j \notin pub[p].todo
          /\ pc'[j] = "replay" => replay[j] # <<>>
          /\ pc'[j] \in {"select", "write", "left"} => replay[j] = <<>>
          /\ pc'[j] = "write" => out[j] # <<>>
          /\ pc'[j] # "new" => owner[j] \in Client
    BY <1>1, <1>2 DEF IInv, Linked
  <2> QED
    BY <1>1, <2>1 DEF IInv, Linked
<1>5. Publishing'
  BY <1>1 DEF IInv, Publishing
<1>6. \A c \in Client : Way(c)' = Way(c)
  BY <1>1 DEF Way
<1>7. Paths'
  BY <1>1, <1>6, AloneInPaths
<1> QED
  BY <1>3, <1>4, <1>5, <1>7 DEF IInv

\* What Subscribe collects is in order, without duplicates, and all the rings
\* have past the last frame seen.
LEMMA ReplaySorted ==
  ASSUME TypeOK, NEW T \in SUBSET Topic, NEW last \in Nat, NEW r \in Replay(T, last)
  PROVE  /\ Buffered(T) \subseteq 1..seq /\ r \in Seq(1..seq)
         /\ DOMAIN r = 1..Len(r) /\ Len(r) \in Nat
         /\ \A i \in DOMAIN r : r[i] \in 1..seq
         /\ \A i, j \in DOMAIN r : i < j => r[i] < r[j]
         /\ last = 0 => r = <<>>
         /\ last # 0 => Range(r) = {s \in Buffered(T) : s > last}
<1>1. Buffered(T) \subseteq 1..seq
  <2>1. ASSUME NEW t \in T PROVE Range(rings[t]) \subseteq 1..seq
    BY RangeOfSeq DEF TypeOK
  <2> QED
    BY <2>1 DEF Buffered
<1>2. CASE last = 0
  <2>1. r = <<>>
    BY <1>2 DEF Replay
  <2>2. r \in Seq(1..seq) /\ Len(r) = 0 /\ DOMAIN r = 1..Len(r)
    BY <2>1, EmptySeq, LenProperties
  <2> QED
    BY <1>1, <1>2, <2>1, <2>2
<1>3. CASE last # 0
  <2> DEFINE S == {s \in Buffered(T) : s > last}
             n == Cardinality(S)
  <2>1. r \in [1..n -> S] /\ Range(r) = S /\ \A i, j \in DOMAIN r : i < j => r[i] < r[j]
    BY <1>3 DEF Replay, Sorted, Listed
  <2>2. S \subseteq 1..seq
    BY <1>1
  <2>3. n \in Nat
    <3>1. seq \in Nat
      BY Events
    <3>2. IsFiniteSet(1..seq)
      BY <3>1, FS_Interval
    <3> HIDE DEF S
    <3>3. IsFiniteSet(S)
      BY <2>2, <3>2, FS_Subset
    <3> QED
      BY <3>3, FS_CardinalityType
  <2> HIDE DEF n
  <2>4. r \in [1..n -> 1..seq]
    BY <2>1, <2>2
  <2>5. r \in Seq(1..seq) /\ Len(r) = n
    <3> DEFINE events == 1..seq
    <3>1. r \in [1..n -> events]
      BY <2>4
    <3> HIDE DEF events
    <3>2. r \in Seq(events) /\ Len(r) = n
      BY <2>3, <3>1
    <3> QED
      BY <3>2 DEF events
  <2>6. DOMAIN r = 1..Len(r) /\ \A i \in DOMAIN r : r[i] \in 1..seq
    BY <2>4, <2>5
  <2> QED
    BY <1>1, <1>3, <2>1, <2>3, <2>5, <2>6
<1> QED
  BY <1>2, <1>3

\* A client that has connected: its way is what is replayed to it.
LEMMA NewPath ==
  ASSUME IInv, NEW c \in Client, NEW k \in Conn, NEW r \in Replay(wants[c], lastId[c]),
         link'[c] = k, Way(c)' = r, Coming(c)' = {},
         UNCHANGED <<seq, log, wants, lastId, got, overtaken>>,
         base'[c] = seq, since'[c] = IF lastId[c] = 0 THEN seq ELSE since[c],
         shed'[c] = shed[c] \cup ((lastId[c] + 1)..seq \ Buffered(wants[c]))
  PROVE  PathOf(c)'
<1>1. /\ seq \in Nat /\ lastId[c] \in Nat /\ lastId[c] <= seq /\ wants[c] \in SUBSET Topic
      /\ About(c) \subseteq 1..seq /\ since[c] \in 0..seq
  <2>1. TypeOK
    BY DEF IInv
  <2>2. wants[c] \in SUBSET Topic
    BY <2>1 DEF TypeOK
  <2> QED
    BY <2>1, <2>2, Events
<1>2. /\ r \in Seq(1..seq)
      /\ DOMAIN r = 1..Len(r) /\ Len(r) \in Nat
      /\ \A i \in DOMAIN r : r[i] \in 1..seq
      /\ \A i, j \in DOMAIN r : i < j => r[i] < r[j]
      /\ lastId[c] = 0 => r = <<>>
      /\ lastId[c] # 0 => Range(r) = {s \in Buffered(wants[c]) : s > lastId[c]}
  BY <1>1, ReplaySorted, ZenonT(30) DEF IInv
<1>3. PathOf(c) /\ About(c)' = About(c)
  BY EachPath DEF IInv, About
<1>4. IsInjective(r)
  <2> SUFFICES ASSUME NEW i \in DOMAIN r, NEW j \in DOMAIN r, r[i] = r[j] PROVE i = j
    BY DEF IsInjective
  <2>1. i \in Nat /\ j \in Nat /\ r[i] \in Nat /\ r[j] \in Nat
    BY <1>2
  <2>2. ~ i < j /\ ~ j < i
    BY <1>2, <2>1
  <2> QED
    BY <2>1, <2>2
<1>5. ASSUME NEW s \in About(c), since'[c] < s
      PROVE  /\ s <= lastId[c] => Accounted(c, s)'
             /\ s <= seq => Accounted(c, s)' \/ s \in Range(r)
             /\ \A i \in DOMAIN r : s < r[i] =>
                  Accounted(c, s)' \/ \E j \in 1..i-1 : r[j] = s
  <2>1. lastId[c] # 0 /\ since[c] < s /\ s \in 1..seq
    BY <1>1, <1>5
  <2>2. s <= lastId[c] => Accounted(c, s)'
    BY <1>3, <2>1 DEF PathOf, Accounted
  <2>3. s > lastId[c] /\ s \notin Buffered(wants[c]) => Accounted(c, s)'
    BY <1>1, <2>1 DEF Accounted
  <2>4. Accounted(c, s)' \/ s \in Range(r)
    BY <1>1, <1>2, <2>1, <2>2, <2>3
  <2>5. ASSUME NEW i \in DOMAIN r, s < r[i], s \in Range(r) PROVE \E j \in 1..i-1 : r[j] = s
    <3>1. PICK j \in DOMAIN r : r[j] = s
      BY <2>5 DEF Range
    <3>2. i \in Nat /\ j \in Nat /\ r[i] \in Nat /\ s \in Nat
      BY <1>2, <2>1
    <3>3. ~ i < j /\ i # j
      BY <1>2, <2>5, <3>1, <3>2
    <3>4. j \in 1..i-1
      BY <1>2, <3>2, <3>3
    <3> QED
      BY <3>1, <3>4
  <2> QED
    BY <2>2, <2>4, <2>5
<1>6. (IsInjective(Way(c)) /\ Coming(c) \cap Range(Way(c)) = {})'
  BY <1>4
<1>7. (link[c] \in subs \ done =>
        {s \in About(c) : s > base[c]} \subseteq Range(Way(c)) \cup Coming(c))'
  BY <1>1, <1>3
<1>8. (\A i, j \in DOMAIN Way(c) :
        i < j /\ log[Way(c)[i]].by = log[Way(c)[j]].by => Way(c)[i] < Way(c)[j])'
  BY <1>2
<1> QED
  BY <1>3, <1>5, <1>6, <1>7, <1>8 DEF PathOf

LEMMA ConnectStep ==
  ASSUME IInv, NEW c \in Client, Connect(c)
  PROVE  IInv'
<1>1. PICK k \in Conn :
        /\ pc[k] = "new" /\ owner' = [owner EXCEPT ![k] = c]
        /\ \E r \in Replay(wants[c], lastId[c]) : replay' = [replay EXCEPT ![k] = r]
        /\ pc' = [pc EXCEPT ![k] = IF replay'[k] = <<>> THEN "select" ELSE "replay"]
        /\ subs' = subs \cup {k}
        /\ link' = [link EXCEPT ![c] = k]
  BY DEF Connect
<1>2. PICK r \in Replay(wants[c], lastId[c]) : replay' = [replay EXCEPT ![k] = r]
  BY <1>1
<1>3. /\ link[c] = None /\ base' = [base EXCEPT ![c] = seq]
      /\ since' = IF lastId[c] = 0 THEN [since EXCEPT ![c] = seq] ELSE since
      /\ shed' = [shed EXCEPT ![c] = @ \cup ((lastId[c] + 1)..seq \ Buffered(wants[c]))]
      /\ UNCHANGED <<seq, rings, log, pub, ch, out, done, sent, wants, lastId, got, overtaken>>
  BY DEF Connect
<1>4. /\ seq \in Nat /\ lastId[c] \in Nat /\ wants[c] \in SUBSET Topic /\ k # None
      /\ None \notin Conn
  <2>1. TypeOK
    BY DEF IInv
  <2>2. wants[c] \in SUBSET Topic
    BY <2>1 DEF TypeOK
  <2> QED
    BY <2>1, <2>2, Events
<1>5. r \in Seq(1..seq)
  BY <1>4, ReplaySorted DEF IInv
<1>6. /\ k \notin subs /\ out[k] = <<>> /\ ch[k] = <<>> /\ sent[c] = <<>>
      /\ \A p \in Publisher : k \notin pub[p].todo
      /\ \A d \in Client : link[d] # k
  BY <1>1, <1>3, <1>4 DEF IInv, TypeOK, Linked
<1>7. /\ pc' \in [Conn -> PC] /\ pc'[k] = IF r = <<>> THEN "select" ELSE "replay"
      /\ \A j \in Conn \ {k} : pc'[j] = pc[j]
      /\ replay' \in [Conn -> Seq(1..seq)] /\ replay'[k] = r
      /\ \A j \in Conn \ {k} : replay'[j] = replay[j]
  BY <1>1, <1>2, <1>5 DEF IInv, TypeOK, PC
<1>8. /\ owner' \in [Conn -> Client \cup {None}] /\ owner'[k] = c
      /\ \A j \in Conn \ {k} : owner'[j] = owner[j]
      /\ link' \in [Client -> Conn \cup {None}] /\ link'[c] = k
      /\ \A d \in Client \ {c} : link'[d] = link[d]
  BY <1>1 DEF IInv, TypeOK
<1>9. /\ base' \in [Client -> 0..seq] /\ since' \in [Client -> 0..seq]
      /\ shed' \in [Client -> SUBSET (1..seq)]
      /\ base'[c] = seq /\ since'[c] = IF lastId[c] = 0 THEN seq ELSE since[c]
      /\ shed'[c] = shed[c] \cup ((lastId[c] + 1)..seq \ Buffered(wants[c]))
      /\ \A d \in Client \ {c} : base'[d] = base[d] /\ since'[d] = since[d] /\ shed'[d] = shed[d]
  <2>1. seq \in 0..seq /\ (lastId[c] + 1)..seq \subseteq 1..seq
    BY <1>4
  <2>2. /\ base \in [Client -> 0..seq] /\ since \in [Client -> 0..seq]
        /\ shed \in [Client -> SUBSET (1..seq)]
    BY DEF IInv, TypeOK
  <2>3. /\ base' \in [Client -> 0..seq] /\ base'[c] = seq
        /\ \A d \in Client \ {c} : base'[d] = base[d]
    BY <1>3, <2>1, <2>2
  <2>4. /\ since' \in [Client -> 0..seq]
        /\ since'[c] = IF lastId[c] = 0 THEN seq ELSE since[c]
        /\ \A d \in Client \ {c} : since'[d] = since[d]
    BY <1>3, <2>1, <2>2
  <2>5. /\ shed' \in [Client -> SUBSET (1..seq)]
        /\ shed'[c] = shed[c] \cup ((lastId[c] + 1)..seq \ Buffered(wants[c]))
        /\ \A d \in Client \ {c} : shed'[d] = shed[d]
    BY <1>3, <2>1, <2>2
  <2> QED
    BY <2>3, <2>4, <2>5
<1>10. TypeOK'
  <2>1. \A j \in Conn : /\ Len(ch[j]) <= LiveBuffer
                        /\ out[j] # <<>> => pc'[j] = "write" /\ Len(out[j]) = 1
                        /\ pc'[j] \in {"replay", "select", "write", "left"} <=> j \in subs'
    BY <1>1, <1>6, <1>7 DEF IInv, TypeOK
  <2>2. {replay, ch, out}' \subseteq [Conn -> Seq(1..seq)]
    BY <1>3, <1>7 DEF IInv, TypeOK
  <2>3. /\ {got, shed, overtaken}' \subseteq [Client -> SUBSET (1..seq)]
        /\ {lastId, base, since}' \subseteq [Client -> 0..seq]
    BY <1>3, <1>9 DEF IInv, TypeOK
  <2>4. subs' \subseteq Conn /\ done' \subseteq Conn
    BY <1>1, <1>3 DEF IInv, TypeOK
  <2>5. UNCHANGED <<seq, log, rings, pub, wants, sent, got, ch, out>>
    BY <1>3
  <2>6. /\ pc' \in [Conn -> PC] /\ owner' \in [Conn -> Client \cup {None}]
        /\ link' \in [Client -> Conn \cup {None}]
    BY <1>7, <1>8
  <2> QED
    BY <2>4, <2>5, <2>6, <2>1, <2>2, <2>3 DEF IInv, TypeOK
<1>11. Linked'
  <2>1. ASSUME NEW d \in Client
        PROVE  /\ link'[d] # None => owner'[link'[d]] = d /\ link'[d] \in subs'
               /\ link'[d] = None => sent[d] = <<>>
    <3>1. CASE d = c
      BY <1>1, <1>4, <1>8, <3>1
    <3>2. CASE d # c
      <4>1. link'[d] = link[d] /\ link[d] # k /\ link[d] \in Conn \cup {None}
        BY <1>6, <1>8, <3>2 DEF IInv, TypeOK
      <4> QED
        BY <1>1, <1>8, <4>1 DEF IInv, Linked
    <3> QED
      BY <3>1, <3>2
  <2>2. \A j \in Conn :
          /\ pc'[j] = "new" => ch[j] = <<>> /\ \A p \in Publisher : j \notin pub[p].todo
          /\ pc'[j] = "replay" => replay'[j] # <<>>
          /\ pc'[j] \in {"select", "write", "left"} => replay'[j] = <<>>
          /\ pc'[j] = "write" => out[j] # <<>>
          /\ pc'[j] # "new" => owner'[j] \in Client
    BY <1>7, <1>8 DEF IInv, Linked
  <2> QED
    BY <1>3, <2>1, <2>2 DEF Linked
<1>12. Publishing'
  BY <1>3 DEF IInv, Publishing
<1>13. ASSUME NEW d \in Client PROVE PathOf(d)'
  <2>1. CASE d = c
    <3>1. Way(c)' = r
      <4>1. Way(c)' = ((<<>> \o <<>>) \o r) \o <<>>
        BY <1>3, <1>4, <1>6, <1>7, <1>8 DEF Way
      <4>2. <<>> \in Seq(1..seq)
        BY EmptySequence
      <4>3. <<>> \o <<>> = <<>>
        BY <4>2, ConcatEmptySeq
      <4>4. <<>> \o r = r /\ r \o <<>> = r
        BY <1>5, ConcatEmptySeq
      <4> QED
        BY <4>1, <4>3, <4>4
    <3>2. Coming(c)' = {}
      BY <1>3, <1>6, <1>8 DEF Coming
    <3> QED
      BY <1>3, <1>8, <1>9, <2>1, <3>1, <3>2, NewPath
  <2>2. CASE d # c
    <3>1. link'[d] = link[d] /\ link[d] # k /\ link[d] \in Conn \cup {None}
      BY <1>6, <1>8, <2>2 DEF IInv, TypeOK
    <3>2. Way(d)' = Way(d) /\ Coming(d)' = Coming(d)
      BY <1>3, <1>7, <3>1 DEF Way, Coming
    <3>3. PathOf(d) /\ shed'[d] = shed[d] /\ base'[d] = base[d] /\ since'[d] = since[d]
      BY <1>9, <2>2, EachPath DEF IInv
    <3>4. \A s \in About(d) : since[d] < s /\ s <= lastId'[d] => Accounted(d, s)'
      BY <1>3, <3>3, StillAccounted
    <3>5. link'[d] \in subs' \ done' => link[d] \in subs \ done
      BY <1>1, <1>3, <3>1
    <3> QED
      BY <1>3, <3>1, <3>2, <3>3, <3>4, <3>5, Unmoved
  <2> QED
    BY <2>1, <2>2
<1> QED
  BY <1>10, <1>11, <1>12, <1>13, EachPathNext DEF IInv

\* A client whose link is cut: it keeps what it has seen, and nothing comes.
LEMMA CutOff ==
  ASSUME IInv, NEW c \in Client, link'[c] = None, subs' \subseteq Conn,
         pub' \in [Publisher -> [seq : 0..seq, todo : SUBSET Conn]],
         UNCHANGED <<seq, log, wants, lastId, since, got, shed, overtaken>>
  PROVE  PathOf(c)'
<1>1. Way(c)' = <<>> /\ DOMAIN Way(c)' = {} /\ None \notin Conn
  <2>1. DOMAIN <<>> = {}
    OBVIOUS
  <2> QED
    BY <2>1, NoneAssumption DEF Way, Conn
<1>2. Coming(c)' = {}
  BY <1>1 DEF Coming
<1>3. About(c)' = About(c)
  BY DEF About
<1>4. PathOf(c)
  BY EachPath DEF IInv
<1>5. \A s : Accounted(c, s)' <=> Accounted(c, s)
  BY DEF Accounted
<1>6. \A s \in About(c) : since[c] < s /\ s <= lastId[c] => Accounted(c, s)
  BY <1>4 DEF PathOf
<1>7. IsInjective(Way(c)') /\ link'[c] \notin subs'
  BY <1>1 DEF IsInjective
<1> QED
  BY <1>1, <1>2, <1>3, <1>5, <1>6, <1>7 DEF PathOf

LEMMA CutStep ==
  ASSUME IInv, NEW c \in Client, Cut(c)
  PROVE  IInv'
<1>1. /\ link' = [link EXCEPT ![c] = None] /\ sent' = [sent EXCEPT ![c] = <<>>]
      /\ base' = [base EXCEPT ![c] = 0]
      /\ UNCHANGED <<seq, rings, subs, log, pub, pc, owner, replay, ch, out, done, wants,
                     lastId, since, got, shed, overtaken>>
  BY DEF Cut, Disconnected, bus, handlers
<1>2. /\ link' \in [Client -> Conn \cup {None}] /\ link'[c] = None
      /\ \A d \in Client \ {c} : link'[d] = link[d]
      /\ sent' \in [Client -> Seq(1..seq)] /\ sent'[c] = <<>> /\ Range(sent'[c]) = {}
      /\ \A d \in Client \ {c} : sent'[d] = sent[d]
      /\ base' \in [Client -> 0..seq] /\ \A d \in Client \ {c} : base'[d] = base[d]
  <2>1. <<>> \in Seq(1..seq) /\ Range(<<>>) = {}
    BY EmptySequence
  <2>2. 0 \in 0..seq
    BY Events DEF IInv
  <2>3. /\ link \in [Client -> Conn \cup {None}] /\ sent \in [Client -> Seq(1..seq)]
        /\ base \in [Client -> 0..seq]
    BY DEF IInv, TypeOK
  <2> QED
    BY <1>1, <2>1, <2>2, <2>3
<1>3. TypeOK'
  <2>1. {lastId, base, since}' \subseteq [Client -> 0..seq]
    BY <1>1, <1>2 DEF IInv, TypeOK
  <2>2. \A d \in Client : Range(sent'[d]) \subseteq got[d]
    BY <1>2 DEF IInv, TypeOK
  <2> QED
    BY <1>1, <1>2, <2>1, <2>2 DEF IInv, TypeOK
<1>4. Linked'
  <2>1. \A d \in Client : /\ link'[d] # None => owner[link'[d]] = d /\ link'[d] \in subs
                          /\ link'[d] = None => sent'[d] = <<>>
    BY <1>2 DEF IInv, Linked
  <2> QED
    BY <1>1, <2>1 DEF IInv, Linked
<1>5. Publishing'
  BY <1>1 DEF IInv, Publishing
<1>6. ASSUME NEW d \in Client PROVE PathOf(d)'
  <2>1. CASE d = c
    <3>1. subs' \subseteq Conn /\ pub' \in [Publisher -> [seq : 0..seq, todo : SUBSET Conn]]
      BY <1>1 DEF IInv, TypeOK
    <3> QED
      BY <1>1, <1>2, <2>1, <3>1, CutOff
  <2>2. CASE d # c
    <3>1. link'[d] = link[d] /\ Way(d)' = Way(d) /\ Coming(d)' = Coming(d)
      BY <1>1, <1>2, <2>2 DEF Way, Coming
    <3>2. PathOf(d) /\ base'[d] = base[d]
      BY <1>2, <2>2, EachPath DEF IInv
    <3>3. \A s \in About(d) : since[d] < s /\ s <= lastId'[d] => Accounted(d, s)'
      BY <1>1, <3>2, StillAccounted
    <3> QED
      BY <1>1, <3>1, <3>2, <3>3, Unmoved
  <2> QED
    BY <2>1, <2>2
<1> QED
  BY <1>3, <1>4, <1>5, <1>6, EachPathNext DEF IInv

LEMMA UnregisterStep ==
  ASSUME IInv, NEW k \in Conn, Unregister(k)
  PROVE  IInv'
<1>1. /\ pc[k] = "left" /\ subs' = subs \ {k} /\ pc' = [pc EXCEPT ![k] = "gone"]
      /\ ch' = [ch EXCEPT ![k] = <<>>]
      /\ UNCHANGED <<seq, rings, log, pub, owner, replay, out, done, wants, lastId, since,
                     got, shed, overtaken>>
  BY DEF Unregister
<1>2. /\ owner[k] \in Client /\ k # None /\ None \notin Conn /\ k \in subs
      /\ \A d \in Client : link[d] = k => d = owner[k]
  <2>1. owner[k] \in Client
    BY <1>1 DEF IInv, Linked
  <2>2. k # None /\ None \notin Conn
    BY NoneAssumption DEF Conn
  <2>3. \A d \in Client : link[d] = k => d = owner[k]
    BY <2>2 DEF IInv, Linked
  <2>4. k \in subs
    BY <1>1 DEF IInv, TypeOK
  <2> QED
    BY <2>1, <2>2, <2>3, <2>4
<1>3. /\ link' \in [Client -> Conn \cup {None}] /\ sent' \in [Client -> Seq(1..seq)]
      /\ base' \in [Client -> 0..seq]
      /\ \A d \in Client : link[d] = k => link'[d] = None /\ sent'[d] = <<>>
      /\ \A d \in Client : link[d] # k =>
           link'[d] = link[d] /\ sent'[d] = sent[d] /\ base'[d] = base[d]
  <2>1. <<>> \in Seq(1..seq)
    BY EmptySequence
  <2>2. 0 \in 0..seq
    BY Events DEF IInv
  <2>3. /\ link \in [Client -> Conn \cup {None}] /\ sent \in [Client -> Seq(1..seq)]
        /\ base \in [Client -> 0..seq]
    BY DEF IInv, TypeOK
  <2>4. CASE link[owner[k]] = k
    <3>1. /\ link' = [link EXCEPT ![owner[k]] = None] /\ sent' = [sent EXCEPT ![owner[k]] = <<>>]
          /\ base' = [base EXCEPT ![owner[k]] = 0]
      BY <2>4 DEF Unregister, Disconnected
    <3> QED
      BY <1>2, <2>1, <2>2, <2>3, <2>4, <3>1
  <2>5. CASE link[owner[k]] # k
    BY <1>2, <2>3, <2>5 DEF Unregister
  <2> QED
    BY <2>4, <2>5
<1>4. /\ pc' \in [Conn -> PC] /\ pc'[k] = "gone" /\ \A j \in Conn \ {k} : pc'[j] = pc[j]
  BY <1>1 DEF IInv, TypeOK, PC
<1>5. /\ ch' \in [Conn -> Seq(1..seq)] /\ ch'[k] = <<>> /\ Len(ch'[k]) = 0
      /\ \A j \in Conn \ {k} : ch'[j] = ch[j]
  <2>1. <<>> \in Seq(1..seq) /\ Len(<<>>) = 0
    BY EmptySequence
  <2> QED
    BY <1>1, <2>1 DEF IInv, TypeOK
<1>6. TypeOK'
  <2>1. \A j \in Conn : /\ Len(ch'[j]) <= LiveBuffer
                        /\ out[j] # <<>> => pc'[j] = "write" /\ Len(out[j]) = 1
                        /\ pc'[j] \in {"replay", "select", "write", "left"} <=> j \in subs'
    BY <1>1, <1>4, <1>5, SizesAssumption DEF IInv, TypeOK
  <2>2. \A d \in Client : Range(sent'[d]) \subseteq got[d]
    <3>1. Range(<<>>) = {}
      BY EmptySequence
    <3> QED
      BY <1>3, <3>1 DEF IInv, TypeOK
  <2>3. /\ {lastId, base, since}' \subseteq [Client -> 0..seq]
        /\ {replay, ch, out}' \subseteq [Conn -> Seq(1..seq)]
        /\ subs' \subseteq Conn
    BY <1>1, <1>3, <1>5 DEF IInv, TypeOK
  <2> QED
    BY <1>1, <1>3, <1>4, <2>1, <2>2, <2>3 DEF IInv, TypeOK
<1>7. Linked'
  <2>1. ASSUME NEW d \in Client
        PROVE  /\ link'[d] # None => owner[link'[d]] = d /\ link'[d] \in subs'
               /\ link'[d] = None => sent'[d] = <<>>
    <3>1. CASE link[d] = k
      BY <1>3, <3>1
    <3>2. CASE link[d] # k
      BY <1>1, <1>3, <3>2 DEF IInv, Linked
    <3> QED
      BY <3>1, <3>2
  <2>2. \A j \in Conn :
          /\ pc'[j] = "new" => ch'[j] = <<>> /\ \A p \in Publisher : j \notin pub[p].todo
          /\ pc'[j] = "replay" => replay[j] # <<>>
          /\ pc'[j] \in {"select", "write", "left"} => replay[j] = <<>>
          /\ pc'[j] = "write" => out[j] # <<>>
          /\ pc'[j] # "new" => owner[j] \in Client
    BY <1>1, <1>4, <1>5 DEF IInv, Linked
  <2> QED
    BY <1>1, <2>1, <2>2 DEF Linked
<1>8. Publishing'
  BY <1>1 DEF IInv, Publishing
<1>9. ASSUME NEW d \in Client PROVE PathOf(d)'
  <2>1. CASE link[d] = k
    <3>1. subs' \subseteq Conn /\ pub' \in [Publisher -> [seq : 0..seq, todo : SUBSET Conn]]
      BY <1>1 DEF IInv, TypeOK
    <3> QED
      BY <1>1, <1>3, <2>1, <3>1, CutOff
  <2>2. CASE link[d] # k
    <3>1. link'[d] = link[d] /\ base'[d] = base[d] /\ sent'[d] = sent[d]
          /\ link[d] \in Conn \cup {None}
      BY <1>3, <2>2 DEF IInv, TypeOK
    <3>2. Way(d)' = Way(d) /\ Coming(d)' = Coming(d)
      BY <1>1, <1>5, <2>2, <3>1 DEF Way, Coming
    <3>3. PathOf(d)
      BY EachPath DEF IInv
    <3>4. \A s \in About(d) : since[d] < s /\ s <= lastId'[d] => Accounted(d, s)'
      BY <1>1, <3>3, StillAccounted
    <3> QED
      BY <1>1, <3>1, <3>2, <3>3, <3>4, Unmoved
  <2> QED
    BY <2>1, <2>2
<1> QED
  BY <1>6, <1>7, <1>8, <1>9, EachPathNext DEF IInv

-----------------------------------------------------------------------------
(* The theorems.                                                           *)

LEMMA InitIInv == Init => IInv
<1> SUFFICES ASSUME Init PROVE IInv
  OBVIOUS
<1>1. /\ seq = 0 /\ log = <<>> /\ DOMAIN log = {} /\ 1..seq = {}
      /\ <<>> \in Seq(1..seq) /\ Len(<<>>) = 0 /\ Range(<<>>) = {}
  BY EmptySequence DEF Init
<1>2. TypeOK
  <2>1. seq \in 0..MaxSeq
    BY BoundsAssumption DEF Init
  <2>2. log \in [1..seq -> [topics : SUBSET Topic, by : Publisher]]
    BY <1>1
  <2>3. rings \in [Topic -> Seq(1..seq)] /\ \A t \in Topic : Len(rings[t]) <= RingSize
    BY <1>1, SizesAssumption DEF Init
  <2>4. pub \in [Publisher -> [seq : 0..seq, todo : SUBSET Conn]]
    BY <1>1 DEF Init, Idle
  <2>5. {replay, ch, out} \subseteq [Conn -> Seq(1..seq)]
    BY <1>1 DEF Init
  <2>6. \A k \in Conn :
          /\ Len(ch[k]) <= LiveBuffer
          /\ out[k] # <<>> => pc[k] = "write" /\ Len(out[k]) = 1
          /\ pc[k] \in {"replay", "select", "write", "left"} <=> k \in subs
    BY <1>1, SizesAssumption DEF Init
  <2>7. /\ {lastId, base, since} \subseteq [Client -> 0..seq]
        /\ sent \in [Client -> Seq(1..seq)]
        /\ {got, shed, overtaken} \subseteq [Client -> SUBSET (1..seq)]
        /\ \A c \in Client : Range(sent[c]) \subseteq got[c]
    BY <1>1 DEF Init
  <2>8. /\ subs \subseteq Conn /\ done \subseteq Conn
        /\ pc \in [Conn -> PC] /\ owner \in [Conn -> Client \cup {None}]
        /\ wants \in [Client -> SUBSET Topic] /\ link \in [Client -> Conn \cup {None}]
    BY DEF Init, PC
  <2> QED
    BY <2>4, <2>5, <2>6, <2>7, <2>8, <2>1, <2>2, <2>3 DEF TypeOK
<1>3. Linked
  BY DEF Init, Linked, Idle
<1>4. Publishing
  BY DEF Init, Publishing, Idle
<1>5. ASSUME NEW c \in Client PROVE PathOf(c)
  <2>1. Way(c) = <<>> /\ DOMAIN Way(c) = {} /\ link[c] \notin subs
    BY DEF Init, Way
  <2>2. Coming(c) = {}
    BY DEF Init, Coming, Idle
  <2>3. About(c) = {}
    BY <1>1 DEF About
  <2>4. IsInjective(Way(c))
    BY <2>1 DEF IsInjective
  <2> QED
    BY <2>1, <2>2, <2>3, <2>4 DEF PathOf
<1> QED
  BY <1>2, <1>3, <1>4, <1>5, EachPath DEF IInv

LEMMA StutterStep ==
  ASSUME IInv, UNCHANGED vars
  PROVE  IInv'
<1> USE DEF vars, bus, handlers, clients
<1>1. TypeOK'
  BY DEF IInv, TypeOK
<1>2. Linked' /\ Publishing'
  BY DEF IInv, Linked, Publishing
<1>3. \A c \in Client : Way(c)' = Way(c)
  BY DEF Way
<1>4. Paths'
  BY <1>3, AloneInPaths
<1> QED
  BY <1>1, <1>2, <1>4 DEF IInv

LEMMA Inductive == IInv /\ [Next]_vars => IInv'
<1> SUFFICES ASSUME IInv, [Next]_vars PROVE IInv'
  OBVIOUS
<1>1. CASE UNCHANGED vars
  BY <1>1, StutterStep
<1>2. ASSUME NEW p \in Publisher, Deliver(p) PROVE IInv'
  BY <1>2, SendStep, SkipStep, GiveUpStep DEF Deliver
<1>3. ASSUME NEW p \in Publisher, NEW T \in SUBSET Topic \ {{}}, Stamp(p, T) PROVE IInv'
  BY <1>3, StampStep
<1>4. ASSUME NEW c \in Client, Connect(c) \/ Cut(c) PROVE IInv'
  BY <1>4, ConnectStep, CutStep
<1>5. ASSUME NEW k \in Conn, Write(k) \/ Receive(k) \/ Leave(k) \/ Unregister(k) PROVE IInv'
  BY <1>5, WriteReplayStep, WriteLiveStep, ReceiveStep, LeaveStep, UnregisterStep DEF Write
<1> QED
  BY <1>1, <1>2, <1>3, <1>4, <1>5 DEF Next

THEOREM Invariance == Spec => []IInv
<1>1. Init => IInv
  BY InitIInv
<1>2. IInv /\ [Next]_vars => IInv'
  BY Inductive
<1> QED
  BY <1>1, <1>2, PTL DEF Spec

\* The types: in particular no ring and no channel ever holds more than its size,
\* and a subscription is registered just while its handler runs (the deferred
\* cancel of handleSSE).
THEOREM TypeCorrect == Spec => []TypeOK
<1>1. IInv => TypeOK
  BY DEF IInv
<1> QED
  BY <1>1, Invariance, PTL

\* Whatever the sizes of rings and channels, and however publishers, subscribers
\* and slow consumers interleave: a subscription that has not been given up gets
\* all it is owed, once, and each publisher's events in order.
THEOREM OnceAndInOrder == Spec => []InOrderExactlyOnce
<1>1. IInv => InOrderExactlyOnce
  BY DEF IInv, Paths, InOrderExactlyOnce
<1> QED
  BY <1>1, Invariance, PTL

\* A resuming client can have missed, of the events the rings still had, only
\* those a later one was sent before.
THEOREM LostOnlyOvertaken == Spec => []GapOnlyOvertaken
<1>1. IInv => GapOnlyOvertaken
  <2> SUFFICES ASSUME IInv, NEW c \in Client, NEW s \in Missed(c) PROVE s \in overtaken[c]
    BY DEF GapOnlyOvertaken
  <2>1. /\ s \in About(c) /\ since[c] < s /\ s <= lastId[c]
        /\ s \notin got[c] \cup shed[c]
    BY DEF Missed
  <2>2. PathOf(c)
    BY EachPath DEF IInv
  <2>3. Accounted(c, s)
    BY <2>1, <2>2 DEF PathOf
  <2> QED
    BY <2>1, <2>3 DEF Accounted
<1> QED
  BY <1>1, Invariance, PTL

-----------------------------------------------------------------------------
(*                                Mounts                                   *)
(* Eviction.                                                               *)

\* Of different ranks below N - 1, fewer than n are N - n or more.
LEMMA HighRanks ==
  ASSUME NEW O, IsFiniteSet(O), NEW N \in Nat, Cardinality(O) = N - 1,
         NEW n \in Nat \ {0}, NEW rank \in [O -> Nat],
         \A x \in O : rank[x] < N - 1,
         \A x, y \in O : x # y => rank[x] # rank[y],
         NEW K \in SUBSET O, \A x \in K : N <= n + rank[x]
  PROVE  IsFiniteSet(K) /\ Cardinality(K) \in Nat /\ Cardinality(K) <= n - 1
<1>1. IsFiniteSet(K) /\ Cardinality(K) <= N - 1
  BY FS_Subset
<1>2. Cardinality(K) \in Nat
  BY <1>1, FS_CardinalityType
<1>3. CASE N <= n
  BY <1>1, <1>2, <1>3
<1>4. CASE N > n
  <2>1. SUFFICES ASSUME NEW T, T = (N - n)..(N - 2)
                 PROVE  Cardinality(K) <= n - 1
    BY <1>1, <1>2
  <2>2. IsFiniteSet(T) /\ Cardinality(T) = n - 1
    <3>1. /\ IsFiniteSet(T)
          /\ Cardinality(T) = IF N - n > N - 2 THEN 0 ELSE (N - 2) - (N - n) + 1
      BY <2>1, FS_Interval
    <3> QED
      BY <3>1
  <2>3. SUFFICES ASSUME NEW f, f = [x \in K |-> rank[x]]
                 PROVE  Cardinality(K) <= n - 1
    OBVIOUS
  <2>4. f \in [K -> T]
    <3>1. SUFFICES ASSUME NEW x \in K PROVE rank[x] \in T
      BY <2>3
    <3>2. rank[x] \in Nat /\ rank[x] < N - 1 /\ N <= n + rank[x]
      OBVIOUS
    <3> QED
      BY <2>1, <3>2
  <2>5. ~ \E x, y \in K : x # y /\ f[x] = f[y]
    BY <2>3
  <2>6. ~ (Cardinality(T) < Cardinality(K))
    BY <1>1, <2>2, <2>4, <2>5, FS_PigeonHole
  <2> QED
    BY <1>2, <2>2, <2>6
<1> QED
  BY <1>1, <1>2, <1>3, <1>4

StrictOrder(S, R) ==
  /\ \A x \in S : ~ (<<x, x>> \in R)
  /\ \A x, y, z \in S : <<x, y>> \in R /\ <<y, z>> \in R => <<x, z>> \in R
  /\ \A x, y \in S : x # y => <<x, y>> \in R \/ <<y, x>> \in R

\* out: those but k with fewer than Cardinality(S) - n before them.
FirstOut(S, R, k, n, B, victims) ==
  /\ B \in [S -> SUBSET S]
  /\ \A x, s \in S : x \in B[s] <=> x # k /\ <<x, s>> \in R
  /\ victims \in SUBSET S
  /\ \A s \in S : s \in victims <=> s # k /\ n + Cardinality(B[s]) < Cardinality(S)

\* Of a finite set in a strict order, all but k, from which the first are taken
\* as long as the set exceeds n, no more than n are left.
LEMMA FewLeft ==
  ASSUME NEW S, IsFiniteSet(S), NEW R, StrictOrder(S, R),
         NEW k \in S, NEW n \in Nat \ {0},
         NEW B, NEW victims, FirstOut(S, R, k, n, B, victims)
  PROVE  IsFiniteSet(S \ victims) /\ Cardinality(S \ victims) <= n
<1> USE DEF StrictOrder, FirstOut
<1>1. SUFFICES ASSUME NEW N \in Nat, N = Cardinality(S), NEW O, O = S \ {k},
                      IsFiniteSet(O), Cardinality(O) = N - 1
               PROVE  IsFiniteSet(S \ victims) /\ Cardinality(S \ victims) <= n
  BY FS_CardinalityType, FS_RemoveElement
<1>2. /\ \A s \in O : B[s] \in SUBSET O
      /\ \A s \in O : s \notin B[s]
      /\ \A s, t \in O : <<s, t>> \in R =>
           B[s] \in SUBSET B[t] /\ s \in B[t]
  <2>1. \A s \in O : B[s] \in SUBSET S /\ s \in S /\ s # k
    BY <1>1
  <2>2. \A s \in O, x \in S : x \in B[s] <=> x \in O /\ <<x, s>> \in R
    BY <1>1
  <2>3. ASSUME NEW s \in O, NEW t \in O, <<s, t>> \in R
        PROVE  B[s] \in SUBSET B[t] /\ s \in B[t]
    BY <2>1, <2>2, <2>3
  <2> QED
    BY <2>1, <2>2, <2>3
<1>3. victims = {s \in O : n + Cardinality(B[s]) < N}
  BY <1>1
<1>4. \A s \in O : IsFiniteSet(B[s]) /\ Cardinality(B[s]) \in Nat
  BY <1>1, <1>2, FS_Subset, FS_CardinalityType
<1>5. SUFFICES ASSUME NEW rank, rank = [s \in O |-> Cardinality(B[s])]
               PROVE  IsFiniteSet(S \ victims) /\ Cardinality(S \ victims) <= n
  OBVIOUS
<1>6. rank \in [O -> Nat]
  BY <1>4, <1>5
<1>7. \A s, t \in O : <<s, t>> \in R => rank[s] < rank[t]
  <2>1. SUFFICES ASSUME NEW s \in O, NEW t \in O, <<s, t>> \in R
                 PROVE  rank[s] < rank[t]
    OBVIOUS
  <2>2. B[s] \in SUBSET B[t] /\ B[s] # B[t]
    BY <1>2, <2>1
  <2>3. /\ Cardinality(B[s]) <= Cardinality(B[t])
        /\ Cardinality(B[s]) # Cardinality(B[t])
    BY <1>4, <2>2, FS_Subset
  <2>4. rank[s] <= rank[t] /\ rank[s] # rank[t] /\ rank[s] \in Nat /\ rank[t] \in Nat
    BY <1>5, <1>6, <2>3
  <2> QED
    BY <2>4
<1>8. \A s \in O : rank[s] < N - 1
  <2>1. SUFFICES ASSUME NEW s \in O PROVE rank[s] < N - 1
    OBVIOUS
  <2>2. B[s] \in SUBSET O /\ B[s] # O
    BY <1>2
  <2>3. Cardinality(B[s]) <= N - 1 /\ Cardinality(B[s]) # N - 1
    BY <1>1, <2>2, FS_Subset
  <2>4. rank[s] <= N - 1 /\ rank[s] # N - 1 /\ rank[s] \in Nat
    BY <1>5, <1>6, <2>3
  <2> QED
    BY <2>4
<1>9. \A x, y \in O : x # y => rank[x] # rank[y]
  <2>1. SUFFICES ASSUME NEW x \in O, NEW y \in O, x # y PROVE rank[x] # rank[y]
    OBVIOUS
  <2>2. rank[x] < rank[y] \/ rank[y] < rank[x]
    BY <1>1, <1>7, <2>1
  <2>3. rank[x] \in Nat /\ rank[y] \in Nat
    BY <1>6
  <2> QED
    BY <2>2, <2>3
<1>10. SUFFICES ASSUME NEW K, K = {x \in O : N <= n + rank[x]}
                PROVE  IsFiniteSet(S \ victims) /\ Cardinality(S \ victims) <= n
  OBVIOUS
<1>11. IsFiniteSet(K) /\ Cardinality(K) \in Nat /\ Cardinality(K) <= n - 1
  <2>1. IsFiniteSet(O) /\ Cardinality(O) = N - 1
    BY <1>1
  <2>2. n \in Nat \ {0} /\ N \in Nat
    OBVIOUS
  <2>3. K \in SUBSET O /\ \A x \in K : N <= n + rank[x]
    BY <1>10
  <2> QED
    BY <1>6, <1>8, <1>9, <2>1, <2>2, <2>3, HighRanks
<1>12. k \notin K /\ S \ victims = K \cup {k}
  <2>1. \A s \in O : s \notin victims <=> s \in K
    <3>1. \A s \in O : rank[s] \in Nat /\ rank[s] = Cardinality(B[s])
      BY <1>5, <1>6
    <3>2. \A s \in O : ~ (n + rank[s] < N) <=> N <= n + rank[s]
      BY <3>1
    <3> QED
      BY <1>3, <1>10, <3>1, <3>2
  <2>2. k \notin victims /\ k \notin K /\ S = O \cup {k}
    BY <1>1, <1>3, <1>10
  <2>3. K \subseteq O /\ victims \subseteq O
    BY <1>3, <1>10
  <2> QED
    BY <2>1, <2>2, <2>3
<1>13. IsFiniteSet(K \cup {k}) /\ Cardinality(K \cup {k}) = Cardinality(K) + 1
  BY <1>11, <1>12, FS_AddElement
<1>14. Cardinality(K) + 1 <= n
  BY <1>11
<1> QED
  BY <1>12, <1>13, <1>14

-----------------------------------------------------------------------------
(* The strengthening for WorkersOwned: a pointer to a mount is to one that *)
(* is there, and a mount that is there is in the table or was deleted.     *)

Assigned ==
  /\ \A s \in Slug : mounts[s] # Nil => mount[mounts[s]] # Nil
  /\ \A s \in Slug : pull[s] \in Mount => mount[pull[s]] # Nil
  /\ \A c \in Req : req[c].at = "swap" => mount[req[c].m] # Nil

Belongs(held, table1, reasons) ==
  \A m \in Mount : held[m] # Nil =>
    /\ "deleted" \in reasons[m] \/ \E s \in Slug : table1[s] = m
    /\ held[m].worker =>
         /\ held[m].store \/ "evicted" \in reasons[m]
         /\ up = "closed" => reasons[m] \cap {"deleted", "closed"} # {}

Owned == Belongs(mount, mounts, loose)

TableInv == MountsTypeOK /\ Assigned /\ Owned

\* What a request in flight carries.
LEMMA Carried ==
  ASSUME MountsTypeOK, NEW c \in Req
  PROVE  /\ req[c].at \in {"idle", "commit", "read", "insert", "load", "save",
                           "remove", "drop", "swap"}
         /\ req[c].at = "idle" <=> req[c] = NoCall
         /\ req[c].at \in {"commit", "read", "insert", "load", "save", "remove", "drop"} =>
              req[c].repo \in Repo
         /\ req[c].at \in {"commit", "remove", "drop"} => req[c].slug \in Slug
         /\ req[c].at = "insert" => req[c].rec \in Project
         /\ req[c].at \in {"load", "save"} => req[c].add \in BOOLEAN
         /\ req[c].at = "save" => req[c].paths \in SUBSET Repo
         /\ req[c].at = "swap" => req[c].m \in Mount
<1>1. req[c] \in {NoCall} \cup Creating \cup Registering \cup Deleting \cup Reembedding
  BY DEF MountsTypeOK
<1>2. CASE req[c] = NoCall
  BY <1>2 DEF NoCall
<1>3. CASE req[c] \in Creating
  BY <1>3 DEF NoCall, Creating
<1>4. CASE req[c] \in Registering
  BY <1>4 DEF NoCall, Registering
<1>5. CASE req[c] \in Deleting
  BY <1>5 DEF NoCall, Deleting
<1>6. CASE req[c] \in Reembedding
  BY <1>6 DEF NoCall, Reembedding
<1> QED
  BY <1>1, <1>2, <1>3, <1>4, <1>5, <1>6

\* A mount has a repository and a project.
LEMMA Kinds ==
  ASSUME NEW h \in Held
  PROVE  /\ h.repo \in Repo /\ h.id \in 1..MaxId
         /\ h.store \in BOOLEAN /\ h.worker \in BOOLEAN /\ h # Nil
BY Absence DEF Held

\* An eviction takes a mount its store and its worker, and no more.
LEMMA Evicting ==
  ASSUME NEW table1 \in [Slug -> Mount \cup {Nil}],
         NEW held \in [Mount -> Held \cup {Nil}],
         NEW order, NEW keep,
         \A s \in Slug : table1[s] # Nil => held[table1[s]] # Nil,
         NEW after, after = Evicted(table1, held, order, keep)
  PROVE  /\ after \in [Mount -> Held \cup {Nil}]
         /\ \A m \in Mount : after[m] # Nil <=> held[m] # Nil
         /\ \A m \in Mount : held[m] # Nil =>
              after[m].repo = held[m].repo /\ after[m].id = held[m].id
         /\ \A m \in Mount :
              after[m] = held[m] \/ (held[m] # Nil /\ ~ after[m].store /\ ~ after[m].worker)
<1> DEFINE victims == {table1[s] : s \in Victims(table1, held, order, keep)}
<1>1. after = [m \in Mount |->
                 IF m \in victims THEN [held[m] EXCEPT !.store = FALSE, !.worker = FALSE]
                 ELSE held[m]]
  BY DEF Evicted
<1>2. \A m \in victims : held[m] # Nil
  BY DEF Victims, Resident
<1> HIDE DEF victims
<1>3. SUFFICES ASSUME NEW m \in Mount
               PROVE  /\ after[m] \in Held \cup {Nil}
                      /\ after[m] # Nil <=> held[m] # Nil
                      /\ held[m] # Nil =>
                           after[m].repo = held[m].repo /\ after[m].id = held[m].id
                      /\ \/ after[m] = held[m]
                         \/ held[m] # Nil /\ ~ after[m].store /\ ~ after[m].worker
  BY <1>1
<1>4. CASE m \in victims
  <2>1. held[m] \in Held /\ held[m] # Nil
    BY <1>2, <1>4
  <2>2. after[m] = [held[m] EXCEPT !.store = FALSE, !.worker = FALSE]
    BY <1>1, <1>4
  <2>3. /\ after[m] \in Held /\ after[m] # Nil
        /\ after[m].repo = held[m].repo /\ after[m].id = held[m].id
        /\ after[m].store = FALSE /\ after[m].worker = FALSE
    BY <2>1, <2>2, Absence DEF Held
  <2> QED
    BY <2>1, <2>3
<1>5. CASE m \notin victims
  BY <1>1, <1>5
<1> QED
  BY <1>4, <1>5

\* What every step keeps that touches the table only to use or open mounts.
Steady ==
  /\ mount' \in [Mount -> Held \cup {Nil}]
  /\ mounts' \in [Slug -> Mount \cup {Nil}]
  /\ older' \in SUBSET (Slug \X Slug)
  /\ \A s \in Slug : mounts[s] # Nil => mounts'[s] = mounts[s]
  /\ \A s \in Slug : mounts'[s] # Nil => mount'[mounts'[s]] # Nil
  /\ \A m \in Mount \ Free :
       mount[m] # Nil =>
         mount'[m] # Nil /\ mount'[m].repo = mount[m].repo /\ mount'[m].id = mount[m].id
  /\ loose' \in [Mount -> SUBSET Reason]
  /\ Belongs(mount', mounts', loose')

LEMMA Pairs ==
  ASSUME MountsTypeOK, NEW s \in Slug
  PROVE  Touch(s) \in SUBSET (Slug \X Slug) /\ Without(s) \in SUBSET (Slug \X Slug)
BY DEF Touch, Without, MountsTypeOK

\* A mount of the table is not in the pool to take from.
LEMMA Taken ==
  ASSUME MountsTypeOK, NEW m \in Mount
  PROVE  /\ \A s \in Slug : (mounts[s] = m \/ pull[s] = m) => m \notin Free
         /\ \A c \in Req : (req[c].at = "swap" /\ req[c].m = m) => m \notin Free
BY DEF Free

LEMMA UseSteady ==
  ASSUME TableInv, NEW s \in Slug, mounts[s] # Nil, UseMount(s)
  PROVE  Steady /\ mounts' = mounts
<1> DEFINE m0 == mounts[s]
           held == [mount EXCEPT ![m0].store = TRUE,
                                 ![m0].worker = mount[m0].worker \/ ~ mount[m0].store]
<1>1. /\ mounts' = mounts /\ older' = Touch(s)
      /\ mount' = Evicted(mounts, held, Touch(s), s)
      /\ loose' = [loose EXCEPT ![m0] =
                     (loose[m0] \ {"evicted"}) \cup
                       (IF mount[m0].store \/ mount[m0].worker THEN {} ELSE Late)]
  BY DEF UseMount
<1>2. /\ m0 \in Mount /\ mount \in [Mount -> Held \cup {Nil}]
      /\ mounts \in [Slug -> Mount \cup {Nil}] /\ mount[m0] \in Held /\ mount[m0] # Nil
  BY DEF TableInv, MountsTypeOK, Assigned
<1>3. /\ held \in [Mount -> Held \cup {Nil}]
      /\ \A m \in Mount \ {m0} : held[m] = mount[m]
      /\ held[m0] # Nil /\ held[m0].store
      /\ held[m0].worker => mount[m0].worker \/ ~ mount[m0].store
      /\ held[m0].repo = mount[m0].repo /\ held[m0].id = mount[m0].id
  <2>1. held = [mount EXCEPT ![m0] =
                  [mount[m0] EXCEPT !.store = TRUE,
                                    !.worker = mount[m0].worker \/ ~ mount[m0].store]]
    BY <1>2
  <2>2. (mount[m0].worker \/ ~ mount[m0].store) \in BOOLEAN
    OBVIOUS
  <2>3. held[m0] = [mount[m0] EXCEPT !.store = TRUE,
                                     !.worker = mount[m0].worker \/ ~ mount[m0].store]
    BY <1>2, <2>1
  <2>4. /\ held[m0] \in Held /\ held[m0] # Nil
        /\ held[m0].repo = mount[m0].repo /\ held[m0].id = mount[m0].id
        /\ held[m0].store = TRUE
        /\ held[m0].worker = (mount[m0].worker \/ ~ mount[m0].store)
    BY <1>2, <2>2, <2>3, Absence DEF Held
  <2>5. \A m \in Mount \ {m0} : held[m] = mount[m]
    BY <1>2, <2>1
  <2> HIDE DEF held
  <2>6. held \in [Mount -> Held \cup {Nil}]
    <3>1. held = [mount EXCEPT ![m0] = held[m0]]
      BY <2>1, <2>3
    <3> QED
      BY <1>2, <2>4, <3>1
  <2> QED
    BY <2>4, <2>5, <2>6
<1> HIDE DEF held, m0
<1>4. \A x \in Slug : mounts[x] # Nil => held[mounts[x]] # Nil
  BY <1>2, <1>3 DEF TableInv, Assigned, MountsTypeOK
<1>5. /\ mount' \in [Mount -> Held \cup {Nil}]
      /\ \A m \in Mount : mount'[m] # Nil <=> held[m] # Nil
      /\ \A m \in Mount : held[m] # Nil =>
           mount'[m].repo = held[m].repo /\ mount'[m].id = held[m].id
      /\ \A m \in Mount :
           mount'[m] = held[m] \/ (held[m] # Nil /\ ~ mount'[m].store /\ ~ mount'[m].worker)
  BY <1>1, <1>2, <1>3, <1>4, Evicting
<1>6. older' \in SUBSET (Slug \X Slug)
  BY <1>1, Pairs DEF TableInv
<1>7. \A x \in Slug : mounts'[x] # Nil => mount'[mounts'[x]] # Nil
  BY <1>1, <1>2, <1>4, <1>5
<1>8. \A m \in Mount : mount[m] # Nil =>
        mount'[m] # Nil /\ mount'[m].repo = mount[m].repo /\ mount'[m].id = mount[m].id
  BY <1>2, <1>3, <1>5
<1>9. loose' \in [Mount -> SUBSET Reason]
  <2>1. loose \in [Mount -> SUBSET Reason] /\ Late \in SUBSET Reason
    BY DEF TableInv, MountsTypeOK, Late, Reason
  <2> QED
    BY <1>1, <1>2, <2>1
<1>10. /\ \A m \in Mount \ {m0} : loose'[m] = loose[m]
       /\ \A m \in Mount : \A x \in {"deleted", "closed"} :
            x \in loose[m] => x \in loose'[m]
       /\ ~ mount[m0].store /\ ~ mount[m0].worker /\ up = "closed" =>
            "closed" \in loose'[m0]
  <2>1. loose \in [Mount -> SUBSET Reason]
    BY DEF TableInv, MountsTypeOK
  <2>2. loose'[m0] = (loose[m0] \ {"evicted"}) \cup
                       (IF mount[m0].store \/ mount[m0].worker THEN {} ELSE Late)
    BY <1>1, <1>2, <2>1
  <2>3. \A m \in Mount \ {m0} : loose'[m] = loose[m]
    BY <1>1, <1>2, <2>1
  <2> QED
    BY <2>2, <2>3 DEF Late
<1>11. ASSUME NEW m \in Mount, mount'[m] # Nil
       PROVE  /\ "deleted" \in loose'[m] \/ \E x \in Slug : mounts'[x] = m
              /\ mount'[m].worker =>
                   /\ mount'[m].store \/ "evicted" \in loose'[m]
                   /\ up = "closed" => loose'[m] \cap {"deleted", "closed"} # {}
  <2>1. mount[m] # Nil
    BY <1>2, <1>3, <1>5, <1>11
  <2>2. /\ "deleted" \in loose[m] \/ \E x \in Slug : mounts[x] = m
        /\ mount[m].worker =>
             /\ mount[m].store \/ "evicted" \in loose[m]
             /\ up = "closed" => loose[m] \cap {"deleted", "closed"} # {}
    BY <2>1 DEF TableInv, Owned, Belongs
  <2>3. "deleted" \in loose'[m] \/ \E x \in Slug : mounts'[x] = m
    BY <1>1, <1>10, <2>2
  <2>4. CASE ~ mount'[m].worker
    BY <2>3, <2>4
  <2>5. CASE mount'[m] = held[m] /\ m = m0
    <3>1. mount'[m].store /\ (mount'[m].worker => mount[m0].worker \/ ~ mount[m0].store)
      BY <1>3, <2>5
    <3>2. CASE mount[m0].worker
      <4>1. up = "closed" => loose[m] \cap {"deleted", "closed"} # {}
        BY <2>2, <2>5, <3>2
      <4> QED
        BY <1>10, <2>3, <3>1, <4>1
    <3>3. CASE ~ mount[m0].worker
      BY <1>10, <2>3, <2>5, <3>1, <3>3
    <3> QED
      BY <3>2, <3>3
  <2>6. CASE mount'[m] = held[m] /\ m # m0
    <3>1. mount'[m] = mount[m] /\ loose'[m] = loose[m]
      BY <1>3, <1>10, <2>6
    <3> QED
      BY <2>2, <2>3, <3>1
  <2> QED
    BY <1>5, <2>4, <2>5, <2>6
<1>12. Belongs(mount', mounts', loose')
  BY <1>11 DEF Belongs
<1> QED
  BY <1>1, <1>2, <1>5, <1>6, <1>7, <1>8, <1>9, <1>12 DEF Steady

\* No other slug's mount changes.
OnlyAt(s) == \A x \in Slug \ {s} : mounts'[x] = mounts[x]

\* A mount from the pool, opened for a slug that has none.
LEMMA OpenSteady ==
  ASSUME TableInv, NEW s \in Slug, mounts[s] = Nil, NEW m0 \in Free,
         NEW r \in Repo, NEW id \in 1..MaxId,
         mounts' = [mounts EXCEPT ![s] = m0], loose' = [loose EXCEPT ![m0] = Late],
         older' = Touch(s),
         \/ mount' = [mount EXCEPT ![m0] = Opened(r, id)]
         \/ mount' = Evicted([mounts EXCEPT ![s] = m0],
                             [mount EXCEPT ![m0] = Opened(r, id)], Touch(s), s)
  PROVE  /\ Steady
         /\ OnlyAt(s)
         /\ mounts'[s] = m0 /\ mount'[m0] # Nil
         /\ mount'[m0].repo = r /\ mount'[m0].id = id
<1> DEFINE table1 == [mounts EXCEPT ![s] = m0]
           held == [mount EXCEPT ![m0] = Opened(r, id)]
           order == Touch(s)
<1>0. /\ mounts' = table1
      /\ mount' = held \/ mount' = Evicted(table1, held, order, s)
  OBVIOUS
<1>1. /\ m0 \in Mount /\ m0 # Nil /\ mount \in [Mount -> Held \cup {Nil}]
      /\ mounts \in [Slug -> Mount \cup {Nil}] /\ loose \in [Mount -> SUBSET Reason]
      /\ \A x \in Slug : mounts[x] # m0
  BY Constants DEF TableInv, MountsTypeOK, Free
<1>2. /\ held \in [Mount -> Held \cup {Nil}]
      /\ \A m \in Mount \ {m0} : held[m] = mount[m]
      /\ held[m0] # Nil /\ held[m0].repo = r /\ held[m0].id = id
      /\ held[m0].store /\ held[m0].worker
  <2>1. Opened(r, id) \in Held /\ Opened(r, id) # Nil
    <3>1. Opened(r, id) \in Held
      BY DEF Opened, Held
    <3> QED
      BY <3>1, Absence
  <2>2. /\ Opened(r, id).repo = r /\ Opened(r, id).id = id
        /\ Opened(r, id).store /\ Opened(r, id).worker
    BY DEF Opened
  <2> QED
    BY <1>1, <2>1, <2>2
<1>3. /\ mounts' \in [Slug -> Mount \cup {Nil}] /\ mounts'[s] = m0
      /\ \A x \in Slug \ {s} : mounts'[x] = mounts[x]
  BY <1>1
<1> HIDE DEF table1, held, order
<1>4. \A x \in Slug : mounts'[x] # Nil => held[mounts'[x]] # Nil
  BY <1>1, <1>2, <1>3 DEF TableInv, Assigned
<1>5. /\ mount' \in [Mount -> Held \cup {Nil}]
      /\ \A m \in Mount : mount'[m] # Nil <=> held[m] # Nil
      /\ \A m \in Mount : held[m] # Nil =>
           mount'[m].repo = held[m].repo /\ mount'[m].id = held[m].id
      /\ \A m \in Mount :
           mount'[m] = held[m] \/ (held[m] # Nil /\ ~ mount'[m].store /\ ~ mount'[m].worker)
  <2>1. CASE mount' = held
    BY <1>2, <2>1
  <2>2. CASE mount' = Evicted(table1, held, order, s)
    <3>1. table1 \in [Slug -> Mount \cup {Nil}]
      BY <1>0, <1>3
    <3>2. \A x \in Slug : table1[x] # Nil => held[table1[x]] # Nil
      BY <1>0, <1>4
    <3> QED
      BY <1>2, <2>2, <3>1, <3>2, Evicting
  <2> QED
    BY <1>0, <2>1, <2>2
<1>6. older' \in SUBSET (Slug \X Slug)
  BY Pairs DEF TableInv
<1>7. \A x \in Slug : mounts'[x] # Nil => mount'[mounts'[x]] # Nil
  BY <1>3, <1>4, <1>5
<1>8. \A m \in Mount \ Free : mount[m] # Nil =>
        mount'[m] # Nil /\ mount'[m].repo = mount[m].repo /\ mount'[m].id = mount[m].id
  BY <1>2, <1>5
<1>9. /\ loose' \in [Mount -> SUBSET Reason]
      /\ loose'[m0] = Late
      /\ \A m \in Mount \ {m0} : loose'[m] = loose[m]
  <2>1. Late \in SUBSET Reason
    BY DEF Late, Reason
  <2> QED
    BY <1>1, <2>1
<1>11. ASSUME NEW m \in Mount, mount'[m] # Nil
       PROVE  /\ "deleted" \in loose'[m] \/ \E x \in Slug : mounts'[x] = m
              /\ mount'[m].worker =>
                   /\ mount'[m].store \/ "evicted" \in loose'[m]
                   /\ up = "closed" => loose'[m] \cap {"deleted", "closed"} # {}
  <2>1. CASE m = m0
    <3>1. mounts'[s] = m
      BY <1>3, <2>1
    <3>2. mount'[m].worker => mount'[m].store
      BY <1>2, <1>5, <2>1
    <3>3. up = "closed" => "closed" \in loose'[m]
      BY <1>9, <2>1 DEF Late
    <3> QED
      BY <3>1, <3>2, <3>3
  <2>2. CASE m # m0
    <3>1. held[m] = mount[m] /\ mount[m] # Nil /\ loose'[m] = loose[m]
      BY <1>2, <1>5, <1>9, <1>11, <2>2
    <3>2. /\ "deleted" \in loose[m] \/ \E x \in Slug : mounts[x] = m
          /\ mount[m].worker =>
               /\ mount[m].store \/ "evicted" \in loose[m]
               /\ up = "closed" => loose[m] \cap {"deleted", "closed"} # {}
      BY <3>1 DEF TableInv, Owned, Belongs
    <3>3. (\E x \in Slug : mounts[x] = m) => \E x \in Slug : mounts'[x] = m
      BY Constants, <1>3
    <3>4. mount'[m].worker => mount'[m] = mount[m]
      BY <1>5, <3>1
    <3> QED
      BY <3>1, <3>2, <3>3, <3>4
  <2> QED
    BY <2>1, <2>2
<1>13. Belongs(mount', mounts', loose')
  BY <1>11 DEF Belongs
<1>10. \A x \in Slug : mounts[x] # Nil => mounts'[x] = mounts[x]
  BY <1>3
<1>12. Steady
  BY <1>3, <1>5, <1>6, <1>7, <1>8, <1>9, <1>10, <1>13 DEF Steady
<1> QED
  BY <1>0, <1>1, <1>2, <1>3, <1>5, <1>12 DEF OnlyAt

\* ResolveProjectStore leaves the slug a mount that holds a project.
LEMMA ResolveSteady ==
  ASSUME TableInv, NEW s \in Slug, ResolveProjectStore(s)
  PROVE  /\ Steady
         /\ OnlyAt(s)
         /\ mounts'[s] \in Mount /\ mount'[mounts'[s]] # Nil
         /\ mounts[s] = Nil =>
              /\ DefaultHosts(s) /\ mount'[mounts'[s]].repo = Default
              /\ mount'[mounts'[s]].id = disk[Default].id
<1>1. CASE mounts[s] # Nil /\ UseMount(s)
  BY <1>1, UseSteady, Constants DEF Steady, TableInv, MountsTypeOK, OnlyAt
<1>2. CASE mounts[s] = Nil /\ ~ (mounts[s] # Nil /\ UseMount(s))
  <2>1. PICK m0 \in Free :
          /\ mounts' = [mounts EXCEPT ![s] = m0]
          /\ mount' = [mount EXCEPT ![m0] = Opened(Default, disk[Default].id)]
          /\ loose' = [loose EXCEPT ![m0] = Late]
    BY <1>2 DEF ResolveProjectStore
  <2>2. /\ Default \in Repo /\ disk[Default].id \in 1..MaxId /\ older' = Touch(s)
        /\ DefaultHosts(s)
    BY <1>2, Constants
    DEF ResolveProjectStore, DefaultHosts, TableInv, MountsTypeOK, Project
  <2>3. /\ Steady /\ mounts'[s] = m0 /\ mount'[m0] # Nil
        /\ OnlyAt(s)
        /\ mount'[m0].repo = Default /\ mount'[m0].id = disk[Default].id
    <3> DEFINE id == disk[Default].id
    <3>1. /\ s \in Slug /\ Default \in Repo /\ id \in 1..MaxId /\ mounts[s] = Nil
          /\ mounts' = [mounts EXCEPT ![s] = m0] /\ loose' = [loose EXCEPT ![m0] = Late]
          /\ older' = Touch(s)
          /\ mount' = [mount EXCEPT ![m0] = Opened(Default, id)]
      BY <1>2, <2>1, <2>2
    <3> HIDE DEF id
    <3>2. /\ Steady /\ mounts'[s] = m0 /\ mount'[m0] # Nil
          /\ OnlyAt(s)
          /\ mount'[m0].repo = Default /\ mount'[m0].id = id
      BY <3>1, OpenSteady
    <3> QED
      BY <3>2 DEF id
  <2> QED
    BY <2>2, <2>3 DEF Free
<1> QED
  BY <1>1, <1>2 DEF ResolveProjectStore

\* Insert finds the slug's mount or makes one: either way the project read has it.
LEMMA InsertSteady ==
  ASSUME TableInv, NEW c \in Req, Insert(c)
  PROVE  LET s == req[c].rec.slug
         IN /\ Steady
            /\ OnlyAt(s)
            /\ mounts'[s] \in Mount /\ mount'[mounts'[s]] # Nil
            /\ mount'[mounts'[s]].repo = req[c].repo
            /\ mount'[mounts'[s]].id = req[c].rec.id
<1> DEFINE s == req[c].rec.slug
           r == req[c].repo
           rec == req[c].rec
<1>1. /\ req[c].at = "insert" /\ r \in Repo /\ rec \in Project
      /\ s \in Slug /\ rec.id \in 1..MaxId
  <2>1. req[c].at = "insert" /\ r \in Repo /\ rec \in Project
    BY Carried DEF Insert, TableInv
  <2> QED
    BY <2>1 DEF Project
<1>2. CASE mounts[s] # Nil
  <2>1. Same(mounts[s], r, rec)
    BY <1>2 DEF Insert
  <2>2. CASE UseMount(s)
    <3>1. Steady /\ mounts' = mounts
      BY <1>1, <1>2, <2>2, UseSteady
    <3>2. mounts[s] \in Mount \ Free /\ mount[mounts[s]] # Nil
      BY <1>1, <1>2, Taken DEF TableInv, MountsTypeOK, Assigned
    <3> QED
      BY <1>1, <2>1, <3>1, <3>2 DEF Steady, Same, OnlyAt
  <2>3. CASE UNCHANGED <<mounts, mount, loose>> /\ older' = Touch(s)
    <3>1. mounts[s] \in Mount /\ mount[mounts[s]] # Nil
      BY <1>1, <1>2 DEF TableInv, MountsTypeOK, Assigned
    <3>2. older' \in SUBSET (Slug \X Slug)
      BY <1>1, <2>3, Pairs DEF TableInv
    <3>3. Steady
      <4>1. /\ mount \in [Mount -> Held \cup {Nil}] /\ mounts \in [Slug -> Mount \cup {Nil}]
            /\ loose \in [Mount -> SUBSET Reason]
        BY DEF TableInv, MountsTypeOK
      <4>2. \A x \in Slug : mounts[x] # Nil => mount[mounts[x]] # Nil
        BY DEF TableInv, Assigned
      <4>3. Belongs(mount', mounts', loose')
        BY <2>3 DEF TableInv, Owned, Belongs
      <4> QED
        BY <2>3, <3>2, <4>1, <4>2, <4>3 DEF Steady
    <3> QED
      BY <2>1, <2>3, <3>1, <3>3 DEF Same, OnlyAt
  <2> QED
    BY <1>2, <2>2, <2>3 DEF Insert
<1>3. CASE mounts[s] = Nil
  <2>1. PICK m0 \in Free :
          /\ mounts' = [mounts EXCEPT ![s] = m0]
          /\ mount' = Evicted([mounts EXCEPT ![s] = m0],
                              [mount EXCEPT ![m0] = Opened(r, rec.id)], Touch(s), s)
          /\ loose' = [loose EXCEPT ![m0] = Late]
    BY <1>3 DEF Insert
  <2>2. older' = Touch(s)
    BY <1>3 DEF Insert
  <2>3. /\ Steady /\ mounts'[s] = m0 /\ mount'[m0] # Nil
        /\ OnlyAt(s)
        /\ mount'[m0].repo = r /\ mount'[m0].id = rec.id
    <3> DEFINE id == rec.id
    <3>1. /\ s \in Slug /\ r \in Repo /\ id \in 1..MaxId /\ mounts[s] = Nil
          /\ mounts' = [mounts EXCEPT ![s] = m0] /\ loose' = [loose EXCEPT ![m0] = Late]
          /\ older' = Touch(s)
          /\ mount' = Evicted([mounts EXCEPT ![s] = m0],
                              [mount EXCEPT ![m0] = Opened(r, id)], Touch(s), s)
      BY <1>1, <1>3, <2>1, <2>2
    <3> HIDE DEF s, r, rec, id
    <3>2. /\ Steady /\ mounts'[s] = m0 /\ mount'[m0] # Nil
          /\ OnlyAt(s)
          /\ mount'[m0].repo = r /\ mount'[m0].id = id
      BY <3>1, OpenSteady, ZenonT(40)
    <3> QED
      BY <3>2 DEF id
  <2> QED
    BY <2>3 DEF Free
<1> QED
  BY <1>2, <1>3

-----------------------------------------------------------------------------
(* A step keeps the table's invariant.                                     *)

Doing == {NoCall} \cup Creating \cup Registering \cup Deleting \cup Reembedding

LEMMA Went ==
  ASSUME MountsTypeOK, NEW c \in Req, NEW call \in Doing, Goto(c, call)
  PROVE  /\ req' \in [Req -> Doing]
         /\ req'[c] = call
         /\ \A d \in Req \ {c} : req'[d] = req[d]
BY DEF MountsTypeOK, Goto, Doing

LEMMA Stopped ==
  ASSUME MountsTypeOK, NEW c \in Req, Stop(c)
  PROVE  /\ req' \in [Req -> Doing]
         /\ req'[c] = NoCall /\ req'[c].at = "idle"
         /\ \A d \in Req \ {c} : req'[d] = req[d]
BY Went DEF Stop, Doing, NoCall

\* Requests in flight point to the mounts they did, or to one in the table.
Pointing ==
  /\ \A c \in Req : req'[c].at = "swap" =>
       \/ req[c].at = "swap" /\ req'[c].m = req[c].m
       \/ \E s \in Slug : mounts'[s] \in Mount /\ req'[c].m = mounts'[s]
  /\ \A s \in Slug : pull'[s] \in Mount => pull'[s] \in {pull[s], mounts[s]}

LEMMA SteadyKeeps ==
  ASSUME TableInv, Steady, Pointing, up' = up,
         \A s \in Slug : pull'[s] \in Mount => pull'[s] = pull[s]
  PROVE  Assigned' /\ Owned'
<1>1. Owned'
  BY DEF Steady, Owned, Belongs
<1>2. \A s \in Slug : mounts'[s] # Nil => mount'[mounts'[s]] # Nil
  BY DEF Steady
<1>3. ASSUME NEW s \in Slug, pull'[s] \in Mount
      PROVE  mount'[pull'[s]] # Nil
  <2>1. pull'[s] = pull[s] /\ pull[s] \in Mount
    BY <1>3
  <2>2. mount[pull[s]] # Nil /\ pull[s] \notin Free
    BY <2>1, Taken DEF TableInv, Assigned
  <2> QED
    BY <2>1, <2>2 DEF Steady
<1>4. ASSUME NEW c \in Req, req'[c].at = "swap"
      PROVE  mount'[req'[c].m] # Nil
  <2>1. CASE req[c].at = "swap" /\ req'[c].m = req[c].m
    <3>1. req[c].m \in Mount
      BY <2>1, Carried DEF TableInv
    <3>2. mount[req[c].m] # Nil /\ req[c].m \notin Free
      BY <2>1, <3>1, Taken DEF TableInv, Assigned
    <3> QED
      BY <2>1, <3>1, <3>2 DEF Steady
  <2>2. CASE \E s \in Slug : mounts'[s] \in Mount /\ req'[c].m = mounts'[s]
    BY <1>2, <2>2, Constants
  <2> QED
    BY <1>4, <2>1, <2>2 DEF Pointing
<1> QED
  BY <1>1, <1>2, <1>3, <1>4 DEF Assigned

LEMMA RestKeeps ==
  ASSUME TableInv, Pointing, UNCHANGED <<mounts, mount, loose>>,
         up' = up \/ up' # "closed"
  PROVE  Assigned' /\ Owned'
<1>1. Owned'
  BY DEF TableInv, Owned, Belongs
<1>2. \A s \in Slug : mounts'[s] # Nil => mount'[mounts'[s]] # Nil
  BY DEF TableInv, Assigned
<1>3. ASSUME NEW s \in Slug, pull'[s] \in Mount
      PROVE  mount'[pull'[s]] # Nil
  BY <1>3, Constants DEF Pointing, TableInv, Assigned
<1>4. ASSUME NEW c \in Req, req'[c].at = "swap"
      PROVE  mount'[req'[c].m] # Nil
  BY <1>2, <1>4, Constants DEF Pointing, TableInv, Assigned
<1> QED
  BY <1>1, <1>2, <1>3, <1>4 DEF Assigned

\* A request that goes on to anything but a change of the model points nowhere.
LEMMA Elsewhere ==
  ASSUME MountsTypeOK, NEW c \in Req, NEW call \in Doing, Goto(c, call),
         call.at # "swap" \/ \E s \in Slug : mounts'[s] \in Mount /\ call.m = mounts'[s],
         \A s \in Slug : pull'[s] \in Mount => pull'[s] = pull[s]
  PROVE  Pointing
BY Went DEF Pointing

LEMMA CallTypes ==
  ASSUME MountsTypeOK, NEW c \in Req, Call(c)
  PROVE  calls' \in 0..MaxCall
BY Constants DEF MountsTypeOK, Call

LEMMA QuietTable ==
  ASSUME TableInv, NEW c \in Req,
         \/ \E r \in Repo : \/ \E s \in Slug : Create(c, r, s)
                            \/ Register(c, r) \/ BootMount(c, r)
         \/ ReadProject(c) \/ InsertRefused(c) \/ LoadRegistry(c)
         \/ SwapNothing(c)
  PROVE  TableInv'
<1>1. MountsTypeOK
  BY DEF TableInv
<1>2. /\ UNCHANGED <<mounts, mount, older, loose, disk, registry, mu, pull, up, ids,
                     served, recorded>>
      /\ contested' \in SUBSET Repo
  <2>1. LoadRegistry(c) => contested' \in SUBSET Repo
    BY <1>1, Carried DEF LoadRegistry, ContestSave, MountsTypeOK
  <2> QED
    BY <1>1, <2>1
    DEF MountsTypeOK, Create, Register, BootMount, ReadProject, InsertRefused,
        LoadRegistry, SwapNothing, shared, table, service, bound, history
<1>3. calls' \in 0..MaxCall /\ todo' \in SUBSET Repo
  BY <1>1, CallTypes
  DEF MountsTypeOK, Create, Register, BootMount, ReadProject, InsertRefused,
      LoadRegistry, SwapNothing, service, bound
<1>4. PICK call \in Doing : Goto(c, call) /\ call.at # "swap"
  <2>1. CASE \E r \in Repo, s \in Slug : Create(c, r, s)
    <3>1. PICK r \in Repo, s \in Slug : Create(c, r, s)
      BY <2>1
    <3>2. [at |-> "commit", repo |-> r, slug |-> s] \in Doing
      BY DEF Doing, Creating
    <3> QED
      BY <3>1, <3>2 DEF Create
  <2>2. CASE \E r \in Repo : Register(c, r) \/ BootMount(c, r)
    <3>1. PICK r \in Repo : Register(c, r) \/ BootMount(c, r)
      BY <2>2
    <3>2. [at |-> "read", repo |-> r] \in Doing
      BY DEF Doing, Registering
    <3> QED
      BY <3>1, <3>2 DEF Register, BootMount
  <2>3. NoCall \in Doing /\ NoCall.at # "swap"
    BY DEF Doing, NoCall
  <2>4. CASE ReadProject(c)
    <3>1. req[c].repo \in Repo
      BY <1>1, <2>4, Carried DEF ReadProject
    <3>2. CASE disk[req[c].repo] = Nil
      BY <2>3, <2>4, <3>2 DEF ReadProject, Stop
    <3>3. CASE disk[req[c].repo] # Nil
      <4>1. disk[req[c].repo] \in Project
        BY <1>1, <3>1, <3>3 DEF MountsTypeOK
      <4>2. [at |-> "insert", repo |-> req[c].repo, rec |-> disk[req[c].repo]] \in Doing
        BY <3>1, <4>1 DEF Doing, Registering
      <4> QED
        BY <2>4, <3>3, <4>2 DEF ReadProject
    <3> QED
      BY <3>2, <3>3
  <2>5. CASE InsertRefused(c) \/ SwapNothing(c)
    BY <2>3, <2>5 DEF InsertRefused, SwapNothing, Stop
  <2>6. CASE LoadRegistry(c)
    <3>1. req[c].repo \in Repo /\ req[c].add \in BOOLEAN /\ registry \in SUBSET Repo
      BY <1>1, <2>6, Carried DEF LoadRegistry, MountsTypeOK
    <3>2. [at |-> "save", repo |-> req[c].repo, add |-> req[c].add,
           paths |-> registry] \in Doing
      BY <3>1 DEF Doing, Registering
    <3> QED
      BY <2>6, <3>2 DEF LoadRegistry
  <2> QED
    BY <2>1, <2>2, <2>4, <2>5, <2>6
<1>5. req' \in [Req -> Doing]
  BY <1>1, <1>4, Went
<1>6. MountsTypeOK'
  BY <1>1, <1>2, <1>3, <1>5 DEF MountsTypeOK, Doing
<1>7. Pointing
  BY <1>1, <1>2, <1>4, Elsewhere
<1>8. Assigned' /\ Owned'
  BY <1>2, <1>7, RestKeeps
<1> QED
  BY <1>6, <1>8 DEF TableInv

LEMMA LookupTable ==
  ASSUME TableInv, NEW s \in Slug, Lookup(s)
  PROVE  TableInv'
<1>1. Steady
  BY ResolveSteady DEF Lookup
<1>2. Pointing /\ up' = up /\ \A x \in Slug : pull'[x] = pull[x]
  BY DEF Lookup, Pointing, service
<1>3. MountsTypeOK'
  BY <1>1 DEF Lookup, TableInv, MountsTypeOK, Steady, shared, service, bound
<1> QED
  BY <1>1, <1>2, <1>3, SteadyKeeps DEF TableInv

LEMMA CacheTable ==
  ASSUME TableInv, NEW s \in Slug, CacheResolve(s)
  PROVE  TableInv'
<1>1. older' \in SUBSET (Slug \X Slug)
  BY Pairs DEF CacheResolve, TableInv
<1>2. MountsTypeOK'
  BY <1>1 DEF CacheResolve, TableInv, MountsTypeOK, shared, service, bound, history
<1>3. Pointing /\ UNCHANGED <<mounts, mount, loose, up>>
  BY DEF CacheResolve, Pointing, service, history
<1> QED
  BY <1>2, <1>3, RestKeeps DEF TableInv

LEMMA CommitTable ==
  ASSUME TableInv, NEW c \in Req, CommitCreate(c)
  PROVE  TableInv'
<1>1. MountsTypeOK /\ req[c].repo \in Repo /\ req[c].slug \in Slug
  BY Carried DEF CommitCreate, TableInv
<1>2. UNCHANGED <<mounts, mount, older, loose, registry, mu, pull, up, todo, calls>>
  BY DEF CommitCreate, table, service
<1>3. [at |-> "read", repo |-> req[c].repo] \in Doing
  BY <1>1 DEF Doing, Registering
<1>4. req' \in [Req -> Doing] /\ Pointing
  BY <1>1, <1>2, <1>3, Went, Elsewhere DEF CommitCreate
<1>5. ids' \in 0..MaxId /\ ids + 1 \in 1..MaxId
  BY <1>1, Constants DEF CommitCreate, MountsTypeOK
<1>6. disk' \in [Repo -> Project \cup {Nil}]
  <2>1. [slug |-> req[c].slug, id |-> ids + 1] \in Project
    BY <1>1, <1>5 DEF Project
  <2> QED
    BY <1>1, <2>1 DEF CommitCreate, MountsTypeOK
<1>7. /\ served' \in SUBSET Repo /\ contested' \in SUBSET Repo
      /\ recorded' \in SUBSET Repo
  BY <1>1 DEF CommitCreate, MountsTypeOK
<1>8. MountsTypeOK'
  BY <1>1, <1>2, <1>4, <1>5, <1>6, <1>7 DEF MountsTypeOK, Doing
<1> QED
  BY <1>2, <1>4, <1>8, RestKeeps DEF TableInv

LEMMA InsertTable ==
  ASSUME TableInv, NEW c \in Req, Insert(c)
  PROVE  TableInv'
<1>1. Steady
  BY InsertSteady
<1>2. /\ MountsTypeOK /\ req[c].repo \in Repo
      /\ UNCHANGED <<disk, registry, up, todo, ids, calls, served, recorded>>
  BY Carried DEF Insert, TableInv, shared, service, bound
<1>3. [at |-> "load", repo |-> req[c].repo, add |-> TRUE] \in Doing
  BY <1>2 DEF Doing, Registering
<1>4. /\ pull' \in [Slug -> {"none", "pulling"} \cup Mount]
      /\ \A s \in Slug : pull'[s] \in Mount => pull'[s] = pull[s]
  <2>1. pull \in [Slug -> {"none", "pulling"} \cup Mount]
    BY <1>2 DEF MountsTypeOK
  <2>2. \/ pull' = pull \/ pull' = [pull EXCEPT ![req[c].rec.slug] = "pulling"]
    BY DEF Insert
  <2> QED
    BY <2>1, <2>2, Constants
<1>5. Goto(c, [at |-> "load", repo |-> req[c].repo, add |-> TRUE])
  BY DEF Insert
<1>6. req' \in [Req -> Doing] /\ Pointing
  BY <1>2, <1>3, <1>4, <1>5, Went, Elsewhere
<1>7. mu' \in Req \cup {Nil} /\ contested' \in SUBSET Repo
  BY <1>2 DEF Insert, MountsTypeOK
<1>8. MountsTypeOK'
  BY <1>1, <1>2, <1>4, <1>6, <1>7 DEF MountsTypeOK, Steady, Doing
<1> QED
  BY <1>1, <1>2, <1>4, <1>6, <1>8, SteadyKeeps DEF TableInv

LEMMA SaveTable ==
  ASSUME TableInv, NEW c \in Req, SaveRegistry(c)
  PROVE  TableInv'
<1>1. /\ MountsTypeOK /\ req[c].repo \in Repo /\ req[c].paths \in SUBSET Repo
  BY Carried DEF SaveRegistry, TableInv
<1>2. UNCHANGED <<disk, mounts, mount, older, loose, pull, up, todo, ids, calls>>
  BY DEF SaveRegistry, table, service, bound
<1>3. /\ registry' \in SUBSET Repo /\ served' \in SUBSET Repo
      /\ recorded' \in SUBSET Repo /\ contested' \in SUBSET Repo
      /\ mu' \in Req \cup {Nil}
  BY <1>1 DEF SaveRegistry, Serve, ContestSave, MountsTypeOK
<1>4. req' \in [Req -> Doing] /\ Pointing
  BY <1>1, <1>2, Stopped DEF SaveRegistry, Pointing
<1>5. MountsTypeOK'
  BY <1>1, <1>2, <1>3, <1>4 DEF MountsTypeOK, Doing
<1> QED
  BY <1>2, <1>4, <1>5, RestKeeps DEF TableInv

\* A registration, or the save of the registry, that fails.
LEMMA FailTable ==
  ASSUME TableInv, NEW c \in Req, RegisterFails(c) \/ SaveFails(c)
  PROVE  TableInv'
<1>1. MountsTypeOK /\ req[c].repo \in Repo
  BY Carried DEF RegisterFails, SaveFails, TableInv
<1>2. UNCHANGED <<disk, registry, mounts, mount, older, loose, pull, up, todo, ids,
                  calls, recorded, contested>> /\ Stop(c)
  BY DEF RegisterFails, SaveFails, shared, table, service, bound
<1>3. served' \in SUBSET Repo /\ mu' \in Req \cup {Nil}
  BY <1>1 DEF RegisterFails, SaveFails, Serve, MountsTypeOK
<1>4. req' \in [Req -> Doing] /\ Pointing
  BY <1>1, <1>2, Stopped DEF Pointing
<1>5. MountsTypeOK'
  BY <1>1, <1>2, <1>3, <1>4 DEF MountsTypeOK, Doing
<1> QED
  BY <1>2, <1>4, <1>5, RestKeeps DEF TableInv

LEMMA DeleteTable ==
  ASSUME TableInv, NEW c \in Req, NEW s \in Slug, Delete(c, s)
  PROVE  TableInv'
<1>1. /\ Steady /\ MountsTypeOK /\ mounts'[s] \in Mount /\ mount'[mounts'[s]] # Nil
  BY ResolveSteady DEF Delete, TableInv
<1>2. mount'[mounts'[s]].repo \in Repo
  BY <1>1, Kinds DEF Steady
<1>3. [at |-> "remove", repo |-> mount'[mounts'[s]].repo, slug |-> s] \in Doing
  BY <1>2 DEF Doing, Deleting
<1>4. UNCHANGED <<disk, registry, mu, pull, up, todo, ids, served, recorded, contested>>
  BY DEF Delete, shared, service
<1>5. req' \in [Req -> Doing] /\ Pointing
  BY <1>1, <1>3, <1>4, Went, Elsewhere DEF Delete
<1>6. MountsTypeOK'
  BY <1>1, <1>4, <1>5, CallTypes DEF Delete, MountsTypeOK, Steady, Doing
<1> QED
  BY <1>1, <1>4, <1>5, <1>6, SteadyKeeps DEF TableInv

LEMMA ReembedTable ==
  ASSUME TableInv, NEW c \in Req, NEW s \in Slug, Reembed(c, s)
  PROVE  TableInv'
<1>1. /\ Steady /\ MountsTypeOK /\ mounts'[s] \in Mount
  BY ResolveSteady DEF Reembed, TableInv
<1>2. [at |-> "swap", m |-> mounts'[s]] \in Doing
  BY <1>1 DEF Doing, Reembedding
<1>3. UNCHANGED <<disk, registry, mu, pull, up, todo, ids, served, recorded, contested>>
  BY DEF Reembed, shared, service
<1>4. Goto(c, [at |-> "swap", m |-> mounts'[s]])
  BY DEF Reembed
<1>5. req' \in [Req -> Doing] /\ Pointing
  BY <1>1, <1>2, <1>3, <1>4, Went, Elsewhere
<1>6. MountsTypeOK'
  BY <1>1, <1>3, <1>5, CallTypes DEF Reembed, MountsTypeOK, Steady, Doing
<1> QED
  BY <1>1, <1>3, <1>5, <1>6, SteadyKeeps DEF TableInv

LEMMA RemoveTable ==
  ASSUME TableInv, NEW c \in Req, RemoveFiles(c)
  PROVE  TableInv'
<1>1. /\ MountsTypeOK /\ req[c].repo \in Repo /\ req[c].slug \in Slug
      /\ req[c].at = "remove"
  BY Carried DEF RemoveFiles, TableInv
<1>2. UNCHANGED <<registry, mounts, mount, older, loose, mu, pull, up, todo, ids, calls>>
  BY DEF RemoveFiles, table, service, bound
<1>3. [req[c] EXCEPT !.at = "drop"] \in Doing /\ [req[c] EXCEPT !.at = "drop"].at = "drop"
  <2>1. req[c] \in Doing
    BY <1>1 DEF MountsTypeOK, Doing
  <2>2. req[c] \in Deleting
    BY <1>1, <2>1 DEF Doing, NoCall, Creating, Registering, Deleting, Reembedding
  <2> QED
    BY <2>2 DEF Deleting, Doing
<1>4. req' \in [Req -> Doing] /\ Pointing
  BY <1>1, <1>2, <1>3, Went, Elsewhere DEF RemoveFiles
<1>5. /\ disk' \in [Repo -> Project \cup {Nil}]
      /\ served' \in SUBSET Repo /\ contested' \in SUBSET Repo
      /\ recorded' \in SUBSET Repo
  BY <1>1 DEF RemoveFiles, MountsTypeOK
<1>6. MountsTypeOK'
  BY <1>1, <1>2, <1>4, <1>5 DEF MountsTypeOK, Doing
<1> QED
  BY <1>2, <1>4, <1>6, RestKeeps DEF TableInv

LEMMA DropTable ==
  ASSUME TableInv, NEW c \in Req, DropMount(c)
  PROVE  TableInv'
<1> DEFINE s == req[c].slug
           m0 == mounts[s]
<1>1. MountsTypeOK /\ s \in Slug /\ m0 \in Mount \cup {Nil}
  BY Carried DEF DropMount, TableInv, MountsTypeOK
<1>2. UNCHANGED <<disk, registry, mu, pull, up, todo, ids, calls, served, recorded, contested>>
  BY DEF DropMount, shared, service, bound
<1>3. CASE m0 = Nil
  <2>1. UNCHANGED <<mounts, mount, older, loose>> /\ Stop(c)
    BY <1>3 DEF DropMount, table
  <2>2. req' \in [Req -> Doing] /\ Pointing
    BY <1>1, <1>2, <2>1, Stopped DEF Pointing
  <2>3. MountsTypeOK'
    BY <1>1, <1>2, <2>1, <2>2 DEF MountsTypeOK, Doing
  <2> QED
    BY <1>2, <2>1, <2>2, <2>3, RestKeeps DEF TableInv
<1>4. CASE m0 # Nil
  <2>1. /\ mounts' = [mounts EXCEPT ![s] = Nil] /\ older' = Without(s)
        /\ loose' = [loose EXCEPT ![m0] = loose[m0] \cup {"deleted"}] /\ mount' = mount
        /\ Goto(c, [at |-> "load", repo |-> mount[m0].repo, add |-> FALSE])
    BY <1>4 DEF DropMount
  <2>2. m0 \in Mount /\ mount[m0].repo \in Repo
    BY <1>1, <1>4, Kinds DEF TableInv, Assigned, MountsTypeOK
  <2>3. [at |-> "load", repo |-> mount[m0].repo, add |-> FALSE] \in Doing
    BY <2>2 DEF Doing, Registering
  <2> HIDE DEF s, m0
  <2>4. req' \in [Req -> Doing] /\ Pointing
    BY <1>1, <1>2, <2>1, <2>3, Went, Elsewhere
  <2>5. /\ mounts' \in [Slug -> Mount \cup {Nil}] /\ mounts'[s] = Nil
        /\ \A x \in Slug \ {s} : mounts'[x] = mounts[x]
    BY <1>1, <2>1 DEF MountsTypeOK
  <2>6. MountsTypeOK'
    <3>1. loose' \in [Mount -> SUBSET Reason]
      BY <1>1, <2>1, <2>2 DEF MountsTypeOK, Reason
    <3> QED
      BY <1>1, <1>2, <2>1, <2>4, <2>5, <3>1, Pairs DEF MountsTypeOK, Doing
  <2>7. Assigned'
    <3>1. \A x \in Slug : mounts'[x] # Nil => mount'[mounts'[x]] # Nil
      BY <2>1, <2>5 DEF TableInv, Assigned
    <3>2. \A x \in Slug : pull'[x] \in Mount => mount'[pull'[x]] # Nil
      BY <1>2, <2>1 DEF TableInv, Assigned
    <3>3. \A d \in Req : req'[d].at = "swap" => mount'[req'[d].m] # Nil
      BY <2>1, <2>4, <3>1, Constants DEF Pointing, TableInv, Assigned
    <3> QED
      BY <3>1, <3>2, <3>3 DEF Assigned
  <2>8. \A m \in Mount : m # m0 =>
          ((\E x \in Slug : mounts[x] = m) => \E x \in Slug : mounts'[x] = m)
    <3>1. mounts[s] = m0
      BY DEF m0
    <3> QED
      BY <2>5, <3>1
  <2>9. Owned'
    <3>1. /\ "deleted" \in loose'[m0]
          /\ \A m \in Mount : loose[m] \subseteq loose'[m]
      BY <2>1, <2>2 DEF TableInv, MountsTypeOK
    <3>2. ASSUME NEW m \in Mount, mount[m] # Nil
          PROVE  /\ "deleted" \in loose'[m] \/ \E x \in Slug : mounts'[x] = m
                 /\ mount[m].worker =>
                      /\ mount[m].store \/ "evicted" \in loose'[m]
                      /\ up = "closed" => loose'[m] \cap {"deleted", "closed"} # {}
      <4>1. /\ "deleted" \in loose[m] \/ \E x \in Slug : mounts[x] = m
            /\ mount[m].worker =>
                 /\ mount[m].store \/ "evicted" \in loose[m]
                 /\ up = "closed" => loose[m] \cap {"deleted", "closed"} # {}
        BY <3>2 DEF TableInv, Owned, Belongs
      <4>2. "deleted" \in loose'[m] \/ \E x \in Slug : mounts'[x] = m
        BY <2>8, <3>1, <4>1
      <4>3. loose[m] \cap {"deleted", "closed"} # {} =>
              loose'[m] \cap {"deleted", "closed"} # {}
        BY <3>1
      <4> QED
        BY <3>1, <4>1, <4>2, <4>3
    <3> QED
      BY <1>2, <2>1, <3>2 DEF Owned, Belongs
  <2> QED
    BY <2>6, <2>7, <2>9 DEF TableInv
<1> QED
  BY <1>3, <1>4

\* A worker started in a mount that is there: owned, or noted.
LEMMA Rebuilt ==
  ASSUME TableInv, NEW m0 \in Mount, mount[m0] # Nil, Rebuild(m0),
         mounts' = mounts, up' = up
  PROVE  /\ mount' \in [Mount -> Held \cup {Nil}] /\ loose' \in [Mount -> SUBSET Reason]
         /\ \A m \in Mount : mount[m] # Nil =>
              mount'[m] # Nil /\ mount'[m].repo = mount[m].repo /\ mount'[m].id = mount[m].id
         /\ Owned'
<1>1. /\ mount \in [Mount -> Held \cup {Nil}] /\ loose \in [Mount -> SUBSET Reason]
      /\ mount[m0] \in Held
  BY DEF TableInv, MountsTypeOK
<1>2. mount' = [mount EXCEPT ![m0] = [mount[m0] EXCEPT !.worker = TRUE]]
  BY <1>1 DEF Rebuild
<1>3. /\ loose' \in [Mount -> SUBSET Reason]
      /\ \A m \in Mount : loose[m] \subseteq loose'[m]
      /\ up = "closed" => "closed" \in loose'[m0]
      /\ ~ mount[m0].store => "evicted" \in loose'[m0]
  <2>1. loose' = [loose EXCEPT ![m0] = loose[m0] \cup Late \cup
                                         (IF mount[m0].store THEN {} ELSE {"evicted"})]
    BY DEF Rebuild
  <2>2. Late \in SUBSET Reason /\ (up = "closed" => "closed" \in Late)
    BY DEF Late, Reason
  <2>3. loose' \in [Mount -> SUBSET Reason]
    BY <1>1, <2>1, <2>2 DEF Reason
  <2>4. loose'[m0] = loose[m0] \cup Late \cup
                       (IF mount[m0].store THEN {} ELSE {"evicted"})
    BY <1>1, <2>1
  <2>5. \A m \in Mount \ {m0} : loose'[m] = loose[m]
    BY <1>1, <2>1
  <2> QED
    BY <2>2, <2>3, <2>4, <2>5
<1>4. /\ mount'[m0] \in Held
      /\ mount'[m0].repo = mount[m0].repo /\ mount'[m0].id = mount[m0].id
      /\ mount'[m0].store = mount[m0].store
  BY <1>1, <1>2 DEF Held
<1>5. mount'[m0] # Nil
  BY <1>4, Absence
<1>6. \A m \in Mount \ {m0} : mount'[m] = mount[m]
  BY <1>1, <1>2
<1>7. mount' \in [Mount -> Held \cup {Nil}]
  <2>1. mount' = [mount EXCEPT ![m0] = mount'[m0]]
    BY <1>1, <1>2
  <2> QED
    BY <1>1, <1>4, <2>1
<1>8. ASSUME NEW m \in Mount, mount'[m] # Nil
      PROVE  /\ "deleted" \in loose'[m] \/ \E x \in Slug : mounts[x] = m
             /\ mount'[m].worker =>
                  /\ mount'[m].store \/ "evicted" \in loose'[m]
                  /\ up = "closed" => loose'[m] \cap {"deleted", "closed"} # {}
  <2>1. mount[m] # Nil
    BY <1>6, <1>8
  <2>2. /\ "deleted" \in loose[m] \/ \E x \in Slug : mounts[x] = m
        /\ mount[m].worker =>
             /\ mount[m].store \/ "evicted" \in loose[m]
             /\ up = "closed" => loose[m] \cap {"deleted", "closed"} # {}
    BY <2>1 DEF TableInv, Owned, Belongs
  <2>3. /\ "deleted" \in loose'[m] \/ \E x \in Slug : mounts[x] = m
        /\ loose[m] \cap {"deleted", "closed"} # {} =>
             loose'[m] \cap {"deleted", "closed"} # {}
    BY <1>3, <2>2
  <2>4. CASE m = m0
    <3>1. mount'[m].store \/ "evicted" \in loose'[m]
      BY <1>3, <1>4, <2>4
    <3>2. up = "closed" => loose'[m] \cap {"deleted", "closed"} # {}
      BY <1>3, <2>4
    <3> QED
      BY <2>3, <3>1, <3>2
  <2>5. CASE m # m0
    <3>1. mount'[m] = mount[m]
      BY <1>6, <2>5
    <3>2. "evicted" \in loose[m] => "evicted" \in loose'[m]
      BY <1>3
    <3> QED
      BY <2>2, <2>3, <3>1, <3>2
  <2> QED
    BY <2>4, <2>5
<1>9. Owned'
  BY <1>8 DEF Owned, Belongs
<1> QED
  BY <1>3, <1>4, <1>5, <1>6, <1>7, <1>9

LEMMA SwapTable ==
  ASSUME TableInv, NEW c \in Req, Swap(c)
  PROVE  TableInv'
<1>1. MountsTypeOK /\ req[c].m \in Mount /\ mount[req[c].m] # Nil
  BY Carried DEF Swap, TableInv, Assigned
<1>2. UNCHANGED <<disk, registry, mounts, older, mu, pull, up, todo, ids, calls,
                  served, recorded, contested>> /\ Rebuild(req[c].m)
  BY DEF Swap, shared, service, bound
<1>3. /\ mount' \in [Mount -> Held \cup {Nil}] /\ loose' \in [Mount -> SUBSET Reason]
      /\ \A m \in Mount : mount[m] # Nil => mount'[m] # Nil
      /\ Owned'
  BY <1>1, <1>2, Rebuilt
<1>4. req' \in [Req -> Doing] /\ Pointing
  BY <1>1, <1>2, Stopped DEF Swap, Pointing
<1>5. MountsTypeOK'
  BY <1>1, <1>2, <1>3, <1>4 DEF MountsTypeOK, Doing
<1>6. Assigned'
  <2>1. /\ \A s \in Slug : mounts'[s] # Nil => mount'[mounts'[s]] # Nil
        /\ \A s \in Slug : pull'[s] \in Mount => mount'[pull'[s]] # Nil
    BY <1>1, <1>2, <1>3 DEF TableInv, Assigned, MountsTypeOK
  <2>2. ASSUME NEW d \in Req, req'[d].at = "swap" PROVE mount'[req'[d].m] # Nil
    <3>1. req[d].at = "swap" /\ req'[d].m = req[d].m
      BY <1>1, <2>2, Stopped DEF Swap
    <3>2. req[d].m \in Mount /\ mount[req[d].m] # Nil
      BY <1>1, <3>1, Carried DEF TableInv, Assigned
    <3> QED
      BY <1>3, <3>1, <3>2
  <2> QED
    BY <2>1, <2>2 DEF Assigned
<1> QED
  BY <1>3, <1>5, <1>6 DEF TableInv

LEMMA PullEndsTable ==
  ASSUME TableInv, NEW s \in Slug, PullEnds(s)
  PROVE  TableInv'
<1>1. UNCHANGED <<disk, registry, mounts, mount, older, mu, req, up, todo, ids, calls,
                  served, recorded, contested, loose>> /\ MountsTypeOK
  BY DEF PullEnds, shared, table, service, bound, history, TableInv
<1>2. /\ pull' \in [Slug -> {"none", "pulling"} \cup Mount]
      /\ \A x \in Slug : pull'[x] \in Mount => pull'[x] \in {pull[x], mounts[x]}
  <2>1. /\ pull \in [Slug -> {"none", "pulling"} \cup Mount]
        /\ mounts[s] \in Mount \cup {Nil}
    BY <1>1 DEF MountsTypeOK
  <2>2. \/ pull' = [pull EXCEPT ![s] = "none"]
        \/ pull' = [pull EXCEPT ![s] = mounts[s]] /\ mounts[s] # Nil
    BY DEF PullEnds
  <2> QED
    BY <2>1, <2>2, Constants
<1>3. MountsTypeOK' /\ Pointing
  BY <1>1, <1>2 DEF MountsTypeOK, Pointing
<1> QED
  BY <1>1, <1>3, RestKeeps DEF TableInv

LEMMA PullSwapsTable ==
  ASSUME TableInv, NEW s \in Slug, PullSwaps(s)
  PROVE  TableInv'
<1>1. UNCHANGED <<disk, registry, mounts, older, mu, req, up, todo, ids, calls,
                  served, recorded, contested>> /\ MountsTypeOK
  BY DEF PullSwaps, shared, service, bound, TableInv
<1>2. /\ pull' \in [Slug -> {"none", "pulling"} \cup Mount]
      /\ \A x \in Slug : pull'[x] \in Mount => pull'[x] = pull[x]
  BY <1>1, Constants DEF PullSwaps, MountsTypeOK
<1>3. Pointing
  BY <1>1, <1>2 DEF Pointing
<1>4. CASE UNCHANGED <<mount, loose>>
  <2>1. MountsTypeOK'
    BY <1>1, <1>2, <1>4 DEF MountsTypeOK
  <2> QED
    BY <1>1, <1>3, <1>4, <2>1, RestKeeps DEF TableInv
<1>5. CASE Rebuild(pull[s])
  <2>1. pull[s] \in Mount /\ mount[pull[s]] # Nil
    BY DEF PullSwaps, TableInv, Assigned
  <2>2. /\ mount' \in [Mount -> Held \cup {Nil}] /\ loose' \in [Mount -> SUBSET Reason]
        /\ \A m \in Mount : mount[m] # Nil => mount'[m] # Nil
        /\ Owned'
    BY <1>1, <1>5, <2>1, Rebuilt
  <2>3. MountsTypeOK'
    BY <1>1, <1>2, <2>2 DEF MountsTypeOK
  <2>4. Assigned'
    <3>1. \A x \in Slug : mounts'[x] # Nil => mount'[mounts'[x]] # Nil
      BY <1>1, <2>2 DEF TableInv, Assigned, MountsTypeOK
    <3>2. \A x \in Slug : pull'[x] \in Mount => mount'[pull'[x]] # Nil
      BY <1>2, <2>2 DEF TableInv, Assigned
    <3>3. ASSUME NEW d \in Req, req'[d].at = "swap" PROVE mount'[req'[d].m] # Nil
      <4>1. req[d].at = "swap" /\ req'[d].m = req[d].m
        BY <1>1, <3>3
      <4>2. req[d].m \in Mount /\ mount[req[d].m] # Nil
        BY <1>1, <4>1, Carried DEF TableInv, Assigned
      <4> QED
        BY <2>2, <4>1, <4>2
    <3> QED
      BY <3>1, <3>2, <3>3 DEF Assigned
  <2> QED
    BY <2>2, <2>3, <2>4 DEF TableInv
<1> QED
  BY <1>4, <1>5 DEF PullSwaps

LEMMA StopTable ==
  ASSUME TableInv, StopWorkers
  PROVE  TableInv'
<1>1. UNCHANGED <<disk, registry, mounts, older, mu, req, pull, todo, ids, calls,
                  served, recorded, contested, loose>> /\ MountsTypeOK /\ up' = "closed"
  BY DEF StopWorkers, shared, bound, history, TableInv
<1> DEFINE known == {mounts[s] : s \in Slug}
<1>2. mount' = [m \in Mount |-> IF m \in known THEN [mount[m] EXCEPT !.worker = FALSE]
                                ELSE mount[m]]
  BY DEF StopWorkers
<1>3. \A m \in Mount : m \in known => mount[m] \in Held /\ mount[m] # Nil
  BY <1>1, Constants DEF TableInv, Assigned, MountsTypeOK
<1> HIDE DEF known
<1>4. ASSUME NEW m \in Mount
      PROVE  /\ mount'[m] \in Held \cup {Nil}
             /\ mount[m] # Nil <=> mount'[m] # Nil
             /\ mount'[m] # Nil => mount'[m].store = mount[m].store
                  /\ (mount'[m].worker => mount[m].worker)
  <2>1. CASE m \in known
    <3>1. mount'[m] = [mount[m] EXCEPT !.worker = FALSE] /\ mount[m] \in Held
      BY <1>2, <1>3, <2>1
    <3>2. mount'[m] \in Held /\ mount'[m].store = mount[m].store /\ ~ mount'[m].worker
      BY <3>1 DEF Held
    <3> QED
      BY <1>3, <2>1, <3>2, Absence
  <2>2. CASE m \notin known
    BY <1>1, <1>2, <2>2 DEF MountsTypeOK
  <2> QED
    BY <2>1, <2>2
<1>5. mount' \in [Mount -> Held \cup {Nil}]
  BY <1>2, <1>4
<1>6. MountsTypeOK'
  BY <1>1, <1>5 DEF MountsTypeOK
<1>7. Owned'
  <2>1. \A m \in Mount : (\E x \in Slug : mounts[x] = m) /\ mount'[m] # Nil =>
          ~ mount'[m].worker
    <3>1. ASSUME NEW m \in Mount, NEW x \in Slug, mounts[x] = m
          PROVE  ~ mount'[m].worker
      <4>1. m \in known
        BY <3>1 DEF known
      <4>2. mount'[m] = [mount[m] EXCEPT !.worker = FALSE] /\ mount[m] \in Held
        BY <1>2, <1>3, <4>1
      <4> QED
        BY <4>2 DEF Held
    <3> QED
      BY <3>1
  <2>2. ASSUME NEW m \in Mount, mount'[m] # Nil
        PROVE  /\ "deleted" \in loose[m] \/ \E x \in Slug : mounts[x] = m
               /\ mount'[m].worker =>
                    /\ mount'[m].store \/ "evicted" \in loose[m]
                    /\ loose[m] \cap {"deleted", "closed"} # {}
    <3>1. /\ "deleted" \in loose[m] \/ \E x \in Slug : mounts[x] = m
          /\ mount[m].worker => mount[m].store \/ "evicted" \in loose[m]
      BY <1>4, <2>2 DEF TableInv, Owned, Belongs
    <3> QED
      BY <1>4, <2>1, <2>2, <3>1
  <2> QED
    BY <1>1, <2>2 DEF Owned, Belongs
<1>8. Assigned'
  <2>1. \A d \in Req : req[d].at = "swap" => req[d].m \in Mount
    BY <1>1, Carried
  <2> QED
    BY <1>1, <1>4, <2>1 DEF TableInv, Assigned, MountsTypeOK
<1> QED
  BY <1>6, <1>7, <1>8 DEF TableInv

LEMMA IdleCall == NoCall \in Doing /\ NoCall.at = "idle"
BY DEF NoCall, Doing

LEMMA RestartTable ==
  ASSUME TableInv, Restart
  PROVE  TableInv'
<1>1. MountsTypeOK /\ UNCHANGED <<disk, registry, ids, recorded, contested>>
  BY DEF Restart, TableInv, shared
<1>2. calls' \in 0..MaxCall /\ todo' \in SUBSET Repo /\ served' \in SUBSET Repo
  BY <1>1, Constants DEF Restart, MountsTypeOK
<1>3. /\ mounts' = [s \in Slug |-> Nil] /\ mount' = [m \in Mount |-> Nil]
      /\ older' = {} /\ mu' = Nil /\ req' = [c \in Req |-> NoCall]
      /\ pull' = [s \in Slug |-> "none"] /\ up' = "boot"
      /\ loose' = [m \in Mount |-> {}]
  BY DEF Restart, Unmount
<1>4. MountsTypeOK'
  BY <1>1, <1>2, <1>3 DEF MountsTypeOK
<1>5. Assigned' /\ Owned'
  BY <1>3, Constants, IdleCall DEF Assigned, Owned, Belongs
<1> QED
  BY <1>4, <1>5 DEF TableInv

LEMMA LifeTable ==
  ASSUME TableInv, Close \/ Booted
  PROVE  TableInv'
<1>1. /\ UNCHANGED <<disk, registry, mounts, mount, older, mu, req, pull, todo, ids,
                     calls, served, recorded, contested, loose>>
      /\ MountsTypeOK /\ up' \in {"up", "closing"}
  BY DEF Close, Booted, shared, table, bound, history, TableInv
<1>2. MountsTypeOK' /\ Pointing
  BY <1>1 DEF MountsTypeOK, Pointing
<1> QED
  BY <1>1, <1>2, RestKeeps DEF TableInv

LEMMA StillTable ==
  ASSUME TableInv, UNCHANGED mountsVars
  PROVE  TableInv'
BY DEF mountsVars, TableInv, MountsTypeOK, Assigned, Owned, Belongs

LEMMA TableStep ==
  ASSUME TableInv, [MountsNext]_mountsVars
  PROVE  TableInv'
<1>1. CASE UNCHANGED mountsVars
  BY <1>1, StillTable
<1>2. CASE \E s \in Slug : Lookup(s) \/ CacheResolve(s) \/ PullEnds(s) \/ PullSwaps(s)
  BY <1>2, LookupTable, CacheTable, PullEndsTable, PullSwapsTable
<1>3. CASE Close \/ StopWorkers \/ Restart \/ Booted
  BY <1>3, LifeTable, StopTable, RestartTable
<1>4. CASE \E c \in Req, s \in Slug : Delete(c, s) \/ Reembed(c, s)
  BY <1>4, DeleteTable, ReembedTable
<1>5. CASE \E c \in Req : \/ CommitCreate(c) \/ Insert(c) \/ SaveRegistry(c)
                          \/ RemoveFiles(c) \/ DropMount(c) \/ Swap(c)
                          \/ RegisterFails(c) \/ SaveFails(c)
  BY <1>5, CommitTable, InsertTable, SaveTable, RemoveTable, DropTable, SwapTable, FailTable
<1>6. CASE \E c \in Req :
             \/ \E r \in Repo : \/ \E s \in Slug : Create(c, r, s)
                                \/ Register(c, r) \/ BootMount(c, r)
             \/ ReadProject(c) \/ InsertRefused(c) \/ LoadRegistry(c)
             \/ SwapNothing(c)
  BY <1>6, QuietTable
<1> QED
  BY <1>1, <1>2, <1>3, <1>4, <1>5, <1>6 DEF MountsNext

LEMMA TableStart == MountsInit => TableInv
<1> SUFFICES ASSUME MountsInit PROVE TableInv
  OBVIOUS
<1>1. /\ mounts = [s \in Slug |-> Nil] /\ mount = [m \in Mount |-> Nil]
      /\ req = [c \in Req |-> NoCall] /\ pull = [s \in Slug |-> "none"]
  BY DEF MountsInit
<1>2. MountsTypeOK
  BY Constants DEF MountsInit, MountsTypeOK
<1>3. Assigned /\ Owned
  BY <1>1, Constants, IdleCall DEF MountsInit, Assigned, Owned, Belongs
<1> QED
  BY <1>2, <1>3 DEF TableInv

\* Whatever the number of projects, of requests and of mounts: what the
\* service holds is of its kind, and every pointer to a mount is to one in use.
THEOREM MountsTypes == MountsSpec => []MountsTypeOK
<1>1. TableInv => MountsTypeOK
  BY DEF TableInv
<1> QED
  BY <1>1, TableStart, TableStep, PTL DEF MountsSpec

\* A worker that runs has a store, but in a mount rebuilt while it was evicted,
\* and belongs to a mount of the table, but when the project was deleted; and
\* after Close only those run, and what was started later.
THEOREM EveryWorkerOwned == MountsSpec => []WorkersOwned
<1>1. TableInv => WorkersOwned
  BY DEF TableInv, Owned, Belongs, WorkersOwned
<1> QED
  BY <1>1, TableStart, TableStep, PTL DEF MountsSpec

-----------------------------------------------------------------------------
(* The order of use is a strict order of the mounted slugs: with it, those *)
(* an eviction leaves resident are no more than Limit.                     *)

Here == {s \in Slug : mounts[s] # Nil}
Ordered == older \subseteq Here \X Here /\ StrictOrder(Here, older)

\* The resident slugs, but for those of the default store.
Counting == {s \in Resident(mounts, mount) : mount[mounts[s]].repo # Default}

BoundInv == TableInv /\ Ordered /\ ResidentBound

LEMMA TouchOrdered ==
  ASSUME Ordered, NEW s \in Slug, older' = Touch(s), mounts'[s] # Nil,
         \A x \in Slug \ {s} : mounts'[x] # Nil <=> mounts[x] # Nil
  PROVE  Ordered'
<1> USE DEF StrictOrder
<1>1. s \in Here' /\ \A x \in Slug \ {s} : x \in Here' <=> x \in Here
  BY DEF Here
<1>2. \A x, y : <<x, y>> \in older' <=>
                  \/ <<x, y>> \in older /\ x # s /\ y # s
                  \/ y = s /\ x \in Here /\ x # s
  <2>1. \A p : p \in Without(s) <=> p \in older /\ s # p[1] /\ s # p[2]
    BY DEF Without
  <2>2. \A x, y : <<x, y>> \in {<<z, s>> : z \in {w \in Slug \ {s} : mounts[w] # Nil}}
                    <=> y = s /\ x \in Here /\ x # s
    BY DEF Here
  <2> QED
    BY <2>1, <2>2 DEF Touch
<1>3. older' \subseteq Here' \X Here'
  <2>1. SUFFICES ASSUME NEW p \in older' PROVE p \in Here' \X Here'
    OBVIOUS
  <2>2. CASE p \in Without(s)
    <3>1. p \in Here \X Here /\ s # p[1] /\ s # p[2]
      BY <2>2 DEF Without, Ordered
    <3>2. p[1] \in Here' /\ p[2] \in Here' /\ p = <<p[1], p[2]>>
      BY <1>1, <3>1 DEF Here
    <3> QED
      BY <3>2
  <2>3. CASE p \in {<<x, s>> : x \in {y \in Slug \ {s} : mounts[y] # Nil}}
    BY <1>1, <2>3 DEF Here
  <2> QED
    BY <2>2, <2>3 DEF Touch
<1>4. \A x \in Here' : x \in Slug /\ (x # s => x \in Here)
  BY <1>1 DEF Here
<1>5. \A x \in Here' : <<x, x>> \notin older'
  BY <1>2, <1>4 DEF Ordered
<1>6. \A x, y, z \in Here' :
        <<x, y>> \in older' /\ <<y, z>> \in older' => <<x, z>> \in older'
  BY <1>2, <1>4 DEF Ordered
<1>7. \A x, y \in Here' : x # y => <<x, y>> \in older' \/ <<y, x>> \in older'
  BY <1>2, <1>4 DEF Ordered
<1> QED
  BY <1>3, <1>5, <1>6, <1>7 DEF Ordered

LEMMA DropOrdered ==
  ASSUME Ordered, NEW s \in Slug, older' = Without(s), mounts'[s] = Nil,
         \A x \in Slug \ {s} : mounts'[x] = mounts[x]
  PROVE  Ordered'
<1> USE DEF StrictOrder
<1>1. \A x : x \in Here' <=> x \in Here /\ x # s
  BY DEF Here
<1>2. \A x, y : <<x, y>> \in older' <=> <<x, y>> \in older /\ x # s /\ y # s
  BY DEF Without
<1>3. older' \subseteq Here' \X Here'
  <2>1. SUFFICES ASSUME NEW p \in older' PROVE p \in Here' \X Here'
    OBVIOUS
  <2>2. p \in Here \X Here /\ s # p[1] /\ s # p[2]
    BY DEF Without, Ordered
  <2> QED
    BY <1>1, <2>2
<1> QED
  BY <1>1, <1>2, <1>3 DEF Ordered

\* Never more than before: within the bound.
LEMMA Fewer ==
  ASSUME ResidentBound, Counting' \subseteq Counting
  PROVE  ResidentBound'
<1>1. IsFiniteSet(Counting)
  BY Constants, FS_Subset DEF Counting, Resident
<1>2. /\ IsFiniteSet(Counting') /\ Cardinality(Counting') <= Cardinality(Counting)
      /\ Cardinality(Counting) \in Nat /\ Cardinality(Counting') \in Nat
  BY <1>1, FS_Subset, FS_CardinalityType
<1>3. Cardinality(Counting) <= Limit
  BY DEF ResidentBound, Counting
<1>4. Cardinality(Counting') <= Limit
  BY <1>2, <1>3, Constants
<1> QED
  BY <1>4 DEF ResidentBound, Counting

\* Few residents of any repository are few of the others'.
LEMMA Within ==
  ASSUME IsFiniteSet(Resident(mounts', mount')),
         Cardinality(Resident(mounts', mount')) <= Limit
  PROVE  ResidentBound'
<1>1. Counting' \subseteq Resident(mounts', mount')
  BY DEF Counting, Resident
<1>2. /\ Cardinality(Counting') <= Cardinality(Resident(mounts', mount'))
      /\ IsFiniteSet(Counting')
  BY <1>1, FS_Subset
<1>3. Cardinality(Counting') \in Nat /\ Cardinality(Resident(mounts', mount')) \in Nat
  BY <1>2, FS_CardinalityType
<1>4. Cardinality(Counting') <= Limit
  BY <1>2, <1>3, Constants
<1> QED
  BY <1>4 DEF ResidentBound, Counting

LEMMA EvictionBounds ==
  ASSUME NEW table1 \in [Slug -> Mount \cup {Nil}],
         NEW held \in [Mount -> Held \cup {Nil}],
         NEW order, NEW keep \in Slug,
         \A x \in Slug : table1[x] # Nil => held[table1[x]] # Nil,
         table1[keep] # Nil, held[table1[keep]].store,
         StrictOrder({x \in Slug : table1[x] # Nil}, order),
         NEW after, after = Evicted(table1, held, order, keep)
  PROVE  IsFiniteSet(Resident(table1, after))
         /\ Cardinality(Resident(table1, after)) <= Limit
<1> DEFINE S == Resident(table1, held)
           B == [s \in S |-> {x \in S \ {keep} : <<x, s>> \in order}]
           victims == Victims(table1, held, order, keep)
           gone == {table1[s] : s \in Victims(table1, held, order, keep)}
<1>1. /\ victims \in SUBSET S
      /\ \A s \in S : s \in victims <=>
           s # keep /\ Limit + Cardinality(B[s]) < Cardinality(S)
  BY DEF Victims
<1>2. IsFiniteSet(S) /\ S \subseteq Slug /\ \A s \in S : table1[s] # Nil
  BY Constants, FS_Subset DEF Resident
<1>3. keep \in S
  BY DEF Resident
<1>4. StrictOrder(S, order)
  BY <1>2 DEF StrictOrder
<1>5. IsFiniteSet(S \ victims) /\ Cardinality(S \ victims) <= Limit
  <2>1. FirstOut(S, order, keep, Limit, B, victims)
    BY <1>1 DEF FirstOut
  <2>2. Limit \in Nat \ {0}
    BY Constants
  <2> HIDE DEF S, B, victims
  <2> QED
    BY <1>2, <1>3, <1>4, <2>1, <2>2, FewLeft
<1>6. after = [m \in Mount |->
                 IF m \in gone THEN [held[m] EXCEPT !.store = FALSE, !.worker = FALSE]
                 ELSE held[m]]
  BY DEF Evicted
<1> HIDE DEF victims
<1>7. Resident(table1, after) \subseteq S \ victims
  <2>1. SUFFICES ASSUME NEW s \in Resident(table1, after) PROVE s \in S \ victims
    OBVIOUS
  <2>2. s \in Slug /\ table1[s] \in Mount /\ table1[s] # Nil /\ after[table1[s]].store
    BY DEF Resident
  <2>3. CASE table1[s] \in gone
    <3>1. held[table1[s]] \in Held
      BY <2>2
    <3>2. after[table1[s]] = [held[table1[s]] EXCEPT !.store = FALSE, !.worker = FALSE]
      BY <1>6, <2>2, <2>3
    <3>3. ~ after[table1[s]].store
      BY <3>1, <3>2 DEF Held
    <3> QED
      BY <2>2, <3>3
  <2>4. CASE table1[s] \notin gone
    <3>1. after[table1[s]] = held[table1[s]]
      BY <1>6, <2>2, <2>4
    <3>2. s \notin victims
      BY <2>4 DEF victims
    <3> QED
      BY <2>2, <3>1, <3>2 DEF Resident
  <2> QED
    BY <2>3, <2>4
<1>8. /\ IsFiniteSet(Resident(table1, after))
      /\ Cardinality(Resident(table1, after)) <= Cardinality(S \ victims)
  BY <1>5, <1>7, FS_Subset
<1>9. Cardinality(Resident(table1, after)) \in Nat /\ Cardinality(S \ victims) \in Nat
  BY <1>5, <1>8, FS_CardinalityType
<1> QED
  BY <1>5, <1>8, <1>9, Constants

LEMMA UseBound ==
  ASSUME BoundInv, NEW s \in Slug, mounts[s] # Nil, UseMount(s)
  PROVE  Ordered' /\ ResidentBound'
<1> DEFINE m0 == mounts[s]
           held == [mount EXCEPT ![m0].store = TRUE,
                                 ![m0].worker = mount[m0].worker \/ ~ mount[m0].store]
<1>1. /\ mounts' = mounts /\ older' = Touch(s)
      /\ mount' = Evicted(mounts, held, older', s)
  BY DEF UseMount
<1>2. Ordered'
  BY <1>1, TouchOrdered DEF BoundInv
<1>3. /\ m0 \in Mount /\ mount \in [Mount -> Held \cup {Nil}]
      /\ mounts \in [Slug -> Mount \cup {Nil}] /\ mount[m0] \in Held
  BY DEF BoundInv, TableInv, MountsTypeOK, Assigned
<1>4. /\ held[m0] \in Held /\ held[m0] # Nil /\ held[m0].store
      /\ \A m \in Mount \ {m0} : held[m] = mount[m]
      /\ held = [mount EXCEPT ![m0] = held[m0]]
  <2>1. held[m0] = [mount[m0] EXCEPT !.store = TRUE,
                                     !.worker = mount[m0].worker \/ ~ mount[m0].store]
    BY <1>3
  <2>2. held[m0] \in Held /\ held[m0].store = TRUE
    <3>1. (mount[m0].worker \/ ~ mount[m0].store) \in BOOLEAN
      OBVIOUS
    <3> QED
      BY <1>3, <2>1, <3>1 DEF Held
  <2>3. held = [mount EXCEPT ![m0] = held[m0]]
    BY <1>3, <2>1
  <2>4. \A m \in Mount \ {m0} : held[m] = mount[m]
    BY <1>3
  <2> QED
    BY <2>2, <2>3, <2>4, Absence
<1> HIDE DEF held, m0
<1>5. held \in [Mount -> Held \cup {Nil}]
  BY <1>3, <1>4
<1>6. \A x \in Slug : mounts[x] # Nil => held[mounts[x]] # Nil
  BY <1>3, <1>4 DEF BoundInv, TableInv, Assigned
<1>7. StrictOrder({x \in Slug : mounts[x] # Nil}, older')
  BY <1>1, <1>2 DEF Ordered, Here
<1>8. mounts[s] # Nil /\ held[mounts[s]].store
  BY <1>4 DEF m0
<1>9. /\ IsFiniteSet(Resident(mounts, mount'))
      /\ Cardinality(Resident(mounts, mount')) <= Limit
  BY <1>1, <1>3, <1>5, <1>6, <1>7, <1>8, EvictionBounds
<1> QED
  BY <1>1, <1>2, <1>9, Within

LEMMA OpenBound ==
  ASSUME BoundInv, NEW s \in Slug, mounts[s] = Nil, NEW m0 \in Free,
         NEW r \in Repo, NEW id \in 1..MaxId,
         mounts' = [mounts EXCEPT ![s] = m0], older' = Touch(s),
         \/ mount' = [mount EXCEPT ![m0] = Opened(r, id)] /\ r = Default
         \/ mount' = Evicted([mounts EXCEPT ![s] = m0],
                             [mount EXCEPT ![m0] = Opened(r, id)], Touch(s), s)
  PROVE  Ordered' /\ ResidentBound'
<1> DEFINE table1 == [mounts EXCEPT ![s] = m0]
           held == [mount EXCEPT ![m0] = Opened(r, id)]
<1>1. /\ mounts' = table1
      /\ \/ mount' = held /\ r = Default
         \/ mount' = Evicted(table1, held, older', s)
  OBVIOUS
<1>2. /\ m0 \in Mount /\ m0 # Nil /\ mount \in [Mount -> Held \cup {Nil}]
      /\ mounts \in [Slug -> Mount \cup {Nil}]
      /\ \A x \in Slug : mounts[x] # m0
  BY Constants DEF BoundInv, TableInv, MountsTypeOK, Free
<1>3. /\ held \in [Mount -> Held \cup {Nil}]
      /\ \A m \in Mount \ {m0} : held[m] = mount[m]
      /\ held[m0] # Nil /\ held[m0].repo = r /\ held[m0].store
  <2>1. Opened(r, id) \in Held
    BY DEF Opened, Held
  <2>2. Opened(r, id).repo = r /\ Opened(r, id).store /\ Opened(r, id) # Nil
    BY <2>1, Absence DEF Opened
  <2> QED
    BY <1>2, <2>1, <2>2
<1>4. /\ table1 \in [Slug -> Mount \cup {Nil}] /\ table1[s] = m0
      /\ \A x \in Slug \ {s} : table1[x] = mounts[x]
  BY <1>2
<1> HIDE DEF table1, held
<1>5. Ordered'
  BY <1>1, <1>2, <1>4, TouchOrdered DEF BoundInv
<1>6. CASE mount' = held /\ r = Default
  <2>1. Counting' \subseteq Counting
    <3>1. SUFFICES ASSUME NEW x \in Counting' PROVE x \in Counting
      OBVIOUS
    <3>2. /\ x \in Slug /\ table1[x] # Nil /\ held[table1[x]].store
          /\ held[table1[x]].repo # Default
      BY <1>1, <1>6 DEF Counting, Resident
    <3>3. x # s
      BY <1>3, <1>4, <1>6, <3>2
    <3>4. mounts[x] \in Mount \ {m0} /\ table1[x] = mounts[x]
      BY <1>2, <1>4, <3>2, <3>3
    <3>5. held[mounts[x]] = mount[mounts[x]]
      BY <1>3, <3>4
    <3> QED
      BY <3>2, <3>4, <3>5 DEF Counting, Resident
  <2> QED
    BY <1>5, <2>1, Fewer DEF BoundInv
<1>7. CASE mount' = Evicted(table1, held, older', s)
  <2>1. \A x \in Slug : table1[x] # Nil => held[table1[x]] # Nil
    BY <1>2, <1>3, <1>4 DEF BoundInv, TableInv, Assigned
  <2>2. StrictOrder({x \in Slug : table1[x] # Nil}, older')
    BY <1>1, <1>5 DEF Ordered, Here
  <2>3. table1[s] # Nil /\ held[table1[s]].store
    BY <1>2, <1>3, <1>4
  <2>4. /\ IsFiniteSet(Resident(table1, mount'))
        /\ Cardinality(Resident(table1, mount')) <= Limit
    BY <1>3, <1>4, <1>7, <2>1, <2>2, <2>3, EvictionBounds
  <2> QED
    BY <1>1, <1>5, <2>4, Within
<1> QED
  BY <1>1, <1>6, <1>7

\* Nothing opened, nothing dropped.
LEMMA SameBound ==
  ASSUME BoundInv, UNCHANGED <<mounts, older>>,
         \A s \in Slug : mounts[s] # Nil =>
           /\ mount'[mounts[s]].repo = mount[mounts[s]].repo
           /\ mount'[mounts[s]].store => mount[mounts[s]].store
  PROVE  Ordered' /\ ResidentBound'
<1>1. Counting' \subseteq Counting
  BY DEF Counting, Resident
<1>2. Ordered'
  BY DEF BoundInv, Ordered, Here
<1> QED
  BY <1>1, <1>2, Fewer DEF BoundInv

LEMMA ResolveBound ==
  ASSUME BoundInv, NEW s \in Slug, ResolveProjectStore(s)
  PROVE  Ordered' /\ ResidentBound'
<1>1. CASE mounts[s] # Nil /\ UseMount(s)
  BY <1>1, UseBound
<1>2. CASE mounts[s] = Nil /\ ~ (mounts[s] # Nil /\ UseMount(s))
  <2>1. PICK m0 \in Free :
          /\ mounts' = [mounts EXCEPT ![s] = m0]
          /\ mount' = [mount EXCEPT ![m0] = Opened(Default, disk[Default].id)]
    BY <1>2 DEF ResolveProjectStore
  <2>2. Default \in Repo /\ disk[Default].id \in 1..MaxId /\ older' = Touch(s)
    BY <1>2, Constants
    DEF ResolveProjectStore, DefaultHosts, BoundInv, TableInv, MountsTypeOK, Project
  <2> QED
    BY <1>2, <2>1, <2>2, OpenBound
<1> QED
  BY <1>1, <1>2 DEF ResolveProjectStore

LEMMA TouchBound ==
  ASSUME BoundInv, NEW s \in Slug, mounts[s] # Nil, older' = Touch(s),
         UNCHANGED <<mounts, mount>>
  PROVE  Ordered' /\ ResidentBound'
<1>1. Ordered'
  BY TouchOrdered DEF BoundInv
<1>2. Counting' \subseteq Counting
  BY DEF Counting, Resident
<1> QED
  BY <1>1, <1>2, Fewer DEF BoundInv

LEMMA InsertBound ==
  ASSUME BoundInv, NEW c \in Req, Insert(c)
  PROVE  Ordered' /\ ResidentBound'
<1> DEFINE s == req[c].rec.slug
           r == req[c].repo
           id == req[c].rec.id
<1>1. s \in Slug /\ r \in Repo /\ id \in 1..MaxId
  <2>1. r \in Repo /\ req[c].rec \in Project
    BY Carried DEF Insert, BoundInv, TableInv
  <2> QED
    BY <2>1 DEF Project
<1>2. CASE mounts[s] # Nil
  <2>1. UseMount(s) \/ (UNCHANGED <<mounts, mount>> /\ older' = Touch(s))
    BY <1>2 DEF Insert
  <2> QED
    BY <1>1, <1>2, <2>1, UseBound, TouchBound
<1>3. CASE mounts[s] = Nil
  <2>1. PICK m0 \in Free :
          /\ mounts' = [mounts EXCEPT ![s] = m0]
          /\ mount' = Evicted([mounts EXCEPT ![s] = m0],
                              [mount EXCEPT ![m0] = Opened(r, id)], Touch(s), s)
    BY <1>3 DEF Insert
  <2>2. older' = Touch(s)
    BY <1>3 DEF Insert
  <2> HIDE DEF s, r, id
  <2> QED
    BY <1>1, <1>3, <2>1, <2>2, OpenBound
<1> QED
  BY <1>2, <1>3

LEMMA DropBound ==
  ASSUME BoundInv, NEW c \in Req, DropMount(c)
  PROVE  Ordered' /\ ResidentBound'
<1> DEFINE s == req[c].slug
<1>1. s \in Slug
  BY Carried DEF DropMount, BoundInv, TableInv
<1>2. CASE mounts[s] = Nil
  <2>1. UNCHANGED <<mounts, mount, older>>
    BY <1>2 DEF DropMount, table
  <2> QED
    BY <2>1, SameBound
<1>3. CASE mounts[s] # Nil
  <2>1. /\ mounts' = [mounts EXCEPT ![s] = Nil] /\ older' = Without(s)
        /\ mount' = mount
    BY <1>3 DEF DropMount
  <2>2. mounts'[s] = Nil /\ \A x \in Slug \ {s} : mounts'[x] = mounts[x]
    BY <1>1, <2>1 DEF BoundInv, TableInv, MountsTypeOK
  <2>3. Ordered'
    BY <1>1, <2>1, <2>2, DropOrdered DEF BoundInv
  <2>4. Counting' \subseteq Counting
    BY <2>1, <2>2 DEF Counting, Resident
  <2> QED
    BY <2>3, <2>4, Fewer DEF BoundInv
<1> QED
  BY <1>2, <1>3

LEMMA RebuildBound ==
  ASSUME BoundInv, NEW m0 \in Mount, mount[m0] # Nil, Rebuild(m0),
         UNCHANGED <<mounts, older>>
  PROVE  Ordered' /\ ResidentBound'
<1>1. /\ mount \in [Mount -> Held \cup {Nil}] /\ mount[m0] \in Held
      /\ mounts \in [Slug -> Mount \cup {Nil}]
  BY DEF BoundInv, TableInv, MountsTypeOK
<1>2. mount' = [mount EXCEPT ![m0] = [mount[m0] EXCEPT !.worker = TRUE]]
  BY <1>1 DEF Rebuild
<1>3. mount'[m0].repo = mount[m0].repo /\ mount'[m0].store = mount[m0].store
  BY <1>1, <1>2 DEF Held
<1>4. \A m \in Mount \ {m0} : mount'[m] = mount[m]
  BY <1>1, <1>2
<1>5. \A s \in Slug : mounts[s] # Nil =>
        /\ mount'[mounts[s]].repo = mount[mounts[s]].repo
        /\ mount'[mounts[s]].store => mount[mounts[s]].store
  BY <1>1, <1>3, <1>4
<1> QED
  BY <1>5, SameBound

LEMMA StopBound ==
  ASSUME BoundInv, StopWorkers
  PROVE  Ordered' /\ ResidentBound'
<1>1. UNCHANGED <<mounts, older>> /\ mounts \in [Slug -> Mount \cup {Nil}]
  BY DEF StopWorkers, BoundInv, TableInv, MountsTypeOK
<1>2. ASSUME NEW s \in Slug, mounts[s] # Nil
      PROVE  /\ mount'[mounts[s]].repo = mount[mounts[s]].repo
             /\ mount'[mounts[s]].store = mount[mounts[s]].store
  <2>1. mounts[s] \in Mount /\ mount[mounts[s]] \in Held
    BY <1>1, <1>2 DEF BoundInv, TableInv, MountsTypeOK, Assigned
  <2>2. mount'[mounts[s]] = [mount[mounts[s]] EXCEPT !.worker = FALSE]
    BY <2>1 DEF StopWorkers
  <2> QED
    BY <2>1, <2>2 DEF Held
<1> QED
  BY <1>1, <1>2, SameBound

LEMMA BoundStep ==
  ASSUME BoundInv, [MountsNext]_mountsVars
  PROVE  BoundInv'
<1>1. TableInv' /\ TableInv
  BY TableStep DEF BoundInv
<1>2. ASSUME UNCHANGED <<mounts, mount, older>>
      PROVE  Ordered' /\ ResidentBound'
  BY <1>2, SameBound
<1>3. ASSUME NEW c \in Req,
             \/ \E s \in Slug : Delete(c, s) \/ Reembed(c, s)
             \/ Insert(c) \/ DropMount(c) \/ Swap(c)
      PROVE  Ordered' /\ ResidentBound'
  <2>1. CASE \E s \in Slug : Delete(c, s) \/ Reembed(c, s)
    BY <2>1, ResolveBound DEF Delete, Reembed
  <2>2. CASE Swap(c)
    <3>1. req[c].m \in Mount /\ mount[req[c].m] # Nil
      BY <1>1, <2>2, Carried DEF TableInv, Assigned, Swap
    <3> QED
      BY <2>2, <3>1, RebuildBound DEF Swap
  <2> QED
    BY <1>3, <2>1, <2>2, InsertBound, DropBound
<1>4. ASSUME NEW s \in Slug, Lookup(s) \/ CacheResolve(s) \/ PullSwaps(s)
      PROVE  Ordered' /\ ResidentBound'
  <2>1. CASE Lookup(s)
    BY <2>1, ResolveBound DEF Lookup
  <2>2. CASE CacheResolve(s)
    BY <2>2, TouchBound DEF CacheResolve
  <2>3. CASE PullSwaps(s)
    <3>1. pull[s] \in Mount /\ mount[pull[s]] # Nil /\ UNCHANGED <<mounts, older>>
      BY <1>1, <2>3 DEF TableInv, Assigned, PullSwaps
    <3>2. CASE Rebuild(pull[s])
      BY <3>1, <3>2, RebuildBound
    <3>3. CASE UNCHANGED mount
      BY <3>1, <3>3, SameBound
    <3> QED
      BY <2>3, <3>2, <3>3 DEF PullSwaps
  <2> QED
    BY <1>4, <2>1, <2>2, <2>3
<1>5. ASSUME Restart PROVE Ordered' /\ ResidentBound'
  <2>1. mounts' = [s \in Slug |-> Nil] /\ older' = {}
    BY <1>5 DEF Restart, Unmount
  <2>2. Here' = {} /\ Counting' = {}
    BY <2>1 DEF Here, Counting, Resident
  <2>3. Ordered'
    BY <2>1, <2>2 DEF Ordered, StrictOrder
  <2> QED
    BY <2>2, <2>3, Fewer DEF BoundInv
<1>6. ASSUME StopWorkers PROVE Ordered' /\ ResidentBound'
  BY <1>6, StopBound
<1>7. Ordered' /\ ResidentBound'
  <2>1. CASE \E c \in Req :
               \/ \E r \in Repo : \/ \E s \in Slug : Create(c, r, s)
                                  \/ Register(c, r) \/ BootMount(c, r)
               \/ CommitCreate(c) \/ ReadProject(c) \/ InsertRefused(c)
               \/ LoadRegistry(c) \/ SaveRegistry(c) \/ RemoveFiles(c)
               \/ RegisterFails(c) \/ SaveFails(c) \/ SwapNothing(c)
    <3>1. UNCHANGED <<mounts, mount, older>>
      BY <2>1 DEF Create, Register, BootMount, CommitCreate, ReadProject,
                  InsertRefused, LoadRegistry, SaveRegistry, RemoveFiles, SwapNothing,
                  RegisterFails, SaveFails,
                  table
    <3> QED
      BY <1>2, <3>1
  <2>2. CASE (\E s \in Slug : PullEnds(s)) \/ Close \/ Booted \/ UNCHANGED mountsVars
    <3>1. UNCHANGED <<mounts, mount, older>>
      BY <2>2 DEF PullEnds, Close, Booted, mountsVars, table
    <3> QED
      BY <1>2, <3>1
  <2> QED
    BY <1>3, <1>4, <1>5, <1>6, <2>1, <2>2 DEF MountsNext
<1> QED
  BY <1>1, <1>7 DEF BoundInv

\* However many projects are mounted, at most Limit of them are resident, those
\* of the default store apart.
THEOREM ResidentsBounded == MountsSpec => []ResidentBound
<1>1. MountsInit => BoundInv
  <2>1. SUFFICES ASSUME MountsInit PROVE Ordered /\ ResidentBound
    BY TableStart DEF BoundInv
  <2>2. Here = {} /\ Counting = {} /\ older = {}
    <3>1. mounts = [s \in Slug |-> Nil] /\ older = {}
      BY <2>1 DEF MountsInit
    <3> QED
      BY <3>1 DEF Here, Counting, Resident
  <2>3. Cardinality(Counting) <= Limit
    BY <2>2, FS_EmptySet, Constants
  <2> QED
    BY <2>2, <2>3 DEF Ordered, StrictOrder, ResidentBound, Counting
<1>2. BoundInv => ResidentBound
  BY DEF BoundInv
<1> QED
  BY <1>1, <1>2, BoundStep, PTL DEF MountsSpec

-----------------------------------------------------------------------------
(* The strengthening for KeptUntilDeleted.                                 *)

Removing(c) == req[c].at \in {"remove", "drop"}
Saving(c) == req[c].at \in {"load", "save"}
Adding(c) == Saving(c) /\ req[c].add
Kept == {r \in served \ contested : disk[r] # Nil}
Noted == {r \in recorded \ contested : disk[r] # Nil}
Present(r) == Mounted(disk[r].slug, r)

\* Two repositories with projects of one slug are contested.
Apart ==
  \A r \in Repo \ contested : disk[r] # Nil =>
    \A q \in Repo \ {r} : disk[q] # Nil => disk[q].slug # disk[r].slug

\* A project to come is none that is mounted.
Counted ==
  /\ \A s \in Slug : mounts[s] # Nil => mount[mounts[s]].id <= ids
  /\ \A r \in Repo : disk[r] # Nil => disk[r].id <= ids
  /\ \A c \in Req : req[c].at = "insert" => req[c].rec.id <= ids

\* The registry is saved under the mutex when a mount is added.
Mutex == \A c \in Req : Adding(c) => mu = c

\* A delete that will drop a mount of repository r, or take its path away.
Drops(c, r) ==
  /\ Removing(c)
  /\ mounts[req[c].slug] # Nil /\ mount[mounts[req[c].slug]].repo = r
Unlists(c, r) == Saving(c) /\ ~ req[c].add /\ req[c].repo = r
Against(c, r) == Drops(c, r) \/ Unlists(c, r)

\* None is when a project is registered that is not contested.
Alone ==
  \A c \in Req :
    Adding(c) /\ req[c].repo \notin contested /\ Present(req[c].repo) =>
      \A d \in Req : ~ Against(d, req[c].repo)

\* The path that is found in the registry stays in it.
Undisturbed ==
  \A c \in Req :
    req[c].at = "save" /\ req[c].add /\ req[c].repo \notin contested
        /\ Present(req[c].repo) /\ req[c].repo \in req[c].paths =>
      /\ req[c].repo \in registry
      /\ \A d \in Req : ~ Overwrites(d, req[c].repo)

\* The registry read has what it must keep, and the registry has it.
Loaded == \A c \in Req : \A r \in Noted : ~ Overwrites(c, r)
Registered == Noted \subseteq registry

\* A delete drops and unregisters only what it deletes, or what is contested.
Aimed ==
  \A c \in Req : \A r \in Kept \cup Noted :
    Against(c, r) => req[c].at = "remove" /\ req[c].repo = r

\* A recorded project that boot could not mount has its slug to itself.
Left ==
  \A r \in Noted :
    \/ Present(r)
    \/ /\ mounts[disk[r].slug] = Nil
       /\ \A c \in Req :
            /\ Removing(c) => req[c].slug # disk[r].slug
            /\ req[c].at = "insert" /\ req[c].rec.slug = disk[r].slug =>
                 req[c].repo = r /\ req[c].rec = disk[r]

InPlace == up # "boot" => \A r \in Kept : Present(r)

\* Boot mounts one repository after the other.
BootAlone ==
  /\ \A c, d \in Req : req[c].at # "idle" /\ req[d].at # "idle" => c = d
  /\ \A c \in Req : req[c].at \in {"idle", "read", "insert"} \/ Adding(c)
  /\ \A c \in Req : req[c].at = "insert" => req[c].rec = disk[req[c].repo]
  /\ \A s \in Slug : mounts[s] # Nil => Mounted(s, mount[mounts[s]].repo)
Awaited(r) ==
  \/ r \in todo \/ Present(r)
  \/ \E c \in Req : req[c].at \in {"read", "insert"} /\ req[c].repo = r
Booting == up = "boot" => BootAlone /\ \A r \in Kept : Awaited(r)

KeptInv ==
  /\ TableInv
  /\ Apart /\ Counted /\ Mutex /\ Alone /\ Undisturbed /\ Loaded /\ Registered
  /\ Aimed /\ Left /\ InPlace /\ Booting

-----------------------------------------------------------------------------
(* Steps that leave the table's mounts what they are, and register nothing. *)

Standing ==
  /\ UNCHANGED mounts
  /\ \A s \in Slug : mounts[s] # Nil =>
       /\ mount'[mounts[s]].repo = mount[mounts[s]].repo
       /\ mount'[mounts[s]].id = mount[mounts[s]].id
Calm ==
  /\ Standing /\ UNCHANGED <<registry, mu>>
  /\ \A r \in Repo \ contested' : Present(r)' => r \notin contested /\ Present(r)
  /\ Kept' \subseteq Kept /\ Noted' \subseteq Noted
  /\ \A r \in Kept' \cup Noted' : disk'[r] = disk[r]
Quiet ==
  /\ Standing /\ UNCHANGED <<disk, registry, mu, ids>>
  /\ contested \subseteq contested'
  /\ served' \subseteq served /\ recorded' \subseteq recorded

\* What they may do to the calls under way.
Onward ==
  \A c \in Req :
    /\ Removing(c)' => /\ Removing(c) /\ req'[c].slug = req[c].slug
                       /\ req'[c] = req[c] \/ req[c].repo \notin (Kept \cup Noted)'
    /\ Saving(c)' => /\ Saving(c)
                     /\ req'[c].add = req[c].add /\ req'[c].repo = req[c].repo
    /\ req'[c].at = "insert" =>
         \/ req'[c] = req[c]
         \/ \E q \in Repo : /\ disk[q] # Nil /\ disk'[q] = disk[q]
                            /\ req'[c].repo = q /\ req'[c].rec = disk[q]

LEMMA Slugs ==
  ASSUME MountsTypeOK, NEW r \in Repo, disk[r] # Nil
  PROVE  disk[r] \in Project /\ disk[r].slug \in Slug
BY DEF MountsTypeOK, Project

LEMMA Somewhere ==
  ASSUME MountsTypeOK, NEW r \in Repo
  PROVE  Present(r) <=> \E s \in Slug : Mounted(s, r)
BY Slugs DEF Present, Mounted

LEMMA StandingPresent ==
  ASSUME MountsTypeOK, Standing, NEW r \in Repo, disk'[r] = disk[r]
  PROVE  Present(r)' <=> Present(r)
<1>1. CASE disk[r] # Nil
  BY <1>1, Slugs DEF Standing, Present, Mounted
<1>2. CASE disk[r] = Nil
  BY <1>2 DEF Present, Mounted
<1> QED
  BY <1>1, <1>2

\* A mount in the table stays, whatever is used or opened.
LEMMA SteadyPresent ==
  ASSUME TableInv, Steady, UNCHANGED disk
  PROVE  /\ \A s \in Slug : mounts[s] # Nil =>
              /\ mounts'[s] = mounts[s]
              /\ mount'[mounts[s]].repo = mount[mounts[s]].repo
              /\ mount'[mounts[s]].id = mount[mounts[s]].id
         /\ \A r \in Repo : Present(r) => Present(r)'
<1>1. ASSUME NEW s \in Slug, mounts[s] # Nil
      PROVE  /\ mounts'[s] = mounts[s]
             /\ mount'[mounts[s]].repo = mount[mounts[s]].repo
             /\ mount'[mounts[s]].id = mount[mounts[s]].id
  <2>1. mounts[s] \in Mount /\ mount[mounts[s]] # Nil
    BY <1>1 DEF TableInv, MountsTypeOK, Assigned
  <2>2. mounts[s] \notin Free
    BY <2>1, Taken DEF TableInv
  <2> QED
    BY <1>1, <2>1, <2>2 DEF Steady
<1>2. ASSUME NEW r \in Repo, Present(r) PROVE Present(r)'
  <2>1. disk[r] # Nil /\ disk[r].slug \in Slug /\ mounts[disk[r].slug] # Nil
    BY <1>2, Slugs DEF Present, Mounted, TableInv
  <2> QED
    BY <1>1, <1>2, <2>1 DEF Present, Mounted
<1> QED
  BY <1>1, <1>2

LEMMA Goods ==
  ASSUME MountsTypeOK
  PROVE  /\ Kept \in SUBSET Repo /\ Noted \in SUBSET Repo
         /\ \A r : r \in Kept <=> r \in served /\ r \notin contested /\ disk[r] # Nil
         /\ \A r : r \in Noted <=> r \in recorded /\ r \notin contested /\ disk[r] # Nil
BY DEF MountsTypeOK, Kept, Noted

LEMMA QuietCalm ==
  ASSUME MountsTypeOK, Quiet
  PROVE  Calm
<1>1. \A r \in Repo : Present(r)' <=> Present(r)
  BY StandingPresent DEF Quiet
<1>2. Kept' \subseteq Kept /\ Noted' \subseteq Noted
  BY DEF Quiet, Kept, Noted
<1>3. \A r \in Kept' \cup Noted' : disk'[r] = disk[r]
  BY DEF Quiet
<1> QED
  BY <1>1, <1>2, <1>3 DEF Calm, Quiet

LEMMA CalmKeeps ==
  ASSUME KeptInv, Calm, Onward
  PROVE  /\ Mutex' /\ Alone' /\ Registered' /\ Aimed' /\ Left'
         /\ up' = up \/ up' = "boot" \/ (up # "boot" /\ up' # "boot") => InPlace'
<1>1. MountsTypeOK /\ Standing
  BY DEF KeptInv, TableInv, Calm
<1>2. UNCHANGED <<mounts, registry, mu>>
  BY DEF Calm, Standing
<1>3. \A r \in Kept' \cup Noted' : /\ r \in Repo /\ disk[r] # Nil /\ disk[r].slug \in Slug
                                   /\ disk'[r] = disk[r] /\ (Present(r)' <=> Present(r))
  BY <1>1, Goods, Slugs, StandingPresent DEF Calm
<1>4. \A c \in Req : Saving(c) => req[c].repo \in Repo
  BY <1>1, Carried DEF Saving
<1>5. ASSUME NEW c \in Req, NEW r \in Repo, Against(c, r)' PROVE Against(c, r)
  <2>1. CASE Drops(c, r)'
    <3>1. /\ Removing(c)' /\ mounts'[req'[c].slug] # Nil
          /\ mount'[mounts'[req'[c].slug]].repo = r
      BY <2>1 DEF Drops
    <3>2. Removing(c) /\ req'[c].slug = req[c].slug
      BY <3>1 DEF Onward
    <3>3. req[c].slug \in Slug
      BY <1>1, <3>2, Carried DEF Removing
    <3> QED
      BY <1>1, <1>2, <3>1, <3>2, <3>3 DEF Standing, Against, Drops
  <2>2. CASE Unlists(c, r)'
    <3>1. Saving(c)' /\ ~ req'[c].add /\ req'[c].repo = r
      BY <2>2 DEF Unlists
    <3>2. Saving(c) /\ req'[c].add = req[c].add /\ req'[c].repo = req[c].repo
      BY <3>1 DEF Onward
    <3> QED
      BY <3>1, <3>2 DEF Against, Unlists
  <2> QED
    BY <1>5, <2>1, <2>2 DEF Against
<1>6. Mutex'
  <2>1. SUFFICES ASSUME NEW c \in Req, Adding(c)' PROVE mu' = c
    BY DEF Mutex
  <2>2. Adding(c)
    BY <2>1 DEF Onward, Adding
  <2> QED
    BY <1>2, <2>2 DEF KeptInv, Mutex
<1>7. Alone'
  <2>1. SUFFICES ASSUME NEW c \in Req, NEW d \in Req, Adding(c)',
                        (req[c].repo \notin contested)', Present(req[c].repo)',
                        Against(d, req[c].repo)'
                 PROVE  FALSE
    BY DEF Alone
  <2>2. Adding(c) /\ req'[c].repo = req[c].repo /\ req[c].repo \in Repo
    BY <1>4, <2>1 DEF Adding, Onward
  <2>3. \A r \in Repo : r = req'[c].repo =>
          r \notin contested /\ Present(r) /\ Against(d, r)
    BY <1>5, <2>1 DEF Calm
  <2>4. req[c].repo \notin contested /\ Present(req[c].repo) /\ Against(d, req[c].repo)
    BY <2>2, <2>3
  <2> QED
    BY <2>2, <2>4 DEF KeptInv, Alone
<1>8. Registered'
  BY <1>2 DEF KeptInv, Registered, Calm
<1>9. Aimed'
  <2>1. SUFFICES ASSUME NEW c \in Req, NEW r \in Kept' \cup Noted', Against(c, r)'
                 PROVE  req'[c].at = "remove" /\ req'[c].repo = r
    BY DEF Aimed
  <2>2. req[c].at = "remove" /\ req[c].repo = r
    BY <1>3, <1>5, <2>1 DEF KeptInv, Aimed, Calm
  <2>3. ~ Saving(c)'
    BY <2>2 DEF Onward, Saving
  <2>4. Removing(c)'
    BY <2>1, <2>3 DEF Against, Drops, Unlists
  <2>5. req'[c] = req[c]
    BY <2>1, <2>2, <2>4 DEF Onward
  <2> QED
    BY <2>2, <2>5
<1>10. Left'
  <2>1. SUFFICES ASSUME NEW r \in Noted', ~ Present(r)'
                 PROVE  /\ mounts'[disk'[r].slug] = Nil
                        /\ \A c \in Req :
                             /\ Removing(c)' => req'[c].slug # disk'[r].slug
                             /\ req'[c].at = "insert" /\ req'[c].rec.slug = disk'[r].slug =>
                                  req'[c].repo = r /\ req'[c].rec = disk'[r]
    BY DEF Left
  <2>2. r \in Noted /\ ~ Present(r) /\ disk'[r] = disk[r] /\ r \in Repo /\ disk[r] # Nil
    BY <1>3, <2>1 DEF Calm
  <2>3. /\ mounts[disk[r].slug] = Nil
        /\ \A c \in Req :
             /\ Removing(c) => req[c].slug # disk[r].slug
             /\ req[c].at = "insert" /\ req[c].rec.slug = disk[r].slug =>
                  req[c].repo = r /\ req[c].rec = disk[r]
    BY <2>2 DEF KeptInv, Left
  <2>4. r \notin contested
    BY <2>2 DEF Noted
  <2>5. ASSUME NEW c \in Req, req'[c].at = "insert", req'[c].rec.slug = disk[r].slug
        PROVE  req'[c].repo = r /\ req'[c].rec = disk[r]
    <3>1. CASE req'[c] = req[c]
      BY <2>3, <2>5, <3>1
    <3>2. ASSUME NEW q \in Repo, disk[q] # Nil, req'[c].repo = q, req'[c].rec = disk[q]
          PROVE  q = r
      BY <2>2, <2>4, <2>5, <3>2 DEF KeptInv, Apart
    <3>3. \/ req'[c] = req[c]
          \/ \E q \in Repo : disk[q] # Nil /\ req'[c].repo = q /\ req'[c].rec = disk[q]
      BY <2>5 DEF Onward
    <3> QED
      BY <3>1, <3>2, <3>3
  <2>6. \A c \in Req : Removing(c)' => req'[c].slug # disk[r].slug
    BY <2>3 DEF Onward
  <2> QED
    BY <1>2, <2>2, <2>3, <2>5, <2>6
<1>11. up' = up \/ up' = "boot" \/ (up # "boot" /\ up' # "boot") => InPlace'
  BY <1>3 DEF KeptInv, InPlace, Calm
<1> QED
  BY <1>6, <1>7, <1>8, <1>9, <1>10, <1>11

LEMMA CalmSaves ==
  ASSUME KeptInv, Calm, \A c \in Req : req'[c].at = "save" => req'[c] = req[c]
  PROVE  Undisturbed' /\ Loaded'
<1>1. \A c \in Req : req[c].at = "save" => req[c].repo \in Repo
  BY Carried DEF KeptInv, TableInv
<1>2. \A c \in Req, r \in Repo : Overwrites(c, r)' => Overwrites(c, r)
  BY DEF Overwrites
<1>3. Undisturbed'
  <2>1. SUFFICES ASSUME NEW c \in Req, req'[c].at = "save", req'[c].add,
                        (req[c].repo \notin contested)', Present(req[c].repo)',
                        req'[c].repo \in req'[c].paths
                 PROVE  /\ req'[c].repo \in registry'
                        /\ \A d \in Req : ~ Overwrites(d, req[c].repo)'
    BY DEF Undisturbed
  <2>2. req'[c] = req[c] /\ req[c].repo \in Repo
    BY <1>1, <2>1
  <2>3. \A r \in Repo : r = req'[c].repo => r \notin contested /\ Present(r)
    BY <2>1 DEF Calm
  <2>4. req[c].repo \notin contested /\ Present(req[c].repo)
    BY <2>2, <2>3
  <2>5. req[c].repo \in registry /\ \A d \in Req : ~ Overwrites(d, req[c].repo)
    BY <2>1, <2>2, <2>4 DEF KeptInv, Undisturbed
  <2>6. req'[c].repo \in registry'
    BY <2>2, <2>5 DEF Calm
  <2>7. \A r \in Repo : r = req'[c].repo => \A d \in Req : ~ Overwrites(d, r)'
    BY <1>2, <2>2, <2>5
  <2> QED
    BY <2>2, <2>6, <2>7
<1>4. Loaded'
  <2>1. \A r \in Noted' : r \in Noted /\ r \in Repo
    BY Goods DEF Calm, KeptInv, TableInv
  <2> QED
    BY <1>2, <2>1 DEF KeptInv, Loaded
<1> QED
  BY <1>3, <1>4

LEMMA QuietKeeps ==
  ASSUME KeptInv, Quiet, Onward
  PROVE  Apart' /\ Counted'
<1>1. Apart'
  BY DEF Quiet, KeptInv, Apart
<1>2. /\ \A s \in Slug : mounts[s] # Nil => mount[mounts[s]].id <= ids
      /\ \A r \in Repo : disk[r] # Nil => disk[r].id <= ids
      /\ \A c \in Req : req[c].at = "insert" => req[c].rec.id <= ids
  BY DEF KeptInv, Counted
<1>3. \A s \in Slug : mounts'[s] # Nil => mount'[mounts'[s]].id <= ids'
  BY <1>2 DEF Quiet, Standing
<1>4. \A r \in Repo : disk'[r] # Nil => disk'[r].id <= ids'
  BY <1>2 DEF Quiet
<1>5. ASSUME NEW c \in Req, req'[c].at = "insert" PROVE req'[c].rec.id <= ids'
  <2>1. \/ req'[c] = req[c]
        \/ \E q \in Repo : disk[q] # Nil /\ req'[c].rec = disk[q]
    BY <1>5 DEF Onward
  <2> QED
    BY <1>2, <1>5, <2>1 DEF Quiet
<1> QED
  BY <1>1, <1>3, <1>4, <1>5 DEF Counted

\* Nothing of boot but what a boot does.
LEMMA Boots ==
  ASSUME KeptInv, up = "boot", NEW c \in Req
  PROVE  req[c].at \in {"idle", "read", "insert", "load", "save"}
BY DEF KeptInv, Booting, BootAlone, Adding, Saving

\* Boot goes on as it was.
LEMMA SameBoot ==
  ASSUME KeptInv, Quiet, UNCHANGED <<req, todo, up>>
  PROVE  Booting'
<1>1. SUFFICES ASSUME up = "boot" PROVE BootAlone' /\ \A r \in Kept' : Awaited(r)'
  BY DEF Booting
<1>2. BootAlone /\ \A r \in Kept : Awaited(r)
  BY <1>1 DEF KeptInv, Booting
<1>3. /\ \A r \in Repo : Present(r)' <=> Present(r)
      /\ Kept' \subseteq Kept /\ Kept \in SUBSET Repo
  BY StandingPresent, QuietCalm, Goods DEF KeptInv, TableInv, Quiet, Calm
<1>4. \A r \in Kept' : Awaited(r)'
  BY <1>2, <1>3 DEF Awaited
<1>5. \A s \in Slug : mounts'[s] # Nil => Mounted(s, mount[mounts[s]].repo)'
  BY <1>2 DEF BootAlone, Mounted, Quiet, Standing
<1>6. \A c \in Req : (req'[c].at \in {"idle", "read", "insert"} \/ Adding(c)')
  BY <1>2 DEF BootAlone, Adding, Saving
<1> QED
  BY <1>2, <1>4, <1>5, <1>6 DEF BootAlone, Quiet

\* Calls that come in, and steps about models, workers and the service's life.
LEMMA OtherKept ==
  ASSUME KeptInv, TableInv',
         \/ \E c \in Req : \/ \E r \in Repo : \/ \E s \in Slug : Create(c, r, s)
                                              \/ Register(c, r)
                           \/ SwapNothing(c) \/ Swap(c)
         \/ \E s \in Slug : CacheResolve(s) \/ PullEnds(s) \/ PullSwaps(s)
         \/ Close \/ StopWorkers \/ UNCHANGED mountsVars
  PROVE  KeptInv'
<1>1. MountsTypeOK /\ TableInv /\ TableInv'
  BY DEF KeptInv, TableInv
<1>2. UNCHANGED <<disk, mounts, registry, served, recorded, contested, mu, ids>>
  BY DEF Create, Register, SwapNothing, Swap, CacheResolve, PullEnds, PullSwaps, Close,
         StopWorkers, mountsVars, shared, table, bound, history
<1>3. Quiet
  <2>1. SUFFICES ASSUME NEW s \in Slug, mounts[s] # Nil
                 PROVE  /\ mount'[mounts[s]].repo = mount[mounts[s]].repo
                        /\ mount'[mounts[s]].id = mount[mounts[s]].id
    BY <1>2 DEF Quiet, Standing
  <2>2. mounts[s] \in Mount /\ mount[mounts[s]] # Nil /\ mount[mounts[s]] \in Held
    BY <1>1, <2>1 DEF TableInv, MountsTypeOK, Assigned
  <2>3. CASE UNCHANGED mount
    BY <2>3
  <2>4. CASE StopWorkers
    <3>1. mount'[mounts[s]] = [mount[mounts[s]] EXCEPT !.worker = FALSE]
      BY <2>2, <2>4 DEF StopWorkers
    <3> QED
      BY <2>2, <3>1 DEF Held
  <2>5. CASE \E m \in Mount : mount[m] # Nil /\ Rebuild(m) /\ up' = up
    BY <1>1, <1>2, <2>2, <2>5, Rebuilt
  <2>6. \/ UNCHANGED mount \/ StopWorkers
        \/ \E m \in Mount : mount[m] # Nil /\ Rebuild(m) /\ up' = up
    <3>1. \A c \in Req : Swap(c) => req[c].m \in Mount /\ mount[req[c].m] # Nil
      BY <1>1, Carried DEF TableInv, Assigned, Swap
    <3>2. \A x \in Slug : PullSwaps(x) => pull[x] \in Mount /\ mount[pull[x]] # Nil
      BY <1>1 DEF TableInv, Assigned, PullSwaps
    <3>3. CASE \E c \in Req : Swap(c)
      BY <3>1, <3>3 DEF Swap, service
    <3>4. CASE \E x \in Slug : PullSwaps(x)
      BY <3>2, <3>4 DEF PullSwaps, service
    <3> QED
      BY <3>3, <3>4
      DEF Create, Register, SwapNothing, CacheResolve, PullEnds, Close, mountsVars,
          table, history
  <2> QED
    BY <2>3, <2>4, <2>5, <2>6
<1>4. \/ /\ UNCHANGED <<req, todo>>
         /\ up' = up \/ (up # "boot" /\ up' # "boot")
      \/ /\ up # "boot" /\ up' # "boot"
         /\ \E c \in Req, call \in Doing :
              Goto(c, call) /\ call.at \in {"idle", "commit", "read"}
  <2>1. ASSUME NEW c \in Req, SwapNothing(c) \/ Swap(c)
        PROVE  /\ up # "boot" /\ up' # "boot"
               /\ \E call \in Doing : Goto(c, call) /\ call.at \in {"idle", "commit", "read"}
    <3>1. up' = up /\ Goto(c, NoCall) /\ req[c].at = "swap"
      BY <2>1 DEF SwapNothing, Swap, Stop, service
    <3> QED
      BY <3>1, Boots, IdleCall
  <2>2. ASSUME NEW c \in Req, NEW r \in Repo,
               (\E s \in Slug : Create(c, r, s)) \/ Register(c, r)
        PROVE  /\ up # "boot" /\ up' # "boot"
               /\ \E call \in Doing : Goto(c, call) /\ call.at \in {"idle", "commit", "read"}
    <3>1. up = "up" /\ up' = up
      BY <2>2 DEF Create, Register, Call, service
    <3>2. /\ [at |-> "read", repo |-> r] \in Doing
          /\ \A s \in Slug : [at |-> "commit", repo |-> r, slug |-> s] \in Doing
      BY DEF Doing, Registering, Creating
    <3> QED
      BY <2>2, <3>1, <3>2 DEF Create, Register
  <2>3. CASE \/ \E s \in Slug : CacheResolve(s) \/ PullEnds(s) \/ PullSwaps(s)
             \/ Close \/ StopWorkers \/ UNCHANGED mountsVars
    BY <2>3
    DEF CacheResolve, PullEnds, PullSwaps, Close, StopWorkers, mountsVars, service
  <2> QED
    BY <2>1, <2>2, <2>3
<1>5. \A c \in Req : req'[c] = req[c] \/ req'[c].at \in {"idle", "commit", "read"}
  <2>1. CASE \E c \in Req, call \in Doing :
               Goto(c, call) /\ call.at \in {"idle", "commit", "read"}
    BY <1>1, <2>1, Went
  <2> QED
    BY <1>4, <2>1
<1>6. Onward /\ \A c \in Req : req'[c].at = "save" => req'[c] = req[c]
  BY <1>5 DEF Onward, Removing, Saving
<1>7. /\ Apart' /\ Counted' /\ Mutex' /\ Alone' /\ Undisturbed' /\ Loaded'
      /\ Registered' /\ Aimed' /\ Left' /\ InPlace'
  BY <1>1, <1>3, <1>4, <1>6, QuietCalm, CalmKeeps, CalmSaves, QuietKeeps
<1>8. Booting'
  <2>1. CASE up' # "boot"
    BY <2>1 DEF Booting
  <2>2. CASE up' = "boot"
    BY <1>3, <1>4, <2>2, SameBoot
  <2> QED
    BY <2>1, <2>2
<1> QED
  BY <1>1, <1>7, <1>8 DEF KeptInv

\* The requests of a boot, when one of them goes on.
LEMMA OneBoots ==
  ASSUME KeptInv, up = "boot", NEW c \in Req, req[c].at # "idle"
  PROVE  /\ BootAlone
         /\ \A d \in Req \ {c} : req[d].at = "idle"
         /\ \A r \in Kept : Awaited(r)
BY DEF KeptInv, Booting, BootAlone

LEMMA BootMountKept ==
  ASSUME KeptInv, TableInv', NEW c \in Req, NEW r \in Repo, BootMount(c, r)
  PROVE  KeptInv'
<1>1. MountsTypeOK /\ TableInv /\ TableInv'
  BY DEF KeptInv, TableInv
<1>2. /\ UNCHANGED <<disk, mounts, mount, registry, served, recorded, contested,
                     mu, ids, up>>
      /\ up = "boot" /\ todo' = todo \ {r} /\ \A d \in Req : req[d].at = "idle"
  BY IdleCall DEF BootMount, shared, table, bound, history
<1>3. Quiet /\ Kept' = Kept
  BY <1>2 DEF Quiet, Standing, Kept
<1>4. /\ req'[c] = [at |-> "read", repo |-> r]
      /\ \A d \in Req \ {c} : req'[d] = req[d]
  <2>1. [at |-> "read", repo |-> r] \in Doing
    BY DEF Doing, Registering
  <2> QED
    BY <1>1, <2>1, Went DEF BootMount
<1>5. Onward /\ \A d \in Req : req'[d].at = "save" => req'[d] = req[d]
  BY <1>2, <1>4 DEF Onward, Removing, Saving
<1>6. /\ Apart' /\ Counted' /\ Mutex' /\ Alone' /\ Undisturbed' /\ Loaded'
      /\ Registered' /\ Aimed' /\ Left' /\ InPlace'
  BY <1>1, <1>2, <1>3, <1>5, QuietCalm, CalmKeeps, CalmSaves, QuietKeeps
<1>8. BootAlone /\ \A q \in Kept : Awaited(q)
  BY <1>2 DEF KeptInv, Booting
<1>9. BootAlone'
  <2>1. \A s \in Slug : mounts'[s] # Nil => Mounted(s, mount[mounts[s]].repo)'
    BY <1>2, <1>8 DEF BootAlone, Mounted
  <2>2. \A d \in Req : req'[d].at \in {"idle", "read"} /\ (req'[d].at # "idle" => d = c)
    BY <1>2, <1>4
  <2> QED
    BY <2>1, <2>2 DEF BootAlone
<1>10. ASSUME NEW q \in Kept' PROVE Awaited(q)'
  <2>1. q \in Kept /\ (q \in todo \/ Present(q))
    BY <1>2, <1>3, <1>8, <1>10 DEF Awaited
  <2>2. q \in Repo
    BY <1>1, <2>1, Goods
  <2>3. CASE Present(q)
    BY <1>1, <1>3, <2>2, <2>3, StandingPresent DEF Quiet, Awaited
  <2>4. CASE q = r
    BY <1>4, <2>4 DEF Awaited
  <2>5. CASE q \in todo /\ q # r
    BY <1>2, <2>5 DEF Awaited
  <2> QED
    BY <2>1, <2>3, <2>4, <2>5
<1> QED
  BY <1>1, <1>6, <1>9, <1>10 DEF KeptInv, Booting

LEMMA BootedKept ==
  ASSUME KeptInv, TableInv', Booted
  PROVE  KeptInv'
<1>1. MountsTypeOK
  BY DEF KeptInv, TableInv
<1>2. /\ UNCHANGED <<disk, mounts, mount, registry, served, recorded, contested,
                     mu, ids, req>>
      /\ up = "boot" /\ up' = "up" /\ todo = {} /\ \A d \in Req : req[d].at = "idle"
  BY IdleCall DEF Booted, shared, table, bound, history
<1>3. Quiet /\ Kept' = Kept
  BY <1>2 DEF Quiet, Standing, Kept
<1>4. Onward /\ \A d \in Req : req'[d].at = "save" => req'[d] = req[d]
  BY <1>2 DEF Onward, Removing, Saving
<1>5. /\ Apart' /\ Counted' /\ Mutex' /\ Alone' /\ Undisturbed' /\ Loaded'
      /\ Registered' /\ Aimed' /\ Left'
  BY <1>1, <1>2, <1>3, <1>4, QuietCalm, CalmKeeps, CalmSaves, QuietKeeps
<1>6. \A q \in Kept : Present(q)
  BY <1>2 DEF KeptInv, Booting, Awaited
<1>7. InPlace'
  <2>1. SUFFICES ASSUME NEW q \in Kept' PROVE Present(q)'
    BY DEF InPlace
  <2>2. q \in Kept /\ q \in Repo
    BY <1>1, <1>3, Goods
  <2> QED
    BY <1>1, <1>3, <1>6, <2>2, StandingPresent DEF Quiet
<1>8. Booting'
  BY <1>2 DEF Booting
<1> QED
  BY <1>5, <1>7, <1>8 DEF KeptInv

LEMMA ReadKept ==
  ASSUME KeptInv, TableInv', NEW c \in Req, ReadProject(c)
  PROVE  KeptInv'
<1> DEFINE r == req[c].repo
<1>1. MountsTypeOK /\ r \in Repo /\ req[c].at = "read"
  BY Carried DEF KeptInv, TableInv, ReadProject
<1>2. UNCHANGED <<disk, mounts, mount, registry, served, recorded, contested,
                  mu, ids, up, todo>>
  BY DEF ReadProject, shared, table, service, bound, history
<1>3. Quiet /\ Kept' = Kept
  BY <1>2 DEF Quiet, Standing, Kept
<1>4. /\ \A d \in Req \ {c} : req'[d] = req[d]
      /\ \/ disk[r] = Nil /\ req'[c] = NoCall
         \/ disk[r] # Nil /\ req'[c] = [at |-> "insert", repo |-> r, rec |-> disk[r]]
  <2>1. CASE disk[r] = Nil
    BY <1>1, <2>1, Stopped DEF ReadProject
  <2>2. CASE disk[r] # Nil
    <3>1. disk[r] \in Project
      BY <1>1, <2>2, Slugs
    <3>2. [at |-> "insert", repo |-> r, rec |-> disk[r]] \in Doing
      BY <1>1, <3>1 DEF Doing, Registering
    <3> QED
      BY <1>1, <2>2, <3>2, Went DEF ReadProject
  <2> QED
    BY <2>1, <2>2
<1>5. Onward /\ \A d \in Req : req'[d].at = "save" => req'[d] = req[d]
  <2>1. CASE disk[r] = Nil /\ req'[c] = NoCall
    BY <1>4, <2>1, IdleCall DEF Onward, Removing, Saving
  <2>2. CASE disk[r] # Nil /\ req'[c] = [at |-> "insert", repo |-> r, rec |-> disk[r]]
    <3>1. /\ req'[c].at = "insert" /\ req'[c].repo = r /\ req'[c].rec = disk[r]
      BY <2>2
    <3> QED
      BY <1>1, <1>2, <1>4, <2>2, <3>1 DEF Onward, Removing, Saving
  <2> QED
    BY <1>4, <2>1, <2>2
<1>6. /\ Apart' /\ Counted' /\ Mutex' /\ Alone' /\ Undisturbed' /\ Loaded'
      /\ Registered' /\ Aimed' /\ Left' /\ InPlace'
  BY <1>1, <1>2, <1>3, <1>5, QuietCalm, CalmKeeps, CalmSaves, QuietKeeps
<1>8. ASSUME up = "boot" PROVE BootAlone' /\ \A q \in Kept' : Awaited(q)'
  <2>1. /\ BootAlone /\ \A d \in Req \ {c} : req[d].at = "idle"
        /\ \A q \in Kept : Awaited(q)
    BY <1>1, <1>8, OneBoots
  <2>2. \A s \in Slug : mounts'[s] # Nil => Mounted(s, mount[mounts[s]].repo)'
    BY <1>2, <2>1 DEF BootAlone, Mounted
  <2>3. /\ \A d \in Req : req'[d].at \in {"idle", "read", "insert"}
        /\ \A d \in Req : req'[d].at # "idle" => d = c
        /\ req'[c].at = "insert" => req'[c].rec = disk[req'[c].repo]
    BY <1>4, <2>1, IdleCall
  <2>4. BootAlone'
    BY <1>2, <2>2, <2>3 DEF BootAlone
  <2>5. ASSUME NEW q \in Kept' PROVE Awaited(q)'
    <3>1. q \in Kept /\ disk[q] # Nil /\ q \in Repo
      BY <1>1, <1>3, <2>5, Goods
    <3>2. \/ q \in todo \/ Present(q) \/ q = r
      BY <2>1, <3>1 DEF Awaited
    <3>3. CASE q = r
      BY <1>4, <3>1, <3>3 DEF Awaited
    <3>4. CASE Present(q)
      BY <1>1, <1>3, <3>1, <3>4, StandingPresent DEF Quiet, Awaited
    <3>5. CASE q \in todo
      BY <1>2, <3>5 DEF Awaited
    <3> QED
      BY <3>2, <3>3, <3>4, <3>5
  <2> QED
    BY <2>4, <2>5
<1> QED
  BY <1>2, <1>6, <1>8 DEF KeptInv, Booting

\* A registration that is refused, or fails.
LEMMA RefusedKept ==
  ASSUME KeptInv, TableInv', NEW c \in Req, InsertRefused(c) \/ RegisterFails(c)
  PROVE  KeptInv'
<1>0. SUFFICES ASSUME NEW r \in Repo, r = req[c].repo
               PROVE  KeptInv'
  BY Carried DEF KeptInv, TableInv, InsertRefused, RegisterFails
<1>1. /\ MountsTypeOK /\ req[c].at \in {"read", "insert"}
      /\ UNCHANGED <<disk, mounts, mount, registry, recorded, contested, mu, ids, up, todo>>
  BY DEF KeptInv, TableInv, InsertRefused, RegisterFails, shared, table, service, bound,
         history
<1>2. served' \subseteq served /\ (RegisterFails(c) /\ up = "boot" => r \notin served')
  BY <1>0 DEF InsertRefused, RegisterFails, history
<1>3. Quiet
  BY <1>1, <1>2 DEF Quiet, Standing
<1>4. /\ \A d \in Req \ {c} : req'[d] = req[d]
      /\ req'[c].at = "idle"
  BY <1>1, Stopped DEF InsertRefused, RegisterFails
<1>5. Onward /\ \A d \in Req : req'[d].at = "save" => req'[d] = req[d]
  BY <1>4 DEF Onward, Removing, Saving
<1>6. /\ Apart' /\ Counted' /\ Mutex' /\ Alone' /\ Undisturbed' /\ Loaded'
      /\ Registered' /\ Aimed' /\ Left' /\ InPlace'
  BY <1>1, <1>3, <1>5, QuietCalm, CalmKeeps, CalmSaves, QuietKeeps
<1>8. ASSUME up = "boot" PROVE BootAlone' /\ \A q \in Kept' : Awaited(q)'
  <2>1. /\ BootAlone /\ \A d \in Req \ {c} : req[d].at = "idle"
        /\ \A q \in Kept : Awaited(q)
    BY <1>1, <1>8, OneBoots
  <2>2. \A x \in Slug : mounts'[x] # Nil => Mounted(x, mount[mounts[x]].repo)'
    BY <1>1, <2>1 DEF BootAlone, Mounted
  <2>3. \A d \in Req : req'[d].at = "idle"
    BY <1>4, <2>1
  <2>4. BootAlone'
    BY <2>2, <2>3 DEF BootAlone
  <2>5. r \notin Kept'
    <3>1. CASE RegisterFails(c)
      BY <1>2, <1>8, <3>1 DEF Kept
    <3>2. CASE InsertRefused(c)
      <4>1. SUFFICES ASSUME r \in Kept PROVE FALSE
        BY <1>1, <1>3, QuietCalm DEF Calm
      <4> DEFINE s == req[c].rec.slug
                 q == mount[mounts[s]].repo
      <4>2. /\ req[c].at = "insert" /\ req[c].rec \in Project
            /\ mounts[s] # Nil /\ ~ Same(mounts[s], r, req[c].rec)
        BY <1>0, <1>1, <3>2, Carried DEF InsertRefused
      <4>3. s \in Slug
        BY <4>2 DEF Project
      <4>4. Mounted(s, q) /\ req[c].rec = disk[r] /\ disk[r] # Nil
        BY <1>0, <1>1, <2>1, <4>1, <4>2, <4>3, Goods DEF BootAlone
      <4>5. q \in Repo
        <5>1. mounts[s] \in Mount /\ mount[mounts[s]] \in Held
          BY <1>1, <4>2, <4>3 DEF KeptInv, TableInv, MountsTypeOK, Assigned
        <5> QED
          BY <5>1, Kinds
      <4>6. disk[q].slug = s /\ disk[r].slug = s /\ disk[q] # Nil
        BY <4>4 DEF Mounted
      <4>7. CASE q = r
        BY <4>2, <4>4, <4>7 DEF Mounted, Same
      <4>8. CASE q # r
        BY <1>1, <4>1, <4>4, <4>5, <4>6, <4>8, Goods DEF KeptInv, Apart
      <4> QED
        BY <4>7, <4>8
    <3> QED
      BY <3>1, <3>2
  <2>6. ASSUME NEW q \in Kept' PROVE Awaited(q)'
    <3>1. q \in Kept /\ q \in Repo
      BY <1>1, <1>3, <2>6, QuietCalm, Goods DEF Calm
    <3>2. q \in todo \/ Present(q)
      BY <1>0, <2>1, <2>5, <2>6, <3>1 DEF Awaited
    <3> QED
      BY <1>1, <1>3, <3>1, <3>2, StandingPresent DEF Quiet, Awaited
  <2> QED
    BY <2>4, <2>6
<1> QED
  BY <1>1, <1>6, <1>8 DEF KeptInv, Booting

LEMMA LoadKept ==
  ASSUME KeptInv, TableInv', NEW c \in Req, LoadRegistry(c)
  PROVE  KeptInv'
<1>0. SUFFICES ASSUME NEW r \in Repo, r = req[c].repo
               PROVE  KeptInv'
  BY Carried DEF KeptInv, TableInv, LoadRegistry
<1>1. MountsTypeOK /\ req[c].at = "load" /\ req[c].add \in BOOLEAN
  BY Carried DEF KeptInv, TableInv, LoadRegistry
<1>2. /\ UNCHANGED <<disk, mounts, mount, registry, served, recorded, mu, ids, up, todo>>
      /\ contested' = IF req[c].add /\ \E d \in Req \ {c} : Overwrites(d, r)
                      THEN contested \cup {r} ELSE contested
  BY <1>0 DEF LoadRegistry, ContestSave, shared, table, service, bound
<1>3. /\ \A d \in Req \ {c} : req'[d] = req[d]
      /\ req'[c] = [at |-> "save", repo |-> r, add |-> req[c].add, paths |-> registry]
  <2>1. registry \in SUBSET Repo
    BY <1>1 DEF MountsTypeOK
  <2>2. [at |-> "save", repo |-> r, add |-> req[c].add, paths |-> registry] \in Doing
    BY <1>1, <2>1 DEF Doing, Registering
  <2> QED
    BY <1>0, <1>1, <2>2, Went DEF LoadRegistry
<1>4. /\ Quiet /\ Calm
      /\ \A q \in Repo : Present(q)' <=> Present(q)
  <2>1. Quiet
    BY <1>2 DEF Quiet, Standing
  <2> QED
    BY <1>1, <1>2, <2>1, QuietCalm, StandingPresent DEF Quiet
<1>5. Onward
  BY <1>0, <1>1, <1>3 DEF Onward, Removing, Saving
<1>6. /\ Apart' /\ Counted' /\ Mutex' /\ Alone' /\ Registered' /\ Aimed' /\ Left'
      /\ InPlace'
  BY <1>2, <1>4, <1>5, CalmKeeps, QuietKeeps
<1>7. \A d \in Req, q \in Repo :
        Overwrites(d, q)' => \/ d # c /\ Overwrites(d, q)
                             \/ d = c /\ q \notin registry
  BY <1>3 DEF Overwrites
<1>8. Loaded'
  <2>1. \A q \in Noted' : q \in Noted /\ q \in Repo /\ q \in registry
    BY <1>1, <1>4, Goods DEF Calm, KeptInv, Registered
  <2> QED
    BY <1>7, <2>1 DEF KeptInv, Loaded
<1>9. Undisturbed'
  <2>1. SUFFICES ASSUME NEW d \in Req, NEW q \in Repo, q = req'[d].repo,
                        req'[d].at = "save", req'[d].add,
                        q \notin contested', Present(q)', q \in req'[d].paths
                 PROVE  /\ q \in registry'
                        /\ \A e \in Req : ~ Overwrites(e, q)'
    <3>1. \A d \in Req : req'[d].at = "save" => req'[d].repo \in Repo
      BY <1>0, <1>1, <1>3, Carried
    <3> QED
      BY <2>1, <3>1 DEF Undisturbed
  <2>2. CASE d = c
    <3>1. q = r /\ req[c].add /\ q \in registry
      BY <1>3, <2>1, <2>2
    <3>2. \A e \in Req \ {c} : ~ Overwrites(e, q)
      BY <1>2, <2>1, <3>1
    <3> QED
      BY <1>2, <1>7, <3>1, <3>2
  <2>3. CASE d # c
    <3>1. q \in registry /\ \A e \in Req : ~ Overwrites(e, q)
      BY <1>2, <1>3, <1>4, <2>1, <2>3 DEF KeptInv, Undisturbed
    <3> QED
      BY <1>2, <1>7, <3>1
  <2> QED
    BY <2>2, <2>3
<1>10. ASSUME up = "boot" PROVE BootAlone' /\ \A q \in Kept' : Awaited(q)'
  <2>1. /\ BootAlone /\ \A d \in Req \ {c} : req[d].at = "idle"
        /\ \A q \in Kept : Awaited(q)
    BY <1>1, <1>10, OneBoots
  <2>2. \A s \in Slug : mounts'[s] # Nil => Mounted(s, mount[mounts[s]].repo)'
    BY <1>2, <2>1 DEF BootAlone, Mounted
  <2>3. Adding(c)
    BY <1>1, <2>1 DEF BootAlone
  <2>4. /\ \A d \in Req \ {c} : req'[d].at = "idle"
        /\ Adding(c)' /\ req'[c].at = "save"
    BY <1>1, <1>3, <2>1, <2>3 DEF Adding, Saving
  <2>5. BootAlone'
    BY <2>2, <2>4 DEF BootAlone
  <2>6. ASSUME NEW q \in Kept' PROVE Awaited(q)'
    <3>1. q \in Kept /\ q \in Repo
      BY <1>1, <1>4, <2>6, Goods DEF Calm
    <3>2. q \in todo \/ Present(q)
      BY <1>1, <2>1, <3>1 DEF Awaited
    <3> QED
      BY <1>2, <1>4, <3>1, <3>2 DEF Awaited
  <2> QED
    BY <2>5, <2>6
<1> QED
  BY <1>2, <1>6, <1>8, <1>9, <1>10 DEF KeptInv, Booting

\* The end of a save, whether the registry was written or not, if it is as it
\* has to be.
LEMMA EndKept ==
  ASSUME KeptInv, TableInv', NEW c \in Req, NEW r \in Repo, r = req[c].repo,
         SaveRegistry(c) \/ SaveFails(c),
         \A q \in recorded' : q \in recorded \/ (q = r /\ Registers(c)),
         contested \subseteq contested', Undisturbed', Loaded', Registered'
  PROVE  KeptInv'
<1> DEFINE gains == Registers(c) /\ r \notin contested
<1>1. /\ MountsTypeOK /\ Saving(c) /\ req[c].add \in BOOLEAN
      /\ UNCHANGED <<disk, mounts, mount, ids, up, todo>>
      /\ mu' = IF mu = c THEN Nil ELSE mu
      /\ \A q \in served' : q \in served \/ (q = r /\ Registers(c))
  <2>1. Saving(c)
    BY DEF SaveRegistry, SaveFails, Saving
  <2>2. req[c].add \in BOOLEAN
    BY <2>1, Carried DEF KeptInv, TableInv, Saving
  <2>3. \A q \in served' : q \in served \/ (q = r /\ Registers(c))
    BY DEF SaveRegistry, SaveFails, Serve
  <2> QED
    BY <2>1, <2>2, <2>3
    DEF KeptInv, TableInv, SaveRegistry, SaveFails, shared, table, service, bound
<1>2. /\ \A d \in Req \ {c} : req'[d] = req[d]
      /\ req'[c].at = "idle"
  BY <1>1, Stopped DEF SaveRegistry, SaveFails
<1>3. \A q \in Repo : Present(q)' <=> Present(q)
  <2>1. Standing
    BY <1>1 DEF Standing
  <2> QED
    BY <1>1, <2>1, StandingPresent
<1>4. /\ \A q \in Kept' : q \in Repo /\ (q \in Kept \/ (q = r /\ gains))
      /\ \A q \in Noted' : q \in Repo /\ (q \in Noted \/ (q = r /\ gains))
  <2>1. ASSUME NEW q \in Kept' PROVE q \in Repo /\ (q \in Kept \/ (q = r /\ gains))
    <3>1. q \in served' /\ q \notin contested /\ disk[q] # Nil
      BY <1>1, <2>1 DEF Kept
    <3>2. served \in SUBSET Repo
      BY <1>1 DEF MountsTypeOK
    <3> QED
      BY <1>1, <3>1, <3>2 DEF Kept
  <2>2. ASSUME NEW q \in Noted' PROVE q \in Repo /\ (q \in Noted \/ (q = r /\ gains))
    <3>1. q \in recorded' /\ q \notin contested /\ disk[q] # Nil
      BY <1>1, <2>2 DEF Noted
    <3>2. recorded \in SUBSET Repo
      BY <1>1 DEF MountsTypeOK
    <3> QED
      BY <3>1, <3>2 DEF Noted
  <2> QED
    BY <2>1, <2>2
<1>5. gains => /\ Adding(c) /\ Present(r)
               /\ \A d \in Req : ~ Against(d, r)
  <2>1. SUFFICES ASSUME gains PROVE /\ Adding(c) /\ Present(r)
                                    /\ \A d \in Req : ~ Against(d, r)
    OBVIOUS
  <2>2. Adding(c) /\ Present(r)
    BY <1>1, <2>1, Somewhere DEF Registers, Adding
  <2> QED
    BY <2>1, <2>2 DEF KeptInv, Alone
<1> HIDE DEF gains
<1>6. /\ \A d \in Req : Adding(d)' => d # c /\ Adding(d)
      /\ \A d \in Req : Removing(d)' => d # c /\ Removing(d)
      /\ \A d \in Req, q \in Repo : Against(d, q)' => d # c /\ Against(d, q)
  BY <1>1, <1>2 DEF Adding, Saving, Removing, Against, Drops, Unlists
<1>7. \A d \in Req : Adding(d) => req[d].repo \in Repo
  BY <1>1, Carried DEF Adding, Saving
<1>8. Apart' /\ Counted'
  <2>1. Apart'
    BY <1>1 DEF KeptInv, Apart
  <2>2. Counted'
    BY <1>1, <1>2 DEF KeptInv, Counted
  <2> QED
    BY <2>1, <2>2
<1>9. Mutex'
  BY <1>1, <1>6 DEF KeptInv, Mutex
<1>10. Alone'
  <2>1. SUFFICES ASSUME NEW d \in Req, NEW e \in Req, Adding(d)',
                        (req[d].repo \notin contested)', Present(req[d].repo)',
                        Against(e, req[d].repo)'
                 PROVE  FALSE
    BY DEF Alone
  <2>2. d # c /\ Adding(d) /\ req'[d] = req[d] /\ req[d].repo \in Repo
    BY <1>2, <1>6, <1>7, <2>1
  <2>3. \A q \in Repo : q = req'[d].repo => Present(q) /\ Against(e, q)
    BY <1>3, <1>6, <2>1
  <2>4. req[d].repo \notin contested /\ Present(req[d].repo) /\ Against(e, req[d].repo)
    BY <2>1, <2>2, <2>3
  <2> QED
    BY <2>2, <2>4 DEF KeptInv, Alone
<1>11. Aimed'
  <2>1. SUFFICES ASSUME NEW d \in Req, NEW q \in Kept' \cup Noted', Against(d, q)'
                 PROVE  req'[d].at = "remove" /\ req'[d].repo = q
    BY DEF Aimed
  <2>2. d # c /\ Against(d, q) /\ q \in Kept \cup Noted
    BY <1>4, <1>5, <1>6, <2>1
  <2> QED
    BY <1>2, <2>2 DEF KeptInv, Aimed
<1>12. Left'
  <2>1. SUFFICES ASSUME NEW q \in Noted', ~ Present(q)'
                 PROVE  /\ mounts'[disk'[q].slug] = Nil
                        /\ \A d \in Req :
                             /\ Removing(d)' => req'[d].slug # disk'[q].slug
                             /\ req'[d].at = "insert" /\ req'[d].rec.slug = disk'[q].slug =>
                                  req'[d].repo = q /\ req'[d].rec = disk'[q]
    BY DEF Left
  <2>2. q \in Noted /\ ~ Present(q)
    BY <1>3, <1>4, <1>5, <2>1
  <2>3. /\ mounts[disk[q].slug] = Nil
        /\ \A d \in Req :
             /\ Removing(d) => req[d].slug # disk[q].slug
             /\ req[d].at = "insert" /\ req[d].rec.slug = disk[q].slug =>
                  req[d].repo = q /\ req[d].rec = disk[q]
    BY <2>2 DEF KeptInv, Left
  <2>4. \A d \in Req : req'[d].at = "insert" => req'[d] = req[d]
    BY <1>2
  <2>5. \A d \in Req : Removing(d)' => Removing(d) /\ req'[d] = req[d]
    BY <1>2, <1>6
  <2> QED
    BY <1>1, <2>3, <2>4, <2>5
<1>13. InPlace'
  <2>1. SUFFICES ASSUME up # "boot", NEW q \in Kept' PROVE Present(q)'
    BY <1>1 DEF InPlace
  <2>2. q \in Repo /\ Present(q)
    BY <1>4, <1>5, <2>1 DEF KeptInv, InPlace
  <2> QED
    BY <1>3, <2>2
<1>14. ASSUME up = "boot" PROVE BootAlone' /\ \A q \in Kept' : Awaited(q)'
  <2>1. /\ BootAlone /\ \A d \in Req \ {c} : req[d].at = "idle"
        /\ \A q \in Kept : Awaited(q)
    BY <1>1, <1>14, OneBoots DEF Saving
  <2>2. \A s \in Slug : mounts'[s] # Nil => Mounted(s, mount[mounts[s]].repo)'
    BY <1>1, <2>1 DEF BootAlone, Mounted
  <2>3. \A d \in Req : req'[d].at = "idle"
    BY <1>2, <2>1
  <2>4. BootAlone'
    BY <2>2, <2>3 DEF BootAlone
  <2>5. ASSUME NEW q \in Kept' PROVE Awaited(q)'
    <3>1. q \in Repo /\ (q \in todo \/ Present(q))
      BY <1>1, <1>4, <1>5, <2>1, <2>5 DEF Awaited, Saving
    <3> QED
      BY <1>1, <1>3, <3>1 DEF Awaited
  <2> QED
    BY <2>4, <2>5
<1> QED
  BY <1>1, <1>8, <1>9, <1>10, <1>11, <1>12, <1>13, <1>14 DEF KeptInv, Booting

LEMMA SaveKept ==
  ASSUME KeptInv, TableInv', NEW c \in Req, SaveRegistry(c)
  PROVE  KeptInv'
<1>0. SUFFICES ASSUME NEW r \in Repo, r = req[c].repo
               PROVE  KeptInv'
  BY Carried DEF KeptInv, TableInv, SaveRegistry
<1> DEFINE paths == req[c].paths
<1>1. /\ MountsTypeOK /\ req[c].at = "save" /\ req[c].add \in BOOLEAN
      /\ UNCHANGED <<disk, mounts, mount>>
      /\ registry' = IF req[c].add
                     THEN IF r \in paths THEN registry ELSE paths \cup {r}
                     ELSE IF r \in paths THEN paths \ {r} ELSE registry
      /\ recorded' = IF Registers(c) THEN recorded \cup {r} ELSE recorded
      /\ contested' = IF req[c].add /\ \E d \in Req \ {c} : Overwrites(d, r)
                      THEN contested \cup {r} ELSE contested
  BY <1>0, Carried DEF KeptInv, TableInv, SaveRegistry, ContestSave, table
<1>2. /\ \A d \in Req \ {c} : req'[d] = req[d]
      /\ req'[c].at = "idle"
  BY <1>1, Stopped DEF SaveRegistry
<1>3. \A q \in Repo : Present(q)' <=> Present(q)
  <2>1. Standing
    BY <1>1 DEF Standing
  <2> QED
    BY <1>1, <2>1, StandingPresent
<1>4. ASSUME NEW q \in Noted', q \notin Noted
      PROVE  /\ q = r /\ req[c].add /\ Present(r) /\ r \notin contested
             /\ \A d \in Req \ {c} : ~ Overwrites(d, r)
  <2>1. q \in recorded' /\ q \notin contested' /\ disk[q] # Nil
    BY <1>1, <1>4 DEF Noted
  <2>2. q \notin contested /\ q \notin recorded
    BY <1>1, <1>4, <2>1 DEF Noted
  <2>3. q = r /\ Registers(c)
    BY <1>1, <2>1, <2>2
  <2>4. req[c].add /\ Present(r)
    BY <1>0, <1>1, <2>3, Somewhere DEF Registers
  <2> QED
    BY <1>1, <2>1, <2>2, <2>3, <2>4
<1>5. \A d \in Req, q \in Repo : Overwrites(d, q)' => d # c /\ Overwrites(d, q)
  BY <1>2 DEF Overwrites
<1>6. Noted' \in SUBSET Repo
  BY DEF TableInv, MountsTypeOK, Noted
<1>7. Loaded'
  BY <1>4, <1>5, <1>6 DEF KeptInv, Loaded
<1>8. Registered'
  <2>1. SUFFICES ASSUME NEW q \in Noted' PROVE q \in registry'
    BY DEF Registered
  <2>2. CASE q \in Noted
    <3>1. q \in registry /\ q \in paths
      BY <1>1, <2>2 DEF KeptInv, Registered, Loaded, Overwrites
    <3>2. ~ req[c].add => q # r
      <4>1. ~ req[c].add => Against(c, r)
        BY <1>0, <1>1 DEF Against, Unlists, Saving
      <4> QED
        BY <1>1, <2>2, <4>1 DEF KeptInv, Aimed
    <3> QED
      BY <1>1, <3>1, <3>2
  <2>3. CASE q \notin Noted
    <3>1. q = r /\ req[c].add /\ Present(r) /\ r \notin contested
      BY <1>4, <2>1, <2>3
    <3>2. r \in paths => r \in registry
      BY <1>0, <1>1, <3>1 DEF KeptInv, Undisturbed
    <3> QED
      BY <1>1, <3>1, <3>2
  <2> QED
    BY <2>2, <2>3
<1>9. Undisturbed'
  <2>1. SUFFICES ASSUME NEW d \in Req, NEW q \in Repo, q = req'[d].repo,
                        req'[d].at = "save", req'[d].add,
                        q \notin contested', Present(q)', q \in req'[d].paths
                 PROVE  /\ q \in registry'
                        /\ \A e \in Req : ~ Overwrites(e, q)'
    <3>1. \A d \in Req : req'[d].at = "save" => req'[d].repo \in Repo
      BY <1>1, <1>2, Carried
    <3> QED
      BY <2>1, <3>1 DEF Undisturbed
  <2>2. d # c /\ req'[d] = req[d]
    BY <1>2, <2>1
  <2>3. q \notin contested /\ Present(q)
    BY <1>1, <1>3, <2>1
  <2>4. q \in registry /\ \A e \in Req : ~ Overwrites(e, q)
    BY <2>1, <2>2, <2>3 DEF KeptInv, Undisturbed
  <2>5. Adding(d) /\ Saving(c)
    BY <1>1, <2>1, <2>2 DEF Adding, Saving
  <2>6. ~ req[c].add
    BY <2>2, <2>5 DEF KeptInv, Mutex, Adding
  <2>7. q # r
    <3>1. Against(c, r)
      BY <1>0, <2>5, <2>6 DEF Against, Unlists
    <3> QED
      BY <2>1, <2>2, <2>3, <2>5, <3>1 DEF KeptInv, Alone
  <2>8. q \in paths
    BY <1>1, <2>4 DEF Overwrites
  <2> QED
    BY <1>1, <1>5, <2>4, <2>6, <2>7, <2>8
<1>10. /\ \A q \in recorded' : q \in recorded \/ (q = r /\ Registers(c))
       /\ contested \subseteq contested'
  BY <1>1
<1> QED
  BY <1>0, <1>7, <1>8, <1>9, <1>10, EndKept

LEMMA SaveFailsKept ==
  ASSUME KeptInv, TableInv', NEW c \in Req, SaveFails(c)
  PROVE  KeptInv'
<1>0. SUFFICES ASSUME NEW r \in Repo, r = req[c].repo
               PROVE  KeptInv'
  BY Carried DEF KeptInv, TableInv, SaveFails
<1>1. /\ MountsTypeOK
      /\ UNCHANGED <<disk, registry, mounts, mount, recorded, contested>>
  BY DEF KeptInv, TableInv, SaveFails, shared, table
<1>2. /\ \A d \in Req \ {c} : req'[d] = req[d]
      /\ req'[c].at = "idle"
  BY <1>1, Stopped DEF SaveFails
<1>3. \A q \in Repo : Present(q)' <=> Present(q)
  <2>1. Standing
    BY <1>1 DEF Standing
  <2> QED
    BY <1>1, <2>1, StandingPresent
<1>4. Noted' = Noted /\ Noted \in SUBSET Repo
  BY <1>1, Goods DEF Noted
<1>5. \A d \in Req, q \in Repo : Overwrites(d, q)' => Overwrites(d, q)
  BY <1>2 DEF Overwrites
<1>6. Registered' /\ Loaded'
  BY <1>1, <1>4, <1>5 DEF KeptInv, Registered, Loaded
<1>7. Undisturbed'
  <2>1. SUFFICES ASSUME NEW d \in Req, NEW q \in Repo, q = req'[d].repo,
                        req'[d].at = "save", req'[d].add,
                        q \notin contested', Present(q)', q \in req'[d].paths
                 PROVE  /\ q \in registry'
                        /\ \A e \in Req : ~ Overwrites(e, q)'
    <3>1. \A d \in Req : req'[d].at = "save" => req'[d].repo \in Repo
      BY <1>1, <1>2, Carried
    <3> QED
      BY <2>1, <3>1 DEF Undisturbed
  <2>2. req'[d] = req[d] /\ q \notin contested /\ Present(q)
    BY <1>1, <1>2, <1>3, <2>1
  <2>3. q \in registry /\ \A e \in Req : ~ Overwrites(e, q)
    BY <2>1, <2>2 DEF KeptInv, Undisturbed
  <2> QED
    BY <1>1, <1>5, <2>3
<1> QED
  BY <1>0, <1>1, <1>6, <1>7, EndKept

LEMMA CommitKept ==
  ASSUME KeptInv, TableInv', NEW c \in Req, CommitCreate(c)
  PROVE  KeptInv'
<1>0. SUFFICES ASSUME NEW r \in Repo, NEW slug \in Slug,
                      r = req[c].repo, slug = req[c].slug
               PROVE  KeptInv'
  BY Carried DEF KeptInv, TableInv, CommitCreate
<1> DEFINE same == {q \in Repo \ {r} : disk[q] # Nil /\ disk[q].slug = slug}
<1>1. /\ MountsTypeOK /\ r \in Repo /\ slug \in Slug /\ req[c].at = "commit"
      /\ up # "boot" /\ ids \in Nat
  BY Carried, Boots, Constants DEF KeptInv, TableInv, CommitCreate, MountsTypeOK
<1>2. /\ UNCHANGED <<registry, mounts, mount, mu, up, todo>>
      /\ ids' = ids + 1
      /\ disk' = [disk EXCEPT ![r] = [slug |-> slug, id |-> ids + 1]]
      /\ served' = served \ {r} /\ recorded' = recorded \ {r}
      /\ contested' = IF same = {} THEN contested ELSE contested \cup same \cup {r}
  BY <1>0 DEF CommitCreate, table, service
<1>3. /\ \A d \in Req \ {c} : req'[d] = req[d]
      /\ req'[c].at = "read"
  <2>1. [at |-> "read", repo |-> r] \in Doing
    BY <1>1 DEF Doing, Registering
  <2> QED
    BY <1>0, <1>1, <2>1, Went DEF CommitCreate
<1>4. /\ disk'[r] = [slug |-> slug, id |-> ids + 1]
      /\ \A q \in Repo \ {r} : disk'[q] = disk[q]
  BY <1>1, <1>2 DEF MountsTypeOK
<1>5. /\ \A q \in Repo \ {r} : Present(q)' <=> Present(q)
      /\ ~ Present(r)'
  <2>1. \A q \in Repo \ {r} : Present(q)' <=> Present(q)
    BY <1>2, <1>4 DEF Present, Mounted
  <2>2. mounts[slug] # Nil => mount[mounts[slug]].id <= ids /\ mount[mounts[slug]].id \in Nat
    <3>1. SUFFICES ASSUME mounts[slug] # Nil
                   PROVE  mount[mounts[slug]].id <= ids /\ mount[mounts[slug]].id \in Nat
      OBVIOUS
    <3>2. mounts[slug] \in Mount /\ mount[mounts[slug]] \in Held
      BY <1>1, <3>1 DEF KeptInv, TableInv, MountsTypeOK, Assigned
    <3> QED
      BY <1>1, <3>1, <3>2, Kinds, Constants DEF KeptInv, Counted
  <2>3. disk'[r].slug = slug /\ disk'[r].id = ids + 1
    BY <1>4
  <2>4. Present(r)' => mounts[slug] # Nil /\ mount[mounts[slug]].id = ids + 1
    BY <1>2, <2>3 DEF Present, Mounted
  <2> QED
    BY <1>1, <2>1, <2>2, <2>4
<1>6. contested \subseteq contested'
  BY <1>2
<1>7. /\ \A q \in Kept' : q \in Kept /\ q # r /\ q \in Repo
      /\ \A q \in Noted' : q \in Noted /\ q # r /\ q \in Repo
  <2>1. served \in SUBSET Repo /\ recorded \in SUBSET Repo
    BY <1>1 DEF MountsTypeOK
  <2>2. \A q \in Kept' : q \in Kept /\ q # r /\ q \in Repo
    BY <1>2, <1>4, <1>6, <2>1 DEF Kept
  <2>3. \A q \in Noted' : q \in Noted /\ q # r /\ q \in Repo
    BY <1>2, <1>4, <1>6, <2>1 DEF Noted
  <2> QED
    BY <2>2, <2>3
<1>8. Calm
  <2>1. Standing
    BY <1>2 DEF Standing
  <2>2. \A q \in Repo \ contested' : Present(q)' => q \notin contested /\ Present(q)
    BY <1>5, <1>6
  <2> QED
    BY <1>2, <1>4, <1>7, <2>1, <2>2 DEF Calm
<1>9. Onward /\ \A d \in Req : req'[d].at = "save" => req'[d] = req[d]
  BY <1>3 DEF Onward, Removing, Saving
<1>10. /\ Mutex' /\ Alone' /\ Undisturbed' /\ Loaded' /\ Registered' /\ Aimed' /\ Left'
       /\ InPlace'
  BY <1>2, <1>8, <1>9, CalmKeeps, CalmSaves
<1>11. Apart'
  <2>1. SUFFICES ASSUME NEW q \in Repo, q \notin contested', disk'[q] # Nil,
                        NEW p \in Repo \ {q}, disk'[p] # Nil,
                        disk'[p].slug = disk'[q].slug
                 PROVE  FALSE
    BY DEF Apart
  <2>2. CASE q = r
    <3>1. p \in same
      BY <1>4, <2>1, <2>2
    <3> QED
      BY <1>2, <2>1, <2>2, <3>1
  <2>3. CASE p = r
    <3>1. q \in same
      BY <1>4, <2>1, <2>3
    <3> QED
      BY <1>2, <2>1, <3>1
  <2>4. CASE q # r /\ p # r
    BY <1>4, <1>6, <2>1, <2>4 DEF KeptInv, Apart
  <2> QED
    BY <2>2, <2>3, <2>4
<1>12. Counted'
  <2>1. /\ \A s \in Slug : mounts[s] # Nil =>
             mount[mounts[s]].id <= ids /\ mount[mounts[s]].id \in Nat
        /\ \A q \in Repo : disk[q] # Nil => disk[q].id <= ids /\ disk[q].id \in Nat
        /\ \A d \in Req : req[d].at = "insert" =>
             req[d].rec.id <= ids /\ req[d].rec.id \in Nat
    <3>1. ASSUME NEW s \in Slug, mounts[s] # Nil PROVE mount[mounts[s]].id \in Nat
      <4>1. mounts[s] \in Mount /\ mount[mounts[s]] \in Held
        BY <1>1, <3>1 DEF KeptInv, TableInv, MountsTypeOK, Assigned
      <4> QED
        BY <4>1, Kinds, Constants
    <3>2. \A q \in Repo : disk[q] # Nil => disk[q].id \in Nat
      BY <1>1, Slugs, Constants DEF Project
    <3>3. \A d \in Req : req[d].at = "insert" => req[d].rec.id \in Nat
      BY <1>1, Carried, Constants DEF Project
    <3> QED
      BY <3>1, <3>2, <3>3 DEF KeptInv, Counted
  <2>2. \A s \in Slug : mounts'[s] # Nil => mount'[mounts'[s]].id <= ids'
    BY <1>1, <1>2, <2>1
  <2>3. \A q \in Repo : disk'[q] # Nil => disk'[q].id <= ids'
    BY <1>1, <1>2, <1>4, <2>1
  <2>4. \A d \in Req : req'[d].at = "insert" => req'[d].rec.id <= ids'
    BY <1>1, <1>2, <1>3, <2>1
  <2> QED
    BY <2>2, <2>3, <2>4 DEF Counted
<1>13. Booting'
  BY <1>1, <1>2 DEF Booting
<1> QED
  BY <1>10, <1>11, <1>12, <1>13 DEF KeptInv

LEMMA RemoveKept ==
  ASSUME KeptInv, TableInv', NEW c \in Req, RemoveFiles(c)
  PROVE  KeptInv'
<1>0. SUFFICES ASSUME NEW r \in Repo, r = req[c].repo
               PROVE  KeptInv'
  BY Carried DEF KeptInv, TableInv, RemoveFiles
<1>1. /\ MountsTypeOK /\ req[c].at = "remove" /\ req[c].slug \in Slug
      /\ up # "boot"
  BY Carried, Boots DEF KeptInv, TableInv, RemoveFiles
<1>2. /\ UNCHANGED <<registry, mounts, mount, mu, up, todo, ids>>
      /\ disk' = [disk EXCEPT ![r] = Nil]
      /\ served' = served \ {r} /\ recorded' = recorded \ {r}
      /\ contested' = contested \ {r}
  BY <1>0 DEF RemoveFiles, table, service, bound
<1>3. /\ \A d \in Req \ {c} : req'[d] = req[d]
      /\ req'[c].at = "drop" /\ req'[c].slug = req[c].slug
  <2>1. req[c] \in Deleting
    BY <1>1 DEF MountsTypeOK, NoCall, Creating, Registering, Deleting, Reembedding
  <2>2. /\ [req[c] EXCEPT !.at = "drop"] \in Doing
        /\ [req[c] EXCEPT !.at = "drop"].at = "drop"
        /\ [req[c] EXCEPT !.at = "drop"].slug = req[c].slug
    BY <2>1 DEF Deleting, Doing
  <2> QED
    BY <1>1, <2>2, Went DEF RemoveFiles
<1>4. /\ disk'[r] = Nil
      /\ \A q \in Repo \ {r} : disk'[q] = disk[q]
  BY <1>1, <1>2 DEF MountsTypeOK
<1>5. \A q \in Repo : Present(q)' => Present(q) /\ q # r
  <2>1. \A q \in Repo \ {r} : Present(q)' <=> Present(q)
    BY <1>2, <1>4 DEF Present, Mounted
  <2>2. \A q \in Repo : Present(q)' => q # r
    BY <1>4 DEF Present, Mounted
  <2> QED
    BY <2>1, <2>2
<1>6. /\ \A q \in Kept' : q \in Kept /\ q # r /\ q \in Repo
      /\ \A q \in Noted' : q \in Noted /\ q # r /\ q \in Repo
  <2>1. served \in SUBSET Repo /\ recorded \in SUBSET Repo
    BY <1>1 DEF MountsTypeOK
  <2>2. \A q \in Kept' : q \in Kept /\ q # r /\ q \in Repo
    BY <1>2, <1>4, <2>1 DEF Kept
  <2>3. \A q \in Noted' : q \in Noted /\ q # r /\ q \in Repo
    BY <1>2, <1>4, <2>1 DEF Noted
  <2> QED
    BY <2>2, <2>3
<1>7. Calm
  <2>1. Standing
    BY <1>2 DEF Standing
  <2>2. \A q \in Repo \ contested' : Present(q)' => q \notin contested /\ Present(q)
    BY <1>2, <1>5
  <2> QED
    BY <1>2, <1>4, <1>6, <2>1, <2>2 DEF Calm
<1>8. r \notin (Kept \cup Noted)'
  BY <1>6
<1>9. Onward /\ \A d \in Req : req'[d].at = "save" => req'[d] = req[d]
  BY <1>0, <1>1, <1>3, <1>8 DEF Onward, Removing, Saving
<1>10. /\ Mutex' /\ Alone' /\ Undisturbed' /\ Loaded' /\ Registered' /\ Aimed' /\ Left'
       /\ InPlace'
  BY <1>2, <1>7, <1>9, CalmKeeps, CalmSaves
<1>11. Apart'
  <2>1. SUFFICES ASSUME NEW q \in Repo, q \notin contested', disk'[q] # Nil,
                        NEW p \in Repo \ {q}, disk'[p] # Nil,
                        disk'[p].slug = disk'[q].slug
                 PROVE  FALSE
    BY DEF Apart
  <2>2. q # r /\ p # r
    BY <1>4, <2>1
  <2> QED
    BY <1>2, <1>4, <2>1, <2>2 DEF KeptInv, Apart
<1>12. Counted'
  <2>1. \A q \in Repo : disk'[q] # Nil => disk'[q].id <= ids'
    BY <1>2, <1>4 DEF KeptInv, Counted
  <2> QED
    BY <1>2, <1>3, <2>1 DEF KeptInv, Counted
<1>13. Booting'
  BY <1>1, <1>2 DEF Booting
<1> QED
  BY <1>10, <1>11, <1>12, <1>13 DEF KeptInv

LEMMA DropKept ==
  ASSUME KeptInv, TableInv', NEW c \in Req, DropMount(c)
  PROVE  KeptInv'
<1>0. SUFFICES ASSUME NEW s \in Slug, s = req[c].slug
               PROVE  KeptInv'
  BY Carried DEF KeptInv, TableInv, DropMount
<1>1. /\ MountsTypeOK /\ req[c].at = "drop" /\ mu = Nil /\ up # "boot"
  BY Boots DEF KeptInv, TableInv, DropMount
<1>2. UNCHANGED <<disk, registry, mu, up, todo, ids, served, recorded, contested, mount>>
  BY DEF DropMount, shared, service, bound, table
<1>3. Kept' = Kept /\ Noted' = Noted /\ Kept \in SUBSET Repo /\ Noted \in SUBSET Repo
  BY <1>1, <1>2, Goods DEF Kept, Noted
<1>4. CASE mounts[s] = Nil
  <2>1. UNCHANGED mounts /\ Stop(c)
    BY <1>0, <1>4 DEF DropMount, table
  <2>2. Quiet
    BY <1>2, <2>1 DEF Quiet, Standing
  <2>3. /\ \A d \in Req \ {c} : req'[d] = req[d]
        /\ req'[c].at = "idle"
    BY <1>1, <2>1, Stopped
  <2>4. Onward /\ \A d \in Req : req'[d].at = "save" => req'[d] = req[d]
    BY <2>3 DEF Onward, Removing, Saving
  <2>5. /\ Apart' /\ Counted' /\ Mutex' /\ Alone' /\ Undisturbed' /\ Loaded'
        /\ Registered' /\ Aimed' /\ Left' /\ InPlace'
    BY <1>1, <1>2, <2>2, <2>4, QuietCalm, CalmKeeps, CalmSaves, QuietKeeps
  <2>6. Booting'
    BY <1>1, <1>2 DEF Booting
  <2> QED
    BY <2>5, <2>6 DEF KeptInv
<1>5. CASE mounts[s] # Nil
  <2>0. SUFFICES ASSUME NEW q \in Repo, q = mount[mounts[s]].repo
                 PROVE  KeptInv'
    <3>1. mounts[s] \in Mount /\ mount[mounts[s]] \in Held
      BY <1>1, <1>5 DEF KeptInv, TableInv, MountsTypeOK, Assigned
    <3> QED
      BY <3>1, Kinds
  <2>1. /\ mounts' = [mounts EXCEPT ![s] = Nil]
        /\ Goto(c, [at |-> "load", repo |-> q, add |-> FALSE])
    BY <1>0, <1>5, <2>0 DEF DropMount
  <2>2. /\ mounts'[s] = Nil
        /\ \A x \in Slug \ {s} : mounts'[x] = mounts[x]
    BY <1>1, <2>1 DEF MountsTypeOK
  <2>3. /\ \A d \in Req \ {c} : req'[d] = req[d]
        /\ req'[c] = [at |-> "load", repo |-> q, add |-> FALSE]
    <3>1. [at |-> "load", repo |-> q, add |-> FALSE] \in Doing
      BY DEF Doing, Registering
    <3> QED
      BY <1>1, <2>1, <3>1, Went
  <2>4. q \notin Kept \cup Noted
    <3>1. Against(c, q)
      BY <1>0, <1>1, <1>5, <2>0 DEF Against, Drops, Removing
    <3> QED
      BY <1>1, <3>1 DEF KeptInv, Aimed
  <2>5. \A p \in Kept \cup Noted : Present(p) => Present(p)'
    <3>1. SUFFICES ASSUME NEW p \in Kept \cup Noted, Present(p) PROVE Present(p)'
      OBVIOUS
    <3>2. p # q /\ disk[p].slug \in Slug /\ mount[mounts[disk[p].slug]].repo = p
      BY <1>1, <1>3, <2>4, <3>1, Slugs DEF Present, Mounted
    <3>3. disk[p].slug # s
      BY <2>0, <3>2
    <3> QED
      BY <1>2, <2>2, <3>1, <3>2, <3>3 DEF Present, Mounted
  <2>6. \A d \in Req : ~ Adding(d) /\ ~ Adding(d)'
    <3>1. \A d \in Req : ~ Adding(d)
      BY <1>1, Constants DEF KeptInv, Mutex
    <3> QED
      BY <2>3, <3>1 DEF Adding, Saving
  <2>7. Mutex' /\ Alone'
    BY <2>6 DEF Mutex, Alone
  <2>8. Undisturbed'
    BY <2>6 DEF Undisturbed, Adding, Saving
  <2>9. Apart' /\ Registered'
    BY <1>2, <1>3 DEF KeptInv, Apart, Registered
  <2>10. Loaded'
    BY <1>3, <2>3 DEF KeptInv, Loaded, Overwrites
  <2>11. Counted'
    BY <1>2, <2>2, <2>3 DEF KeptInv, Counted
  <2>12. Aimed'
    <3>1. SUFFICES ASSUME NEW d \in Req, NEW p \in Kept \cup Noted, Against(d, p)'
                   PROVE  req'[d].at = "remove" /\ req'[d].repo = p
      BY <1>3 DEF Aimed
    <3>2. d # c
      <4>1. ~ Removing(c)' /\ (Unlists(c, p)' => p = q)
        BY <2>3 DEF Removing, Unlists
      <4> QED
        BY <2>4, <3>1, <4>1 DEF Against, Drops
    <3>3. req'[d] = req[d]
      BY <2>3, <3>2
    <3>4. Against(d, p)
      <4>1. CASE Drops(d, p)'
        <5>1. /\ Removing(d) /\ mounts'[req[d].slug] # Nil
              /\ mount[mounts'[req[d].slug]].repo = p
          BY <1>2, <3>3, <4>1 DEF Drops, Removing
        <5>2. req[d].slug \in Slug
          BY <1>1, <5>1, Carried DEF Removing
        <5>3. mounts'[req[d].slug] = mounts[req[d].slug]
          BY <2>2, <5>1, <5>2
        <5> QED
          BY <5>1, <5>3 DEF Against, Drops
      <4>2. CASE Unlists(d, p)'
        BY <3>3, <4>2 DEF Against, Unlists, Saving
      <4> QED
        BY <3>1, <4>1, <4>2 DEF Against
    <3> QED
      BY <3>1, <3>3, <3>4 DEF KeptInv, Aimed
  <2>13. Left'
    <3>1. SUFFICES ASSUME NEW p \in Noted, ~ Present(p)'
                   PROVE  /\ mounts'[disk[p].slug] = Nil
                          /\ \A d \in Req :
                               /\ Removing(d)' => req'[d].slug # disk[p].slug
                               /\ req'[d].at = "insert" /\ req'[d].rec.slug = disk[p].slug =>
                                    req'[d].repo = p /\ req'[d].rec = disk[p]
      BY <1>2, <1>3 DEF Left
    <3>2. /\ mounts[disk[p].slug] = Nil
          /\ \A d \in Req :
               /\ Removing(d) => req[d].slug # disk[p].slug
               /\ req[d].at = "insert" /\ req[d].rec.slug = disk[p].slug =>
                    req[d].repo = p /\ req[d].rec = disk[p]
      BY <2>5, <3>1 DEF KeptInv, Left
    <3>3. disk[p].slug \in Slug
      BY <1>1, <1>3, <3>1, Goods, Slugs
    <3>4. mounts'[disk[p].slug] = Nil
      BY <2>2, <3>2, <3>3
    <3> QED
      BY <2>3, <3>2, <3>4 DEF Removing
  <2>14. InPlace' /\ Booting'
    BY <1>1, <1>2, <1>3, <2>5 DEF KeptInv, InPlace, Booting
  <2> QED
    BY <2>7, <2>8, <2>9, <2>10, <2>11, <2>12, <2>13, <2>14 DEF KeptInv
<1> QED
  BY <1>4, <1>5

\* A store resolved is mounted, and so is what was: the default project, if it
\* has to be kept, was.
LEMMA ResolveKept ==
  ASSUME KeptInv, TableInv', NEW s \in Slug, ResolveProjectStore(s),
         up = "up", mu = Nil,
         UNCHANGED <<disk, registry, mu, up, todo, ids, served, recorded, contested>>,
         \/ UNCHANGED req
         \/ \E c \in Req :
              /\ \A d \in Req \ {c} : req'[d] = req[d]
              /\ \/ req'[c].at = "swap"
                 \/ /\ req'[c].at = "remove" /\ req'[c].slug = s
                    /\ req'[c].repo = mount'[mounts'[s]].repo
  PROVE  KeptInv'
<1>1. MountsTypeOK /\ TableInv
  BY DEF KeptInv, TableInv
<1>2. /\ Steady /\ OnlyAt(s)
      /\ mounts[s] = Nil =>
           /\ DefaultHosts(s) /\ mount'[mounts'[s]].repo = Default
           /\ mount'[mounts'[s]].id = disk[Default].id
      /\ mounts'[s] # Nil
  BY <1>1, ResolveSteady, Constants
<1>3. /\ \A x \in Slug : mounts[x] # Nil =>
           /\ mounts'[x] = mounts[x]
           /\ mount'[mounts[x]].repo = mount[mounts[x]].repo
           /\ mount'[mounts[x]].id = mount[mounts[x]].id
      /\ \A r \in Repo : Present(r) => Present(r)'
  BY <1>1, <1>2, SteadyPresent
<1>4. Kept' = Kept /\ Noted' = Noted /\ Kept \in SUBSET Repo /\ Noted \in SUBSET Repo
  BY <1>1, Goods DEF Kept, Noted
<1>5. \A x \in Slug : mounts'[x] # Nil =>
        \/ mounts[x] # Nil
        \/ mounts[x] = Nil /\ x = s
  BY <1>2 DEF OnlyAt
<1>6. ASSUME mounts[s] = Nil, NEW r \in Kept \cup Noted, disk[r].slug = s
      PROVE  r = Default /\ r \in Noted /\ ~ Present(r) /\ Present(r)'
  <2>1. r \in Repo /\ r \notin contested /\ disk[r] # Nil
    BY <1>1, <1>4, <1>6, Goods
  <2>2. r = Default
    BY <1>2, <1>6, <2>1, Constants DEF KeptInv, Apart, DefaultHosts
  <2>3. ~ Present(r)
    BY <1>6 DEF Present, Mounted
  <2>4. r \in Noted
    BY <1>6, <2>3 DEF KeptInv, InPlace
  <2>5. Present(r)'
    BY <1>2, <1>6, <2>1, <2>2 DEF Present, Mounted
  <2> QED
    BY <2>2, <2>3, <2>4, <2>5
<1>7. \A d \in Req : /\ req'[d].at \in {"insert", "load", "save", "drop"} => req'[d] = req[d]
                     /\ ~ Adding(d) /\ ~ Adding(d)'
  <2>1. \A d \in Req : ~ Adding(d)
    BY Constants DEF KeptInv, Mutex
  <2>2. \A d \in Req : req'[d].at \in {"insert", "load", "save", "drop"} => req'[d] = req[d]
    OBVIOUS
  <2> QED
    BY <2>1, <2>2 DEF Adding, Saving
<1>8. Mutex' /\ Alone'
  BY <1>7 DEF Mutex, Alone
<1>9. Undisturbed'
  BY <1>7 DEF Undisturbed, Adding, Saving
<1>10. Apart' /\ Registered'
  BY <1>4 DEF KeptInv, Apart, Registered
<1>11. Loaded'
  BY <1>4, <1>7 DEF KeptInv, Loaded, Overwrites
<1>12. Counted'
  <2>1. \A d \in Req : req'[d].at = "insert" => req'[d].rec.id <= ids'
    BY <1>7 DEF KeptInv, Counted
  <2>2. ASSUME NEW x \in Slug, mounts'[x] # Nil
        PROVE  mount'[mounts'[x]].id <= ids'
    <3>1. CASE mounts[x] # Nil
      BY <1>3, <3>1 DEF KeptInv, Counted
    <3>2. CASE mounts[x] = Nil /\ x = s
      <4>1. disk[Default].id <= ids
        BY <1>2, <3>2, Constants DEF KeptInv, Counted, DefaultHosts
      <4> QED
        BY <1>2, <3>2, <4>1
    <3> QED
      BY <1>5, <2>2, <3>1, <3>2
  <2>3. \A r \in Repo : disk'[r] # Nil => disk'[r].id <= ids'
    BY DEF KeptInv, Counted
  <2> QED
    BY <2>1, <2>2, <2>3 DEF Counted
<1>13. Aimed'
  <2>1. SUFFICES ASSUME NEW d \in Req, NEW r \in Kept \cup Noted, Against(d, r)'
                 PROVE  req'[d].at = "remove" /\ req'[d].repo = r
    BY <1>4 DEF Aimed
  <2>2. CASE req'[d] # req[d]
    <3>1. /\ req'[d].at = "remove" /\ req'[d].slug = s
          /\ req'[d].repo = mount'[mounts'[s]].repo
      BY <2>1, <2>2 DEF Against, Drops, Unlists, Removing, Saving
    <3>2. mount'[mounts'[s]].repo = r
      BY <2>1, <3>1 DEF Against, Drops, Unlists, Saving
    <3> QED
      BY <3>1, <3>2
  <2>3. CASE req'[d] = req[d]
    <3>1. Against(d, r)
      <4>1. CASE Unlists(d, r)'
        BY <2>3, <4>1 DEF Against, Unlists, Saving
      <4>2. CASE Drops(d, r)'
        <5>1. /\ Removing(d) /\ mounts'[req[d].slug] # Nil
              /\ mount'[mounts'[req[d].slug]].repo = r
          BY <2>3, <4>2 DEF Drops, Removing
        <5>2. req[d].slug \in Slug
          BY <1>1, <5>1, Carried DEF Removing
        <5>3. mounts[req[d].slug] # Nil
          <6>1. SUFFICES ASSUME mounts[s] = Nil, req[d].slug = s PROVE FALSE
            BY <1>5, <5>1, <5>2
          <6>2. r = Default /\ disk[r].slug = s
            BY <1>2, <5>1, <6>1 DEF DefaultHosts
          <6>3. r \in Noted /\ ~ Present(r)
            BY <1>6, <6>1, <6>2
          <6> QED
            BY <5>1, <6>1, <6>2, <6>3 DEF KeptInv, Left
        <5>4. mount[mounts[req[d].slug]].repo = r
          BY <1>3, <5>1, <5>2, <5>3
        <5> QED
          BY <5>1, <5>3, <5>4 DEF Against, Drops
      <4> QED
        BY <2>1, <4>1, <4>2 DEF Against
    <3> QED
      BY <2>1, <2>3, <3>1 DEF KeptInv, Aimed
  <2> QED
    BY <2>2, <2>3
<1>14. Left'
  <2>1. SUFFICES ASSUME NEW r \in Noted, ~ Present(r)'
                 PROVE  /\ mounts'[disk[r].slug] = Nil
                        /\ \A d \in Req :
                             /\ Removing(d)' => req'[d].slug # disk[r].slug
                             /\ req'[d].at = "insert" /\ req'[d].rec.slug = disk[r].slug =>
                                  req'[d].repo = r /\ req'[d].rec = disk[r]
    BY <1>4 DEF Left
  <2>2. r \in Repo /\ ~ Present(r) /\ disk[r].slug \in Slug
    BY <1>1, <1>3, <1>4, <2>1, Goods, Slugs
  <2>3. /\ mounts[disk[r].slug] = Nil
        /\ \A d \in Req :
             /\ Removing(d) => req[d].slug # disk[r].slug
             /\ req[d].at = "insert" /\ req[d].rec.slug = disk[r].slug =>
                  req[d].repo = r /\ req[d].rec = disk[r]
    BY <2>1, <2>2 DEF KeptInv, Left
  <2>4. disk[r].slug # s
    BY <1>6, <2>1, <2>3
  <2>5. mounts'[disk[r].slug] = Nil
    BY <1>5, <2>2, <2>3, <2>4
  <2>6. ASSUME NEW d \in Req, Removing(d)' PROVE req'[d].slug # disk[r].slug
    <3>1. req'[d] = req[d] \/ req'[d].slug = s
      BY <2>6 DEF Removing
    <3> QED
      BY <2>3, <2>4, <2>6, <3>1 DEF Removing
  <2> QED
    BY <1>7, <2>3, <2>5, <2>6
<1>15. InPlace' /\ Booting'
  BY <1>3, <1>4 DEF KeptInv, InPlace, Booting
<1> QED
  BY <1>8, <1>9, <1>10, <1>11, <1>12, <1>13, <1>14, <1>15 DEF KeptInv

LEMMA InsertKept ==
  ASSUME KeptInv, TableInv', NEW c \in Req, Insert(c)
  PROVE  KeptInv'
<1>0. SUFFICES ASSUME NEW s \in Slug, NEW r \in Repo, NEW rec \in Project,
                      s = rec.slug, r = req[c].repo, rec = req[c].rec
               PROVE  KeptInv'
  BY Carried DEF KeptInv, TableInv, Insert, Project
<1>1. /\ MountsTypeOK /\ TableInv /\ req[c].at = "insert" /\ mu = Nil
  BY DEF KeptInv, TableInv, Insert
<1>2. /\ UNCHANGED <<disk, registry, up, todo, ids, served, recorded>>
      /\ mu' = c
      /\ contested' = IF \E d \in Req \ {c} : Undoes(d, r, s)
                      THEN contested \cup {r} ELSE contested
  BY <1>0 DEF Insert, shared, service, bound
<1>3. /\ Steady /\ OnlyAt(s)
      /\ mounts'[s] \in Mount
      /\ mount'[mounts'[s]].repo = r /\ mount'[mounts'[s]].id = rec.id
  BY <1>0, <1>1, InsertSteady
<1>4. /\ \A d \in Req \ {c} : req'[d] = req[d]
      /\ req'[c] = [at |-> "load", repo |-> r, add |-> TRUE]
  <2>1. [at |-> "load", repo |-> r, add |-> TRUE] \in Doing
    BY DEF Doing, Registering
  <2>2. Goto(c, [at |-> "load", repo |-> r, add |-> TRUE])
    BY <1>0 DEF Insert
  <2> QED
    BY <1>1, <2>1, <2>2, Went
<1>5. /\ \A x \in Slug : mounts[x] # Nil =>
           /\ mounts'[x] = mounts[x]
           /\ mount'[mounts[x]].repo = mount[mounts[x]].repo
           /\ mount'[mounts[x]].id = mount[mounts[x]].id
      /\ \A q \in Repo : Present(q) => Present(q)'
  BY <1>1, <1>2, <1>3, SteadyPresent
<1>6. \A x \in Slug : mounts'[x] # Nil => mounts[x] # Nil \/ x = s
  BY <1>3 DEF OnlyAt
<1>7. /\ contested \subseteq contested'
      /\ \A q \in Kept' : q \in Kept /\ q \in Repo
      /\ \A q \in Noted' : q \in Noted /\ q \in Repo
  <2>1. contested \subseteq contested'
    BY <1>2
  <2>2. Kept' \subseteq Kept /\ Noted' \subseteq Noted
    BY <1>2, <2>1 DEF Kept, Noted
  <2> QED
    BY <1>1, <2>1, <2>2, Goods
<1>8. (\E d \in Req \ {c} : Undoes(d, r, s)) => r \in contested' /\ r \notin (Kept \cup Noted)'
  BY <1>2 DEF Kept, Noted
<1>9. \A d \in Req : ~ Adding(d) /\ (d # c => ~ Adding(d)')
  <2>1. \A d \in Req : ~ Adding(d)
    BY <1>1, Constants DEF KeptInv, Mutex
  <2> QED
    BY <1>4, <2>1 DEF Adding, Saving
<1>10. ASSUME NEW d \in Req, NEW q \in Repo, Against(d, q)'
       PROVE  d # c /\ (Against(d, q) \/ (q = r /\ Undoes(d, r, s)))
  <2>1. d # c /\ req'[d] = req[d]
    <3>1. ~ Removing(c)' /\ ~ Unlists(c, q)'
      BY <1>4 DEF Removing, Unlists
    <3> QED
      BY <1>4, <1>10, <3>1 DEF Against, Drops
  <2>2. CASE Unlists(d, q)'
    BY <2>1, <2>2 DEF Against, Unlists, Saving
  <2>3. CASE Drops(d, q)'
    <3>1. /\ Removing(d) /\ mounts'[req[d].slug] # Nil
          /\ mount'[mounts'[req[d].slug]].repo = q
      BY <2>1, <2>3 DEF Drops, Removing
    <3>2. req[d].slug \in Slug
      BY <1>1, <3>1, Carried DEF Removing
    <3>3. CASE mounts[req[d].slug] # Nil
      <4>1. mount[mounts[req[d].slug]].repo = q
        BY <1>5, <3>1, <3>2, <3>3
      <4> QED
        BY <2>1, <3>1, <3>3, <4>1 DEF Against, Drops
    <3>4. CASE mounts[req[d].slug] = Nil
      <4>1. req[d].slug = s
        BY <1>6, <3>1, <3>2, <3>4
      <4> QED
        BY <1>3, <2>1, <3>1, <4>1 DEF Undoes, Removing
    <3> QED
      BY <3>3, <3>4
  <2> QED
    BY <1>10, <2>2, <2>3 DEF Against
<1>11. \A d \in Req : Against(d, r) => Undoes(d, r, s)
  BY DEF Against, Drops, Unlists, Undoes, Removing, Saving
<1>12. Apart' /\ Registered'
  BY <1>2, <1>7 DEF KeptInv, Apart, Registered
<1>13. Counted'
  <2>1. rec.id <= ids
    BY <1>0, <1>1 DEF KeptInv, Counted
  <2>2. \A d \in Req : req'[d].at = "insert" => req'[d].rec.id <= ids'
    BY <1>2, <1>4 DEF KeptInv, Counted
  <2>3. \A x \in Slug : mounts'[x] # Nil => mount'[mounts'[x]].id <= ids'
    BY <1>2, <1>3, <1>5, <1>6, <2>1 DEF KeptInv, Counted
  <2>4. \A q \in Repo : disk'[q] # Nil => disk'[q].id <= ids'
    BY <1>2 DEF KeptInv, Counted
  <2> QED
    BY <2>2, <2>3, <2>4 DEF Counted
<1>14. Mutex'
  BY <1>2, <1>9 DEF Mutex
<1>15. Alone'
  <2>1. SUFFICES ASSUME NEW d \in Req, NEW e \in Req, Adding(d)',
                        (req[d].repo \notin contested)', Against(e, req[d].repo)'
                 PROVE  FALSE
    BY DEF Alone
  <2>2. req'[d].repo = r
    BY <1>4, <1>9, <2>1
  <2>3. \A q \in Repo : q = req'[d].repo => e # c /\ Undoes(e, r, s)
    BY <1>10, <1>11, <2>1, <2>2
  <2> QED
    BY <1>8, <2>1, <2>2, <2>3
<1>16. Undisturbed'
  BY <1>4, <1>9 DEF Undisturbed, Adding, Saving
<1>17. Loaded'
  BY <1>4, <1>7 DEF KeptInv, Loaded, Overwrites
<1>18. Aimed'
  <2>1. SUFFICES ASSUME NEW d \in Req, NEW q \in Kept' \cup Noted', Against(d, q)'
                 PROVE  req'[d].at = "remove" /\ req'[d].repo = q
    BY DEF Aimed
  <2>2. d # c /\ Against(d, q) /\ q \in Kept \cup Noted
    BY <1>7, <1>8, <1>10, <2>1
  <2> QED
    BY <1>4, <2>2 DEF KeptInv, Aimed
<1>19. Left'
  <2>1. SUFFICES ASSUME NEW q \in Noted', ~ Present(q)'
                 PROVE  /\ mounts'[disk[q].slug] = Nil
                        /\ \A d \in Req :
                             /\ Removing(d)' => req'[d].slug # disk[q].slug
                             /\ req'[d].at = "insert" /\ req'[d].rec.slug = disk[q].slug =>
                                  req'[d].repo = q /\ req'[d].rec = disk[q]
    BY <1>2 DEF Left
  <2>2. q \in Noted /\ q \in Repo /\ ~ Present(q) /\ disk[q].slug \in Slug /\ disk[q] # Nil
    BY <1>1, <1>5, <1>7, <2>1, Goods, Slugs
  <2>3. /\ mounts[disk[q].slug] = Nil
        /\ \A d \in Req :
             /\ Removing(d) => req[d].slug # disk[q].slug
             /\ req[d].at = "insert" /\ req[d].rec.slug = disk[q].slug =>
                  req[d].repo = q /\ req[d].rec = disk[q]
    BY <2>2 DEF KeptInv, Left
  <2>4. disk[q].slug # s
    <3>1. SUFFICES ASSUME disk[q].slug = s PROVE FALSE
      OBVIOUS
    <3>2. r = q /\ rec = disk[q]
      BY <1>0, <1>1, <2>3, <3>1
    <3>3. Present(q)'
      BY <1>2, <1>3, <2>2, <3>1, <3>2, Constants DEF Present, Mounted
    <3> QED
      BY <2>1, <3>3
  <2>5. mounts'[disk[q].slug] = Nil
    BY <1>6, <2>2, <2>3, <2>4
  <2> QED
    BY <1>4, <2>3, <2>5 DEF Removing
<1>20. InPlace'
  BY <1>2, <1>5, <1>7 DEF KeptInv, InPlace
<1>21. ASSUME up = "boot" PROVE BootAlone' /\ \A q \in Kept' : Awaited(q)'
  <2>1. /\ BootAlone /\ \A d \in Req \ {c} : req[d].at = "idle"
        /\ \A q \in Kept : Awaited(q)
    BY <1>1, <1>21, OneBoots
  <2>2. rec = disk[r]
    BY <1>0, <1>1, <2>1 DEF BootAlone
  <2>3. disk[r] # Nil
    BY <2>2, Absence
  <2>4. Mounted(s, r)'
    BY <1>0, <1>2, <1>3, <2>2, <2>3, Constants DEF Mounted
  <2>5. \A x \in Slug : mounts'[x] # Nil => Mounted(x, mount[mounts[x]].repo)'
    <3>1. SUFFICES ASSUME NEW x \in Slug, mounts'[x] # Nil
                   PROVE  Mounted(x, mount[mounts[x]].repo)'
      OBVIOUS
    <3>2. CASE mounts[x] # Nil
      BY <1>2, <1>5, <2>1, <3>2 DEF BootAlone, Mounted
    <3>3. CASE x = s
      BY <1>3, <2>4, <3>3 DEF Mounted
    <3> QED
      BY <1>6, <3>1, <3>2, <3>3
  <2>6. /\ \A d \in Req \ {c} : req'[d].at = "idle"
        /\ Adding(c)' /\ req'[c].at = "load"
    BY <1>4, <2>1 DEF Adding, Saving
  <2>7. BootAlone'
    BY <2>5, <2>6 DEF BootAlone
  <2>8. ASSUME NEW q \in Kept' PROVE Awaited(q)'
    <3>1. q \in Kept /\ q \in Repo
      BY <1>7, <2>8
    <3>2. q \in todo \/ Present(q) \/ q = r
      BY <1>0, <2>1, <3>1 DEF Awaited
    <3>3. CASE q = r
      <4>1. disk'[r].slug = s
        BY <1>0, <1>2, <2>2
      <4> QED
        BY <2>4, <3>3, <4>1 DEF Awaited, Present
    <3>4. CASE q \in todo \/ Present(q)
      BY <1>2, <1>5, <3>1, <3>4 DEF Awaited
    <3> QED
      BY <3>2, <3>3, <3>4
  <2> QED
    BY <2>7, <2>8
<1> QED
  BY <1>2, <1>12, <1>13, <1>14, <1>15, <1>16, <1>17, <1>18, <1>19, <1>20, <1>21
  DEF KeptInv, Booting

LEMMA RestartKept ==
  ASSUME KeptInv, TableInv', Restart
  PROVE  KeptInv'
<1> DEFINE default == IF Default # Nil /\ disk[Default] # Nil THEN {Default} ELSE {}
<1>1. MountsTypeOK
  BY DEF KeptInv, TableInv
<1>2. /\ UNCHANGED <<disk, registry, ids, recorded, contested>> /\ up' = "boot"
      /\ \/ todo' = registry \cup default /\ served' = recorded \cup (served \cap {Default})
         \/ todo' = default /\ served' = (served \cup recorded) \cap {Default}
      /\ mounts' = [s \in Slug |-> Nil] /\ mu' = Nil
      /\ req' = [c \in Req |-> NoCall]
  BY DEF Restart, Unmount, shared
<1>3. \A d \in Req : req'[d].at = "idle"
  BY <1>2, IdleCall
<1>4. Noted' = Noted /\ Noted \in SUBSET Repo /\ \A q \in Noted : disk[q] # Nil
  BY <1>1, <1>2, Goods DEF Noted
<1>5. Apart' /\ Registered'
  BY <1>2, <1>4 DEF KeptInv, Apart, Registered
<1>6. Counted'
  BY <1>2, <1>3 DEF KeptInv, Counted
<1>7. Mutex' /\ Alone' /\ Undisturbed' /\ Loaded' /\ Aimed' /\ InPlace'
  BY <1>2, <1>3
  DEF Mutex, Alone, Undisturbed, Loaded, Aimed, InPlace, Adding, Saving, Removing,
      Against, Drops, Unlists, Overwrites
<1>8. Left'
  <2>1. \A q \in Noted : disk[q].slug \in Slug
    BY <1>1, <1>4, Slugs
  <2>2. \A q \in Noted : mounts'[disk'[q].slug] = Nil
    BY <1>2, <2>1
  <2> QED
    BY <1>3, <1>4, <2>2 DEF Left, Removing
<1>9. BootAlone'
  BY <1>2, <1>3 DEF BootAlone
<1>10. ASSUME NEW q \in Kept' PROVE Awaited(q)'
  <2>1. q \in served' /\ q \notin contested /\ disk[q] # Nil
    BY <1>2, <1>10 DEF Kept
  <2>2. CASE q = Default
    <3>1. q \in default
      <4>1. served' \in SUBSET Repo
        BY DEF TableInv, MountsTypeOK
      <4> QED
        BY <2>1, <2>2, <4>1, Constants
    <3> QED
      BY <1>2, <3>1 DEF Awaited
  <2>3. CASE q # Default
    <3>1. q \in recorded /\ todo' = registry \cup default
      BY <1>2, <2>1, <2>3
    <3>2. q \in registry
      BY <2>1, <3>1 DEF KeptInv, Registered, Noted
    <3> QED
      BY <3>1, <3>2 DEF Awaited
  <2> QED
    BY <2>2, <2>3
<1> QED
  BY <1>5, <1>6, <1>7, <1>8, <1>9, <1>10 DEF KeptInv, Booting

LEMMA ResolvingKept ==
  ASSUME KeptInv, TableInv', NEW s \in Slug,
         Lookup(s) \/ \E c \in Req : Delete(c, s) \/ Reembed(c, s)
  PROVE  KeptInv'
<1>1. MountsTypeOK
  BY DEF KeptInv, TableInv
<1>2. /\ ResolveProjectStore(s) /\ up = "up" /\ mu = Nil
      /\ UNCHANGED <<disk, registry, mu, up, todo, ids, served, recorded, contested>>
  BY DEF Lookup, Delete, Reembed, Call, shared, service, bound
<1>3. mounts'[s] \in Mount /\ mount'[mounts'[s]] \in Held
  <2>1. /\ Steady /\ mounts'[s] \in Mount /\ mount'[mounts'[s]] # Nil
    BY <1>2, ResolveSteady DEF KeptInv
  <2> QED
    BY <2>1 DEF Steady
<1>4. CASE Lookup(s)
  BY <1>2, <1>4, ResolveKept DEF Lookup
<1>5. ASSUME NEW c \in Req, Delete(c, s) PROVE KeptInv'
  <2>1. [at |-> "remove", repo |-> mount'[mounts'[s]].repo, slug |-> s] \in Doing
    BY <1>3, Kinds DEF Doing, Deleting
  <2>2. /\ \A d \in Req \ {c} : req'[d] = req[d]
        /\ req'[c].at = "remove" /\ req'[c].slug = s
        /\ req'[c].repo = mount'[mounts'[s]].repo
    BY <1>1, <1>5, <2>1, Went DEF Delete
  <2> QED
    BY <1>2, <2>2, ResolveKept
<1>6. ASSUME NEW c \in Req, Reembed(c, s) PROVE KeptInv'
  <2>1. [at |-> "swap", m |-> mounts'[s]] \in Doing
    BY <1>3 DEF Doing, Reembedding
  <2>2. Goto(c, [at |-> "swap", m |-> mounts'[s]])
    BY <1>6 DEF Reembed
  <2>3. (\A d \in Req \ {c} : req'[d] = req[d]) /\ req'[c].at = "swap"
    BY <1>1, <2>1, <2>2, Went
  <2> QED
    BY <1>2, <2>3, ResolveKept
<1> QED
  BY <1>4, <1>5, <1>6

LEMMA KeptStep ==
  ASSUME KeptInv, [MountsNext]_mountsVars
  PROVE  KeptInv'
<1>1. TableInv'
  BY TableStep DEF KeptInv
<1>2. CASE \/ \E c \in Req : \/ \E r \in Repo : \/ \E s \in Slug : Create(c, r, s)
                                                \/ Register(c, r)
                             \/ SwapNothing(c) \/ Swap(c)
           \/ \E s \in Slug : CacheResolve(s) \/ PullEnds(s) \/ PullSwaps(s)
           \/ Close \/ StopWorkers \/ UNCHANGED mountsVars
  BY <1>1, <1>2, OtherKept
<1>3. CASE \E s \in Slug : Lookup(s) \/ \E c \in Req : Delete(c, s) \/ Reembed(c, s)
  BY <1>1, <1>3, ResolvingKept
<1>4. CASE \E c \in Req : \/ \E r \in Repo : BootMount(c, r)
                          \/ ReadProject(c) \/ InsertRefused(c) \/ RegisterFails(c)
                          \/ LoadRegistry(c)
  BY <1>1, <1>4, BootMountKept, ReadKept, RefusedKept, LoadKept
<1>5. CASE \E c \in Req : \/ CommitCreate(c) \/ Insert(c) \/ SaveRegistry(c)
                          \/ SaveFails(c) \/ RemoveFiles(c) \/ DropMount(c)
  BY <1>1, <1>5, CommitKept, InsertKept, SaveKept, SaveFailsKept, RemoveKept, DropKept
<1>6. CASE Restart \/ Booted
  BY <1>1, <1>6, RestartKept, BootedKept
<1> QED
  BY <1>2, <1>3, <1>4, <1>5, <1>6 DEF MountsNext

LEMMA KeptStart == MountsInit => KeptInv
<1> SUFFICES ASSUME MountsInit PROVE KeptInv
  OBVIOUS
<1>1. TableInv
  BY TableStart
<1>2. /\ disk = [r \in Repo |-> Nil] /\ mounts = [s \in Slug |-> Nil]
      /\ req = [c \in Req |-> NoCall] /\ up = "up"
  BY DEF MountsInit
<1>3. Kept = {} /\ Noted = {} /\ \A d \in Req : req[d].at = "idle"
  BY <1>2, IdleCall DEF MountsInit, Kept, Noted
<1>4. Apart /\ Counted /\ Mutex /\ Alone /\ Undisturbed
  BY <1>2, <1>3 DEF Apart, Counted, Mutex, Alone, Undisturbed, Adding, Saving
<1>5. Loaded /\ Registered /\ Aimed /\ Left /\ InPlace /\ Booting
  BY <1>2, <1>3 DEF Loaded, Registered, Aimed, Left, InPlace, Booting
<1> QED
  BY <1>1, <1>4, <1>5 DEF KeptInv

\* Whatever is created, registered, evicted, deleted, stopped and started again,
\* however these overlap, and whichever registrations and saves fail: an
\* uncontested project that the service has mounted stays mounted, and one whose
\* registration was saved stays in the registry, until its files are removed.
THEOREM ProjectsKept == MountsSpec => []KeptUntilDeleted
<1>1. KeptInv => KeptUntilDeleted
  BY DEF KeptInv, Registered, InPlace, KeptUntilDeleted, Kept, Noted, Present
<1> QED
  BY <1>1, KeptStart, KeptStep, PTL DEF MountsSpec
=============================================================================
