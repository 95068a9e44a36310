----------------------- MODULE AccountsAndPagesProofs -----------------------
(***************************************************************************)
(* Proofs about two components that share no state.                        *)
(*                                                                         *)
(* Accounts, for any identities, projects, invitations, requests and       *)
(* users.  The inductive invariant says what each request still knows when *)
(* it takes its next step (Requests), that the user first logged in is the *)
(* only one there was (FirstKnown), and what becomes of an invitation      *)
(* nobody raced for (Invitations).                                         *)
(*                                                                         *)
(* FrontEnd's calls, in any interleaving of any agents and browsers, and   *)
(* so in LivePages, which makes no others (PagesMakeCalls). What the       *)
(* tools and routes are made of is classified first (CleanWork,            *)
(* Repeatable): the invariant CallsInv then says of each call which of     *)
(* its changes have been made at each point of its work, its repetition    *)
(* included, and what an agent's call has met.                             *)
(*                                                                         *)
(* LivePages' page over those calls: PageInv follows each comment from its *)
(* placeholder to its row (Submission, Placeholders, Framing, Replaced),   *)
(* and ToldInv what is on its way to badges, buttons and thread.           *)
(***************************************************************************)
EXTENDS Accounts, LivePages, SequenceTheorems, FiniteSetTheorems, TLAPS

-----------------------------------------------------------------------------
(*                               Accounts                                  *)

Requests ==
  \A c \in Req :
    /\ req[c].pc \in {"write", "walk", "promote"} => req[c].user \in User
    /\ req[c].pc = "write" =>
         /\ lock = c
         /\ subject[req[c].user] \in {None, req[c].sub}
         /\ \A v \in User : subject[v] = req[c].sub => v = req[c].user
    /\ req[c].pc = "setRole" => MayDemote(req[c].actor, req[c].target, req[c].role)
    /\ req[c].pc = "remove" => MayRemove(req[c].actor, req[c].target)

FirstKnown ==
  \A u \in first : subject[u] # None /\ \A v \in first : u = v

Holds(c, i) == req[c].pc \in {"grant", "consume"} /\ req[c].inv = i

Invitations ==
  \A i \in Invite :
    /\ i \notin used =>
         /\ invites[i] = None /\ joined[i] = {}
         /\ \A c \in Req : ~ Holds(c, i)
    /\ i \notin raced =>
         /\ \A c, d \in Req : Holds(c, i) /\ Holds(d, i) => c = d
         /\ \A u, v \in joined[i] : u = v
         /\ joined[i] # {} =>
              /\ \A c \in Req : Holds(c, i) => req[c].pc = "consume"
              /\ invites[i] = None \/ \E c \in Req : Holds(c, i)

IInv ==
  /\ TypeOK /\ Requests /\ OneUserPerSubject /\ FirstKnown /\ Invitations

-----------------------------------------------------------------------------
LEMMA AtMostOne ==
  ASSUME NEW S, \A x, y \in S : x = y
  PROVE  Cardinality(S) <= 1
<1>1. CASE S = {}
  BY <1>1, FS_EmptySet
<1>2. CASE S # {}
  <2>1. PICK x : x \in S
    BY <1>2
  <2>2. S = {x}
    BY <2>1
  <2> QED
    BY <2>2, FS_Singleton
<1> QED
  BY <1>1, <1>2

\* What a request is doing tells which fields it has.
LEMMA Shape ==
  ASSUME TypeOK, NEW c \in Req
  PROVE  /\ req[c] \in Request
         /\ req[c].pc \in {"find", "write", "walk", "promote"}
              => req[c] \in LoggingIn
         /\ req[c].pc \in {"setRole", "remove"} => req[c] \in Managing
         /\ req[c].pc = "invite" => req[c] \in Inviting
         /\ req[c].pc = "cancel" => req[c] \in Cancelling
         /\ req[c].pc \in {"grant", "expire", "consume"}
              => req[c] \in Accepting
<1>1. req[c] \in Request
  BY DEF TypeOK
<1>2. CASE req[c] = Idle
  BY <1>1, <1>2 DEF Idle
<1>3. CASE req[c] \in LoggingIn
  BY <1>1, <1>3 DEF LoggingIn
<1>4. CASE req[c] \in Managing
  BY <1>1, <1>4 DEF Managing
<1>5. CASE req[c] \in Inviting
  BY <1>1, <1>5 DEF Inviting
<1>6. CASE req[c] \in Cancelling
  BY <1>1, <1>6 DEF Cancelling
<1>7. CASE req[c] \in Accepting
  BY <1>1, <1>7 DEF Accepting
<1> QED
  BY <1>1, <1>2, <1>3, <1>4, <1>5, <1>6, <1>7 DEF Request

LEMMA InitIInv == Init => IInv
<1> SUFFICES ASSUME Init PROVE IInv
  OBVIOUS
<1>1. TypeOK
  <2>1. subject \in [User -> Subject \cup {None}]
    BY DEF Init, User
  <2>2. role \in [Project -> [User -> 0..3]]
    BY DEF Init, User
  <2>3. cookie \in SUBSET User /\ admin \in Subject \cup {None}
    BY DEF Init
  <2>4. req \in [Req -> Request]
    BY DEF Init, Request
  <2> QED
    BY <2>1, <2>2, <2>3, <2>4 DEF Init, TypeOK
<1>2. \A c \in Req : req[c].pc = "idle"
  BY DEF Init, Idle
<1>3. Requests
  BY <1>2 DEF Requests
<1>4. OneUserPerSubject
  BY Constants DEF Init, OneUserPerSubject, User
<1>5. FirstKnown /\ Invitations
  BY <1>2 DEF Init, FirstKnown, Invitations, Holds
<1> QED
  BY <1>1, <1>3, <1>4, <1>5 DEF IInv

-----------------------------------------------------------------------------
LEMMA LoginStep ==
  ASSUME IInv, NEW c \in Req, NEW s \in Subject, Login(c, s)
  PROVE  IInv'
<1> USE DEF IInv
<1> DEFINE r == [pc |-> "find", sub |-> s, user |-> None, todo |-> {}]
<1>1. r \in Request /\ r.pc = "find"
  BY DEF Request, LoggingIn
<1>2. req' = [req EXCEPT ![c] = r]
      /\ UNCHANGED <<registry, lock, used, cookie, admin, ghost>>
      /\ req[c].pc = "idle"
  BY DEF Login, Idle
<1> HIDE DEF r
<1>3. TypeOK'
  BY <1>1, <1>2 DEF TypeOK, registry, ghost
<1>4. \A d \in Req : req'[d] = IF d = c THEN r ELSE req[d]
  BY <1>2 DEF TypeOK
<1>5. Requests' /\ OneUserPerSubject' /\ FirstKnown'
  BY <1>1, <1>2, <1>4 DEF Requests, OneUserPerSubject, FirstKnown, registry, ghost
<1>6. Invitations'
  BY <1>1, <1>2, <1>4 DEF Invitations, Holds, registry, ghost
<1> QED
  BY <1>3, <1>5, <1>6

LEMMA FindUserStep ==
  ASSUME IInv, NEW c \in Req, FindUser(c)
  PROVE  IInv'
<1> USE DEF IInv
<1> DEFINE known == {u \in User : subject[u] = req[c].sub}
<1>1. PICK u \in IF known # {} THEN known ELSE FreshUser(c) :
        req' = [req EXCEPT ![c].pc = "write", ![c].user = u]
  BY DEF FindUser
<1>2. req[c] \in LoggingIn /\ req[c].pc = "find" /\ lock = None /\ lock' = c
      /\ UNCHANGED <<registry, used, cookie, admin, ghost>>
  BY Shape DEF FindUser
<1>3. u \in User /\ subject[u] \in {None, req[c].sub}
      /\ \A v \in User : subject[v] = req[c].sub => v = u
  <2>1. req[c].sub \in Subject /\ req[c].sub # None
    BY <1>2, Constants DEF LoggingIn
  <2>2. CASE known # {}
    BY <1>1, <2>1, <2>2 DEF OneUserPerSubject
  <2>3. CASE known = {}
    BY <1>1, <2>3 DEF FreshUser
  <2> QED
    BY <2>2, <2>3
<1> DEFINE r == [req[c] EXCEPT !.pc = "write", !.user = u]
<1>4. r \in LoggingIn /\ r.pc = "write" /\ r.user = u /\ r.sub = req[c].sub
  BY <1>2, <1>3 DEF LoggingIn
<1>5. req' = [req EXCEPT ![c] = r]
  BY <1>1, <1>2 DEF TypeOK
<1> HIDE DEF r, known
<1>6. TypeOK'
  BY <1>2, <1>4, <1>5 DEF TypeOK, Request, registry, ghost
<1>7. \A d \in Req : req'[d] = IF d = c THEN r ELSE req[d]
  BY <1>5 DEF TypeOK
<1>8. \A d \in Req : req[d].pc # "write"
  BY <1>2, Constants DEF Requests
<1>9. Requests'
  BY <1>2, <1>3, <1>4, <1>7, <1>8 DEF Requests, registry
<1>10. OneUserPerSubject' /\ FirstKnown'
  BY <1>2 DEF OneUserPerSubject, FirstKnown, registry, ghost
<1>11. Invitations'
  BY <1>2, <1>4, <1>7 DEF Invitations, Holds, registry, ghost
<1> QED
  BY <1>6, <1>9, <1>10, <1>11

LEMMA WriteUserStep ==
  ASSUME IInv, NEW c \in Req, WriteUser(c)
  PROVE  IInv'
<1> USE DEF IInv
<1> DEFINE u == req[c].user
           s == req[c].sub
           r == [req[c] EXCEPT !.pc = "walk"]
<1>1. req[c] \in LoggingIn /\ req[c].pc = "write"
      /\ subject' = [subject EXCEPT ![u] = s] /\ lock' = None
      /\ UNCHANGED <<role, invites, used, cookie, admin, ghost>>
  BY Shape DEF WriteUser
<1>2. r \in LoggingIn /\ r.pc = "walk" /\ r.user = u
  BY <1>1 DEF LoggingIn
<1>3. req' = [req EXCEPT ![c] = r]
  BY <1>1 DEF WriteUser, Goto, TypeOK
<1>4. u \in User /\ s \in Subject /\ s # None /\ lock = c
      /\ \A v \in User : subject[v] = s => v = u
  BY <1>1, Constants DEF Requests, LoggingIn
<1> HIDE DEF r, u, s
<1>5. TypeOK'
  BY <1>1, <1>2, <1>3, <1>4 DEF TypeOK, Request, ghost
<1>6. \A d \in Req : req'[d] = IF d = c THEN r ELSE req[d]
  BY <1>3 DEF TypeOK
<1>7. \A d \in Req \ {c} : req[d].pc # "write"
  BY <1>4 DEF Requests
<1>8. \A v \in User : subject'[v] = IF v = u THEN s ELSE subject[v]
  BY <1>1, <1>4 DEF TypeOK
<1>9. Requests'
  BY <1>2, <1>4, <1>6, <1>7 DEF Requests
<1>10. OneUserPerSubject'
  BY <1>4, <1>8 DEF OneUserPerSubject
<1>11. FirstKnown'
  BY <1>1, <1>4, <1>8 DEF FirstKnown, ghost, TypeOK
<1>12. Invitations'
  BY <1>1, <1>2, <1>6 DEF Invitations, Holds, ghost
<1> QED
  BY <1>5, <1>9, <1>10, <1>11, <1>12

LEMMA BootstrapStep ==
  ASSUME IInv, NEW c \in Req, Bootstrap(c)
  PROVE  IInv'
<1> USE DEF IInv
<1> DEFINE u == req[c].user
           alone == {v \in User : subject[v] # None} = {u}
<1>1. req[c] \in LoggingIn /\ req[c].pc = "walk"
      /\ first' \in {first, first \cup {u}}
      /\ (first' # first => alone)
      /\ UNCHANGED <<registry, lock, used, cookie, admin, joined, raced>>
  BY Shape DEF Bootstrap
<1>2. u \in User
  BY <1>1 DEF Requests
<1>3. PICK r \in LoggingIn : /\ req' = [req EXCEPT ![c] = r]
                             /\ r.pc = "promote" /\ r.user = u
  <2>1. [req[c] EXCEPT !.pc = "promote", !.todo = Project] \in LoggingIn
        /\ [req[c] EXCEPT !.pc = "promote"] \in LoggingIn
    BY <1>1 DEF LoggingIn
  <2>2. \/ req' = [req EXCEPT ![c] = [req[c] EXCEPT !.pc = "promote",
                                                  !.todo = Project]]
        \/ req' = [req EXCEPT ![c] = [req[c] EXCEPT !.pc = "promote"]]
    BY DEF Bootstrap, Goto, TypeOK
  <2>3. [req[c] EXCEPT !.pc = "promote", !.todo = Project].pc = "promote"
        /\ [req[c] EXCEPT !.pc = "promote", !.todo = Project].user = u
        /\ [req[c] EXCEPT !.pc = "promote"].pc = "promote"
        /\ [req[c] EXCEPT !.pc = "promote"].user = u
    BY <1>1 DEF LoggingIn
  <2> QED
    BY <2>1, <2>2, <2>3
<1> HIDE DEF u
<1>4. TypeOK'
  BY <1>1, <1>2, <1>3 DEF TypeOK, Request, registry
<1>5. \A d \in Req : req'[d] = IF d = c THEN r ELSE req[d]
  BY <1>3 DEF TypeOK
<1>6. Requests'
  BY <1>1, <1>2, <1>3, <1>5 DEF Requests, registry
<1>7. OneUserPerSubject'
  BY <1>1 DEF OneUserPerSubject, registry
<1>8. FirstKnown'
  BY <1>1 DEF FirstKnown, registry, TypeOK
<1>9. Invitations'
  BY <1>1, <1>3, <1>5 DEF Invitations, Holds, registry
<1> QED
  BY <1>4, <1>6, <1>7, <1>8, <1>9

LEMMA PromoteStep ==
  ASSUME IInv, NEW c \in Req, Promote(c) \/ PromoteFails(c)
  PROVE  IInv'
<1> USE DEF IInv
<1>1. req[c] \in LoggingIn /\ req[c].pc = "promote" /\ req[c].user \in User
      /\ UNCHANGED <<subject, invites, lock, used, admin, ghost>>
  BY Shape DEF Promote, PromoteFails, Requests, registry
<1>2. PICK r \in Request :
        /\ req' = [req EXCEPT ![c] = r]
        /\ r.pc \in {"idle", "promote"}
        /\ r.pc = "promote" => r.user \in User
  <2>1. Idle \in Request /\ Idle.pc = "idle"
    BY DEF Request, Idle
  <2>2. \A T \in SUBSET Project :
          LET r == [req[c] EXCEPT !.todo = T]
          IN r \in Request /\ r.pc = "promote" /\ r.user \in User
    BY <1>1 DEF LoggingIn, Request
  <2>3. \/ req' = [req EXCEPT ![c] = Idle]
        \/ \E T \in SUBSET Project :
             req' = [req EXCEPT ![c] = [req[c] EXCEPT !.todo = T]]
    <3>1. req[c].todo \in SUBSET Project
      BY <1>1 DEF LoggingIn
    <3>2. CASE PromoteFails(c)
      <4>1. req' = [req EXCEPT ![c] = [req[c] EXCEPT !.todo = {}]]
        BY <3>2 DEF PromoteFails, TypeOK
      <4> QED
        BY <4>1
    <3>3. CASE Promote(c) /\ req[c].todo = {}
      BY <3>3 DEF Promote, Stop
    <3>4. CASE Promote(c) /\ req[c].todo # {}
      <4>1. PICK p \in req[c].todo : req' = [req EXCEPT ![c].todo = @ \ {p}]
        BY <3>4 DEF Promote
      <4>2. req' = [req EXCEPT ![c] = [req[c] EXCEPT !.todo = req[c].todo \ {p}]]
        BY <4>1 DEF TypeOK
      <4> QED
        BY <3>1, <4>2
    <3> QED
      BY <3>2, <3>3, <3>4
  <2> QED
    BY <2>1, <2>2, <2>3
<1>3. role' \in [Project -> [User -> 0..3]] /\ cookie' \in SUBSET User
  <2>1. CASE PromoteFails(c)
    BY <2>1 DEF PromoteFails, TypeOK, registry
  <2>2. CASE Promote(c) /\ req[c].todo = {}
    BY <1>1, <2>2 DEF Promote, TypeOK
  <2>3. CASE Promote(c) /\ req[c].todo # {}
    <3>1. PICK p \in req[c].todo : role' = [role EXCEPT ![p][req[c].user] = 3]
      BY <2>3 DEF Promote, Grant, Owner
    <3>2. p \in Project /\ cookie' = cookie
      BY <1>1, <2>3 DEF Promote, LoggingIn
    <3> QED
      BY <1>1, <3>1, <3>2 DEF TypeOK
  <2> QED
    BY <2>1, <2>2, <2>3
<1>4. TypeOK'
  BY <1>1, <1>2, <1>3 DEF TypeOK, ghost
<1>5. \A d \in Req : req'[d] = IF d = c THEN r ELSE req[d]
  BY <1>2 DEF TypeOK
<1>6. Requests'
  BY <1>1, <1>2, <1>5 DEF Requests
<1>7. OneUserPerSubject' /\ FirstKnown'
  BY <1>1 DEF OneUserPerSubject, FirstKnown, ghost
<1>8. Invitations'
  BY <1>1, <1>2, <1>5 DEF Invitations, Holds, ghost
<1> QED
  BY <1>4, <1>6, <1>7, <1>8

-----------------------------------------------------------------------------
LEMMA ManageStep ==
  ASSUME IInv, NEW c \in Req, NEW u \in User, NEW p \in Project, Manage(c, u, p)
  PROVE  IInv'
<1> USE DEF IInv
<1>1. req[c].pc = "idle"
      /\ UNCHANGED <<registry, lock, used, cookie, admin, ghost>>
  BY DEF Manage, Guarded, Idle
<1>2. PICK r \in Request :
        /\ req' = [req EXCEPT ![c] = r]
        /\ r.pc \in {"setRole", "remove", "invite", "cancel"}
        /\ r.pc = "setRole" => MayDemote(r.actor, r.target, r.role)
        /\ r.pc = "remove" => MayRemove(r.actor, r.target)
  <2>1. ASSUME NEW t \in User, NEW x \in Role, MayDemote(u, t, x),
               req' = [req EXCEPT ![c] = [pc |-> "setRole", actor |-> u,
                         project |-> p, target |-> t, role |-> x]]
        PROVE  \E r \in Request :
                 /\ req' = [req EXCEPT ![c] = r]
                 /\ r.pc = "setRole" /\ MayDemote(r.actor, r.target, r.role)
    <3> DEFINE r == [pc |-> "setRole", actor |-> u, project |-> p,
                  target |-> t, role |-> x]
    <3>1. r \in Request
      BY <2>1 DEF Request, Managing
    <3> QED
      BY <2>1, <3>1
  <2>2. ASSUME NEW t \in User, MayRemove(u, t),
               req' = [req EXCEPT ![c] = [pc |-> "remove", actor |-> u,
                         project |-> p, target |-> t, role |-> Viewer]]
        PROVE  \E r \in Request :
                 /\ req' = [req EXCEPT ![c] = r]
                 /\ r.pc = "remove" /\ MayRemove(r.actor, r.target)
    <3> DEFINE r == [pc |-> "remove", actor |-> u, project |-> p,
                  target |-> t, role |-> Viewer]
    <3>1. r \in Request
      BY <2>2 DEF Request, Managing, Viewer, Role
    <3> QED
      BY <2>2, <3>1
  <2>3. ASSUME NEW i \in Invite, NEW x \in Role,
               req' = [req EXCEPT ![c] = [pc |-> "invite", actor |-> u,
                         project |-> p, inv |-> i, role |-> x]]
        PROVE  \E r \in Request :
                 req' = [req EXCEPT ![c] = r] /\ r.pc = "invite"
    <3> DEFINE r == [pc |-> "invite", actor |-> u, project |-> p,
                  inv |-> i, role |-> x]
    <3>1. r \in Request
      BY <2>3 DEF Request, Inviting
    <3> QED
      BY <2>3, <3>1
  <2>4. ASSUME NEW i \in Invite,
               req' = [req EXCEPT ![c] = [pc |-> "cancel", actor |-> u,
                         project |-> p, inv |-> i]]
        PROVE  \E r \in Request :
                 req' = [req EXCEPT ![c] = r] /\ r.pc = "cancel"
    <3> DEFINE r == [pc |-> "cancel", actor |-> u, project |-> p,
                  inv |-> i]
    <3>1. r \in Request
      BY <2>4 DEF Request, Cancelling
    <3> QED
      BY <2>4, <3>1
  <2>5. used \subseteq Invite
    BY DEF TypeOK
  <2> QED
    BY <2>4, <2>5, <2>1, <2>2, <2>3 DEF Manage
<1>3. TypeOK'
  BY <1>1, <1>2 DEF TypeOK, registry, ghost
<1>4. \A d \in Req : req'[d] = IF d = c THEN r ELSE req[d]
  BY <1>2 DEF TypeOK
<1>5. Requests'
  BY <1>1, <1>2, <1>4 DEF Requests, registry
<1>6. OneUserPerSubject' /\ FirstKnown'
  BY <1>1 DEF OneUserPerSubject, FirstKnown, registry, ghost
<1>7. Invitations'
  BY <1>1, <1>2, <1>4 DEF Invitations, Holds, registry, ghost
<1> QED
  BY <1>3, <1>5, <1>6, <1>7

\* Requests that end: one of them is idle again, the others go on as they were.
LEMMA Ended ==
  ASSUME IInv, NEW c \in Req, Stop(c), req[c].pc \notin {"consume"},
         lock' \in {lock, IF lock = c THEN None ELSE lock},
         UNCHANGED <<subject, cookie, admin, first, joined>>,
         raced' = raced,
         role' \in [Project -> [User -> 0..3]],
         invites' \in [Invite -> Invitation \cup {None}],
         used' \in SUBSET Invite, used \subseteq used',
         \A i \in Invite : \/ invites'[i] \in {None, invites[i]}
                           \/ i \in used' \ used
  PROVE  IInv'
<1> USE DEF IInv
<1>1. Idle \in Request /\ Idle.pc = "idle"
  BY DEF Request, Idle
<1>2. TypeOK'
  BY <1>1 DEF TypeOK, Stop
<1>3. \A d \in Req : req'[d] = IF d = c THEN Idle ELSE req[d]
  BY DEF TypeOK, Stop
<1>4. Requests'
  BY <1>1, <1>3 DEF Requests
<1>5. OneUserPerSubject' /\ FirstKnown'
  BY DEF OneUserPerSubject, FirstKnown
<1>6. Invitations'
  <2>1. SUFFICES ASSUME NEW i \in Invite
                 PROVE  /\ i \notin used' =>
                             /\ invites'[i] = None /\ joined'[i] = {}
                             /\ \A d \in Req : ~ Holds(d, i)'
                        /\ i \notin raced' =>
                             /\ \A d, e \in Req :
                                  Holds(d, i)' /\ Holds(e, i)' => d = e
                             /\ \A u, v \in joined'[i] : u = v
                             /\ joined'[i] # {} =>
                                  /\ \A d \in Req :
                                       Holds(d, i)' => req'[d].pc = "consume"
                                  /\ \/ invites'[i] = None
                                     \/ \E d \in Req : Holds(d, i)'
    BY DEF Invitations
  <2>2. \A d \in Req : Holds(d, i)' <=> Holds(d, i) /\ d # c
    BY <1>1, <1>3 DEF Holds
  <2>3. \A d \in Req : Holds(d, i) /\ req[d].pc = "consume" => Holds(d, i)'
    BY <2>2
  <2>4. \A d \in Req : Holds(d, i)' => req'[d] = req[d]
    BY <1>3, <2>2
  <2>5. i \notin used => joined[i] = {} /\ \A d \in Req : ~ Holds(d, i)
    BY DEF Invitations
  <2> QED
    BY <2>2, <2>3, <2>4, <2>5 DEF Invitations
<1> QED
  BY <1>2, <1>4, <1>5, <1>6

LEMMA SetMemberRoleStep ==
  ASSUME IInv, NEW c \in Req, SetMemberRole(c)
  PROVE  IInv'
<1>1. req[c] \in Managing
  BY Shape DEF SetMemberRole, IInv
<1>2. role' \in [Project -> [User -> 0..3]]
  BY <1>1 DEF SetMemberRole, Grant, IInv, TypeOK, Managing, Role
<1>3. UNCHANGED <<invites, used>> /\ Stop(c) /\ req[c].pc = "setRole"
      /\ lock' = lock /\ UNCHANGED <<subject, cookie, admin, first, joined>>
      /\ raced' = raced
  BY DEF SetMemberRole, ghost
<1> QED
  BY <1>2, <1>3, Ended DEF IInv, TypeOK

LEMMA RemoveMemberStep ==
  ASSUME IInv, NEW c \in Req, RemoveMember(c)
  PROVE  IInv'
<1>1. req[c] \in Managing
  BY Shape DEF RemoveMember, IInv
<1>2. role' \in [Project -> [User -> 0..3]]
  BY <1>1 DEF RemoveMember, IInv, TypeOK, Managing
<1>3. UNCHANGED <<invites, used>> /\ Stop(c) /\ req[c].pc = "remove"
      /\ lock' = lock /\ UNCHANGED <<subject, cookie, admin, first, joined>>
      /\ raced' = raced
  BY DEF RemoveMember, ghost
<1> QED
  BY <1>2, <1>3, Ended DEF IInv, TypeOK

LEMMA CreateInvitationStep ==
  ASSUME IInv, NEW c \in Req, CreateInvitation(c)
  PROVE  IInv'
<1> DEFINE i == req[c].inv
           inv == [project |-> req[c].project, role |-> req[c].role,
                   expired |-> FALSE]
<1>1. req[c] \in Inviting
  BY Shape DEF CreateInvitation, IInv
<1>2. i \in Invite /\ inv \in Invitation
  BY <1>1 DEF Inviting, Invitation
<1>3. used' = used \cup {i} /\ invites' = [invites EXCEPT ![i] = inv]
      /\ i \notin used
      /\ UNCHANGED role /\ Stop(c) /\ req[c].pc = "invite"
      /\ lock' = lock /\ UNCHANGED <<subject, cookie, admin, first, joined>>
      /\ raced' = raced
  BY DEF CreateInvitation, ghost
<1> HIDE DEF i, inv
<1>4. invites' \in [Invite -> Invitation \cup {None}] /\ used' \in SUBSET Invite
      /\ used \subseteq used'
      /\ \A j \in Invite : j \in used' \ used \/ invites'[j] = invites[j]
  BY <1>2, <1>3 DEF IInv, TypeOK
<1> QED
  BY <1>3, <1>4, Ended DEF IInv, TypeOK

LEMMA CancelInvitationStep ==
  ASSUME IInv, NEW c \in Req, CancelInvitation(c)
  PROVE  IInv'
<1>1. UNCHANGED <<role, used>> /\ Stop(c) /\ req[c].pc = "cancel"
      /\ lock' = lock /\ UNCHANGED <<subject, cookie, admin, first, joined>>
      /\ raced' = raced
      /\ invites' \in {invites, [invites EXCEPT ![req[c].inv] = None]}
  BY DEF CancelInvitation, ghost
<1>2. invites' \in [Invite -> Invitation \cup {None}]
      /\ \A i \in Invite : invites'[i] \in {None, invites[i]}
  BY <1>1 DEF IInv, TypeOK
<1> QED
  BY <1>1, <1>2, Ended DEF IInv, TypeOK

-----------------------------------------------------------------------------
LEMMA FindByTokenStep ==
  ASSUME IInv, NEW c \in Req, NEW u \in User, NEW i \in Invite,
         FindByToken(c, u, i)
  PROVE  IInv'
<1> USE DEF IInv
<1> DEFINE r == [pc |-> IF invites[i].expired THEN "expire" ELSE "grant",
                 actor |-> u, inv |-> i, project |-> invites[i].project,
                 role |-> invites[i].role]
<1>1. invites[i] # None /\ req[c].pc = "idle" /\ req' = [req EXCEPT ![c] = r]
      /\ raced' = (IF Holders(c, i) # {} THEN raced \cup {i} ELSE raced)
      /\ UNCHANGED <<registry, lock, used, cookie, admin, first, joined>>
  BY DEF FindByToken, Idle
<1>2. invites[i] \in Invitation
  BY <1>1 DEF TypeOK
<1>3. r \in Request /\ r.pc \in {"expire", "grant"} /\ r.inv = i
  BY <1>2 DEF Request, Accepting, Invitation
<1> HIDE DEF r
<1>4. TypeOK'
  BY <1>1, <1>3 DEF TypeOK, registry
<1>5. \A d \in Req : req'[d] = IF d = c THEN r ELSE req[d]
  BY <1>1 DEF TypeOK
<1>6. Requests'
  BY <1>1, <1>3, <1>5 DEF Requests, registry
<1>7. OneUserPerSubject' /\ FirstKnown'
  BY <1>1 DEF OneUserPerSubject, FirstKnown, registry
<1>8. ASSUME NEW j \in Invite, j # i
      PROVE  \A d \in Req : (Holds(d, j)' <=> Holds(d, j))
                            /\ (Holds(d, j) => req'[d] = req[d])
  BY <1>1, <1>3, <1>5, <1>8 DEF Holds
<1>9. \A d \in Req \ {c} : Holds(d, i)' <=> Holds(d, i)
  BY <1>5 DEF Holds
<1>10. i \in used
  BY <1>1 DEF Invitations
<1>11. CASE i \in raced'
  <2>1. \A j \in Invite : j \notin raced' => j # i /\ j \notin raced
    BY <1>1, <1>11
  <2> QED
    BY <1>1, <1>4, <1>6, <1>7, <1>8, <1>10, <2>1 DEF Invitations, registry
<1>12. CASE i \notin raced'
  <2>1. i \notin raced /\ \A d \in Req \ {c} : ~ Holds(d, i)
    BY <1>1, <1>12 DEF Holders, Holds
  <2>2. ~ Holds(c, i)
    BY <1>1 DEF Holds
  <2>3. joined[i] = {}
    BY <1>1, <2>1, <2>2 DEF Invitations
  <2>4. \A d \in Req : Holds(d, i)' => d = c
    BY <1>9, <2>1
  <2>5. Invitations'
    BY <1>1, <1>8, <1>10, <1>12, <2>1, <2>3, <2>4 DEF Invitations, registry
  <2> QED
    BY <1>4, <1>6, <1>7, <2>5
<1> QED
  BY <1>11, <1>12

LEMMA GrantInvitedStep ==
  ASSUME IInv, NEW c \in Req, GrantInvited(c)
  PROVE  IInv'
<1> USE DEF IInv
<1> DEFINE i == req[c].inv
           u == req[c].actor
           r == [req[c] EXCEPT !.pc = "consume"]
<1>1. req[c] \in Accepting /\ req[c].pc = "grant"
      /\ joined' = [joined EXCEPT ![i] = @ \cup {u}]
      /\ UNCHANGED <<subject, invites, lock, used, cookie, admin, first, raced>>
  BY Shape DEF GrantInvited
<1>2. i \in Invite /\ u \in User /\ role' \in [Project -> [User -> 0..3]]
  BY <1>1 DEF GrantInvited, Grant, Accepting, TypeOK, Role
<1>3. r \in Accepting /\ r.pc = "consume" /\ r.inv = i
  BY <1>1 DEF Accepting
<1>4. req' = [req EXCEPT ![c] = r]
  BY DEF GrantInvited, Goto, TypeOK
<1>5. Holds(c, i)
  BY <1>1 DEF Holds
<1> HIDE DEF r, u, i
<1>6. TypeOK'
  BY <1>1, <1>2, <1>3, <1>4 DEF TypeOK, Request
<1>7. \A d \in Req : req'[d] = IF d = c THEN r ELSE req[d]
  BY <1>4 DEF TypeOK
<1>8. Requests'
  BY <1>1, <1>3, <1>7 DEF Requests
<1>9. OneUserPerSubject' /\ FirstKnown'
  BY <1>1 DEF OneUserPerSubject, FirstKnown
<1>10. \A j \in Invite, d \in Req : Holds(d, j)' <=> Holds(d, j)
  BY <1>1, <1>3, <1>7 DEF Holds, i
<1>11. \A j \in Invite \ {i} : joined'[j] = joined[j]
  BY <1>1, <1>2 DEF TypeOK
<1>12. joined'[i] = joined[i] \cup {u}
  BY <1>1, <1>2 DEF TypeOK
<1>13. i \in used
  BY <1>2, <1>5 DEF Invitations
<1>14. i \notin raced => joined[i] = {}
  BY <1>1, <1>2, <1>5 DEF Invitations
<1>15. \A j \in Invite, d \in Req : Holds(d, j)' =>
         req'[d].pc = "consume" \/ (d # c /\ req'[d] = req[d])
  BY <1>3, <1>7
<1>16. Invitations'
  <2>1. SUFFICES ASSUME NEW j \in Invite
                 PROVE  /\ j \notin used' =>
                             /\ invites'[j] = None /\ joined'[j] = {}
                             /\ \A d \in Req : ~ Holds(d, j)'
                        /\ j \notin raced' =>
                             /\ \A d, e \in Req :
                                  Holds(d, j)' /\ Holds(e, j)' => d = e
                             /\ \A x, y \in joined'[j] : x = y
                             /\ joined'[j] # {} =>
                                  /\ \A d \in Req :
                                       Holds(d, j)' => req'[d].pc = "consume"
                                  /\ \/ invites'[j] = None
                                     \/ \E d \in Req : Holds(d, j)'
    BY DEF Invitations
  <2>2. CASE j = i
    <3>1. i \notin raced => \A d \in Req : Holds(d, i) => d = c
      BY <1>2, <1>5 DEF Invitations
    <3>2. req'[c].pc = "consume"
      BY <1>3, <1>7
    <3> QED
      BY <1>1, <1>5, <1>10, <1>12, <1>13, <1>14, <2>2, <3>1, <3>2
  <2>3. CASE j # i
    BY <1>1, <1>10, <1>11, <1>15, <2>3 DEF Invitations
  <2> QED
    BY <2>2, <2>3
<1> QED
  BY <1>6, <1>8, <1>9, <1>16

LEMMA ConsumeStep ==
  ASSUME IInv, NEW c \in Req, Consume(c)
  PROVE  IInv'
<1> USE DEF IInv
<1> DEFINE i == req[c].inv
<1>1. req[c] \in Accepting /\ invites' = [invites EXCEPT ![i] = None]
      /\ req' = [req EXCEPT ![c] = Idle]
      /\ UNCHANGED <<subject, role, lock, used, cookie, admin, ghost>>
  BY Shape DEF Consume, Stop
<1>2. i \in Invite
  BY <1>1 DEF Accepting
<1>3. Idle \in Request /\ Idle.pc = "idle"
  BY DEF Request, Idle
<1> HIDE DEF i
<1>4. TypeOK'
  BY <1>1, <1>2, <1>3 DEF TypeOK, ghost
<1>5. \A d \in Req : req'[d] = IF d = c THEN Idle ELSE req[d]
  BY <1>1 DEF TypeOK
<1>6. Requests'
  BY <1>1, <1>3, <1>5 DEF Requests
<1>7. OneUserPerSubject' /\ FirstKnown'
  BY <1>1 DEF OneUserPerSubject, FirstKnown, ghost
<1>8. \A j \in Invite, d \in Req : Holds(d, j)' <=> Holds(d, j) /\ d # c
  BY <1>3, <1>5 DEF Holds
<1>9. \A j \in Invite \ {i} : invites'[j] = invites[j] /\ ~ Holds(c, j)
  BY <1>1, <1>2 DEF TypeOK, Holds, i
<1>10. invites'[i] = None
  BY <1>1, <1>2 DEF TypeOK
<1>11. \A j \in Invite, d \in Req : Holds(d, j)' => req'[d] = req[d]
  BY <1>5, <1>8
<1>12. Invitations'
  <2>1. SUFFICES ASSUME NEW j \in Invite
                 PROVE  /\ j \notin used' =>
                             /\ invites'[j] = None /\ joined'[j] = {}
                             /\ \A d \in Req : ~ Holds(d, j)'
                        /\ j \notin raced' =>
                             /\ \A d, e \in Req :
                                  Holds(d, j)' /\ Holds(e, j)' => d = e
                             /\ \A x, y \in joined'[j] : x = y
                             /\ joined'[j] # {} =>
                                  /\ \A d \in Req :
                                       Holds(d, j)' => req'[d].pc = "consume"
                                  /\ \/ invites'[j] = None
                                     \/ \E d \in Req : Holds(d, j)'
    BY DEF Invitations
  <2>2. CASE j = i
    BY <1>1, <1>8, <1>10, <1>11, <2>2 DEF Invitations, ghost
  <2>3. CASE j # i
    BY <1>1, <1>8, <1>9, <1>11, <2>3 DEF Invitations, ghost
  <2> QED
    BY <2>2, <2>3
<1> QED
  BY <1>4, <1>6, <1>7, <1>12

LEMMA FailStep ==
  ASSUME IInv, NEW c \in Req, Fail(c)
  PROVE  IInv'
<1> USE DEF IInv
<1>1. CASE req[c].pc # "consume"
  <2>1. Stop(c) /\ lock' = (IF lock = c THEN None ELSE lock) /\ raced' = raced
        /\ UNCHANGED <<registry, used, cookie, admin, first, joined>>
    BY <1>1 DEF Fail
  <2> QED
    BY <1>1, <2>1, Ended DEF TypeOK, registry
<1>2. CASE req[c].pc = "consume"
  <2> DEFINE i == req[c].inv
  <2>1. req[c] \in Accepting /\ raced' = raced \cup {i}
        /\ req' = [req EXCEPT ![c] = Idle]
        /\ lock' = (IF lock = c THEN None ELSE lock)
        /\ UNCHANGED <<registry, used, cookie, admin, first, joined>>
    BY <1>2, Shape DEF Fail, Stop
  <2>2. i \in Invite
    BY <2>1 DEF Accepting
  <2>3. Idle \in Request /\ Idle.pc = "idle"
    BY DEF Request, Idle
  <2> HIDE DEF i
  <2>4. TypeOK'
    BY <2>1, <2>2, <2>3 DEF TypeOK, registry
  <2>5. \A d \in Req : req'[d] = IF d = c THEN Idle ELSE req[d]
    BY <2>1 DEF TypeOK
  <2>6. Requests'
    BY <2>1, <2>3, <2>5 DEF Requests, registry
  <2>7. OneUserPerSubject' /\ FirstKnown'
    BY <2>1 DEF OneUserPerSubject, FirstKnown, registry
  <2>8. \A j \in Invite, d \in Req : Holds(d, j)' <=> Holds(d, j) /\ d # c
    BY <2>3, <2>5 DEF Holds
  <2>9. \A j \in Invite \ {i} : ~ Holds(c, j)
    BY DEF Holds, i
  <2>10. \A j \in Invite, d \in Req : Holds(d, j)' => req'[d] = req[d]
    BY <2>5, <2>8
  <2>11. \A j \in Invite : j \notin raced' => j # i /\ j \notin raced
    BY <2>1
  <2>12. Invitations'
    BY <2>1, <2>8, <2>9, <2>10, <2>11 DEF Invitations, registry
  <2> QED
    BY <2>4, <2>6, <2>7, <2>12
<1> QED
  BY <1>1, <1>2

LEMMA OutsideStep ==
  ASSUME IInv,
         \/ \E p \in Project, u \in User, r \in Role : GrantOwner(p, u, r)
         \/ \E i \in Invite : Expire(i)
  PROVE  IInv'
<1> USE DEF IInv
<1>1. UNCHANGED <<subject, lock, used, cookie, admin, req, ghost>>
  BY DEF GrantOwner, Expire
<1>2. role' \in [Project -> [User -> 0..3]]
      /\ invites' \in [Invite -> Invitation \cup {None}]
      /\ \A j \in Invite : invites[j] = None => invites'[j] = None
  <2>1. CASE \E p \in Project, u \in User, r \in Role : GrantOwner(p, u, r)
    BY <2>1 DEF GrantOwner, Grant, TypeOK, Role
  <2>2. CASE \E i \in Invite : Expire(i)
    <3>1. PICK i \in Invite : Expire(i)
      BY <2>2
    <3>2. invites[i] \in Invitation
      BY <3>1 DEF Expire, TypeOK
    <3>3. [invites[i] EXCEPT !.expired = TRUE] \in Invitation
      BY <3>2 DEF Invitation
    <3> QED
      BY <3>1, <3>3 DEF Expire, TypeOK
  <2> QED
    BY <2>1, <2>2
<1>3. TypeOK'
  BY <1>1, <1>2 DEF TypeOK, ghost
<1>4. Requests' /\ OneUserPerSubject' /\ FirstKnown'
  BY <1>1 DEF Requests, OneUserPerSubject, FirstKnown, ghost
<1>5. Invitations'
  BY <1>1, <1>2 DEF Invitations, Holds, ghost
<1> QED
  BY <1>3, <1>4, <1>5

LEMMA NextIInv == IInv /\ [Next]_vars => IInv'
<1> SUFFICES ASSUME IInv, [Next]_vars PROVE IInv'
  OBVIOUS
<1>1. CASE UNCHANGED vars
  BY <1>1 DEF IInv, TypeOK, Requests, OneUserPerSubject, FirstKnown,
              Invitations, Holds, vars, registry
<1>2. CASE \E c \in Req : ReqStep(c)
  BY <1>2, LoginStep, FindUserStep, WriteUserStep, BootstrapStep, PromoteStep,
     ManageStep, SetMemberRoleStep, RemoveMemberStep, CreateInvitationStep,
     CancelInvitationStep, FindByTokenStep, GrantInvitedStep, ConsumeStep,
     FailStep DEF ReqStep
<1>3. CASE \/ \E p \in Project, u \in User, r \in Role : GrantOwner(p, u, r)
           \/ \E i \in Invite : Expire(i)
  BY <1>3, OutsideStep
<1> QED
  BY <1>1, <1>2, <1>3 DEF Next

-----------------------------------------------------------------------------
THEOREM Invariance == Spec => []IInv
<1> QED
  BY InitIInv, NextIInv, PTL DEF Spec

\* Registries, requests and the lock stay within their types: a login past
\* upsertUser always has a user.
THEOREM TypeCorrect == Spec => []TypeOK
<1>1. IInv => TypeOK
  BY DEF IInv
<1> QED
  BY <1>1, Invariance, PTL

\* However first logins of one identity overlap, they make one account
\* (auth.go:175).
THEOREM OneAccount == Spec => []OneUserPerSubject
<1>1. IInv => OneUserPerSubject
  BY DEF IInv
<1> QED
  BY <1>1, Invariance, PTL

\* First-login-wins promotes at most one user, whatever fails half way.
THEOREM OneWinner == Spec => []OneFirstOwner
<1>1. IInv => OneFirstOwner
  BY AtMostOne DEF IInv, FirstKnown, OneFirstOwner
<1> QED
  BY <1>1, Invariance, PTL

\* A one-use token is used twice only by requests that held it together, or
\* after one that died before it deleted the invitation (invitations.go:169).
THEOREM UsedOnce == Spec => []AcceptedOnce
<1>1. IInv => AcceptedOnce
  <2>1. SUFFICES ASSUME IInv, NEW i \in Invite, i \notin raced
                 PROVE  ~ (Cardinality(joined[i]) > 1)
    BY DEF AcceptedOnce
  <2>2. \A u, v \in joined[i] : u = v
    BY <2>1 DEF IInv, Invitations
  <2>3. joined[i] \subseteq User
    BY <2>1 DEF IInv, TypeOK
  <2>4. Cardinality(joined[i]) <= 1 /\ Cardinality(joined[i]) \in Nat
    <3>1. IsFiniteSet(User)
      BY Constants, FS_Interval DEF User
    <3>2. IsFiniteSet(joined[i])
      BY <2>3, <3>1, FS_Subset
    <3> QED
      BY <2>2, <3>2, AtMostOne, FS_CardinalityType
  <2> QED
    BY <2>4
<1> QED
  BY <1>1, Invariance, PTL

\* The owners' own pages never leave a project without an owner unless the role
\* they were judged by was gone when they wrote.
THEOREM LastOwnerStays == Spec => OwnerKept
<1> DEFINE A == \A p \in Project :
                  Owned(p) /\ ~ Owned(p)' =>
                    Outdated(p) \/ StepsDown(p) \/ req' = req
<1>1. IInv /\ [Next]_vars => [A]_vars
  <2>1. SUFFICES ASSUME IInv, Next, NEW p \in Project, Owned(p), ~ Owned(p)'
                 PROVE  Outdated(p) \/ StepsDown(p) \/ req' = req
    OBVIOUS
  <2>2. role # role'
    BY <2>1 DEF Owned
  <2>3. CASE \E q \in Project, u \in User, r \in Role : GrantOwner(q, u, r)
    BY <2>3 DEF GrantOwner
  <2>4. CASE \E i \in Invite : Expire(i)
    BY <2>2, <2>4 DEF Expire
  <2>5. CASE \E c \in Req : ReqStep(c)
    <3>1. PICK c \in Req : ReqStep(c)
      BY <2>5
    <3>2. Promote(c) \/ SetMemberRole(c) \/ RemoveMember(c) \/ GrantInvited(c)
      BY <2>2, <3>1 DEF ReqStep, Login, FindUser, WriteUser, Bootstrap,
         PromoteFails, Manage, CreateInvitation, CancelInvitation, FindByToken,
         Consume, Fail, registry
    <3>3. role \in [Project -> [User -> 0..3]] /\ req \in [Req -> Request]
      BY <2>1 DEF IInv, TypeOK
    <3>4. CASE Promote(c)
      <4>1. PICK q \in req[c].todo : role' = [role EXCEPT ![q][req[c].user] = Owner]
        BY <2>2, <3>4 DEF Promote, Grant
      <4>2. req[c].user \in User /\ q \in Project
        BY <2>1, <3>4, Shape DEF Promote, IInv, Requests, LoggingIn
      <4>3. PICK u \in User : role[p][u] = Owner
        BY <2>1 DEF Owned
      <4>4. role'[p][u] = Owner
        BY <3>3, <4>1, <4>2, <4>3
      <4> QED
        BY <2>1, <4>4 DEF Owned
    <3>5. CASE SetMemberRole(c) \/ RemoveMember(c)
      <4> DEFINE q == req[c].project
                 t == req[c].target
                 u == req[c].actor
      <4>1. req[c] \in Managing /\ req'[c] = Idle
        BY <2>1, <3>3, <3>5, Shape DEF SetMemberRole, RemoveMember, Stop, IInv
      <4>2. q \in Project /\ t \in User /\ u \in User
            /\ req[c].pc \in {"setRole", "remove"}
        BY <3>5, <4>1 DEF Managing, SetMemberRole, RemoveMember
      <4>3. role' = [role EXCEPT ![q][t] =
                       IF req[c].pc = "setRole" THEN req[c].role ELSE 0]
        BY <3>5 DEF SetMemberRole, RemoveMember, Grant
      <4>4. u = t => req[c].pc = "setRole" /\ req[c].role = Owner
        BY <2>1, <4>2 DEF IInv, Requests, MayDemote, MayRemove
      <4> HIDE DEF q, t, u
      <4>5. q = p
        BY <2>1, <3>3, <4>2, <4>3 DEF Owned
      <4>6. role[p][u] # Owner
        <5>1. SUFFICES ASSUME role[p][u] = Owner PROVE FALSE
          OBVIOUS
        <5>2. role'[p][u] = Owner
          BY <3>3, <4>2, <4>3, <4>4, <4>5, <5>1
        <5> QED
          BY <2>1, <4>2, <5>2 DEF Owned
      <4> QED
        BY <4>1, <4>2, <4>5, <4>6 DEF Outdated, q, u
    <3>6. CASE GrantInvited(c)
      <4> DEFINE q == req[c].project
      <4>1. req[c] \in Accepting /\ req[c].pc = "grant"
        BY <2>1, <3>6, Shape DEF GrantInvited, IInv
      <4>2. req'[c].pc = "consume"
        BY <3>3, <3>6, <4>1 DEF GrantInvited, Goto, Accepting
      <4>3. role' = [role EXCEPT ![q][req[c].actor] = req[c].role]
        BY <3>6 DEF GrantInvited, Grant
      <4>4. q = p
        BY <2>1, <3>3, <4>3 DEF Owned
      <4> QED
        BY <4>1, <4>2, <4>4 DEF StepsDown
    <3> QED
      BY <3>2, <3>4, <3>5, <3>6
  <2> QED
    BY <2>1, <2>3, <2>4, <2>5 DEF Next
<1> HIDE DEF A
<1>2. Spec => [][A]_vars
  BY Invariance, <1>1, PTL DEF Spec
<1> QED
  BY <1>2 DEF A, OwnerKept

-----------------------------------------------------------------------------
(*                           FrontEnd, LivePages                           *)

(* What tools and routes are made of.                                      *)

Effects ==
  {"none", "column", "archived", "kind", "comment", "ticket", "other ticket", "text",
   "place", "removal", "phase", "project", "mount", "policy", "embeddings", "settings",
   "retrievals", "rating", "agent", "session", "user", "member", "invitation"}
Stretches == [asks : BOOLEAN, does : Effects, skip : BOOLEAN]

\* Work that changes nothing; whose errors are all noted; of which no error that
\* ends the call comes after a change.
QuietWork == {w \in Seq(Stretches) : \A i \in DOMAIN w : w[i].does = "none"}
NotedWork == {w \in Seq(Stretches) : \A i \in DOMAIN w : w[i].skip}
CleanWork ==
  {w \in Seq(Stretches) : \A i, j \in DOMAIN w :
     i < j /\ w[i].does # "none" => w[j].skip}

LEMMA Kinds ==
  /\ QuietWork \subseteq CleanWork /\ NotedWork \subseteq CleanWork
  /\ CleanWork \subseteq Seq(Stretches)
  /\ <<>> \in QuietWork \cap NotedWork
<1>1. QuietWork \subseteq CleanWork /\ NotedWork \subseteq CleanWork
  BY DEF QuietWork, NotedWork, CleanWork
<1>2. <<>> \in Seq(Stretches) /\ DOMAIN <<>> = {}
  BY EmptySeq, LenProperties
<1> QED
  BY <1>1, <1>2 DEF QuietWork, NotedWork, CleanWork

\* One stretch.
LEMMA Single ==
  /\ \A asks \in BOOLEAN, does \in Effects :
       <<[asks |-> asks, does |-> does, skip |-> FALSE]>> \in CleanWork
  /\ \A asks \in BOOLEAN :
       <<[asks |-> asks, does |-> "none", skip |-> FALSE]>> \in QuietWork
<1>1. ASSUME NEW asks \in BOOLEAN, NEW does \in Effects,
             NEW w, w = <<[asks |-> asks, does |-> does, skip |-> FALSE]>>
      PROVE  w \in CleanWork /\ (does = "none" => w \in QuietWork)
  <2>1. w \in Seq(Stretches) /\ DOMAIN w = {1} /\ w[1].does = does
    BY <1>1 DEF Stretches
  <2> QED
    BY <2>1 DEF CleanWork, QuietWork
<1>2. \A asks \in BOOLEAN, does \in Effects :
        <<[asks |-> asks, does |-> does, skip |-> FALSE]>> \in CleanWork
  BY <1>1
<1>3. ASSUME NEW asks \in BOOLEAN
      PROVE  <<[asks |-> asks, does |-> "none", skip |-> FALSE]>> \in QuietWork
  <2> DEFINE w == <<[asks |-> asks, does |-> "none", skip |-> FALSE]>>
  <2> DEFINE r == [asks |-> asks, does |-> "none", skip |-> FALSE]
  <2>3. r \in Stretches /\ r.does = "none"
    <3>1. "none" \in Effects
      BY DEF Effects
    <3> QED
      BY <3>1 DEF Stretches
  <2> HIDE DEF r
  <2>1. w \in Seq(Stretches) /\ DOMAIN w = {1} /\ w[1].does = "none"
    <3>1. w = <<r>>
      BY DEF r
    <3> HIDE DEF w
    <3> QED
      BY <3>1, <2>3
  <2> HIDE DEF w
  <2>2. w \in QuietWork
    BY <2>1 DEF QuietWork
  <2> QED
    BY <2>2 DEF w
<1> QED
  BY <1>2, <1>3

\* Two pieces of work, one after the other.
LEMMA Joined ==
  ASSUME NEW a \in Seq(Stretches), NEW b \in Seq(Stretches)
  PROVE  /\ a \in QuietWork /\ b \in QuietWork => a \o b \in QuietWork
         /\ a \in NotedWork /\ b \in NotedWork => a \o b \in NotedWork
         /\ a \in QuietWork /\ b \in CleanWork => a \o b \in CleanWork
         /\ a \in CleanWork /\ b \in NotedWork => a \o b \in CleanWork
<1>1. PICK w \in Seq(Stretches) : w = a \o b
  BY ConcatProperties
<1>2. /\ DOMAIN w = 1 .. Len(a) + Len(b) /\ DOMAIN a = 1 .. Len(a)
      /\ DOMAIN b = 1 .. Len(b) /\ Len(a) \in Nat /\ Len(b) \in Nat
  BY <1>1, ConcatProperties, LenProperties
<1>3. \A i \in DOMAIN w : \/ i \in DOMAIN a /\ w[i] = a[i]
                          \/ i - Len(a) \in DOMAIN b /\ w[i] = b[i - Len(a)] /\ i > Len(a)
  BY <1>1, <1>2, ConcatProperties
<1>4. a \in QuietWork /\ b \in QuietWork => w \in QuietWork
  BY <1>3 DEF QuietWork
<1>5. a \in NotedWork /\ b \in NotedWork => w \in NotedWork
  BY <1>3 DEF NotedWork
<1>6. ASSUME a \in QuietWork, b \in CleanWork PROVE w \in CleanWork
  <2>1. SUFFICES ASSUME NEW i \in DOMAIN w, NEW j \in DOMAIN w, i < j, w[i].does # "none"
                 PROVE  w[j].skip
    BY DEF CleanWork
  <2>2. i - Len(a) \in DOMAIN b /\ w[i] = b[i - Len(a)] /\ i > Len(a)
    BY <1>3, <1>6, <2>1 DEF QuietWork
  <2>3. j - Len(a) \in DOMAIN b /\ w[j] = b[j - Len(a)] /\ i - Len(a) < j - Len(a)
    BY <1>2, <1>3, <2>1, <2>2
  <2> QED
    BY <1>6, <2>1, <2>2, <2>3 DEF CleanWork
<1>7. ASSUME a \in CleanWork, b \in NotedWork PROVE w \in CleanWork
  <2>1. SUFFICES ASSUME NEW i \in DOMAIN w, NEW j \in DOMAIN w, i < j, w[i].does # "none"
                 PROVE  w[j].skip
    BY DEF CleanWork
  <2>2. CASE j \in DOMAIN a /\ w[j] = a[j]
    <3>1. i \in DOMAIN a /\ w[i] = a[i]
      BY <1>2, <1>3, <2>1, <2>2
    <3> QED
      BY <1>7, <2>1, <2>2, <3>1 DEF CleanWork
  <2>3. CASE j - Len(a) \in DOMAIN b /\ w[j] = b[j - Len(a)]
    BY <1>7, <2>3 DEF NotedWork
  <2> QED
    BY <1>3, <2>2, <2>3
<1> QED
  BY <1>1, <1>4, <1>5, <1>6, <1>7

\* Work whose errors the caller notes.
LEMMA Noted ==
  ASSUME NEW w \in Seq(Stretches),
         NEW t, t = [i \in DOMAIN w |-> [w[i] EXCEPT !.skip = TRUE]]
  PROVE  t \in NotedWork /\ (w \in QuietWork => t \in QuietWork)
<1>1. Len(w) \in Nat /\ DOMAIN w = 1 .. Len(w)
  BY LenProperties
<1>2. \A i \in DOMAIN w : /\ w[i] \in Stretches /\ t[i] \in Stretches
                          /\ t[i].skip /\ t[i].does = w[i].does
  <2>1. SUFFICES ASSUME NEW i \in DOMAIN w
                 PROVE  /\ w[i] \in Stretches /\ t[i] \in Stretches
                        /\ t[i].skip /\ t[i].does = w[i].does
    OBVIOUS
  <2>2. w[i] \in Stretches
    BY <1>1, ElementOfSeq
  <2>3. t[i] = [w[i] EXCEPT !.skip = TRUE]
    BY <2>1
  <2> QED
    BY <2>2, <2>3 DEF Stretches
<1>3. t \in Seq(Stretches) /\ DOMAIN t = DOMAIN w
  BY <1>1, <1>2, SeqDef
<1> QED
  BY <1>2, <1>3 DEF NotedWork, QuietWork

\* The rules by which a handler's work is judged.
LEMMA Rules ==
  /\ \A a, b \in Seq(Stretches) : a \o b \in Seq(Stretches)
  /\ \A a, b \in QuietWork : a \o b \in QuietWork
  /\ \A a, b \in NotedWork : a \o b \in NotedWork
  /\ \A a \in QuietWork, b \in CleanWork : a \o b \in CleanWork
  /\ \A a \in CleanWork, b \in NotedWork : a \o b \in CleanWork
  /\ \A a \in QuietWork \cup NotedWork : a \in CleanWork
  /\ \A a \in CleanWork \cup QuietWork \cup NotedWork : a \in Seq(Stretches)
  /\ <<>> \in QuietWork \cap NotedWork
<1>1. \A a \in QuietWork \cup NotedWork : a \in CleanWork
  BY Kinds
<1>2. \A a \in CleanWork \cup QuietWork \cup NotedWork : a \in Seq(Stretches)
  BY Kinds
<1>3. \A a, b \in Seq(Stretches) : a \o b \in Seq(Stretches)
  BY ConcatProperties
<1>4. /\ \A a, b \in QuietWork : a \o b \in QuietWork
      /\ \A a, b \in NotedWork : a \o b \in NotedWork
  BY <1>2, Joined
<1>5. /\ \A a \in QuietWork, b \in CleanWork : a \o b \in CleanWork
      /\ \A a \in CleanWork, b \in NotedWork : a \o b \in CleanWork
  BY <1>2, Joined
<1> QED
  BY <1>1, <1>2, <1>3, <1>4, <1>5, Kinds

-----------------------------------------------------------------------------
(* Tools.                                                                  *)

LEMMA ToolParts ==
  /\ MCP!Read \in QuietWork /\ MCP!Asked \in QuietWork
  /\ \A x \in Effects : MCP!Write(x) \in CleanWork /\ MCP!Open(x) \in CleanWork
  /\ \A w \in Seq(Stretches) :
       MCP!Try(w) \in NotedWork /\ (w \in QuietWork => MCP!Try(w) \in QuietWork)
<1>1. MCP!Read \in QuietWork
  BY Single DEF MCP!Read, MCP!Stretch
<1>2. MCP!Asked \in QuietWork
  BY Single DEF MCP!Asked, MCP!Stretch
<1>3. \A x \in Effects : MCP!Write(x) \in CleanWork
  BY Single DEF MCP!Write, MCP!Stretch
<1>4. \A x \in Effects : MCP!Open(x) \in CleanWork
  BY Single DEF MCP!Open, MCP!Stretch
<1>5. \A w \in Seq(Stretches) :
        MCP!Try(w) \in NotedWork /\ (w \in QuietWork => MCP!Try(w) \in QuietWork)
  BY Noted DEF MCP!Try
<1> QED
  BY <1>1, <1>2, <1>3, <1>4, <1>5

LEMMA ToolOperations ==
  /\ {MCP!GetTicket, MCP!ListTickets, MCP!ResolveTicketRef, MCP!ListComments,
      MCP!ListCommentsScoped, MCP!GetPhase, MCP!ListPhases, MCP!ListWaves,
      MCP!GetProject, MCP!ListProjects, MCP!LoadProject, MCP!PreviewArchivePolicy} \subseteq QuietWork
  /\ {MCP!ArchiveEach, MCP!recordSearchRetrievals} \subseteq NotedWork
  /\ {MCP!CreateTicket, MCP!UpdateTicket, MCP!MoveTicket, MCP!CompleteTicket,
      MCP!ArchiveTicket, MCP!UnarchiveTicket, MCP!FlipIdeaToWork,
      MCP!AssignTicketToPhase, MCP!DeleteTicket, MCP!CreateComment, MCP!CreatePhase,
      MCP!UpdatePhase, MCP!DeletePhase, MCP!CreateProjectAt, MCP!UpdateProject,
      MCP!DeleteProject, MCP!RegisterProjectMount, MCP!ReembedProject,
      MCP!RegisterAgent, MCP!PromoteIdea, MCP!ArchivePhase, MCP!ApplyArchivePolicy,
      MCP!SearchTickets, MCP!SearchComments, MCP!SearchLearnings, MCP!RateSearchResult} \subseteq CleanWork
  /\ {MCP!PromoteInto} \subseteq Seq(Stretches)
<1>1. {MCP!GetTicket, MCP!ListTickets, MCP!ResolveTicketRef, MCP!ListComments,
       MCP!ListCommentsScoped, MCP!GetPhase, MCP!ListPhases, MCP!ListWaves,
       MCP!GetProject, MCP!ListProjects, MCP!LoadProject} \subseteq QuietWork
  BY ToolParts
  DEF MCP!GetTicket, MCP!ListTickets, MCP!ResolveTicketRef, MCP!ListComments,
      MCP!ListCommentsScoped, MCP!GetPhase, MCP!ListPhases, MCP!ListWaves,
      MCP!GetProject, MCP!ListProjects, MCP!LoadProject
<1>2. {MCP!CreateTicket, MCP!UpdateTicket, MCP!MoveTicket, MCP!CompleteTicket,
       MCP!ArchiveTicket, MCP!UnarchiveTicket, MCP!FlipIdeaToWork,
       MCP!AssignTicketToPhase, MCP!DeleteTicket, MCP!CreateComment, MCP!CreatePhase,
       MCP!UpdatePhase, MCP!DeletePhase, MCP!CreateProjectAt, MCP!UpdateProject,
       MCP!DeleteProject, MCP!RegisterProjectMount, MCP!ReembedProject,
       MCP!RegisterAgent} \subseteq CleanWork
  BY ToolParts
  DEF MCP!CreateTicket, MCP!UpdateTicket, MCP!MoveTicket, MCP!CompleteTicket,
      MCP!ArchiveTicket, MCP!UnarchiveTicket, MCP!FlipIdeaToWork,
      MCP!AssignTicketToPhase, MCP!DeleteTicket, MCP!CreateComment, MCP!CreatePhase,
      MCP!UpdatePhase, MCP!DeletePhase, MCP!CreateProjectAt, MCP!UpdateProject,
      MCP!DeleteProject, MCP!RegisterProjectMount, MCP!ReembedProject,
      MCP!RegisterAgent, Effects
<1>3. MCP!PreviewArchivePolicy \in QuietWork
  BY ToolParts, Rules, <1>1, <1>2
  DEF MCP!PreviewArchivePolicy
<1>4. MCP!ArchiveEach \in NotedWork
  BY ToolParts, Rules, <1>1, <1>2
  DEF MCP!ArchiveEach, Effects
<1>5. MCP!recordSearchRetrievals \in NotedWork
  BY ToolParts, Rules, <1>1, <1>2
  DEF MCP!recordSearchRetrievals, Effects
<1>6. MCP!PromoteIdea \in CleanWork
  BY ToolParts, Rules, <1>1, <1>2
  DEF MCP!PromoteIdea
<1>7. MCP!ArchivePhase \in CleanWork
  BY ToolParts, Rules, <1>1, <1>2, <1>4
  DEF MCP!ArchivePhase
<1>8. MCP!ApplyArchivePolicy \in CleanWork
  BY ToolParts, Rules, <1>1, <1>2, <1>3, <1>4
  DEF MCP!ApplyArchivePolicy
<1>9. MCP!SearchTickets \in CleanWork
  BY ToolParts, Rules, <1>1, <1>2, <1>5
  DEF MCP!SearchTickets
<1>10. MCP!SearchComments \in CleanWork
  BY ToolParts, Rules, <1>1, <1>2, <1>5
  DEF MCP!SearchComments
<1>11. MCP!SearchLearnings \in CleanWork
  BY ToolParts, Rules, <1>1, <1>2, <1>5
  DEF MCP!SearchLearnings
<1>12. MCP!RateSearchResult \in CleanWork
  BY ToolParts, Rules, <1>1, <1>2
  DEF MCP!RateSearchResult, Effects
<1>13. MCP!PromoteInto \in Seq(Stretches)
  BY ToolParts, Rules, <1>1, <1>2
  DEF MCP!PromoteInto
<1> QED
  BY <1>1, <1>2, <1>3, <1>4, <1>5, <1>6, <1>7, <1>8, <1>9, <1>10, <1>11, <1>12, <1>13

-----------------------------------------------------------------------------
(* What every tool keeps to.                                               *)

UnaskedWork == {w \in Seq(Stretches) : \A i \in DOMAIN w : ~ w[i].asks}

\* A stretch that may send the call back to its start comes after nothing that
\* could be done again.
Repeatable(w) ==
  \A i, j \in DOMAIN w : i < j /\ w[j].asks /\ ~ w[j].skip => w[i].does \in {"none", "kind"}

Trusty(shape) ==
  /\ shape.work \in Seq(Stretches)
  /\ shape \notin Halves => shape.work \in CleanWork
  /\ shape.way = "retried" => Repeatable(shape.work)
TrustyTool(shape) ==
  /\ Trusty(shape)
  /\ shape.way \in {"retried", "plain"}
  /\ shape.way = "plain" => shape.work \in UnaskedWork
TrustyRoute(shape) ==
  /\ Trusty(shape)
  /\ shape.way \in {"page", "form"}

LEMMA ToolRules ==
  /\ \A checks : \A w \in CleanWork : TrustyTool(MCP!Tool(checks, w))
  /\ \A checks : \A w \in CleanWork \cap UnaskedWork : TrustyTool(MCP!Plain(checks, w))
<1>1. \A w \in CleanWork : Repeatable(w) /\ w \in Seq(Stretches)
  BY DEF CleanWork, Repeatable
<1>2. ASSUME NEW checks, NEW w \in CleanWork PROVE TrustyTool(MCP!Tool(checks, w))
  BY <1>1 DEF MCP!Tool, TrustyTool, Trusty
<1>3. ASSUME NEW checks, NEW w \in CleanWork \cap UnaskedWork
      PROVE  TrustyTool(MCP!Plain(checks, w))
  BY <1>1 DEF MCP!Plain, TrustyTool, Trusty
<1> QED
  BY <1>2, <1>3

LEMMA Unasked ==
  /\ MCP!Read \in UnaskedWork
  /\ \A x \in Effects : MCP!Open(x) \in UnaskedWork
  /\ \A a, b \in UnaskedWork : a \o b \in UnaskedWork
<1>1. ASSUME NEW x \in Effects, NEW w, w = <<[asks |-> FALSE, does |-> x, skip |-> FALSE]>>
      PROVE  w \in UnaskedWork
  <2>1. w \in Seq(Stretches) /\ DOMAIN w = {1} /\ ~ w[1].asks
    BY <1>1 DEF Stretches
  <2> QED
    BY <2>1 DEF UnaskedWork
<1>2. \A x \in Effects : MCP!Open(x) \in UnaskedWork
  BY <1>1 DEF MCP!Open, MCP!Stretch
<1>3. MCP!Read \in UnaskedWork
  <2>1. "none" \in Effects
    BY DEF Effects
  <2>2. MCP!Read = MCP!Open("none")
    BY DEF MCP!Read, MCP!Open
  <2> QED
    BY <1>2, <2>1, <2>2
<1>4. ASSUME NEW a \in UnaskedWork, NEW b \in UnaskedWork PROVE a \o b \in UnaskedWork
  <2>1. a \in Seq(Stretches) /\ b \in Seq(Stretches)
    BY DEF UnaskedWork
  <2>2. PICK w \in Seq(Stretches) : w = a \o b
    BY <2>1, ConcatProperties
  <2>3. /\ DOMAIN w = 1 .. Len(a) + Len(b) /\ DOMAIN a = 1 .. Len(a)
        /\ DOMAIN b = 1 .. Len(b) /\ Len(a) \in Nat /\ Len(b) \in Nat
    BY <2>1, <2>2, ConcatProperties, LenProperties
  <2>4. \A i \in DOMAIN w : \/ i \in DOMAIN a /\ w[i] = a[i]
                            \/ i - Len(a) \in DOMAIN b /\ w[i] = b[i - Len(a)]
    BY <2>1, <2>2, <2>3, ConcatProperties
  <2>5. w \in UnaskedWork
    BY <2>4 DEF UnaskedWork
  <2> QED
    BY <2>2, <2>5
<1> QED
  BY <1>2, <1>3, <1>4

LEMMA ToolShapes == \A shape \in MCP!RegisterAll : TrustyTool(shape)
<1>1. /\ TrustyTool(MCP!handleListProjects)
      /\ TrustyTool(MCP!handleGetProject)
      /\ TrustyTool(MCP!handleGetProjectSummary)
      /\ TrustyTool(MCP!handleLoadProject)
      /\ TrustyTool(MCP!handleUpdateProject)
      /\ TrustyTool(MCP!handleDeleteProject)
      /\ TrustyTool(MCP!handleReembedProject)
      /\ TrustyTool(MCP!handleListPhases)
  BY ToolOperations, ToolParts, ToolRules, Rules
  DEF MCP!handleListProjects, MCP!handleGetProject, MCP!handleGetProjectSummary,
      MCP!handleLoadProject, MCP!handleUpdateProject, MCP!handleDeleteProject,
      MCP!handleReembedProject, MCP!handleListPhases
<1>2. /\ TrustyTool(MCP!handleCreatePhase)
      /\ TrustyTool(MCP!handleGetPhase)
      /\ TrustyTool(MCP!handleGetPhaseSummary)
      /\ TrustyTool(MCP!handleUpdatePhase)
      /\ TrustyTool(MCP!handleDeletePhase)
      /\ TrustyTool(MCP!handleArchivePhase)
      /\ TrustyTool(MCP!handleListWaves)
      /\ TrustyTool(MCP!handleListTickets)
  BY ToolOperations, ToolParts, ToolRules, Rules
  DEF MCP!handleCreatePhase, MCP!handleGetPhase, MCP!handleGetPhaseSummary,
      MCP!handleUpdatePhase, MCP!handleDeletePhase, MCP!handleArchivePhase,
      MCP!handleListWaves, MCP!handleListTickets
<1>3. /\ TrustyTool(MCP!handleCreateTicket)
      /\ TrustyTool(MCP!handleGetTicket)
      /\ TrustyTool(MCP!handleUpdateTicket)
      /\ TrustyTool(MCP!handleMoveTicket)
      /\ TrustyTool(MCP!handleCompleteTicket)
      /\ TrustyTool(MCP!handleAssignTicketToPhase)
      /\ TrustyTool(MCP!handleArchiveTicket)
      /\ TrustyTool(MCP!handleUnarchiveTicket)
  BY ToolOperations, ToolParts, ToolRules, Rules
  DEF MCP!handleCreateTicket, MCP!handleGetTicket, MCP!handleUpdateTicket,
      MCP!handleMoveTicket, MCP!handleCompleteTicket, MCP!handleAssignTicketToPhase,
      MCP!handleArchiveTicket, MCP!handleUnarchiveTicket, MCP!archiveFlipHandler
<1>4. /\ TrustyTool(MCP!handleCreateIdea)
      /\ TrustyTool(MCP!handleListIdeas)
      /\ TrustyTool(MCP!handleSearchIdeas)
      /\ TrustyTool(MCP!handleDeleteTicket)
      /\ TrustyTool(MCP!handleAddComment)
      /\ TrustyTool(MCP!handleListComments)
      /\ TrustyTool(MCP!handleListCommentsScoped)
      /\ TrustyTool(MCP!handleRateSearchResult)
  BY ToolOperations, ToolParts, ToolRules, Rules
  DEF MCP!handleCreateIdea, MCP!handleListIdeas, MCP!handleSearchIdeas,
      MCP!handleDeleteTicket, MCP!handleAddComment, MCP!handleListComments,
      MCP!handleListCommentsScoped, MCP!handleRateSearchResult
<1>5. /\ TrustyTool(MCP!handleSearchTickets)
      /\ TrustyTool(MCP!handleSearchLearnings)
      /\ TrustyTool(MCP!handleSearchComments)
  BY ToolOperations, ToolParts, ToolRules, Rules
  DEF MCP!handleSearchTickets, MCP!handleSearchLearnings, MCP!handleSearchComments
<1>6. /\ TrustyTool(MCP!handleCreateProject)
      /\ TrustyTool(MCP!handleWhoAmI)
  BY ToolOperations, ToolParts, ToolRules, Rules, Unasked
  DEF MCP!handleCreateProject, MCP!handleWhoAmI, MCP!CreateProjectAt, Effects
<1>7. TrustyTool(MCP!handleRegisterAgent)
  <2> DEFINE w == MCP!RegisterProjectMount \o MCP!RegisterAgent \o MCP!Open("session")
  <2>1. /\ MCP!RegisterProjectMount \in UnaskedWork /\ MCP!RegisterAgent \in UnaskedWork
        /\ MCP!Open("session") \in UnaskedWork
    BY Unasked DEF MCP!RegisterProjectMount, MCP!RegisterAgent, Effects
  <2>2. w \in UnaskedWork
    BY <2>1, Unasked
  <2>3. MCP!handleRegisterAgent \in Halves
    BY DEF Halves
  <2>4. MCP!handleRegisterAgent.work = w /\ MCP!handleRegisterAgent.way = "plain"
    BY DEF MCP!handleRegisterAgent, MCP!Plain
  <2> QED
    BY <2>2, <2>3, <2>4 DEF TrustyTool, Trusty, UnaskedWork
<1>8. \A commit \in BOOLEAN : TrustyTool(MCP!handleApplyArchivePolicy(commit))
  BY ToolOperations, ToolRules, Rules DEF MCP!handleApplyArchivePolicy
<1>9. TrustyTool(MCP!handlePromoteIdea(FALSE))
  BY ToolOperations, ToolRules, Rules DEF MCP!handlePromoteIdea
<1>10. TrustyTool(MCP!handlePromoteIdea(TRUE))
  <2>1. MCP!handlePromoteIdea(TRUE) \in Halves
    BY DEF Halves
  <2>2. /\ MCP!handlePromoteIdea(TRUE).work = MCP!PromoteInto
        /\ MCP!handlePromoteIdea(TRUE).way = "retried"
    BY DEF MCP!handlePromoteIdea, MCP!Tool
  <2>3. Repeatable(MCP!PromoteInto)
    BY DEF MCP!PromoteInto, MCP!FlipIdeaToWork, MCP!Read, MCP!AssignTicketToPhase, MCP!Write,
           MCP!Stretch, Repeatable
  <2> QED
    BY <2>1, <2>2, <2>3, ToolOperations DEF TrustyTool, Trusty
<1> QED
  BY <1>1, <1>2, <1>3, <1>4, <1>5, <1>6, <1>7, <1>8, <1>9, <1>10 DEF MCP!RegisterAll

-----------------------------------------------------------------------------
(* Routes.                                                                 *)

LEMMA RouteParts ==
  /\ Web!Read \in QuietWork /\ Web!Asked \in QuietWork
  /\ \A x \in Effects : Web!Write(x) \in CleanWork /\ Web!Open(x) \in CleanWork
  /\ \A w \in Seq(Stretches) :
       Web!Try(w) \in NotedWork /\ (w \in QuietWork => Web!Try(w) \in QuietWork)
<1>1. Web!Read \in QuietWork
  BY Single DEF Web!Read, Web!Stretch
<1>2. Web!Asked \in QuietWork
  BY Single DEF Web!Asked, Web!Stretch
<1>3. \A x \in Effects : Web!Write(x) \in CleanWork
  BY Single DEF Web!Write, Web!Stretch
<1>4. \A x \in Effects : Web!Open(x) \in CleanWork
  BY Single DEF Web!Open, Web!Stretch
<1>5. \A w \in Seq(Stretches) :
        Web!Try(w) \in NotedWork /\ (w \in QuietWork => Web!Try(w) \in QuietWork)
  BY Noted DEF Web!Try
<1> QED
  BY <1>1, <1>2, <1>3, <1>4, <1>5

LEMMA RouteOperations ==
  /\ {Web!GetTicket, Web!ListTickets, Web!ListComments, Web!GetPhase, Web!ListPhases,
      Web!GetProject, Web!ListProjects, Web!GetArchivePolicy, Web!FeedbackCounts,
      Web!ListAgents, Web!GetAgent, Web!AgentActivity, Web!AgentCurrentWork,
      Web!GetUserProfile, Web!ListProjectMembers, Web!ListInvitations,
      Web!PreviewArchivePolicy} \subseteq QuietWork
  /\ {Web!ArchiveEach, Web!recordSearchRetrievals, Web!ReembedAllProjects} \subseteq NotedWork
  /\ {Web!CreateTicket, Web!UpdateTicket, Web!MoveTicket, Web!CompleteTicket,
      Web!ArchiveTicket, Web!UnarchiveTicket, Web!FlipIdeaToWork,
      Web!AssignTicketToPhase, Web!DeleteTicket, Web!CreateComment, Web!CreatePhase,
      Web!UpdatePhase, Web!DeletePhase, Web!CreateProject, Web!UpdateProject,
      Web!DeleteProject, Web!RegisterProjectMount, Web!SetArchivePolicy,
      Web!ReembedProject, Web!SetMemberRole, Web!RemoveMember, Web!CreateInvitation,
      Web!CancelInvitation, Web!PromoteIdea, Web!ArchivePhase, Web!ApplyArchivePolicy,
      Web!SearchTickets, Web!SearchComments, Web!SearchLearnings} \subseteq CleanWork
  /\ {Web!PromoteInto, Web!UpdateEmbedder, Web!AcceptInvitation} \subseteq Seq(Stretches)
<1>1. {Web!GetTicket, Web!ListTickets, Web!ListComments, Web!GetPhase, Web!ListPhases,
       Web!GetProject, Web!ListProjects, Web!GetArchivePolicy, Web!FeedbackCounts,
       Web!ListAgents, Web!GetAgent, Web!AgentActivity, Web!AgentCurrentWork,
       Web!GetUserProfile, Web!ListProjectMembers, Web!ListInvitations} \subseteq QuietWork
  BY RouteParts
  DEF Web!GetTicket, Web!ListTickets, Web!ListComments, Web!GetPhase, Web!ListPhases,
      Web!GetProject, Web!ListProjects, Web!GetArchivePolicy, Web!FeedbackCounts,
      Web!ListAgents, Web!GetAgent, Web!AgentActivity, Web!AgentCurrentWork,
      Web!GetUserProfile, Web!ListProjectMembers, Web!ListInvitations
<1>2. {Web!CreateTicket, Web!UpdateTicket, Web!MoveTicket, Web!CompleteTicket,
       Web!ArchiveTicket, Web!UnarchiveTicket, Web!FlipIdeaToWork,
       Web!AssignTicketToPhase, Web!DeleteTicket, Web!CreateComment, Web!CreatePhase,
       Web!UpdatePhase, Web!DeletePhase, Web!CreateProject, Web!UpdateProject,
       Web!DeleteProject, Web!RegisterProjectMount, Web!SetArchivePolicy,
       Web!ReembedProject, Web!SetMemberRole, Web!RemoveMember, Web!CreateInvitation,
       Web!CancelInvitation} \subseteq CleanWork
  BY RouteParts
  DEF Web!CreateTicket, Web!UpdateTicket, Web!MoveTicket, Web!CompleteTicket,
      Web!ArchiveTicket, Web!UnarchiveTicket, Web!FlipIdeaToWork,
      Web!AssignTicketToPhase, Web!DeleteTicket, Web!CreateComment, Web!CreatePhase,
      Web!UpdatePhase, Web!DeletePhase, Web!CreateProject, Web!UpdateProject,
      Web!DeleteProject, Web!RegisterProjectMount, Web!SetArchivePolicy,
      Web!ReembedProject, Web!SetMemberRole, Web!RemoveMember, Web!CreateInvitation,
      Web!CancelInvitation, Effects
<1>3. Web!PreviewArchivePolicy \in QuietWork
  BY RouteParts, Rules, <1>1, <1>2
  DEF Web!PreviewArchivePolicy
<1>4. Web!ArchiveEach \in NotedWork
  BY RouteParts, Rules, <1>1, <1>2
  DEF Web!ArchiveEach, Effects
<1>5. Web!recordSearchRetrievals \in NotedWork
  BY RouteParts, Rules, <1>1, <1>2
  DEF Web!recordSearchRetrievals, Effects
<1>6. Web!ReembedAllProjects \in NotedWork
  BY RouteParts, Rules, <1>1, <1>2
  DEF Web!ReembedAllProjects
<1>7. Web!PromoteIdea \in CleanWork
  BY RouteParts, Rules, <1>1, <1>2
  DEF Web!PromoteIdea
<1>8. Web!ArchivePhase \in CleanWork
  BY RouteParts, Rules, <1>1, <1>2, <1>4
  DEF Web!ArchivePhase
<1>9. Web!ApplyArchivePolicy \in CleanWork
  BY RouteParts, Rules, <1>1, <1>2, <1>3, <1>4
  DEF Web!ApplyArchivePolicy
<1>10. Web!SearchTickets \in CleanWork
  BY RouteParts, Rules, <1>1, <1>2, <1>5
  DEF Web!SearchTickets
<1>11. Web!SearchComments \in CleanWork
  BY RouteParts, Rules, <1>1, <1>2, <1>5
  DEF Web!SearchComments
<1>12. Web!SearchLearnings \in CleanWork
  BY RouteParts, Rules, <1>1, <1>2, <1>5
  DEF Web!SearchLearnings
<1>13. Web!PromoteInto \in Seq(Stretches)
  BY RouteParts, Rules, <1>1, <1>2
  DEF Web!PromoteInto
<1>14. Web!UpdateEmbedder \in Seq(Stretches)
  BY RouteParts, Rules, <1>1, <1>2
  DEF Web!UpdateEmbedder
<1>15. Web!AcceptInvitation \in Seq(Stretches)
  BY RouteParts, Rules, <1>1, <1>2
  DEF Web!AcceptInvitation, Effects
<1> QED
  BY <1>1, <1>2, <1>3, <1>4, <1>5, <1>6, <1>7, <1>8, <1>9, <1>10, <1>11, <1>12, <1>13,
     <1>14, <1>15

LEMMA RouteRules ==
  /\ \A w \in CleanWork : TrustyRoute(Web!Page(w))
  /\ \A checks : \A w \in CleanWork : TrustyRoute(Web!Form(checks, w))
  /\ \A w \in Seq(Stretches) : Web!Page(w) \in Halves => TrustyRoute(Web!Page(w))
  /\ \A checks : \A w \in Seq(Stretches) :
       Web!Form(checks, w) \in Halves => TrustyRoute(Web!Form(checks, w))
<1>1. \A w \in CleanWork : w \in Seq(Stretches)
  BY DEF CleanWork
<1>2. ASSUME NEW w \in Seq(Stretches), w \in CleanWork \/ Web!Page(w) \in Halves
      PROVE  TrustyRoute(Web!Page(w))
  BY <1>1, <1>2 DEF Web!Page, TrustyRoute, Trusty
<1>3. ASSUME NEW checks, NEW w \in Seq(Stretches),
             w \in CleanWork \/ Web!Form(checks, w) \in Halves
      PROVE  TrustyRoute(Web!Form(checks, w))
  BY <1>1, <1>3 DEF Web!Form, TrustyRoute, Trusty
<1> QED
  BY <1>1, <1>2, <1>3

LEMMA RouteShapes == \A shape \in Web!Mount : TrustyRoute(shape)
<1>1. /\ TrustyRoute(Web!handleProjectDetail)
      /\ TrustyRoute(Web!handleProjectUpdate)
      /\ TrustyRoute(Web!handleProjectDelete)
      /\ TrustyRoute(Web!handleProjectSummaryView)
      /\ TrustyRoute(Web!handleSidebarPartial)
      /\ TrustyRoute(Web!handleProjectSettings)
      /\ TrustyRoute(Web!handleProjectReembed)
      /\ TrustyRoute(Web!handleGlobalSettings)
  BY RouteOperations, RouteParts, RouteRules, Rules
  DEF Web!handleProjectDetail, Web!handleProjectUpdate, Web!handleProjectDelete,
      Web!handleProjectSummaryView, Web!handleSidebarPartial,
      Web!handleProjectSettings, Web!handleProjectReembed, Web!handleGlobalSettings,
      Web!readEmbedStatus
<1>2. /\ TrustyRoute(Web!handleGlobalSettingsUpdate)
      /\ TrustyRoute(Web!handleReembedAll)
      /\ TrustyRoute(Web!handleSearchRate)
      /\ TrustyRoute(Web!handlePhasesIndex)
      /\ TrustyRoute(Web!handlePhaseNewForm)
      /\ TrustyRoute(Web!handlePhaseCreate)
      /\ TrustyRoute(Web!handlePhaseDetail)
      /\ TrustyRoute(Web!handlePhaseEditForm)
  BY RouteOperations, RouteParts, RouteRules, Rules
  DEF Web!handleGlobalSettingsUpdate, Web!handleReembedAll, Web!handleSearchRate,
      Web!handlePhasesIndex, Web!handlePhaseNewForm, Web!handlePhaseCreate,
      Web!handlePhaseDetail, Web!handlePhaseEditForm, Effects
<1>3. /\ TrustyRoute(Web!handlePhaseUpdate)
      /\ TrustyRoute(Web!handlePhaseDelete)
      /\ TrustyRoute(Web!handlePhaseArchive)
      /\ TrustyRoute(Web!handlePhaseSummaryView)
      /\ TrustyRoute(Web!handleAssignTicketToPhase)
      /\ TrustyRoute(Web!handleBoardRedirect)
      /\ TrustyRoute(Web!handleTicketNewForm)
      /\ TrustyRoute(Web!handleTicketCreate)
  BY RouteOperations, RouteParts, RouteRules, Rules
  DEF Web!handlePhaseUpdate, Web!handlePhaseDelete, Web!handlePhaseArchive,
      Web!handlePhaseSummaryView, Web!handleAssignTicketToPhase,
      Web!handleBoardRedirect, Web!handleTicketNewForm, Web!handleTicketCreate
<1>4. /\ TrustyRoute(Web!handleTicketDetail)
      /\ TrustyRoute(Web!handleTicketEditForm)
      /\ TrustyRoute(Web!handleTicketUpdate)
      /\ TrustyRoute(Web!handleTicketMove)
      /\ TrustyRoute(Web!handleTicketComplete)
      /\ TrustyRoute(Web!handleTicketArchive)
      /\ TrustyRoute(Web!handleTicketUnarchive)
      /\ TrustyRoute(Web!handleTicketDelete)
  BY RouteOperations, RouteParts, RouteRules, Rules
  DEF Web!handleTicketDetail, Web!handleTicketEditForm, Web!handleTicketUpdate,
      Web!handleTicketMove, Web!handleTicketComplete, Web!handleTicketArchive,
      Web!handleTicketUnarchive, Web!handleTicketDelete, Web!flipArchive,
      Web!dependencyLinks
<1>5. /\ TrustyRoute(Web!handleCommentsList)
      /\ TrustyRoute(Web!handleCommentCreate)
      /\ TrustyRoute(Web!handleMembersIndex)
      /\ TrustyRoute(Web!handleMemberInvite)
      /\ TrustyRoute(Web!handleMemberRole)
      /\ TrustyRoute(Web!handleMemberRemove)
      /\ TrustyRoute(Web!handleInviteCancel)
      /\ TrustyRoute(Web!handleAgentsIndex)
  BY RouteOperations, RouteParts, RouteRules, Rules
  DEF Web!handleCommentsList, Web!handleCommentCreate, Web!handleMembersIndex,
      Web!handleMemberInvite, Web!handleMemberRole, Web!handleMemberRemove,
      Web!handleInviteCancel, Web!handleAgentsIndex
<1>6. /\ TrustyRoute(Web!handleAgentDetail)
      /\ TrustyRoute(Web!handleUserDetail)
      /\ TrustyRoute(Web!handleHome)
      /\ TrustyRoute(Web!handleLogs)
      /\ TrustyRoute(Web!handleFSBrowse)
      /\ TrustyRoute(Web!handleLoginPage)
      /\ TrustyRoute(Web!handleAuthStart)
      /\ TrustyRoute(Web!handleAuthCallback)
  BY RouteOperations, RouteParts, RouteRules, Rules
  DEF Web!handleAgentDetail, Web!handleUserDetail, Web!handleHome, Web!handleLogs,
      Web!handleFSBrowse, Web!handleLoginPage, Web!handleAuthStart,
      Web!handleAuthCallback, Web!upsertUser, Web!maybeBootstrapAdmin, Effects
<1>7. /\ TrustyRoute(Web!handleLogout)
      /\ TrustyRoute(Web!handleProjectsIndex)
      /\ TrustyRoute(Web!handleProjectNewForm)
      /\ TrustyRoute(Web!handleProjectCreate)
      /\ TrustyRoute(Web!handleLoadProjectForm)
      /\ TrustyRoute(Web!handleLoadProjectMount)
  BY RouteOperations, RouteParts, RouteRules, Rules
  DEF Web!handleLogout, Web!handleProjectsIndex, Web!handleProjectNewForm,
      Web!handleProjectCreate, Web!handleLoadProjectForm, Web!handleLoadProjectMount
<1>8. TrustyRoute(Web!handleProjectSummaryUpdate)
  BY RouteOperations, RouteParts, RouteRules, Rules DEF Web!handleProjectSummaryUpdate, Halves
<1>9. TrustyRoute(Web!handlePhaseSummaryUpdate)
  BY RouteOperations, RouteParts, RouteRules, Rules DEF Web!handlePhaseSummaryUpdate, Halves
<1>10. TrustyRoute(Web!handleInviteAccept)
  BY RouteOperations, RouteParts, RouteRules, Rules DEF Web!handleInviteAccept, Halves
<1>11. \A embedder \in BOOLEAN : TrustyRoute(Web!handleProjectSettingsUpdate(embedder))
  BY RouteOperations, RouteRules, Rules DEF Web!handleProjectSettingsUpdate, Halves
<1>12. \A phase \in BOOLEAN : TrustyRoute(Web!handleTicketPromote(phase))
  BY RouteOperations, RouteRules, Rules DEF Web!handleTicketPromote, Halves
<1>13. \A action \in {"save", "preview", "apply"} : TrustyRoute(Web!handleArchivePolicy(action))
  BY RouteOperations, RouteParts, RouteRules, Rules
  DEF Web!handleArchivePolicy, Web!ArchiveAction
<1>14. \A kind \in {"tickets", "comments", "learnings"} :
        TrustyRoute(Web!handleProjectSearch(kind))
  BY RouteOperations, RouteParts, RouteRules, Rules
  DEF Web!handleProjectSearch, Web!runProjectSearch, Web!hitFeedbackCounts
<1> QED
  BY <1>1, <1>2, <1>3, <1>4, <1>5, <1>6, <1>7, <1>8, <1>9, <1>10, <1>11, <1>12, <1>13,
     <1>14 DEF Web!Mount

-----------------------------------------------------------------------------
(* A call, and what a step makes of it.                                    *)

ChangesOf(x) == {k \in DOMAIN x.doing.work : x.doing.work[k].does # "none"}
Unmade(x, k) == x.made[k] = 0

\* Only a promotion may meet its own change again, and only before a stretch
\* that can send it back.
Fresh(x, k) == x.doing \notin Halves \/ x.doing.work[k].does # "kind" => Unmade(x, k)

Formed(x) ==
  /\ x = [at |-> x.at, doing |-> x.doing, i |-> x.i, again |-> x.again,
          made |-> x.made, met |-> x.met]
  /\ x.at \in At \ {"idle"}
  /\ x.i \in 1 .. Len(x.doing.work) + 1
  /\ x.again \in BOOLEAN
  /\ x.made \in [DOMAIN x.doing.work -> Nat]

Orderly(x) ==
  /\ \A k \in ChangesOf(x) : x.made[k] <= 1
  /\ x.at = "checks" => x.i = 1 /\ ~ x.again /\ \A k \in ChangesOf(x) : Unmade(x, k)
  /\ x.at = "work" =>
       \A k \in ChangesOf(x) :
         /\ k < x.i /\ ~ x.doing.work[k].skip => x.made[k] > 0
         /\ k >= x.i => Fresh(x, k)
  /\ x.at = "renew" => x.doing.way = "retried" /\ \A k \in ChangesOf(x) : Fresh(x, k)
  /\ x.at = "ok" => \A k \in ChangesOf(x) : ~ x.doing.work[k].skip => x.made[k] > 0
  /\ x.at \in {"error", "refused"} /\ x.doing \notin Halves =>
       \A k \in ChangesOf(x) : Unmade(x, k)

Sane(x) == Formed(x) /\ Trusty(x.doing) /\ Orderly(x)

\* A stretch is done.
LEMMA DoingIt ==
  ASSUME NEW x, Sane(x), x.at = "work", x.i <= Len(x.doing.work),
         x.doing.work[x.i].does = "kind" =>
           \A k \in DOMAIN x.made : x.doing.work[k].does = "kind" => x.made[k] = 0,
         NEW y, y = [x EXCEPT !.i = @ + 1, !.made[x.i] = @ + 1]
  PROVE  Sane(y)
<1>1. /\ x.doing.work \in Seq(Stretches) /\ Len(x.doing.work) \in Nat
      /\ DOMAIN x.doing.work = 1 .. Len(x.doing.work) /\ x.i \in DOMAIN x.doing.work
  <2>1. x.doing.work \in Seq(Stretches)
    BY DEF Sane, Trusty
  <2>2. Len(x.doing.work) \in Nat /\ DOMAIN x.doing.work = 1 .. Len(x.doing.work)
    BY <2>1, LenProperties
  <2> QED
    BY <2>1, <2>2 DEF Sane, Formed
<1>2. y = [at |-> x.at, doing |-> x.doing, i |-> x.i + 1, again |-> x.again,
           made |-> [x.made EXCEPT ![x.i] = @ + 1], met |-> x.met]
  BY DEF Sane, Formed
<1>3. /\ y.at = x.at /\ y.doing = x.doing /\ y.i = x.i + 1 /\ y.again = x.again
      /\ y.made = [x.made EXCEPT ![x.i] = @ + 1] /\ y.met = x.met
      /\ y = [at |-> y.at, doing |-> y.doing, i |-> y.i, again |-> y.again,
              made |-> y.made, met |-> y.met]
  BY <1>2
<1>4. /\ y.made \in [DOMAIN x.doing.work -> Nat]
      /\ y.made[x.i] = x.made[x.i] + 1 /\ x.made[x.i] \in Nat
      /\ \A k \in DOMAIN x.doing.work \ {x.i} : y.made[k] = x.made[k]
  BY <1>1, <1>3 DEF Sane, Formed
<1>5. Formed(y)
  <2>1. x.i \in 1 .. Len(x.doing.work) + 1 /\ x.at \in At \ {"idle"} /\ x.again \in BOOLEAN
    BY DEF Sane, Formed
  <2>2. y.i \in 1 .. Len(y.doing.work) + 1
    BY <1>1, <1>3, <2>1
  <2> QED
    BY <1>3, <1>4, <2>1, <2>2 DEF Formed
<1>6. ChangesOf(y) = ChangesOf(x) /\ x.i \in Nat /\ ChangesOf(x) \subseteq 1 .. Len(x.doing.work)
  BY <1>1, <1>3 DEF ChangesOf
<1>7. x.i \in ChangesOf(x) => x.made[x.i] = 0
  BY <1>1 DEF Sane, Formed, Orderly, Fresh, Unmade, ChangesOf
<1>8. Orderly(y)
  <2>1. \A k \in ChangesOf(y) : y.made[k] <= 1
    BY <1>1, <1>4, <1>6, <1>7 DEF Sane, Orderly
  <2>2. ASSUME NEW k \in ChangesOf(y)
        PROVE  /\ k < y.i /\ ~ y.doing.work[k].skip => y.made[k] > 0
               /\ k >= y.i => Fresh(y, k)
    <3>1. CASE k = x.i
      BY <1>3, <1>4, <1>6, <3>1
    <3>2. CASE k # x.i
      BY <1>1, <1>3, <1>4, <1>6, <3>2 DEF Sane, Orderly, Fresh, Unmade
    <3> QED
      BY <3>1, <3>2
  <2> QED
    BY <1>3, <2>1, <2>2 DEF Orderly
<1> QED
  BY <1>3, <1>5, <1>8 DEF Sane

\* An error is noted, and the call goes on.
LEMMA GoingOn ==
  ASSUME NEW x, Sane(x), x.at = "work", x.i <= Len(x.doing.work), x.doing.work[x.i].skip,
         NEW y, y = [x EXCEPT !.i = @ + 1]
  PROVE  Sane(y)
<1>1. y = [at |-> x.at, doing |-> x.doing, i |-> x.i + 1, again |-> x.again,
           made |-> x.made, met |-> x.met]
  BY DEF Sane, Formed
<1>2. /\ y.at = x.at /\ y.doing = x.doing /\ y.i = x.i + 1 /\ y.again = x.again
      /\ y.made = x.made /\ y.met = x.met
      /\ y = [at |-> y.at, doing |-> y.doing, i |-> y.i, again |-> y.again,
              made |-> y.made, met |-> y.met]
  BY <1>1
<1>3. Len(x.doing.work) \in Nat /\ DOMAIN x.doing.work = 1 .. Len(x.doing.work)
  BY LenProperties DEF Sane, Trusty
<1>4. Formed(y)
  BY <1>2, <1>3 DEF Sane, Formed
<1>5. ChangesOf(y) = ChangesOf(x) /\ x.i \in Nat /\ ChangesOf(x) \subseteq Nat
  BY <1>2, <1>3 DEF Sane, Formed, ChangesOf
<1>6. Orderly(y)
  BY <1>2, <1>5 DEF Sane, Orderly, Fresh, Unmade
<1> QED
  BY <1>2, <1>4, <1>6 DEF Sane

\* When an error ends the call, or sends it back to its start, nothing has been
\* done that must not be.
LEMMA Erring ==
  ASSUME NEW x, Sane(x), x.at = "work", x.i <= Len(x.doing.work), ~ x.doing.work[x.i].skip
  PROVE  /\ x.doing \notin Halves => \A k \in ChangesOf(x) : Unmade(x, k)
         /\ x.doing.way = "retried" /\ x.doing.work[x.i].asks =>
              \A k \in ChangesOf(x) : Fresh(x, k)
<1>1. /\ Len(x.doing.work) \in Nat /\ DOMAIN x.doing.work = 1 .. Len(x.doing.work)
      /\ x.i \in DOMAIN x.doing.work
  BY LenProperties DEF Sane, Trusty, Formed
<1>2. ASSUME x.doing \notin Halves, NEW k \in ChangesOf(x) PROVE Unmade(x, k)
  <2>1. x.doing.work \in CleanWork /\ k \in DOMAIN x.doing.work
    BY <1>2 DEF Sane, Trusty, ChangesOf
  <2>2. ~ (k < x.i)
    BY <1>1, <1>2, <2>1 DEF CleanWork, ChangesOf
  <2>3. k >= x.i
    BY <1>1, <2>1, <2>2
  <2> QED
    BY <1>2, <2>3 DEF Sane, Orderly, Fresh
<1>3. ASSUME x.doing.way = "retried", x.doing.work[x.i].asks, NEW k \in ChangesOf(x)
      PROVE  Fresh(x, k)
  <2>1. Repeatable(x.doing.work) /\ k \in DOMAIN x.doing.work
        /\ x.doing.work[k].does # "none"
    BY <1>3 DEF Sane, Trusty, ChangesOf
  <2>2. CASE k >= x.i
    BY <1>3, <2>2 DEF Sane, Orderly
  <2>3. CASE k < x.i
    <3>1. x.doing.work[k].does = "kind"
      BY <1>1, <1>3, <2>1, <2>3 DEF Repeatable
    <3> QED
      BY <1>2, <3>1 DEF Fresh
  <2> QED
    BY <1>1, <2>1, <2>2, <2>3
<1> QED
  BY <1>2, <1>3

-----------------------------------------------------------------------------
(* The calls of all clients.                                               *)

Mended(x, s) ==
  /\ x.at = "work" /\ x.again /\ s # "live" => "expired again" \in x.met
  /\ x.at = "refused" => x.met \cap {"unregistered", "declined", "expired again"} # {}

Good(c, x, s) ==
  x # NoCall => x.doing \in Offered(c) /\ Sane(x) /\ (c \in Agent => Mended(x, s))

CallsInv ==
  /\ session \in [Client -> {"none", "live", "expired"}]
  /\ fits \subseteq Browser
  /\ call = [c \in Client |-> call[c]]
  /\ \A c \in Client : Good(c, call[c], session[c])

LEMMA OfferedShapes ==
  ASSUME NEW c \in Client, NEW shape \in Offered(c)
  PROVE  /\ Trusty(shape)
         /\ c \in Agent => TrustyTool(shape)
         /\ c \in Browser => TrustyRoute(shape)
<1>1. CASE c \in Agent
  BY <1>1, ToolShapes, ClientsAssumption DEF Offered, TrustyTool
<1>2. CASE c \notin Agent
  BY <1>2, RouteShapes DEF Offered, TrustyRoute
<1> QED
  BY <1>1, <1>2

\* What a client's call is, if it has one.
LEMMA TheCall ==
  ASSUME CallsInv, NEW c \in Client, call[c].at # "idle"
  PROVE  /\ call[c].doing \in Offered(c) /\ Sane(call[c]) /\ Formed(call[c])
         /\ Orderly(call[c])
         /\ c \in Agent => Mended(call[c], session[c])
  BY DEF CallsInv, Good, NoCall, Sane

\* A step of one client's call.
LEMMA OneCall ==
  ASSUME CallsInv, NEW c \in Client, NEW y, call' = [call EXCEPT ![c] = y],
         session' \in [Client -> {"none", "live", "expired"}],
         \A d \in Client \ {c} : session'[d] = session[d],
         fits' \subseteq Browser,
         Good(c, y, session'[c])
  PROVE  CallsInv'
<1>1. call' = [d \in Client |-> call'[d]] /\ call'[c] = y
      /\ \A d \in Client \ {c} : call'[d] = call[d]
  BY DEF CallsInv
<1>2. ASSUME NEW d \in Client PROVE Good(d, call'[d], session'[d])
  <2>1. CASE d = c
    BY <1>1, <2>1
  <2>2. CASE d # c
    BY <1>1, <2>2 DEF CallsInv
  <2> QED
    BY <2>1, <2>2
<1>3. \A d \in Client : Good(d, call[d], session[d])'
  BY <1>2 DEF Good, Offered
<1> QED
  BY <1>1, <1>3 DEF CallsInv

LEMMA ArriveStep ==
  ASSUME CallsInv, NEW c \in Client, NEW shape \in Offered(c), Arrive(c, shape)
  PROVE  CallsInv'
<1>1. Trusty(shape) /\ (c \in Browser => shape.way \in {"page", "form"})
  BY OfferedShapes DEF TrustyRoute
<1>2. /\ session' \in [Client -> {"none", "live", "expired"}] /\ fits' \subseteq Browser
      /\ \A d \in Client \ {c} : session'[d] = session[d]
  BY DEF Arrive, Resolve, CallsInv
<1> DEFINE y == Called(shape)
<1>3. y = [at |-> "checks", doing |-> shape, i |-> 1, again |-> FALSE,
           made |-> [k \in DOMAIN shape.work |-> 0], met |-> {}]
  BY DEF Called
<1>4. call' = [call EXCEPT ![c] = y]
  BY DEF Arrive
<1> HIDE DEF y
<1>5. Len(shape.work) \in Nat
  BY <1>1, LenProperties DEF Trusty
<1>6. y.at = "checks" /\ y.doing = shape /\ y.i = 1 /\ ~ y.again /\ y.again \in BOOLEAN
      /\ y.made = [k \in DOMAIN shape.work |-> 0]
  BY <1>3
<1>7. Formed(y)
  <2>1. y = [at |-> y.at, doing |-> y.doing, i |-> y.i, again |-> y.again,
             made |-> y.made, met |-> y.met]
    BY <1>3
  <2>2. y.made \in [DOMAIN y.doing.work -> Nat]
    BY <1>6
  <2>3. y.i \in 1 .. Len(y.doing.work) + 1
    BY <1>5, <1>6
  <2> QED
    BY <1>6, <2>1, <2>2, <2>3 DEF Formed, At
<1>8. Orderly(y)
  BY <1>6 DEF Orderly, Unmade, ChangesOf
<1>9. Good(c, y, session'[c])
  BY <1>1, <1>6, <1>7, <1>8 DEF Good, Sane, Mended
<1> QED
  BY <1>2, <1>4, <1>9, OneCall

\* A call that ends, or begins its work, keeps all but its place.
Placed(x, how, why) == [x EXCEPT !.at = how, !.met = @ \cup why]

Moved(x, y, how, why) ==
  /\ Formed(y) /\ ChangesOf(y) = ChangesOf(x)
  /\ y.at = how /\ y.doing = x.doing /\ y.i = x.i
  /\ y.again = x.again /\ y.made = x.made /\ y.met = x.met \cup why
  /\ \A k : Unmade(y, k) <=> Unmade(x, k)
  /\ \A k : Fresh(y, k) <=> Fresh(x, k)

LEMMA PlacedCall ==
  ASSUME NEW x, Formed(x), NEW how, NEW why, NEW y, y = Placed(x, how, why)
  PROVE  y = [at |-> how, doing |-> x.doing, i |-> x.i, again |-> x.again, made |-> x.made,
              met |-> x.met \cup why]
  BY DEF Formed, Placed

LEMMA Placing ==
  ASSUME NEW x, Formed(x), NEW why, NEW how, how \in At, how # "idle"
  PROVE  Moved(x, Placed(x, how, why), how, why)
<1> DEFINE y == Placed(x, how, why)
<1>1. y = [at |-> how, doing |-> x.doing, i |-> x.i, again |-> x.again, made |-> x.made,
           met |-> x.met \cup why]
  BY PlacedCall
<1> HIDE DEF y
<1>2. y.at = how /\ y.doing = x.doing /\ y.i = x.i
  BY <1>1
<1>3. y.again = x.again /\ y.made = x.made /\ y.met = x.met \cup why
  BY <1>1
<1>4. y = [at |-> y.at, doing |-> y.doing, i |-> y.i, again |-> y.again,
           made |-> y.made, met |-> y.met]
  BY <1>1
<1>5. Formed(y)
  BY <1>2, <1>3, <1>4 DEF Formed, At
<1>6. Moved(x, y, how, why)
  BY <1>2, <1>3, <1>5 DEF Moved, ChangesOf, Unmade, Fresh
<1> QED
  BY <1>6 DEF y

\* A call that is repeated, and one under which a record expires.
Renewed(x) == [x EXCEPT !.at = "work", !.again = TRUE, !.i = 1]
Marked(x, what) == [x EXCEPT !.met = @ \cup {what}]

LEMMA RenewedCall ==
  ASSUME NEW x, Formed(x), NEW y, y = Renewed(x)
  PROVE  y = [at |-> "work", doing |-> x.doing, i |-> 1, again |-> TRUE,
              made |-> x.made, met |-> x.met]
  BY DEF Formed, Renewed

LEMMA MarkedCall ==
  ASSUME NEW x, Formed(x), NEW what, NEW y, y = Marked(x, what)
  PROVE  y = [at |-> x.at, doing |-> x.doing, i |-> x.i, again |-> x.again,
              made |-> x.made, met |-> x.met \cup {what}]
  BY DEF Formed, Marked

LEMMA RefuseStep ==
  ASSUME CallsInv, NEW c \in Client, Refuse(c)
  PROVE  CallsInv'
<1>1. call[c].at = "checks" /\ call[c].at # "idle"
  BY DEF Refuse
<1>2. /\ call[c].doing \in Offered(c) /\ Sane(call[c]) /\ Orderly(call[c]) /\ Formed(call[c])
  BY <1>1, TheCall
<1>3. PICK how \in {"error", "refused"}, why \in {{}, {"unregistered"}} :
        Ends(c, how, why) /\ (how = "refused" => why = {"unregistered"})
  BY DEF Refuse
<1> DEFINE y == Placed(call[c], how, why)
<1>4. call' = [call EXCEPT ![c] = y]
  BY <1>3 DEF Ends, Placed
<1> HIDE DEF y
<1>5. /\ Formed(y) /\ ChangesOf(y) = ChangesOf(call[c])
      /\ y.at = how /\ y.doing = call[c].doing /\ y.made = call[c].made
      /\ y.met = call[c].met \cup why /\ \A k : Unmade(y, k) <=> Unmade(call[c], k)
  <2>1. how \in At /\ how # "idle"
    BY DEF At
  <2>2. Moved(call[c], y, how, why)
    BY <1>2, <2>1, Placing DEF y
  <2> QED
    BY <2>2 DEF Moved
<1>6. Orderly(y)
  BY <1>1, <1>2, <1>5 DEF Orderly
<1>7. Good(c, y, session'[c])
  BY <1>2, <1>3, <1>5, <1>6 DEF Good, Sane, Mended
<1>8. session' = session /\ fits' = fits
  BY DEF Refuse
<1> QED
  BY <1>4, <1>7, <1>8, OneCall DEF CallsInv

LEMMA BeginStep ==
  ASSUME CallsInv, NEW c \in Client, Begin(c)
  PROVE  CallsInv'
<1>1. call[c].at = "checks" /\ call[c].at # "idle"
  BY DEF Begin
<1>2. /\ call[c].doing \in Offered(c) /\ Sane(call[c]) /\ Orderly(call[c]) /\ Formed(call[c])
  BY <1>1, TheCall
<1> DEFINE y == Placed(call[c], "work", {})
<1>3. call' = [call EXCEPT ![c] = y]
  <2>1. [call[c] EXCEPT !.at = "work"] = y
    BY <1>2 DEF Formed, Placed
  <2> QED
    BY <2>1 DEF Begin
<1> HIDE DEF y
<1>4. /\ Formed(y) /\ ChangesOf(y) = ChangesOf(call[c])
      /\ y.at = "work" /\ y.doing = call[c].doing /\ y.i = call[c].i
      /\ y.again = call[c].again /\ y.made = call[c].made
      /\ \A k : Unmade(y, k) <=> Unmade(call[c], k)
      /\ \A k : Fresh(y, k) <=> Fresh(call[c], k)
  <2>1. "work" \in At
    BY DEF At
  <2>2. Moved(call[c], y, "work", {})
    BY <1>2, <2>1, Placing DEF y
  <2> QED
    BY <2>2 DEF Moved
<1>5. y.i = 1 /\ ~ y.again
  BY <1>1, <1>2, <1>4 DEF Orderly
<1>6. Orderly(y)
  <2>1. \A k \in ChangesOf(y) : k \in Nat /\ ~ (k < 1)
    BY <1>2, <1>4, LenProperties DEF ChangesOf, Sane, Trusty
  <2> QED
    BY <1>1, <1>2, <1>4, <1>5, <2>1 DEF Orderly, Fresh
<1>7. Good(c, y, session'[c])
  BY <1>2, <1>4, <1>5, <1>6 DEF Good, Sane, Mended
<1>8. session' = session /\ fits' = fits
  BY DEF Begin
<1> QED
  BY <1>3, <1>7, <1>8, OneCall DEF CallsInv

\* The work of a call in progress.
LEMMA Working ==
  ASSUME CallsInv, NEW c \in Client, Works(c)
  PROVE  /\ call[c].at = "work" /\ call[c].i <= Len(call[c].doing.work)
         /\ call[c].at # "idle" /\ Part(c) = call[c].doing.work[call[c].i]
         /\ Part(c) \in Stretches /\ call[c].i \in DOMAIN call[c].doing.work
         /\ call[c].doing \in Offered(c) /\ Sane(call[c]) /\ Formed(call[c])
         /\ Orderly(call[c])
         /\ c \in Agent => Mended(call[c], session[c])
<1>1. call[c].at = "work" /\ call[c].i <= Len(call[c].doing.work) /\ call[c].at # "idle"
      /\ Part(c) = call[c].doing.work[call[c].i]
  BY DEF Works, Part
<1>2. /\ call[c].doing \in Offered(c) /\ Sane(call[c]) /\ Formed(call[c])
      /\ Orderly(call[c]) /\ (c \in Agent => Mended(call[c], session[c]))
  BY <1>1, TheCall
<1>3. /\ call[c].i \in 1 .. Len(call[c].doing.work)
      /\ call[c].doing.work \in Seq(Stretches)
      /\ DOMAIN call[c].doing.work = 1 .. Len(call[c].doing.work)
  BY <1>1, <1>2, LenProperties DEF Sane, Formed, Trusty
<1>4. Part(c) \in Stretches
  BY <1>1, <1>3, ElementOfSeq
<1> QED
  BY <1>1, <1>2, <1>3, <1>4

\* A call that goes on.
LEMMA GoOnStep ==
  ASSUME CallsInv, NEW c \in Client, Works(c), Part(c).skip, GoOn(c),
         session' = session, fits' = fits
  PROVE  CallsInv'
<1>1. /\ call[c].at = "work" /\ call[c].i <= Len(call[c].doing.work)
      /\ call[c].at # "idle" /\ Part(c) = call[c].doing.work[call[c].i]
      /\ call[c].doing \in Offered(c) /\ Sane(call[c]) /\ Formed(call[c])
      /\ c \in Agent => Mended(call[c], session[c])
  BY Working
<1> DEFINE y == [call[c] EXCEPT !.i = @ + 1]
<1>2. call' = [call EXCEPT ![c] = y]
  BY DEF GoOn
<1>3. Sane(y)
  BY <1>1, GoingOn
<1>4. y.at = call[c].at /\ y.doing = call[c].doing /\ y.again = call[c].again
      /\ y.met = call[c].met
  BY <1>1 DEF Formed
<1> HIDE DEF y
<1>5. Good(c, y, session'[c])
  BY <1>1, <1>3, <1>4 DEF Good, Mended
<1> QED
  BY <1>2, <1>5, OneCall DEF CallsInv

LEMMA DoStep ==
  ASSUME CallsInv, NEW c \in Client, Do(c)
  PROVE  CallsInv'
<1>1. /\ call[c].at = "work" /\ call[c].i <= Len(call[c].doing.work)
      /\ call[c].at # "idle" /\ Part(c) = call[c].doing.work[call[c].i]
      /\ call[c].doing \in Offered(c) /\ Sane(call[c]) /\ Formed(call[c])
      /\ c \in Agent => Mended(call[c], session[c])
  BY Working DEF Do
<1> DEFINE y == [call[c] EXCEPT !.i = @ + 1, !.made[call[c].i] = @ + 1]
<1>2. call' = [call EXCEPT ![c] = y]
  BY DEF Do
<1>3. Sane(y)
  <2>1. call[c].doing.work[call[c].i].does = "kind" =>
          \A k \in DOMAIN call[c].made : call[c].doing.work[k].does = "kind" => call[c].made[k] = 0
    BY <1>1 DEF Do, Doable
  <2> QED
    BY <1>1, <2>1, DoingIt
<1>4. y.at = call[c].at /\ y.doing = call[c].doing /\ y.again = call[c].again
      /\ y.met = call[c].met
  BY <1>1 DEF Formed
<1> HIDE DEF y
<1>5. /\ session' \in [Client -> {"none", "live", "expired"}] /\ fits' \subseteq Browser
      /\ \A d \in Client \ {c} : session'[d] = session[d]
      /\ session'[c] # "live" => session'[c] = session[c]
  BY DEF Do, CallsInv
<1>6. Good(c, y, session'[c])
  BY <1>1, <1>3, <1>4, <1>5 DEF Good, Mended
<1> QED
  BY <1>2, <1>5, <1>6, OneCall

\* A call that leaves its work.
LEMMA Leaving ==
  ASSUME CallsInv, NEW c \in Client, call[c].at # "idle",
         NEW how \in {"ok", "error", "refused"}, NEW why, Ends(c, how, why),
         session' = session, fits' \subseteq Browser,
         how = "ok" => \A k \in ChangesOf(call[c]) :
                          ~ call[c].doing.work[k].skip => call[c].made[k] > 0,
         how \in {"error", "refused"} /\ call[c].doing \notin Halves =>
           \A k \in ChangesOf(call[c]) : Unmade(call[c], k),
         c \in Agent /\ how = "refused" =>
           (call[c].met \cup why) \cap {"unregistered", "declined", "expired again"} # {}
  PROVE  CallsInv'
<1>1. /\ call[c].doing \in Offered(c) /\ Sane(call[c]) /\ Orderly(call[c]) /\ Formed(call[c])
  BY TheCall
<1> DEFINE y == Placed(call[c], how, why)
<1>2. call' = [call EXCEPT ![c] = y]
  BY DEF Ends, Placed
<1> HIDE DEF y
<1>3. /\ Formed(y) /\ ChangesOf(y) = ChangesOf(call[c])
      /\ y.at = how /\ y.doing = call[c].doing /\ y.made = call[c].made
      /\ y.met = call[c].met \cup why /\ \A k : Unmade(y, k) <=> Unmade(call[c], k)
  <2>1. how \in At /\ how # "idle"
    BY DEF At
  <2>2. Moved(call[c], y, how, why)
    BY <1>1, <2>1, Placing DEF y
  <2> QED
    BY <2>2 DEF Moved
<1>4. Orderly(y)
  <2>1. \A k \in ChangesOf(y) : y.made[k] <= 1
    BY <1>1, <1>3 DEF Orderly
  <2>2. y.at = "ok" => \A k \in ChangesOf(y) : ~ y.doing.work[k].skip => y.made[k] > 0
    BY <1>3
  <2>3. y.at \in {"error", "refused"} /\ y.doing \notin Halves =>
          \A k \in ChangesOf(y) : Unmade(y, k)
    BY <1>3
  <2>4. y.at \notin {"checks", "work", "renew"}
    BY <1>3
  <2> QED
    BY <2>1, <2>2, <2>3, <2>4 DEF Orderly
<1>5. c \in Agent => Mended(y, session'[c])
  BY <1>3 DEF Mended
<1>6. Good(c, y, session'[c])
  BY <1>1, <1>3, <1>4, <1>5 DEF Good, Sane
<1>7. session' \in [Client -> {"none", "live", "expired"}]
  BY DEF CallsInv
<1> QED
  BY <1>2, <1>6, <1>7, OneCall

LEMMA FailPartStep ==
  ASSUME CallsInv, NEW c \in Client, FailPart(c)
  PROVE  CallsInv'
<1>1. /\ call[c].at = "work" /\ call[c].i <= Len(call[c].doing.work)
      /\ call[c].at # "idle" /\ Part(c) = call[c].doing.work[call[c].i] /\ Sane(call[c])
  BY Working DEF FailPart
<1>2. session' = session /\ fits' = fits /\ fits' \subseteq Browser /\ Works(c)
  BY DEF FailPart, CallsInv
<1>3. CASE Part(c).skip
  <2>1. GoOn(c)
    BY <1>3 DEF FailPart, Errs
  <2> QED
    BY <1>2, <1>3, <2>1, GoOnStep
<1>4. CASE ~ Part(c).skip
  <2>1. Ends(c, "error", {})
    BY <1>4 DEF FailPart, Errs
  <2>2. call[c].doing \notin Halves => \A k \in ChangesOf(call[c]) : Unmade(call[c], k)
    BY <1>1, <1>4, Erring
  <2> QED
    BY <1>1, <1>2, <2>1, <2>2, Leaving
<1> QED
  BY <1>3, <1>4

LEMMA UnauthenticatedStep ==
  ASSUME CallsInv, NEW c \in Client, Unauthenticated(c)
  PROVE  CallsInv'
<1>1. /\ call[c].at = "work" /\ call[c].i <= Len(call[c].doing.work)
      /\ call[c].at # "idle" /\ Part(c) = call[c].doing.work[call[c].i] /\ Sane(call[c])
      /\ call[c].doing \in Offered(c) /\ Formed(call[c]) /\ Orderly(call[c])
      /\ c \in Agent => Mended(call[c], session[c])
      /\ call[c].i \in DOMAIN call[c].doing.work
  BY Working DEF Unauthenticated
<1>2. session' = session /\ fits' = fits /\ fits' \subseteq Browser /\ Works(c)
      /\ session' \in [Client -> {"none", "live", "expired"}]
  BY DEF Unauthenticated, CallsInv
<1>3. call[c].doing.work[call[c].i].asks /\ session[c] # "live"
  BY <1>1 DEF Unauthenticated, Session
<1>4. CASE Part(c).skip
  <2>1. GoOn(c)
    BY <1>4 DEF Unauthenticated, Errs
  <2> QED
    BY <1>2, <1>4, <2>1, GoOnStep
<1>5. CASE ~ Part(c).skip /\ call[c].doing.way = "retried" /\ ~ call[c].again
  <2> DEFINE y == Placed(call[c], "renew", {})
  <2>1. call' = [call EXCEPT ![c] = y]
    <3>1. [call[c] EXCEPT !.at = "renew"] = y
      BY <1>1 DEF Formed, Placed
    <3>2. call' = [call EXCEPT ![c].at = "renew"]
      BY <1>5 DEF Unauthenticated
    <3> QED
      BY <3>1, <3>2
  <2> HIDE DEF y
  <2>2. /\ Formed(y) /\ ChangesOf(y) = ChangesOf(call[c])
        /\ y.at = "renew" /\ y.doing = call[c].doing /\ y.made = call[c].made
        /\ \A k : Fresh(y, k) <=> Fresh(call[c], k)
    <3>1. "renew" \in At
      BY DEF At
    <3>2. Moved(call[c], y, "renew", {})
      BY <1>1, <3>1, Placing DEF y
    <3> QED
      BY <3>2 DEF Moved
  <2>3. \A k \in ChangesOf(call[c]) : Fresh(call[c], k)
    BY <1>1, <1>3, <1>5, Erring
  <2>4. Orderly(y)
    BY <1>1, <1>5, <2>2, <2>3 DEF Orderly
  <2>5. Good(c, y, session'[c])
    BY <1>1, <2>2, <2>4 DEF Good, Sane, Mended
  <2> QED
    BY <1>2, <2>1, <2>5, OneCall
<1>6. CASE ~ Part(c).skip /\ ~ (call[c].doing.way = "retried" /\ ~ call[c].again)
  <2>1. Ends(c, "refused", {})
    BY <1>6 DEF Unauthenticated, Errs
  <2>2. call[c].doing \notin Halves => \A k \in ChangesOf(call[c]) : Unmade(call[c], k)
    BY <1>1, <1>6, Erring
  <2>3. c \in Agent => call[c].again
    <3>1. c \in Agent => call[c].doing.way = "retried"
      BY <1>1, <1>3, OfferedShapes DEF TrustyTool, UnaskedWork
    <3> QED
      BY <1>6, <3>1
  <2>4. c \in Agent => "expired again" \in call[c].met
    BY <1>1, <1>3, <2>3 DEF Mended
  <2> QED
    BY <1>1, <1>2, <2>1, <2>2, <2>4, Leaving
<1> QED
  BY <1>4, <1>5, <1>6

LEMMA RefreshStep ==
  ASSUME CallsInv, NEW c \in Client, refreshSession(c)
  PROVE  CallsInv'
<1>1. call[c].at = "renew" /\ call[c].at # "idle"
  BY DEF refreshSession
<1>2. /\ call[c].doing \in Offered(c) /\ Sane(call[c]) /\ Orderly(call[c]) /\ Formed(call[c])
  BY <1>1, TheCall
<1> DEFINE y == [at |-> "work", doing |-> call[c].doing, i |-> 1, again |-> TRUE,
                 made |-> call[c].made, met |-> call[c].met]
<1>3. call' = [call EXCEPT ![c] = y]
  <2>1. Renewed(call[c]) = y
    BY <1>2, RenewedCall
  <2>2. call' = [call EXCEPT ![c] = Renewed(call[c])]
    BY DEF refreshSession, Renewed
  <2> QED
    BY <2>1, <2>2
<1>4. /\ y.at = "work" /\ y.doing = call[c].doing /\ y.i = 1 /\ y.again
      /\ y.made = call[c].made /\ y.again \in BOOLEAN
      /\ y = [at |-> y.at, doing |-> y.doing, i |-> y.i, again |-> y.again,
              made |-> y.made, met |-> y.met]
  OBVIOUS
<1> HIDE DEF y
<1>5. Len(y.doing.work) \in Nat /\ DOMAIN y.doing.work = 1 .. Len(y.doing.work)
  BY <1>2, <1>4, LenProperties DEF Sane, Trusty
<1>6. Formed(y)
  <2>1. y.i \in 1 .. Len(y.doing.work) + 1
    BY <1>4, <1>5
  <2>2. y.made \in [DOMAIN y.doing.work -> Nat]
    BY <1>2, <1>4 DEF Formed
  <2> QED
    BY <1>4, <2>1, <2>2 DEF Formed, At
<1>7. Orderly(y)
  <2>1. \A k \in ChangesOf(y) : y.made[k] <= 1 /\ Fresh(y, k)
    BY <1>1, <1>2, <1>4 DEF Orderly, Fresh, Unmade, ChangesOf
  <2>2. \A k \in ChangesOf(y) : ~ (k < y.i)
    BY <1>4, <1>5 DEF ChangesOf
  <2> QED
    BY <1>4, <2>1, <2>2 DEF Orderly
<1>8. /\ session' \in [Client -> {"none", "live", "expired"}] /\ fits' \subseteq Browser
      /\ \A d \in Client \ {c} : session'[d] = session[d]
      /\ session'[c] = "live"
  BY DEF refreshSession, CallsInv
<1>9. Good(c, y, session'[c])
  BY <1>2, <1>4, <1>6, <1>7, <1>8 DEF Good, Sane, Mended
<1> QED
  BY <1>3, <1>8, <1>9, OneCall

LEMMA DeclinedStep ==
  ASSUME CallsInv, NEW c \in Client, RefreshFails(c)
  PROVE  CallsInv'
<1>1. call[c].at = "renew" /\ call[c].at # "idle" /\ Ends(c, "refused", {"declined"})
      /\ session' = session /\ fits' = fits /\ fits' \subseteq Browser
  BY DEF RefreshFails, CallsInv
<1>2. Orderly(call[c])
  BY <1>1, TheCall
<1>3. call[c].doing \notin Halves => \A k \in ChangesOf(call[c]) : Unmade(call[c], k)
  BY <1>1, <1>2 DEF Orderly, Fresh
<1>4. (call[c].met \cup {"declined"}) \cap {"unregistered", "declined", "expired again"} # {}
  OBVIOUS
<1> QED
  BY <1>1, <1>3, <1>4, Leaving

LEMMA FinishStep ==
  ASSUME CallsInv, NEW c \in Client, Finish(c)
  PROVE  CallsInv'
<1>1. call[c].at = "work" /\ call[c].at # "idle" /\ Ends(c, "ok", {})
      /\ ~ (call[c].i <= Len(call[c].doing.work))
      /\ session' = session
  BY DEF Finish, Works
<1>2. fits' \subseteq Browser
  BY DEF Finish, CallsInv
<1>3. Sane(call[c]) /\ Formed(call[c]) /\ Orderly(call[c])
  BY <1>1, TheCall
<1>4. Len(call[c].doing.work) \in Nat
      /\ DOMAIN call[c].doing.work = 1 .. Len(call[c].doing.work)
      /\ call[c].i \in Nat
  BY <1>3, LenProperties DEF Sane, Trusty, Formed
<1>5. \A k \in ChangesOf(call[c]) : k < call[c].i
  BY <1>1, <1>4 DEF ChangesOf
<1>6. \A k \in ChangesOf(call[c]) : ~ call[c].doing.work[k].skip => call[c].made[k] > 0
  BY <1>1, <1>3, <1>5 DEF Orderly
<1> QED
  BY <1>1, <1>2, <1>6, Leaving

LEMMA ForgetStep ==
  ASSUME CallsInv, NEW c \in Client, Forget(c)
  PROVE  CallsInv'
<1>1. call' = [call EXCEPT ![c] = NoCall] /\ session' = session /\ fits' = fits
      /\ session' \in [Client -> {"none", "live", "expired"}] /\ fits' \subseteq Browser
  BY DEF Forget, CallsInv
<1>2. Good(c, NoCall, session'[c])
  BY DEF Good
<1> QED
  BY <1>1, <1>2, OneCall

LEMMA LapseStep ==
  ASSUME CallsInv, NEW c \in Client, Lapse(c)
  PROVE  CallsInv'
<1>1. /\ session' \in [Client -> {"none", "live", "expired"}] /\ fits' \subseteq Browser
      /\ \A d \in Client \ {c} : session'[d] = session[d]
  BY DEF Lapse, CallsInv
<1>2. CASE call[c].at = "idle"
  <2>1. call[c] = NoCall
    BY <1>2 DEF CallsInv, Good, Sane, Formed
  <2>2. call' = call /\ call' = [call EXCEPT ![c] = NoCall]
    BY <1>2, <2>1 DEF Lapse, CallsInv
  <2>3. Good(c, NoCall, session'[c])
    BY DEF Good
  <2> QED
    BY <1>1, <2>2, <2>3, OneCall
<1>3. CASE call[c].at # "idle"
  <2>1. /\ call[c].doing \in Offered(c) /\ Sane(call[c]) /\ Orderly(call[c])
        /\ Formed(call[c]) /\ (c \in Agent => Mended(call[c], session[c]))
    BY <1>3, TheCall
  <2> DEFINE what == IF call[c].again THEN "expired again" ELSE "expired"
             y == Marked(call[c], what)
  <2>2. call' = [call EXCEPT ![c] = y]
    BY <1>3 DEF Lapse, Marked
  <2>3. /\ y.at = call[c].at /\ y.doing = call[c].doing /\ y.i = call[c].i
        /\ y.again = call[c].again /\ y.made = call[c].made
        /\ y.met = call[c].met \cup {what}
        /\ y = [at |-> y.at, doing |-> y.doing, i |-> y.i, again |-> y.again,
                made |-> y.made, met |-> y.met]
    <3>1. y = [at |-> call[c].at, doing |-> call[c].doing, i |-> call[c].i,
               again |-> call[c].again, made |-> call[c].made,
               met |-> call[c].met \cup {what}]
      BY <2>1, MarkedCall
    <3> HIDE DEF y, what
    <3>2. y.at = call[c].at /\ y.doing = call[c].doing /\ y.i = call[c].i
      BY <3>1
    <3>3. y.again = call[c].again /\ y.made = call[c].made
      BY <3>1
    <3>4. y.met = call[c].met \cup {what}
      BY <3>1
    <3>5. y = [at |-> y.at, doing |-> y.doing, i |-> y.i, again |-> y.again,
               made |-> y.made, met |-> y.met]
      BY <3>1
    <3> QED
      BY <3>2, <3>3, <3>4, <3>5
  <2>4. call[c].again => what = "expired again"
    OBVIOUS
  <2> HIDE DEF y, what
  <2>5. Formed(y)
    BY <2>1, <2>3 DEF Formed
  <2>6. ChangesOf(y) = ChangesOf(call[c]) /\ (\A k : Unmade(y, k) <=> Unmade(call[c], k))
        /\ (\A k : Fresh(y, k) <=> Fresh(call[c], k))
    BY <2>3 DEF ChangesOf, Unmade, Fresh
  <2>7. Orderly(y)
    BY <2>1, <2>3, <2>6 DEF Orderly
  <2>8. c \in Agent => Mended(y, session'[c])
    BY <2>1, <2>3, <2>4 DEF Mended
  <2>9. Good(c, y, session'[c])
    BY <2>1, <2>3, <2>5, <2>7, <2>8 DEF Good, Sane
  <2> QED
    BY <1>1, <2>2, <2>9, OneCall
<1> QED
  BY <1>2, <1>3

-----------------------------------------------------------------------------
(* The theorem.                                                            *)

LEMMA CallStepKeeps ==
  ASSUME CallsInv, NEW c \in Client, CallStep(c)
  PROVE  CallsInv'
<1>1. CASE \E shape \in Offered(c) : Arrive(c, shape)
  BY <1>1, ArriveStep
<1>2. CASE Refuse(c)
  BY <1>2, RefuseStep
<1>3. CASE Begin(c)
  BY <1>3, BeginStep
<1>4. CASE Do(c)
  BY <1>4, DoStep
<1>5. CASE FailPart(c)
  BY <1>5, FailPartStep
<1>6. CASE Unauthenticated(c)
  BY <1>6, UnauthenticatedStep
<1>7. CASE refreshSession(c)
  BY <1>7, RefreshStep
<1>8. CASE RefreshFails(c)
  BY <1>8, DeclinedStep
<1>9. CASE Finish(c)
  BY <1>9, FinishStep
<1>10. CASE Forget(c)
  BY <1>10, ForgetStep
<1>11. CASE Lapse(c)
  BY <1>11, LapseStep
<1> QED
  BY <1>1, <1>2, <1>3, <1>4, <1>5, <1>6, <1>7, <1>8, <1>9, <1>10, <1>11 DEF CallStep

\* The calls of every client stay as CallsInv describes them.
THEOREM CallsAreSane == CallsSpec => []CallsInv
<1>1. CallsInit => CallsInv
  <2> SUFFICES ASSUME CallsInit PROVE CallsInv
    OBVIOUS
  <2>1. /\ session = [c \in Client |-> "none"] /\ fits = Browser
        /\ call = [c \in Client |-> NoCall]
    BY DEF CallsInit
  <2> QED
    BY <2>1 DEF CallsInv, Good
<1>2. CallsInv /\ [\E c \in Client : CallStep(c)]_calls => CallsInv'
  <2> SUFFICES ASSUME CallsInv, [\E c \in Client : CallStep(c)]_calls PROVE CallsInv'
    OBVIOUS
  <2>1. CASE \E c \in Client : CallStep(c)
    BY <2>1, CallStepKeeps
  <2>2. CASE UNCHANGED calls
    BY <2>2 DEF calls, CallsInv, Good, Offered
  <2> QED
    BY <2>1, <2>2
<1> QED
  BY <1>1, <1>2, PTL DEF CallsSpec

\* What an answer tells its client is so: after a success everything asked for
\* has been done, once; after an error nothing has, but for the calls named; and
\* no agent is refused for one expiry of its session.
THEOREM AnswersAreTrue == CallsSpec => []AnswersHold
<1>1. CallsInv => AnswersHold
  <2> SUFFICES ASSUME CallsInv PROVE AnswersHold
    OBVIOUS
  <2>1. ASSUME NEW c \in Client, call[c].at # "idle"
        PROVE  /\ call[c].doing \in Offered(c) /\ Formed(call[c]) /\ Orderly(call[c])
               /\ c \in Agent => Mended(call[c], session[c])
               /\ Changes(c) = ChangesOf(call[c])
               /\ Made(c) \subseteq ChangesOf(call[c])
    BY <2>1, TheCall DEF Changes, ChangesOf, Made
  <2>2. CallsTyped
    <3>1. ASSUME NEW c \in Client PROVE call[c].at \in At
      BY <2>1 DEF Formed, At
    <3>2. ASSUME NEW c \in Client, call[c].at # "idle"
          PROVE  /\ call[c].doing \in Offered(c)
                 /\ call[c].i \in 1..Len(call[c].doing.work) + 1
      BY <2>1, <3>2 DEF Formed
    <3> QED
      BY <3>1, <3>2 DEF CallsTyped, CallsInv
  <2>3. AnswerTells
    <3> SUFFICES ASSUME NEW c \in Client, call[c].at # "idle"
                 PROVE  /\ \A k \in Changes(c) : call[c].made[k] <= 1
                        /\ call[c].at = "ok" => Owed(c) \subseteq Made(c)
                        /\ call[c].at \in {"error", "refused"} /\ Made(c) # {} =>
                             call[c].doing \in Halves
      BY DEF AnswerTells
    <3>1. /\ Orderly(call[c]) /\ Changes(c) = ChangesOf(call[c])
          /\ Made(c) \subseteq ChangesOf(call[c])
      BY <2>1
    <3>2. \A k \in Changes(c) : call[c].made[k] <= 1
      BY <3>1 DEF Orderly
    <3>3. call[c].at = "ok" => Owed(c) \subseteq Made(c)
      BY <3>1 DEF Orderly, Owed, Made
    <3>4. call[c].at \in {"error", "refused"} /\ Made(c) # {} => call[c].doing \in Halves
      <4>1. ASSUME NEW k \in Made(c) PROVE k \in ChangesOf(call[c]) /\ ~ Unmade(call[c], k)
        BY <3>1 DEF Made, Unmade
      <4> QED
        BY <3>1, <4>1 DEF Orderly
    <3> QED
      BY <3>2, <3>3, <3>4
  <2>4. ExpiryIsMended
    BY <2>1 DEF ExpiryIsMended, Mended, Client
  <2> QED
    BY <2>2, <2>3, <2>4 DEF AnswersHold
<1> QED
  BY <1>1, CallsAreSane, PTL

-----------------------------------------------------------------------------
(* LivePages makes FrontEnd's calls, and no others.                        *)

\* A step of the pages' specification is one of a client's call, or leaves the
\* calls as they are.
LEMMA PagesSteps ==
  ASSUME [PagesNext]_pagesVars
  PROVE  (\E c \in Client : CallStep(c)) \/ UNCHANGED calls
<1>1. CASE UNCHANGED pagesVars
  BY <1>1 DEF pagesVars
<1>2. ASSUME NEW c \in Client, ArriveApart(c) \/ ArriveMeanwhile(c) PROVE CallStep(c)
  BY <1>2 DEF ArriveApart, ArriveMeanwhile, CallStep
<1>3. ASSUME NEW c \in Client, DoStretch(c) PROVE CallStep(c)
  BY <1>3 DEF DoStretch, CallStep
<1>4. ASSUME NEW c \in Client, FailStretch(c) PROVE CallStep(c)
  BY <1>4 DEF FailStretch, CallStep
<1>5. ASSUME NEW c \in Client, FinishCall(c) PROVE CallStep(c)
  BY <1>5 DEF FinishCall, CallStep
<1>6. ASSUME NEW c \in Client, Meanwhile(c) PROVE CallStep(c)
  BY <1>6 DEF Meanwhile, CallStep
<1>7. ASSUME NEW c \in Browser, Submit(c) \/ Retry(c) PROVE c \in Client /\ CallStep(c)
  <2>1. PICK text : Send(c, text)
    BY <1>7 DEF Submit, Retry
  <2>2. Web!handleCommentCreate \in Offered(c)
    BY ClientsAssumption DEF Offered, Web!Mount
  <2> QED
    BY <2>1, <2>2 DEF Send, CallStep, Client
<1>8. ASSUME NEW c \in Browser, Hear(c) \/ AnswerLost(c) PROVE c \in Client /\ CallStep(c)
  BY <1>8 DEF Hear, AnswerLost, CallStep, Client
<1>9. ASSUME Subscribe \/ Deliver \/ Receive \/ Cut \/ Restart \/ Resume \/ CloseTab
      PROVE  UNCHANGED calls
  BY <1>9 DEF Subscribe, Deliver, Receive, Cut, Restart, Dropped, Resume, Attach, CloseTab
<1> QED
  BY <1>1, <1>2, <1>3, <1>4, <1>5, <1>6, <1>7, <1>8, <1>9 DEF PagesNext

\* What a page shows, hears and sends is nothing the calls can notice: with it
\* they behave as FrontEnd specifies them alone.
THEOREM PagesMakeCalls == PagesSpec => CallsSpec
<1>1. PagesInit => CallsInit
  BY DEF PagesInit
<1>2. [PagesNext]_pagesVars => [\E c \in Client : CallStep(c)]_calls
  BY PagesSteps
<1> QED
  BY <1>1, <1>2, PTL DEF PagesSpec, CallsSpec

\* So beside a page, too, an answer tells its client what has been done.
THEOREM PagesAnswersAreTrue == PagesSpec => []AnswersHold
<1> QED
  BY PagesMakeCalls, AnswersAreTrue, PTL

-----------------------------------------------------------------------------
(* The page.                                                               *)

CreateCall == Web!handleCommentCreate
DetailCall == Web!handleTicketDetail
Busy(c) == call[c].at # "idle"

\* A comment of the page is on its way, that of the last try.
Sends(c) == c \in Browser /\ Up /\ Busy(c) /\ call[c].doing = CreateCall
Waiting == \E c \in Browser : Sends(c)
LastTry == Len(tries)
Placeholder(k) == k \in sending \cup failed

Shut ==
  page = "closed" =>
    /\ ticket = Untouched /\ log = <<>>
    /\ shown = Untouched /\ actions = Untouched /\ rows = <<>>
    /\ sending = {} /\ failed = {} /\ tries = <<>> /\ lost = {}
Unlinked ==
  page # "open" => ~ link /\ boot = 0 /\ pos = 0 /\ frames = <<>> /\ lastId = 0 /\ missed = {}

Logged ==
  /\ log \in Seq([what : Published, try : Nat])
  /\ \A e \in DOMAIN log :
       log[e].try <= LastTry /\ (log[e].try > 0 => log[e].what = "comment")
  /\ \A e, d \in DOMAIN log : log[e].try = log[d].try /\ log[e].try > 0 => e = d

Tried ==
  /\ tries \in Seq(Nat)
  /\ \A k \in DOMAIN tries : tries[k] \in 1 .. k
  /\ sending \cup failed \cup lost \subseteq DOMAIN tries
  /\ sending \cap failed = {}
  /\ page \in {"closed", "reading"} => tries = <<>>

Streamed ==
  /\ boot \in 0 .. Len(log) /\ pos \in 0 .. Len(log) /\ lastId \in Nat
  /\ link \in BOOLEAN /\ (link => page = "open" /\ boot <= pos)
  /\ page \in {"closed", "reading", "rendered", "open"}

Threaded ==
  /\ rows \in Seq(Nat) /\ Range(rows) \subseteq DOMAIN log
  /\ \A i, j \in DOMAIN rows : i < j => rows[i] < rows[j]
  /\ page = "open" => \A e \in Range(rows) : e <= pos
  /\ \A e \in Range(rows) : ~ Placeholder(log[e].try)

\* What the browser's call can be.
Rendering ==
  \A c \in Browser :
    /\ Up /\ Busy(c) =>
         /\ call[c].doing \in {DetailCall, CreateCall}
         /\ page = "reading" => call[c].doing = DetailCall /\ call[c].at = "work"
         /\ page # "reading" /\ call[c].doing = DetailCall => call[c].at = "ok"
    /\ ~ Up /\ call[c].at = "work" /\ call[c].doing = DetailCall => call[c].i = 1

\* The last try is stored as soon as its call has made its change.
Submission ==
  \A c \in Browser : Sends(c) =>
    /\ LastTry > 0 /\ LastTry \notin failed \cup lost
    /\ LastTry \in sending \/ StoredOf(LastTry) # {}
    /\ call[c].made[1] > 0 <=> StoredOf(LastTry) # {}

\* A placeholder that waits is of a try that is stored or under way, a red one of
\* a try that is not stored or had no answer; only the last try of a text may be
\* stored with its answer heard.
Placeholders ==
  /\ \A k \in sending : StoredOf(k) # {} \/ (k = LastTry /\ Waiting)
  /\ \A k \in failed : StoredOf(k) = {} \/ k \in lost
  /\ \A j, k \in DOMAIN tries : j < k /\ tries[j] = tries[k] =>
       ~ Placeholder(j) /\ (StoredOf(j) = {} \/ j \in lost)
  /\ \A k \in DOMAIN tries : \E j \in DOMAIN tries :
       tries[j] = tries[k] /\ (StoredOf(j) # {} \/ Placeholder(j))

\* The frames on their way: of events in order, and of an event in the order
\* they are rendered in; a row comes after what removes its placeholder.
Stage(f) ==
  IF f.patch.does = "signal" THEN 0 ELSE IF f.patch.does \in {"remove", "badge"} THEN 1 ELSE 2
Framed(f) ==
  /\ f.of \in 1 .. pos /\ f.id \in Nat
  /\ f.patch.does \in {"signal", "remove", "append", "badge", "actions"}
  /\ f.patch.does = "remove" =>
       log[f.of].what = "comment" /\ f.patch.try = log[f.of].try /\ f.patch.try > 0
  /\ f.patch.does = "append" => log[f.of].what = "comment" /\ f.patch.row = f.of
  /\ f.patch.does = "badge" => f.patch.part = log[f.of].what /\ f.patch.part \in Parts
  /\ f.patch.does = "actions" => log[f.of].what \in Parts
Removes(f, k) == f.patch.does = "remove" /\ f.patch.try = k
Before(f, g) == f.of < g.of \/ (f.of = g.of /\ Stage(f) < Stage(g))
Framing ==
  /\ frames # <<>> => link
  /\ frames \in Seq(Range(frames))
  /\ \A i \in DOMAIN frames : Framed(frames[i])
  /\ \A i, j \in DOMAIN frames : i < j => Before(frames[i], frames[j])
  /\ \A i \in DOMAIN frames : \A e \in Range(rows) : e < frames[i].of
  /\ \A i \in DOMAIN frames :
       frames[i].patch.does = "append" /\ Placeholder(log[frames[i].of].try) =>
         \E j \in DOMAIN frames : j < i /\ Removes(frames[j], log[frames[i].of].try)

\* The event of a placeholder's comment is to come, has been missed, or has its
\* frame on the way.
Replaced ==
  \A e \in Comments : Placeholder(log[e].try) =>
    e > pos \/ e \in missed \/ \E i \in DOMAIN frames : Removes(frames[i], log[e].try)

\* Ids are places in the log, as long as the server has not been started again.
Numbered ==
  /\ \A i \in DOMAIN frames : frames[i].id = Id(frames[i].of)
  /\ boot = 0 =>
       /\ lastId <= pos
       /\ \A i \in DOMAIN frames :
            /\ lastId <= frames[i].of
            /\ frames[i].patch.does = "signal" => lastId < frames[i].of

PageInv ==
  /\ Shut /\ Unlinked /\ Logged /\ Tried /\ Streamed /\ Threaded /\ Rendering
  /\ Submission /\ Placeholders /\ Framing /\ Replaced

-----------------------------------------------------------------------------
(* The browser's two calls, and how a call goes on.                        *)

LEMMA CommentShape ==
  /\ CreateCall.work = <<[asks |-> TRUE, does |-> "comment", skip |-> FALSE]>>
  /\ DOMAIN CreateCall.work = {1} /\ Len(CreateCall.work) = 1
  /\ CreateCall.work[1] = [asks |-> TRUE, does |-> "comment", skip |-> FALSE]
  /\ CreateCall.way = "form" /\ CreateCall # DetailCall
  /\ CreateCall \in Web!Mount
<1>1. CreateCall = [checks |-> <<>>, way |-> "form",
                    work |-> <<[asks |-> TRUE, does |-> "comment", skip |-> FALSE]>>]
  BY DEF CreateCall, Web!handleCommentCreate, Web!Form, Web!CreateComment, Web!Write, Web!Stretch
<1>2. DetailCall.way = "page"
  BY DEF DetailCall, Web!handleTicketDetail, Web!Page
<1>3. CreateCall \in Web!Mount
  BY DEF CreateCall, Web!Mount
<1>4. CreateCall.work = <<[asks |-> TRUE, does |-> "comment", skip |-> FALSE]>>
      /\ CreateCall.way = "form"
  BY <1>1
<1> DEFINE r == [asks |-> TRUE, does |-> "comment", skip |-> FALSE]
<1>5. ASSUME NEW w, w = <<r>> PROVE DOMAIN w = {1} /\ Len(w) = 1 /\ w[1] = r
  <2> HIDE DEF r
  <2> QED
    BY <1>5
<1>6. DOMAIN CreateCall.work = {1} /\ Len(CreateCall.work) = 1 /\ CreateCall.work[1] = r
  BY <1>4, <1>5
<1> QED
  BY <1>2, <1>3, <1>4, <1>6

\* A comment's call cannot end half done.
LEMMA CommentIsNoHalf == CreateCall \notin Halves
<1>1. MCP!handlePromoteIdea(TRUE).way = "retried" /\ MCP!handleRegisterAgent.way = "plain"
      /\ Web!handleInviteAccept.way = "page"
  BY DEF MCP!handlePromoteIdea, MCP!Tool, MCP!handleRegisterAgent, MCP!Plain,
         Web!handleInviteAccept, Web!Page
<1>2. Len(Web!handleTicketPromote(TRUE).work) > 1
  BY DEF Web!handleTicketPromote, Web!Form, Web!PromoteInto, Web!FlipIdeaToWork, Web!Read,
         Web!AssignTicketToPhase, Web!Write
<1>3. Len(Web!handleProjectSettingsUpdate(TRUE).work) > 1
  BY DEF Web!handleProjectSettingsUpdate, Web!Form, Web!GetProject, Web!UpdateEmbedder,
         Web!UpdateProject, Web!ReembedProject, Web!Read, Web!Write
<1>4. Len(Web!handleProjectSummaryUpdate.work) > 1
  BY DEF Web!handleProjectSummaryUpdate, Web!Form, Web!GetProject, Web!UpdateProject,
         Web!Read, Web!Write
<1>5. Len(Web!handlePhaseSummaryUpdate.work) > 1
  BY DEF Web!handlePhaseSummaryUpdate, Web!Form, Web!GetProject, Web!GetPhase, Web!UpdatePhase,
         Web!Read, Web!Write
<1>6. CreateCall.way = "form" /\ ~ (Len(CreateCall.work) > 1)
  BY CommentShape
<1> QED
  BY <1>1, <1>2, <1>3, <1>4, <1>5, <1>6 DEF Halves

\* The page's render asks for no session and changes nothing.
LEMMA DetailShape ==
  /\ DetailCall.work \in QuietWork \cap UnaskedWork
  /\ Len(DetailCall.work) > 1 /\ ~ DetailCall.work[1].skip /\ DetailCall.way = "page"
<1>1. DetailCall.work = Web!GetTicket \o Web!ListProjects \o Web!Try(Web!ListPhases)
                          \o Web!dependencyLinks \o Web!Try(Web!ListComments)
      /\ DetailCall.way = "page"
  BY DEF DetailCall, Web!handleTicketDetail, Web!Page
<1>2. DetailCall.work \in QuietWork
  <2>1. Web!GetTicket \in QuietWork /\ Web!ListProjects \in QuietWork
        /\ Web!ListPhases \in QuietWork /\ Web!ListTickets \in QuietWork
        /\ Web!ListComments \in QuietWork
    BY RouteOperations
  <2>2. Web!Try(Web!ListPhases) \in QuietWork /\ Web!dependencyLinks \in QuietWork
        /\ Web!Try(Web!ListComments) \in QuietWork
    BY <2>1, RouteParts, Rules DEF Web!dependencyLinks
  <2>3. \A u, v \in QuietWork : u \o v \in QuietWork
    BY Rules
  <2> QED
    BY <1>1, <2>1, <2>2, <2>3
<1>3. Web!Read \in UnaskedWork
  <2>1. Web!Read = MCP!Read
    BY DEF Web!Read, MCP!Read, Web!Stretch, MCP!Stretch
  <2> QED
    BY <2>1, Unasked
<1>4. ASSUME NEW w \in UnaskedWork PROVE Web!Try(w) \in UnaskedWork
  <2>1. w \in Seq(Stretches) /\ Len(w) \in Nat /\ DOMAIN w = 1 .. Len(w)
    BY LenProperties DEF UnaskedWork
  <2>2. Web!Try(w) \in Seq(Stretches)
    BY <2>1, RouteParts DEF NotedWork
  <2>3. DOMAIN Web!Try(w) = DOMAIN w
    BY DEF Web!Try
  <2>4. ASSUME NEW i \in DOMAIN w PROVE ~ Web!Try(w)[i].asks
    <3>1. w[i] \in Stretches /\ ~ w[i].asks
      BY <2>1, ElementOfSeq DEF UnaskedWork
    <3>2. Web!Try(w)[i] = [w[i] EXCEPT !.skip = TRUE]
      BY DEF Web!Try
    <3> QED
      BY <3>1, <3>2 DEF Stretches
  <2> QED
    BY <2>2, <2>3, <2>4 DEF UnaskedWork
<1>5. DetailCall.work \in UnaskedWork
  <2>1. {Web!GetTicket, Web!ListProjects, Web!ListPhases, Web!ListTickets, Web!ListComments}
          \subseteq UnaskedWork
    BY <1>3 DEF Web!GetTicket, Web!ListProjects, Web!ListPhases, Web!ListTickets, Web!ListComments
  <2>2. {Web!Try(Web!ListPhases), Web!dependencyLinks, Web!Try(Web!ListComments)}
          \subseteq UnaskedWork
    BY <1>4, <2>1 DEF Web!dependencyLinks
  <2> QED
    BY <1>1, <2>1, <2>2, Unasked
<1>6. Len(DetailCall.work) > 1 /\ ~ DetailCall.work[1].skip
  <2> DEFINE a == Web!GetTicket \o Web!ListProjects
             b == a \o Web!Try(Web!ListPhases)
             d == b \o Web!dependencyLinks
             e == d \o Web!Try(Web!ListComments)
  <2>1. a \in Seq(Stretches) /\ Len(a) > 1 /\ ~ a[1].skip
    <3>1. Web!GetTicket \in Seq(Stretches) /\ Web!ListProjects \in Seq(Stretches)
      BY RouteOperations, Rules
    <3>2. Len(Web!GetTicket) = 1 /\ Len(Web!ListProjects) = 1 /\ ~ Web!GetTicket[1].skip
      BY DEF Web!GetTicket, Web!ListProjects, Web!Read, Web!Stretch
    <3> QED
      BY <3>1, <3>2, ConcatProperties
  <2>2. /\ Web!Try(Web!ListPhases) \in Seq(Stretches) /\ Web!dependencyLinks \in Seq(Stretches)
        /\ Web!Try(Web!ListComments) \in Seq(Stretches)
    BY RouteParts, RouteOperations, Rules DEF Web!dependencyLinks
  <2>3. \A u, v \in Seq(Stretches) : Len(u) > 1 =>
          u \o v \in Seq(Stretches) /\ Len(u \o v) > 1 /\ (u \o v)[1] = u[1]
    BY ConcatProperties, LenProperties
  <2>4. DetailCall.work = e
    BY <1>1
  <2> HIDE DEF a
  <2>5. b \in Seq(Stretches) /\ Len(b) > 1 /\ ~ b[1].skip
    BY <2>1, <2>2, <2>3
  <2> HIDE DEF b
  <2>6. d \in Seq(Stretches) /\ Len(d) > 1 /\ ~ d[1].skip
    BY <2>2, <2>3, <2>5
  <2> HIDE DEF d
  <2>7. Len(e) > 1 /\ ~ e[1].skip
    BY <2>2, <2>3, <2>6
  <2> HIDE DEF e
  <2> QED
    BY <2>4, <2>7
<1> QED
  BY <1>1, <1>2, <1>5, <1>6

\* What the invariant of calls says of the browser's.
LEMMA CommentCall ==
  ASSUME CallsInv, NEW c \in Client, Busy(c), call[c].doing = CreateCall
  PROVE  /\ Formed(call[c]) /\ call[c].made \in [{1} -> Nat] /\ call[c].at # "renew"
         /\ call[c].at = "ok" => call[c].made[1] > 0
         /\ call[c].at \in {"checks", "error", "refused"} => call[c].made[1] = 0
         /\ Works(c) => call[c].i = 1 /\ call[c].made[1] = 0 /\ Part(c).does = "comment"
                        /\ ~ Part(c).skip
<1>1. /\ Sane(call[c]) /\ Formed(call[c]) /\ Orderly(call[c])
  BY TheCall DEF Busy
<1>2. /\ DOMAIN call[c].doing.work = {1} /\ Len(call[c].doing.work) = 1
      /\ call[c].doing.work[1].does = "comment" /\ ~ call[c].doing.work[1].skip
      /\ call[c].doing.way = "form" /\ call[c].doing \notin Halves
  BY CommentShape, CommentIsNoHalf
<1>3. ChangesOf(call[c]) = {1}
  BY <1>2 DEF ChangesOf
<1>4. call[c].made \in [{1} -> Nat] /\ call[c].i \in 1 .. 2
  BY <1>1, <1>2 DEF Formed
<1>5. call[c].at # "renew"
  BY <1>1, <1>2 DEF Orderly
<1>6. call[c].at = "ok" => call[c].made[1] > 0
  BY <1>1, <1>2, <1>3 DEF Orderly
<1>7. call[c].at \in {"checks", "error", "refused"} => call[c].made[1] = 0
  BY <1>1, <1>2, <1>3 DEF Orderly, Unmade
<1>8. ASSUME Works(c)
      PROVE  call[c].i = 1 /\ call[c].made[1] = 0 /\ Part(c).does = "comment" /\ ~ Part(c).skip
  <2>1. call[c].at = "work" /\ call[c].i = 1
    BY <1>2, <1>4, <1>8 DEF Works
  <2>2. Fresh(call[c], 1)
    BY <1>1, <1>3, <2>1 DEF Orderly
  <2> QED
    BY <1>2, <2>1, <2>2 DEF Fresh, Unmade, Part
<1> QED
  BY <1>1, <1>4, <1>5, <1>6, <1>7, <1>8

LEMMA PageCall ==
  ASSUME CallsInv, NEW c \in Client, Busy(c), call[c].doing = DetailCall
  PROVE  /\ Formed(call[c]) /\ call[c].at # "renew"
         /\ call[c].at = "checks" => call[c].i = 1
         /\ Works(c) => /\ ~ Part(c).asks /\ Part(c).does = "none"
                        /\ call[c].i = 1 => ~ Part(c).skip
<1>1. /\ Sane(call[c]) /\ Formed(call[c]) /\ Orderly(call[c])
  BY TheCall DEF Busy
<1>2. /\ call[c].doing.way = "page" /\ call[c].doing.work \in QuietWork \cap UnaskedWork
      /\ ~ call[c].doing.work[1].skip
  BY DetailShape
<1>3. Works(c) => Part(c) = call[c].doing.work[call[c].i] /\ call[c].i \in DOMAIN call[c].doing.work
  <2>1. Works(c) => call[c].at # "idle"
    BY DEF Works
  <2> QED
    BY <2>1, Working
<1> QED
  BY <1>1, <1>2, <1>3 DEF Orderly, QuietWork, UnaskedWork

\* A step of one call leaves the others.
OthersStay(c) == \A d \in Client \ {c} : call'[d] = call[d]

LEMMA OthersStayed ==
  ASSUME CallsInv, NEW c \in Client, CallStep(c)
  PROVE  OthersStay(c)
<1>1. call = [d \in Client |-> call[d]]
  BY DEF CallsInv
<1> DEFINE changed == \E y : call' = [call EXCEPT ![c] = y]
<1>2. \A y : call' = [call EXCEPT ![c] = y] => OthersStay(c)
  BY <1>1 DEF OthersStay
<1>3. changed \/ call' = call
  <2>1. CASE \E shape \in Offered(c) : Arrive(c, shape)
    BY <2>1 DEF Arrive
  <2>2. ASSUME NEW how, NEW why, Ends(c, how, why) PROVE changed
    BY <2>2 DEF Ends
  <2>3. ASSUME GoOn(c) PROVE changed
    BY <2>3 DEF GoOn
  <2>4. CASE Refuse(c) \/ FailPart(c) \/ RefreshFails(c) \/ Finish(c)
    BY <2>2, <2>3, <2>4 DEF Refuse, FailPart, Errs, RefreshFails, Finish
  <2>5. CASE Begin(c) \/ Do(c) \/ refreshSession(c) \/ Forget(c)
    BY <2>5 DEF Begin, Do, refreshSession, Forget
  <2>6. CASE Unauthenticated(c)
    BY <2>2, <2>3, <2>6 DEF Unauthenticated, Errs
  <2>7. CASE Lapse(c)
    BY <2>7 DEF Lapse
  <2> QED
    BY <2>1, <2>4, <2>5, <2>6, <2>7 DEF CallStep
<1> QED
  BY <1>2, <1>3 DEF OthersStay

\* What a call is after it has ended, gone on, begun, been marked or forgotten.
LEMMA AfterEnds ==
  ASSUME CallsInv, NEW c \in Client, Busy(c), NEW how, NEW why, Ends(c, how, why)
  PROVE  /\ call'[c].at = how /\ call'[c].doing = call[c].doing
         /\ call'[c].made = call[c].made /\ call'[c].i = call[c].i
<1>1. Formed(call[c]) /\ call = [d \in Client |-> call[d]]
  BY TheCall DEF Busy, CallsInv
<1>2. call'[c] = Placed(call[c], how, why)
  BY <1>1 DEF Ends, Placed
<1> DEFINE y == call'[c]
<1>3. y = [at |-> how, doing |-> call[c].doing, i |-> call[c].i, again |-> call[c].again,
           made |-> call[c].made, met |-> call[c].met \cup why]
  BY <1>1, <1>2, PlacedCall
<1> QED
  BY <1>3

LEMMA AfterGoOn ==
  ASSUME CallsInv, NEW c \in Client, Busy(c), GoOn(c)
  PROVE  /\ call'[c].at = call[c].at /\ call'[c].doing = call[c].doing
         /\ call'[c].made = call[c].made /\ call'[c].i = call[c].i + 1
<1>1. Formed(call[c]) /\ call = [d \in Client |-> call[d]]
  BY TheCall DEF Busy, CallsInv
<1> QED
  BY <1>1 DEF GoOn, Formed

LEMMA AfterBegin ==
  ASSUME CallsInv, NEW c \in Client, Begin(c)
  PROVE  /\ call'[c].at = "work" /\ call'[c].doing = call[c].doing
         /\ call'[c].made = call[c].made /\ call'[c].i = call[c].i
<1>1. Formed(call[c]) /\ call = [d \in Client |-> call[d]]
  BY TheCall DEF Begin, CallsInv
<1> QED
  BY <1>1 DEF Begin, Formed

LEMMA AfterLapse ==
  ASSUME CallsInv, NEW c \in Client, Busy(c), Lapse(c)
  PROVE  /\ call'[c].at = call[c].at /\ call'[c].doing = call[c].doing
         /\ call'[c].made = call[c].made /\ call'[c].i = call[c].i
<1>1. Formed(call[c]) /\ call = [d \in Client |-> call[d]]
  BY TheCall DEF Busy, CallsInv
<1> QED
  BY <1>1 DEF Lapse, Formed, Busy

LEMMA AfterDo ==
  ASSUME CallsInv, NEW c \in Client, Do(c)
  PROVE  /\ Busy(c) /\ Works(c) /\ call'[c].at = "work" /\ call'[c].doing = call[c].doing
         /\ call'[c].i = call[c].i + 1
         /\ call'[c].made = [call[c].made EXCEPT ![call[c].i] = @ + 1]
<1>1. /\ Formed(call[c]) /\ call = [d \in Client |-> call[d]] /\ call[c].at = "work"
      /\ Busy(c) /\ Works(c)
  BY Working DEF Do, CallsInv, Busy
<1> QED
  BY <1>1 DEF Do, Formed

\* A step of the browser's call that the page does not notice.
Quietly(b) ==
  \/ call'[b] = call[b]
  \/ /\ Up /\ Busy(b) /\ call'[b].at # "idle" /\ call'[b].doing = call[b].doing
     /\ call[b].doing = CreateCall => call'[b].made = call[b].made
     /\ call[b].doing = DetailCall /\ call[b].at \in {"work", "ok"} => call'[b].at = call[b].at
  \/ Up /\ Busy(b) /\ call[b].doing # CreateCall /\ call'[b].at = "idle"
  \/ ~ Up /\ (call'[b].at = "work" /\ call'[b].doing = DetailCall => call'[b].i = 1)

LEMMA MeanwhileIsQuiet ==
  ASSUME CallsInv, Rendering, NEW c \in Browser, Meanwhile(c)
  PROVE  Quietly(c)
<1>1. c \in Client /\ call = [d \in Client |-> call[d]]
  BY DEF Client, CallsInv
<1>2. CASE ~ Busy(c)
  <2>1. call' = call
    BY <1>2 DEF Meanwhile, Refuse, Begin, Unauthenticated, Works, refreshSession, RefreshFails,
               Lapse, Forget, Busy
  <2> QED
    BY <2>1 DEF Quietly
<1>3. CASE Busy(c)
  <2>1. CASE Refuse(c)
    <3>1. PICK how \in {"error", "refused"} : \E why : Ends(c, how, why)
      BY <2>1 DEF Refuse
    <3>2. call[c].at = "checks"
      BY <2>1 DEF Refuse
    <3> QED
      BY <1>1, <1>3, <3>1, <3>2, AfterEnds DEF Quietly
  <2>2. CASE Begin(c)
    <3>1. call[c].at = "checks"
      BY <2>2 DEF Begin
    <3> QED
      BY <1>1, <1>3, <2>2, <3>1, AfterBegin, PageCall DEF Quietly
  <2>3. CASE Unauthenticated(c)
    <3>1. call[c].at = "work" /\ Works(c) /\ Part(c).asks
      BY <2>3 DEF Unauthenticated, Works, Session
    <3>2. call[c].doing # DetailCall
      BY <1>1, <1>3, <3>1, PageCall
    <3>3. CASE Up
      <4>1. call[c].doing = CreateCall
        BY <1>3, <3>2, <3>3 DEF Rendering
      <4>2. Ends(c, "refused", {})
        BY <1>1, <1>3, <2>3, <3>1, <4>1, CommentCall, CommentShape DEF Unauthenticated, Errs
      <4> QED
        BY <1>1, <1>3, <3>2, <3>3, <4>2, AfterEnds DEF Quietly
    <3>4. CASE ~ Up
      <4>1. \/ GoOn(c) \/ Ends(c, "refused", {}) \/ call' = [call EXCEPT ![c].at = "renew"]
        BY <2>3 DEF Unauthenticated, Errs
      <4>2. CASE GoOn(c)
        BY <1>1, <1>3, <3>2, <3>4, <4>2, AfterGoOn DEF Quietly
      <4>3. CASE Ends(c, "refused", {})
        BY <1>1, <1>3, <3>2, <3>4, <4>3, AfterEnds DEF Quietly
      <4>4. CASE call' = [call EXCEPT ![c].at = "renew"]
        <5>1. Formed(call[c])
          BY <1>1, <1>3, TheCall DEF Busy
        <5>2. call'[c].at = "renew"
          BY <1>1, <4>4, <5>1 DEF Formed
        <5> QED
          BY <3>4, <5>2 DEF Quietly
      <4> QED
        BY <4>1, <4>2, <4>3, <4>4
    <3> QED
      BY <3>3, <3>4
  <2>4. CASE refreshSession(c) \/ RefreshFails(c)
    <3>1. call[c].at = "renew"
      BY <2>4 DEF refreshSession, RefreshFails
    <3>2. ~ Up
      BY <1>1, <1>3, <3>1, CommentCall, PageCall DEF Rendering
    <3>3. CASE refreshSession(c)
      <4>1. Formed(call[c])
        BY <1>1, <1>3, TheCall DEF Busy
      <4>2. call'[c].i = 1
        BY <1>1, <3>3, <4>1 DEF refreshSession, Formed
      <4> QED
        BY <3>2, <4>2 DEF Quietly
    <3>4. CASE RefreshFails(c)
      <4>1. Ends(c, "refused", {"declined"})
        BY <3>4 DEF RefreshFails
      <4> QED
        BY <1>1, <1>3, <3>2, <4>1, AfterEnds DEF Quietly
    <3> QED
      BY <2>4, <3>3, <3>4
  <2>5. CASE Lapse(c)
    <3>1. /\ call'[c].at = call[c].at /\ call'[c].doing = call[c].doing
          /\ call'[c].made = call[c].made /\ call'[c].i = call[c].i
      BY <1>1, <1>3, <2>5, AfterLapse
    <3>2. CASE Up
      BY <1>3, <3>1, <3>2 DEF Quietly, Busy
    <3>3. CASE ~ Up
      BY <3>1, <3>3 DEF Quietly, Rendering
    <3> QED
      BY <3>2, <3>3
  <2>6. CASE Forget(c) /\ ~ Submits(c)
    <3>1. call'[c].at = "idle" /\ call[c].at \in {"ok", "error", "refused"}
      BY <1>1, <2>6 DEF Forget, NoCall
    <3>2. CASE Up
      <4>1. call[c].doing = DetailCall
        BY <2>6, <3>2 DEF Submits, Opens, DetailCall
      <4> QED
        BY <1>3, <3>1, <3>2, <4>1, CommentShape DEF Quietly
    <3>3. CASE ~ Up
      BY <3>1, <3>3 DEF Quietly
    <3> QED
      BY <3>2, <3>3
  <2> QED
    BY <2>4, <2>5, <2>6, <2>1, <2>2, <2>3 DEF Meanwhile
<1> QED
  BY <1>2, <1>3

LEMMA QuietKeeps ==
  ASSUME PageInv, UNCHANGED Seen, \A b \in Browser : Quietly(b)
  PROVE  PageInv'
<1>1. UNCHANGED <<page, ticket, log, shown, actions, rows, sending, failed, tries, lost>>
      /\ UNCHANGED <<link, boot, pos, frames, lastId, cuts, missed>>
  BY DEF Seen, store, view, form, stream
<1>2. Up' = Up /\ Comments' = Comments /\ LastTry' = LastTry
      /\ (\A k : StoredOf(k)' = StoredOf(k)) /\ (\A k : Placeholder(k)' = Placeholder(k))
  BY <1>1 DEF Up, Comments, LastTry, StoredOf, Placeholder
<1>3. ASSUME NEW b \in Browser
      PROVE  /\ Sends(b)' <=> Sends(b)
             /\ Sends(b) => call'[b].made = call[b].made
  BY <1>1, <1>2, <1>3 DEF Sends, Quietly, Busy, PageInv
<1>4. Rendering'
  <2> SUFFICES ASSUME NEW b \in Browser
      PROVE (/\ Up /\ Busy(b) =>
                 /\ call[b].doing \in {DetailCall, CreateCall}
                 /\ page = "reading" => call[b].doing = DetailCall /\ call[b].at = "work"
                 /\ page # "reading" /\ call[b].doing = DetailCall => call[b].at = "ok"
             /\ ~ Up /\ call[b].at = "work" /\ call[b].doing = DetailCall => call[b].i = 1)'
    BY DEF Rendering
  <2>1. Quietly(b)
    OBVIOUS
  <2> QED
    BY <1>1, <2>1, CommentShape DEF Rendering, Quietly, Busy, Up, PageInv
<1>5. Submission'
  <2> SUFFICES ASSUME NEW b \in Browser, Sends(b)'
      PROVE (/\ LastTry > 0 /\ LastTry \notin failed \cup lost
             /\ LastTry \in sending \/ StoredOf(LastTry) # {}
             /\ call[b].made[1] > 0 <=> StoredOf(LastTry) # {})'
    BY DEF Submission
  <2>1. Sends(b) /\ call'[b].made = call[b].made
    BY <1>3
  <2> QED
    BY <1>1, <1>2, <2>1 DEF PageInv, Submission
<1>6. Placeholders'
  <2>1. Waiting' <=> Waiting
    BY <1>3 DEF Waiting
  <2> QED
    BY <1>1, <1>2, <2>1 DEF PageInv, Placeholders
<1>7. Shut' /\ Unlinked' /\ Logged' /\ Tried' /\ Streamed'
  BY <1>1, <1>2 DEF PageInv, Shut, Unlinked, Logged, Tried, Streamed
<1>8. Threaded' /\ Framing' /\ Replaced'
  BY <1>1, <1>2 DEF PageInv, Threaded, Framing, Replaced, Framed, Comments
<1> QED
  BY <1>4, <1>5, <1>6, <1>7, <1>8 DEF PageInv

LEMMA ArriveKeeps ==
  ASSUME CallsInv, PageInv, NEW c \in Client, ArriveApart(c) \/ ArriveMeanwhile(c)
  PROVE  PageInv'
<1>1. PICK shape \in Offered(c) : Arrive(c, shape)
  BY DEF ArriveApart, ArriveMeanwhile
<1>2. OthersStay(c) /\ UNCHANGED Seen
  BY <1>1, OthersStayed DEF CallStep, ArriveApart, ArriveMeanwhile
<1>3. ASSUME NEW b \in Browser PROVE Quietly(b)
  <2>1. CASE b # c
    BY <1>2, <2>1 DEF OthersStay, Quietly, Client
  <2>2. CASE b = c
    <3>1. ~ Up
      BY <2>2, ClientsAssumption DEF ArriveApart, ArriveMeanwhile
    <3>2. call'[c].at = "checks"
      <4>1. call' = [call EXCEPT ![c] = Called(shape)] /\ call = [d \in Client |-> call[d]]
        BY <1>1 DEF Arrive, CallsInv
      <4> QED
        BY <4>1 DEF Called
    <3> QED
      BY <2>2, <3>1, <3>2 DEF Quietly
  <2> QED
    BY <2>1, <2>2
<1> QED
  BY <1>2, <1>3, QuietKeeps

LEMMA MeanwhileKeeps ==
  ASSUME CallsInv, PageInv, NEW c \in Client, Meanwhile(c)
  PROVE  PageInv'
<1>1. OthersStay(c) /\ UNCHANGED Seen
  BY OthersStayed DEF CallStep, Meanwhile
<1>2. ASSUME NEW b \in Browser PROVE Quietly(b)
  <2>1. CASE b # c
    BY <1>1, <2>1 DEF OthersStay, Quietly, Client
  <2>2. CASE b = c
    BY <2>2, MeanwhileIsQuiet DEF PageInv
  <2> QED
    BY <2>1, <2>2
<1> QED
  BY <1>1, <1>2, QuietKeeps

LEMMA ReadTicketKeeps ==
  ASSUME CallsInv, PageInv, NEW c \in Browser, Do(c), Opens(c), call[c].i = 1,
         ReadTicket
  PROVE  PageInv'
<1>1. c \in Client /\ Busy(c) /\ call[c].at = "work" /\ call[c].doing = DetailCall
      /\ call'[c].at = "work" /\ call'[c].doing = DetailCall
  BY AfterDo, Working DEF Client, Opens, DetailCall, Do
<1>2. page' = "reading" /\ UNCHANGED <<ticket, log, shown, actions, rows, sending, failed, tries, lost>>
      /\ UNCHANGED <<link, boot, pos, frames, lastId, cuts, missed>>
  BY DEF ReadTicket, store, view, form, stream
<1>3. page \in {"closed", "reading"} /\ tries = <<>>
  BY <1>1 DEF PageInv, Rendering, Up, Streamed, Tried
<1>4. Comments' = Comments /\ LastTry' = LastTry
      /\ (\A k : StoredOf(k)' = StoredOf(k)) /\ (\A k : Placeholder(k)' = Placeholder(k))
  BY <1>2 DEF Comments, LastTry, StoredOf, Placeholder
<1>5. \A b \in Browser : b = c
  BY BrowserAssumption
<1>6. Rendering'
  BY <1>1, <1>2, <1>5 DEF Rendering, Up
<1>7. Submission'
  BY <1>1, <1>5, CommentShape DEF Submission, Sends
<1>8. Placeholders'
  BY <1>2, <1>3 DEF PageInv, Placeholders, Placeholder, Tried
<1>9. Shut' /\ Unlinked' /\ Logged' /\ Tried' /\ Streamed'
  BY <1>2, <1>3, <1>4 DEF PageInv, Shut, Unlinked, Logged, Tried, Streamed
<1>10. Threaded' /\ Framing' /\ Replaced'
  BY <1>2, <1>3, <1>4 DEF PageInv, Threaded, Framing, Replaced, Framed, Comments
<1> QED
  BY <1>6, <1>7, <1>8, <1>9, <1>10 DEF PageInv

LEMMA ReadThreadKeeps ==
  ASSUME CallsInv, PageInv, NEW c \in Browser, Do(c), Opens(c),
         call[c].i = Len(call[c].doing.work), ReadThread
  PROVE  PageInv'
<1>1. c \in Client /\ Busy(c) /\ call[c].at = "work" /\ call[c].doing = DetailCall
      /\ call'[c].at = "work" /\ call'[c].doing = DetailCall
  BY AfterDo, Working DEF Client, Opens, DetailCall, Do
<1>2. rows' = [e \in DOMAIN log |-> e]
      /\ UNCHANGED <<page, ticket, log, shown, actions, sending, failed, tries, lost>>
      /\ UNCHANGED <<link, boot, pos, frames, lastId, cuts, missed>>
  BY DEF ReadThread, store, form, stream
<1>3. page = "reading" /\ tries = <<>> /\ sending = {} /\ failed = {} /\ frames = <<>>
  <2>1. call[c].i > 1
    BY <1>1, DetailShape
  <2>2. Up
    BY <1>1, <2>1 DEF PageInv, Rendering
  <2>3. page = "reading" /\ tries = <<>>
    BY <1>1, <2>2 DEF PageInv, Rendering, Streamed, Up, Tried
  <2> QED
    BY <2>3 DEF PageInv, Tried, Unlinked
<1>4. Comments' = Comments /\ LastTry' = LastTry
      /\ (\A k : StoredOf(k)' = StoredOf(k)) /\ (\A k : ~ Placeholder(k)')
  BY <1>2, <1>3 DEF Comments, LastTry, StoredOf, Placeholder
<1>5. \A b \in Browser : b = c
  BY BrowserAssumption
<1>6. Rendering' /\ Submission'
  BY <1>1, <1>2, <1>3, <1>5, CommentShape DEF Rendering, Up, Submission, Sends
<1>7. Placeholders'
  BY <1>2, <1>3 DEF PageInv, Placeholders, Placeholder
<1>8. Shut' /\ Unlinked' /\ Logged' /\ Tried' /\ Streamed'
  BY <1>2, <1>3, <1>4 DEF PageInv, Shut, Unlinked, Logged, Tried, Streamed
<1>9. Threaded'
  <2>1. DOMAIN log = 1 .. Len(log) /\ Len(log) \in Nat
    BY LenProperties DEF PageInv, Logged
  <2>2. rows' \in [1 .. Len(log) -> Nat]
    BY <1>2, <2>1
  <2>3. rows' \in Seq(Nat)
    BY <2>1, <2>2, SeqDef
  <2>4. Range(rows') = DOMAIN log /\ \A i, j \in DOMAIN rows' : i < j => rows'[i] < rows'[j]
    BY <1>2 DEF Range
  <2> QED
    BY <1>2, <1>3, <1>4, <2>3, <2>4 DEF Threaded
<1>10. Framing' /\ Replaced'
  BY <1>2, <1>3, <1>4 DEF PageInv, Framing, Replaced
<1> QED
  BY <1>6, <1>7, <1>8, <1>9, <1>10 DEF PageInv

\* The browser's call at work on an open page is the comment's.
LEMMA PublisherIs ==
  ASSUME CallsInv, PageInv, NEW c \in Client, Do(c), Up, Part(c).does \in Published
  PROVE  /\ ~ Opens(c)
         /\ c \in Browser =>
              /\ Submits(c) /\ Sends(c) /\ call[c].made[1] = 0 /\ call'[c].made[1] = 1
              /\ call'[c].doing = CreateCall /\ call'[c].at = "work" /\ Part(c).does = "comment"
              /\ LastTry > 0 /\ LastTry \in sending /\ LastTry \notin failed \cup lost
              /\ StoredOf(LastTry) = {}
<1>1. /\ Busy(c) /\ Works(c) /\ call'[c].at = "work" /\ call'[c].doing = call[c].doing
      /\ call'[c].made = [call[c].made EXCEPT ![call[c].i] = @ + 1]
  BY AfterDo
<1>2. ~ Opens(c)
  BY <1>1, PageCall DEF Opens, DetailCall, Published, Parts
<1>3. ASSUME c \in Browser
      PROVE  /\ Submits(c) /\ Sends(c) /\ call[c].made[1] = 0 /\ call'[c].made[1] = 1
             /\ call'[c].doing = CreateCall /\ Part(c).does = "comment"
  <2>1. call[c].doing = CreateCall /\ Submits(c)
    BY <1>1, <1>2, <1>3 DEF PageInv, Rendering, Opens, DetailCall, Submits
  <2>2. call[c].made \in [{1} -> Nat] /\ call[c].i = 1 /\ call[c].made[1] = 0
        /\ Part(c).does = "comment"
    BY <1>1, <2>1, CommentCall
  <2> QED
    BY <1>1, <1>3, <2>1, <2>2 DEF Sends
<1>4. c \in Browser => /\ LastTry > 0 /\ LastTry \notin failed \cup lost
                       /\ StoredOf(LastTry) = {} /\ LastTry \in sending
  BY <1>3 DEF PageInv, Submission
<1> QED
  BY <1>1, <1>2, <1>3, <1>4

LEMMA PublishKeeps ==
  ASSUME CallsInv, PageInv, NEW c \in Client, Do(c), Up, Part(c).does \in Published,
         Publish(c, Part(c).does)
  PROVE  PageInv'
<1> DEFINE w == Part(c).does
           t == IF Submits(c) THEN Len(tries) ELSE 0
           n == Len(log) + 1
<1>1. UNCHANGED <<page, shown, actions, rows, sending, failed, tries, lost>>
      /\ UNCHANGED <<link, boot, pos, frames, lastId, cuts, missed>>
      /\ log' = Append(log, [what |-> w, try |-> t])
  BY DEF Publish, view, form, stream
<1>2. OthersStay(c)
  BY OthersStayed DEF CallStep
<1>3. /\ LastTry \in Nat /\ Len(log) \in Nat /\ DOMAIN log = 1 .. Len(log)
      /\ DOMAIN tries = 1 .. LastTry
  BY LenProperties DEF PageInv, Logged, Tried, LastTry
<1>4. t \in 0 .. LastTry /\ w \in Published /\ (t > 0 <=> c \in Browser)
      /\ (c \in Browser => w = "comment" /\ t = LastTry /\ StoredOf(t) = {})
  <2>1. CASE c \in Browser
    BY <1>3, <2>1, PublisherIs DEF LastTry
  <2>2. CASE c \notin Browser
    BY <1>3, <2>2 DEF Submits
  <2> QED
    BY <2>1, <2>2
<1> HIDE DEF w, t
<1>5. /\ log' \in Seq([what : Published, try : Nat]) /\ Len(log') = n /\ DOMAIN log' = 1 .. n
      /\ \A e \in DOMAIN log : log'[e] = log[e]
      /\ log'[n].what = w /\ log'[n].try = t
  <2>1. [what |-> w, try |-> t] \in [what : Published, try : Nat]
    BY <1>3, <1>4
  <2> QED
    BY <1>1, <1>3, <2>1, AppendProperties DEF PageInv, Logged
<1>6. /\ LastTry' = LastTry /\ Up' = Up
      /\ (\A k : Placeholder(k)' = Placeholder(k))
  BY <1>1 DEF LastTry, Placeholder, Up
<1>7. Comments \subseteq Comments' /\ Comments' \subseteq Comments \cup {n}
      /\ Comments \subseteq DOMAIN log /\ (w = "comment" => n \in Comments')
  BY <1>3, <1>5 DEF Comments
<1>8. ASSUME NEW k \in DOMAIN tries
      PROVE  /\ k # t => StoredOf(k)' = StoredOf(k)
             /\ k = t => StoredOf(k)' = {n}
  <2>1. k > 0
    BY <1>3
  <2>2. \A e \in Comments : log'[e].try = log[e].try
    BY <1>5, <1>7
  <2>3. k # t => StoredOf(k)' = StoredOf(k)
    BY <1>5, <1>7, <2>2 DEF StoredOf
  <2>4. ASSUME k = t PROVE StoredOf(k)' = {n}
    <3>1. w = "comment" /\ StoredOf(k) = {}
      BY <1>4, <2>1, <2>4
    <3> QED
      BY <1>5, <1>7, <2>2, <2>4, <3>1 DEF StoredOf
  <2> QED
    BY <2>3, <2>4
<1>9. \A b \in Browser : b # c => call'[b] = call[b]
  BY <1>2 DEF OthersStay, Client
<1>10. Shut' /\ Unlinked'
  BY <1>1 DEF PageInv, Shut, Unlinked, Up
<1>11. Logged'
  <2>1. \A e \in DOMAIN log' : log'[e].try <= LastTry /\ (log'[e].try > 0 => log'[e].what = "comment")
    <3> SUFFICES ASSUME NEW e \in DOMAIN log'
        PROVE  log'[e].try <= LastTry /\ (log'[e].try > 0 => log'[e].what = "comment")
      OBVIOUS
    <3>1. CASE e = n
      BY <1>3, <1>4, <1>5, <3>1
    <3>2. CASE e # n
      <4>1. e \in DOMAIN log /\ log'[e] = log[e]
        BY <1>3, <1>5, <3>2
      <4> QED
        BY <4>1 DEF PageInv, Logged
    <3> QED
      BY <3>1, <3>2
  <2>2. ASSUME NEW e \in DOMAIN log', NEW d \in DOMAIN log', log'[e].try = log'[d].try, log'[e].try > 0
        PROVE  e = d
    <3>1. ASSUME NEW x \in DOMAIN log, log[x].try = t, t > 0 PROVE FALSE
      <4>1. x \in StoredOf(t)
        BY <3>1 DEF PageInv, Logged, StoredOf, Comments
      <4> QED
        BY <1>4, <3>1, <4>1
    <3>2. CASE e \in DOMAIN log /\ d \in DOMAIN log
      BY <1>5, <2>2, <3>2 DEF PageInv, Logged
    <3>3. CASE e = n \/ d = n
      BY <1>3, <1>5, <2>2, <3>1, <3>3
    <3> QED
      BY <1>3, <1>5, <3>2, <3>3
  <2> QED
    BY <1>5, <1>6, <2>1, <2>2 DEF Logged
<1>12. Tried' /\ Streamed'
  BY <1>1, <1>3, <1>5 DEF PageInv, Tried, Streamed
<1>13. Threaded'
  BY <1>1, <1>5, <1>6, <1>7 DEF PageInv, Threaded
<1>14. Rendering'
  <2> SUFFICES ASSUME NEW b \in Browser
      PROVE (/\ Up /\ Busy(b) =>
                 /\ call[b].doing \in {DetailCall, CreateCall}
                 /\ page = "reading" => call[b].doing = DetailCall /\ call[b].at = "work"
                 /\ page # "reading" /\ call[b].doing = DetailCall => call[b].at = "ok"
             /\ ~ Up /\ call[b].at = "work" /\ call[b].doing = DetailCall => call[b].i = 1)'
    BY DEF Rendering
  <2>1. CASE b # c
    BY <1>1, <1>6, <1>9, <2>1 DEF PageInv, Rendering, Busy
  <2>2. CASE b = c
    <3>1. call'[b].doing = CreateCall /\ Sends(c)
      BY <2>2, PublisherIs
    <3>2. page # "reading"
      BY <2>2, <3>1, CommentShape DEF PageInv, Rendering, Sends
    <3> QED
      BY <1>1, <1>6, <3>1, <3>2, CommentShape
  <2> QED
    BY <2>1, <2>2
<1>15. Submission' /\ (Waiting' <=> Waiting)
  <2>1. \A b \in Browser : Sends(b)' <=> Sends(b)
    <3> SUFFICES ASSUME NEW b \in Browser PROVE Sends(b)' <=> Sends(b)
      OBVIOUS
    <3>1. CASE b # c
      BY <1>6, <1>9, <3>1 DEF Sends, Busy
    <3>2. CASE b = c
      BY <1>6, <3>2, PublisherIs DEF Sends, Busy
    <3> QED
      BY <3>1, <3>2
  <2>2. Waiting' <=> Waiting
    BY <2>1 DEF Waiting
  <2>3. ASSUME NEW b \in Browser, Sends(b)'
        PROVE (/\ LastTry > 0 /\ LastTry \notin failed \cup lost
               /\ LastTry \in sending \/ StoredOf(LastTry) # {}
               /\ call[b].made[1] > 0 <=> StoredOf(LastTry) # {})'
    <3>0. Sends(b)
      BY <2>1, <2>3
    <3>1. LastTry > 0 /\ LastTry \notin failed \cup lost /\ LastTry \in DOMAIN tries
      BY <1>3, <3>0 DEF PageInv, Submission
    <3>2. CASE b # c
      <4>1. c \notin Browser
        BY <3>2, BrowserAssumption
      <4>2. t = 0
        BY <1>3, <1>4, <4>1
      <4>3. StoredOf(LastTry)' = StoredOf(LastTry)
        BY <1>6, <1>8, <3>1, <4>2
      <4> QED
        BY <1>1, <1>6, <1>9, <3>0, <3>2, <4>3 DEF PageInv, Submission
    <3>3. CASE b = c
      <4>1. t = LastTry /\ call'[b].made[1] = 1
        BY <1>4, <3>3, PublisherIs
      <4>2. StoredOf(LastTry)' # {}
        BY <1>6, <1>8, <3>1, <4>1
      <4> QED
        BY <1>1, <1>6, <3>1, <4>1, <4>2
    <3> QED
      BY <3>2, <3>3
  <2> QED
    BY <2>2, <2>3 DEF Submission
<1>16. Placeholders'
  <2>1. \A k \in DOMAIN tries : StoredOf(k) # {} => StoredOf(k)' # {}
    BY <1>8
  <2>2. \A k \in DOMAIN tries : k # LastTry => StoredOf(k)' = StoredOf(k)
    BY <1>3, <1>4, <1>8
  <2>3. \A k \in sending \cup failed \cup lost : k \in DOMAIN tries
    BY DEF PageInv, Tried
  <2>4. \A k \in sending' : StoredOf(k)' # {} \/ (k = LastTry' /\ Waiting')
    BY <1>1, <1>6, <1>15, <2>1, <2>3 DEF PageInv, Placeholders
  <2>5. ASSUME NEW k \in failed' PROVE StoredOf(k)' = {} \/ k \in lost'
    <3>1. k \in failed /\ k \in DOMAIN tries
      BY <1>1, <2>3, <2>5
    <3>2. k # t
      <4>1. CASE c \in Browser
        BY <1>4, <3>1, <4>1, PublisherIs
      <4>2. CASE c \notin Browser
        BY <1>3, <1>4, <3>1, <4>2
      <4> QED
        BY <4>1, <4>2
    <3> QED
      BY <1>1, <1>8, <3>1, <3>2 DEF PageInv, Placeholders
  <2>6. ASSUME NEW j \in DOMAIN tries, NEW k \in DOMAIN tries, j < k, tries[j] = tries[k]
        PROVE  ~ Placeholder(j) /\ (StoredOf(j)' = {} \/ j \in lost)
    <3>1. j # LastTry
      BY <1>3, <2>6
    <3>2. StoredOf(j)' = StoredOf(j)
      BY <2>2, <3>1
    <3> QED
      BY <2>6, <3>2 DEF PageInv, Placeholders
  <2>7. \A k \in DOMAIN tries : \E j \in DOMAIN tries :
          tries[j] = tries[k] /\ (StoredOf(j)' # {} \/ Placeholder(j))
    BY <2>1 DEF PageInv, Placeholders
  <2> QED
    BY <1>1, <1>6, <2>4, <2>5, <2>6, <2>7 DEF Placeholders
<1>17. Framing'
  <2>1. \A e \in 1 .. pos : log'[e] = log[e]
    BY <1>3, <1>5 DEF PageInv, Streamed
  <2>2. \A i \in DOMAIN frames : frames[i].of \in 1 .. pos
    BY DEF PageInv, Framing, Framed
  <2>3. \A i \in DOMAIN frames : Framed(frames[i])'
    <3>1. \A f : Framed(f) => Framed(f)'
      BY <1>1, <2>1 DEF Framed
    <3>2. \A i \in DOMAIN frames : Framed(frames[i])
      BY DEF PageInv, Framing
    <3>3. frames' = frames
      BY <1>1
    <3> QED
      BY <3>1, <3>2, <3>3
  <2>4. ASSUME NEW i \in DOMAIN frames, frames[i].patch.does = "append",
               Placeholder(log'[frames[i].of].try)
        PROVE  \E j \in DOMAIN frames : j < i /\ Removes(frames[j], log'[frames[i].of].try)
    <3>1. log'[frames[i].of].try = log[frames[i].of].try
      BY <2>1, <2>2
    <3> QED
      BY <2>4, <3>1 DEF PageInv, Framing
  <2>5. (frames # <<>> => link) /\ frames \in Seq(Range(frames))
        /\ (\A i, j \in DOMAIN frames : i < j => Before(frames[i], frames[j]))
        /\ \A i \in DOMAIN frames : \A e \in Range(rows) : e < frames[i].of
    BY DEF PageInv, Framing
  <2>6. \A f, k : Removes(f, k)' <=> Removes(f, k)
    BY DEF Removes
  <2>7. \A i \in DOMAIN frames : frames[i].patch.does = "append" /\ Placeholder(log'[frames[i].of].try) =>
          \E j \in DOMAIN frames : j < i /\ Removes(frames[j], log'[frames[i].of].try)
    BY <2>4
  <2> QED
    BY <1>1, <1>6, <2>3, <2>5, <2>6, <2>7 DEF Framing
<1>18. Replaced'
  <2> SUFFICES ASSUME NEW e \in Comments', Placeholder(log'[e].try)
      PROVE e > pos \/ e \in missed \/ \E i \in DOMAIN frames : Removes(frames[i], log'[e].try)
    BY <1>1, <1>6 DEF Replaced
  <2>1. CASE e = n
    BY <1>3, <2>1 DEF PageInv, Streamed
  <2>2. CASE e \in Comments
    BY <1>5, <1>7, <2>2 DEF PageInv, Replaced
  <2> QED
    BY <1>7, <2>1, <2>2
<1> QED
  BY <1>10, <1>11, <1>12, <1>13, <1>14, <1>15, <1>16, <1>17, <1>18 DEF PageInv

LEMMA DoKeeps ==
  ASSUME CallsInv, PageInv, NEW c \in Client, DoStretch(c)
  PROVE  PageInv'
<1>1. Do(c) /\ OthersStay(c)
  BY OthersStayed DEF CallStep, DoStretch
<1>2. /\ Busy(c) /\ Works(c) /\ call'[c].at = "work" /\ call'[c].doing = call[c].doing
      /\ call[c].at = "work" /\ call'[c].i = call[c].i + 1
  BY <1>1, AfterDo DEF Works
<1>3. CASE Opens(c) /\ call[c].i = 1
  <2>1. c \in Browser /\ ReadTicket
    BY <1>3 DEF DoStretch, Opens
  <2> QED
    BY <1>1, <1>3, <2>1, ReadTicketKeeps
<1>4. CASE Opens(c) /\ call[c].i # 1 /\ call[c].i = Len(call[c].doing.work)
  <2>1. c \in Browser /\ ReadThread
    BY <1>4 DEF DoStretch, Opens
  <2> QED
    BY <1>1, <1>4, <2>1, ReadThreadKeeps
<1>5. CASE ~ (Opens(c) /\ call[c].i = 1) /\ ~ (Opens(c) /\ call[c].i = Len(call[c].doing.work))
           /\ Up /\ Part(c).does \in Published
  <2>1. Publish(c, Part(c).does)
    BY <1>5 DEF DoStretch
  <2> QED
    BY <1>1, <1>5, <2>1, PublishKeeps
<1>6. CASE ~ (Opens(c) /\ call[c].i = 1) /\ ~ (Opens(c) /\ call[c].i = Len(call[c].doing.work))
           /\ ~ (Up /\ Part(c).does \in Published)
  <2>1. UNCHANGED Seen
    BY <1>6 DEF DoStretch
  <2>2. ASSUME NEW b \in Browser PROVE Quietly(b)
    <3>1. CASE b # c
      BY <1>1, <3>1 DEF OthersStay, Quietly, Client
    <3>2. CASE b = c /\ Up
      <4>1. call[c].doing # CreateCall
        BY <1>2, <1>6, <3>2, CommentCall DEF Published
      <4> QED
        BY <1>2, <3>2, <4>1 DEF Quietly
    <3>3. CASE b = c /\ ~ Up
      <4>1. call[c].doing # DetailCall
        BY <1>2, <1>6, <3>3 DEF PageInv, Rendering, Opens, DetailCall
      <4> QED
        BY <1>2, <3>3, <4>1 DEF Quietly
    <3> QED
      BY <3>1, <3>2, <3>3
  <2> QED
    BY <2>1, <2>2, QuietKeeps
<1> QED
  BY <1>3, <1>4, <1>5, <1>6

LEMMA LeaveKeeps ==
  ASSUME Leave, \A b \in Browser : ~ (call'[b].at = "work" /\ call'[b].doing = DetailCall)
  PROVE  PageInv'
<1>1. /\ page' = "closed"
      /\ ticket' = Untouched /\ log' = <<>>
      /\ shown' = Untouched /\ actions' = Untouched /\ rows' = <<>>
      /\ sending' = {} /\ failed' = {} /\ tries' = <<>> /\ lost' = {}
      /\ link' = FALSE /\ boot' = 0 /\ pos' = 0 /\ frames' = <<>> /\ lastId' = 0
      /\ missed' = {}
  BY DEF Leave
<1>2. ~ Up'
  BY <1>1 DEF Up
<1>3. Shut' /\ Unlinked' /\ Logged' /\ Tried' /\ Streamed'
  <2>1. Shut' /\ Unlinked'
    BY <1>1 DEF Shut, Unlinked
  <2>2. log' \in Seq([what : Published, try : Nat]) /\ DOMAIN log' = {} /\ Len(log') = 0
        /\ tries' \in Seq(Nat) /\ DOMAIN tries' = {}
    BY <1>1, EmptySeq
  <2> QED
    <3>1. Logged'
      BY <2>2 DEF Logged
    <3>2. Tried'
      BY <1>1, <2>2 DEF Tried
    <3>3. Streamed'
      <4>1. boot' \in 0 .. Len(log') /\ pos' \in 0 .. Len(log') /\ lastId' \in Nat
        BY <1>1, <2>2
      <4>2. link' \in BOOLEAN /\ ~ link' /\ page' \in {"closed", "reading", "rendered", "open"}
        BY <1>1
      <4> QED
        BY <4>1, <4>2 DEF Streamed
    <3> QED
      BY <2>1, <3>1, <3>2, <3>3
<1>4. Rendering' /\ Submission'
  BY <1>2 DEF Rendering, Submission, Sends
<1>5. Placeholders'
  BY <1>1 DEF Placeholders
<1>6. Threaded' /\ Framing'
  BY <1>1 DEF Threaded, Framing, Range, IsInjective
<1>7. Replaced'
  BY <1>1 DEF Replaced, Comments
<1> QED
  BY <1>3, <1>4, <1>5, <1>6, <1>7 DEF PageInv

LEMMA FailKeeps ==
  ASSUME CallsInv, PageInv, NEW c \in Client, FailStretch(c)
  PROVE  PageInv'
<1>1. FailPart(c) /\ OthersStay(c)
  BY OthersStayed DEF CallStep, FailStretch
<1>2. Works(c) /\ call[c].at = "work" /\ Busy(c)
  BY <1>1 DEF FailPart, Works, Busy
<1>3. CASE Part(c).skip
  <2>1. UNCHANGED Seen
    BY <1>3 DEF FailStretch
  <2>2. /\ call'[c].at = call[c].at /\ call'[c].doing = call[c].doing
        /\ call'[c].made = call[c].made
    BY <1>1, <1>2, <1>3, AfterGoOn DEF FailPart, Errs
  <2>3. ASSUME NEW b \in Browser PROVE Quietly(b)
    <3>1. CASE b # c
      BY <1>1, <3>1 DEF OthersStay, Quietly, Client
    <3>2. CASE b = c /\ Up
      BY <1>2, <2>2, <3>2 DEF Quietly
    <3>3. CASE b = c /\ ~ Up
      <4>1. call[c].doing # DetailCall
        BY <1>2, <1>3, <3>3, PageCall DEF PageInv, Rendering
      <4> QED
        BY <1>2, <2>2, <3>3, <4>1 DEF Quietly
    <3> QED
      BY <3>1, <3>2, <3>3
  <2> QED
    BY <2>1, <2>3, QuietKeeps
<1>4. CASE ~ Part(c).skip
  <2>1. call'[c].at = "error" /\ call'[c].doing = call[c].doing /\ call'[c].made = call[c].made
    BY <1>1, <1>2, <1>4, AfterEnds DEF FailPart, Errs
  <2>2. CASE Opens(c)
    <3>1. Leave
      BY <1>4, <2>2 DEF FailStretch
    <3>2. \A b \in Browser : b = c
      BY <2>2, BrowserAssumption DEF Opens
    <3> QED
      BY <2>1, <3>1, <3>2, LeaveKeeps
  <2>3. CASE ~ Opens(c)
    <3>1. UNCHANGED Seen
      BY <2>3 DEF FailStretch
    <3>2. ASSUME NEW b \in Browser PROVE Quietly(b)
      <4>1. CASE b # c
        BY <1>1, <4>1 DEF OthersStay, Quietly, Client
      <4>2. CASE b = c /\ Up
        BY <1>2, <2>1, <2>3, <4>2 DEF Quietly, Opens, DetailCall
      <4>3. CASE b = c /\ ~ Up
        BY <2>1, <4>3 DEF Quietly
      <4> QED
        BY <4>1, <4>2, <4>3
    <3> QED
      BY <3>1, <3>2, QuietKeeps
  <2> QED
    BY <2>2, <2>3
<1> QED
  BY <1>3, <1>4

LEMMA FinishKeeps ==
  ASSUME CallsInv, PageInv, NEW c \in Client, FinishCall(c)
  PROVE  PageInv'
<1>1. Finish(c) /\ OthersStay(c)
  BY OthersStayed DEF CallStep, FinishCall
<1>2. ~ Works(c) /\ call[c].at = "work" /\ Busy(c)
  BY <1>1 DEF Finish, Busy
<1>3. call'[c].at = "ok" /\ call'[c].doing = call[c].doing /\ call'[c].made = call[c].made
  BY <1>1, <1>2, AfterEnds DEF Finish
<1>4. UNCHANGED <<ticket, log, shown, actions, rows, sending, failed, tries, lost>>
      /\ UNCHANGED <<link, boot, pos, frames, lastId, cuts, missed>>
      /\ page' = IF Opens(c) THEN "rendered" ELSE page
  BY DEF FinishCall, store, view, form, stream
<1>5. CASE ~ Opens(c)
  <2>1. UNCHANGED Seen
    BY <1>4, <1>5 DEF Seen, store, view, form, stream
  <2>2. ASSUME NEW b \in Browser PROVE Quietly(b)
    <3>1. CASE b # c
      BY <1>1, <3>1 DEF OthersStay, Quietly, Client
    <3>2. CASE b = c /\ Up
      BY <1>2, <1>3, <1>5, <3>2 DEF Quietly, Opens, DetailCall
    <3>3. CASE b = c /\ ~ Up
      BY <1>3, <3>3 DEF Quietly
    <3> QED
      BY <3>1, <3>2, <3>3
  <2> QED
    BY <2>1, <2>2, QuietKeeps
<1>6. CASE Opens(c)
  <2>1. c \in Browser /\ call[c].doing = DetailCall /\ \A b \in Browser : b = c
    BY <1>6, BrowserAssumption DEF Opens, DetailCall
  <2>2. Up
    <3>1. call[c].i # 1
      <4>1. Len(call[c].doing.work) > 1
        BY <2>1, DetailShape
      <4> QED
        BY <1>2, <4>1 DEF Works
    <3> QED
      BY <1>2, <2>1, <3>1 DEF PageInv, Rendering
  <2>3. page = "reading" /\ tries = <<>> /\ page' = "rendered"
    BY <1>2, <1>4, <1>6, <2>1, <2>2 DEF PageInv, Rendering, Tried
  <2>4. Comments' = Comments /\ LastTry' = LastTry
        /\ (\A k : StoredOf(k)' = StoredOf(k)) /\ (\A k : Placeholder(k)' = Placeholder(k))
    BY <1>4 DEF Comments, LastTry, StoredOf, Placeholder
  <2>5. Rendering' /\ Submission'
    BY <1>3, <2>1, <2>3, CommentShape DEF Rendering, Submission, Sends, Up
  <2>6. Placeholders'
    BY <1>4, <2>3 DEF PageInv, Placeholders, Placeholder, Tried
  <2>7. Shut' /\ Unlinked' /\ Logged' /\ Tried' /\ Streamed'
    BY <1>4, <2>3, <2>4 DEF PageInv, Shut, Unlinked, Logged, Tried, Streamed
  <2>8. Threaded' /\ Framing' /\ Replaced'
    BY <1>4, <2>3, <2>4 DEF PageInv, Threaded, Framing, Replaced, Framed, Comments
  <2> QED
    BY <2>5, <2>6, <2>7, <2>8 DEF PageInv
<1> QED
  BY <1>5, <1>6

\* A comment is submitted, as a new text or as that of a red placeholder.
Fresher(text) == text = Len(tries) + 1 /\ failed' = failed
Again(text) == \E k \in failed : text = tries[k] /\ failed' = failed \ {k}

LEMMA SendKeeps ==
  ASSUME CallsInv, PageInv, NEW c \in Browser, NEW text, Send(c, text),
         Fresher(text) \/ Again(text)
  PROVE  PageInv'
<1> DEFINE n == LastTry + 1
           Later(k) == k \in sending' \cup failed'
<1>1. UNCHANGED <<page, ticket, log, shown, actions, rows, lost>>
      /\ UNCHANGED <<link, boot, pos, frames, lastId, cuts, missed>>
      /\ tries' = Append(tries, text) /\ sending' = sending \cup {n}
      /\ failed' \subseteq failed /\ page \in {"rendered", "open"} /\ ~ Busy(c)
  BY DEF Send, store, view, stream, LastTry, Fresher, Again, AtRest, Busy
<1>2. call'[c].at = "checks" /\ call'[c].doing = CreateCall /\ call'[c].made[1] = 0
  <2>1. call'[c] = Called(CreateCall)
    BY DEF Send, Arrive, CallsInv, Client, CreateCall
  <2> QED
    BY <2>1, CommentShape DEF Called
<1>3. \A b \in Browser : b = c
  BY BrowserAssumption
<1>4. /\ LastTry \in Nat /\ DOMAIN tries = 1 .. LastTry
      /\ sending \cup failed \cup lost \subseteq DOMAIN tries
  BY LenProperties DEF PageInv, Tried, LastTry
<1>5. text \in 1 .. n
  <2>1. CASE Fresher(text)
    BY <1>4, <2>1 DEF Fresher, LastTry
  <2>2. CASE Again(text)
    BY <1>4, <2>2 DEF Again, PageInv, Tried
  <2> QED
    BY <2>1, <2>2
<1>6. /\ tries' \in Seq(Nat) /\ LastTry' = n /\ DOMAIN tries' = 1 .. n
      /\ \A k \in DOMAIN tries : tries'[k] = tries[k]
      /\ tries'[n] = text
  BY <1>1, <1>4, <1>5, AppendProperties DEF PageInv, Tried, LastTry
<1>7. /\ Up' /\ Up /\ Comments' = Comments /\ Comments \subseteq DOMAIN log
      /\ (\A k : StoredOf(k)' = StoredOf(k)) /\ StoredOf(n) = {}
      /\ \A e \in DOMAIN log : log[e].try \in Nat /\ log[e].try # n
  <2>1. \A e \in DOMAIN log : log[e].try \in Nat /\ log[e].try <= LastTry
    <3>1. log \in Seq([what : Published, try : Nat])
      BY DEF PageInv, Logged
    <3>2. \A e \in DOMAIN log : log[e] \in [what : Published, try : Nat]
      BY <3>1, ElementOfSeq, LenProperties
    <3> QED
      BY <3>2 DEF PageInv, Logged
  <2>2. \A e \in DOMAIN log : log[e].try \in Nat /\ log[e].try # n
    BY <1>4, <2>1
  <2> QED
    BY <1>1, <2>2 DEF Up, Comments, StoredOf
<1>8. /\ Later(n) /\ n \notin sending /\ n \notin failed /\ n \notin lost
      /\ \A k : k # n /\ Later(k) => Placeholder(k)
      /\ \A k : Placeholder(k)' <=> Later(k)
  <2>1. n \notin DOMAIN tries
    BY <1>4
  <2> QED
    BY <1>1, <1>4, <2>1 DEF Placeholder
<1>9. Sends(c)' /\ ~ Waiting
  BY <1>1, <1>2, <1>3, <1>7 DEF Sends, Busy, Waiting
<1> HIDE DEF n, Later
<1>10. Shut' /\ Unlinked' /\ Logged' /\ Tried' /\ Streamed'
  <2>1. Shut' /\ Unlinked' /\ Streamed'
    BY <1>1 DEF PageInv, Shut, Unlinked, Streamed
  <2>2. Logged'
    BY <1>1, <1>4, <1>6, <1>7 DEF PageInv, Logged, n
  <2>3. \A k \in DOMAIN tries' : tries'[k] \in 1 .. k
    <3>1. \A k \in DOMAIN tries' : k = n \/ k \in DOMAIN tries
      BY <1>4, <1>6 DEF n
    <3> QED
      BY <1>5, <1>6, <3>1 DEF PageInv, Tried
  <2>4. sending' \cup failed' \cup lost' \subseteq DOMAIN tries' /\ sending' \cap failed' = {}
    <3>1. DOMAIN tries \subseteq DOMAIN tries' /\ n \in DOMAIN tries'
      BY <1>4, <1>6 DEF n
    <3> QED
      BY <1>1, <1>4, <1>8, <3>1 DEF PageInv, Tried
  <2> QED
    BY <1>1, <1>6, <2>1, <2>2, <2>3, <2>4 DEF Tried
<1>11. Threaded'
  <2>1. \A e \in Range(rows) : ~ Later(log[e].try)
    BY <1>7, <1>8 DEF PageInv, Threaded
  <2> QED
    BY <1>1, <1>7, <1>8, <2>1 DEF PageInv, Threaded, Placeholder, Later
<1>12. Rendering'
  BY <1>1, <1>2, <1>3, CommentShape DEF Rendering, Up
<1>13. Submission'
  <2>1. n > 0
    BY <1>4 DEF n
  <2> QED
    BY <1>1, <1>2, <1>3, <1>6, <1>7, <1>8, <2>1 DEF Submission
<1>14. Placeholders'
  <2>1. \A k \in sending' : StoredOf(k)' # {} \/ (k = LastTry' /\ Waiting')
    BY <1>1, <1>6, <1>7, <1>9 DEF PageInv, Placeholders, Waiting
  <2>2. \A k \in failed' : StoredOf(k)' = {} \/ k \in lost'
    BY <1>1, <1>7 DEF PageInv, Placeholders
  <2>3. ASSUME NEW j \in DOMAIN tries, text = tries[j]
        PROVE  ~ Later(j) /\ (StoredOf(j) = {} \/ j \in lost)
    <3>1. text # LastTry + 1
      BY <1>4, <2>3 DEF PageInv, Tried
    <3>2. PICK k \in failed : text = tries[k] /\ failed' = failed \ {k}
      BY <3>1 DEF Fresher, Again, LastTry
    <3>3. k \in DOMAIN tries /\ Placeholder(k) /\ (StoredOf(k) = {} \/ k \in lost)
      BY <1>4, <3>2 DEF Placeholder, PageInv, Placeholders
    <3>4. j # n
      BY <1>4 DEF n
    <3>5. CASE j = k
      <4>1. k \notin sending /\ k \notin failed'
        BY <3>2 DEF PageInv, Tried
      <4> QED
        BY <1>1, <3>3, <3>4, <3>5, <4>1 DEF Later
    <3>6. CASE j < k
      BY <1>8, <2>3, <3>2, <3>3, <3>4, <3>6 DEF PageInv, Placeholders
    <3>7. CASE k < j
      BY <2>3, <3>2, <3>3, <3>7 DEF PageInv, Placeholders
    <3> QED
      BY <1>4, <3>3, <3>5, <3>6, <3>7
  <2>4. ASSUME NEW j \in DOMAIN tries', NEW k \in DOMAIN tries', j < k, tries'[j] = tries'[k]
        PROVE  ~ Later(j) /\ (StoredOf(j)' = {} \/ j \in lost')
    <3>1. j \in DOMAIN tries /\ j # n /\ (k = n \/ k \in DOMAIN tries)
      BY <1>4, <1>6, <2>4 DEF n
    <3>2. CASE k = n
      BY <1>1, <1>6, <1>7, <2>3, <2>4, <3>1, <3>2
    <3>3. CASE k \in DOMAIN tries
      <4>1. tries[j] = tries[k]
        BY <1>6, <2>4, <3>1, <3>3
      <4> QED
        BY <1>1, <1>7, <1>8, <2>4, <3>1, <3>3, <4>1 DEF PageInv, Placeholders
    <3> QED
      BY <3>1, <3>2, <3>3
  <2>5. ASSUME NEW k \in DOMAIN tries'
        PROVE  \E j \in DOMAIN tries' :
                 tries'[j] = tries'[k] /\ (StoredOf(j)' # {} \/ Later(j))
    <3>1. n \in DOMAIN tries' /\ (k = n \/ k \in DOMAIN tries) /\ DOMAIN tries \subseteq DOMAIN tries'
      BY <1>4, <1>6 DEF n
    <3>2. CASE k = n
      BY <1>8, <3>1, <3>2
    <3>3. CASE k \in DOMAIN tries
      <4>1. PICK j \in DOMAIN tries : tries[j] = tries[k] /\ (StoredOf(j) # {} \/ Placeholder(j))
        BY <3>3 DEF PageInv, Placeholders
      <4>2. tries'[j] = tries'[k]
        BY <1>6, <3>3, <4>1
      <4>3. CASE StoredOf(j) # {} \/ Later(j)
        BY <1>7, <3>1, <4>1, <4>2, <4>3
      <4>4. CASE Placeholder(j) /\ ~ Later(j)
        <5>1. j \in failed /\ j \notin failed'
          BY <1>1, <4>4 DEF Placeholder, Later
        <5>2. text = tries[j]
          BY <5>1 DEF Fresher, Again
        <5> QED
          BY <1>6, <1>8, <3>1, <4>1, <4>2, <5>2
      <4> QED
        BY <4>1, <4>3, <4>4
    <3> QED
      BY <3>1, <3>2, <3>3
  <2> QED
    BY <1>8, <2>1, <2>2, <2>4, <2>5 DEF Placeholders
<1>15. Framing'
  <2>1. \A i \in DOMAIN frames : Framed(frames[i]) /\ frames[i].of \in DOMAIN log
    BY LenProperties DEF PageInv, Framing, Framed, Streamed, Logged
  <2>2. \A i \in DOMAIN frames :
          frames[i].patch.does = "append" /\ Later(log[frames[i].of].try) =>
            \E j \in DOMAIN frames : j < i /\ Removes(frames[j], log[frames[i].of].try)
    BY <1>7, <1>8, <2>1 DEF PageInv, Framing
  <2>3. \A f, k : Removes(f, k)' <=> Removes(f, k)
    BY DEF Removes
  <2>4. \A f : Framed(f)' <=> Framed(f)
    BY <1>1 DEF Framed
  <2>5. (frames # <<>> => link) /\ frames \in Seq(Range(frames))
        /\ (\A i, j \in DOMAIN frames : i < j => Before(frames[i], frames[j]))
        /\ \A i \in DOMAIN frames : \A e \in Range(rows) : e < frames[i].of
    BY DEF PageInv, Framing
  <2> QED
    BY <1>1, <2>4, <2>5, <2>1, <2>2, <2>3 DEF Framing, Placeholder, Later
<1>16. Replaced'
  <2>1. \A e \in Comments : Later(log[e].try) => Placeholder(log[e].try)
    BY <1>7, <1>8
  <2> QED
    BY <1>1, <1>7, <2>1 DEF PageInv, Replaced, Placeholder, Removes, Later
<1> QED
  BY <1>10, <1>11, <1>12, <1>13, <1>14, <1>15, <1>16 DEF PageInv

LEMMA SubmitKeeps ==
  ASSUME CallsInv, PageInv, NEW c \in Browser, Submit(c) \/ Retry(c)
  PROVE  PageInv'
<1>1. CASE Submit(c)
  BY <1>1, SendKeeps DEF Submit, Fresher
<1>2. CASE Retry(c)
  <2>1. PICK k \in failed : Send(c, tries[k]) /\ failed' = failed \ {k}
    BY <1>2 DEF Retry
  <2>2. Again(tries[k])
    BY <2>1 DEF Again
  <2> QED
    BY <2>1, <2>2, SendKeeps
<1> QED
  BY <1>1, <1>2

\* The call's answer, or its loss, reaches the placeholder.
LEMMA ReturnKeeps ==
  ASSUME CallsInv, PageInv, NEW c \in Browser, Hear(c) \/ AnswerLost(c)
  PROVE  PageInv'
<1>1. /\ Forget(c) /\ Submits(c) /\ call'[c].at = "idle"
      /\ Busy(c) /\ call[c].at \in {"ok", "error", "refused"}
      /\ UNCHANGED <<page, ticket, log, shown, actions, rows, tries>>
      /\ UNCHANGED <<link, boot, pos, frames, lastId, cuts, missed>>
  <2>1. /\ Forget(c) /\ Submits(c)
        /\ UNCHANGED <<page, ticket, log, shown, actions, rows, tries>>
        /\ UNCHANGED <<link, boot, pos, frames, lastId, cuts, missed>>
    BY DEF Hear, AnswerLost, store, view, stream
  <2>2. call[c].at \in {"ok", "error", "refused"} /\ call' = [call EXCEPT ![c] = NoCall]
    BY <2>1 DEF Forget
  <2>3. call'[c].at = "idle"
    BY <2>2 DEF CallsInv, Client, NoCall
  <2> QED
    BY <2>1, <2>2, <2>3 DEF Busy
<1>2. \A b \in Browser : b = c
  BY BrowserAssumption
<1>3. Sends(c) /\ call[c].doing = CreateCall
  BY <1>1 DEF Submits, Opens, DetailCall, PageInv, Rendering, Sends
<1>4. /\ LastTry > 0 /\ LastTry \notin failed \cup lost
      /\ LastTry \in sending \/ StoredOf(LastTry) # {}
      /\ call[c].made[1] > 0 <=> StoredOf(LastTry) # {}
  BY <1>3 DEF PageInv, Submission
<1>5. LastTry \in DOMAIN tries
  BY <1>4, LenProperties DEF PageInv, Tried, LastTry
<1>6. /\ call[c].at = "ok" => StoredOf(LastTry) # {}
      /\ call[c].at \in {"error", "refused"} => StoredOf(LastTry) = {}
  <2>1. c \in Client /\ call[c].made[1] \in Nat
    BY <1>1, <1>3, CommentCall DEF Client
  <2> QED
    BY <1>1, <1>3, <1>4, <2>1, CommentCall
<1>7. /\ lost \subseteq lost' /\ lost' \subseteq lost \cup {LastTry}
      /\ sending' \subseteq sending /\ failed' \subseteq failed \cup {LastTry}
      /\ sending' \cap failed' = {} /\ sending' \cup failed' = sending \cup failed
      /\ LastTry \in sending' => StoredOf(LastTry) # {}
      /\ LastTry \in failed' => StoredOf(LastTry) = {} \/ LastTry \in lost'
  <2>1. sending \cap failed = {}
    BY DEF PageInv, Tried
  <2>2. CASE AnswerLost(c)
    BY <1>4, <2>1, <2>2 DEF AnswerLost, markCommentError, LastTry
  <2>3. CASE Hear(c) /\ call[c].at = "ok"
    BY <1>4, <1>6, <2>1, <2>3 DEF Hear
  <2>4. CASE Hear(c) /\ call[c].at # "ok"
    <3>1. StoredOf(LastTry) = {}
      BY <1>1, <1>6, <2>4
    <3> QED
      BY <1>4, <2>1, <2>4, <3>1 DEF Hear, markCommentError, LastTry
  <2> QED
    BY <2>2, <2>3, <2>4
<1>8. Up' = Up /\ Comments' = Comments /\ LastTry' = LastTry
      /\ (\A k : StoredOf(k)' = StoredOf(k)) /\ (\A k : Placeholder(k)' <=> Placeholder(k))
  BY <1>1, <1>7 DEF Up, Comments, LastTry, StoredOf, Placeholder
<1>9. Rendering' /\ Submission' /\ ~ Waiting'
  BY <1>1, <1>2 DEF Rendering, Submission, Waiting, Sends, Busy
<1>10. Shut' /\ Unlinked' /\ Logged' /\ Tried' /\ Streamed'
  <2>1. page # "closed"
    BY <1>1 DEF Submits, Up
  <2> QED
    BY <1>1, <1>5, <1>7, <1>8, <2>1 DEF PageInv, Shut, Unlinked, Logged, Tried, Streamed
<1>11. Placeholders'
  <2>1. \A k \in sending' : StoredOf(k) # {}
    BY <1>7 DEF PageInv, Placeholders
  <2>2. \A k \in failed' : StoredOf(k) = {} \/ k \in lost'
    BY <1>7 DEF PageInv, Placeholders
  <2>3. \A j, k \in DOMAIN tries : j < k /\ tries[j] = tries[k] =>
          ~ Placeholder(j) /\ (StoredOf(j) = {} \/ j \in lost')
    BY <1>7 DEF PageInv, Placeholders
  <2>4. \A k \in DOMAIN tries : \E j \in DOMAIN tries :
          tries[j] = tries[k] /\ (StoredOf(j) # {} \/ Placeholder(j))
    BY DEF PageInv, Placeholders
  <2> QED
    BY <1>1, <1>8, <2>1, <2>2, <2>3, <2>4 DEF Placeholders
<1>12. Threaded' /\ Replaced'
  BY <1>1, <1>8 DEF PageInv, Threaded, Replaced, Removes
<1>13. Framing'
  BY <1>1, <1>8 DEF PageInv, Framing, Framed, Removes, Before, Stage
<1> QED
  BY <1>9, <1>10, <1>11, <1>12, <1>13 DEF PageInv

\* What the stream replays is the end of the log, from where it goes on.
LEMMA Attached ==
  ASSUME Logged, Streamed, Numbered, Attach
  PROVE  /\ pos' \in pos .. Len(log) /\ Replay = pos' + 1 .. Len(log) /\ boot <= pos'
         /\ missed' = missed \cup {e \in pos + 1 .. pos' : e \notin Comments \cap Range(rows)}
         /\ lastId = 0 => pos' = Len(log)
         /\ link' /\ UNCHANGED <<calls, ticket, log, shown, actions, rows>>
         /\ UNCHANGED <<sending, failed, tries, lost, boot, frames, lastId, cuts>>
<1> DEFINE L == Len(log)
           up == boot + lastId
           q == IF lastId = 0 THEN L ELSE IF up > L THEN L ELSE IF up > pos THEN up ELSE pos
<1>1. L \in Nat /\ pos \in 0 .. L /\ boot \in 0 .. L /\ lastId \in Nat
  BY LenProperties DEF Logged, Streamed
<1> HIDE DEF L
<1>2. q \in pos .. L /\ boot <= q /\ (lastId = 0 => q = L)
  BY <1>1
<1>3. Replay = q + 1 .. L
  <2>1. CASE lastId = 0
    BY <1>1, <2>1 DEF Replay
  <2>2. CASE lastId # 0
    <3>1. Replay = {e \in pos + 1 .. L : e > boot /\ e - boot > lastId}
      BY <2>2 DEF Replay, Unheard, Id, L
    <3>2. \A e \in pos + 1 .. L : e > boot /\ e - boot > lastId <=> e \in q + 1 .. L
      BY <1>1, <2>2
    <3>3. q + 1 .. L \subseteq pos + 1 .. L
      BY <1>1, <1>2
    <3> QED
      BY <3>1, <3>2, <3>3
  <2> QED
    BY <2>1, <2>2
<1> HIDE DEF q
<1>4. pos' = q
  <2>1. Cardinality(q + 1 .. L) = IF q + 1 > L THEN 0 ELSE L - (q + 1) + 1
    BY <1>1, <1>2, FS_Interval
  <2>2. pos' = L - Cardinality(Replay)
    BY DEF Attach, L
  <2> QED
    BY <1>1, <1>2, <1>3, <2>1, <2>2
<1>5. missed' = missed \cup {e \in pos + 1 .. pos' : e \notin Comments \cap Range(rows)}
  <2>1. missed' = missed \cup (Untold \ (Comments \cap Range(rows)))
    BY DEF Attach
  <2>2. Untold = pos + 1 .. pos'
    <3>1. CASE lastId = 0
      BY <1>2, <1>4, <3>1 DEF Untold, Unheard, L
    <3>2. CASE lastId # 0 /\ boot = 0
      <4>1. q = pos
        BY <1>1, <3>2 DEF Numbered, q
      <4>2. Untold = {} /\ pos' = pos
        BY <1>4, <3>2, <4>1 DEF Untold
      <4> QED
        BY <1>1, <4>2
    <3>3. CASE lastId # 0 /\ boot > 0
      <4>1. Untold = {e \in pos + 1 .. L : e <= boot \/ e - boot <= lastId}
        BY <3>3 DEF Untold, Unheard, Id, L
      <4>2. Replay = {e \in pos + 1 .. L : e > boot /\ e - boot > lastId}
        BY <3>3 DEF Replay, Unheard, Id, L
      <4>3. \A e \in pos + 1 .. L : e \in Untold <=> e \notin Replay
        BY <1>1, <4>1, <4>2
      <4>4. \A e \in pos + 1 .. L : e \notin Replay <=> e \in pos + 1 .. pos'
        BY <1>1, <1>2, <1>3, <1>4
      <4>5. pos + 1 .. pos' \subseteq pos + 1 .. L
        BY <1>1, <1>2, <1>4
      <4> QED
        BY <4>1, <4>3, <4>4, <4>5
    <3> QED
      BY <1>1, <3>1, <3>2, <3>3
  <2> QED
    BY <2>1, <2>2
<1>6. link' /\ UNCHANGED <<calls, ticket, log, shown, actions, rows>>
      /\ UNCHANGED <<sending, failed, tries, lost, boot, frames, lastId, cuts>>
  BY DEF Attach, store, view, form
<1> QED
  BY <1>2, <1>3, <1>4, <1>5, <1>6 DEF L

LEMMA AttachKeeps ==
  ASSUME PageInv, Numbered, Subscribe \/ Resume
  PROVE  PageInv'
<1>1. Attach /\ page' = "open" /\ page \in {"rendered", "open"} /\ ~ link
  BY DEF Subscribe, Resume, PageInv, Unlinked
<1>2. /\ pos' \in pos .. Len(log) /\ boot <= pos'
      /\ missed' = missed \cup {e \in pos + 1 .. pos' : e \notin Comments \cap Range(rows)}
      /\ lastId = 0 => pos' = Len(log)
      /\ link' /\ UNCHANGED <<calls, ticket, log, shown, actions, rows>>
      /\ UNCHANGED <<sending, failed, tries, lost, boot, frames, lastId, cuts>>
  BY <1>1, Attached DEF PageInv
<1>3. frames = <<>> /\ frames' = <<>>
  BY <1>1, <1>2 DEF PageInv, Framing
<1>4. Up' /\ Up /\ Comments' = Comments /\ LastTry' = LastTry /\ call' = call
      /\ (\A k : StoredOf(k)' = StoredOf(k)) /\ (\A k : Placeholder(k)' <=> Placeholder(k))
  BY <1>1, <1>2 DEF Up, Comments, LastTry, StoredOf, Placeholder, calls
<1>5. Len(log) \in Nat /\ pos \in 0 .. Len(log) /\ Comments \subseteq 1 .. Len(log)
  BY LenProperties DEF PageInv, Logged, Streamed, Comments
<1>6. Shut' /\ Unlinked' /\ Logged' /\ Tried'
  BY <1>1, <1>2, <1>4 DEF PageInv, Shut, Unlinked, Logged, Tried
<1>7. Streamed'
  BY <1>1, <1>2, <1>5 DEF PageInv, Streamed
<1>8. Threaded'
  <2>1. ASSUME NEW e \in Range(rows) PROVE e <= pos'
    <3>0. e \in 1 .. Len(log) /\ (page = "open" => e <= pos)
      BY <1>5, <2>1, LenProperties DEF PageInv, Threaded, Logged
    <3>1. CASE page = "open"
      BY <1>2, <1>5, <3>0, <3>1
    <3>2. CASE page = "rendered"
      <4>1. lastId = 0
        BY <3>2 DEF PageInv, Unlinked
      <4> QED
        BY <1>2, <1>5, <3>0, <4>1
    <3> QED
      BY <1>1, <3>1, <3>2
  <2> QED
    BY <1>2, <1>4, <2>1 DEF PageInv, Threaded
<1>9. Rendering' /\ Submission' /\ Placeholders'
  <2>1. Rendering'
    BY <1>1, <1>4 DEF PageInv, Rendering, Busy
  <2>2. Submission' /\ Placeholders'
    BY <1>2, <1>4 DEF PageInv, Submission, Placeholders, Sends, Busy, Waiting
  <2> QED
    BY <2>1, <2>2
<1>10. Framing'
  <2>1. <<>> \in Seq(Range(<<>>)) /\ DOMAIN <<>> = {}
    BY EmptySeq
  <2> QED
    BY <1>3, <2>1 DEF Framing
<1>11. Replaced'
  <2> SUFFICES ASSUME NEW e \in Comments, Placeholder(log[e].try)
      PROVE e > pos' \/ e \in missed'
    BY <1>2, <1>4 DEF Replaced, Placeholder
  <2>1. e > pos \/ e \in missed
    BY <1>3 DEF PageInv, Replaced
  <2>2. e \notin Range(rows)
    BY DEF PageInv, Threaded
  <2> QED
    BY <1>2, <1>5, <2>1, <2>2
<1> QED
  BY <1>6, <1>7, <1>8, <1>9, <1>10, <1>11 DEF PageInv

\* What the page has not been told when its stream ends is behind pos again.
LEMMA DroppedTo ==
  ASSUME PageInv, Dropped
  PROVE  /\ link' = FALSE /\ frames' = <<>> /\ pos' \in 0 .. pos /\ page = "open"
         /\ \A e \in Range(rows) : e <= pos'
         /\ missed \subseteq missed'
         /\ \A i \in DOMAIN frames : frames[i].of > pos' \/ frames[i].of \in missed'
         /\ UNCHANGED <<calls, page, ticket, log, shown, actions, rows>>
         /\ UNCHANGED <<sending, failed, tries, lost, lastId>>
<1>1. /\ link /\ link' = FALSE /\ frames' = <<>>
      /\ pos' = IF frames = <<>> THEN pos ELSE Head(frames).of - (IF Begun THEN 0 ELSE 1)
      /\ missed' = IF Begun THEN missed \cup {Head(frames).of} ELSE missed
      /\ UNCHANGED <<calls, page, ticket, log, shown, actions, rows>>
      /\ UNCHANGED <<sending, failed, tries, lost, lastId>>
  BY DEF Dropped, store, view, form
<1>2. page = "open" /\ pos \in Nat
  BY <1>1 DEF PageInv, Streamed
<1>3. CASE frames = <<>>
  BY <1>1, <1>2, <1>3, EmptySeq DEF Begun, PageInv, Threaded
<1>4. CASE frames # <<>>
  <2> DEFINE h == Head(frames).of
  <2>1. 1 \in DOMAIN frames /\ frames[1].of = h /\ DOMAIN frames = 1 .. Len(frames)
        /\ Len(frames) \in Nat
    BY <1>4, EmptySeq, LenProperties DEF PageInv, Framing
  <2>2. h \in 1 .. pos /\ \A e \in Range(rows) : e < h
    BY <2>1 DEF PageInv, Framing, Framed
  <2>3. \A i \in DOMAIN frames : frames[i].of \in Nat /\ frames[i].of >= h
    <3>1. \A i \in DOMAIN frames : frames[i].of \in Nat
      BY <1>2 DEF PageInv, Framing, Framed
    <3>2. \A i \in DOMAIN frames : i = 1 \/ Before(frames[1], frames[i])
      BY <2>1 DEF PageInv, Framing
    <3> QED
      BY <2>1, <3>1, <3>2 DEF Before
  <2> HIDE DEF h
  <2>4. \A e \in Range(rows) : e \in Nat
    <3>1. rows \in Seq(Nat)
      BY DEF PageInv, Threaded
    <3> QED
      BY <3>1, LenProperties, ElementOfSeq DEF Range
  <2>5. CASE Begun
    <3>1. pos' = h /\ missed' = missed \cup {h}
      BY <1>1, <1>4, <2>2, <2>5 DEF h
    <3>2. pos' \in 0 .. pos
      BY <1>2, <2>2, <3>1
    <3>3. \A e \in Range(rows) : e <= pos'
      BY <1>2, <2>2, <2>4, <3>1
    <3>4. \A i \in DOMAIN frames : frames[i].of > pos' \/ frames[i].of \in missed'
      BY <1>2, <2>2, <2>3, <3>1
    <3> QED
      BY <1>1, <1>2, <3>1, <3>2, <3>3, <3>4
  <2>6. CASE ~ Begun
    <3>1. pos' = h - 1 /\ missed' = missed
      BY <1>1, <1>4, <2>2, <2>6 DEF h
    <3>2. pos' \in 0 .. pos
      BY <1>2, <2>2, <3>1
    <3>3. \A e \in Range(rows) : e <= pos'
      BY <1>2, <2>2, <2>4, <3>1
    <3>4. \A i \in DOMAIN frames : frames[i].of > pos' \/ frames[i].of \in missed'
      BY <1>2, <2>2, <2>3, <3>1
    <3> QED
      BY <1>1, <1>2, <3>1, <3>2, <3>3, <3>4
  <2> QED
    BY <2>5, <2>6
<1> QED
  BY <1>3, <1>4

LEMMA DroppedKeeps ==
  ASSUME PageInv, Cut \/ Restart
  PROVE  PageInv'
<1>1. /\ link' = FALSE /\ frames' = <<>> /\ pos' \in 0 .. pos /\ page = "open"
      /\ \A e \in Range(rows) : e <= pos'
      /\ missed \subseteq missed'
      /\ \A i \in DOMAIN frames : frames[i].of > pos' \/ frames[i].of \in missed'
      /\ UNCHANGED <<calls, page, ticket, log, shown, actions, rows>>
      /\ UNCHANGED <<sending, failed, tries, lost, lastId>>
  BY DroppedTo DEF Cut, Restart
<1>2. boot' = boot \/ boot' = Len(log)
  BY DEF Cut, Restart
<1>3. Up' /\ Up /\ Comments' = Comments /\ LastTry' = LastTry /\ call' = call
      /\ (\A k : StoredOf(k)' = StoredOf(k)) /\ (\A k : Placeholder(k)' <=> Placeholder(k))
  BY <1>1 DEF Up, Comments, LastTry, StoredOf, Placeholder, calls
<1>4. Len(log) \in Nat /\ pos \in 0 .. Len(log) /\ Comments \subseteq 1 .. Len(log)
  BY LenProperties DEF PageInv, Logged, Streamed, Comments
<1>5. Shut' /\ Unlinked' /\ Logged' /\ Tried'
  BY <1>1, <1>3 DEF PageInv, Shut, Unlinked, Logged, Tried
<1>6. Streamed'
  <2>1. boot' \in 0 .. Len(log') /\ pos' \in 0 .. Len(log') /\ lastId' \in Nat
    BY <1>1, <1>2, <1>4 DEF PageInv, Streamed
  <2>2. link' \in BOOLEAN /\ ~ link' /\ page' \in {"closed", "reading", "rendered", "open"}
    BY <1>1
  <2> QED
    BY <2>1, <2>2 DEF Streamed
<1>7. Threaded' /\ Rendering'
  BY <1>1, <1>3 DEF PageInv, Threaded, Rendering, Busy
<1>8. Submission' /\ Placeholders'
  BY <1>1, <1>3 DEF PageInv, Submission, Placeholders, Sends, Busy, Waiting
<1>9. Framing'
  <2>1. <<>> \in Seq(Range(<<>>)) /\ DOMAIN <<>> = {}
    BY EmptySeq
  <2> QED
    BY <1>1, <2>1 DEF Framing
<1>10. Replaced'
  <2> SUFFICES ASSUME NEW e \in Comments, Placeholder(log[e].try)
      PROVE e > pos' \/ e \in missed'
    BY <1>1, <1>3 DEF Replaced, Placeholder
  <2>1. CASE e > pos \/ e \in missed
    BY <1>1, <1>4, <2>1
  <2>2. CASE \E i \in DOMAIN frames : Removes(frames[i], log[e].try)
    <3>1. PICK i \in DOMAIN frames : Removes(frames[i], log[e].try)
      BY <2>2
    <3>2. frames[i].of \in DOMAIN log /\ log[frames[i].of].try = log[e].try /\ log[e].try > 0
      BY <1>4, <3>1, LenProperties DEF PageInv, Framing, Framed, Removes, Logged
    <3>3. frames[i].of = e
      BY <3>2 DEF PageInv, Logged, Comments
    <3> QED
      BY <1>1, <3>3
  <2> QED
    BY <2>1, <2>2 DEF PageInv, Replaced
<1> QED
  BY <1>5, <1>6, <1>7, <1>8, <1>9, <1>10 DEF PageInv

LEMMA CloseKeeps ==
  ASSUME PageInv, CloseTab
  PROVE  PageInv'
<1>1. Leave /\ call' = call /\ \A c \in Client : call[c].at = "idle"
  BY DEF CloseTab, AtRest, calls
<1>2. \A b \in Browser : ~ (call'[b].at = "work" /\ call'[b].doing = DetailCall)
  BY <1>1 DEF Client
<1> QED
  BY <1>1, <1>2, LeaveKeeps

LEMMA PageInvInit == PagesInit => PageInv
<1> SUFFICES ASSUME PagesInit PROVE PageInv
  OBVIOUS
<1>1. /\ page = "closed"
      /\ ticket = Untouched /\ log = <<>>
      /\ shown = Untouched /\ actions = Untouched /\ rows = <<>>
      /\ sending = {} /\ failed = {} /\ tries = <<>> /\ lost = {}
      /\ ~ link /\ link \in BOOLEAN /\ boot = 0 /\ pos = 0 /\ frames = <<>> /\ lastId = 0
      /\ missed = {}
  BY DEF PagesInit
<1>2. ~ Up /\ \A c \in Browser : call[c].at = "idle"
  <2>1. \A c \in Client : call[c] = NoCall
    BY DEF PagesInit, CallsInit
  <2> QED
    BY <1>1, <2>1 DEF Up, Client, NoCall
<1>3. Shut /\ Unlinked
  BY <1>1 DEF Shut, Unlinked
<1>4. log \in Seq([what : Published, try : Nat]) /\ DOMAIN log = {} /\ Len(log) = 0
      /\ tries \in Seq(Nat) /\ DOMAIN tries = {}
  BY <1>1, EmptySeq
<1>5. Logged
  BY <1>4 DEF Logged
<1>6. Tried
  BY <1>1, <1>4 DEF Tried
<1>7. Streamed
  BY <1>1, <1>4 DEF Streamed
<1>8. Rendering /\ Submission
  BY <1>2 DEF Rendering, Submission, Sends
<1>9. Placeholders
  BY <1>1 DEF Placeholders
<1>10. Threaded /\ Framing
  BY <1>1 DEF Threaded, Framing, Range, IsInjective
<1>11. Replaced
  BY <1>1 DEF Replaced, Comments
<1> QED
  BY <1>3, <1>5, <1>6, <1>7, <1>8, <1>9, <1>10, <1>11 DEF PageInv

-----------------------------------------------------------------------------
(* An event's frames.                                                      *)

LEMMA OwnRange ==
  ASSUME NEW U, NEW s \in Seq(U)
  PROVE  s \in Seq(Range(s))
<1>1. s \in [1 .. Len(s) -> U] /\ Len(s) \in Nat
  BY LenProperties
<1>2. s \in [1 .. Len(s) -> Range(s)]
  BY <1>1 DEF Range
<1> QED
  BY <1>1, <1>2, SeqDef

Removal(k) == [does |-> "remove", try |-> k]
Row(e) == [does |-> "append", row |-> e]
Signal == [does |-> "signal"]

\* The frames of an event: what each of them patches, in their order.
Frames(s, e) ==
  /\ s \in Seq(Range(s)) /\ Len(s) \in Nat /\ DOMAIN s = 1 .. Len(s)
  /\ \A i \in DOMAIN s : s[i].of = e /\ s[i].id = Id(e)
  /\ \/ /\ log[e].what = "comment" /\ log[e].try = 0 /\ Len(s) = 2
        /\ s[1].patch = Signal /\ s[2].patch = Row(e)
     \/ /\ log[e].what = "comment" /\ log[e].try # 0 /\ Len(s) = 3
        /\ s[1].patch = Signal /\ s[2].patch = Removal(log[e].try) /\ s[3].patch = Row(e)
     \/ /\ log[e].what # "comment" /\ Len(s) = 3
        /\ s[1].patch = Signal /\ s[2].patch = Badge(log[e].what) /\ s[3].patch = PageActions

LEMMA Joints ==
  /\ \A x, y : <<x>> \o <<y>> = <<x, y>>
  /\ \A x, y, z : <<x>> \o <<y, z>> = <<x, y, z>>
<1>1. ASSUME NEW x, NEW y PROVE <<x>> \o <<y>> = <<x, y>>
  <2> DEFINE U == {x, y}
             s == <<x>> \o <<y>>
             t == <<x, y>>
  <2>1. <<x>> \in Seq(U) /\ <<y>> \in Seq(U) /\ Len(<<x>>) = 1 /\ Len(<<y>>) = 1
        /\ <<x>>[1] = x /\ <<y>>[1] = y
    OBVIOUS
  <2>2. s \in Seq(U) /\ Len(s) = 2 /\ s[1] = x /\ s[2] = y
    BY <2>1, ConcatProperties
  <2>3. t \in Seq(U) /\ Len(t) = 2 /\ t[1] = x /\ t[2] = y
    OBVIOUS
  <2> HIDE DEF s, t, U
  <2>4. \A i \in 1 .. Len(s) : s[i] = t[i]
    <3>1. \A i \in 1 .. 2 : i = 1 \/ i = 2
      OBVIOUS
    <3> QED
      BY <2>2, <2>3, <3>1
  <2>5. s = t
    BY <2>2, <2>3, <2>4, SeqEqual
  <2> QED
    BY <2>5 DEF s, t
<1>2. ASSUME NEW x, NEW y, NEW z PROVE <<x>> \o <<y, z>> = <<x, y, z>>
  <2> DEFINE U == {x, y, z}
             s == <<x>> \o <<y, z>>
             t == <<x, y, z>>
  <2>1. <<x>> \in Seq(U) /\ <<y, z>> \in Seq(U) /\ Len(<<x>>) = 1 /\ Len(<<y, z>>) = 2
        /\ <<x>>[1] = x /\ <<y, z>>[1] = y /\ <<y, z>>[2] = z
    OBVIOUS
  <2>2. s \in Seq(U) /\ Len(s) = 3 /\ s[1] = x /\ s[2] = y /\ s[3] = z
    BY <2>1, ConcatProperties
  <2>3. t \in Seq(U) /\ Len(t) = 3 /\ t[1] = x /\ t[2] = y /\ t[3] = z
    OBVIOUS
  <2> HIDE DEF s, t, U
  <2>4. \A i \in 1 .. Len(s) : s[i] = t[i]
    <3>1. \A i \in 1 .. 3 : i = 1 \/ i = 2 \/ i = 3
      OBVIOUS
    <3> QED
      BY <2>2, <2>3, <3>1
  <2>5. s = t
    BY <2>2, <2>3, <2>4, SeqEqual
  <2> QED
    BY <2>5 DEF s, t
<1> QED
  BY <1>1, <1>2

LEMMA Rendered ==
  ASSUME NEW e
  PROVE  Frames(Stamped(e), e)
<1> DEFINE D == renderDelivery(e)
           s == Stamped(e)
           Shapes ==
             \/ log[e].what = "comment" /\ log[e].try = 0 /\ D = <<Signal, Row(e)>>
             \/ log[e].what = "comment" /\ log[e].try # 0
                /\ D = <<Signal, Removal(log[e].try), Row(e)>>
             \/ log[e].what # "comment" /\ D = <<Signal, Badge(log[e].what), PageActions>>
<1>1. Shapes
  <2>1. \A x, y : <<x>> \o <<y>> = <<x, y>>
    BY Joints
  <2>2. \A x, y, z : <<x>> \o <<y, z>> = <<x, y, z>>
    BY Joints
  <2>3. \A x : <<>> \o <<x>> = <<x>>
    OBVIOUS
  <2>4. D = <<Signal>> \o renderTicketPatch(e)
    BY DEF renderDelivery, Signal
  <2>5. CASE log[e].what = "comment" /\ log[e].try = 0
    <3>1. renderTicketPatch(e) = <<>> \o <<Row(e)>>
      BY <2>5 DEF renderTicketPatch, commentAppendPatch, Row
    <3>2. D = <<Signal, Row(e)>>
      BY <2>1, <2>3, <2>4, <3>1
    <3> QED
      BY <2>5, <3>2
  <2>6. CASE log[e].what = "comment" /\ log[e].try # 0
    <3>1. renderTicketPatch(e) = <<Removal(log[e].try)>> \o <<Row(e)>>
      BY <2>6 DEF renderTicketPatch, commentAppendPatch, Row, Removal
    <3>2. D = <<Signal, Removal(log[e].try), Row(e)>>
      BY <2>1, <2>2, <2>4, <3>1
    <3> QED
      BY <2>6, <3>2
  <2>7. CASE log[e].what # "comment"
    <3>1. renderTicketPatch(e) = <<Badge(log[e].what), PageActions>>
      BY <2>7 DEF renderTicketPatch
    <3>2. D = <<Signal, Badge(log[e].what), PageActions>>
      BY <2>2, <2>4, <3>1
    <3> QED
      BY <2>7, <3>2
  <2> QED
    BY <2>5, <2>6, <2>7
<1>2. s = [i \in DOMAIN D |-> [of |-> e, id |-> Id(e), patch |-> D[i]]]
  BY DEF Stamped
<1> HIDE DEF D, s
<1>3. ASSUME NEW n \in Nat, DOMAIN D = 1 .. n
      PROVE  /\ s \in Seq(Range(s)) /\ Len(s) = n /\ DOMAIN s = 1 .. n
             /\ \A i \in 1 .. n : s[i].of = e /\ s[i].id = Id(e) /\ s[i].patch = D[i]
  <2>1. s \in [1 .. n -> Range(s)]
    BY <1>2, <1>3 DEF Range
  <2>2. s \in Seq(Range(s))
    BY <2>1, SeqDef
  <2>3. Len(s) = n /\ DOMAIN s = 1 .. n
    <3>1. DOMAIN s = 1 .. n /\ DOMAIN s = 1 .. Len(s) /\ Len(s) \in Nat
      BY <2>1, <2>2, LenProperties
    <3> QED
      BY <3>1
  <2>4. \A i \in 1 .. n : s[i] = [of |-> e, id |-> Id(e), patch |-> D[i]]
    BY <1>2, <1>3
  <2> QED
    BY <2>2, <2>3, <2>4
<1>4. CASE log[e].what = "comment" /\ log[e].try = 0 /\ D = <<Signal, Row(e)>>
  <2>1. DOMAIN D = 1 .. 2 /\ D[1] = Signal /\ D[2] = Row(e)
    BY <1>4
  <2> QED
    BY <1>3, <1>4, <2>1 DEF Frames, s
<1>5. CASE log[e].what = "comment" /\ log[e].try # 0
           /\ D = <<Signal, Removal(log[e].try), Row(e)>>
  <2>1. DOMAIN D = 1 .. 3 /\ D[1] = Signal /\ D[2] = Removal(log[e].try) /\ D[3] = Row(e)
    BY <1>5
  <2> QED
    BY <1>3, <1>5, <2>1 DEF Frames, s
<1>6. CASE log[e].what # "comment" /\ D = <<Signal, Badge(log[e].what), PageActions>>
  <2>1. DOMAIN D = 1 .. 3 /\ D[1] = Signal /\ D[2] = Badge(log[e].what) /\ D[3] = PageActions
    BY <1>6
  <2> QED
    BY <1>3, <1>6, <2>1 DEF Frames, s
<1> QED
  BY <1>1, <1>4, <1>5, <1>6 DEF Frames

\* What the frames of one event are among each other.
LEMMA Few ==
  ASSUME PageInv, link, NEW e \in DOMAIN log, boot < e, NEW s, Frames(s, e)
  PROVE  /\ \A i \in DOMAIN s :
              /\ s[i].of = e /\ s[i].id \in Nat
              /\ s[i].patch.does \in {"signal", "remove", "append", "badge", "actions"}
              /\ s[i].patch.does = "remove" =>
                   log[e].what = "comment" /\ s[i].patch.try = log[e].try /\ s[i].patch.try > 0
              /\ s[i].patch.does = "append" => log[e].what = "comment" /\ s[i].patch.row = e
              /\ s[i].patch.does = "badge" =>
                   s[i].patch.part = log[e].what /\ s[i].patch.part \in Parts
              /\ s[i].patch.does = "actions" => log[e].what \in Parts
         /\ \A i, j \in DOMAIN s : i < j => Stage(s[i]) < Stage(s[j])
         /\ log[e].what = "comment" /\ log[e].try > 0 =>
              /\ \E i \in DOMAIN s : Removes(s[i], log[e].try)
              /\ \A i \in DOMAIN s : s[i].patch.does = "append" =>
                   \E j \in DOMAIN s : j < i /\ Removes(s[j], log[e].try)
<1>1. /\ Len(log) \in Nat /\ e \in 1 .. Len(log) /\ boot \in Nat
      /\ log[e].what \in Published /\ log[e].try \in Nat
  <2>1. log \in Seq([what : Published, try : Nat])
    BY DEF PageInv, Logged
  <2>2. Len(log) \in Nat /\ e \in 1 .. Len(log) /\ log[e] \in [what : Published, try : Nat]
    BY <2>1, LenProperties, ElementOfSeq
  <2>3. boot \in Nat
    BY <2>2 DEF PageInv, Streamed
  <2> QED
    BY <2>2, <2>3
<1>2. Id(e) \in Nat
  BY <1>1 DEF Id
<1>3. \A i \in DOMAIN s : s[i].of = e /\ s[i].id \in Nat
  BY <1>2 DEF Frames
<1>4. CASE log[e].what = "comment" /\ log[e].try = 0
  <2>1. /\ DOMAIN s = 1 .. 2 /\ s[1].patch.does = "signal" /\ s[2].patch.does = "append"
        /\ s[2].patch.row = e
    BY <1>4 DEF Frames, Signal, Row
  <2>2. \A i \in DOMAIN s : i = 1 \/ i = 2
    BY <2>1
  <2>3. \A i, j \in DOMAIN s : i < j => Stage(s[i]) < Stage(s[j])
    BY <2>1, <2>2 DEF Stage
  <2> QED
    BY <1>3, <1>4, <2>1, <2>2, <2>3
<1>5. CASE log[e].what = "comment" /\ log[e].try # 0
  <2>1. /\ DOMAIN s = 1 .. 3 /\ s[1].patch.does = "signal" /\ s[2].patch.does = "remove"
        /\ s[2].patch.try = log[e].try /\ s[3].patch.does = "append" /\ s[3].patch.row = e
    BY <1>5 DEF Frames, Signal, Row, Removal
  <2>2. \A i \in DOMAIN s : i = 1 \/ i = 2 \/ i = 3
    BY <2>1
  <2>3. \A i, j \in DOMAIN s : i < j => Stage(s[i]) < Stage(s[j])
    BY <2>1, <2>2 DEF Stage
  <2>4. log[e].try > 0
    BY <1>1, <1>5
  <2>5. 2 \in DOMAIN s /\ Removes(s[2], log[e].try) /\ 2 < 3
    BY <2>1 DEF Removes
  <2> QED
    BY <1>3, <1>5, <2>4, <2>5, <2>1, <2>2, <2>3
<1>6. CASE log[e].what # "comment"
  <2>1. /\ DOMAIN s = 1 .. 3 /\ s[1].patch.does = "signal" /\ s[2].patch.does = "badge"
        /\ s[2].patch.part = log[e].what /\ s[3].patch.does = "actions"
    BY <1>6 DEF Frames, Signal, Badge, PageActions
  <2>2. \A i \in DOMAIN s : i = 1 \/ i = 2 \/ i = 3
    BY <2>1
  <2>3. \A i, j \in DOMAIN s : i < j => Stage(s[i]) < Stage(s[j])
    BY <2>1, <2>2 DEF Stage
  <2>4. log[e].what \in Parts
    BY <1>1, <1>6 DEF Published
  <2> QED
    BY <1>3, <1>6, <2>1, <2>2, <2>3, <2>4
<1> QED
  BY <1>4, <1>5, <1>6

\* Where the elements of two joined sequences are, and of a sequence without its
\* first.
Follows(t, f, s) ==
  /\ t \in Seq(Range(t)) /\ DOMAIN t = 1 .. Len(f) + Len(s)
  /\ \A i \in DOMAIN t :
       \/ i \in DOMAIN f /\ t[i] = f[i]
       \/ i > Len(f) /\ i - Len(f) \in DOMAIN s /\ t[i] = s[i - Len(f)]
  /\ \A i \in DOMAIN f : i \in DOMAIN t /\ t[i] = f[i]
  /\ \A i \in DOMAIN s : Len(f) + i \in DOMAIN t /\ t[Len(f) + i] = s[i]

LEMMA Spliced ==
  ASSUME NEW f, f \in Seq(Range(f)), NEW s, s \in Seq(Range(s))
  PROVE  Follows(f \o s, f, s)
<1> DEFINE U == Range(f) \cup Range(s)
           t == f \o s
           m == Len(f)
           n == Len(s)
<1>1. f \in Seq(U) /\ s \in Seq(U)
  BY SeqMonotonic
<1>2. m \in Nat /\ n \in Nat /\ DOMAIN f = 1 .. m /\ DOMAIN s = 1 .. n
  BY <1>1, LenProperties
<1>3. t \in Seq(U) /\ Len(t) = m + n
      /\ \A i \in 1 .. m + n : t[i] = IF i <= m THEN f[i] ELSE s[i - m]
  BY <1>1, ConcatProperties
<1> HIDE DEF U
<1>4. t \in Seq(Range(t)) /\ DOMAIN t = 1 .. m + n
  BY <1>3, OwnRange, LenProperties
<1> HIDE DEF t, m, n
<1>5. ASSUME NEW i \in 1 .. m + n
      PROVE  (i \in 1 .. m /\ t[i] = f[i]) \/ (i > m /\ i - m \in 1 .. n /\ t[i] = s[i - m])
  BY <1>2, <1>3
<1>6. ASSUME NEW i \in 1 .. m PROVE i \in 1 .. m + n /\ t[i] = f[i]
  BY <1>2, <1>3
<1>7. ASSUME NEW i \in 1 .. n PROVE m + i \in 1 .. m + n /\ t[m + i] = s[i]
  <2>1. m + i \in 1 .. m + n /\ ~ (m + i <= m) /\ (m + i) - m = i
    BY <1>2
  <2> QED
    BY <1>3, <2>1
<1> QED
  BY <1>2, <1>4, <1>5, <1>6, <1>7 DEF t, m, n, Follows

LEMMA Shortened ==
  ASSUME NEW f, f \in Seq(Range(f)), f # <<>>
  PROVE  /\ Len(f) \in Nat /\ Len(f) >= 1 /\ DOMAIN f = 1 .. Len(f) /\ 1 \in DOMAIN f
         /\ Head(f) = f[1]
         /\ Tail(f) \in Seq(Range(Tail(f))) /\ DOMAIN Tail(f) = 1 .. Len(f) - 1
         /\ \A i \in DOMAIN Tail(f) : i + 1 \in DOMAIN f /\ Tail(f)[i] = f[i + 1]
         /\ \A i \in DOMAIN f : i = 1 \/ (i - 1 \in DOMAIN Tail(f) /\ Tail(f)[i - 1] = f[i])
<1> DEFINE t == Tail(f)
           n == Len(f)
<1>1. n \in Nat /\ n >= 1 /\ DOMAIN f = 1 .. n /\ 1 \in DOMAIN f /\ Head(f) = f[1]
  BY EmptySeq, LenProperties
<1>2. t \in Seq(Range(f)) /\ Len(t) = n - 1 /\ \A i \in 1 .. n - 1 : t[i] = f[i + 1]
  BY HeadTailProperties
<1>3. t \in Seq(Range(t)) /\ DOMAIN t = 1 .. n - 1
  BY <1>2, OwnRange, LenProperties
<1> HIDE DEF t, n
<1>4. ASSUME NEW i \in 1 .. n - 1 PROVE i + 1 \in 1 .. n /\ t[i] = f[i + 1]
  BY <1>1, <1>2
<1>5. ASSUME NEW i \in 1 .. n, i # 1 PROVE i - 1 \in 1 .. n - 1 /\ t[i - 1] = f[i]
  <2>1. i - 1 \in 1 .. n - 1 /\ (i - 1) + 1 = i
    BY <1>1, <1>5
  <2> QED
    BY <1>2, <2>1
<1> QED
  BY <1>1, <1>3, <1>4, <1>5 DEF t, n

LEMMA DeliverKeeps ==
  ASSUME PageInv, Deliver
  PROVE  PageInv'
<1> DEFINE e == pos + 1
           s == Stamped(e)
           m == Len(frames)
<1>1. /\ link /\ pos < Len(log) /\ pos' = e /\ frames' = frames \o s
      /\ UNCHANGED <<calls, page, ticket, log, shown, actions, rows, sending, failed, tries, lost>>
      /\ UNCHANGED <<link, boot, lastId, cuts, missed>>
  BY DEF Deliver, store, view, form
<1>2. /\ page = "open" /\ boot <= pos /\ Len(log) \in Nat /\ pos \in Nat /\ boot \in Nat
      /\ e \in DOMAIN log /\ boot < e /\ DOMAIN log = 1 .. Len(log)
  <2>1. Len(log) \in Nat /\ DOMAIN log = 1 .. Len(log)
    BY LenProperties DEF PageInv, Logged
  <2> QED
    BY <1>1, <2>1 DEF PageInv, Streamed
<1> HIDE DEF e
<1>3. Frames(s, e)
  BY Rendered
<1> HIDE DEF s
<1>4. /\ frames \in Seq(Range(frames)) /\ m \in Nat /\ DOMAIN frames = 1 .. m
      /\ s \in Seq(Range(s)) /\ Len(s) \in Nat /\ DOMAIN s = 1 .. Len(s)
  BY <1>3, LenProperties DEF Frames, PageInv, Framing
<1>5. /\ frames' \in Seq(Range(frames')) /\ DOMAIN frames' = 1 .. m + Len(s)
      /\ \A i \in DOMAIN frames' :
           \/ i \in DOMAIN frames /\ frames'[i] = frames[i]
           \/ i > m /\ i - m \in DOMAIN s /\ frames'[i] = s[i - m]
      /\ \A i \in DOMAIN frames : i \in DOMAIN frames' /\ frames'[i] = frames[i]
      /\ \A i \in DOMAIN s : m + i \in DOMAIN frames' /\ frames'[m + i] = s[i]
  <2>1. Follows(frames', frames, s)
    BY <1>1, <1>4, Spliced
  <2> QED
    BY <2>1 DEF Follows
<1> HIDE DEF m
<1>6. \A i \in DOMAIN frames' :
        \/ i \in DOMAIN frames /\ frames'[i] = frames[i]
        \/ i > m /\ i - m \in DOMAIN s /\ frames'[i] = s[i - m]
  BY <1>5
<1>7. /\ \A i \in DOMAIN frames : i \in DOMAIN frames' /\ frames'[i] = frames[i]
      /\ \A i \in DOMAIN s : m + i \in DOMAIN frames' /\ frames'[m + i] = s[i]
  BY <1>5
<1>8. Up' /\ Up /\ Comments' = Comments /\ LastTry' = LastTry /\ call' = call
      /\ (\A k : StoredOf(k)' = StoredOf(k)) /\ (\A k : Placeholder(k)' <=> Placeholder(k))
  BY <1>1, <1>2 DEF Up, Comments, LastTry, StoredOf, Placeholder, calls
<1>9. Shut' /\ Unlinked' /\ Logged' /\ Tried'
  BY <1>1, <1>2, <1>8 DEF PageInv, Shut, Unlinked, Logged, Tried
<1>10. Streamed'
  BY <1>1, <1>2 DEF PageInv, Streamed, e
<1>11. Threaded'
  <2>1. \A x \in Range(rows) : x \in Nat /\ x <= pos
    BY <1>2 DEF PageInv, Threaded, Comments
  <2>2. \A x \in Range(rows) : x <= e
    BY <1>2, <2>1 DEF e
  <2> QED
    BY <1>1, <1>8, <2>2 DEF PageInv, Threaded
<1>12. Rendering' /\ Submission' /\ Placeholders'
  BY <1>1, <1>8 DEF PageInv, Rendering, Submission, Placeholders, Sends, Busy, Waiting
<1>13. Framing'
  <2>1. /\ \A i \in DOMAIN s :
             /\ s[i].of = e /\ s[i].id \in Nat
             /\ s[i].patch.does \in {"signal", "remove", "append", "badge", "actions"}
             /\ s[i].patch.does = "remove" =>
                  log[e].what = "comment" /\ s[i].patch.try = log[e].try /\ s[i].patch.try > 0
             /\ s[i].patch.does = "append" => log[e].what = "comment" /\ s[i].patch.row = e
             /\ s[i].patch.does = "badge" =>
                  s[i].patch.part = log[e].what /\ s[i].patch.part \in Parts
             /\ s[i].patch.does = "actions" => log[e].what \in Parts
        /\ \A i, j \in DOMAIN s : i < j => Stage(s[i]) < Stage(s[j])
    BY <1>1, <1>2, <1>3, Few
  <2>2. \A i \in DOMAIN frames : frames[i].of \in 1 .. pos /\ Framed(frames[i])
    BY DEF PageInv, Framing, Framed
  <2>3. ASSUME NEW i \in DOMAIN frames' PROVE Framed(frames[i])'
    <3>1. CASE i \in DOMAIN frames /\ frames'[i] = frames[i]
      <4>1. frames[i].of \in 1 .. e
        BY <1>2, <2>2, <3>1 DEF e
      <4>2. Framed(frames[i])
        BY <2>2, <3>1
      <4> QED
        BY <1>1, <3>1, <4>1, <4>2 DEF Framed
    <3>2. CASE i - m \in DOMAIN s /\ frames'[i] = s[i - m]
      <4>1. e \in 1 .. e
        BY <1>2 DEF e
      <4> QED
        BY <1>1, <2>1, <3>2, <4>1 DEF Framed
    <3> QED
      BY <1>6, <3>1, <3>2
  <2>4. ASSUME NEW i \in DOMAIN frames', NEW j \in DOMAIN frames', i < j
        PROVE  Before(frames'[i], frames'[j])
    <3>1. i \in Nat /\ j \in Nat /\ m \in Nat
      BY <1>4, <1>5
    <3>2. CASE j \in DOMAIN frames /\ frames'[j] = frames[j]
      <4>1. i \in DOMAIN frames /\ frames'[i] = frames[i]
        <5>1. i \in DOMAIN frames
          BY <1>4, <2>4, <3>1, <3>2, <1>5
        <5> QED
          BY <1>7, <5>1
      <4> QED
        BY <2>4, <3>2, <4>1 DEF PageInv, Framing
    <3>3. CASE j > m /\ j - m \in DOMAIN s /\ frames'[j] = s[j - m]
      <4>1. CASE i \in DOMAIN frames /\ frames'[i] = frames[i]
        BY <1>2, <2>1, <2>2, <3>3, <4>1 DEF Before, e
      <4>2. CASE i > m /\ i - m \in DOMAIN s /\ frames'[i] = s[i - m]
        <5>1. i - m < j - m
          BY <2>4, <3>1
        <5> QED
          BY <2>1, <3>3, <4>2, <5>1 DEF Before
      <4> QED
        BY <1>6, <4>1, <4>2
    <3> QED
      BY <1>6, <3>2, <3>3
  <2>5. ASSUME NEW i \in DOMAIN frames', NEW x \in Range(rows) PROVE x < frames'[i].of
    <3>1. x \in Nat /\ x <= pos
      BY <1>2 DEF PageInv, Threaded, Comments
    <3>2. CASE i \in DOMAIN frames /\ frames'[i] = frames[i]
      BY <3>2 DEF PageInv, Framing
    <3>3. CASE i - m \in DOMAIN s /\ frames'[i] = s[i - m]
      BY <1>2, <2>1, <3>1, <3>3 DEF e
    <3> QED
      BY <1>6, <3>2, <3>3
  <2>6. ASSUME NEW i \in DOMAIN frames', frames'[i].patch.does = "append",
               Placeholder(log[frames'[i].of].try)
        PROVE  \E j \in DOMAIN frames' : j < i /\ Removes(frames'[j], log[frames'[i].of].try)
    <3>1. CASE i \in DOMAIN frames /\ frames'[i] = frames[i]
      <4>1. PICK j \in DOMAIN frames : j < i /\ Removes(frames[j], log[frames[i].of].try)
        BY <2>6, <3>1 DEF PageInv, Framing
      <4>2. j \in DOMAIN frames' /\ frames'[j] = frames[j]
        BY <1>7
      <4> QED
        BY <3>1, <4>1, <4>2
    <3>2. CASE i > m /\ i - m \in DOMAIN s /\ frames'[i] = s[i - m]
      <4>1. s[i - m].of = e /\ log[e].what = "comment"
        BY <2>1, <2>6, <3>2
      <4>2. log[e].try > 0
        <5>1. log[e].try \in DOMAIN tries
          BY <2>6, <3>2, <4>1 DEF PageInv, Tried, Placeholder
        <5> QED
          BY <5>1, LenProperties DEF PageInv, Tried
      <4>3. \A x \in DOMAIN s : s[x].patch.does = "append" =>
              \E j \in DOMAIN s : j < x /\ Removes(s[j], log[e].try)
        BY <1>1, <1>2, <1>3, <4>1, <4>2, Few
      <4>4. PICK j \in DOMAIN s : j < i - m /\ Removes(s[j], log[e].try)
        BY <2>6, <3>2, <4>3
      <4>5. m + j \in DOMAIN frames' /\ frames'[m + j] = s[j] /\ m + j < i
        BY <1>4, <1>5, <1>7, <4>4
      <4> QED
        BY <3>2, <4>1, <4>4, <4>5
    <3> QED
      BY <1>6, <3>1, <3>2
  <2>7. \A f, k : Removes(f, k)' <=> Removes(f, k)
    BY DEF Removes
  <2>8. \A f, g : Before(f, g)' <=> Before(f, g)
    BY DEF Before, Stage
  <2> HIDE DEF s
  <2> QED
    BY <1>1, <1>5, <1>8, <2>3, <2>4, <2>5, <2>6, <2>7, <2>8 DEF Framing
<1>14. Replaced'
  <2> SUFFICES ASSUME NEW x \in Comments, Placeholder(log[x].try)
      PROVE x > e \/ x \in missed \/ \E i \in DOMAIN frames' : Removes(frames'[i], log[x].try)
    BY <1>1, <1>8 DEF Replaced, Placeholder, Removes
  <2>1. CASE x > pos
    <3>1. CASE x = e
      <4>1. log[e].what = "comment" /\ log[e].try > 0
        <5>1. log[x].try \in DOMAIN tries
          BY DEF PageInv, Tried, Placeholder
        <5> QED
          BY <3>1, <5>1, LenProperties DEF PageInv, Tried, Comments
      <4>2. PICK i \in DOMAIN s : Removes(s[i], log[e].try)
        BY <1>1, <1>2, <1>3, <4>1, Few
      <4> QED
        BY <1>7, <3>1, <4>2
    <3>2. CASE x # e
      BY <1>2, <2>1, <3>2 DEF Comments, e
    <3> QED
      BY <3>1, <3>2
  <2>2. CASE x \in missed
    BY <2>2
  <2>3. CASE \E i \in DOMAIN frames : Removes(frames[i], log[x].try)
    BY <1>7, <2>3
  <2> QED
    BY <2>1, <2>2, <2>3 DEF PageInv, Replaced
<1> QED
  BY <1>9, <1>10, <1>11, <1>12, <1>13, <1>14 DEF PageInv

LEMMA ReceiveKeeps ==
  ASSUME PageInv, Receive
  PROVE  PageInv'
<1> DEFINE f == frames[1]
           n == Len(frames)
           Later(k) == k \in sending' \cup failed'
<1>1. /\ frames # <<>> /\ Applied(Head(frames).patch)
      /\ lastId' = Head(frames).id /\ frames' = Tail(frames)
      /\ UNCHANGED <<calls, page, ticket, log, tries, lost, link, boot, pos, cuts, missed>>
  BY DEF Receive, store
<1>2. /\ frames \in Seq(Range(frames)) /\ n \in Nat /\ n >= 1 /\ DOMAIN frames = 1 .. n
      /\ 1 \in DOMAIN frames /\ Head(frames) = f
  BY <1>1, Shortened DEF PageInv, Framing
<1>3. /\ frames' \in Seq(Range(frames')) /\ DOMAIN frames' = 1 .. n - 1
      /\ \A i \in DOMAIN frames' : i + 1 \in DOMAIN frames /\ frames'[i] = frames[i + 1]
      /\ \A i \in DOMAIN frames : i = 1 \/ (i - 1 \in DOMAIN frames' /\ frames'[i - 1] = frames[i])
  BY <1>1, <1>2, Shortened
<1>4. /\ page = "open" /\ link /\ Framed(f)
      /\ Len(log) \in Nat /\ DOMAIN log = 1 .. Len(log) /\ pos \in Nat
      /\ f.of \in 1 .. pos /\ f.of \in DOMAIN log
  <2>1. Len(log) \in Nat /\ DOMAIN log = 1 .. Len(log)
    BY LenProperties DEF PageInv, Logged
  <2>2. link /\ page = "open" /\ Framed(f)
    BY <1>1, <1>2 DEF PageInv, Framing, Streamed
  <2> QED
    BY <2>1, <2>2 DEF PageInv, Streamed, Framed
<1> HIDE DEF f, n
<1>5. /\ \A i \in DOMAIN frames' : i + 1 \in DOMAIN frames /\ frames'[i] = frames[i + 1]
      /\ \A i \in DOMAIN frames : i = 1 \/ (i - 1 \in DOMAIN frames' /\ frames'[i - 1] = frames[i])
      /\ DOMAIN frames \subseteq Nat /\ DOMAIN frames' \subseteq Nat
  BY <1>2, <1>3
<1>6. /\ sending' \subseteq sending /\ failed' \subseteq failed
      /\ \A k : Later(k) <=> Placeholder(k) /\ ~ Removes(f, k)
      /\ f.patch.does # "append" => rows' = rows
      /\ f.patch.does = "append" => rows' = Append(rows, f.of)
  <2>1. rows' = IF f.patch.does = "append" THEN Append(rows, f.patch.row) ELSE rows
    BY <1>1, <1>2 DEF Applied
  <2>2. f.patch.does = "append" => f.patch.row = f.of
    BY <1>4 DEF Framed
  <2>3. CASE f.patch.does = "remove"
    <3>1. sending' = sending \ {f.patch.try} /\ failed' = failed \ {f.patch.try}
      BY <1>1, <1>2, <2>3 DEF Applied
    <3> QED
      BY <2>1, <2>3, <3>1 DEF Placeholder, Removes
  <2>4. CASE f.patch.does # "remove"
    <3>1. sending' = sending /\ failed' = failed
      BY <1>1, <1>2, <2>4 DEF Applied
    <3> QED
      BY <2>1, <2>2, <2>4, <3>1 DEF Placeholder, Removes
  <2> QED
    BY <2>3, <2>4
<1>7. Up' /\ Up /\ Comments' = Comments /\ LastTry' = LastTry /\ call' = call
      /\ (\A k : StoredOf(k)' = StoredOf(k)) /\ (\A k : Placeholder(k)' <=> Later(k))
  BY <1>1, <1>4 DEF Up, Comments, LastTry, StoredOf, Placeholder, calls
<1>8. \A k : Removes(f, k) => StoredOf(k) # {}
  <2>1. ASSUME NEW k, Removes(f, k) PROVE f.of \in StoredOf(k)
    BY <1>4, <2>1 DEF Framed, Removes, StoredOf, Comments
  <2> QED
    BY <2>1
<1> HIDE DEF Later
<1>9. Shut' /\ Unlinked' /\ Logged'
  BY <1>1, <1>4, <1>7 DEF PageInv, Shut, Unlinked, Logged
<1>10. Tried'
  BY <1>1, <1>6, <1>7 DEF PageInv, Tried
<1>11. Streamed'
  <2>1. lastId' \in Nat
    BY <1>1, <1>2, <1>4 DEF Framed
  <2> QED
    BY <1>1, <2>1 DEF PageInv, Streamed
<1>12. \A i \in DOMAIN frames : f.patch.does = "append" => i = 1 \/ f.of < frames[i].of
  <2> SUFFICES ASSUME NEW i \in DOMAIN frames, f.patch.does = "append", i # 1
      PROVE f.of < frames[i].of
    OBVIOUS
  <2>1. 1 < i
    BY <1>2, <1>5
  <2>2. Before(f, frames[i])
    BY <1>2, <2>1 DEF PageInv, Framing, f
  <2>3. Stage(f) = 2 /\ Stage(frames[i]) \in 0 .. 2
    BY DEF Stage
  <2> QED
    BY <2>2, <2>3 DEF Before
<1>13. Threaded' /\ \A x \in Range(rows') : x \in Range(rows) \/ (x = f.of /\ f.patch.does = "append")
  <2>1. CASE f.patch.does # "append"
    <3>1. \A x \in Range(rows) : ~ Later(log[x].try)
      BY <1>6 DEF PageInv, Threaded
    <3> QED
      BY <1>1, <1>6, <1>7, <2>1, <3>1 DEF PageInv, Threaded
  <2>2. CASE f.patch.does = "append"
    <3>1. rows \in Seq(Nat) /\ f.of \in Nat /\ rows' = Append(rows, f.of)
      BY <1>4, <1>6, <2>2 DEF PageInv, Threaded
    <3>2. /\ rows' \in Seq(Nat) /\ DOMAIN rows' = 1 .. Len(rows) + 1 /\ DOMAIN rows = 1 .. Len(rows)
          /\ Len(rows) \in Nat
          /\ \A i \in DOMAIN rows : rows'[i] = rows[i]
          /\ rows'[Len(rows) + 1] = f.of
      BY <3>1, AppendProperties, LenProperties
    <3>3. \A i \in DOMAIN rows' : i \in DOMAIN rows \/ i = Len(rows) + 1
      BY <3>2
    <3>4. \A x \in Range(rows) : x < f.of
      BY <1>2 DEF PageInv, Framing, f
    <3>5. \A i \in DOMAIN rows : rows[i] \in Nat /\ rows[i] < f.of
      BY <3>1, <3>2, <3>4, ElementOfSeq DEF Range
    <3>6. \A i, j \in DOMAIN rows' : i < j => rows'[i] < rows'[j]
      <4>1. \A i, j \in DOMAIN rows : i < j => rows[i] < rows[j]
        BY DEF PageInv, Threaded
      <4> QED
        BY <3>2, <3>3, <3>5, <4>1
    <3>7. \A x \in Range(rows') : x \in Range(rows) \/ x = f.of
      BY <3>2, <3>3 DEF Range
    <3>8. log[f.of].what = "comment" /\ ~ Placeholder(log[f.of].try)
      <4>1. log[f.of].what = "comment"
        BY <1>4, <2>2 DEF Framed
      <4>2. ASSUME Placeholder(log[f.of].try) PROVE FALSE
        <5>1. \E j \in DOMAIN frames : j < 1 /\ Removes(frames[j], log[f.of].try)
          BY <1>2, <2>2, <4>2 DEF PageInv, Framing, f
        <5> QED
          BY <1>2, <5>1
      <4> QED
        BY <4>1, <4>2
    <3>9. \A x \in Range(rows') : x \in DOMAIN log /\ x <= pos /\ ~ Later(log[x].try)
      BY <1>4, <1>6, <3>7, <3>8 DEF PageInv, Threaded, Comments
    <3> QED
      BY <1>1, <1>7, <2>2, <3>2, <3>6, <3>7, <3>9 DEF Threaded
  <2> QED
    BY <2>1, <2>2
<1>14. Rendering'
  BY <1>1, <1>7 DEF PageInv, Rendering, Busy
<1>15. Submission'
  <2>1. \A b \in Browser : Sends(b)' <=> Sends(b)
    BY <1>1, <1>7 DEF Sends, Busy
  <2>2. ASSUME NEW b \in Browser, Sends(b)
        PROVE  /\ LastTry > 0 /\ LastTry \notin failed' \cup lost
               /\ LastTry \in sending' \/ StoredOf(LastTry) # {}
               /\ call[b].made[1] > 0 <=> StoredOf(LastTry) # {}
    <3>1. /\ LastTry > 0 /\ LastTry \notin failed \cup lost
          /\ LastTry \in sending \/ StoredOf(LastTry) # {}
          /\ call[b].made[1] > 0 <=> StoredOf(LastTry) # {}
      BY <2>2 DEF PageInv, Submission
    <3>2. LastTry \in sending => LastTry \in sending' \/ StoredOf(LastTry) # {}
      <4>1. CASE Removes(f, LastTry)
        BY <1>8, <4>1
      <4>2. CASE ~ Removes(f, LastTry)
        BY <1>6, <3>1, <4>2 DEF Placeholder, Later
      <4> QED
        BY <4>1, <4>2
    <3> QED
      BY <1>6, <3>1, <3>2
  <2> QED
    BY <1>1, <1>7, <2>1, <2>2 DEF Submission
<1>16. Placeholders'
  <2>1. Waiting' <=> Waiting
    BY <1>1, <1>7 DEF Waiting, Sends, Busy
  <2>2. \A k \in sending' : StoredOf(k) # {} \/ (k = LastTry /\ Waiting)
    BY <1>6 DEF PageInv, Placeholders
  <2>3. \A k \in failed' : StoredOf(k) = {} \/ k \in lost
    BY <1>6 DEF PageInv, Placeholders
  <2>4. \A j, k \in DOMAIN tries : j < k /\ tries[j] = tries[k] =>
          ~ Later(j) /\ (StoredOf(j) = {} \/ j \in lost)
    BY <1>6 DEF PageInv, Placeholders
  <2>5. \A k \in DOMAIN tries : \E j \in DOMAIN tries :
          tries[j] = tries[k] /\ (StoredOf(j) # {} \/ Later(j))
    <3> SUFFICES ASSUME NEW k \in DOMAIN tries
        PROVE \E j \in DOMAIN tries : tries[j] = tries[k] /\ (StoredOf(j) # {} \/ Later(j))
      OBVIOUS
    <3>1. PICK j \in DOMAIN tries : tries[j] = tries[k] /\ (StoredOf(j) # {} \/ Placeholder(j))
      BY DEF PageInv, Placeholders
    <3> QED
      BY <1>6, <1>8, <3>1
  <2> QED
    BY <1>1, <1>7, <2>4, <2>5, <2>1, <2>2, <2>3 DEF Placeholders
<1>17. Framing'
  <2>1. \A i \in DOMAIN frames : Framed(frames[i])
    BY DEF PageInv, Framing
  <2>2. \A g : Framed(g)' <=> Framed(g)
    BY <1>1 DEF Framed
  <2>3. \A i \in DOMAIN frames' : Framed(frames'[i])
    BY <1>5, <2>1
  <2>4. ASSUME NEW i \in DOMAIN frames', NEW j \in DOMAIN frames', i < j
        PROVE  Before(frames'[i], frames'[j])
    <3>1. i + 1 \in DOMAIN frames /\ j + 1 \in DOMAIN frames /\ i + 1 < j + 1
          /\ frames'[i] = frames[i + 1] /\ frames'[j] = frames[j + 1]
      BY <1>5, <2>4
    <3> QED
      BY <3>1 DEF PageInv, Framing
  <2>5. ASSUME NEW i \in DOMAIN frames', NEW x \in Range(rows') PROVE x < frames'[i].of
    <3>1. i + 1 \in DOMAIN frames /\ i + 1 # 1 /\ frames'[i] = frames[i + 1]
      BY <1>3, <1>5, <1>2
    <3>2. CASE x \in Range(rows)
      BY <3>1, <3>2 DEF PageInv, Framing
    <3>3. CASE x = f.of /\ f.patch.does = "append"
      BY <1>12, <3>1, <3>3
    <3> QED
      BY <1>13, <3>2, <3>3
  <2>6. ASSUME NEW i \in DOMAIN frames', frames'[i].patch.does = "append",
               Later(log[frames'[i].of].try)
        PROVE  \E j \in DOMAIN frames' : j < i /\ Removes(frames'[j], log[frames'[i].of].try)
    <3>1. i + 1 \in DOMAIN frames /\ frames'[i] = frames[i + 1]
      BY <1>5
    <3>2. PICK j \in DOMAIN frames : j < i + 1 /\ Removes(frames[j], log[frames[i + 1].of].try)
      BY <1>6, <2>6, <3>1 DEF PageInv, Framing
    <3>3. j # 1
      BY <1>6, <2>6, <3>1, <3>2 DEF f
    <3>4. j - 1 \in DOMAIN frames' /\ frames'[j - 1] = frames[j] /\ j - 1 < i
      BY <1>5, <3>2, <3>3
    <3> QED
      BY <3>1, <3>2, <3>4
  <2>7. \A g, k : Removes(g, k)' <=> Removes(g, k)
    BY DEF Removes
  <2>8. \A g, h : Before(g, h)' <=> Before(g, h)
    BY DEF Before, Stage
  <2> QED
    BY <1>1, <1>3, <1>4, <1>7, <2>2, <2>3, <2>4, <2>5, <2>6, <2>7, <2>8 DEF Framing
<1>18. Replaced'
  <2> SUFFICES ASSUME NEW x \in Comments, Later(log[x].try)
      PROVE x > pos \/ x \in missed \/ \E i \in DOMAIN frames' : Removes(frames'[i], log[x].try)
    BY <1>1, <1>7 DEF Replaced, Placeholder, Removes
  <2>1. Placeholder(log[x].try) /\ ~ Removes(f, log[x].try)
    BY <1>6
  <2>2. CASE \E i \in DOMAIN frames : Removes(frames[i], log[x].try)
    <3>1. PICK i \in DOMAIN frames : Removes(frames[i], log[x].try)
      BY <2>2
    <3>2. i # 1
      BY <2>1, <3>1 DEF f
    <3> QED
      BY <1>5, <3>1, <3>2
  <2> QED
    BY <2>1, <2>2 DEF PageInv, Replaced
<1> QED
  BY <1>9, <1>10, <1>11, <1>13, <1>14, <1>15, <1>16, <1>17, <1>18 DEF PageInv

-----------------------------------------------------------------------------
(* Ids, and the system's comments in the thread.                           *)

SystemRows ==
  \E n \in 0 .. Len(log) : \A e \in DOMAIN log \ Comments : e \in Range(rows) <=> e <= n

LEMMA PageSteps ==
  ASSUME [PagesNext]_pagesVars
  PROVE  \/ UNCHANGED <<frames, boot, lastId, pos, log, rows>>
         \/ Leave \/ ReadThread \/ \E c \in Client : Publish(c, Part(c).does)
         \/ Subscribe \/ Resume \/ Deliver \/ Receive \/ Cut \/ Restart
<1> DEFINE Same == UNCHANGED <<frames, boot, lastId, pos, log, rows>>
<1>1. UNCHANGED Seen \/ UNCHANGED <<store, view, stream>> => Same
  BY DEF Seen, store, view, stream
<1>2. CASE UNCHANGED pagesVars
  BY <1>1, <1>2 DEF pagesVars, Seen
<1>3. ASSUME NEW c \in Client, ArriveApart(c) \/ ArriveMeanwhile(c) \/ Meanwhile(c)
      PROVE  Same
  BY <1>1, <1>3 DEF ArriveApart, ArriveMeanwhile, Meanwhile
<1>4. ASSUME NEW c \in Client, DoStretch(c)
      PROVE  Same \/ ReadThread \/ Publish(c, Part(c).does)
  BY <1>1, <1>4 DEF DoStretch, ReadTicket
<1>5. ASSUME NEW c \in Client, FailStretch(c) PROVE Same \/ Leave
  BY <1>1, <1>5 DEF FailStretch
<1>6. ASSUME NEW c \in Client, FinishCall(c) PROVE Same
  BY <1>1, <1>6 DEF FinishCall
<1>7. ASSUME NEW c \in Browser, Submit(c) \/ Retry(c) \/ Hear(c) \/ AnswerLost(c)
      PROVE  Same
  BY <1>1, <1>7 DEF Submit, Retry, Send, Hear, AnswerLost
<1>8. CloseTab => Leave
  BY DEF CloseTab
<1> QED
  BY <1>2, <1>3, <1>4, <1>5, <1>6, <1>7, <1>8 DEF PagesNext

LEMMA DeliverNumbered ==
  ASSUME PageInv, Numbered, Deliver
  PROVE  Numbered'
<1> DEFINE e == pos + 1
           s == Stamped(e)
<1>1. link /\ pos' = e /\ frames' = frames \o s /\ UNCHANGED <<boot, lastId>>
  BY DEF Deliver
<1>2. pos \in Nat /\ e > pos
  BY LenProperties DEF PageInv, Streamed, Logged
<1> HIDE DEF e
<1>3. Frames(s, e)
  BY Rendered
<1> HIDE DEF s
<1>4. frames \in Seq(Range(frames)) /\ s \in Seq(Range(s))
  BY <1>3 DEF Frames, PageInv, Framing
<1>5. \A i \in DOMAIN frames' :
        \/ i \in DOMAIN frames /\ frames'[i] = frames[i]
        \/ \E j \in DOMAIN s : frames'[i] = s[j]
  BY <1>1, <1>4, Spliced DEF Follows
<1>6. \A j \in DOMAIN s : s[j].of = e /\ s[j].id = Id(e)
  BY <1>3 DEF Frames
<1>7. \A i \in DOMAIN frames' : frames'[i].id = frames'[i].of - boot
  BY <1>5, <1>6 DEF Numbered, Id
<1>8. ASSUME boot = 0
      PROVE  /\ lastId <= e
             /\ \A i \in DOMAIN frames' :
                  /\ lastId <= frames'[i].of
                  /\ frames'[i].patch.does = "signal" => lastId < frames'[i].of
  <2>1. lastId <= pos /\ lastId \in Nat
    BY <1>8 DEF Numbered, PageInv, Streamed
  <2>2. lastId < e /\ lastId <= e
    BY <1>2, <2>1 DEF e
  <2>3. \A i \in DOMAIN frames :
          lastId <= frames[i].of /\ (frames[i].patch.does = "signal" => lastId < frames[i].of)
    BY <1>8 DEF Numbered
  <2> QED
    BY <1>5, <1>6, <2>2, <2>3
<1> QED
  BY <1>1, <1>7, <1>8 DEF Numbered, Id

LEMMA ReceiveNumbered ==
  ASSUME PageInv, Numbered, Receive
  PROVE  Numbered'
<1> DEFINE f == frames[1]
<1>1. /\ frames # <<>> /\ lastId' = Head(frames).id /\ frames' = Tail(frames)
      /\ UNCHANGED <<boot, pos>>
  BY DEF Receive
<1>2. /\ 1 \in DOMAIN frames /\ Head(frames) = f /\ DOMAIN frames = 1 .. Len(frames)
      /\ \A i \in DOMAIN frames' : i + 1 \in DOMAIN frames /\ frames'[i] = frames[i + 1] /\ i \in Nat
                                   /\ i >= 1
  <2>1. frames \in Seq(Range(frames))
    BY DEF PageInv, Framing
  <2>2. /\ 1 \in DOMAIN frames /\ Head(frames) = f /\ DOMAIN frames = 1 .. Len(frames)
        /\ DOMAIN frames' = 1 .. Len(frames) - 1 /\ Len(frames) \in Nat
        /\ \A i \in DOMAIN frames' : i + 1 \in DOMAIN frames /\ frames'[i] = frames[i + 1]
    BY <1>1, <2>1, Shortened
  <2> QED
    BY <2>2
<1>3. \A i \in DOMAIN frames : frames[i].of \in 1 .. pos
  BY DEF PageInv, Framing, Framed
<1>4. pos \in Nat /\ f.of \in 1 .. pos
  BY <1>2, <1>3, LenProperties DEF PageInv, Streamed, Logged
<1>5. \A i \in DOMAIN frames' : frames'[i].id = frames'[i].of - boot
  BY <1>2 DEF Numbered, Id
<1>6. \A i \in DOMAIN frames' : Before(f, frames'[i])
  BY <1>2 DEF PageInv, Framing
<1> HIDE DEF f
<1>7. ASSUME boot = 0 PROVE lastId' = f.of
  BY <1>1, <1>2, <1>4, <1>7 DEF Numbered, Id, f
<1>8. ASSUME boot = 0, NEW i \in DOMAIN frames'
      PROVE  /\ f.of <= frames'[i].of
             /\ frames'[i].patch.does = "signal" => f.of < frames'[i].of
  <2>1. frames'[i].of \in 1 .. pos
    BY <1>2, <1>3
  <2>2. Stage(f) \in 0 .. 2 /\ (frames'[i].patch.does = "signal" => Stage(frames'[i]) = 0)
    BY DEF Stage
  <2>3. f.of < frames'[i].of \/ (f.of = frames'[i].of /\ Stage(f) < Stage(frames'[i]))
    BY <1>6 DEF Before
  <2> QED
    BY <1>4, <2>1, <2>2, <2>3
<1> QED
  BY <1>1, <1>4, <1>5, <1>7, <1>8 DEF Numbered, Id

LEMMA DroppedNumbered ==
  ASSUME PageInv, Numbered, Cut \/ Restart
  PROVE  Numbered'
<1>1. /\ Dropped /\ link /\ frames' = <<>> /\ lastId' = lastId
      /\ pos' = IF frames = <<>> THEN pos ELSE Head(frames).of - (IF Begun THEN 0 ELSE 1)
      /\ boot' = boot \/ boot' = Len(log)
  BY DEF Cut, Restart, Dropped
<1>2. boot \in 0 .. Len(log) /\ pos \in 0 .. Len(log) /\ lastId \in Nat /\ Len(log) \in Nat
  BY LenProperties DEF PageInv, Streamed, Logged
<1>3. SUFFICES ASSUME boot' = 0 PROVE lastId <= pos'
  BY <1>1 DEF Numbered
<1>4. boot = 0
  BY <1>1, <1>2, <1>3
<1>5. CASE frames = <<>>
  BY <1>1, <1>4, <1>5 DEF Numbered
<1>6. CASE frames # <<>>
  <2>1. 1 \in DOMAIN frames /\ Head(frames) = frames[1]
    <3>1. frames \in Seq(Range(frames))
      BY DEF PageInv, Framing
    <3> QED
      BY <1>6, <3>1, Shortened
  <2>2. lastId <= frames[1].of /\ (frames[1].patch.does = "signal" => lastId < frames[1].of)
    BY <1>4, <2>1 DEF Numbered
  <2>3. frames[1].of \in 1 .. pos
    BY <2>1 DEF PageInv, Framing, Framed
  <2>4. Begun <=> frames[1].patch.does # "signal"
    BY <1>6, <2>1 DEF Begun
  <2>5. CASE Begun
    BY <1>1, <1>2, <1>6, <2>1, <2>2, <2>3, <2>5
  <2>6. CASE ~ Begun
    BY <1>1, <1>2, <1>6, <2>2, <2>1, <2>4, <2>3, <2>6
  <2> QED
    BY <2>5, <2>6
<1> QED
  BY <1>5, <1>6

LEMMA NumberedNext ==
  ASSUME PageInv, Numbered, [PagesNext]_pagesVars
  PROVE  Numbered'
<1>1. CASE UNCHANGED <<frames, boot, lastId, pos>>
  BY <1>1 DEF Numbered, Id
<1>2. CASE Leave
  BY <1>2 DEF Leave, Numbered
<1>3. CASE Subscribe \/ Resume
  <2>1. Attach /\ ~ link /\ frames = <<>>
    BY <1>3 DEF Subscribe, Resume, PageInv, Unlinked, Framing
  <2>2. pos' \in pos .. Len(log) /\ UNCHANGED <<boot, frames, lastId>>
    BY <2>1, Attached DEF PageInv
  <2>3. pos \in Nat /\ lastId \in Nat /\ Len(log) \in Nat
    BY LenProperties DEF PageInv, Streamed, Logged
  <2>4. boot = 0 => lastId <= pos'
    BY <2>2, <2>3 DEF Numbered
  <2> QED
    BY <2>1, <2>2, <2>4 DEF Numbered
<1>4. ReadThread \/ (\E c \in Client : Publish(c, Part(c).does)) =>
        UNCHANGED <<frames, boot, lastId, pos>>
  BY DEF ReadThread, Publish, stream
<1> QED
  BY <1>1, <1>2, <1>3, <1>4, PageSteps, DeliverNumbered, ReceiveNumbered, DroppedNumbered

LEMMA SystemRowsNext ==
  ASSUME PageInv, SystemRows, [PagesNext]_pagesVars
  PROVE  SystemRows'
<1>0. Len(log) \in Nat /\ DOMAIN log = 1 .. Len(log)
  BY LenProperties DEF PageInv, Logged
<1>1. PICK n \in 0 .. Len(log) : \A e \in DOMAIN log \ Comments : e \in Range(rows) <=> e <= n
  BY DEF SystemRows
<1>2. CASE UNCHANGED <<log, rows>>
  <2>1. Comments' = Comments
    BY <1>2 DEF Comments
  <2> QED
    BY <1>1, <1>2, <2>1 DEF SystemRows
<1>3. CASE Leave
  <2>1. Len(log') = 0 /\ DOMAIN log' = {}
    BY <1>3 DEF Leave
  <2> QED
    BY <2>1 DEF SystemRows
<1>4. CASE ReadThread
  <2>1. log' = log /\ Range(rows') = DOMAIN log /\ Comments' = Comments
    BY <1>4 DEF ReadThread, store, Range, Comments
  <2>2. \A e \in DOMAIN log \ Comments : e \in DOMAIN log <=> e <= Len(log)
    BY <1>0
  <2>3. Len(log) \in 0 .. Len(log)
    BY <1>0
  <2> QED
    BY <2>1, <2>2, <2>3 DEF SystemRows
<1>5. ASSUME NEW c \in Client, Publish(c, Part(c).does) PROVE SystemRows'
  <2> DEFINE t == IF Submits(c) THEN Len(tries) ELSE 0
             w == Part(c).does
             x == [what |-> w, try |-> t]
  <2>1. log' = Append(log, x) /\ rows' = rows
    BY <1>5 DEF Publish, view
  <2> HIDE DEF x
  <2>2. /\ Len(log') = Len(log) + 1 /\ DOMAIN log' = 1 .. Len(log) + 1
        /\ \A e \in DOMAIN log : log'[e] = log[e]
    <3> DEFINE U == [what : Published, try : Nat] \cup {x}
    <3>1. log \in Seq(U)
      BY SeqMonotonic DEF PageInv, Logged
    <3>2. x \in U
      OBVIOUS
    <3> HIDE DEF U
    <3> QED
      BY <1>0, <2>1, <3>1, <3>2, AppendProperties, LenProperties
  <2>3. Len(log) + 1 \notin Range(rows)
    BY <1>0 DEF PageInv, Threaded
  <2>4. \A e \in DOMAIN log' \ Comments' : e \in DOMAIN log \ Comments \/ e = Len(log) + 1
    BY <1>0, <2>2 DEF Comments
  <2>5. \A e \in DOMAIN log' \ Comments' : e \in Range(rows') <=> e <= n
    BY <1>0, <1>1, <2>1, <2>3, <2>4
  <2>6. n \in 0 .. Len(log')
    BY <1>0, <2>2
  <2> QED
    BY <2>5, <2>6 DEF SystemRows
<1>6. CASE Receive
  <2> DEFINE p == Head(frames).patch
  <2>1. log' = log /\ Comments' = Comments
        /\ rows' = IF p.does = "append" THEN Append(rows, p.row) ELSE rows
    BY <1>6 DEF Receive, Applied, store, Comments
  <2>2. CASE p.does # "append"
    BY <1>1, <2>1, <2>2 DEF SystemRows
  <2>3. CASE p.does = "append"
    <3>1. p.row \in Comments
      <4>1. frames \in Seq(Range(frames)) /\ frames # <<>>
        BY <1>6 DEF Receive, PageInv, Framing
      <4>2. 1 \in DOMAIN frames /\ Head(frames) = frames[1]
        BY <4>1, Shortened
      <4>3. Framed(frames[1])
        BY <4>2 DEF PageInv, Framing
      <4>4. frames[1].of \in 1 .. pos /\ log[frames[1].of].what = "comment" /\ p.row = frames[1].of
        BY <2>3, <4>2, <4>3 DEF Framed
      <4>5. pos \in 0 .. Len(log)
        BY DEF PageInv, Streamed
      <4> QED
        BY <1>0, <4>4, <4>5 DEF Comments
    <3>2. rows \in Seq(Nat) /\ p.row \in Nat /\ rows' = Append(rows, p.row)
      BY <1>0, <2>1, <2>3, <3>1 DEF PageInv, Threaded, Comments
    <3> HIDE DEF p
    <3>3. Range(rows') = Range(rows) \cup {p.row}
      <4>1. /\ DOMAIN rows' = 1 .. Len(rows) + 1 /\ DOMAIN rows = 1 .. Len(rows) /\ Len(rows) \in Nat
            /\ \A i \in DOMAIN rows : rows'[i] = rows[i]
            /\ rows'[Len(rows) + 1] = p.row
        BY <3>2, AppendProperties, LenProperties
      <4>2. DOMAIN rows' = DOMAIN rows \cup {Len(rows) + 1}
        BY <4>1
      <4> HIDE DEF p
      <4> QED
        BY <4>1, <4>2 DEF Range
    <3> QED
      BY <1>1, <2>1, <3>1, <3>3 DEF SystemRows
  <2> QED
    BY <2>2, <2>3
<1>7. Subscribe \/ Resume \/ Deliver \/ Cut \/ Restart => UNCHANGED <<log, rows>>
  BY DEF Subscribe, Resume, Attach, Deliver, Cut, Restart, Dropped, store, view
<1> QED
  BY <1>2, <1>3, <1>4, <1>5, <1>6, <1>7, PageSteps

\* What Attached needs, and what UpToDate says of the system's comments.
ThreadInv == Numbered /\ SystemRows

LEMMA ThreadInvInit == PagesInit => ThreadInv
<1> SUFFICES ASSUME PagesInit PROVE ThreadInv
  OBVIOUS
<1>1. frames = <<>> /\ lastId = 0 /\ pos = 0 /\ boot = 0 /\ log = <<>>
  BY DEF PagesInit
<1>2. DOMAIN log = {} /\ Len(log) = 0 /\ DOMAIN frames = {}
  BY <1>1
<1> QED
  BY <1>1, <1>2 DEF ThreadInv, Numbered, SystemRows

LEMMA ThreadInvNext ==
  ASSUME PageInv, ThreadInv, [PagesNext]_pagesVars
  PROVE  ThreadInv'
BY NumberedNext, SystemRowsNext DEF ThreadInv

-----------------------------------------------------------------------------
(* The theorem.                                                            *)

LEMMA PageInvNext ==
  ASSUME CallsInv, PageInv, Numbered, [PagesNext]_pagesVars
  PROVE  PageInv'
<1>1. CASE UNCHANGED pagesVars
  <2>1. UNCHANGED Seen /\ call' = call
    BY <1>1 DEF pagesVars, calls, Seen
  <2>2. \A b \in Browser : Quietly(b)
    BY <2>1 DEF Quietly
  <2> QED
    BY <2>1, <2>2, QuietKeeps
<1>2. ASSUME NEW c \in Client, ArriveApart(c) \/ ArriveMeanwhile(c) PROVE PageInv'
  BY <1>2, ArriveKeeps
<1>3. ASSUME NEW c \in Client, DoStretch(c) PROVE PageInv'
  BY <1>3, DoKeeps
<1>4. ASSUME NEW c \in Client, FailStretch(c) PROVE PageInv'
  BY <1>4, FailKeeps
<1>5. ASSUME NEW c \in Client, FinishCall(c) PROVE PageInv'
  BY <1>5, FinishKeeps
<1>6. ASSUME NEW c \in Client, Meanwhile(c) PROVE PageInv'
  BY <1>6, MeanwhileKeeps
<1>7. ASSUME NEW c \in Browser, Submit(c) \/ Retry(c) PROVE PageInv'
  BY <1>7, SubmitKeeps
<1>8. ASSUME NEW c \in Browser, Hear(c) \/ AnswerLost(c) PROVE PageInv'
  BY <1>8, ReturnKeeps
<1>9. CASE Subscribe \/ Resume
  BY <1>9, AttachKeeps
<1>10. CASE Deliver
  BY <1>10, DeliverKeeps
<1>11. CASE Receive
  BY <1>11, ReceiveKeeps
<1>12. CASE Cut \/ Restart
  BY <1>12, DroppedKeeps
<1>13. CASE CloseTab
  BY <1>13, CloseKeeps
<1> QED
  BY <1>1, <1>2, <1>3, <1>4, <1>5, <1>6, <1>7, <1>8, <1>9, <1>10, <1>11, <1>12, <1>13
  DEF PagesNext

\* Of the tries of a text, one at most is stored with its answer heard.
LEMMA FewCopies ==
  ASSUME PageInv, NEW text
  PROVE  Cardinality(Copies(text)) <= 1 + Cardinality(Doubtful(text))
<1> DEFINE C == Copies(text)
           D == Doubtful(text)
           g == [e \in C |-> log[e].try]
<1>1. /\ Len(log) \in Nat /\ DOMAIN log = 1 .. Len(log)
      /\ LastTry \in Nat /\ DOMAIN tries = 1 .. LastTry
  BY LenProperties DEF PageInv, Logged, Tried, LastTry
<1>2. IsFiniteSet(C) /\ IsFiniteSet(D)
  <2>1. IsFiniteSet(1 .. Len(log)) /\ IsFiniteSet(1 .. LastTry)
    BY <1>1, FS_Interval
  <2>2. C \subseteq 1 .. Len(log)
    BY <1>1 DEF Copies, StoredOf, Comments
  <2>3. D \subseteq 1 .. LastTry
    BY <1>1 DEF PageInv, Tried, Doubtful
  <2> QED
    BY <2>1, <2>2, <2>3, FS_Subset
<1>3. \A e \in C : /\ e \in DOMAIN log /\ log[e].try \in DOMAIN tries /\ tries[log[e].try] = text
                   /\ e \in StoredOf(log[e].try)
  BY DEF Copies, StoredOf, Comments
<1>4. \A e, d \in C : log[e].try = log[d].try => e = d
  BY <1>1, <1>3 DEF PageInv, Logged
<1>5. \A e, d \in C : log[e].try < log[d].try => log[e].try \in lost
  BY <1>3 DEF PageInv, Placeholders
<1>6. \A e, d \in C : log[e].try \notin lost /\ log[d].try \notin lost => e = d
  <2> SUFFICES ASSUME NEW e \in C, NEW d \in C, log[e].try \notin lost, log[d].try \notin lost
      PROVE e = d
    OBVIOUS
  <2>1. log[e].try \in Nat /\ log[d].try \in Nat
    BY <1>1, <1>3
  <2>2. ~ (log[e].try < log[d].try) /\ ~ (log[d].try < log[e].try)
    BY <1>5
  <2> QED
    BY <1>4, <2>1, <2>2
<1> HIDE DEF C, D, g
<1>7. ASSUME NEW T \in SUBSET C, \A e \in T : log[e].try \in lost
      PROVE  Cardinality(T) <= Cardinality(D)
  <2> DEFINE h == [e \in T |-> log[e].try]
  <2>1. h \in [T -> D]
    BY <1>3, <1>7 DEF D, Doubtful
  <2>2. \A e, d \in T : h[e] = h[d] => e = d
    BY <1>4
  <2>3. h \in Injection(T, D)
    BY <2>1, <2>2 DEF Injection, IsInjective
  <2> HIDE DEF h
  <2> QED
    BY <1>2, <2>3, FS_Injection
<1>8. Cardinality(C) \in Nat /\ Cardinality(D) \in Nat
  BY <1>2, FS_CardinalityType
<1>9. CASE \A e \in C : log[e].try \in lost
  <2>1. Cardinality(C) <= Cardinality(D)
    BY <1>7, <1>9
  <2> QED
    BY <1>8, <2>1 DEF C, D
<1>10. CASE \E x \in C : log[x].try \notin lost
  <2>1. PICK x \in C : log[x].try \notin lost
    BY <1>10
  <2>2. \A e \in C \ {x} : log[e].try \in lost
    BY <1>6, <2>1
  <2>3. Cardinality(C \ {x}) <= Cardinality(D)
    BY <1>7, <2>2
  <2>4. Cardinality(C \ {x}) = Cardinality(C) - 1
    BY <1>2, <2>1, FS_RemoveElement
  <2> QED
    BY <1>8, <2>3, <2>4 DEF C, D
<1> QED
  BY <1>9, <1>10

LEMMA CommentsAreHeld ==
  ASSUME PageInv
  PROVE  CommentsHold
<1>1. \A i, j \in DOMAIN rows : i < j => rows[i] < rows[j]
  BY DEF PageInv, Threaded
<1>2. ASSUME NEW text \in Texts
      PROVE  Copies(text) # {} \/ \E k \in sending \cup failed : tries[k] = text
  <2>1. PICK k \in DOMAIN tries : tries[k] = text
    BY <1>2 DEF Texts, Range
  <2>2. PICK j \in DOMAIN tries : tries[j] = text /\ (StoredOf(j) # {} \/ Placeholder(j))
    BY <2>1 DEF PageInv, Placeholders
  <2>3. CASE StoredOf(j) # {}
    BY <2>2, <2>3 DEF Copies
  <2>4. CASE Placeholder(j)
    BY <2>2, <2>4 DEF Placeholder
  <2> QED
    BY <2>2, <2>3, <2>4
<1>3. ASSUME Settled, \A c \in Browser : AtRest(c), NEW k \in sending \cup failed
      PROVE  /\ \A e \in StoredOf(k) : ~ Told(e)
             /\ k \in sending => StoredOf(k) # {}
  <2>1. ASSUME NEW e \in StoredOf(k) PROVE e \in missed
    <3>1. e \in Comments /\ Placeholder(log[e].try)
      BY <1>3, <2>1 DEF StoredOf, Placeholder
    <3>2. ~ (e > pos)
      <4>1. e \in 1 .. Len(log) /\ Len(log) \in Nat
        BY <3>1, LenProperties DEF PageInv, Logged, Comments
      <4> QED
        BY <1>3, <4>1 DEF Settled
    <3>3. DOMAIN frames = {}
      BY <1>3 DEF Settled
    <3> QED
      BY <3>1, <3>2, <3>3 DEF PageInv, Replaced
  <2>2. ~ Waiting
    BY <1>3 DEF Waiting, Sends, Busy, AtRest
  <2> QED
    BY <2>1, <2>2 DEF PageInv, Placeholders, Told
<1>4. \A text \in Texts : Cardinality(Copies(text)) <= 1 + Cardinality(Doubtful(text))
  BY FewCopies
<1> QED
  BY <1>1, <1>2, <1>3, <1>4 DEF CommentsHold

\* The thread keeps the order of the comments, none is shown twice or lost from
\* sight, whatever answers and deliveries are lost: what was submitted is stored or still a placeholder, is stored again
\* only when an answer was lost before a retry, and the placeholder of a stored
\* comment outlives its row on a settled page only when its event was missed.
THEOREM NoCommentLost == PagesSpec => []CommentsHold
<1>1. PagesInit => PageInv /\ ThreadInv
  BY PageInvInit, ThreadInvInit
<1>2. CallsInv /\ PageInv /\ ThreadInv /\ [PagesNext]_pagesVars => PageInv' /\ ThreadInv'
  BY PageInvNext, ThreadInvNext DEF ThreadInv
<1>3. PageInv => CommentsHold
  BY CommentsAreHeld
<1> QED
  BY <1>1, <1>2, <1>3, CallsAreSane, PagesMakeCalls, PTL DEF PagesSpec

-----------------------------------------------------------------------------
(* What the page has been told.                                            *)

\* A frame with the badge, and one with the buttons, of an event.
Shows(g, e) == g.of = e /\ g.patch.does = "badge"
Arms(g, e) == g.of = e /\ g.patch.does = "actions"
Adds(g, e) == g.of = e /\ g.patch.does = "append"
AllFrom(e) == \A i \in DOMAIN frames : frames[i].of >= e
Ahead(e) == e \in missed \/ e > pos

\* The badge of a part's last change is right on its way and when it has come:
\* what is still on its way is no older.
Badges ==
  \A part \in Parts : \A e \in LastOf(part) :
    /\ \A i \in DOMAIN frames : Shows(frames[i], e) => frames[i].patch.is = ticket[part]
    /\ \/ Ahead(e) \/ \E i \in DOMAIN frames : Shows(frames[i], e)
       \/ shown[part] = ticket[part] /\ AllFrom(e)

\* So are the buttons that are rendered for that change or a later one.
Buttons ==
  \A part \in Parts : \A e \in LastOf(part) :
    /\ \A i \in DOMAIN frames :
         frames[i].patch.does = "actions" /\ frames[i].of >= e =>
           frames[i].patch.is[part] = ticket[part]
    /\ \A d \in e .. Len(log) : log[d].what # "comment" =>
         \/ Ahead(d) \/ \E i \in DOMAIN frames : Arms(frames[i], d)
         \/ actions[part] = ticket[part] /\ AllFrom(e)

RowsTold ==
  \A e \in Comments :
    Ahead(e) \/ e \in Range(rows) \/ \E i \in DOMAIN frames : Adds(frames[i], e)

ToldInv == Badges /\ Buttons /\ RowsTold

told == <<ticket, log, shown, actions, rows, pos, frames, missed>>

LEMMA ToldSame ==
  ASSUME ToldInv, UNCHANGED told
  PROVE  ToldInv'
<1>1. UNCHANGED <<ticket, log, shown, actions, rows, pos, frames, missed>>
  BY DEF told
<1>2. (\A part : LastOf(part)' = LastOf(part)) /\ Comments' = Comments
  BY <1>1 DEF LastOf, Comments
<1>3. (\A e : Ahead(e)' <=> Ahead(e)) /\ (\A e : AllFrom(e)' <=> AllFrom(e))
  BY <1>1 DEF Ahead, AllFrom
<1>4. /\ \A g, e : Shows(g, e)' <=> Shows(g, e)
      /\ \A g, e : Arms(g, e)' <=> Arms(g, e)
      /\ \A g, e : Adds(g, e)' <=> Adds(g, e)
  BY DEF Shows, Arms, Adds
<1>5. Badges'
  BY <1>1, <1>2, <1>3, <1>4 DEF ToldInv, Badges
<1>6. Buttons'
  BY <1>1, <1>2, <1>3, <1>4 DEF ToldInv, Buttons
<1>7. RowsTold'
  BY <1>1, <1>2, <1>3, <1>4 DEF ToldInv, RowsTold
<1> QED
  BY <1>5, <1>6, <1>7 DEF ToldInv

\* No event, no frame.
LEMMA ToldNothing ==
  ASSUME log = <<>>
  PROVE  ToldInv
<1>1. DOMAIN log = {}
  BY EmptySeq, LenProperties
<1>2. (\A part : LastOf(part) = {}) /\ Comments = {}
  BY <1>1 DEF LastOf, Comments
<1> QED
  BY <1>2 DEF ToldInv, Badges, Buttons, RowsTold

\* Only the thread is read, with nothing delivered yet.
LEMMA ToldThread ==
  ASSUME PageInv, ToldInv, UNCHANGED <<ticket, log, shown, actions, pos, frames, missed>>,
         page # "open"
  PROVE  ToldInv'
<1>1. UNCHANGED <<ticket, log, shown, actions, pos, frames, missed>>
  OBVIOUS
<1>2. (\A part : LastOf(part)' = LastOf(part)) /\ Comments' = Comments
  BY <1>1 DEF LastOf, Comments
<1>3. (\A e : Ahead(e)' <=> Ahead(e)) /\ (\A e : AllFrom(e)' <=> AllFrom(e))
  BY <1>1 DEF Ahead, AllFrom
<1>4. /\ \A g, e : Shows(g, e)' <=> Shows(g, e)
      /\ \A g, e : Arms(g, e)' <=> Arms(g, e)
  BY DEF Shows, Arms
<1>5. Badges'
  BY <1>1, <1>2, <1>3, <1>4 DEF ToldInv, Badges
<1>6. Buttons'
  BY <1>1, <1>2, <1>3, <1>4 DEF ToldInv, Buttons
<1>7. \A e \in Comments : Ahead(e)
  <2>1. \A e \in Comments : e \in 1 .. Len(log)
    BY LenProperties DEF PageInv, Logged, Comments
  <2>2. pos = 0
    BY DEF PageInv, Unlinked
  <2> QED
    BY <2>1, <2>2 DEF Ahead
<1>8. RowsTold'
  BY <1>2, <1>3, <1>7 DEF RowsTold
<1> QED
  BY <1>5, <1>6, <1>8 DEF ToldInv

\* An event is published.
LEMMA ToldPublish ==
  ASSUME PageInv, ToldInv, NEW c, NEW w \in Published, Publish(c, w)
  PROVE  ToldInv'
<1> DEFINE n == Len(log) + 1
<1>1. UNCHANGED <<shown, actions, rows, pos, frames, missed>>
  BY DEF Publish, view, stream
<1>2. /\ Len(log) \in Nat /\ DOMAIN log = 1 .. Len(log)
      /\ Len(log') = n /\ DOMAIN log' = 1 .. n /\ log'[n].what = w
      /\ \A e \in DOMAIN log : log'[e] = log[e]
      /\ pos \in 0 .. Len(log)
  <2> DEFINE t == IF Submits(c) THEN Len(tries) ELSE 0
  <2>1. log' = Append(log, [what |-> w, try |-> t])
    BY DEF Publish
  <2>2. t \in Nat
    BY LenProperties DEF PageInv, Tried
  <2> HIDE DEF t
  <2>3. [what |-> w, try |-> t] \in [what : Published, try : Nat]
        /\ log \in Seq([what : Published, try : Nat])
    BY <2>2 DEF PageInv, Logged
  <2>4. pos \in 0 .. Len(log)
    BY DEF PageInv, Streamed
  <2> QED
    BY <2>1, <2>3, <2>4, AppendProperties, LenProperties
<1>3. ASSUME NEW part \in Parts, part # w
      PROVE  /\ ticket'[part] = ticket[part]
             /\ LastOf(part)' = LastOf(part)
  <2>1. ticket'[part] = ticket[part]
    BY <1>3 DEF Publish
  <2>2. \A e \in DOMAIN log : e \in LastOf(part)' <=> e \in LastOf(part)
    <3> SUFFICES ASSUME NEW e \in DOMAIN log PROVE e \in LastOf(part)' <=> e \in LastOf(part)
      OBVIOUS
    <3>1. \A d \in e + 1 .. n : d = n \/ d \in e + 1 .. Len(log)
      BY <1>2
    <3>2. \A d \in e + 1 .. Len(log) : d \in e + 1 .. n /\ d \in DOMAIN log
      BY <1>2
    <3>3. e \in LastOf(part)' <=> log'[e].what = part /\ \A d \in e + 1 .. n : log'[d].what # part
      BY <1>2 DEF LastOf
    <3> QED
      BY <1>2, <1>3, <3>1, <3>2, <3>3 DEF LastOf
  <2>3. \A e \in LastOf(part)' : e \in DOMAIN log
    BY <1>2, <1>3 DEF LastOf
  <2>4. \A e \in LastOf(part) : e \in DOMAIN log
    BY DEF LastOf
  <2> QED
    BY <2>1, <2>2, <2>3, <2>4
<1>4. ASSUME NEW e \in LastOf(w)' PROVE e = n
  <2>1. e \in 1 .. n /\ \A d \in e + 1 .. n : log'[d].what # w
    BY <1>2, <1>4 DEF LastOf
  <2> QED
    BY <1>2, <2>1
<1>5. n > pos /\ \A i \in DOMAIN frames : frames[i].of \in Nat /\ frames[i].of < n
  BY <1>2 DEF PageInv, Framing, Framed
<1>6. (\A e : Ahead(e)' <=> Ahead(e)) /\ (\A e : AllFrom(e)' <=> AllFrom(e)) /\ Ahead(n)
  BY <1>1, <1>5 DEF Ahead, AllFrom
<1>7. /\ \A g, e : Shows(g, e)' <=> Shows(g, e)
      /\ \A g, e : Arms(g, e)' <=> Arms(g, e)
      /\ \A g, e : Adds(g, e)' <=> Adds(g, e)
  BY DEF Shows, Arms, Adds
<1> HIDE DEF n
<1>8. Badges'
  <2> SUFFICES ASSUME NEW part \in Parts, NEW e \in LastOf(part)'
      PROVE  /\ \A i \in DOMAIN frames : Shows(frames[i], e) => frames[i].patch.is = ticket'[part]
             /\ \/ Ahead(e) \/ \E i \in DOMAIN frames : Shows(frames[i], e)
                \/ shown[part] = ticket'[part] /\ AllFrom(e)
    BY <1>1, <1>6, <1>7 DEF Badges
  <2>1. CASE part = w
    BY <1>4, <1>5, <1>6, <2>1 DEF Shows
  <2>2. CASE part # w
    BY <1>3, <2>2 DEF ToldInv, Badges
  <2> QED
    BY <2>1, <2>2
<1>9. Buttons'
  <2> SUFFICES ASSUME NEW part \in Parts, NEW e \in LastOf(part)'
      PROVE  /\ \A i \in DOMAIN frames :
                  frames[i].patch.does = "actions" /\ frames[i].of >= e =>
                    frames[i].patch.is[part] = ticket'[part]
             /\ \A d \in e .. n : log'[d].what # "comment" =>
                  \/ Ahead(d) \/ \E i \in DOMAIN frames : Arms(frames[i], d)
                  \/ actions[part] = ticket'[part] /\ AllFrom(e)
    BY <1>1, <1>2, <1>6, <1>7 DEF Buttons
  <2>1. CASE part = w
    <3>1. e = n
      BY <1>4, <2>1
    <3>2. \A i \in DOMAIN frames : ~ (frames[i].of >= e)
      BY <1>2, <1>5, <3>1 DEF n
    <3>3. \A d \in e .. n : d = n
      BY <1>2, <3>1 DEF n
    <3> QED
      BY <1>6, <3>2, <3>3
  <2>2. CASE part # w
    <3>1. e \in LastOf(part) /\ ticket'[part] = ticket[part] /\ e \in DOMAIN log
      BY <1>3, <2>2 DEF LastOf
    <3>2. \A d \in e .. n : d = n \/ (d \in e .. Len(log) /\ d \in DOMAIN log)
      BY <1>2, <3>1 DEF n
    <3> QED
      BY <1>2, <1>6, <3>1, <3>2 DEF ToldInv, Buttons
  <2> QED
    BY <2>1, <2>2
<1>10. RowsTold'
  <2> SUFFICES ASSUME NEW e \in Comments'
      PROVE  Ahead(e) \/ e \in Range(rows) \/ \E i \in DOMAIN frames : Adds(frames[i], e)
    BY <1>1, <1>6, <1>7 DEF RowsTold
  <2>1. e = n \/ e \in Comments
    BY <1>2 DEF Comments, n
  <2> QED
    BY <1>6, <2>1 DEF ToldInv, RowsTold
<1> QED
  BY <1>8, <1>9, <1>10 DEF ToldInv

\* The stream is there, or is no more.
LEMMA ToldAttach ==
  ASSUME PageInv, Numbered, ToldInv, Subscribe \/ Resume
  PROVE  ToldInv'
<1>1. Attach /\ page \in {"rendered", "open"} /\ ~ link
  BY DEF Subscribe, Resume, PageInv, Unlinked
<1>2. /\ pos' \in pos .. Len(log)
      /\ missed' = missed \cup {e \in pos + 1 .. pos' : e \notin Comments \cap Range(rows)}
      /\ lastId = 0 => pos' = Len(log)
      /\ link' /\ UNCHANGED <<calls, ticket, log, shown, actions, rows>>
      /\ UNCHANGED <<sending, failed, tries, lost, boot, frames, lastId, cuts>>
  BY <1>1, Attached DEF PageInv
<1>3. /\ Len(log) \in Nat /\ DOMAIN log = 1 .. Len(log) /\ pos \in 0 .. Len(log)
      /\ DOMAIN frames = {}
  <2>1. frames = <<>>
    BY <1>1 DEF PageInv, Framing
  <2> QED
    BY <2>1, LenProperties DEF PageInv, Logged, Streamed
<1>4. \A e \in DOMAIN log : e \notin Comments \cap Range(rows) /\ Ahead(e) => Ahead(e)'
  BY <1>2, <1>3 DEF Ahead
<1>5. (\A part : LastOf(part)' = LastOf(part)) /\ Comments' = Comments
      /\ (\A e : AllFrom(e)' <=> AllFrom(e))
  BY <1>2 DEF LastOf, Comments, AllFrom
<1>7. ASSUME NEW d \in DOMAIN log, log[d].what # "comment", Ahead(d) PROVE Ahead(d)'
  BY <1>4, <1>7 DEF Comments
<1>8. "comment" \notin Parts
  BY DEF Parts
<1>9. Badges'
  <2> SUFFICES ASSUME NEW part \in Parts, NEW e \in LastOf(part)
      PROVE  Ahead(e)' \/ (shown[part] = ticket[part] /\ AllFrom(e))
    BY <1>2, <1>3, <1>5 DEF Badges
  <2>1. e \in DOMAIN log /\ log[e].what # "comment"
    BY <1>8 DEF LastOf
  <2>2. Ahead(e) \/ (shown[part] = ticket[part] /\ AllFrom(e))
    BY <1>3 DEF ToldInv, Badges
  <2> QED
    BY <1>7, <2>1, <2>2
<1>10. Buttons'
  <2> SUFFICES ASSUME NEW part \in Parts, NEW e \in LastOf(part),
                      NEW d \in e .. Len(log), log[d].what # "comment"
      PROVE  Ahead(d)' \/ (actions[part] = ticket[part] /\ AllFrom(e))
    BY <1>2, <1>3, <1>5 DEF Buttons
  <2>1. d \in DOMAIN log
    BY <1>3 DEF LastOf
  <2>2. Ahead(d) \/ (actions[part] = ticket[part] /\ AllFrom(e))
    BY <1>3 DEF ToldInv, Buttons
  <2> QED
    BY <1>7, <2>1, <2>2
<1>11. RowsTold'
  <2> SUFFICES ASSUME NEW e \in Comments PROVE Ahead(e)' \/ e \in Range(rows)
    BY <1>2, <1>5 DEF RowsTold
  <2>1. Ahead(e) \/ e \in Range(rows)
    BY <1>3 DEF ToldInv, RowsTold
  <2>2. e \in DOMAIN log
    BY DEF Comments
  <2> QED
    BY <1>4, <2>1, <2>2
<1> QED
  BY <1>9, <1>10, <1>11 DEF ToldInv

LEMMA ToldDropped ==
  ASSUME PageInv, ToldInv, Dropped
  PROVE  ToldInv'
<1>1. /\ frames' = <<>> /\ pos' \in 0 .. pos
      /\ missed \subseteq missed'
      /\ \A i \in DOMAIN frames : frames[i].of > pos' \/ frames[i].of \in missed'
      /\ UNCHANGED <<calls, page, ticket, log, shown, actions, rows>>
  BY DroppedTo
<1>2. DOMAIN frames' = {}
  BY <1>1
<1>3. /\ Len(log) \in Nat /\ DOMAIN log = 1 .. Len(log) /\ pos \in Nat
  BY LenProperties DEF PageInv, Logged, Streamed
<1>4. \A e \in DOMAIN log : Ahead(e) => Ahead(e)'
  BY <1>1, <1>3 DEF Ahead
<1>6. (\A part : LastOf(part)' = LastOf(part)) /\ Comments' = Comments
      /\ (\A e : AllFrom(e)')
  BY <1>1, <1>2 DEF LastOf, Comments, AllFrom
<1>7. Badges'
  <2> SUFFICES ASSUME NEW part \in Parts, NEW e \in LastOf(part)
      PROVE  Ahead(e)' \/ shown[part] = ticket[part]
    BY <1>1, <1>2, <1>6 DEF Badges
  <2>1. e \in DOMAIN log
    BY DEF LastOf
  <2>2. \/ Ahead(e) \/ \E i \in DOMAIN frames : Shows(frames[i], e)
        \/ shown[part] = ticket[part] /\ AllFrom(e)
    BY DEF ToldInv, Badges
  <2> QED
    BY <1>1, <1>4, <2>1, <2>2 DEF Ahead, Shows
<1>8. Buttons'
  <2> SUFFICES ASSUME NEW part \in Parts, NEW e \in LastOf(part),
                      NEW d \in e .. Len(log), log[d].what # "comment"
      PROVE  Ahead(d)' \/ actions[part] = ticket[part]
    BY <1>1, <1>2, <1>6 DEF Buttons
  <2>1. d \in DOMAIN log
    BY <1>3 DEF LastOf
  <2>2. \/ Ahead(d) \/ \E i \in DOMAIN frames : Arms(frames[i], d)
        \/ actions[part] = ticket[part] /\ AllFrom(e)
    BY DEF ToldInv, Buttons
  <2> QED
    BY <1>1, <1>4, <2>1, <2>2 DEF Ahead, Arms
<1>9. RowsTold'
  <2> SUFFICES ASSUME NEW e \in Comments PROVE Ahead(e)' \/ e \in Range(rows)
    BY <1>1, <1>6 DEF RowsTold
  <2>1. Ahead(e) \/ e \in Range(rows) \/ \E i \in DOMAIN frames : Adds(frames[i], e)
    BY DEF ToldInv, RowsTold
  <2>2. e \in DOMAIN log
    BY DEF Comments
  <2> QED
    BY <1>1, <1>4, <2>1, <2>2 DEF Ahead, Adds
<1> QED
  BY <1>7, <1>8, <1>9 DEF ToldInv

\* An event's frames are rendered: they say what the ticket is now.
LEMMA Delivered ==
  ASSUME PageInv, Deliver, NEW e, e = pos + 1, NEW s, s = Stamped(e)
  PROVE  /\ Frames(s, e) /\ pos' = e /\ e \in DOMAIN log /\ pos \in Nat /\ e \in Nat
         /\ DOMAIN log = 1 .. Len(log) /\ Len(log) \in Nat /\ boot \in Nat /\ boot < e
         /\ \A i \in DOMAIN frames' :
              \/ i \in DOMAIN frames /\ frames'[i] = frames[i]
              \/ \E j \in DOMAIN s : frames'[i] = s[j]
         /\ \A i \in DOMAIN frames : i \in DOMAIN frames' /\ frames'[i] = frames[i]
         /\ \A j \in DOMAIN s : \E i \in DOMAIN frames' : frames'[i] = s[j]
         /\ UNCHANGED <<ticket, log, shown, actions, rows, tries, missed, lastId, cuts>>
<1>1. /\ link /\ pos < Len(log) /\ pos' = e /\ frames' = frames \o s
      /\ UNCHANGED <<ticket, log, shown, actions, rows, tries, missed, lastId, cuts>>
  BY DEF Deliver, store, view, form
<1>2. Frames(s, e)
  BY Rendered
<1>3. frames \in Seq(Range(frames)) /\ s \in Seq(Range(s))
  BY <1>2 DEF PageInv, Framing, Frames
<1>4. Follows(frames', frames, s)
  BY <1>1, <1>3, Spliced
<1>5. DOMAIN log = 1 .. Len(log) /\ Len(log) \in Nat
  BY LenProperties DEF PageInv, Logged
<1>6. pos \in Nat /\ e \in Nat /\ e \in DOMAIN log /\ boot \in Nat /\ boot < e
  BY <1>1, <1>5 DEF PageInv, Streamed
<1>7. \A j \in DOMAIN s : \E i \in DOMAIN frames' : frames'[i] = s[j]
  BY <1>4 DEF Follows
<1>8. /\ \A i \in DOMAIN frames' :
           \/ i \in DOMAIN frames /\ frames'[i] = frames[i]
           \/ \E j \in DOMAIN s : frames'[i] = s[j]
      /\ \A i \in DOMAIN frames : i \in DOMAIN frames' /\ frames'[i] = frames[i]
  BY <1>4 DEF Follows
<1> QED
  BY <1>1, <1>2, <1>5, <1>6, <1>7, <1>8

LEMMA ToldDeliver ==
  ASSUME PageInv, ToldInv, Deliver
  PROVE  ToldInv'
<1>1. PICK e : e = pos + 1
  OBVIOUS
<1>2. PICK s : s = Stamped(e)
  OBVIOUS
<1>3. /\ Frames(s, e) /\ pos' = e /\ e \in DOMAIN log /\ pos \in Nat /\ e \in Nat
      /\ DOMAIN log = 1 .. Len(log) /\ Len(log) \in Nat
      /\ \A i \in DOMAIN frames' :
           \/ i \in DOMAIN frames /\ frames'[i] = frames[i]
           \/ \E j \in DOMAIN s : frames'[i] = s[j]
      /\ \A i \in DOMAIN frames : i \in DOMAIN frames' /\ frames'[i] = frames[i]
      /\ \A j \in DOMAIN s : \E i \in DOMAIN frames' : frames'[i] = s[j]
      /\ UNCHANGED <<ticket, log, shown, actions, rows, missed>>
  BY <1>1, <1>2, Delivered
<1>4. (\A part : LastOf(part)' = LastOf(part)) /\ Comments' = Comments
  BY <1>3 DEF LastOf, Comments
<1>5. \A d \in DOMAIN log : d # e /\ Ahead(d) => Ahead(d)'
  BY <1>1, <1>3 DEF Ahead
<1>6. \A d \in DOMAIN log : ~ Ahead(d) => d <= pos
  BY <1>3 DEF Ahead
<1>7. \A d \in DOMAIN log : d <= pos /\ AllFrom(d) => AllFrom(d)'
  <2> SUFFICES ASSUME NEW d \in DOMAIN log, d <= pos, AllFrom(d),
                      NEW i \in DOMAIN frames'
      PROVE frames'[i].of >= d
    BY DEF AllFrom
  <2>1. CASE i \in DOMAIN frames /\ frames'[i] = frames[i]
    BY <2>1 DEF AllFrom
  <2>2. CASE \E j \in DOMAIN s : frames'[i] = s[j]
    <3>1. frames'[i].of = e
      BY <1>3, <2>2 DEF Frames
    <3> QED
      BY <1>1, <1>3, <3>1
  <2> QED
    BY <1>3, <2>1, <2>2
<1>8. /\ \A j \in DOMAIN s : s[j].of = e
      /\ \A j \in DOMAIN s :
           /\ s[j].patch.does = "badge" => s[j].patch = Badge(log[e].what)
           /\ s[j].patch.does = "actions" => s[j].patch = PageActions
      /\ log[e].what # "comment" => Shows(s[2], e) /\ Arms(s[3], e) /\ {2, 3} \subseteq DOMAIN s
      /\ log[e].what = "comment" => \E j \in DOMAIN s : Adds(s[j], e)
  <2>1. \A k : /\ Signal.does = "signal" /\ Removal(k).does = "remove"
               /\ Row(k).does = "append" /\ Badge(k).does = "badge" /\ PageActions.does = "actions"
    BY DEF Signal, Removal, Row, Badge, PageActions
  <2>2. \A j \in DOMAIN s : s[j].of = e
    BY <1>3 DEF Frames
  <2>3. DOMAIN s = 1 .. Len(s)
    BY <1>3 DEF Frames
  <2>4. CASE log[e].what = "comment" /\ log[e].try = 0 /\ Len(s) = 2
             /\ s[1].patch = Signal /\ s[2].patch = Row(e)
    <3>1. \A j \in DOMAIN s : j = 1 \/ j = 2
      BY <2>3, <2>4
    <3>2. 2 \in DOMAIN s
      BY <2>3, <2>4
    <3>3. Adds(s[2], e)
      BY <2>1, <2>2, <2>4, <3>2 DEF Adds
    <3> QED
      BY <2>1, <2>2, <2>4, <3>1, <3>2, <3>3
  <2>5. CASE log[e].what = "comment" /\ log[e].try # 0 /\ Len(s) = 3
             /\ s[1].patch = Signal /\ s[2].patch = Removal(log[e].try) /\ s[3].patch = Row(e)
    <3>1. \A j \in DOMAIN s : j = 1 \/ j = 2 \/ j = 3
      BY <2>3, <2>5
    <3>2. 3 \in DOMAIN s
      BY <2>3, <2>5
    <3>3. Adds(s[3], e)
      BY <2>1, <2>2, <2>5, <3>2 DEF Adds
    <3> QED
      BY <2>1, <2>2, <2>5, <3>1, <3>2, <3>3
  <2>6. CASE log[e].what # "comment" /\ Len(s) = 3
             /\ s[1].patch = Signal /\ s[2].patch = Badge(log[e].what) /\ s[3].patch = PageActions
    <3>1. \A j \in DOMAIN s : j = 1 \/ j = 2 \/ j = 3
      BY <2>3, <2>6
    <3>2. 2 \in DOMAIN s /\ 3 \in DOMAIN s
      BY <2>3, <2>6
    <3>3. Shows(s[2], e) /\ Arms(s[3], e)
      BY <2>1, <2>2, <2>6, <3>2 DEF Shows, Arms
    <3> QED
      BY <2>1, <2>2, <2>6, <3>1, <3>2, <3>3
  <2> QED
    BY <1>3, <2>4, <2>5, <2>6 DEF Frames
<1>9. "comment" \notin Parts
  BY DEF Parts
<1>10. /\ \A g, d : Shows(g, d)' <=> Shows(g, d)
       /\ \A g, d : Arms(g, d)' <=> Arms(g, d)
       /\ \A g, d : Adds(g, d)' <=> Adds(g, d)
  BY DEF Shows, Arms, Adds
<1>11. /\ \A d : (\E i \in DOMAIN frames : Shows(frames[i], d)) =>
                   \E i \in DOMAIN frames' : Shows(frames'[i], d)
       /\ \A d : (\E i \in DOMAIN frames : Arms(frames[i], d)) =>
                   \E i \in DOMAIN frames' : Arms(frames'[i], d)
       /\ \A d : (\E i \in DOMAIN frames : Adds(frames[i], d)) =>
                   \E i \in DOMAIN frames' : Adds(frames'[i], d)
  BY <1>3
<1>12. Badges'
  <2> SUFFICES ASSUME NEW part \in Parts, NEW d \in LastOf(part)
      PROVE  /\ \A i \in DOMAIN frames' : Shows(frames'[i], d) => frames'[i].patch.is = ticket[part]
             /\ \/ Ahead(d)' \/ \E i \in DOMAIN frames' : Shows(frames'[i], d)
                \/ shown[part] = ticket[part] /\ AllFrom(d)'
    BY <1>3, <1>4, <1>10 DEF Badges, Shows
  <2>1. d \in DOMAIN log /\ log[d].what = part
    BY DEF LastOf
  <2>2. ASSUME NEW i \in DOMAIN frames', Shows(frames'[i], d) PROVE frames'[i].patch.is = ticket[part]
    <3>1. CASE i \in DOMAIN frames /\ frames'[i] = frames[i]
      BY <2>2, <3>1 DEF ToldInv, Badges
    <3>2. CASE \E j \in DOMAIN s : frames'[i] = s[j]
      <4>1. d = e /\ frames'[i].patch = Badge(log[e].what)
        BY <1>8, <2>2, <3>2 DEF Shows
      <4> QED
        BY <2>1, <4>1 DEF Badge
    <3> QED
      BY <1>3, <3>1, <3>2
  <2>3. CASE d = e
    <3>1. Shows(s[2], e) /\ 2 \in DOMAIN s
      BY <1>8, <1>9, <2>1, <2>3
    <3>2. \E i \in DOMAIN frames' : frames'[i] = s[2]
      BY <1>3, <3>1
    <3> QED
      BY <2>2, <2>3, <3>1, <3>2
  <2>4. CASE d # e
    <3>1. \/ Ahead(d) \/ \E i \in DOMAIN frames : Shows(frames[i], d)
          \/ shown[part] = ticket[part] /\ AllFrom(d)
      BY DEF ToldInv, Badges
    <3> QED
      BY <1>5, <1>6, <1>7, <1>11, <2>1, <2>2, <2>4, <3>1
  <2> QED
    BY <2>3, <2>4
<1>13. Buttons'
  <2> SUFFICES ASSUME NEW part \in Parts, NEW d \in LastOf(part)
      PROVE  /\ \A i \in DOMAIN frames' :
                  frames'[i].patch.does = "actions" /\ frames'[i].of >= d =>
                    frames'[i].patch.is[part] = ticket[part]
             /\ \A b \in d .. Len(log) : log[b].what # "comment" =>
                  \/ Ahead(b)' \/ \E i \in DOMAIN frames' : Arms(frames'[i], b)
                  \/ actions[part] = ticket[part] /\ AllFrom(d)'
    BY <1>3, <1>4, <1>10 DEF Buttons, Arms
  <2>1. d \in DOMAIN log /\ d \in Nat
    BY <1>3 DEF LastOf
  <2>2. ASSUME NEW i \in DOMAIN frames', frames'[i].patch.does = "actions", frames'[i].of >= d
        PROVE  frames'[i].patch.is[part] = ticket[part]
    <3>1. CASE i \in DOMAIN frames /\ frames'[i] = frames[i]
      BY <2>2, <3>1 DEF ToldInv, Buttons
    <3>2. CASE \E j \in DOMAIN s : frames'[i] = s[j]
      <4>1. frames'[i].patch = PageActions
        BY <1>8, <2>2, <3>2
      <4> QED
        BY <4>1 DEF PageActions
    <3> QED
      BY <1>3, <3>1, <3>2
  <2>3. ASSUME NEW b \in d .. Len(log), log[b].what # "comment"
        PROVE  \/ Ahead(b)' \/ \E i \in DOMAIN frames' : Arms(frames'[i], b)
               \/ actions[part] = ticket[part] /\ AllFrom(d)'
    <3>1. b \in DOMAIN log /\ d <= b
      BY <1>3, <2>1
    <3>2. CASE b = e
      <4>1. Arms(s[3], e) /\ 3 \in DOMAIN s
        BY <1>8, <2>3, <3>2
      <4>2. \E i \in DOMAIN frames' : frames'[i] = s[3]
        BY <1>3, <4>1
      <4> QED
        BY <3>2, <4>1, <4>2
    <3>3. CASE b # e
      <4>1. \/ Ahead(b) \/ \E i \in DOMAIN frames : Arms(frames[i], b)
            \/ actions[part] = ticket[part] /\ AllFrom(d)
        BY <2>3 DEF ToldInv, Buttons
      <4>2. b <= pos => d <= pos
        BY <1>3, <2>1, <3>1
      <4> QED
        BY <1>5, <1>6, <1>7, <1>11, <2>1, <3>1, <3>3, <4>1, <4>2
    <3> QED
      BY <3>2, <3>3
  <2> QED
    BY <2>2, <2>3
<1>14. RowsTold'
  <2> SUFFICES ASSUME NEW d \in Comments
      PROVE  Ahead(d)' \/ d \in Range(rows) \/ \E i \in DOMAIN frames' : Adds(frames'[i], d)
    BY <1>3, <1>4, <1>10 DEF RowsTold, Adds
  <2>1. d \in DOMAIN log /\ log[d].what = "comment"
    BY DEF Comments
  <2>2. CASE d = e
    <3>1. PICK j \in DOMAIN s : Adds(s[j], e)
      BY <1>8, <2>1, <2>2
    <3>2. \E i \in DOMAIN frames' : frames'[i] = s[j]
      BY <1>3
    <3> QED
      BY <2>2, <3>1, <3>2
  <2>3. CASE d # e
    <3>1. Ahead(d) \/ d \in Range(rows) \/ \E i \in DOMAIN frames : Adds(frames[i], d)
      BY DEF ToldInv, RowsTold
    <3> QED
      BY <1>5, <1>11, <2>1, <2>3, <3>1
  <2> QED
    BY <2>2, <2>3
<1> QED
  BY <1>12, <1>13, <1>14 DEF ToldInv

\* The page takes what its first frame says.
LEMMA ToldReceive ==
  ASSUME PageInv, ToldInv, Receive, shown \in [Parts -> Nat]
  PROVE  ToldInv'
<1>1. PICK h : h = frames[1]
  OBVIOUS
<1>2. /\ frames # <<>> /\ Applied(Head(frames).patch) /\ frames' = Tail(frames)
      /\ UNCHANGED <<ticket, log, pos, missed>>
  BY DEF Receive, store
<1>3. /\ 1 \in DOMAIN frames /\ Head(frames) = h /\ DOMAIN frames \subseteq Nat
      /\ \A i \in DOMAIN frames' : i + 1 \in DOMAIN frames /\ frames'[i] = frames[i + 1]
      /\ \A i \in DOMAIN frames : i = 1 \/ (i - 1 \in DOMAIN frames' /\ frames'[i - 1] = frames[i])
      /\ \A i \in DOMAIN frames' : i \in Nat /\ i >= 1
  BY <1>1, <1>2, Shortened DEF PageInv, Framing
<1>4. \A i \in DOMAIN frames' : \E j \in DOMAIN frames : frames'[i] = frames[j] /\ 1 < j
  BY <1>3
<1>5. Framed(h) /\ \A j \in DOMAIN frames : 1 < j => Before(h, frames[j])
  BY <1>1, <1>3 DEF PageInv, Framing
<1>6. /\ Len(log) \in Nat /\ DOMAIN log = 1 .. Len(log) /\ pos \in 0 .. Len(log)
      /\ h.of \in 1 .. pos /\ h.of \in DOMAIN log
  BY <1>5, LenProperties DEF PageInv, Logged, Streamed, Framed
<1>7. \A j \in DOMAIN frames : frames[j].of \in Nat
  BY <1>6 DEF PageInv, Framing, Framed
<1>8. \A i \in DOMAIN frames' : frames'[i].of >= h.of /\ frames'[i].of \in Nat
  BY <1>4, <1>5, <1>6, <1>7 DEF Before
<1>9. \A d \in DOMAIN log : AllFrom(d) \/ d = h.of \/ d < h.of => AllFrom(d)'
  <2>1. ASSUME NEW d \in DOMAIN log, AllFrom(d) PROVE AllFrom(d)'
    BY <1>4, <2>1 DEF AllFrom
  <2>2. ASSUME NEW d \in DOMAIN log, d = h.of \/ d < h.of PROVE AllFrom(d)'
    BY <1>6, <1>8, <2>2 DEF AllFrom
  <2> QED
    BY <2>1, <2>2
<1>10. (\A part : LastOf(part)' = LastOf(part)) /\ Comments' = Comments
       /\ \A d : Ahead(d)' <=> Ahead(d)
  BY <1>2 DEF LastOf, Comments, Ahead
<1>11. /\ \A g, d : Shows(g, d)' <=> Shows(g, d)
       /\ \A g, d : Arms(g, d)' <=> Arms(g, d)
       /\ \A g, d : Adds(g, d)' <=> Adds(g, d)
  BY DEF Shows, Arms, Adds
<1>12. /\ \A d : (\E i \in DOMAIN frames : Shows(frames[i], d)) =>
                   Shows(h, d) \/ \E i \in DOMAIN frames' : Shows(frames'[i], d)
       /\ \A d : (\E i \in DOMAIN frames : Arms(frames[i], d)) =>
                   Arms(h, d) \/ \E i \in DOMAIN frames' : Arms(frames'[i], d)
       /\ \A d : (\E i \in DOMAIN frames : Adds(frames[i], d)) =>
                   Adds(h, d) \/ \E i \in DOMAIN frames' : Adds(frames'[i], d)
  BY <1>1, <1>3
<1>13. /\ shown' = IF h.patch.does = "badge"
                   THEN [shown EXCEPT ![h.patch.part] = h.patch.is] ELSE shown
       /\ actions' = IF h.patch.does = "actions" THEN h.patch.is ELSE actions
       /\ rows' = IF h.patch.does = "append" THEN Append(rows, h.patch.row) ELSE rows
  BY <1>2, <1>3 DEF Applied
<1>14. Badges'
  <2> SUFFICES ASSUME NEW part \in Parts, NEW d \in LastOf(part)
      PROVE  /\ \A i \in DOMAIN frames' : Shows(frames'[i], d) => frames'[i].patch.is = ticket[part]
             /\ \/ Ahead(d) \/ \E i \in DOMAIN frames' : Shows(frames'[i], d)
                \/ shown'[part] = ticket[part] /\ AllFrom(d)'
    BY <1>2, <1>10, <1>11 DEF Badges, Shows
  <2>1. d \in DOMAIN log /\ log[d].what = part /\ \A b \in d + 1 .. Len(log) : log[b].what # part
    BY DEF LastOf
  <2>2. \A i \in DOMAIN frames' : Shows(frames'[i], d) => frames'[i].patch.is = ticket[part]
    BY <1>4 DEF ToldInv, Badges
  <2>3. Shows(h, d) => h.patch.is = ticket[part]
    BY <1>1, <1>3 DEF ToldInv, Badges
  <2>4. ASSUME Shows(h, d) PROVE shown'[part] = ticket[part] /\ AllFrom(d)'
    <3>1. h.of = d /\ h.patch.does = "badge" /\ h.patch.part = part
      BY <1>5, <2>1, <2>4 DEF Shows, Framed
    <3>2. shown'[part] = h.patch.is
      BY <1>13, <3>1
    <3> QED
      BY <1>9, <2>1, <2>3, <2>4, <3>1, <3>2
  <2>5. ASSUME shown[part] = ticket[part], AllFrom(d) PROVE shown'[part] = ticket[part] /\ AllFrom(d)'
    <3>1. AllFrom(d)'
      BY <1>9, <2>1, <2>5
    <3>2. CASE h.patch.does = "badge" /\ h.patch.part = part
      <4>1. log[h.of].what = part /\ h.of >= d
        BY <1>1, <1>3, <1>5, <2>5, <3>2 DEF Framed, AllFrom
      <4>2. d \in 1 .. Len(log) /\ h.of \in 1 .. Len(log)
        BY <1>6, <2>1
      <4>3. ~ (h.of \in d + 1 .. Len(log))
        BY <2>1, <4>1
      <4>4. h.of = d
        BY <1>6, <4>1, <4>2, <4>3
      <4> QED
        BY <2>4, <3>2, <4>4 DEF Shows
    <3>3. CASE ~ (h.patch.does = "badge" /\ h.patch.part = part)
      <4>1. shown'[part] = shown[part]
        BY <1>13, <3>3
      <4> QED
        BY <2>5, <3>1, <4>1
    <3> QED
      BY <3>2, <3>3
  <2>6. \/ Ahead(d) \/ \E i \in DOMAIN frames : Shows(frames[i], d)
        \/ shown[part] = ticket[part] /\ AllFrom(d)
    BY DEF ToldInv, Badges
  <2> QED
    BY <1>12, <2>2, <2>4, <2>5, <2>6
<1>15. Buttons'
  <2> SUFFICES ASSUME NEW part \in Parts, NEW d \in LastOf(part)
      PROVE  /\ \A i \in DOMAIN frames' :
                  frames'[i].patch.does = "actions" /\ frames'[i].of >= d =>
                    frames'[i].patch.is[part] = ticket[part]
             /\ \A b \in d .. Len(log) : log[b].what # "comment" =>
                  \/ Ahead(b) \/ \E i \in DOMAIN frames' : Arms(frames'[i], b)
                  \/ actions'[part] = ticket[part] /\ AllFrom(d)'
    BY <1>2, <1>10, <1>11 DEF Buttons, Arms
  <2>1. d \in DOMAIN log /\ d \in Nat
    BY <1>6 DEF LastOf
  <2>2. \A i \in DOMAIN frames' : frames'[i].patch.does = "actions" /\ frames'[i].of >= d =>
                                    frames'[i].patch.is[part] = ticket[part]
    BY <1>4 DEF ToldInv, Buttons
  <2>3. h.patch.does = "actions" /\ h.of >= d => h.patch.is[part] = ticket[part]
    BY <1>1, <1>3 DEF ToldInv, Buttons
  <2>4. ASSUME h.patch.does = "actions", h.of >= d
        PROVE  actions'[part] = ticket[part] /\ AllFrom(d)'
    <3>1. d = h.of \/ d < h.of
      BY <1>6, <2>1, <2>4
    <3> QED
      BY <1>9, <1>13, <2>1, <2>3, <2>4, <3>1
  <2>5. ASSUME actions[part] = ticket[part], AllFrom(d)
        PROVE  actions'[part] = ticket[part] /\ AllFrom(d)'
    <3>1. AllFrom(d)' /\ h.of >= d
      BY <1>1, <1>3, <1>9, <2>1, <2>5 DEF AllFrom
    <3>2. CASE h.patch.does = "actions"
      BY <2>4, <3>1, <3>2
    <3>3. CASE h.patch.does # "actions"
      BY <1>13, <2>5, <3>1, <3>3
    <3> QED
      BY <3>2, <3>3
  <2>6. ASSUME NEW b \in d .. Len(log), log[b].what # "comment"
        PROVE  \/ Ahead(b) \/ \E i \in DOMAIN frames' : Arms(frames'[i], b)
               \/ actions'[part] = ticket[part] /\ AllFrom(d)'
    <3>1. \/ Ahead(b) \/ \E i \in DOMAIN frames : Arms(frames[i], b)
          \/ actions[part] = ticket[part] /\ AllFrom(d)
      BY <2>6 DEF ToldInv, Buttons
    <3>2. Arms(h, b) => h.patch.does = "actions" /\ h.of >= d
      BY <2>1, <2>6 DEF Arms
    <3> QED
      BY <1>12, <2>4, <2>5, <3>1, <3>2
  <2> QED
    BY <2>2, <2>6
<1>16. RowsTold'
  <2> SUFFICES ASSUME NEW d \in Comments
      PROVE  Ahead(d) \/ d \in Range(rows') \/ \E i \in DOMAIN frames' : Adds(frames'[i], d)
    BY <1>10, <1>11 DEF RowsTold, Adds
  <2>1. Ahead(d) \/ d \in Range(rows) \/ \E i \in DOMAIN frames : Adds(frames[i], d)
    BY DEF ToldInv, RowsTold
  <2>2. rows \in Seq(Nat)
    BY DEF PageInv, Threaded
  <2>3. CASE h.patch.does = "append"
    <3>1. rows' = Append(rows, h.of) /\ h.of \in Nat
      BY <1>5, <1>6, <1>13, <2>3 DEF Framed
    <3>2. Range(rows') = Range(rows) \cup {h.of}
      <4>1. /\ Len(rows) \in Nat /\ DOMAIN rows = 1 .. Len(rows)
            /\ DOMAIN rows' = 1 .. Len(rows) + 1 /\ rows'[Len(rows) + 1] = h.of
            /\ \A i \in 1 .. Len(rows) : rows'[i] = rows[i]
        BY <2>2, <3>1, AppendProperties, LenProperties
      <4>2. \A i \in 1 .. Len(rows) + 1 : i \in 1 .. Len(rows) \/ i = Len(rows) + 1
        BY <4>1
      <4>3. \A i \in 1 .. Len(rows) : i \in 1 .. Len(rows) + 1
        BY <4>1
      <4>4. Len(rows) + 1 \in 1 .. Len(rows) + 1
        BY <4>1
      <4> QED
        BY <4>1, <4>2, <4>3, <4>4 DEF Range
    <3>3. Adds(h, d) => d = h.of
      BY DEF Adds
    <3> QED
      BY <1>12, <2>1, <3>2, <3>3
  <2>4. CASE h.patch.does # "append"
    <3>1. rows' = rows /\ ~ Adds(h, d)
      BY <1>13, <2>4 DEF Adds
    <3> QED
      BY <1>12, <2>1, <3>1
  <2> QED
    BY <2>3, <2>4
<1> QED
  BY <1>14, <1>15, <1>16 DEF ToldInv

-----------------------------------------------------------------------------
(* What the page counts.                                                   *)

Counts == 0 .. Len(log)
Counted ==
  /\ ticket \in [Parts -> Counts] /\ shown \in [Parts -> Counts] /\ actions \in [Parts -> Counts]
  /\ \A i \in DOMAIN frames :
       /\ frames[i].patch.does = "badge" => frames[i].patch.is \in Counts
       /\ frames[i].patch.does = "actions" => frames[i].patch.is \in [Parts -> Counts]
       /\ frames[i].id \in Counts
  /\ lastId \in Counts /\ Len(tries) <= MaxTries /\ cuts \in 0 .. MaxCuts
  /\ missed \subseteq DOMAIN log

LEMMA CountedSame ==
  ASSUME Counted, UNCHANGED <<ticket, log, shown, actions, frames, lastId, missed>>,
         Len(tries') <= MaxTries, cuts' \in 0 .. MaxCuts
  PROVE  Counted'
BY DEF Counted, Counts

LEMMA CountedNone ==
  ASSUME ticket = Untouched, log = <<>>, shown = Untouched, actions = Untouched,
         frames = <<>>, lastId = 0, tries = <<>>, cuts = 0, missed = {}
  PROVE  Counted
<1>1. Len(log) = 0 /\ Len(tries) = 0 /\ DOMAIN frames = {}
  BY EmptySeq, LenProperties
<1>2. Untouched \in [Parts -> Counts]
  BY <1>1 DEF Untouched, Counts
<1>3. 0 <= MaxTries /\ 0 \in 0 .. MaxCuts
  BY PageBoundsAssumption
<1> QED
  BY <1>1, <1>2, <1>3 DEF Counted, Counts

LEMMA CountedPublish ==
  ASSUME PageInv, Counted, NEW c, NEW w \in Published, Publish(c, w)
  PROVE  Counted'
<1>1. /\ Len(log) \in Nat /\ Len(log') = Len(log) + 1 /\ DOMAIN log \subseteq DOMAIN log'
  <2> DEFINE t == IF Submits(c) THEN Len(tries) ELSE 0
  <2>1. log' = Append(log, [what |-> w, try |-> t])
    BY DEF Publish
  <2>2. t \in Nat
    BY LenProperties DEF PageInv, Tried
  <2> HIDE DEF t
  <2>3. [what |-> w, try |-> t] \in [what : Published, try : Nat]
        /\ log \in Seq([what : Published, try : Nat])
    BY <2>2 DEF PageInv, Logged
  <2> QED
    BY <2>1, <2>3, AppendProperties, LenProperties
<1>2. Counts \subseteq Counts' /\ \A x \in Counts : x + 1 \in Counts'
  BY <1>1 DEF Counts
<1>3. ticket' \in [Parts -> Counts']
  <2>1. CASE w \in Parts
    BY <1>2, <2>1 DEF Publish, Counted
  <2>2. CASE w \notin Parts
    BY <1>2, <2>2 DEF Publish, Counted
  <2> QED
    BY <2>1, <2>2
<1>4. UNCHANGED <<shown, actions, frames, lastId, missed, tries, cuts>>
  BY DEF Publish, view, form, stream
<1>5. [Parts -> Counts] \subseteq [Parts -> Counts']
  BY <1>2
<1> HIDE DEF Counts
<1> QED
  BY <1>1, <1>2, <1>3, <1>4, <1>5 DEF Counted

LEMMA CountedAttach ==
  ASSUME PageInv, Numbered, Counted, Subscribe \/ Resume
  PROVE  Counted'
<1>1. Attach
  BY DEF Subscribe, Resume
<1>2. /\ pos' \in pos .. Len(log) /\ pos \in Nat /\ DOMAIN log = 1 .. Len(log)
      /\ missed' = missed \cup {e \in pos + 1 .. pos' : e \notin Comments \cap Range(rows)}
      /\ UNCHANGED <<ticket, log, shown, actions, frames, lastId, tries, cuts>>
  BY <1>1, Attached, LenProperties DEF PageInv, Logged, Streamed
<1>3. missed' \subseteq DOMAIN log'
  BY <1>2 DEF Counted
<1> QED
  BY <1>2, <1>3 DEF Counted, Counts

LEMMA CountedDropped ==
  ASSUME PageInv, Counted, Dropped
  PROVE  Counted'
<1>1. /\ cuts < MaxCuts /\ cuts' = cuts + 1 /\ frames' = <<>>
      /\ missed' = IF Begun THEN missed \cup {Head(frames).of} ELSE missed
      /\ UNCHANGED <<ticket, log, shown, actions, lastId, tries>>
  BY DEF Dropped, store, view, form
<1>2. cuts' \in 0 .. MaxCuts
  BY <1>1, PageBoundsAssumption DEF Counted
<1>3. Begun => Head(frames).of \in DOMAIN log
  <2> SUFFICES ASSUME frames # <<>> PROVE Head(frames).of \in DOMAIN log
    BY DEF Begun
  <2>1. 1 \in DOMAIN frames /\ Head(frames) = frames[1]
    BY Shortened DEF PageInv, Framing
  <2>2. Framed(frames[1])
    BY <2>1 DEF PageInv, Framing
  <2> QED
    BY <2>1, <2>2, LenProperties DEF PageInv, Framed, Logged, Streamed
<1>4. DOMAIN frames' = {}
  BY <1>1
<1> QED
  BY <1>1, <1>2, <1>3, <1>4 DEF Counted, Counts

LEMMA CountedDeliver ==
  ASSUME PageInv, Counted, Deliver
  PROVE  Counted'
<1>1. PICK e : e = pos + 1
  OBVIOUS
<1>2. PICK s : s = Stamped(e)
  OBVIOUS
<1>3. /\ Frames(s, e) /\ e \in DOMAIN log /\ e \in Nat
      /\ DOMAIN log = 1 .. Len(log) /\ Len(log) \in Nat /\ boot \in Nat /\ boot < e
      /\ \A i \in DOMAIN frames' :
           \/ i \in DOMAIN frames /\ frames'[i] = frames[i]
           \/ \E j \in DOMAIN s : frames'[i] = s[j]
      /\ UNCHANGED <<ticket, log, shown, actions, rows, tries, missed, lastId, cuts>>
  BY <1>1, <1>2, Delivered
<1>4. \A k : /\ Signal.does = "signal" /\ Removal(k).does = "remove" /\ Row(k).does = "append"
             /\ Badge(k).does = "badge" /\ Badge(k).is = ticket[k]
             /\ PageActions.does = "actions" /\ PageActions.is = ticket
  BY DEF Signal, Removal, Row, Badge, PageActions
<1>5. log[e].what \in Published
  <2>1. log \in Seq([what : Published, try : Nat])
    BY DEF PageInv, Logged
  <2>2. log[e] \in [what : Published, try : Nat]
    BY <1>3, <2>1, ElementOfSeq
  <2> QED
    BY <2>2
<1>6. Id(e) \in Counts
  BY <1>3 DEF Id, Counts
<1>7. ASSUME NEW j \in DOMAIN s
      PROVE  /\ s[j].patch.does = "badge" => s[j].patch.is \in Counts
             /\ s[j].patch.does = "actions" => s[j].patch.is \in [Parts -> Counts]
             /\ s[j].id \in Counts
  <2>1. s[j].id = Id(e) /\ j \in 1 .. Len(s) /\ Len(s) \in Nat
    BY <1>3 DEF Frames
  <2>2. \/ s[j].patch = Signal \/ (\E k : s[j].patch = Removal(k)) \/ s[j].patch = Row(e)
        \/ (log[e].what # "comment" /\ s[j].patch = Badge(log[e].what)) \/ s[j].patch = PageActions
    <3>1. CASE Len(s) = 2
      BY <1>3, <2>1, <3>1 DEF Frames
    <3>2. CASE Len(s) = 3
      <4>1. j = 1 \/ j = 2 \/ j = 3
        BY <2>1, <3>2
      <4> QED
        BY <1>3, <3>2, <4>1 DEF Frames
    <3> QED
      BY <1>3, <3>1, <3>2 DEF Frames
  <2>3. log[e].what # "comment" => ticket[log[e].what] \in Counts
    BY <1>5 DEF Published, Counted
  <2>4. ticket \in [Parts -> Counts]
    BY DEF Counted
  <2> QED
    BY <1>4, <1>6, <2>1, <2>2, <2>3, <2>4
<1>8. Counts' = Counts
  BY <1>3 DEF Counts
<1> HIDE DEF Counts
<1>9. ASSUME NEW i \in DOMAIN frames'
      PROVE  /\ frames'[i].patch.does = "badge" => frames'[i].patch.is \in Counts
             /\ frames'[i].patch.does = "actions" => frames'[i].patch.is \in [Parts -> Counts]
             /\ frames'[i].id \in Counts
  BY <1>3, <1>7 DEF Counted
<1> QED
  BY <1>3, <1>8, <1>9 DEF Counted

LEMMA CountedReceive ==
  ASSUME PageInv, Counted, Receive
  PROVE  Counted'
<1>1. PICK h : h = frames[1]
  OBVIOUS
<1>2. /\ frames # <<>> /\ Applied(Head(frames).patch) /\ frames' = Tail(frames)
      /\ lastId' = Head(frames).id
      /\ UNCHANGED <<ticket, log, tries, cuts, missed>>
  BY DEF Receive, store
<1>3. /\ 1 \in DOMAIN frames /\ Head(frames) = h
      /\ \A i \in DOMAIN frames' : \E j \in DOMAIN frames : frames'[i] = frames[j]
  BY <1>1, <1>2, Shortened DEF PageInv, Framing
<1>4. Framed(h)
  BY <1>1, <1>3 DEF PageInv, Framing
<1>5. /\ h.patch.does = "badge" => h.patch.is \in Counts
      /\ h.patch.does = "actions" => h.patch.is \in [Parts -> Counts]
      /\ h.id \in Counts
  BY <1>1, <1>3 DEF Counted
<1>6. /\ shown' = IF h.patch.does = "badge"
                  THEN [shown EXCEPT ![h.patch.part] = h.patch.is] ELSE shown
      /\ actions' = IF h.patch.does = "actions" THEN h.patch.is ELSE actions
  BY <1>2, <1>3 DEF Applied
<1>7. Counts' = Counts
  BY <1>2 DEF Counts
<1> HIDE DEF Counts
<1>8. shown' \in [Parts -> Counts] /\ actions' \in [Parts -> Counts] /\ lastId' \in Counts
  BY <1>2, <1>3, <1>5, <1>6 DEF Counted
<1>9. ASSUME NEW i \in DOMAIN frames'
      PROVE  /\ frames'[i].patch.does = "badge" => frames'[i].patch.is \in Counts
             /\ frames'[i].patch.does = "actions" => frames'[i].patch.is \in [Parts -> Counts]
             /\ frames'[i].id \in Counts
  BY <1>3 DEF Counted
<1> QED
  BY <1>2, <1>7, <1>8, <1>9 DEF Counted

-----------------------------------------------------------------------------
(* The page is up to date.                                                 *)

TellInv == Counted /\ ToldInv

LEMMA TellSame ==
  ASSUME TellInv, UNCHANGED <<ticket, log, shown, actions, rows, pos, frames, lastId, missed, cuts>>,
         Len(tries') <= MaxTries
  PROVE  TellInv'
<1>1. cuts' \in 0 .. MaxCuts
  BY DEF TellInv, Counted
<1>2. Counted'
  BY <1>1, CountedSame DEF TellInv
<1>3. ToldInv'
  BY ToldSame DEF TellInv, told
<1> QED
  BY <1>2, <1>3 DEF TellInv

LEMMA TellQuiet ==
  ASSUME TellInv, UNCHANGED <<store, view, stream>>, Len(tries') <= MaxTries
  PROVE  TellInv'
<1>1. UNCHANGED <<ticket, log, shown, actions, rows, pos, frames, lastId, missed, cuts>>
  BY DEF store, view, stream
<1> QED
  BY <1>1, TellSame

LEMMA TellSeen ==
  ASSUME TellInv, UNCHANGED Seen
  PROVE  TellInv'
<1>1. UNCHANGED <<store, view, stream>> /\ tries' = tries
  BY DEF Seen, form
<1> QED
  BY <1>1, TellQuiet DEF TellInv, Counted

\* A page that is not there yet, or no more.
NoPage ==
  /\ ticket = Untouched /\ log = <<>> /\ shown = Untouched /\ actions = Untouched
  /\ frames = <<>> /\ lastId = 0 /\ tries = <<>> /\ cuts = 0 /\ missed = {}

LEMMA TellNothing == NoPage => TellInv
BY CountedNone, ToldNothing DEF NoPage, TellInv

LEMMA TellLeave ==
  ASSUME Leave
  PROVE  TellInv'
<1>1. NoPage'
  BY DEF Leave, NoPage
<1> QED
  BY <1>1, TellNothing, PTL

LEMMA TellDo ==
  ASSUME CallsInv, PageInv, TellInv, NEW c \in Client, DoStretch(c)
  PROVE  TellInv'
<1>1. Do(c) /\ Busy(c) /\ call[c].at = "work"
  <2>1. Do(c)
    BY DEF DoStretch
  <2>2. Busy(c) /\ Works(c)
    BY <2>1, AfterDo
  <2> QED
    BY <2>1, <2>2 DEF Works
<1>2. CASE Opens(c) /\ call[c].i = 1
  BY <1>2, TellQuiet DEF DoStretch, ReadTicket, TellInv, Counted, form
<1>3. CASE Opens(c) /\ call[c].i # 1 /\ call[c].i = Len(call[c].doing.work)
  <2>1. ReadThread
    BY <1>3 DEF DoStretch
  <2>2. page # "open"
    BY <1>1, <1>3 DEF PageInv, Rendering, Opens, DetailCall, Up
  <2>3. UNCHANGED <<ticket, log, shown, actions, pos, frames, missed, lastId, cuts, tries>>
    BY <2>1 DEF ReadThread, store, form, stream
  <2>4. ToldInv'
    BY <2>2, <2>3, ToldThread DEF TellInv
  <2>5. Counted'
    BY <2>3, CountedSame DEF TellInv, Counted
  <2> QED
    BY <2>4, <2>5 DEF TellInv
<1>4. CASE ~ (Opens(c) /\ call[c].i = 1) /\ ~ (Opens(c) /\ call[c].i = Len(call[c].doing.work))
           /\ Up /\ Part(c).does \in Published
  <2>1. Publish(c, Part(c).does)
    BY <1>4 DEF DoStretch
  <2>2. PICK w \in Published : w = Part(c).does
    BY <1>4
  <2>3. Publish(c, w)
    BY <2>1, <2>2
  <2> QED
    BY <2>3, ToldPublish, CountedPublish DEF TellInv
<1>5. CASE ~ (Opens(c) /\ call[c].i = 1) /\ ~ (Opens(c) /\ call[c].i = Len(call[c].doing.work))
           /\ ~ (Up /\ Part(c).does \in Published)
  BY <1>5, TellSeen DEF DoStretch
<1> QED
  BY <1>2, <1>3, <1>4, <1>5

LEMMA TellSend ==
  ASSUME PageInv, TellInv, NEW c \in Browser, Submit(c) \/ Retry(c)
  PROVE  TellInv'
<1>1. PICK text : Send(c, text)
  BY DEF Submit, Retry
<1>2. UNCHANGED <<store, view, stream>>
  BY <1>1 DEF Send
<1>3. Len(tries') <= MaxTries
  <2>1. Len(tries) < MaxTries /\ tries' = Append(tries, text) /\ tries \in Seq(Nat)
    BY <1>1 DEF Send, PageInv, Tried
  <2>2. Len(tries) \in Nat /\ MaxTries \in Nat
    BY <2>1, LenProperties, PageBoundsAssumption
  <2>3. tries \in Seq(Nat \cup {text})
    BY <2>1, SeqMonotonic
  <2>4. Len(tries') = Len(tries) + 1
    BY <2>1, <2>3, AppendProperties
  <2> QED
    BY <2>1, <2>2, <2>4
<1> QED
  BY <1>2, <1>3, TellQuiet

LEMMA TellNext ==
  ASSUME CallsInv, PageInv, Numbered, TellInv, [PagesNext]_pagesVars
  PROVE  TellInv'
<1>0. Len(tries) <= MaxTries
  BY DEF TellInv, Counted
<1>1. CASE UNCHANGED pagesVars
  BY <1>1, TellSeen DEF pagesVars, Seen
<1>2. ASSUME NEW c \in Client, ArriveApart(c) \/ ArriveMeanwhile(c) \/ Meanwhile(c)
      PROVE  TellInv'
  BY <1>2, TellSeen DEF ArriveApart, ArriveMeanwhile, Meanwhile
<1>3. ASSUME NEW c \in Client, DoStretch(c) PROVE TellInv'
  BY <1>3, TellDo
<1>4. ASSUME NEW c \in Client, FailStretch(c) PROVE TellInv'
  BY <1>4, TellLeave, TellSeen DEF FailStretch
<1>5. ASSUME NEW c \in Client, FinishCall(c) PROVE TellInv'
  BY <1>0, <1>5, TellQuiet DEF FinishCall, form
<1>6. ASSUME NEW c \in Browser, Submit(c) \/ Retry(c) PROVE TellInv'
  BY <1>6, TellSend
<1>7. ASSUME NEW c \in Browser, Hear(c) \/ AnswerLost(c) PROVE TellInv'
  BY <1>0, <1>7, TellQuiet DEF Hear, AnswerLost
<1>8. CASE Subscribe \/ Resume
  BY <1>8, ToldAttach, CountedAttach DEF TellInv
<1>9. CASE Deliver
  BY <1>9, ToldDeliver, CountedDeliver DEF TellInv
<1>10. CASE Receive
  <2>1. Len(log) \in Nat
    BY LenProperties DEF PageInv, Logged
  <2>2. Counts \subseteq Nat /\ shown \in [Parts -> Counts]
    BY <2>1 DEF Counts, TellInv, Counted
  <2>3. shown \in [Parts -> Nat]
    BY <2>2
  <2> QED
    BY <1>10, <2>3, ToldReceive, CountedReceive DEF TellInv
<1>11. CASE Cut \/ Restart
  <2>1. Dropped
    BY <1>11 DEF Cut, Restart
  <2> QED
    BY <2>1, ToldDropped, CountedDropped DEF TellInv
<1>12. CASE CloseTab
  BY <1>12, TellLeave DEF CloseTab
<1> QED
  BY <1>1, <1>2, <1>3, <1>4, <1>5, <1>6, <1>7, <1>8, <1>9, <1>10, <1>11, <1>12
  DEF PagesNext

LEMMA TellInit == PagesInit => TellInv
BY TellNothing DEF PagesInit, NoPage

LEMMA PageIsTyped ==
  ASSUME PageInv, TellInv
  PROVE  PagesTypeOK
<1>1. /\ DOMAIN log = 1 .. Len(log) /\ Len(log) \in Nat
      /\ Len(tries) \in Nat
  BY LenProperties DEF PageInv, Logged, Tried
<1>2. \A e \in DOMAIN log : log[e].what \in Published /\ log[e].try \in 0 .. Len(tries)
  <2> SUFFICES ASSUME NEW e \in DOMAIN log
      PROVE  log[e].what \in Published /\ log[e].try \in 0 .. Len(tries)
    OBVIOUS
  <2>1. log \in Seq([what : Published, try : Nat]) /\ log[e].try <= Len(tries)
    BY DEF PageInv, Logged, LastTry
  <2>2. log[e] \in [what : Published, try : Nat]
    BY <1>1, <2>1, ElementOfSeq
  <2> QED
    BY <1>1, <2>1, <2>2
<1>3. /\ sending \cup failed \cup lost \subseteq DOMAIN tries
      /\ link \in BOOLEAN /\ (link => page = "open")
      /\ {boot, pos} \subseteq 0 .. Len(log)
      /\ page \in {"closed", "reading", "rendered", "open"}
      /\ Range(rows) \subseteq DOMAIN log
  BY DEF PageInv, Tried, Streamed, Threaded
<1> QED
  BY <1>2, <1>3 DEF PagesTypeOK, TellInv, Counted, Counts

LEMMA ToldIsShown ==
  ASSUME PageInv, ThreadInv, TellInv
  PROVE  UpToDate
<1>1. PagesTypeOK
  BY PageIsTyped
<1>2. ASSUME Settled
      PROVE  /\ \A part \in Parts : \A e \in LastOf(part) :
                  /\ Told(e) => shown[part] = ticket[part]
                  /\ (\E d \in e .. Len(log) : log[d].what # "comment" /\ Told(d)) =>
                       actions[part] = ticket[part]
             /\ \A e \in Comments : Told(e) => e \in Range(rows)
  <2>1. DOMAIN frames = {} /\ pos = Len(log)
    BY <1>2 DEF Settled
  <2>2. Len(log) \in Nat /\ DOMAIN log = 1 .. Len(log)
    BY LenProperties DEF PageInv, Logged
  <2>3. \A e \in DOMAIN log : Told(e) => ~ Ahead(e)
    BY <2>1, <2>2 DEF Told, Ahead
  <2>4. ASSUME NEW part \in Parts, NEW e \in LastOf(part), Told(e)
        PROVE  shown[part] = ticket[part]
    BY <2>1, <2>3, <2>4 DEF TellInv, ToldInv, Badges, LastOf
  <2>5. ASSUME NEW part \in Parts, NEW e \in LastOf(part),
               NEW d \in e .. Len(log), log[d].what # "comment", Told(d)
        PROVE  actions[part] = ticket[part]
    <3>1. d \in DOMAIN log
      BY <2>2 DEF LastOf
    <3> QED
      BY <2>1, <2>3, <2>5, <3>1 DEF TellInv, ToldInv, Buttons
  <2>6. ASSUME NEW e \in Comments, Told(e) PROVE e \in Range(rows)
    BY <2>1, <2>3, <2>6 DEF TellInv, ToldInv, RowsTold, Comments
  <2> QED
    BY <2>4, <2>5, <2>6
<1> QED
  BY <1>1, <1>2 DEF UpToDate, ThreadInv, SystemRows

\* A page whose stream has nothing more to say shows the ticket as it is, badges
\* and buttons, and every comment that was written, but for what was published
\* before its stream was there, what a stream was cut in the middle of, and what
\* a restarted server numbers as heard: however deliveries, cuts, restarts and
\* calls fall.  Of the system's comments it has those the thread was read with.
THEOREM PageIsUpToDate == PagesSpec => []UpToDate
<1>1. PagesInit => PageInv /\ ThreadInv /\ TellInv
  BY PageInvInit, ThreadInvInit, TellInit
<1>2. CallsInv /\ PageInv /\ ThreadInv /\ TellInv /\ [PagesNext]_pagesVars => PageInv' /\ ThreadInv' /\ TellInv'
  BY PageInvNext, ThreadInvNext, TellNext DEF ThreadInv
<1>3. PageInv /\ ThreadInv /\ TellInv => UpToDate
  BY ToldIsShown
<1> QED
  BY <1>1, <1>2, <1>3, CallsAreSane, PagesMakeCalls, PTL DEF PagesSpec
=============================================================================
