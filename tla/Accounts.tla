------------------------------ MODULE Accounts ------------------------------
(***************************************************************************)
(* Who may do what: the user, membership and invitation registries of      *)
(* internal/store and the requests that change them (internal/web, the     *)
(* services of internal/svc/invitations.go, and the grant-owner command):  *)
(*   - an OAuth callback finds or creates the user and, on the first login *)
(*     or for the configured identity, makes it the owner of everything;   *)
(*   - an owner changes or removes other members, invites and cancels;     *)
(*   - a user accepts an invitation by its token.                          *)
(*                                                                         *)
(* The three registries live in one directory and share its flock.  A      *)
(* locked section that reads and writes one file is one step here; finding *)
(* a user and writing it are two, with the lock held between them.         *)
(***************************************************************************)
EXTENDS Naturals, FiniteSets

CONSTANTS
  Subject,  \* identities at the OAuth providers
  Project,
  Invite,   \* invitations, each with its id and its token
  Req,      \* requests in flight
  MaxUser,  \* bound: user ids are 1..MaxUser, given out in order
  None

User == 1..MaxUser

ASSUME Constants ==
  /\ MaxUser \in Nat
  /\ \A u \in User : u # None
  /\ \A s \in Subject : s # None
  /\ \A c \in Req : c # None

\* roleRank; 0 stands for no membership.
Viewer == 1
Owner == 3
Role == 1..3

VARIABLES
  subject,  \* users/<id>.yaml: the provider subject of each user
  role,     \* memberships/<project>/<user>.yaml
  invites,  \* invitations/<project>/<id>.yaml
  lock,     \* holder of <Root>/.lock
  used,     \* invitations ever created
  cookie,   \* users that hold a signed tp_user cookie
  admin,    \* the identity TICKETS_PLEASE_BOOTSTRAP_ADMIN names
  req,      \* what each request is doing
  first,    \* users promoted because they logged in first
  joined,   \* users that accepted each invitation
  raced     \* invitations that two requests held at once, or one left behind

registry == <<subject, role, invites>>
ghost == <<first, joined, raced>>
vars == <<subject, role, invites, lock, used, cookie, admin, req,
          first, joined, raced>>

Invitation == [project : Project, role : Role, expired : BOOLEAN]

Idle == [pc |-> "idle"]

LoggingIn == [pc : {"find", "write", "walk", "promote"}, sub : Subject,
              user : User \cup {None}, todo : SUBSET Project]

\* A request of a member page, past the role guard.
Managing == [pc : {"setRole", "remove"}, actor : User, project : Project,
             target : User, role : Role]
Inviting == [pc : {"invite"}, actor : User, project : Project,
             inv : Invite, role : Role]
Cancelling == [pc : {"cancel"}, actor : User, project : Project, inv : Invite]

Accepting == [pc : {"grant", "expire", "consume"}, actor : User, inv : Invite,
              project : Project, role : Role]

Request == {Idle} \cup LoggingIn \cup Managing \cup Inviting
           \cup Cancelling \cup Accepting

TypeOK ==
  /\ subject \in [User -> Subject \cup {None}]
  /\ role \in [Project -> [User -> 0..3]]
  /\ invites \in [Invite -> Invitation \cup {None}]
  /\ lock \in Req \cup {None}
  /\ used \in SUBSET Invite
  /\ cookie \in SUBSET User
  /\ admin \in Subject \cup {None}
  /\ req \in [Req -> Request]
  /\ first \in SUBSET User
  /\ joined \in [Invite -> SUBSET User]
  /\ raced \in SUBSET Invite
-----------------------------------------------------------------------------
\* Nobody has logged in yet, or two users have and hold any roles.
Init ==
  /\ \/ /\ subject = [u \in User |-> None]
        /\ role = [p \in Project |-> [u \in User |-> 0]]
        /\ cookie = {}
        /\ admin \in Subject \cup {None}
     \/ \E s \in [1..2 -> Subject] :
          /\ s[1] # s[2]
          /\ subject = [u \in User |-> IF u <= 2 THEN s[u] ELSE None]
          /\ \E r \in [Project -> [1..2 -> 0..3]] :
               role = [p \in Project |->
                         [u \in User |-> IF u <= 2 THEN r[p][u] ELSE 0]]
          /\ cookie = {u \in User : u <= 2}
          /\ admin = None
  /\ invites = [i \in Invite |-> None]
  /\ lock = None
  /\ used = {}
  /\ req = [c \in Req |-> Idle]
  /\ first = {}
  /\ joined = [i \in Invite |-> {}]
  /\ raced = {}

Goto(c, pc) == req' = [req EXCEPT ![c].pc = pc]
Stop(c) == req' = [req EXCEPT ![c] = Idle]

\* GrantMembership, in one hold of the lock.
Grant(p, u, r) ==
  /\ lock = None
  /\ role' = [role EXCEPT ![p][u] = r]
-----------------------------------------------------------------------------
\* handleAuthCallback, once the provider has vouched for the subject.
Login(c, s) ==
  /\ req[c] = Idle
  /\ req' = [req EXCEPT ![c] =
               [pc |-> "find", sub |-> s, user |-> None, todo |-> {}]]
  /\ UNCHANGED <<registry, lock, used, cookie, admin, ghost>>

\* A fresh uuid: not the id of a user, nor one about to be written.
FreshUser(c) ==
  LET free == {u \in User : /\ subject[u] = None
                            /\ \A d \in Req \ {c} : req[d].pc = "write"
                                                     => req[d].user # u}
  IN {u \in free : \A v \in free : u <= v}

\* Mutant: the lock is taken only to write.
FindUserUnlocked(c) ==
  /\ req[c].pc = "find"
  /\ LET known == {u \in User : subject[u] = req[c].sub}
     IN \E u \in IF known # {} THEN known ELSE FreshUser(c) :
          req' = [req EXCEPT ![c].pc = "write", ![c].user = u]
  /\ UNCHANGED <<registry, lock, used, cookie, admin, ghost>>

\* upsertUser takes the lock and looks for the subject ...
FindUser(c) ==
  /\ req[c].pc = "find"
  /\ lock = None
  /\ lock' = c
  /\ LET known == {u \in User : subject[u] = req[c].sub}
     IN \E u \in IF known # {} THEN known ELSE FreshUser(c) :
          req' = [req EXCEPT ![c].pc = "write", ![c].user = u]
  /\ UNCHANGED <<registry, used, cookie, admin, ghost>>

\* ... and writes the record before it lets go.
WriteUser(c) ==
  /\ req[c].pc = "write"
  /\ subject' = [subject EXCEPT ![req[c].user] = req[c].sub]
  /\ lock' = None
  /\ Goto(c, "walk")
  /\ UNCHANGED <<role, invites, used, cookie, admin, ghost>>

\* Mutant: first is who logs in while nothing has an owner.
BootstrapOwnerless(c) ==
  /\ req[c].pc = "walk"
  /\ LET u == req[c].user
         alone == \A p \in Project, v \in User : role[p][v] # Owner
     IN /\ first' = IF admin = None /\ alone THEN first \cup {u} ELSE first
        /\ IF admin = req[c].sub \/ (admin = None /\ alone)
           THEN req' = [req EXCEPT ![c].pc = "promote", ![c].todo = Project]
           ELSE Goto(c, "promote")
  /\ UNCHANGED <<registry, lock, used, cookie, admin, joined, raced>>

\* maybeBootstrapAdmin: the configured identity, or without one the only user.
Bootstrap(c) ==
  /\ req[c].pc = "walk"
  /\ LET u == req[c].user
         alone == {v \in User : subject[v] # None} = {u}
     IN /\ first' = IF admin = None /\ alone THEN first \cup {u} ELSE first
        /\ IF admin = req[c].sub \/ (admin = None /\ alone)
           THEN req' = [req EXCEPT ![c].pc = "promote", ![c].todo = Project]
           ELSE Goto(c, "promote")
  /\ UNCHANGED <<registry, lock, used, cookie, admin, joined, raced>>

\* grantOwnerOfAllProjects; the cookie is written whatever came of it.
Promote(c) ==
  /\ req[c].pc = "promote"
  /\ IF req[c].todo = {}
     THEN /\ cookie' = cookie \cup {req[c].user}
          /\ Stop(c)
          /\ UNCHANGED role
     ELSE /\ \E p \in req[c].todo :
               /\ Grant(p, req[c].user, Owner)
               /\ req' = [req EXCEPT ![c].todo = @ \ {p}]
          /\ UNCHANGED cookie
  /\ UNCHANGED <<subject, invites, lock, used, admin, ghost>>

\* A bootstrap grant fails: it is logged, and the login goes on.
PromoteFails(c) ==
  /\ req[c].pc = "promote"
  /\ req[c].todo # {}
  /\ req' = [req EXCEPT ![c].todo = {}]
  /\ UNCHANGED <<registry, lock, used, cookie, admin, ghost>>
-----------------------------------------------------------------------------
\* requireSlugRole(RoleOwner): the membership is read once, before the handler.
Guarded(c, u, p) == req[c] = Idle /\ u \in cookie /\ role[p][u] >= Owner

\* Mutant: owners may change their own role.
MayDemoteAny(u, t, r) == TRUE

\* handleMemberRole refuses an owner who would demote herself.
MayDemote(u, t, r) == u = t => r = Owner

\* handleMemberRemove refuses an owner who would remove herself.
MayRemove(u, t) == u # t

Manage(c, u, p) ==
  /\ Guarded(c, u, p)
  /\ \/ \E t \in User, r \in Role :
          /\ subject[t] # None
          /\ MayDemote(u, t, r)
          /\ req' = [req EXCEPT ![c] = [pc |-> "setRole", actor |-> u,
                       project |-> p, target |-> t, role |-> r]]
     \/ \E t \in User :
          /\ subject[t] # None
          /\ MayRemove(u, t)
          /\ req' = [req EXCEPT ![c] = [pc |-> "remove", actor |-> u,
                       project |-> p, target |-> t, role |-> Viewer]]
     \/ \E i \in Invite \ used, r \in Role :
          req' = [req EXCEPT ![c] = [pc |-> "invite", actor |-> u,
                       project |-> p, inv |-> i, role |-> r]]
     \/ \E i \in used :
          req' = [req EXCEPT ![c] = [pc |-> "cancel", actor |-> u,
                       project |-> p, inv |-> i]]
  /\ UNCHANGED <<registry, lock, used, cookie, admin, ghost>>

\* SetMemberRole.
SetMemberRole(c) ==
  /\ req[c].pc = "setRole"
  /\ Grant(req[c].project, req[c].target, req[c].role)
  /\ Stop(c)
  /\ UNCHANGED <<subject, invites, lock, used, cookie, admin, ghost>>

\* RemoveMember.
RemoveMember(c) ==
  /\ req[c].pc = "remove"
  /\ lock = None
  /\ role' = [role EXCEPT ![req[c].project][req[c].target] = 0]
  /\ Stop(c)
  /\ UNCHANGED <<subject, invites, lock, used, cookie, admin, ghost>>

\* CreateInvitation, under a fresh id and token.
CreateInvitation(c) ==
  /\ req[c].pc = "invite"
  /\ lock = None
  /\ req[c].inv \notin used
  /\ used' = used \cup {req[c].inv}
  /\ invites' = [invites EXCEPT ![req[c].inv] =
       [project |-> req[c].project, role |-> req[c].role, expired |-> FALSE]]
  /\ Stop(c)
  /\ UNCHANGED <<subject, role, lock, cookie, admin, ghost>>

\* CancelInvitation deletes the file named by the id under the guarded project.
CancelInvitation(c) ==
  /\ req[c].pc = "cancel"
  /\ lock = None
  /\ LET i == req[c].inv
     IN invites' = IF invites[i] # None /\ invites[i].project = req[c].project
                   THEN [invites EXCEPT ![i] = None] ELSE invites
  /\ Stop(c)
  /\ UNCHANGED <<subject, role, lock, used, cookie, admin, ghost>>
-----------------------------------------------------------------------------
\* Requests other than c that have found invitation i and not consumed it.
Holders(c, i) ==
  {d \in Req \ {c} : req[d].pc \in {"grant", "consume"} /\ req[d].inv = i}

\* AcceptInvitation: FindByToken reads without the lock, then judges the age.
FindByToken(c, u, i) ==
  /\ req[c] = Idle
  /\ u \in cookie
  /\ invites[i] # None
  /\ req' = [req EXCEPT ![c] =
       [pc |-> IF invites[i].expired THEN "expire" ELSE "grant", actor |-> u,
        inv |-> i, project |-> invites[i].project, role |-> invites[i].role]]
  /\ raced' = IF Holders(c, i) # {} THEN raced \cup {i} ELSE raced
  /\ UNCHANGED <<registry, lock, used, cookie, admin, first, joined>>

\* Mutant: a member who has the role already leaves the invitation alone.
GrantInvitedOnly(c) ==
  /\ req[c].pc = "grant"
  /\ Grant(req[c].project, req[c].actor, req[c].role)
  /\ joined' = [joined EXCEPT ![req[c].inv] = @ \cup {req[c].actor}]
  /\ IF role[req[c].project][req[c].actor] = req[c].role THEN Stop(c)
     ELSE Goto(c, "consume")
  /\ UNCHANGED <<subject, invites, lock, used, cookie, admin, first, raced>>

\* The grant overwrites whatever role the user has.
GrantInvited(c) ==
  /\ req[c].pc = "grant"
  /\ Grant(req[c].project, req[c].actor, req[c].role)
  /\ joined' = [joined EXCEPT ![req[c].inv] = @ \cup {req[c].actor}]
  /\ Goto(c, "consume")
  /\ UNCHANGED <<subject, invites, lock, used, cookie, admin, first,
                 raced>>

\* DeleteInvitation; a file that is gone already is no error.
Consume(c) ==
  /\ req[c].pc \in {"consume", "expire"}
  /\ lock = None
  /\ invites' = [invites EXCEPT ![req[c].inv] = None]
  /\ Stop(c)
  /\ UNCHANGED <<subject, role, lock, used, cookie, admin, ghost>>
-----------------------------------------------------------------------------
\* The grant-owner command, on the machine itself.
GrantOwner(p, u, r) ==
  /\ subject[u] # None
  /\ Grant(p, u, r)
  /\ UNCHANGED <<subject, invites, lock, used, cookie, admin, req,
                 ghost>>

\* Seven days pass.
Expire(i) ==
  /\ invites[i] # None
  /\ invites' = [invites EXCEPT ![i].expired = TRUE]
  /\ UNCHANGED <<subject, role, lock, used, cookie, admin, req, ghost>>

\* The lock times out, a write fails or the process dies.
Fail(c) ==
  /\ req[c] # Idle
  /\ Stop(c)
  /\ lock' = IF lock = c THEN None ELSE lock
  /\ raced' = IF req[c].pc = "consume" THEN raced \cup {req[c].inv} ELSE raced
  /\ UNCHANGED <<registry, used, cookie, admin, first, joined>>

ReqStep(c) ==
  \/ \E s \in Subject : Login(c, s)
  \/ FindUser(c) \/ WriteUser(c) \/ Bootstrap(c) \/ Promote(c)
  \/ PromoteFails(c)
  \/ \E u \in User, p \in Project : Manage(c, u, p)
  \/ SetMemberRole(c) \/ RemoveMember(c)
  \/ CreateInvitation(c) \/ CancelInvitation(c)
  \/ \E u \in User, i \in Invite : FindByToken(c, u, i)
  \/ GrantInvited(c) \/ Consume(c)
  \/ Fail(c)

Next ==
  \/ \E c \in Req : ReqStep(c)
  \/ \E p \in Project, u \in User, r \in Role : GrantOwner(p, u, r)
  \/ \E i \in Invite : Expire(i)

Spec == Init /\ [][Next]_vars
-----------------------------------------------------------------------------
\* Two first logins of one identity at once make one account: the find and
\* the write of upsertUser are one hold of the lock.
OneUserPerSubject ==
  \A u, v \in User : subject[u] # None /\ subject[u] = subject[v] => u = v

\* First-login-wins makes at most one user the owner of everything, however
\* logins interleave, fail half way and are tried again.
OneFirstOwner == Cardinality(first) <= 1

\* A token lets two users in only if their requests held it at the same time,
\* or one died between its grant and the deletion of the invitation.
AcceptedOnce == \A i \in Invite : Cardinality(joined[i]) > 1 => i \in raced

Owned(p) == \E u \in User : role[p][u] = Owner

\* The step of a request whose actor has lost the role it was let in with.
Outdated(p) ==
  \E c \in Req : /\ req[c].pc \in {"setRole", "remove"}
                 /\ req[c].project = p
                 /\ role[p][req[c].actor] # Owner
                 /\ req'[c] = Idle

\* An owner takes an invitation to a lesser role.
StepsDown(p) ==
  \E c \in Req : /\ req[c].pc = "grant" /\ req'[c].pc = "consume"
                 /\ req[c].project = p

\* A project loses its last owner only by a member page whose actor was
\* demoted after the guard let it in, by an owner who accepts a lesser
\* invitation, or by the command line: never by the owners' pages one by one.
OwnerKept ==
  [][\A p \in Project :
       Owned(p) /\ ~Owned(p)'
         => Outdated(p) \/ StepsDown(p) \/ req' = req]_vars
=============================================================================
