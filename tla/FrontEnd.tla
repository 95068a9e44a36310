------------------------------ MODULE FrontEnd ------------------------------
(***************************************************************************)
(* Calls of agents, over MCP, and of people's browsers, over HTTP.  A call *)
(* is one of the tools or routes; it is carried out stretch by stretch on  *)
(* behalf of a session, which may expire at any moment.  An agent's call   *)
(* that finds its session expired registers the agent again and is         *)
(* repeated once from the start (callWithRetry); a browser gets a session  *)
(* with each POST, and a new one when the old has expired, which leaves    *)
(* the forms of the pages it shows with the old one's token.               *)
(*                                                                         *)
(* What a call does to the store in one stretch is a step here: a Commit   *)
(* that stops halfway is StageOp's matter.                                 *)
(***************************************************************************)
EXTENDS Naturals, Sequences, FiniteSets

CONSTANTS
  Agent,     \* MCP connections
  Browser    \* browsers

ASSUME ClientsAssumption == Agent \cap Browser = {}

MCP == INSTANCE Tools
Web == INSTANCE Routes

Client == Agent \cup Browser
Offered(c) == IF c \in Agent THEN MCP!RegisterAll ELSE Web!Mount

VARIABLES
  session,   \* the agent record of each client: "none", "live", "expired"
  fits,      \* browsers whose pages' forms carry the token of their session
  call       \* what each client has asked for

calls == <<session, fits, call>>

\* made counts how often each change has been made; met is what came in the
\* way (history).
NoCall == [at |-> "idle"]
Called(shape) ==
  [at |-> "checks", doing |-> shape, i |-> 1, again |-> FALSE,
   made |-> [k \in DOMAIN shape.work |-> 0], met |-> {}]

Works(c) == call[c].at = "work" /\ call[c].i <= Len(call[c].doing.work)
Part(c) == call[c].doing.work[call[c].i]

At == {"idle", "checks", "work", "renew", "ok", "error", "refused"}
CallsTyped ==
  /\ session \in [Client -> {"none", "live", "expired"}]
  /\ fits \subseteq Browser
  /\ \A c \in Client :
       /\ call[c].at \in At
       /\ call[c].at # "idle" => /\ call[c].doing \in Offered(c)
                                 /\ call[c].i \in 1..Len(call[c].doing.work) + 1

\* A browser's first page has been served.
CallsInit ==
  /\ session = [c \in Client |-> "none"]
  /\ fits = Browser
  /\ call = [c \in Client |-> NoCall]

-----------------------------------------------------------------------------
(* The session middleware: a page needs a cookie only, a form a record.    *)

Mutates(shape) == shape.way = "form"
Resolve(c, shape) ==
  IF c \in Agent THEN UNCHANGED <<session, fits>>
  ELSE /\ session' = [session EXCEPT ![c] =
            IF Mutates(shape) THEN "live" ELSE IF @ = "expired" THEN "none" ELSE @]
       /\ fits' = IF session[c] = "expired" THEN fits \ {c} ELSE fits

Arrive(c, shape) ==
  /\ call[c].at = "idle"
  /\ Resolve(c, shape)
  /\ call' = [call EXCEPT ![c] = Called(shape)]

\* A form whose token is another session's is turned away, whatever is in it.
Stale(c) == Mutates(call[c].doing) /\ c \notin fits
\* A tool that needs an agent finds none registered for its connection.
Unregistered(c) == call[c].doing.way = "retried" /\ session[c] = "none"

Ends(c, how, why) == call' = [call EXCEPT ![c].at = how, ![c].met = @ \cup why]

\* An argument, the role or the token does not do.
Refuse(c) ==
  /\ call[c].at = "checks"
  /\ \/ call[c].doing.checks # <<>> /\ Ends(c, "error", {})
     \/ c \in Browser /\ Ends(c, "error", {})
     \/ Unregistered(c) /\ Ends(c, "refused", {"unregistered"})
  /\ UNCHANGED <<session, fits>>

Begin(c) ==
  /\ call[c].at = "checks"
  /\ ~Stale(c) /\ ~Unregistered(c)
  /\ call' = [call EXCEPT ![c].at = "work"]
  /\ UNCHANGED <<session, fits>>

-----------------------------------------------------------------------------
(* The work.                                                               *)

Session(c) == Part(c).asks => session[c] = "live"
\* An idea is promoted once.
Doable(c) ==
  Part(c).does = "kind" =>
    \A k \in DOMAIN call[c].made : call[c].doing.work[k].does = "kind" => call[c].made[k] = 0

GoOn(c) == call' = [call EXCEPT ![c].i = @ + 1]
\* An error is the caller's to note, or it ends the call.
Errs(c, how) == IF Part(c).skip THEN GoOn(c) ELSE Ends(c, how, {})

Do(c) ==
  /\ Works(c) /\ Session(c) /\ Doable(c)
  /\ call' = [call EXCEPT ![c].i = @ + 1, ![c].made[call[c].i] = @ + 1]
  /\ session' = IF Part(c).does = "session" THEN [session EXCEPT ![c] = "live"] ELSE session
  /\ UNCHANGED fits

FailPart(c) ==
  /\ Works(c) /\ Session(c)
  /\ Errs(c, "error")
  /\ UNCHANGED <<session, fits>>

\* requireSession finds the record expired.
Unauthenticated(c) ==
  /\ Works(c) /\ ~Session(c)
  /\ IF call[c].doing.way = "retried" /\ ~call[c].again /\ ~Part(c).skip
     THEN call' = [call EXCEPT ![c].at = "renew"]
     ELSE Errs(c, "refused")
  /\ UNCHANGED <<session, fits>>

\* refreshSession registers the cached identity again, and fn is repeated.
refreshSession(c) ==
  /\ call[c].at = "renew"
  /\ session' = [session EXCEPT ![c] = "live"]
  /\ call' = [call EXCEPT ![c].at = "work", ![c].again = TRUE, ![c].i = 1]
  /\ UNCHANGED fits

\* RegisterAgent declines: the key is held elsewhere, or the store has failed.
RefreshFails(c) ==
  /\ call[c].at = "renew"
  /\ Ends(c, "refused", {"declined"})
  /\ UNCHANGED <<session, fits>>

\* A page that is served carries the token of the session it was served to.
Finish(c) ==
  /\ call[c].at = "work" /\ ~Works(c)
  /\ Ends(c, "ok", {})
  /\ fits' = IF c \in Browser /\ ~Mutates(call[c].doing) THEN fits \cup {c} ELSE fits
  /\ UNCHANGED session

Forget(c) ==
  /\ call[c].at \in {"ok", "error", "refused"}
  /\ call' = [call EXCEPT ![c] = NoCall]
  /\ UNCHANGED <<session, fits>>

-----------------------------------------------------------------------------

\* A record's time is over.
Lapse(c) ==
  /\ session[c] = "live"
  /\ session' = [session EXCEPT ![c] = "expired"]
  /\ call' = IF call[c].at = "idle" THEN call
             ELSE [call EXCEPT ![c].met =
                     @ \cup {IF call[c].again THEN "expired again" ELSE "expired"}]
  /\ UNCHANGED fits

CallStep(c) ==
  \/ \E shape \in Offered(c) : Arrive(c, shape)
  \/ Refuse(c) \/ Begin(c) \/ Do(c) \/ FailPart(c) \/ Unauthenticated(c)
  \/ refreshSession(c) \/ RefreshFails(c) \/ Finish(c) \/ Forget(c) \/ Lapse(c)

\* Any clients' calls, in any order.
CallsSpec == CallsInit /\ [][\E c \in Client : CallStep(c)]_calls

-----------------------------------------------------------------------------
(* Properties.                                                             *)

Changes(c) == {k \in DOMAIN call[c].doing.work : call[c].doing.work[k].does # "none"}
Owed(c) == {k \in Changes(c) : ~call[c].doing.work[k].skip}
Made(c) == {k \in Changes(c) : call[c].made[k] > 0}

\* The calls that change the store in more than one stretch, or must read once
\* more for their answer, and can end in an error with the first change made:
\* a promotion into a phase, register_agent, a new embedder, a consumed
\* invitation, and a summary edited in place.
Halves ==
  {MCP!handlePromoteIdea(TRUE), MCP!handleRegisterAgent, Web!handleTicketPromote(TRUE),
   Web!handleProjectSettingsUpdate(TRUE), Web!handleInviteAccept,
   Web!handleProjectSummaryUpdate, Web!handlePhaseSummaryUpdate}

\* A client can trust its answer: after a success everything it asked for has
\* been done, once, although the call may have been repeated; after an error
\* nothing has, but for the calls named above.
AnswerTells ==
  \A c \in Client : call[c].at # "idle" =>
    /\ \A k \in Changes(c) : call[c].made[k] <= 1
    /\ call[c].at = "ok" => Owed(c) \subseteq Made(c)
    /\ call[c].at \in {"error", "refused"} /\ Made(c) # {} => call[c].doing \in Halves

\* A tool's call that is refused for want of a session is one no registration
\* preceded, whose session expired twice under it, or whose agent the store
\* would not register again: an expiry alone never reaches the agent.
ExpiryIsMended ==
  \A c \in Agent : call[c].at = "refused" =>
    call[c].met \cap {"unregistered", "declined", "expired again"} # {}

AnswersHold == CallsTyped /\ AnswerTells /\ ExpiryIsMended
=============================================================================
