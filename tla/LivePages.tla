----------------------------- MODULE LivePages ------------------------------
(***************************************************************************)
(* A ticket's page in one browser, while agents work on the ticket.  The   *)
(* page is rendered from several reads, then follows the ticket's topic    *)
(* over /sse: every event becomes frames that patch what the page shows.   *)
(* The comment form answers at once with a placeholder (optimistic.js),    *)
(* which the comment's own event replaces.                                 *)
(*                                                                         *)
(* Calls are FrontEnd's; a stretch that changes the ticket publishes its   *)
(* event in the same step, under lp.Lock.  Of the bus there is what        *)
(* EventBus shows of it: each event once and in order on an open           *)
(* connection, and a replay from the last id the page has seen.  The       *)
(* ticket's history counts from the page's first read.                     *)
(***************************************************************************)
EXTENDS FrontEnd, SequencesExt

CONSTANTS
  MaxEvents,   \* bound: events of the ticket while the page is up
  MaxTries,    \* bound: comments submitted from the page
  MaxCuts      \* bound: connections the page loses

\* The variables are one page's, in one browser.
ASSUME BrowserAssumption == \A b, c \in Browser : b = c
ASSUME PageBoundsAssumption == {MaxEvents, MaxTries, MaxCuts} \subseteq Nat

VARIABLES
  page,      \* "closed", "reading", "rendered", "open"
  ticket,    \* how often each part of the ticket has changed
  log,       \* the ticket's events: the part, and for a comment its client id
  shown,     \* the state of the parts that the badges show
  actions,   \* the state of the parts that the buttons were rendered for
  rows,      \* the comments in the thread, by event: those that were written,
             \* and the system's on every other change
  sending,   \* placeholders in the thread that wait, by try
  failed,    \* placeholders that have turned red
  tries,     \* submissions: the first try of each one's text
  link,      \* the page hears the stream
  boot,      \* events published before the server's last start
  pos,       \* last event the stream has rendered, or the last it was heard of
  frames,    \* frames on their way
  lastId,    \* id of the last frame received, 0 for none
  cuts,      \* connections lost (bound)
  missed,    \* events no stream has told the page, or not in full (history)
  lost       \* tries whose answer was lost (history)

store == <<ticket, log>>
view == <<shown, actions, rows>>
form == <<sending, failed, tries, lost>>
stream == <<link, boot, pos, frames, lastId, cuts, missed>>
pagesVars == <<calls, page, store, view, form, stream>>

Parts == {"column", "archived", "kind"}
Untouched == [p \in Parts |-> 0]
Up == page # "closed"

\* What is published: the other changes of a ticket have no event.
Published == Parts \cup {"comment"}
Touches(shape) == \E k \in DOMAIN shape.work : shape.work[k].does \in Published

\* The comments that were written.
Comments == {e \in DOMAIN log : log[e].what = "comment"}
StoredOf(k) == {e \in Comments : log[e].try = k}

PagesTypeOK ==
  /\ page \in {"closed", "reading", "rendered", "open"}
  /\ \A e \in DOMAIN log : log[e].what \in Published /\ log[e].try \in 0..Len(tries)
  /\ {ticket, shown, actions} \subseteq [Parts -> 0..Len(log)]
  /\ Range(rows) \subseteq DOMAIN log
  /\ sending \cup failed \cup lost \subseteq DOMAIN tries /\ Len(tries) <= MaxTries
  /\ link \in BOOLEAN /\ (link => page = "open")
  /\ {boot, pos, lastId} \subseteq 0..Len(log) /\ cuts \in 0..MaxCuts
  /\ missed \subseteq DOMAIN log

Seen == <<page, store, view, form, stream>>

PagesInit ==
  /\ CallsInit
  /\ page = "closed"
  /\ ticket = Untouched /\ log = <<>>
  /\ shown = Untouched /\ actions = Untouched /\ rows = <<>>
  /\ sending = {} /\ failed = {} /\ tries = <<>> /\ lost = {}
  /\ link = FALSE /\ boot = 0 /\ pos = 0 /\ frames = <<>> /\ lastId = 0 /\ cuts = 0 /\ missed = {}

\* The page is left, or could not be served.
Leave ==
  /\ page' = "closed"
  /\ ticket' = Untouched /\ log' = <<>>
  /\ shown' = Untouched /\ actions' = Untouched /\ rows' = <<>>
  /\ sending' = {} /\ failed' = {} /\ tries' = <<>> /\ lost' = {}
  /\ link' = FALSE /\ boot' = 0 /\ pos' = 0 /\ frames' = <<>> /\ lastId' = 0
  /\ cuts' = 0 /\ missed' = {}

-----------------------------------------------------------------------------
(* Calls.  Those that do not touch the ticket are made one at a time, with  *)
(* no page up: they would meet nothing of each other's here.                *)

AtRest(c) == call[c].at = "idle"
Room == Len(log) + Cardinality({c \in Client : ~AtRest(c)}) < MaxEvents

ArriveApart(c) ==
  /\ ~Up /\ \A d \in Client : AtRest(d)
  /\ \E shape \in Offered(c) : Arrive(c, shape)
  /\ UNCHANGED Seen

ArriveMeanwhile(c) ==
  /\ Up /\ c \in Agent /\ Room
  /\ \E shape \in Offered(c) : Touches(shape) /\ Arrive(c, shape)
  /\ UNCHANGED Seen

\* The browser's call is for the page itself, or a comment submitted from it.
Opens(c) == c \in Browser /\ call[c].doing = Web!handleTicketDetail
Submits(c) == c \in Browser /\ Up /\ ~Opens(c)

\* The event follows the change in the cache, before lp.Lock is released.  Every
\* change is a comment of the ticket's thread as well, that of the system where
\* none was written.  A comment's event carries the Idempotency-Key of the
\* request.
Publish(c, what) ==
  /\ what = "kind" => ticket["kind"] = 0
  /\ log' = Append(log, [what |-> what, try |-> IF Submits(c) THEN Len(tries) ELSE 0])
  /\ ticket' = IF what \in Parts THEN [ticket EXCEPT ![what] = @ + 1] ELSE ticket
  /\ UNCHANGED <<page, view, form, stream>>

\* The page's render: the ticket is the first it reads, the thread, with all
\* its comments in their order, the last.
ReadTicket ==
  /\ page' = "reading"
  /\ UNCHANGED <<store, view, form, stream>>
ReadThread ==
  /\ rows' = [e \in DOMAIN log |-> e]
  /\ UNCHANGED <<page, store, shown, actions, form, stream>>

DoStretch(c) ==
  /\ Do(c)
  /\ IF Opens(c) /\ call[c].i = 1 THEN ReadTicket
     ELSE IF Opens(c) /\ call[c].i = Len(call[c].doing.work) THEN ReadThread
     ELSE IF Up /\ Part(c).does \in Published THEN Publish(c, Part(c).does)
     ELSE UNCHANGED Seen

FailStretch(c) ==
  /\ FailPart(c)
  /\ IF Opens(c) /\ ~Part(c).skip THEN Leave ELSE UNCHANGED Seen

FinishCall(c) ==
  /\ Finish(c)
  /\ page' = IF Opens(c) THEN "rendered" ELSE page
  /\ UNCHANGED <<store, view, form, stream>>

\* Records expire under agents' calls while no page is up only (bound).
Meanwhile(c) ==
  /\ \/ Refuse(c) \/ Begin(c) \/ Unauthenticated(c)
     \/ refreshSession(c) \/ RefreshFails(c)
     \/ (c \in Browser \/ ~Up) /\ Lapse(c)
     \/ Forget(c) /\ ~Submits(c)
  /\ UNCHANGED Seen

-----------------------------------------------------------------------------
(* The stream: handleSSE and the page's end of it.                          *)

\* The bus counts from one with every start of the server.
Id(e) == e - boot
Unheard == pos + 1..Len(log)

\* What Subscribe replays: nothing to a page that knows no id, and otherwise
\* what the ticket's ring has above the id, whichever count that is from.
Replay == IF lastId = 0 THEN {} ELSE {e \in Unheard : e > boot /\ Id(e) > lastId}

\* What the page can never be told: all so far if it knows no id; after a start
\* of the server, what was published before, and what has an id it has seen.
Untold ==
  IF lastId = 0 THEN Unheard
  ELSE {e \in Unheard : boot > 0 /\ (e <= boot \/ Id(e) <= lastId)}
Attach ==
  /\ link' = TRUE /\ pos' = Len(log) - Cardinality(Replay)
  /\ missed' = missed \cup (Untold \ (Comments \cap Range(rows)))
  /\ UNCHANGED <<calls, store, view, form, boot, frames, lastId, cuts>>

\* data-on-load of the page, as its templates mean it.
Subscribe == page = "rendered" /\ page' = "open" /\ Attach
\* The page comes back with the id of the last frame it was sent.
Resume == page = "open" /\ ~link /\ Attach /\ UNCHANGED page

\* The frames of an event, each a render of the ticket as it is read now.
Badge(part) == [does |-> "badge", part |-> part, is |-> ticket[part]]
PageActions == [does |-> "actions", is |-> ticket]
\* Mutant: the row is appended beside its placeholder.
commentAppendOnly(e) == <<[does |-> "append", row |-> e]>>
commentAppendPatch(e) ==
  (IF log[e].try = 0 THEN <<>> ELSE <<[does |-> "remove", try |-> log[e].try]>>)
    \o <<[does |-> "append", row |-> e]>>
\* Mutant: the badge is patched alone.
renderBadgeOnly(e) ==
  IF log[e].what = "comment" THEN commentAppendPatch(e) ELSE <<Badge(log[e].what)>>
renderTicketPatch(e) ==
  IF log[e].what = "comment" THEN commentAppendPatch(e)
  ELSE <<Badge(log[e].what), PageActions>>

\* Every delivery begins with a signal; each frame has the event's id.
renderDelivery(e) == <<[does |-> "signal"]>> \o renderTicketPatch(e)
Stamped(e) ==
  [i \in DOMAIN renderDelivery(e) |-> [of |-> e, id |-> Id(e), patch |-> renderDelivery(e)[i]]]

Deliver ==
  /\ link /\ pos < Len(log)
  /\ pos' = pos + 1
  /\ frames' = frames \o Stamped(pos + 1)
  /\ UNCHANGED <<calls, page, store, view, form, link, boot, lastId, cuts, missed>>

\* A placeholder has its try's id, waiting or red.
Applied(patch) ==
  /\ shown' = IF patch.does = "badge" THEN [shown EXCEPT ![patch.part] = patch.is] ELSE shown
  /\ actions' = IF patch.does = "actions" THEN patch.is ELSE actions
  /\ rows' = IF patch.does = "append" THEN Append(rows, patch.row) ELSE rows
  /\ IF patch.does = "remove"
     THEN sending' = sending \ {patch.try} /\ failed' = failed \ {patch.try}
     ELSE UNCHANGED <<sending, failed>>

Receive ==
  /\ frames # <<>>
  /\ Applied(Head(frames).patch)
  /\ lastId' = Head(frames).id /\ frames' = Tail(frames)
  /\ UNCHANGED <<calls, page, store, tries, lost, link, boot, pos, cuts, missed>>

\* The stream ends, with the frames that are on their way: an event some of
\* whose frames have come has left its id, and counts as heard of.
Begun == frames # <<>> /\ Head(frames).patch.does # "signal"
Dropped ==
  /\ link /\ cuts < MaxCuts
  /\ link' = FALSE /\ cuts' = cuts + 1 /\ frames' = <<>>
  /\ pos' = IF frames = <<>> THEN pos ELSE Head(frames).of - (IF Begun THEN 0 ELSE 1)
  /\ missed' = IF Begun THEN missed \cup {Head(frames).of} ELSE missed
  /\ UNCHANGED <<calls, page, store, view, form, lastId>>

\* The network, a hidden tab or a full buffer is the end of it; a page may come
\* back or not.
Cut == Dropped /\ UNCHANGED boot
\* The server restarts, with no call under way (bound).
Restart == (\A c \in Client : AtRest(c)) /\ Dropped /\ boot' = Len(log)

-----------------------------------------------------------------------------
(* The comment form: optimistic.js.                                         *)

\* The text of try k is sent under an id of its own.
Send(c, text) ==
  /\ page \in {"rendered", "open"} /\ AtRest(c) /\ Len(tries) < MaxTries /\ Room
  /\ Arrive(c, Web!handleCommentCreate)
  /\ tries' = Append(tries, text)
  /\ sending' = sending \cup {Len(tries) + 1}
  /\ UNCHANGED <<page, store, view, lost, stream>>

Submit(c) == Send(c, Len(tries) + 1) /\ UNCHANGED failed
Retry(c) == \E k \in failed : Send(c, tries[k]) /\ failed' = failed \ {k}

\* Only a placeholder that is still there turns red.
markCommentError(k) ==
  /\ sending' = sending \ {k}
  /\ failed' = IF k \in sending THEN failed \cup {k} ELSE failed

Hear(c) ==
  /\ Forget(c) /\ Submits(c)
  /\ IF call[c].at = "ok" THEN UNCHANGED <<sending, failed>> ELSE markCommentError(Len(tries))
  /\ UNCHANGED <<page, store, view, tries, lost, stream>>

AnswerLost(c) ==
  /\ Forget(c) /\ Submits(c)
  /\ markCommentError(Len(tries))
  /\ lost' = lost \cup {Len(tries)}
  /\ UNCHANGED <<page, store, view, tries, stream>>

\* Another page is asked for, once all is quiet (bound).
CloseTab ==
  /\ page = "open" /\ \A c \in Client : AtRest(c)
  /\ Leave
  /\ UNCHANGED calls

PagesNext ==
  \/ \E c \in Client :
       \/ ArriveApart(c) \/ ArriveMeanwhile(c)
       \/ DoStretch(c) \/ FailStretch(c) \/ FinishCall(c) \/ Meanwhile(c)
  \/ \E c \in Browser : Submit(c) \/ Retry(c) \/ Hear(c) \/ AnswerLost(c)
  \/ Subscribe \/ Deliver \/ Receive \/ Cut \/ Restart \/ Resume \/ CloseTab

PagesSpec == PagesInit /\ [][PagesNext]_pagesVars

-----------------------------------------------------------------------------
(* Properties.                                                             *)

Settled == page = "open" /\ link /\ frames = <<>> /\ pos = Len(log)
Told(e) == e \notin missed
LastOf(part) ==
  {e \in DOMAIN log : log[e].what = part /\ \A d \in e+1..Len(log) : log[d].what # part}

\* A page whose stream has nothing more to say shows the ticket as it is, badges
\* and buttons both, and has every comment that was written in the thread: but
\* for what was published before its stream was there, for an event the stream
\* was cut in the middle of, and for one that a restarted server has given an id
\* the page thinks it knows.  Later events of the ticket mend the buttons, not
\* the badges.  Of the system's comments the thread has those it was read with
\* and no others: a change is patched into badge and buttons alone
\* (sse_patch_ticket.go:51-66, 106-131).
UpToDate ==
  /\ PagesTypeOK
  /\ Settled =>
       /\ \A part \in Parts : \A e \in LastOf(part) :
            /\ Told(e) => shown[part] = ticket[part]
            /\ (\E d \in e..Len(log) : log[d].what # "comment" /\ Told(d)) =>
                 actions[part] = ticket[part]
       /\ \A e \in Comments : Told(e) => e \in Range(rows)
  /\ \E n \in 0..Len(log) : \A e \in DOMAIN log \ Comments : e \in Range(rows) <=> e <= n

\* The texts that were submitted, where each is stored, and which tries of it
\* had no answer.
Texts == Range(tries)
Copies(text) == UNION {StoredOf(k) : k \in {j \in DOMAIN tries : tries[j] = text}}
Doubtful(text) == {k \in lost : tries[k] = text}

\* The thread is in the order in which its comments were made, none is in it
\* twice, and none is lost from sight: what was submitted is stored or still in
\* the thread as a placeholder, is stored again only when an answer was lost
\* before a retry, and its placeholder outlives its row on a settled page only
\* when the event that replaces it was missed.
CommentsHold ==
  /\ \A i, j \in DOMAIN rows : i < j => rows[i] < rows[j]
  /\ \A text \in Texts :
       /\ Copies(text) # {} \/ \E k \in sending \cup failed : tries[k] = text
       /\ Cardinality(Copies(text)) <= 1 + Cardinality(Doubtful(text))
  /\ Settled /\ (\A c \in Browser : AtRest(c)) =>
       \A k \in sending \cup failed :
         /\ \A e \in StoredOf(k) : ~Told(e)
         /\ k \in sending => StoredOf(k) # {}
=============================================================================
