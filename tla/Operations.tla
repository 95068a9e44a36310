----------------------------- MODULE Operations -----------------------------
(***************************************************************************)
(* The operations of internal/svc as their callers, the MCP tools and the  *)
(* web handlers, meet them: where one asks for a session, what it changes, *)
(* and after what an error can still come.  What an operation does to the  *)
(* store is in the module of its component.                                *)
(***************************************************************************)
EXTENDS Sequences

\* A stretch of an operation that one error ends.  It may ask for a session
\* first, it makes a change or none, and the caller stops at its error or notes
\* it and goes on.
Stretch(asks, does) == [asks |-> asks, does |-> does, skip |-> FALSE]

Read == <<Stretch(FALSE, "none")>>
Asked == <<Stretch(TRUE, "none")>>
Write(what) == <<Stretch(TRUE, what)>>
Open(what) == <<Stretch(FALSE, what)>>

\* The caller logs or counts the errors of an operation and goes on.
Try(op) == [i \in DOMAIN op |-> [op[i] EXCEPT !.skip = TRUE]]

-----------------------------------------------------------------------------
(* Tickets.  "column", "archived", "kind" and "comment" are changes of one  *)
(* ticket that are published for the pages that show it.                    *)

CreateTicket == Write("ticket")
UpdateTicket == Write("text")
MoveTicket == Write("column")
CompleteTicket == Write("column")
ArchiveTicket == Write("archived")
UnarchiveTicket == Write("archived")
FlipIdeaToWork == Write("kind")
AssignTicketToPhase == Write("place")
DeleteTicket == Write("removal")
CreateComment == Write("comment")

GetTicket == Read
ListTickets == Read
ResolveTicketRef == Read
ListComments == Read
ListCommentsScoped == Asked

\* Without a phase; and with one that is not the ticket's: the phase is looked
\* up and the ticket assigned after the flip has been committed.
PromoteIdea == FlipIdeaToWork
PromoteInto == FlipIdeaToWork \o Read \o AssignTicketToPhase

\* Mutant: the first that fails ends the call.
ArchiveAll == ArchiveTicket \o Write("other ticket")

\* Each ticket is archived by a call of its own; one that fails is skipped.
ArchiveEach == Try(ArchiveTicket \o Write("other ticket"))
ArchivePhase == Asked \o Read \o ArchiveEach
PreviewArchivePolicy == Asked \o Read
ApplyArchivePolicy == PreviewArchivePolicy \o ArchiveEach

-----------------------------------------------------------------------------
(* Phases, projects and search.                                            *)

CreatePhase == Write("phase")
UpdatePhase == Write("phase")
DeletePhase == Write("phase")
GetPhase == Read
ListPhases == Read
ListWaves == Read

\* The session is optional: the first project comes before the first agent.
CreateProject == Open("project")
CreateProjectAt == Open("project")
GetProject == Read
ListProjects == Read
LoadProject == Read
UpdateProject == Write("project")
DeleteProject == Write("project")
RegisterProjectMount == Open("mount")
GetArchivePolicy == Read
SetArchivePolicy == Write("policy")

\* With another embedder the project is re-embedded once its record is written.
ReembedProject == Write("embeddings")
UpdateEmbedder == UpdateProject \o ReembedProject
\* Each project in turn, with the failures counted.
ReembedAllProjects == Try(ReembedProject \o ReembedProject)

\* The retrievals of the hits are recorded last; a failure is logged.
recordSearchRetrievals == Try(Open("retrievals"))
SearchTickets == Read \o recordSearchRetrievals
SearchComments == Read \o recordSearchRetrievals
SearchLearnings == Read \o recordSearchRetrievals
FeedbackCounts == Read
\* A key that is rejected is a part of the result.
RateSearchResult == Asked \o Try(Open("rating"))

-----------------------------------------------------------------------------
(* Agents, users and members.                                              *)

RegisterAgent == Open("agent")
ListAgents == Read
GetAgent == Read
AgentActivity == Read
AgentCurrentWork == Read
GetUserProfile == Read

ListProjectMembers == Read
ListInvitations == Read
SetMemberRole == Open("member")
RemoveMember == Open("member")
CreateInvitation == Open("invitation")
CancelInvitation == Open("invitation")
AcceptInvitation == Open("member") \o Open("invitation")
=============================================================================
