------------------------------- MODULE Tools --------------------------------
(***************************************************************************)
(* The MCP tools of internal/mcptools/tools.go, one definition per handler *)
(* and per case of one: what it checks before it works, what it works with *)
(* callWithRetry around it, and what without.                              *)
(***************************************************************************)
EXTENDS Operations

\* Most tools check their arguments and then run one operation under
\* callWithRetry.  What a tool checks can only refuse the call.
Tool(checks, op) == [checks |-> checks, way |-> "retried", work |-> op]
Plain(checks, op) == [checks |-> checks, way |-> "plain", work |-> op]

\* Arguments are decoded, the project is the one that is named or the one the
\* session is bound to, and a ticket may be named by its number.
Args == Read
Slug == Read
Scope == Slug
Ref == ResolveTicketRef

-----------------------------------------------------------------------------
(* Projects.                                                               *)

handleListProjects == Tool(<<>>, ListProjects)
handleCreateProject == Plain(Args, CreateProjectAt)
handleGetProject == Tool(Slug, GetProject)
handleGetProjectSummary == Tool(Slug, GetProject)
handleLoadProject == Tool(Slug, LoadProject)
handleUpdateProject == Tool(Slug, UpdateProject)
handleDeleteProject == Tool(Slug, DeleteProject)
handleReembedProject == Tool(Slug, ReembedProject)

(* Phases.                                                                 *)

handleListPhases == Tool(Slug, ListPhases)
handleCreatePhase == Tool(Slug \o Args, CreatePhase)
handleGetPhase == Tool(Slug \o Args, GetPhase)
handleGetPhaseSummary == Tool(Slug \o Args, GetPhase)
handleUpdatePhase == Tool(Slug \o Args, UpdatePhase)
handleDeletePhase == Tool(Slug \o Args, DeletePhase)
handleArchivePhase == Tool(Slug \o Args, ArchivePhase)
handleListWaves == Tool(Slug, ListWaves)

(* Tickets and ideas.                                                      *)

handleListTickets == Tool(Slug, ListTickets)
handleCreateTicket == Tool(Slug \o Args, CreateTicket)
handleGetTicket == Tool(Args \o Ref, GetTicket)
handleUpdateTicket == Tool(Args \o Ref \o Args, UpdateTicket)
handleMoveTicket == Tool(Args \o Ref, MoveTicket)
handleCompleteTicket == Tool(Args \o Ref, CompleteTicket)
handleAssignTicketToPhase == Tool(Args \o Ref \o Args, AssignTicketToPhase)
handleApplyArchivePolicy(commit) ==
  Tool(Slug, IF commit THEN ApplyArchivePolicy ELSE PreviewArchivePolicy)
archiveFlipHandler(flip) == Tool(Args \o Ref, flip)
handleArchiveTicket == archiveFlipHandler(ArchiveTicket)
handleUnarchiveTicket == archiveFlipHandler(UnarchiveTicket)
handlePromoteIdea(phase) == Tool(Args \o Ref, IF phase THEN PromoteInto ELSE PromoteIdea)
handleCreateIdea == Tool(Slug \o Args, CreateTicket)
handleListIdeas == Tool(Slug, ListTickets)
handleSearchIdeas == Tool(Args \o Slug, SearchTickets)
handleDeleteTicket == Tool(Args \o Ref, DeleteTicket)

(* Comments, search and feedback.                                          *)

handleAddComment == Tool(Args \o Ref, CreateComment)
handleListComments == Tool(Args \o Ref, ListComments)
handleListCommentsScoped == Tool(Slug \o Ref \o Args, ListCommentsScoped)
handleRateSearchResult == Tool(Args \o Slug, RateSearchResult)
handleSearchTickets == Tool(Args \o Slug, SearchTickets)
handleSearchLearnings == Tool(Args \o Scope, SearchLearnings)
handleSearchComments == Tool(Args \o Scope, SearchComments)

(* Identity.  whoami answers from the registry alone.  register_agent       *)
(* mounts the project before it has an agent, and binds the session last.  *)

handleWhoAmI == Plain(<<>>, Read)
handleRegisterAgent ==
  Plain(Args \o Read, RegisterProjectMount \o RegisterAgent \o Open("session"))

-----------------------------------------------------------------------------

\* Every tool the server offers.
RegisterAll ==
  {handleListProjects, handleCreateProject, handleGetProject, handleGetProjectSummary,
   handleLoadProject, handleUpdateProject, handleDeleteProject, handleReembedProject,
   handleListPhases, handleCreatePhase, handleGetPhase, handleGetPhaseSummary,
   handleUpdatePhase, handleDeletePhase, handleArchivePhase, handleListWaves,
   handleListTickets, handleCreateTicket, handleGetTicket, handleUpdateTicket,
   handleMoveTicket, handleCompleteTicket, handleAssignTicketToPhase,
   handleArchiveTicket, handleUnarchiveTicket, handleCreateIdea, handleListIdeas,
   handleSearchIdeas, handleDeleteTicket, handleAddComment, handleListComments,
   handleListCommentsScoped, handleRateSearchResult, handleSearchTickets,
   handleSearchLearnings, handleSearchComments, handleWhoAmI, handleRegisterAgent}
  \cup {handleApplyArchivePolicy(commit) : commit \in BOOLEAN}
  \cup {handlePromoteIdea(phase) : phase \in BOOLEAN}
=============================================================================
