------------------------------- MODULE Routes -------------------------------
(***************************************************************************)
(* The routes of internal/web, one definition per handler and per case of  *)
(* one.  Before a handler runs, the middleware of router.go resolves the   *)
(* browser's session, checks the user's role and, for a form, its token:   *)
(* any route may be refused there.                                         *)
(***************************************************************************)
EXTENDS Operations

\* A GET and a POST.  What a handler checks before its first operation can only
\* refuse the request; the first error of an operation that is not tried ends
\* the handler with an error page.
Page(work) == [checks |-> <<>>, way |-> "page", work |-> work]
Form(checks, work) == [checks |-> checks, way |-> "form", work |-> work]

Fields == Read
Confirmed == Read

-----------------------------------------------------------------------------
(* Projects: handlers_projects.go.                                         *)

handleProjectsIndex == Page(ListProjects)
handleProjectNewForm == Page(<<>>)
handleProjectCreate == Form(<<>>, CreateProject)
handleLoadProjectForm == Page(<<>>)
handleLoadProjectMount == Form(Fields, RegisterProjectMount)
handleProjectDetail ==
  Page(GetProject \o Try(ListPhases) \o Try(ListTickets) \o Try(ListTickets))
handleProjectUpdate == Form(<<>>, GetProject \o UpdateProject)
handleProjectDelete == Form(Confirmed, DeleteProject)
handleProjectSummaryView == Page(GetProject)
\* The record is read again for the answer, once it is written.
handleProjectSummaryUpdate == Form(<<>>, GetProject \o UpdateProject \o GetProject)
handleSidebarPartial == Page(Try(ListProjects))

(* handlers_project_settings.go and handlers_settings.go                   *)

\* readEmbedStatus takes what it can get.
readEmbedStatus == Try(GetProject)
handleProjectSettings == Page(GetProject \o readEmbedStatus \o Try(GetArchivePolicy))
handleProjectSettingsUpdate(embedder) ==
  Form(<<>>, GetProject \o (IF embedder THEN UpdateEmbedder ELSE UpdateProject))
ArchiveAction(action) ==
  CASE action = "save" -> SetArchivePolicy
    [] action = "preview" -> PreviewArchivePolicy \o Try(GetArchivePolicy)
    [] action = "apply" -> ApplyArchivePolicy \o Try(GetArchivePolicy)
handleArchivePolicy(action) == Form(<<>>, GetProject \o ArchiveAction(action))
handleProjectReembed == Form(<<>>, ReembedProject)
\* What is in memory.
handleGlobalSettings == Page(<<>>)
handleGlobalSettingsUpdate == Form(Fields, Open("settings"))
handleReembedAll == Form(<<>>, ReembedAllProjects)

(* handlers_project_search.go                                              *)

runProjectSearch(kind) ==
  Try(CASE kind = "tickets" -> SearchTickets
        [] kind = "comments" -> SearchComments
        [] kind = "learnings" -> SearchLearnings)
hitFeedbackCounts == Try(FeedbackCounts)
handleProjectSearch(kind) == Page(GetProject \o runProjectSearch(kind) \o hitFeedbackCounts)
\* One key is rated, and an answer that it was rejected is an error.
handleSearchRate == Form(Fields, Asked \o Open("rating"))

-----------------------------------------------------------------------------
(* Phases: handlers_phases.go.                                             *)

handlePhasesIndex == Page(GetProject \o ListPhases \o Try(ListTickets))
handlePhaseNewForm == Page(GetProject)
handlePhaseCreate == Form(<<>>, GetProject \o CreatePhase)
handlePhaseDetail == Page(GetProject \o GetPhase \o Try(ListTickets))
handlePhaseEditForm == Page(GetProject \o GetPhase)
handlePhaseUpdate == Form(<<>>, GetProject \o GetPhase \o UpdatePhase)
handlePhaseDelete == Form(Confirmed, DeletePhase)
handlePhaseArchive == Form(Confirmed, ArchivePhase)
handlePhaseSummaryView == Page(GetProject \o GetPhase)
handlePhaseSummaryUpdate == Form(<<>>, GetProject \o GetPhase \o UpdatePhase \o GetPhase)
handleAssignTicketToPhase == Form(<<>>, AssignTicketToPhase)

-----------------------------------------------------------------------------
(* Tickets and comments: handlers_tickets.go, handlers_comments.go.        *)

handleBoardRedirect == Page(<<>>)
handleTicketNewForm == Page(GetProject \o Try(ListPhases))
handleTicketCreate == Form(<<>>, GetProject \o CreateTicket)
dependencyLinks == Try(ListTickets)
\* The ticket is read first and its comments last.
handleTicketDetail ==
  Page(GetTicket \o ListProjects \o Try(ListPhases) \o dependencyLinks \o Try(ListComments))
\* A ticket whose project cannot be found among the listed ones has no form.
handleTicketEditForm == Page(GetTicket \o ListProjects \o Try(ListPhases))
handleTicketUpdate == Form(<<>>, UpdateTicket)
handleTicketMove == Form(Fields, MoveTicket)
handleTicketComplete == Form(<<>>, CompleteTicket)
flipArchive(flip) == Form(<<>>, flip)
handleTicketArchive == flipArchive(ArchiveTicket)
handleTicketUnarchive == flipArchive(UnarchiveTicket)
handleTicketPromote(phase) == Form(<<>>, IF phase THEN PromoteInto ELSE PromoteIdea)
handleTicketDelete == Form(<<>>, DeleteTicket)
handleCommentsList == Page(ListComments)
handleCommentCreate == Form(<<>>, CreateComment)

-----------------------------------------------------------------------------
(* Members: handlers_members.go.  Agents, users, home, logs, files.  Login. *)

handleMembersIndex == Page(GetProject \o ListProjectMembers \o ListInvitations)
handleMemberInvite == Form(<<>>, CreateInvitation)
handleMemberRole == Form(Fields, SetMemberRole)
handleMemberRemove == Form(Fields, RemoveMember)
handleInviteCancel == Form(<<>>, CancelInvitation)
\* A link in a mail: a GET that grants.
handleInviteAccept == Page(AcceptInvitation \o Try(GetProject))

handleAgentsIndex == Page(ListAgents)
handleAgentDetail == Page(GetAgent \o AgentActivity \o AgentCurrentWork)
handleUserDetail == Page(GetUserProfile)
handleHome == Page(ListProjects)
handleLogs == Page(<<>>)
handleFSBrowse == Page(<<>>)

handleLoginPage == Page(<<>>)
handleAuthStart == Page(Read)
\* The provider is asked for the claims, the user's record is written, and then
\* ownership is granted project by project as far as it goes.
upsertUser == Open("user")
maybeBootstrapAdmin == Try(Read \o Open("member"))
handleAuthCallback == Page(Read \o upsertUser \o maybeBootstrapAdmin)
handleLogout == Form(<<>>, <<>>)

-----------------------------------------------------------------------------

\* Every route the server mounts, /static, /sse and the development ones apart.
Mount ==
  {handleProjectsIndex, handleProjectNewForm, handleProjectCreate, handleLoadProjectForm,
   handleLoadProjectMount, handleProjectDetail, handleProjectUpdate, handleProjectDelete,
   handleProjectSummaryView, handleProjectSummaryUpdate, handleSidebarPartial,
   handleProjectSettings, handleProjectReembed, handleGlobalSettings,
   handleGlobalSettingsUpdate, handleReembedAll, handleSearchRate,
   handlePhasesIndex, handlePhaseNewForm, handlePhaseCreate, handlePhaseDetail,
   handlePhaseEditForm, handlePhaseUpdate, handlePhaseDelete, handlePhaseArchive,
   handlePhaseSummaryView, handlePhaseSummaryUpdate, handleAssignTicketToPhase,
   handleBoardRedirect, handleTicketNewForm, handleTicketCreate, handleTicketDetail,
   handleTicketEditForm, handleTicketUpdate, handleTicketMove, handleTicketComplete,
   handleTicketArchive, handleTicketUnarchive, handleTicketDelete, handleCommentsList,
   handleCommentCreate, handleMembersIndex, handleMemberInvite, handleMemberRole,
   handleMemberRemove, handleInviteCancel, handleInviteAccept, handleAgentsIndex,
   handleAgentDetail, handleUserDetail, handleHome, handleLogs, handleFSBrowse,
   handleLoginPage, handleAuthStart, handleAuthCallback, handleLogout}
  \cup {handleProjectSettingsUpdate(embedder) : embedder \in BOOLEAN}
  \cup {handleArchivePolicy(action) : action \in {"save", "preview", "apply"}}
  \cup {handleProjectSearch(kind) : kind \in {"tickets", "comments", "learnings"}}
  \cup {handleTicketPromote(phase) : phase \in BOOLEAN}
=============================================================================
