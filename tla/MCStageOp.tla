------------------------------ MODULE MCStageOp ------------------------------
(* A small store: two directories a ticket can live in, two files in each. *)
EXTENDS StageOpRefinement

W(d, n) == [kind |-> "write", dir |-> d, name |-> n]
R(f, t) == [kind |-> "rename", from |-> f, to |-> t]
D(d) == [kind |-> "remove", dir |-> d]

MCDir == {"a", "b"}
MCName == {"yaml", "note"}
MCInitTree == [d \in MCDir |-> [n \in MCName |->
                 IF d = "a" THEN "init" ELSE Absent]]

\* What the handlers of internal/svc declare: CreateTicket and MoveTicket (two
\* writes), AssignTicketToPhase (a move, then a write at the new path) and
\* DeleteTicket (rewrite a dependent, then remove).
MCPlan ==
  {<<W("a", "yaml"), W("a", "note")>>,
   <<W("b", "yaml"), W("b", "note")>>,
   <<R("a", "b"), W("b", "yaml")>>,
   <<W("b", "yaml"), D("a")>>}

ASSUME MCPlanNoRefill == \A p \in Plan : NoRefill(p)
=============================================================================
