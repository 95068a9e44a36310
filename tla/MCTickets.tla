------------------------------ MODULE MCTickets ------------------------------
(* Model values for Tickets: ids are fresh uuids, so tickets are symmetric. *)
EXTENDS Tickets, TLC

TicketSymmetry == Permutations(Ticket)
=============================================================================
