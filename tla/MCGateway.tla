----------------------------- MODULE MCGateway -----------------------------
(* TLC instance of Gateway: pages of two events and a ring of two, so that a *)
(* session of five events makes its client page twice and lag.  Clients only *)
(* share the log, so one is enough.                                          *)
EXTENDS Gateway

EventsOfSession == {"llm.call", "tool.call", "gate.fail", "budget.event"}
=============================================================================
