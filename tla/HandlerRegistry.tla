-------------------------- MODULE HandlerRegistry --------------------------
(***************************************************************************)
(* What the request-handler list of HTTPServer promises its callers: an    *)
(* ordered list of routes, new routes go at the end, and a removal takes   *)
(* out one route and keeps the others in their order.  Dispatch tries the  *)
(* routes in this order, so the order is part of the interface.            *)
(***************************************************************************)
EXTENDS Sequences, SequencesExt

CONSTANT Routes   \* what a handler is registered for

VARIABLE routes   \* the handlers, first to last

Init == routes = <<>>

Add(r) == routes' = Append(routes, r)

Drop(i) == routes' = RemoveAt(routes, i)

Next == (\E r \in Routes : Add(r)) \/ (\E i \in 1..Len(routes) : Drop(i))

Spec == Init /\ [][Next]_routes
=============================================================================
