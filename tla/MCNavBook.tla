----------------------------- MODULE MCNavBook -----------------------------
(* Four operations on the book of two or three days.                       *)
EXTENDS NavBook

Request(kind, day) ==
  [kind |-> kind, day |-> day, result |-> "provisional", formula |-> "relay", positive |-> TRUE,
   calendar |-> TRUE, inception |-> FALSE, residual |-> "auto", action |-> "confirm",
   force |-> FALSE]

Requests == <<
  Request("rebuild", 1), [Request("rebuild", 1) EXCEPT !.result = "blocked"],
  Request("rebuild", 2), [Request("rebuild", 3) EXCEPT !.inception = TRUE],
  Request("statement", 1),
  [Request("reconcile", 1) EXCEPT !.residual = "over"],
  [Request("reconcile", 1) EXCEPT !.residual = "warning"],
  Request("review", 1), [Request("review", 1) EXCEPT !.force = TRUE],
  [Request("review", 1) EXCEPT !.action = "block"] >>

(* The chain of cumulative NAVs over three days: rebuilds that a day, a    *)
(* formula, a statement or the calendar may fail, in any order.            *)
ChainDays == <<
  Request("rebuild", 1), [Request("rebuild", 1) EXCEPT !.formula = "former"],
  [Request("rebuild", 2) EXCEPT !.positive = FALSE], Request("statement", 2),
  [Request("rebuild", 3) EXCEPT !.calendar = FALSE], Request("rebuild", 3) >>
ChainPlans == {<<ChainDays[a], ChainDays[b], ChainDays[c]>> : a \in 1 .. 2, b \in 3 .. 4, c \in 5 .. 6}

(* The first operation publishes a version of the first day, the others    *)
(* are any three: what one does, another may repeat.                       *)
Picks == {c \in [1 .. 3 -> DOMAIN Requests] : c[1] <= c[2] /\ c[2] <= c[3]}
MCPlans ==
  ChainPlans \cup {<<Requests[1], Requests[c[1]], Requests[c[2]], Requests[c[3]]>> : c \in Picks}
=============================================================================
