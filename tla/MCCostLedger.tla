---------------------------- MODULE MCCostLedger ----------------------------
EXTENDS CostLedger

MCSymmetry == Permutations(Jobs)
T(sec, side, qty, price) == [sec |-> sec, side |-> side, qty |-> qty, price |-> price]
MCMenu == {T(S, "buy", 1, 14), T(S, "sell", 1, 12), T(F, "buy", 1, 12), T(F, "redeem", 1, 0)}
N(factor, known, trusted) == [factor |-> factor, known |-> known, trusted |-> trusted]
MCNights == <<{N(2, TRUE, FALSE), N(2, FALSE, TRUE)}, {N(1, TRUE, TRUE)}>>
MCInceptions ==
  {[open |-> [s \in {S, F} |-> IF s = S THEN 2 ELSE 1], source |-> x, clean |-> FALSE] :
     x \in {"broker_open_snapshot", "pre_close"}}
  \cup {[open |-> [s \in {S, F} |-> 0], source |-> "pre_close", clean |-> TRUE]}
(* What a calculation is told: everything, neither the calendar nor the    *)
(* transfers, or neither the fee rules nor the prices of S.                *)
Told == [calendar |-> TRUE, rules |-> TRUE, transfers |-> TRUE, preClose |-> {S, F}, close |-> {S, F}]
MCMarkets ==
  {Told, [Told EXCEPT !.calendar = FALSE, !.transfers = FALSE],
   [Told EXCEPT !.rules = FALSE, !.preClose = {F}, !.close = {F}]}
=============================================================================
