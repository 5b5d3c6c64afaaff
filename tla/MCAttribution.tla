--------------------------- MODULE MCAttribution ---------------------------
(* A fund whose share delivers one component share, held by nobody or by   *)
(* the account at the open, and a day of up to MaxOrders orders.           *)
EXTENDS Attribution, TLC

Ordr(s, side, qtys, seen, summary, via, t0, basket) ==
  [sec |-> s, side |-> side, qtys |-> qtys, seen |-> seen, summary |-> summary,
   via |-> via, t0 |-> t0, basket |-> basket]
Plain(s, side, qtys) == Ordr(s, side, qtys, DOMAIN qtys, FALSE, "fill", "", "")

MCMenu ==
  {Plain(ETF, "buy", <<1>>), Plain(ETF, "sell", <<1>>), Plain(Component, "buy", <<1>>)}
  \cup {Plain(Component, "sell", q) : q \in {<<1>>, <<2>>, <<1, 1>>}}
  \cup {Ordr(ETF, "buy", <<2>>, {1}, FALSE, "fill", "g", ""),
        Ordr(ETF, "buy", <<1, 1>>, {1}, TRUE, "fill", "", ""),
        Ordr(ETF, "redeem", <<2>>, {1}, FALSE, "transfer", "g", ""),
        Ordr(Component, "sell", <<2>>, {}, TRUE, "fill", "", ETF),
        Ordr(Component, "sell", <<1, 1>>, {2}, FALSE, "fill", "", ETF)}
  \cup {Ordr(ETF, "redeem", <<1>>, {1}, FALSE, v, "", "") : v \in {"fill", "both"}}

Known(feeBy, iopv, final) == [feeBy |-> feeBy, iopv |-> iopv, final |-> final]
MCInputs == {Known("fill", TRUE, FALSE), Known("record", TRUE, FALSE), Known("record", FALSE, FALSE),
             Known("record", TRUE, TRUE), Known("none", TRUE, TRUE)}

MCOpenings == {ETF :> n @@ Component :> n : n \in {0, 1}}
PriceBefore == ETF :> 12 @@ Component :> 9
PriceAfter == ETF :> 15 @@ Component :> 11
=============================================================================
