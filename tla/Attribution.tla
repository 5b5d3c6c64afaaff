---------------------------- MODULE Attribution ----------------------------
(***************************************************************************)
(* The daily contribution view of one account.  Orders of a trading day    *)
(* reach the broker, and the ledger as far as their fills and transfers    *)
(* were reported; after the close CalculateContributions values what the   *)
(* ledger shows.  What the broker's cash and positions really did is kept  *)
(* beside it.  Amounts are integers of the smallest unit.                  *)
(***************************************************************************)
EXTENDS TradeMatching

CONSTANTS ETF, Component, \* the fund and the share it delivers
          Basket,         \* shares delivered for one fund share
          Menu,           \* orders the day may see
          Inputs,         \* what is known at the close: [feeBy, iopv, final]
          MaxOrders, MaxLost,
          Openings,       \* the positions the day may open with
          PreClose, Close, \* [ETF, Component -> price]
          Cash            \* settlement cash per fund share, paid days later

ASSUME AttributionAssumption ==
  /\ ETF # Component /\ Basket \in Nat \ {0} /\ MaxOrders \in Nat /\ MaxLost \in Nat
  /\ Openings \subseteq [{ETF, Component} -> Nat] /\ Cash \in Int

VARIABLES open,    \* positions at the open
          day,     \* the orders, each with all its fills and its reports
          result   \* what the view shows; a record once calculated

vars == <<open, day, result>>

Securities == {ETF, Component}
Day == ToSet(day)
Orders == {d.o : d \in Day}

-----------------------------------------------------------------------------
(* The market and the broker.                                              *)
Price(o) == IF o.side = "redeem" THEN 0 ELSE Close[o.sec] - 2 + o.id
Iopv(o) == Close[ETF] + o.id
OrderFee(o) == o.id + 1
Split(n, m, total) == IF n = 1 THEN total - (m - 1) ELSE 1   \* the fee over the fills

RealFills(d) ==
  {[o |-> d.o, n |-> i, qty |-> d.qtys[i], price |-> Price(d.o),
    fee |-> Split(i, Len(d.qtys), OrderFee(d.o))] : i \in DOMAIN d.qtys}
Total(d) == FoldLeft(LAMBDA a, b : a + b, 0, d.qtys)
Of(s, side) == {d \in Day : d.o.sec = s /\ d.o.side = side}
Traded(s, side) == MapThenSumSet(Total, Of(s, side))
Delivered == Basket * Traded(ETF, "redeem")

(* Shares bought today can be redeemed but not sold; delivered components  *)
(* can be sold.                                                            *)
Sellable(s) == open[s] - Traded(s, "sell")
                 + (IF s = Component THEN Delivered ELSE - Traded(s, "redeem"))
Redeemable == open[ETF] + Traded(ETF, "buy") - Traded(ETF, "sell") - Traded(ETF, "redeem")
CloseQty(s) == open[s] + Traded(s, "buy") - Traded(s, "sell")
                 + (IF s = Component THEN Delivered ELSE - Traded(s, "redeem"))

-----------------------------------------------------------------------------
(* An order: which of its fills are reported, whether a summary row was    *)
(* written, and for a redemption whether it shows as a fill, as transfers  *)
(* or as both.                                                             *)
Feasible(t) ==
  LET q == FoldLeft(LAMBDA a, b : a + b, 0, t.qtys)
  IN /\ t.side = "sell" => q <= Sellable(t.sec)
     /\ t.side = "redeem" => q <= Redeemable
Lost(d) == d.seen # DOMAIN d.qtys /\ ~ (d.seen = {} /\ d.summary)

Place(t) ==
  /\ result = <<>> /\ Len(day) < MaxOrders /\ Feasible(t)
  /\ Lost(t) => Cardinality({d \in Day : Lost(d)}) < MaxLost
  /\ day' = Append(day, [o |-> [id |-> Len(day) + 1, sec |-> t.sec, side |-> t.side,
                                t0 |-> t.t0, basket |-> t.basket],
                         qtys |-> t.qtys, seen |-> t.seen, summary |-> t.summary, via |-> t.via])
  /\ UNCHANGED <<open, result>>

-----------------------------------------------------------------------------
(* The ledger rows.  A fee is reported with the fills, in an order fee     *)
(* record, or not at all.                                                  *)
Fill(d, i, feeBy) ==
  [o |-> d.o, n |-> i, qty |-> d.qtys[i], price |-> Price(d.o),
   fee |-> IF feeBy = "fill" THEN Split(i, Len(d.qtys), OrderFee(d.o)) ELSE -1]
SummaryFill(d) == [o |-> d.o, n |-> 0, qty |-> Total(d), price |-> Price(d.o), fee |-> -1]

FillRows(feeBy) ==
  FlattenSeq([k \in DOMAIN day |->
    LET d == day[k]
        rows == [i \in DOMAIN d.qtys |-> Fill(d, i, feeBy)]
    IN IF d.via = "transfer" THEN <<>>
       ELSE (IF d.summary THEN <<SummaryFill(d)>> ELSE <<>>)
              \o SelectSeq(rows, LAMBDA f : f.n \in d.seen)])

TransferRows ==
  FlattenSeq([k \in DOMAIN day |->
    IF day[k].o.side # "redeem" \/ day[k].via = "fill" THEN <<>>
    ELSE <<[o |-> day[k].o, sec |-> ETF, qty |-> Total(day[k]), cash |-> FALSE],
           [o |-> day[k].o, sec |-> Component, qty |-> Basket * Total(day[k]), cash |-> FALSE]>>])

(* The fee records of the day, and authoritativeOrderFees: the fee of each *)
(* order that has a complete one.                                          *)
ListOrderFeeRecords(feeBy) ==
  {[order |-> o.id, fee |-> OrderFee(o), complete |-> feeBy = "record"] : o \in Orders}
Records(feeBy) ==
  LET complete == {x \in ListOrderFeeRecords(feeBy) : x.complete}
  IN [i \in {x.order : x \in complete} |-> (CHOOSE x \in complete : x.order = i).fee]

-----------------------------------------------------------------------------
(* t0ActualExecutionFee: one fee per order, that of its first fill unless  *)
(* there is a record.                                                      *)
First(S) == CHOOSE f \in S : \A g \in S : f.n <= g.n
ExecutionFee(fills, records) ==
  LET orders == {f.o : f \in fills}
      known(o) == o.id \in DOMAIN records \/ HasFee(First({f \in fills : f.o = o}))
      fee(o) == IF o.id \in DOMAIN records THEN records[o.id] ELSE First({f \in fills : f.o = o}).fee
  IN [sum |-> MapThenSumSet(fee, {o \in orders : known(o)}), complete |-> \A o \in orders : known(o)]

Friction(exit) == exit \div 10

(* The value of a fund share when it was redeemed, if the market data has  *)
(* it.                                                                     *)
loadRedemptionIOPV(o, available) == IF available THEN {Iopv(o)} ELSE {}

(* calculateT0Contribution *)
T0Item(group, fills, transfers, links, records, iopv) ==
  LET r == group.redemption
      buys == UNION {FillsOf(o, fills) : o \in group.buys}
      sales == {[l.fill EXCEPT !.qty = l.qty] : l \in {x \in links : x.group = r}}
      buy == MapThenSumSet(Amount, buys)
      linked == MapThenSumSet(Amount, sales)
      reference == loadRedemptionIOPV(r, iopv)
      exit == MapThenSumSet(LAMBDA v : group.target * v, reference)
      fee == ExecutionFee(buys \cup FillsOf(r, fills) \cup sales, records)
      complete == GroupComplete(transfers, links, r)
      valued == reference # {} /\ group.exact
  IN [status |-> IF valued THEN "estimated" ELSE "missing", complete |-> complete,
      quantity |-> group.target, bought |-> Quantity(buys), buy |-> buy, linked |-> linked,
      net |-> IF valued THEN exit - buy - Friction(exit) ELSE 0,
      estimatedFee |-> IF valued THEN Friction(exit) ELSE 0,
      settlement |-> IF valued /\ complete THEN exit - linked - Friction(exit) + fee.sum ELSE 0,
      feePending |-> ~ fee.complete]

(* applyETFSettlementFinalizations for the one fund: the confirmed figures *)
(* replace the items of all its groups when the traded amounts agree.      *)
FinalMatches(final, items) ==
  LET sum(field) == FoldLeft(LAMBDA a, i : a + i[field], 0, items)
  IN /\ items # <<>> /\ final.quantity = sum("quantity") /\ final.quantity = sum("bought")
     /\ final.buy = sum("buy") /\ final.sales = sum("linked")

FinalItem(final) ==
  [status |-> "calculated", complete |-> TRUE, quantity |-> final.quantity, bought |-> final.quantity,
   buy |-> final.buy, linked |-> final.sales, net |-> final.sales + final.cash - final.buy - final.fee,
   estimatedFee |-> 0, settlement |-> final.carry, feePending |-> FALSE]

-----------------------------------------------------------------------------
(* The quantities of a bucket must lead from the open to the close; a      *)
(* position row exists for what is held.                                   *)
MutBridgeBroken(s, bought, sold) ==    \* mutant: not checked without a row on both sides
  open[s] > 0 /\ CloseQty(s) > 0 /\ open[s] + bought - sold # CloseQty(s)
BridgeBroken(s, bought, sold) ==
  \/ open[s] = 0 /\ CloseQty(s) # bought - sold
  \/ CloseQty(s) = 0 /\ open[s] + bought - sold # 0
  \/ open[s] > 0 /\ CloseQty(s) > 0 /\ open[s] + bought - sold # CloseQty(s)

(* calculateOrdinaryContribution.  Sums over the bucket's fills, then the  *)
(* checks that refuse to value it.                                         *)
Ordinary(s, fills, links, records, ruleFee, redeemed) ==
  LET own == {f \in ToSet(fills) : f.o.sec = s}
      bought == {f \in own : f.o.side = "buy"}
      sold == {f \in own : f.o.side = "sell"}
      hasOpen == open[s] > 0
      hasClose == CloseQty(s) > 0
      excluded == /\ redeemed /\ ~ hasOpen /\ ~ hasClose /\ s # ETF
                  /\ own # {} /\ own = sold /\ \A f \in own : Excluded(links, f)
      fees == IF excluded THEN [actual |-> 0, estimated |-> 0] ELSE Fees(own, records, ruleFee)
      broken == BridgeBroken(s, Quantity(bought), Quantity(sold))
      gross == CloseQty(s) * Close[s] + MapThenSumSet(Amount, sold)
                 - MapThenSumSet(Amount, bought) - open[s] * PreClose[s]
  IN [status |-> CASE excluded -> "excluded" [] broken /\ ~ excluded -> "missing" [] OTHER -> "calculated",
      net |-> IF excluded \/ broken THEN 0 ELSE gross - fees.actual - fees.estimated,
      estimatedFee |-> fees.estimated]

(* calculateOrderFeeDayCoverageWithSettlement *)
Covered(fills, records, settled, o) ==
  \/ o.id \in DOMAIN records \/ o \in settled \/ \A f \in FillsOf(o, fills) : HasFee(f)

-----------------------------------------------------------------------------
(* filterContributionFills and buildContributionBuckets: a bucket for what *)
(* is held, or still has fills once the redemption groups took theirs.     *)
Rest(fills, groups) == SelectSeq(fills, LAMBDA f : f.o \notin Consumed(groups))
Buckets(fills) ==
  {s \in Securities : open[s] > 0 \/ CloseQty(s) > 0 \/ \E f \in ToSet(fills) : f.o.sec = s}

(* finalizeContributionResult: the sums over the items of the redemption   *)
(* groups, a sequence, and of the securities, a function.                  *)
Summary(t0, items) ==
  LET t0Sum(field) == FoldLeft(LAMBDA a, i : a + i[field], 0, t0)
  IN [net |-> t0Sum("net") + MapThenSumSet(LAMBDA s : items[s].net, DOMAIN items),
      settlement |-> t0Sum("settlement"),
      missing |-> \/ \E i \in DOMAIN t0 : t0[i].status = "missing"
                  \/ \E s \in DOMAIN items : items[s].status = "missing",
      feePending |-> \E i \in DOMAIN t0 : t0[i].feePending]

(* calculateContributions.                                                 *)
Contributions(feeBy, iopv, ruleFee, final) ==
  LET reported == Dedupe(FillRows(feeBy))
      records == Records(feeBy)
      links == SaleLinks(reported, TransferRows)
      fills == WithRedemptions(reported, TransferRows)
      groups == T0Groups(Orders, fills)
      estimates == [i \in DOMAIN groups |-> T0Item(groups[i], fills, TransferRows, links, records, iopv)]
      applied == final # <<>> /\ FinalMatches(final, estimates)
      t0 == IF applied THEN <<FinalItem(final)>> ELSE estimates
      settled == IF applied THEN Consumed(groups) \cup {l.fill.o : l \in links} ELSE {}
      rest == Rest(fills, groups)
      items == [s \in Buckets(rest) |-> Ordinary(s, rest, links, records, ruleFee, groups # <<>>)]
      sum == Summary(t0, items)
  IN [sum |-> sum, items |-> items,
      mismatch |-> \/ \E i \in DOMAIN t0 : ~ t0[i].complete
                   \/ \E t \in ToSet(TransferRows) : ~ GroupComplete(TransferRows, links, t.o),
      covered |-> \A f \in ToSet(reported) : Covered(reported, records, settled, f.o),
      final |-> applied, links |-> links, groups |-> groups, fills |-> fills, feeBy |-> feeBy]

(* What a broker's settlement of the fund says: the purchases that fed the *)
(* redemptions, the sales of what was delivered, the cash and all fees.    *)
TrueFills(s, side) == UNION {RealFills(d) : d \in Of(s, side)}
FinalAmounts ==
  LET orders == Of(ETF, "buy") \cup Of(ETF, "redeem") \cup Of(Component, "sell")
      cash == Cash * Traded(ETF, "redeem")
  IN [quantity |-> Traded(ETF, "redeem"), buy |-> MapThenSumSet(Amount, TrueFills(ETF, "buy")),
      sales |-> MapThenSumSet(Amount, TrueFills(Component, "sell")), cash |-> cash,
      fee |-> MapThenSumSet(LAMBDA d : OrderFee(d.o), orders), carry |-> cash]

ListETFSettlementFinalizations(confirmed) == IF confirmed THEN FinalAmounts ELSE <<>>

Calculate(k) ==
  /\ result = <<>> /\ day # <<>>
  /\ k.final => Traded(ETF, "redeem") > 0
  /\ result' = <<Contributions(k.feeBy, k.iopv, 2, ListETFSettlementFinalizations(k.final))>>
  /\ UNCHANGED <<open, day>>

-----------------------------------------------------------------------------
Init == open \in Openings /\ day = <<>> /\ result = <<>>

Next == \/ \E t \in Menu : Place(t)
        \/ \E k \in Inputs : Calculate(k)

Spec == Init /\ [][Next]_vars

-----------------------------------------------------------------------------
(* The account's gain of the day as the economic NAV has it: the broker's  *)
(* cash and positions, and the settlement still to come as the view        *)
(* estimates it.                                                           *)
AccountDayPnL(r) ==
  LET fills == UNION {RealFills(d) : d \in Day}
      side(x) == MapThenSumSet(Amount, {f \in fills : f.o.side = x})
  IN side("sell") - side("buy") - MapThenSumSet(LAMBDA f : f.fee, fills)
       + MapThenSumSet(LAMBDA s : CloseQty(s) * Close[s] - open[s] * PreClose[s], Securities)
       + r.sum.settlement

Shown == ToSet(result)

(* What the view shows of the account and of a security.                   *)
ContributionSummary == [net : Int, settlement : Int, missing : BOOLEAN, feePending : BOOLEAN]
SecurityContribution ==
  [status : {"calculated", "estimated", "missing", "excluded"}, net : Int, estimatedFee : Nat]

(* The types; nothing is sold that is not held or delivered.               *)
TypeOK ==
  /\ open \in Openings /\ Len(day) <= MaxOrders /\ Len(result) <= 1
  /\ \A s \in Securities : CloseQty(s) \in Nat
  /\ \A r \in Shown : /\ r.sum \in ContributionSummary
                      /\ \A s \in DOMAIN r.items : r.items[s] \in SecurityContribution
                      /\ {r.mismatch, r.covered, r.final} \subseteq BOOLEAN

(* A fee is counted once when a sale serves one redemption and an order    *)
(* with fees on its fills has one fill: t0ActualExecutionFee otherwise     *)
(* adds an order's fee in two groups, or only that of its first fill.      *)
FeeOncePerOrder(r) ==
  /\ \A k, l \in r.links : k.fill.o = l.fill.o => k.group = l.group
  /\ r.feeBy = "fill" => \A f, g \in ToSet(r.fills) : f.o = g.o => f = g

(* A lost sale of a component can hide behind a linked one when the share  *)
(* was also held: the quantities then agree.                               *)
NoHiddenLoss(r) ==
  (\A d \in Day : ~ Lost(d)) \/ (\A l \in r.links : open[l.fill.o.sec] = 0)

(* Whenever the view shows nothing missing, no open transfer and complete  *)
(* fees, its contributions add up to the account's gain: no fill is left   *)
(* out or valued twice, however the orders were reported, even when the    *)
(* report of one of them was lost, but for the two cases above; and TypeOK.*)
AttributionCloses ==
  /\ TypeOK
  /\ \A r \in Shown :
       (/\ ~ r.sum.missing /\ ~ r.mismatch /\ ~ r.sum.feePending /\ r.covered
        /\ FeeOncePerOrder(r) /\ NoHiddenLoss(r))
       => AccountDayPnL(r) = r.sum.net

(* No share is counted twice: a purchase feeds one redemption, exactly;    *)
(* a linked sale is linked in full, within what its redemptions delivered. *)
EachShareOnce ==
  \A r \in Shown :
    /\ \A i, j \in DOMAIN r.groups : i # j => r.groups[i].buys \cap r.groups[j].buys = {}
    /\ \A l \in r.links : Quantity({k \in r.links : k.fill = l.fill}) = l.fill.qty
    /\ \A d \in Of(ETF, "redeem") :
         Quantity({k \in r.links : k.group = d.o}) <= Basket * Total(d)
=============================================================================
