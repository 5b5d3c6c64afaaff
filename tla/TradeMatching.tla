--------------------------- MODULE TradeMatching ---------------------------
(***************************************************************************)
(* How a day's ledger rows are matched before they are valued: summary     *)
(* fills give way to real ones, redemptions are completed from the         *)
(* transfer ledger, component sales are linked to the redemptions that     *)
(* delivered the shares, and purchases are grouped with the redemptions    *)
(* they fed.  The contribution view and the cost ledger share it.          *)
(*                                                                         *)
(* An order is [id, sec, side, t0, basket]; orders are numbered in the     *)
(* order of their times, and the fills of an order share its time.  A fill *)
(* is [o, n, qty, price, fee]: n = 0 for the relay-summary row, fee = -1   *)
(* when the gateway gave none.  A transfer is [o, sec, qty, cash].  Lists  *)
(* are in time order, as the code sorts them.                              *)
(***************************************************************************)
EXTENDS Integers, Sequences, FiniteSets, FiniteSetsExt, SequencesExt

Amount(f) == f.price * f.qty
Quantity(S) == MapThenSumSet(LAMBDA f : f.qty, S)
FillsOf(o, fills) == {f \in ToSet(fills) : f.o = o}

-----------------------------------------------------------------------------
(* dedupeContributionFills: a summary row counts while its order has no    *)
(* other.                                                                  *)
Dedupe(fills) ==
  SelectSeq(fills, LAMBDA f : f.n # 0 \/ \A g \in FillsOf(f.o, fills) : g.n = 0)

(* redemptionFillsFromComponentTransfers: a redemption the fills do not    *)
(* show is taken from the leg of its own ETF.                              *)
RedemptionFills(fills, transfers) ==
  LET legs == SelectSeq(transfers, LAMBDA t : t.sec = t.o.sec /\ FillsOf(t.o, fills) = {})
  IN [i \in DOMAIN legs |-> [o |-> legs[i].o, n |-> 1, qty |-> legs[i].qty, price |-> 0, fee |-> -1]]

WithRedemptions(fills, transfers) ==
  Dedupe(fills \o RedemptionFills(fills, transfers))

-----------------------------------------------------------------------------
(* buildComponentSaleLinks.  A link is [fill, group, qty], its group the   *)
(* redemption order.                                                       *)
Deliveries(transfers, g) ==
  {t \in ToSet(transfers) : t.o = g /\ t.sec # g.sec /\ ~ t.cash}
Expected(transfers, g, s) == Quantity({t \in Deliveries(transfers, g) : t.sec = s})
Linked(links, g, s) == Quantity({l \in links : l.group = g /\ l.fill.o.sec = s})

(* A basket names its root, the ETF; a sale without one fits any group.    *)
SameBasket(f, g) == f.o.basket = "" \/ f.o.basket = g.sec

(* Mutant: what the groups have room for is linked, the rest is dropped.   *)
MutLink(transfers, links, f) ==
  LET room(g) == Expected(transfers, g, f.o.sec) - Linked(links, g, f.o.sec)
      eligible == {g \in {t.o : t \in ToSet(transfers)} : room(g) > 0 /\ g.id <= f.o.id}
      newer(g) == MapThenSumSet(room, {h \in eligible : h.id > g.id})
      share(g) == Min({room(g), f.qty - newer(g)})
  IN links \cup {[fill |-> f, group |-> g, qty |-> share(g)] :
                   g \in {h \in eligible : share(h) > 0}}

(* A sale is split over the groups still waiting for it, the newest first, *)
(* and is linked as a whole or not at all.                                 *)
Link(transfers, links, f) ==
  LET room(g) == Expected(transfers, g, f.o.sec) - Linked(links, g, f.o.sec)
      eligible == {g \in {t.o : t \in ToSet(transfers)} :
                     SameBasket(f, g) /\ room(g) > 0 /\ g.id <= f.o.id}
      newer(g) == MapThenSumSet(room, {h \in eligible : h.id > g.id})
      share(g) == Min({room(g), f.qty - newer(g)})
  IN IF MapThenSumSet(room, eligible) < f.qty THEN links
     ELSE links \cup {[fill |-> f, group |-> g, qty |-> share(g)] :
                        g \in {h \in eligible : share(h) > 0}}

SaleLinks(fills, transfers) ==
  LET sales == SelectSeq(fills, LAMBDA f : f.o.side = "sell")
  IN FoldLeft(LAMBDA links, f : Link(transfers, links, f), {}, sales)

(* componentTransferGroupComplete: everything delivered has been sold.     *)
GroupComplete(transfers, links, g) ==
  /\ Deliveries(transfers, g) # {}
  /\ \A t \in Deliveries(transfers, g) : Expected(transfers, g, t.sec) = Linked(links, g, t.sec)

Excluded(links, f) == \E l \in links : l.fill = f

-----------------------------------------------------------------------------
(* buildT0Groups.  Going back from the redemption, purchases are taken as  *)
(* long as they do not exceed it; only an exact match makes a group.       *)
Filled(o, fills) == Quantity(FillsOf(o, fills))
Newest(S) == SetToSortSeq(S, LAMBDA a, b : a.id > b.id)

Candidates(orders, fills, taken, r) ==
  {o \in orders \ taken : /\ o.sec = r.sec /\ o.side = "buy" /\ o.id < r.id
                          /\ r.t0 = "" \/ o.t0 = r.t0
                          /\ Filled(o, fills) > 0}

Select(candidates, fills, target) ==
  FoldLeft(LAMBDA chosen, o :
             IF Quantity(UNION {FillsOf(c, fills) : c \in chosen \cup {o}}) > target
             THEN chosen ELSE chosen \cup {o},
           {}, Newest(candidates))

T0Group(orders, fills, taken, r) ==
  LET candidates == Candidates(orders, fills, taken, r)
      target == Filled(r, fills)
      chosen == Select(candidates, fills, target)
      bought(S) == Quantity(UNION {FillsOf(o, fills) : o \in S})
      exact == bought(chosen) = target
  IN [redemption |-> r, target |-> target, explicit |-> r.t0 # "", exact |-> exact,
      buys |-> IF exact THEN chosen ELSE {},
      ambiguous |-> exact /\ r.t0 = "" /\ bought(candidates) > target]

(* The redemptions in the order of their times; each takes what it uses.   *)
T0Groups(orders, fills) ==
  LET redemptions == SetToSortSeq({f.o : f \in {x \in ToSet(fills) : x.o.side = "redeem"}},
                                  LAMBDA a, b : a.id < b.id)
  IN FoldLeft(LAMBDA groups, r :
                Append(groups, T0Group(orders, fills,
                                       UNION {groups[i].buys : i \in DOMAIN groups}, r)),
              <<>>, redemptions)

Consumed(groups) ==
  UNION {groups[i].buys \cup {groups[i].redemption} : i \in DOMAIN groups}

-----------------------------------------------------------------------------
(* contributionFeeForFill over the fills of a bucket: the record of an     *)
(* order counts once, a fill's own fee and the estimate of the fee rule    *)
(* for every fill.                                                         *)
HasFee(f) == f.fee >= 0
calculateContributionFillFee(f, ruleFee) ==
  IF HasFee(f) THEN [actual |-> f.fee, estimated |-> 0] ELSE [actual |-> 0, estimated |-> ruleFee]
Fees(fills, records, ruleFee) ==
  LET recorded == {o \in {f.o : f \in fills} : o.id \in DOMAIN records}
      single == {f \in fills : f.o \notin recorded}
      sum(field) == MapThenSumSet(LAMBDA f : calculateContributionFillFee(f, ruleFee)[field], single)
  IN [actual |-> MapThenSumSet(LAMBDA o : records[o.id], recorded) + sum("actual"),
      estimated |-> sum("estimated")]
=============================================================================
