----------------------------- MODULE CostLedger -----------------------------
(***************************************************************************)
(* The position cost ledger of one account: a chain of daily rows, one per *)
(* security and cost bucket, each calculated from the rows of the day      *)
(* before and the day's fills (CalculateCostLedger).  Days are calculated  *)
(* in any order, again, at the same time and while fills are still being   *)
(* reported; rows are written one by one, and a calculation may die.  What *)
(* a calculation hears of the calendar, the prices, the fee rules and the  *)
(* component transfers is an input: each of these reads may fail.          *)
(***************************************************************************)
EXTENDS TradeMatching

CONSTANTS S, F,          \* a share, and a fund that delivers one S for one F
          Jobs, D, Menu, Nights, MaxOrders, MaxLate, MaxRuns,
          Inceptions,    \* [open, source, clean]; Nights[d]: [factor, known, trusted]
          Markets        \* what a calculation is told

Securities == {S, F}

ASSUME CostLedgerAssumption ==
  /\ S # F /\ {D, MaxOrders, MaxLate, MaxRuns} \subseteq Nat
  /\ \A i \in Inceptions : /\ i.open \in [Securities -> Nat] /\ i.clean \in BOOLEAN
                           /\ i.source \in {"broker_open_snapshot", "pre_close"}
  /\ \A m \in Markets : /\ {m.calendar, m.rules, m.transfers} \subseteq BOOLEAN
                        /\ m.preClose \subseteq Securities /\ m.close \subseteq Securities

VARIABLES inception,
          day,     \* the days so far: [open, acts, factor, known, trusted]
          ended,   \* whether the last of them is closed
          rows,    \* performance_position_cost_states
          jobs,    \* the rows each calculation under way has still to write
          runs

vars == <<inception, day, ended, rows, jobs, runs>>

-----------------------------------------------------------------------------
(* The broker: orders are executed at once, and reported then or later.    *)
PreClose == 10
Acts(d) == ToSet(day[d].acts)
Traded(d, s, side) ==
  MapThenSumSet(LAMBDA a : a.qty, {a \in Acts(d) : a.o.sec = s /\ a.o.side = side})
CloseQty(d, s) ==
  day[d].open[s] + Traded(d, s, "buy") - Traded(d, s, "sell")
    + (IF s = S THEN Traded(d, F, "redeem") ELSE - Traded(d, F, "redeem"))
Late == UNION {{<<d, a>> : a \in {x \in Acts(d) : ~ x.seen}} : d \in DOMAIN day}

Feasible(d, t) ==
  \/ t.side = "buy"
  \/ t.side = "sell" /\ t.qty <= day[d].open[t.sec] - Traded(d, t.sec, "sell")
                                   + (IF t.sec = S THEN Traded(d, F, "redeem") ELSE 0)
  \/ t.side = "redeem" /\ t.qty <= CloseQty(d, F)

Place(t, seen) ==
  LET d == Len(day) IN
  /\ ~ ended /\ Feasible(d, t)
  /\ FoldLeft(LAMBDA n, x : n + Len(x.acts), 0, day) < MaxOrders
  /\ (~ seen => Cardinality(Late) < MaxLate)
  /\ day' = [day EXCEPT ![d].acts = Append(@,
       [o |-> [id |-> Len(day[d].acts) + 1, sec |-> t.sec, side |-> t.side, t0 |-> "", basket |-> ""],
        qty |-> t.qty, price |-> t.price, seen |-> seen])]
  /\ UNCHANGED <<inception, ended, rows, jobs, runs>>

Report(d, i) ==
  /\ ~ day[d].acts[i].seen
  /\ day' = [day EXCEPT ![d].acts[i].seen = TRUE]
  /\ UNCHANGED <<inception, ended, rows, jobs, runs>>

EndOfDay == ~ ended /\ ended' = TRUE /\ UNCHANGED <<inception, day, rows, jobs, runs>>

(* Overnight S may be split; the factor of the split may not be known.     *)
NextDay(night) ==
  LET d == Len(day) IN
  /\ ended /\ d < D /\ night \in Nights[d]
  /\ day' = Append(day, [open |-> [s \in Securities |-> CloseQty(d, s) * (IF s = S THEN night.factor ELSE 1)],
                         acts |-> <<>>, factor |-> night.factor, known |-> night.known,
                         trusted |-> night.trusted])
  /\ ended' = FALSE
  /\ UNCHANGED <<inception, rows, jobs, runs>>

-----------------------------------------------------------------------------
(* The fills of a day without the sales of what a redemption delivered,    *)
(* which are no sales of the position, and the redemption groups.          *)
Reported(d) == SelectSeq(day[d].acts, LAMBDA a : a.seen)
FillsAsReported(acts) ==
  [i \in DOMAIN acts |-> [o |-> acts[i].o, n |-> 1, qty |-> acts[i].qty, price |-> acts[i].price, fee |-> 1]]
Transfers(acts) ==
  FlattenSeq([i \in DOMAIN acts |->
    LET a == acts[i]
    IN IF a.o.side # "redeem" THEN <<>>
       ELSE <<[o |-> a.o, sec |-> F, qty |-> a.qty, cash |-> FALSE],
              [o |-> a.o, sec |-> S, qty |-> a.qty, cash |-> FALSE]>>])

Unlinked(fills, links) == SelectSeq(fills, LAMBDA f : ~ Excluded(links, f))
OrdinaryFills(acts, transfers) ==
  Unlinked(FillsAsReported(acts), SaleLinks(FillsAsReported(acts), transfers))
Groups(fills) == T0Groups({f.o : f \in ToSet(fills)}, fills)

(* buildT0CostBuckets *)
T0Row(d, g) ==
  [d |-> d, sec |-> g.redemption.sec, bucket |-> g.redemption.id, qty |-> 0, cost |-> 0, residual |-> 0,
   status |-> IF ~ g.exact \/ g.target = 0 \/ g.ambiguous THEN "blocked"
              ELSE IF g.explicit THEN "calculated" ELSE "estimated",
   lacks |-> FALSE]

-----------------------------------------------------------------------------
(* The working state of a security, [qty, cost, bad], how a fill moves it, *)
(* and (a ghost) whether a fee or, for want of a calendar, a day is        *)
(* missing in it.                                                          *)
FillStep(w, f) ==
  CASE f.o.side = "buy" -> [w EXCEPT !.qty = @ + f.qty, !.cost = @ + Amount(f) + f.fee]
    [] f.o.side = "sell" /\ f.qty > w.qty -> [w EXCEPT !.bad = TRUE]
    [] f.o.side = "sell" /\ f.qty <= w.qty ->
         [w EXCEPT !.qty = @ - f.qty,
                   !.cost = IF w.qty = f.qty THEN 0 ELSE @ - (w.cost * f.qty) \div w.qty]
    [] OTHER -> [w EXCEPT !.bad = TRUE]

(* The fills of the ordinary bucket, and those of one security applied.    *)
Ungrouped(fills, groups) ==
  LET consumed == Consumed(groups) IN SelectSeq(fills, LAMBDA f : f.o \notin consumed)
CoreFills(fills) == Ungrouped(fills, Groups(fills))
AfterFills(core, s, w) == FoldLeft(FillStep, w, SelectSeq(core, LAMBDA f : f.o.sec = s))

(* What the account really paid: the replay of every fill since inception, *)
(* which has no answer once a fund held overnight was redeemed.            *)
Reopened(d, s, w) == IF d = 1 \/ w.qty = 0 THEN w ELSE [w EXCEPT !.qty = day[d].open[s]]
Closed(d, s, w) == [w EXCEPT !.bad = @ \/ w.qty # CloseQty(d, s)]
ReplayedDay(d, before, core) ==
  [s \in Securities |-> Closed(d, s, AfterFills(core, s, Reopened(d, s, before[s])))]
TrueCost[d \in 0..D] ==
  IF d = 0 THEN [s \in Securities |-> [qty |-> inception.open[s], cost |-> PreClose * inception.open[s], bad |-> FALSE]]
  ELSE ReplayedDay(d, TrueCost[d - 1], CoreFills(OrdinaryFills(day[d].acts, Transfers(day[d].acts))))

(* trustedBrokerPositionCost: the broker keeps the same cost, if it tells. *)
BrokerOpen(d, s) ==
  [qty |-> day[d].open[s], bad |-> day[d].open[s] > 0 /\ ~ day[d].trusted,
   cost |-> IF day[d].trusted /\ day[d].open[s] > 0 THEN TrueCost[d - 1][s].cost ELSE 0,
   lacks |-> FALSE]

Held(d) == {s \in Securities : day[d].open[s] > 0}
Touched(d, fills) == {f.o.sec : f \in ToSet(fills)} \cup {s \in Securities : CloseQty(d, s) > 0}

-----------------------------------------------------------------------------
(* listLatestPositionCostStatesBefore, previousCostStateGap,               *)
(* positionCostStatesAreFlat.                                              *)
Previous(d) ==
  LET before == {r \in rows : r.d < d}
  IN {r \in before : \A q \in before : q.d <= r.d}
MutGap(d, previous, m) == FALSE    \* mutant: the date of the rows is not checked
Gap(d, previous, m) == m.calendar /\ \E r \in previous : r.d # d - 1
Flat(previous) ==
  /\ previous # {}
  /\ \A r \in previous : r.status # "blocked" /\ r.residual = 0 /\ r.qty = 0 /\ r.cost = 0

(* applyCorporateActionOpening: the quantity must be that of the row, or   *)
(* that of the row times the factor, within one share; the cost stays.     *)
MutOpening(d, s, w) ==     \* mutant: a split is not followed
  IF w.qty = day[d].open[s] THEN w ELSE [w EXCEPT !.bad = TRUE]
(* loadCorporateActionFactors: the securities whose factor of the day is   *)
(* known, with the factor.                                                 *)
loadCorporateActionFactors(d) ==
  [s \in (IF day[d].known /\ day[d].factor > 1 THEN {S} ELSE {}) |-> day[d].factor]
Opening(d, s, w) ==
  LET open == day[d].open[s]
      factors == loadCorporateActionFactors(d)
  IN IF w.qty = open THEN w
     ELSE IF s \in DOMAIN factors /\ open - w.qty * factors[s] \in -1..1 THEN [w EXCEPT !.qty = open]
     ELSE [w EXCEPT !.bad = TRUE]

Empty == [qty |-> 0, cost |-> 0, bad |-> FALSE, lacks |-> FALSE]

(* applyMeridianPreCloseInceptionCosts: without a price it is blocked.     *)
AtPreClose(s, m) ==
  LET unpriced == inception.open[s] > 0 /\ s \notin m.preClose
  IN [Empty EXCEPT !.qty = inception.open[s], !.bad = unpriced,
                   !.cost = IF unpriced THEN 0 ELSE PreClose * inception.open[s]]
FromInception(s, m) == IF inception.source = "pre_close" THEN AtPreClose(s, m) ELSE BrokerOpen(1, s)
FromRow(d, r, m) ==
  [qty |-> r.qty, cost |-> r.cost, bad |-> r.status = "blocked",
   lacks |-> r.lacks \/ (~ m.calendar /\ r.d # d - 1)]

(* How a calculation of day d opens.                                       *)
OpeningSource(d, m) ==
  LET previous == Previous(d)
      continued == inception.clean /\ Held(d) = {} /\ Flat(previous)
      gap == Gap(d, previous, m) /\ ~ continued
      anchor == inception.source = "broker_open_snapshot"
  IN CASE d = 1 -> "inception"
       [] d > 1 /\ (gap \/ (previous = {} /\ Held(d) # {})) /\ anchor -> "reanchor"
       [] d > 1 /\ gap /\ ~ anchor -> "blocked"
       [] d > 1 /\ previous = {} /\ ~ (Held(d) # {} /\ anchor) ->
            IF inception.clean /\ Held(d) = {} THEN "empty" ELSE "blocked"
       [] OTHER -> "previous"

(* CalculateCostLedger.  A quantity the broker does not have, or a close   *)
(* without a price, blocks the row; a fill without a fee rule costs no fee *)
(* and makes it an estimate.                                               *)
Row(d, s, after, m, uncharged) ==
  LET residual == CloseQty(d, s) - after.qty
      blocked == after.bad \/ residual # 0 \/ (CloseQty(d, s) > 0 /\ s \notin m.close)
  IN [d |-> d, sec |-> s, bucket |-> 0, qty |-> after.qty, cost |-> Max({0, after.cost}), residual |-> residual,
      status |-> IF blocked THEN "blocked" ELSE IF uncharged THEN "estimated" ELSE "calculated",
      lacks |-> after.lacks \/ uncharged]

(* The working states the source gives, of the securities it knows.        *)
Opened(d, source, m) ==
  LET core == {r \in Previous(d) : r.bucket = 0 /\ r.qty # 0}
      known == IF source = "previous" THEN {r.sec : r \in core}
               ELSE IF source = "empty" THEN {} ELSE Held(d)
  IN [s \in known |-> CASE source = "inception" -> FromInception(s, m)
                         [] source = "reanchor" -> BrokerOpen(d, s)
                         [] OTHER -> FromRow(d, CHOOSE r \in core : r.sec = s, m)]

(* What is traded or still held without a row starts empty, what was only  *)
(* held starts bad.                                                        *)
StartOf(d, s, opened, touched, checked) ==
  IF s \in DOMAIN opened THEN IF checked THEN Opening(d, s, opened[s]) ELSE opened[s]
  ELSE IF ~ checked THEN Empty
  ELSE IF s \in touched THEN Opening(d, s, Empty) ELSE [BrokerOpen(d, s) EXCEPT !.bad = TRUE]

(* calculateContributionFillFee: without a rule the fee is zero.           *)
Charged(fills, m) == [i \in DOMAIN fills |-> [fills[i] EXCEPT !.fee = IF m.rules THEN @ ELSE 0]]
CoreRows(d, opened, touched, checked, core, m) ==
  {Row(d, s, AfterFills(core, s, StartOf(d, s, opened, touched, checked)), m,
       ~ m.rules /\ \E f \in ToSet(core) : f.o.sec = s) :
     s \in DOMAIN opened \cup touched \cup (IF checked THEN Held(d) ELSE {})}
T0Rows(d, groups) == {T0Row(d, groups[i]) : i \in DOMAIN groups}

CalculateFrom(d, source, fills, m) ==
  IF source = "blocked" THEN {}
  ELSE CoreRows(d, Opened(d, source, m), Touched(d, fills), source \in {"previous", "empty"},
                Charged(CoreFills(fills), m), m)
         \cup T0Rows(d, Groups(fills))

(* The transfers a calculation has read; it goes on if it could not.       *)
listContributionComponentTransfers(acts, m) == IF m.transfers THEN Transfers(acts) ELSE <<>>
FillsOfDay(d, m) == OrdinaryFills(Reported(d), listContributionComponentTransfers(Reported(d), m))
Calculated(d, m) == CalculateFrom(d, OpeningSource(d, m), FillsOfDay(d, m), m)

-----------------------------------------------------------------------------
(* A calculation reads, then upserts its rows one at a time, first those   *)
(* of the redemptions, then by the codes of the securities (that of a fund *)
(* before that of a share), unless the process dies.                       *)
Start(j, d, m) ==
  /\ jobs[j] = {} /\ runs < MaxRuns /\ (d < Len(day) \/ ended)
  /\ runs' = runs + 1
  /\ jobs' = [jobs EXCEPT ![j] = Calculated(d, m)]
  /\ UNCHANGED <<inception, day, ended, rows>>

SameKey(r, q) == r.d = q.d /\ r.sec = q.sec /\ r.bucket = q.bucket
Rank(r) == IF r.bucket > 0 THEN 0 ELSE IF r.sec = F THEN 1 ELSE 2
UpsertRow(j) ==
  \E r \in jobs[j] :
    /\ \A q \in jobs[j] : Rank(r) <= Rank(q)
    /\ rows' = {q \in rows : ~ SameKey(q, r)} \cup {r}
    /\ jobs' = [jobs EXCEPT ![j] = @ \ {r}]
    /\ UNCHANGED <<inception, day, ended, runs>>

Die(j) ==
  /\ jobs[j] # {}
  /\ jobs' = [jobs EXCEPT ![j] = {}]
  /\ UNCHANGED <<inception, day, ended, rows, runs>>

-----------------------------------------------------------------------------
Init ==
  /\ inception \in Inceptions
  /\ day = <<[open |-> inception.open, acts |-> <<>>, factor |-> 1, known |-> TRUE, trusted |-> TRUE]>>
  /\ ended = FALSE /\ rows = {} /\ jobs = [j \in Jobs |-> {}] /\ runs = 0

Next ==
  \/ \E t \in Menu, seen \in BOOLEAN : Place(t, seen)
  \/ \E d \in DOMAIN day : \E i \in DOMAIN day[d].acts : Report(d, i)
  \/ EndOfDay
  \/ \E night \in UNION {Nights[d] : d \in DOMAIN Nights} : NextDay(night)
  \/ \E j \in Jobs : UpsertRow(j) \/ Die(j) \/ \E d \in DOMAIN day, m \in Markets : Start(j, d, m)

Spec == Init /\ [][Next]_vars

-----------------------------------------------------------------------------
Complete(d) == \A e \in 1..d : \A a \in Acts(e) : a.seen

(* A row of position_cost_states; bucket 0 is that of the ordinary trades. *)
PositionCostState ==
  [d : DOMAIN day, sec : Securities, bucket : 0..MaxOrders, qty : Nat, cost : Nat, residual : Int,
   status : {"calculated", "estimated", "blocked"}, lacks : BOOLEAN]

PerformanceInception ==
  [open : [Securities -> Nat], source : {"broker_open_snapshot", "pre_close"}, clean : BOOLEAN]

(* Quantities and costs are no debts, and a row is unique by its key.      *)
TypeOK ==
  /\ inception \in PerformanceInception
  /\ \A d \in DOMAIN day : \A s \in Securities : day[d].open[s] \in Nat /\ CloseQty(d, s) \in Nat
  /\ rows \subseteq PositionCostState
  /\ \A r, q \in rows : (r.d = q.d /\ r.sec = q.sec /\ r.bucket = q.bucket) => r = q

(* A row that is not blocked has the quantity and the moving average cost  *)
(* that the replay of all fills since inception gives, whatever days were  *)
(* skipped, calculated out of order, twice at once, left half written, or  *)
(* calculated while a report was missing or a read of prices or transfers  *)
(* failed (CalculateCostLedger).  Excepted are the rows that lack a fee    *)
(* for want of a rule, or a day because the calendar was silent over a     *)
(* gap, and what continues them.  Two missing reports that cancel out      *)
(* would not be noticed: MaxLate is 1.  Rows are unique by key (TypeOK).   *)
CostIsReplayed ==
  /\ TypeOK
  /\ \A d \in DOMAIN day :
       LET replayed == TrueCost[d]
       IN  \A r \in rows :
             r.d = d /\ r.bucket = 0 /\ r.status # "blocked" /\ ~ r.lacks /\ ~ replayed[r.sec].bad
               => r.qty = replayed[r.sec].qty /\ r.cost = replayed[r.sec].cost

Followed(d) ==
  /\ Complete(d)
  /\ (day[d].factor > 1 => day[d].known)
  /\ Traded(d, F, "redeem") = 0
Concerned(e) ==
  Touched(e, OrdinaryFills(Reported(e), Transfers(Reported(e)))) \cup Held(e)
Settled(e) ==
  \A s \in Concerned(e) :
     \E r \in rows : r.d = e /\ r.sec = s /\ r.bucket = 0 /\ r.status # "blocked"
FlatDay(e) == Concerned(e) = {}

(* Meridian knows the prices the day needs: the close of what is held at   *)
(* its end and, at the inception, the close before it of what was held.    *)
Priced(d, m) ==
  /\ \A s \in Securities : CloseQty(d, s) > 0 => s \in m.close
  /\ d = 1 /\ inception.source = "pre_close" => Held(1) \subseteq m.preClose

(* The chain goes on: when every day before was calculated, completely and *)
(* unblocked, and this day was reported, priced, traded and split as the   *)
(* ledger can follow, nothing of this day is blocked, whether or not the   *)
(* calendar, the fee rules and the component transfers can be read.        *)
ChainContinues ==
  \A d \in DOMAIN day :
    (/\ d < Len(day) \/ ended
     /\ \A e \in 1..d : Followed(e)
     /\ \A e \in 1..(d - 1) : Settled(e) /\ ~ FlatDay(e))
    => \A m \in Markets : Priced(d, m) =>
         /\ OpeningSource(d, m) # "blocked"
         /\ \A r \in Calculated(d, m) : r.status # "blocked"
=============================================================================
