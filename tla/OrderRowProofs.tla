--------------------------- MODULE OrderRowProofs ---------------------------
(***************************************************************************)
(* The invariants of a row of the orders table, for every order quantity   *)
(* and every set of reports the gateway may send, contradictory ones       *)
(* included.                                                               *)
(***************************************************************************)
EXTENDS OrderRow, TLAPS

(* What normalisation establishes of an order's status columns.            *)
Agree(o) ==
  /\ o.term <=> Terminal(o.st)
  /\ Terminal(o.gw) <=> Terminal(o.st)
  /\ Terminal(o.st) => o.gw = o.st

Whole(o) == o.st = "filled" => o.qty = Qty /\ o.cum = Qty /\ o.leaves = 0

(* What the invariants say of one row.                                     *)
Good(r) == r \in Row /\ Agree(r) /\ Whole(r)

(* An order has a quantity.                                                *)
LEMMA QtyType == Qty \in Nat /\ Qty > 0
BY QtyAssumption

(* The ledger's own words are words.                                       *)
LEMMA LedgerWords ==
  /\ "" \in Words /\ "created" \in Words /\ "accepted" \in Words /\ "working" \in Words
  /\ "partially_filled" \in Words /\ "filled" \in Words /\ "cancelled" \in Words
  /\ "rejected" \in Words
BY RowAssumption DEF Status, GatewayStatus, TerminalStatus

(* A pair of status columns that agree, and claim a complete order only    *)
(* when it is.                                                             *)
StateOK(s, complete) ==
  /\ s.st \in Words /\ s.gw \in Words
  /\ Terminal(s.gw) <=> Terminal(s.st)
  /\ Terminal(s.st) => s.gw = s.st
  /\ s.st = "filled" => complete

(* Whatever words and quantities it is given, NormalizeOrderExecutionState *)
(* returns a status and a gateway status that agree on whether the order   *)
(* is finished, and "filled" only for complete quantities.                 *)
LEMMA ExecutionState ==
  ASSUME NEW st \in Words, NEW gw \in Words, NEW qty \in Nat, NEW cum \in Nat,
         NEW leaves \in Nat
  PROVE  StateOK(NormalizeOrderExecutionState(st, gw, qty, cum, leaves),
                 QuantityComplete(qty, cum, leaves))
<1> DEFINE complete == QuantityComplete(qty, cum, leaves)
           s == NormalizeOrderExecutionState(st, gw, qty, cum, leaves)
           guess == "filled" \in {st, gw} /\ ~complete
           g == gatewayStatusForOrderStatus(st, gw)
           t == orderStatusForGatewayStatus(gw)
<1>0. /\ g \in Words /\ t \in Words
      /\ Terminal(st) => g = st
      /\ ~Terminal(st) /\ ~Terminal(gw) => ~Terminal(g)
      /\ Terminal(gw) => t = gw
      /\ ~Terminal(gw) => ~Terminal(t)
  BY RowAssumption DEF Status, gatewayStatusForOrderStatus, orderStatusForGatewayStatus, GatewayStatus,
         Terminal, TerminalStatus
<1>1. CASE guess
  <2>1. CASE cum > 0
    <3>1. s = [st |-> "partially_filled", gw |-> "working"]
      BY <1>1, <2>1 DEF NormalizeOrderExecutionState
    <3>2. StateOK([st |-> "partially_filled", gw |-> "working"], complete)
      BY LedgerWords DEF StateOK, Terminal, TerminalStatus
    <3> QED BY <3>1, <3>2
  <2>2. CASE ~(cum > 0)
    <3>1. s = [st |-> "working", gw |-> "working"]
      BY <1>1, <2>2 DEF NormalizeOrderExecutionState
    <3>2. StateOK([st |-> "working", gw |-> "working"], complete)
      BY LedgerWords DEF StateOK, Terminal, TerminalStatus
    <3> QED BY <3>1, <3>2
  <2> QED BY <2>1, <2>2
<1>2. CASE ~guess /\ Terminal(st)
  <2>1. s = [st |-> st, gw |-> g]
    BY <1>2 DEF NormalizeOrderExecutionState
  <2>2. StateOK([st |-> st, gw |-> g], complete)
    BY <1>0, <1>2 DEF StateOK, Terminal
  <2> QED BY <2>1, <2>2
<1>3. CASE ~guess /\ ~Terminal(st) /\ Terminal(gw)
  <2>1. s = [st |-> t, gw |-> gw]
    BY <1>3 DEF NormalizeOrderExecutionState
  <2>2. StateOK([st |-> t, gw |-> gw], complete)
    BY <1>0, <1>3 DEF StateOK, Terminal
  <2> QED BY <2>1, <2>2
<1>4. CASE ~guess /\ ~Terminal(st) /\ ~Terminal(gw)
  <2>1. CASE complete
    <3>1. s = [st |-> "filled", gw |-> "filled"]
      BY <1>4, <2>1 DEF NormalizeOrderExecutionState
    <3>2. StateOK([st |-> "filled", gw |-> "filled"], complete)
      BY <2>1, LedgerWords DEF StateOK, Terminal, TerminalStatus
    <3> QED BY <3>1, <3>2
  <2>2. CASE ~complete /\ cum > 0 /\ leaves > 0
    <3> DEFINE w == IF gw \in {"", "accepted"} THEN "working" ELSE gw
    <3>1. s = [st |-> "partially_filled", gw |-> w]
      BY <1>4, <2>2 DEF NormalizeOrderExecutionState
    <3>3. w \in Words /\ ~Terminal(w)
      BY <1>4, RowAssumption DEF Terminal, TerminalStatus, Status, GatewayStatus
    <3> HIDE DEF w
    <3>2. StateOK([st |-> "partially_filled", gw |-> w], complete)
      BY <3>3, LedgerWords DEF StateOK, Terminal, TerminalStatus
    <3> QED BY <3>1, <3>2
  <2>3. CASE ~complete /\ ~(cum > 0 /\ leaves > 0) /\ st # ""
    <3>1. s = [st |-> st, gw |-> g]
      BY <1>4, <2>3 DEF NormalizeOrderExecutionState
    <3>2. StateOK([st |-> st, gw |-> g], complete)
      BY <1>0, <1>4 DEF StateOK, Terminal, TerminalStatus
    <3> QED BY <3>1, <3>2
  <2>4. CASE ~complete /\ ~(cum > 0 /\ leaves > 0) /\ st = "" /\ gw # ""
    <3>1. s = [st |-> t, gw |-> gw]
      BY <1>4, <2>4 DEF NormalizeOrderExecutionState
    <3>2. StateOK([st |-> t, gw |-> gw], complete)
      BY <1>0, <1>4 DEF StateOK, Terminal, TerminalStatus
    <3> QED BY <3>1, <3>2
  <2>5. CASE ~complete /\ ~(cum > 0 /\ leaves > 0) /\ st = "" /\ gw = ""
    <3>1. s = [st |-> "created", gw |-> "accepted"]
      BY <1>4, <2>5 DEF NormalizeOrderExecutionState
    <3>2. StateOK([st |-> "created", gw |-> "accepted"], complete)
      BY LedgerWords DEF StateOK, Terminal, TerminalStatus
    <3> QED BY <3>1, <3>2
  <2> QED BY <2>1, <2>2, <2>3, <2>4, <2>5
<1> QED BY <1>1, <1>2, <1>3, <1>4

(* Normalisation keeps a report a report and makes its columns agree.      *)
LEMMA NormalizedOrder ==
  ASSUME NEW o \in Report
  PROVE  /\ Normalized(o) \in Report
         /\ Agree(Normalized(o)) /\ Whole(Normalized(o))
<1> DEFINE s == NormalizeOrderExecutionState(o.st, o.gw, o.qty, o.cum, o.leaves)
           n == [o EXCEPT !.st = s.st, !.gw = s.gw, !.term = Terminal(s.st) \/ Terminal(s.gw)]
           f == [n EXCEPT !.cum = n.qty, !.leaves = 0]
<1>1. /\ o.st \in Words /\ o.gw \in Words /\ o.qty \in {0, Qty} /\ o.cum \in 0 .. Qty
      /\ o.leaves \in 0 .. Qty /\ Qty \in Nat
  BY QtyType DEF Report
<1>2. StateOK(s, QuantityComplete(o.qty, o.cum, o.leaves))
  <2>1. o.qty \in Nat /\ o.cum \in Nat /\ o.leaves \in Nat BY <1>1
  <2> QED BY <1>1, <2>1, ExecutionState
<1> HIDE DEF s
<1>3. n \in Report
  BY <1>2 DEF Report, Terminal, StateOK
<1>4. n.st = s.st /\ n.gw = s.gw /\ n.qty = o.qty /\ n.term = (Terminal(s.st) \/ Terminal(s.gw))
  BY DEF Report
<1>5. Normalized(o) = WithFilledQty(n)
  BY DEF Normalized, s
<1> HIDE DEF n
<1>6. Agree(n)
  BY <1>2, <1>4 DEF StateOK, Agree, Terminal
<1>7. CASE n.st = "filled"
  <2>1. n.qty = Qty
    BY <1>7, <1>1, <1>2, <1>4 DEF StateOK, QuantityComplete
  <2>2. n.qty \in 0 .. Qty /\ 0 \in 0 .. Qty
    BY <1>1, <2>1
  <2>3. f \in Report
    BY <1>3, <2>2 DEF Report
  <2>4. f.st = n.st /\ f.gw = n.gw /\ f.term = n.term /\ f.qty = n.qty /\ f.cum = n.qty /\ f.leaves = 0
    BY <1>3 DEF Report
  <2>5. WithFilledQty(n) = f
    BY <1>7 DEF WithFilledQty
  <2> HIDE DEF f
  <2>6. Agree(f) /\ Whole(f)
    BY <1>6, <2>1, <2>4 DEF Agree, Whole
  <2> QED BY <1>5, <2>3, <2>5, <2>6
<1>8. CASE n.st # "filled"
  <2>1. WithFilledQty(n) = n BY <1>8 DEF WithFilledQty
  <2> QED BY <1>3, <1>5, <1>6, <1>8, <2>1 DEF Whole
<1> QED BY <1>7, <1>8

(* What reaches the SQL statements.                                        *)
LEMMA Parsed ==
  ASSUME NEW p \in Report
  PROVE  /\ toOrder(p) \in Report
         /\ normalizeOrderEvent(toOrder(p)) \in Report
         /\ Agree(normalizeOrderEvent(toOrder(p))) /\ Whole(normalizeOrderEvent(toOrder(p)))
         /\ normalizeOrder(toOrder(p)) \in Report
         /\ Agree(normalizeOrder(toOrder(p))) /\ Whole(normalizeOrder(toOrder(p)))
<1> DEFINE g == normalizePartialFillGatewayStatus(p)
           q == [p EXCEPT !.gw = g]
           n == Normalized(toOrder(p))
           a == [n EXCEPT !.leaves = n.qty]
<1>1. g \in Words
  BY LedgerWords DEF normalizePartialFillGatewayStatus, Report
<1> HIDE DEF g
<1>2. q \in Report BY <1>1 DEF Report
<1>3. toOrder(p) \in Report
  BY <1>2, NormalizedOrder DEF toOrder, g
<1>4. n \in Report /\ Agree(n) /\ Whole(n)
  BY <1>3, NormalizedOrder
<1>5. normalizeOrderEvent(toOrder(p)) = n BY DEF normalizeOrderEvent
<1>6. normalizeOrder(toOrder(p)) =
        IF n.leaves = 0 /\ n.cum = 0 /\ n.canc = 0 /\ ~n.term THEN a ELSE n
  BY DEF normalizeOrder
<1> HIDE DEF n
<1>7. CASE n.leaves = 0 /\ n.cum = 0 /\ n.canc = 0 /\ ~n.term
  <2>1. n.qty \in 0 .. Qty
    <3>1. n.qty \in {0, Qty} BY <1>4 DEF Report
    <3> QED BY <3>1, QtyType
  <2>2. a \in Report BY <1>4, <2>1 DEF Report
  <2>3. a.st = n.st /\ a.gw = n.gw /\ a.term = n.term /\ a.qty = n.qty /\ a.cum = n.cum
    BY <1>4 DEF Report
  <2> HIDE DEF a
  <2>4. n.st # "filled" BY <1>4, <1>7 DEF Agree, Terminal, TerminalStatus
  <2>5. Agree(a) /\ Whole(a) BY <1>4, <2>3, <2>4 DEF Agree, Whole
  <2> QED BY <1>3, <1>4, <1>5, <1>6, <1>7, <2>2, <2>5
<1>8. CASE ~(n.leaves = 0 /\ n.cum = 0 /\ n.canc = 0 /\ ~n.term)
  BY <1>3, <1>4, <1>5, <1>6, <1>8
<1> QED BY <1>7, <1>8

(* The code a statement writes is one of the codes.                        *)
LEMMA RejectCodeType ==
  ASSUME NEW r \in Row, NEW x \in Report
  PROVE  RejectCode(r, x) \in Codes \cup {""}
BY DEF RejectCode, Row, Report

(* A proposed row that meets the CHECKs is a good row.                     *)
LEMMA Proposed ==
  ASSUME NEW x \in Report, Agree(x), Whole(x), CheckConstraints(RowOf(x))
  PROVE  Good(RowOf(x)) /\ x.st \in Status /\ x.gw \in GatewayStatus /\ x.qty = Qty
<1> DEFINE o == RowOf(x)
<1>1. /\ o.st = x.st /\ o.gw = x.gw /\ o.qty = x.qty /\ o.cum = x.cum
      /\ o.leaves = x.leaves /\ o.term = x.term
  BY DEF RowOf
<1>2. x.st \in Status /\ x.gw \in GatewayStatus /\ x.qty > 0
  BY <1>1 DEF CheckConstraints
<1>3. x.qty = Qty
  <2>1. x.qty \in {0, Qty} BY DEF Report
  <2> QED BY <1>2, <2>1, QtyType
<1>4. o \in Row BY <1>2, <1>3 DEF RowOf, Row, Report
<1> HIDE DEF o
<1>5. Agree(o) /\ Whole(o) BY <1>1 DEF Agree, Whole
<1> QED BY <1>2, <1>3, <1>4, <1>5 DEF Good, o

(* A live event keeps a good row good and a finished one finished.         *)
LEMMA EventMerged ==
  ASSUME NEW r, Good(r), NEW x \in Report, Agree(x), Whole(x), CheckConstraints(RowOf(x))
  PROVE  Good(UpsertEvent(r, x)) /\ (r.term => UpsertEvent(r, x).term)
<1> DEFINE u == UpsertEvent(r, x)
           kept == r.term /\ ~x.term
           c == IF x.term THEN x.cum ELSE MaxOf(r.cum, x.cum)
           k == MaxOf(r.canc, x.canc)
<1>1. x.st \in Status /\ x.gw \in GatewayStatus /\ x.qty = Qty BY Proposed
<1>2. r \in Row /\ Agree(r) /\ Whole(r) BY DEF Good
<1>3. RejectCode(r, x) \in Codes \cup {""} BY <1>2, RejectCodeType
<1>4. c \in 0 .. Qty /\ k \in 0 .. Qty
  BY <1>2, QtyType DEF MaxOf, Row, Report
<1>5. r.term \in BOOLEAN /\ x.term \in BOOLEAN BY <1>2 DEF Row, Report
<1> HIDE DEF c, k, u
<1>6. CASE kept
  <2>1. u = [st |-> r.st, gw |-> r.gw, qty |-> x.qty, cum |-> c, leaves |-> r.leaves,
             canc |-> k, term |-> r.term \/ x.term, rej |-> RejectCode(r, x)]
    BY <1>6 DEF UpsertEvent, c, k, u
  <2>2. u \in Row
    BY <1>1, <1>2, <1>3, <1>4, <1>5, <2>1 DEF Row
  <2>3. u.st = r.st /\ u.gw = r.gw /\ u.term = TRUE /\ u.qty = Qty /\ u.cum = c /\ u.leaves = r.leaves
    BY <1>1, <1>5, <1>6, <2>1
  <2>4. r.st = "filled" => c = Qty
    <3>1. r.st = "filled" => r.cum = Qty BY <1>2 DEF Whole
    <3>2. c = MaxOf(r.cum, x.cum) BY <1>6 DEF c
    <3>3. r.cum \in 0 .. Qty /\ x.cum \in 0 .. Qty BY <1>2 DEF Row, Report
    <3> QED BY <3>1, <3>2, <3>3, QtyType DEF MaxOf
  <2>5. Agree(u) /\ Whole(u)
    BY <1>2, <1>6, <2>3, <2>4 DEF Agree, Whole
  <2> QED BY <2>2, <2>3, <2>5 DEF Good, u
<1>7. CASE ~kept
  <2>1. u = [st |-> x.st, gw |-> x.gw, qty |-> x.qty, cum |-> c, leaves |-> x.leaves,
             canc |-> k, term |-> r.term \/ x.term, rej |-> RejectCode(r, x)]
    BY <1>7 DEF UpsertEvent, c, k, u
  <2>2. x.leaves \in 0 .. Qty BY DEF Report
  <2>3. u \in Row
    BY <1>1, <1>3, <1>4, <1>5, <2>1, <2>2 DEF Row
  <2>4. u.st = x.st /\ u.gw = x.gw /\ u.term = x.term /\ u.qty = Qty /\ u.cum = c /\ u.leaves = x.leaves
    BY <1>1, <1>5, <1>7, <2>1
  <2>5. x.st = "filled" => c = Qty
    <3>1. x.st = "filled" => x.cum = Qty /\ x.term
      BY <1>5 DEF Whole, Agree, Terminal, TerminalStatus
    <3> QED BY <3>1 DEF c
  <2>6. Agree(u) /\ Whole(u)
    BY <2>4, <2>5 DEF Agree, Whole
  <2> QED BY <1>5, <1>7, <2>3, <2>4, <2>6 DEF Good, u
<1> QED BY <1>6, <1>7

(* A page item replaces a good row by a good row.                          *)
LEMMA ReplyMerged ==
  ASSUME NEW r, Good(r), NEW x \in Report, Agree(x), Whole(x), CheckConstraints(RowOf(x))
  PROVE  Good(UpsertReply(r, x))
<1> DEFINE o == RowOf(x)
           u == UpsertReply(r, x)
<1>1. Good(o) BY Proposed
<1>2. RejectCode(r, x) \in Codes \cup {""} BY RejectCodeType DEF Good
<1>3. u = [o EXCEPT !.rej = RejectCode(r, x)] BY DEF UpsertReply
<1> HIDE DEF o, u
<1>4. u \in Row BY <1>1, <1>2, <1>3 DEF Good, Row
<1>5. /\ u.st = o.st /\ u.gw = o.gw /\ u.qty = o.qty /\ u.cum = o.cum
      /\ u.leaves = o.leaves /\ u.term = o.term
  BY <1>1, <1>3 DEF Good, Row
<1>6. Agree(u) /\ Whole(u) BY <1>1, <1>5 DEF Good, Agree, Whole
<1> QED BY <1>4, <1>6 DEF Good, u

(* So does a status update, of a row that meets the CHECKs afterwards.     *)
LEMMA StatusMerged ==
  ASSUME NEW r, Good(r), NEW x \in Report, Agree(x), Whole(x),
         CheckConstraints(UpdateStatus(r, x))
  PROVE  Good(UpdateStatus(r, x)) /\ (r.term => UpdateStatus(r, x).term)
<1> DEFINE u == UpdateStatus(r, x)
           kept == r.term /\ ~x.term
           c == IF x.term THEN x.cum ELSE MaxOf(r.cum, x.cum)
           k == MaxOf(r.canc, x.canc)
           l == IF x.leaves > 0 \/ x.term THEN x.leaves ELSE r.leaves
<1>1. u.st \in Status /\ u.gw \in GatewayStatus BY DEF CheckConstraints
<1>2. r \in Row /\ Agree(r) /\ Whole(r) BY DEF Good
<1>3. RejectCode(r, x) \in Codes \cup {""} BY <1>2, RejectCodeType
<1>4. c \in 0 .. Qty /\ k \in 0 .. Qty /\ l \in 0 .. Qty
  BY <1>2, QtyType DEF MaxOf, Row, Report
<1>5. /\ r.term \in BOOLEAN /\ x.term \in BOOLEAN /\ r.qty = Qty /\ r.leaves \in 0 .. Qty
      /\ (r.term \/ x.term) \in BOOLEAN
  BY <1>2 DEF Row, Report
<1> HIDE DEF c, k, l, u
<1>6. CASE kept
  <2>1. u = [st |-> r.st, gw |-> r.gw, qty |-> r.qty, cum |-> c, leaves |-> r.leaves,
             canc |-> k, term |-> r.term \/ x.term, rej |-> RejectCode(r, x)]
    BY <1>6 DEF UpdateStatus, c, k, u
  <2>2. u.st = r.st /\ u.gw = r.gw /\ u.term = TRUE /\ u.qty = Qty /\ u.cum = c /\ u.leaves = r.leaves
    BY <1>5, <1>6, <2>1
  <2>3. u \in Row
    BY <1>1, <1>3, <1>4, <1>5, <2>1, <2>2 DEF Row
  <2>4. r.st = "filled" => c = Qty
    <3>1. r.st = "filled" => r.cum = Qty BY <1>2 DEF Whole
    <3>2. c = MaxOf(r.cum, x.cum) BY <1>6 DEF c
    <3>3. r.cum \in 0 .. Qty /\ x.cum \in 0 .. Qty BY <1>2 DEF Row, Report
    <3> QED BY <3>1, <3>2, <3>3, QtyType DEF MaxOf
  <2>5. Agree(u) /\ Whole(u)
    BY <1>2, <1>6, <2>2, <2>4 DEF Agree, Whole
  <2> QED BY <2>2, <2>3, <2>5 DEF Good, u
<1>7. CASE ~kept
  <2>1. u = [st |-> x.st, gw |-> x.gw, qty |-> r.qty, cum |-> c, leaves |-> l,
             canc |-> k, term |-> r.term \/ x.term, rej |-> RejectCode(r, x)]
    BY <1>7 DEF UpdateStatus, c, k, l, u
  <2>2. u.st = x.st /\ u.gw = x.gw /\ u.term = x.term /\ u.qty = Qty /\ u.cum = c /\ u.leaves = l
    BY <1>5, <1>7, <2>1
  <2>3. u \in Row
    BY <1>1, <1>3, <1>4, <1>5, <2>1, <2>2 DEF Row
  <2>4. x.st = "filled" => c = Qty /\ l = 0
    <3>1. x.st = "filled" => x.cum = Qty /\ x.leaves = 0 /\ x.term
      BY <1>5 DEF Whole, Agree, Terminal, TerminalStatus
    <3> QED BY <3>1 DEF c, l
  <2>5. Agree(u) /\ Whole(u)
    BY <2>2, <2>4 DEF Agree, Whole
  <2> QED BY <1>5, <1>7, <2>2, <2>3, <2>5 DEF Good, u
<1> QED BY <1>6, <1>7

-----------------------------------------------------------------------------
(* The inductive invariant: the row, if there is one, is good.             *)
IndInv == (row # NoRow => Good(row)) /\ by \in {"none", "live", "page"}

(* What every step does: it keeps the row good, and unless it is a page    *)
(* item it does not reopen it.                                             *)
LEMMA StepGood ==
  ASSUME IndInv, Next
  PROVE  /\ Good(row') /\ by' \in {"live", "page"}
         /\ by' = "live" /\ row # NoRow => (row.term => row'.term)
<1>1. CASE Draft
  <2>1. row' = DraftRow(Qty) /\ row = NoRow /\ by' = "live" BY <1>1 DEF Draft
  <2>2. DraftRow(Qty) \in Row
    <3>1. 0 \in 0 .. Qty /\ Qty \in 0 .. Qty BY QtyType
    <3> QED BY <3>1 DEF DraftRow, Row, Status, GatewayStatus
  <2>3. Agree(DraftRow(Qty)) /\ Whole(DraftRow(Qty))
    BY DEF DraftRow, Agree, Whole, Terminal, TerminalStatus
  <2> QED BY <2>1, <2>2, <2>3 DEF Good
<1>2. ASSUME NEW p \in Reports, OrderEvent(p)
      PROVE  /\ Good(row') /\ by' = "live" /\ (row # NoRow => (row.term => row'.term))
  <2> DEFINE x == normalizeOrder(toOrder(p))
  <2>1. x \in Report /\ Agree(x) /\ Whole(x) BY Parsed, RowAssumption
  <2>2. /\ CheckConstraints(RowOf(x)) /\ by' = "live"
        /\ row' = IF row = NoRow THEN RowOf(x) ELSE UpsertEvent(row, x)
    BY <1>2 DEF OrderEvent, UpsertOrder
  <2> HIDE DEF x
  <2>3. CASE row = NoRow BY <2>1, <2>2, <2>3, Proposed
  <2>4. CASE row # NoRow BY <2>1, <2>2, <2>4, EventMerged DEF IndInv
  <2> QED BY <2>3, <2>4
<1>3. ASSUME NEW p \in Reports, StatusEvent(p)
      PROVE  /\ Good(row') /\ by' = "live" /\ (row # NoRow => (row.term => row'.term))
  <2> DEFINE x == normalizeOrderEvent(toOrder(p))
  <2>1. x \in Report /\ Agree(x) /\ Whole(x) BY Parsed, RowAssumption
  <2>2. /\ row # NoRow /\ CheckConstraints(UpdateStatus(row, x)) /\ by' = "live"
        /\ row' = UpdateStatus(row, x)
    BY <1>3 DEF StatusEvent, UpdateOrderStatus
  <2> HIDE DEF x
  <2> QED BY <2>1, <2>2, StatusMerged DEF IndInv
<1>4. ASSUME NEW p \in Reports, PageItem(p)
      PROVE  Good(row') /\ by' = "page"
  <2> DEFINE x == normalizeOrder(toOrder(p))
  <2>1. x \in Report /\ Agree(x) /\ Whole(x) BY Parsed, RowAssumption
  <2>2. /\ CheckConstraints(RowOf(x)) /\ by' = "page"
        /\ row' = IF row = NoRow THEN RowOf(x) ELSE UpsertReply(row, x)
    BY <1>4 DEF PageItem, UpsertOrder
  <2> HIDE DEF x
  <2>3. CASE row = NoRow BY <2>1, <2>2, <2>3, Proposed
  <2>4. CASE row # NoRow BY <2>1, <2>2, <2>4, ReplyMerged DEF IndInv
  <2> QED BY <2>3, <2>4
<1>5. ASSUME NEW code \in Codes, RejectedReply(code)
      PROVE  /\ Good(row') /\ by' = "live" /\ (row # NoRow => (row.term => row'.term))
  <2> DEFINE x == normalizeOrderEvent(RejectedOrder(code))
  <2>1. RejectedOrder(code) \in Report
    <3>1. 0 \in 0 .. Qty BY QtyType
    <3> QED BY <3>1, LedgerWords DEF RejectedOrder, Report
  <2>2. x \in Report /\ Agree(x) /\ Whole(x) BY <2>1, NormalizedOrder DEF normalizeOrderEvent
  <2>3. /\ row # NoRow /\ CheckConstraints(UpdateStatus(row, x)) /\ by' = "live"
        /\ row' = UpdateStatus(row, x)
    BY <1>5 DEF RejectedReply, UpdateOrderStatus
  <2> HIDE DEF x
  <2> QED BY <2>2, <2>3, StatusMerged DEF IndInv
<1> QED BY <1>1, <1>2, <1>3, <1>4, <1>5 DEF Next

(* IndInv is an invariant.                                                 *)
THEOREM IndInvHolds == Spec => []IndInv
<1>1. Init => IndInv BY DEF Init, IndInv
<1>2. IndInv /\ [Next]_vars => IndInv'
  <2> SUFFICES ASSUME IndInv, [Next]_vars PROVE IndInv' OBVIOUS
  <2>1. CASE Next BY <2>1, StepGood DEF IndInv
  <2>2. CASE UNCHANGED vars BY <2>2 DEF IndInv, vars
  <2> QED BY <2>1, <2>2
<1> QED BY <1>1, <1>2, PTL DEF Spec

(* For every quantity and every set of reports: the row meets the CHECK    *)
(* constraints and its columns have their types.                           *)
THEOREM TypeCorrect == Spec => []TypeOK
<1>1. IndInv => TypeOK BY DEF IndInv, TypeOK, Good
<1> QED BY <1>1, IndInvHolds, PTL

(* For every quantity and every set of reports: status, gateway_status and *)
(* is_terminal agree.                                                      *)
THEOREM ColumnsAgree == Spec => []StatusColumnsAgree
<1>1. IndInv => StatusColumnsAgree BY DEF IndInv, StatusColumnsAgree, Good, Agree
<1> QED BY <1>1, IndInvHolds, PTL

(* For every quantity and every set of reports: a filled order is filled   *)
(* whole.                                                                  *)
THEOREM FilledWhole == Spec => []FilledIsWhole
<1>1. IndInv => FilledIsWhole BY DEF IndInv, FilledIsWhole, Good, Whole
<1> QED BY <1>1, IndInvHolds, PTL

(* For every quantity and every set of reports: no live write reopens a    *)
(* finished order.                                                         *)
THEOREM LiveWritesKeepTerminal == Spec => TerminalSticks
<1>1. IndInv /\ [Next]_vars => [by' = "live" /\ row # NoRow => (row.term => row'.term)]_vars
  BY StepGood
<1> QED BY <1>1, IndInvHolds, PTL DEF Spec, TerminalSticks
=============================================================================
