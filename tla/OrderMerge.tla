----------------------------- MODULE OrderMerge -----------------------------
(***************************************************************************)
(* How one report about an order becomes one row of the orders table:      *)
(* the parsing in redisstream/ledger_sync.go, the normalisation in         *)
(* ledger/repository.go and trading/validation.go, and the two SQL         *)
(* statements upsertOrderSQL and updateOrderStatusSQL.  Constant-level     *)
(* operators only; OrderRow and LedgerSync build state machines on them.   *)
(*                                                                         *)
(* A report and a row keep the columns whose merge rules differ.  canc     *)
(* stands for cancelled_qty and invalid_qty (and, in a row, submitted_qty),*)
(* which are merged by the same CASE; rej is reject_code, "" for NULL.     *)
(***************************************************************************)
EXTENDS Naturals

TerminalStatus == {"filled", "cancelled", "rejected"}
Status == {"created", "accepted", "working", "partially_filled"} \cup TerminalStatus
GatewayStatus == {"accepted", "working"} \cup TerminalStatus

(* Status.Terminal and GatewayStatus.Terminal.                             *)
Terminal(s) == s \in TerminalStatus

MaxOf(a, b) == IF a >= b THEN a ELSE b

orderStatusForGatewayStatus(gw) ==
  IF gw \in GatewayStatus THEN gw ELSE "created"

gatewayStatusForOrderStatus(st, gw) ==
  IF st \in {"working", "partially_filled"}
  THEN IF gw \in {"", "accepted"} THEN "working" ELSE gw
  ELSE IF Terminal(st) THEN st
  ELSE IF gw # "" THEN gw ELSE "accepted"

QuantityComplete(qty, cum, leaves) == qty > 0 /\ cum >= qty /\ leaves = 0

(* A "filled" that the quantities do not support is not believed.          *)
NormalizeOrderExecutionState(st, gw, qty, cum, leaves) ==
  LET complete == QuantityComplete(qty, cum, leaves)
  IN  IF "filled" \in {st, gw} /\ ~complete
      THEN [st |-> IF cum > 0 THEN "partially_filled" ELSE "working", gw |-> "working"]
      ELSE IF Terminal(st) THEN [st |-> st, gw |-> gatewayStatusForOrderStatus(st, gw)]
      ELSE IF Terminal(gw) THEN [st |-> orderStatusForGatewayStatus(gw), gw |-> gw]
      ELSE IF complete THEN [st |-> "filled", gw |-> "filled"]
      ELSE IF cum > 0 /\ leaves > 0
      THEN [st |-> "partially_filled", gw |-> IF gw \in {"", "accepted"} THEN "working" ELSE gw]
      ELSE IF st # "" THEN [st |-> st, gw |-> gatewayStatusForOrderStatus(st, gw)]
      ELSE IF gw # "" THEN [st |-> orderStatusForGatewayStatus(gw), gw |-> gw]
      ELSE [st |-> "created", gw |-> "accepted"]

(* The gateway's own "partially_filled" is not a gateway status of the     *)
(* ledger; it becomes "working" when the report is plainly a partial fill. *)
normalizePartialFillGatewayStatus(p) ==
  IF /\ p.gw = "partially_filled"
     /\ p.st \in {"", "partially_filled", "working"}
     /\ ~p.term
     /\ p.cum > 0 /\ p.cum < p.qty /\ p.leaves > 0
     /\ p.cum + p.leaves + p.canc = p.qty
  THEN "working" ELSE p.gw

(* The quantities of a filled order are those of the order.                *)
WithFilledQty(o) ==
  IF o.st = "filled" THEN [o EXCEPT !.cum = o.qty, !.leaves = 0] ELSE o

Normalized(o) ==
  LET s == NormalizeOrderExecutionState(o.st, o.gw, o.qty, o.cum, o.leaves)
  IN  WithFilledQty([o EXCEPT !.st = s.st, !.gw = s.gw,
                              !.term = Terminal(s.st) \/ Terminal(s.gw)])

(* A report's payload as an order: orderPayload.toOrder.  A reported code  *)
(* is kept as it is (orderPayloadRejectInfo).                              *)
toOrder(p) == Normalized([p EXCEPT !.gw = normalizePartialFillGatewayStatus(p)])

(* normalizeOrder, for a complete report: an order without any quantity    *)
(* has all of it outstanding.                                              *)
normalizeOrder(o) ==
  LET n == Normalized(o)
  IN  IF n.leaves = 0 /\ n.cum = 0 /\ n.canc = 0 /\ ~n.term
      THEN [n EXCEPT !.leaves = n.qty] ELSE n

normalizeOrderEvent(o) == Normalized(o)

(* completeOrderLedgerFields: the report can stand without a local draft.  *)
(* A report that lacks order_qty lacks the other order fields too, or not; *)
(* full says whether the others are there.                                 *)
completeOrderLedgerFields(p) == p.full /\ p.qty > 0

RowOf(o) == [st |-> o.st, gw |-> o.gw, qty |-> o.qty, cum |-> o.cum,
             leaves |-> o.leaves, canc |-> o.canc, term |-> o.term, rej |-> o.rej]

(* The CHECK constraints of the orders table.                              *)
MutCheckConstraints(r) ==     \* mutant: no CHECK on gateway_status
  r.st \in Status /\ r.qty > 0 /\ (r.term => r.st \in TerminalStatus)
CheckConstraints(r) ==
  /\ r.st \in Status /\ r.gw \in GatewayStatus
  /\ r.qty > 0
  /\ r.term => r.st \in TerminalStatus

RejectCode(r, x) ==
  IF r.term /\ ~x.term /\ r.st = "rejected" THEN r.rej
  ELSE IF "rejected" \in {x.st, x.gw} THEN x.rej ELSE ""

(* upsertOrderSQL's DO UPDATE, by a live event and by a query reply (the   *)
(* adapter_context holds relay_reply_status): a live event cannot reopen a *)
(* terminal order, a query reply replaces what it reports.                 *)
MutUpsertEvent(r, x) ==      \* mutant: no terminal guard on the status columns
  [RowOf(x) EXCEPT !.cum = IF x.term THEN x.cum ELSE MaxOf(r.cum, x.cum),
                   !.canc = MaxOf(r.canc, x.canc), !.rej = RejectCode(r, x)]
MutUpsertLoose(r, x) ==      \* mutant: is_terminal is not merged like the status
  LET kept == r.term /\ ~x.term
  IN  [st |-> IF kept THEN r.st ELSE x.st, gw |-> IF kept THEN r.gw ELSE x.gw,
       qty |-> x.qty, cum |-> IF x.term THEN x.cum ELSE MaxOf(r.cum, x.cum),
       leaves |-> IF kept THEN r.leaves ELSE x.leaves,
       canc |-> MaxOf(r.canc, x.canc), term |-> x.term, rej |-> RejectCode(r, x)]
MutUpsertLeaves(r, x) ==     \* mutant: leaves_qty is always the reported one
  LET kept == r.term /\ ~x.term
  IN  [st |-> IF kept THEN r.st ELSE x.st, gw |-> IF kept THEN r.gw ELSE x.gw,
       qty |-> x.qty, cum |-> IF x.term THEN x.cum ELSE MaxOf(r.cum, x.cum),
       leaves |-> x.leaves, canc |-> MaxOf(r.canc, x.canc),
       term |-> r.term \/ x.term, rej |-> RejectCode(r, x)]
MutUpsertNothing(r, x) == r  \* mutant: ON CONFLICT DO NOTHING
UpsertEvent(r, x) ==
  LET kept == r.term /\ ~x.term
  IN  [st |-> IF kept THEN r.st ELSE x.st, gw |-> IF kept THEN r.gw ELSE x.gw,
       qty |-> x.qty, cum |-> IF x.term THEN x.cum ELSE MaxOf(r.cum, x.cum),
       leaves |-> IF kept THEN r.leaves ELSE x.leaves,
       canc |-> MaxOf(r.canc, x.canc), term |-> r.term \/ x.term,
       rej |-> RejectCode(r, x)]

UpsertReply(r, x) == [RowOf(x) EXCEPT !.rej = RejectCode(r, x)]

(* updateOrderStatusSQL: order_qty is left alone, and an absent leaves_qty *)
(* (0) does not overwrite one unless the report is terminal.               *)
UpdateStatus(r, x) ==
  LET kept == r.term /\ ~x.term
  IN  [st |-> IF kept THEN r.st ELSE x.st, gw |-> IF kept THEN r.gw ELSE x.gw,
       qty |-> r.qty, cum |-> IF x.term THEN x.cum ELSE MaxOf(r.cum, x.cum),
       leaves |-> IF kept THEN r.leaves
                  ELSE IF x.leaves > 0 \/ x.term THEN x.leaves ELSE r.leaves,
       canc |-> MaxOf(r.canc, x.canc), term |-> r.term \/ x.term,
       rej |-> RejectCode(r, x)]

(* rejectedOrderEvent: what a rejected submission says of its order.       *)
RejectedOrder(code) ==
  [st |-> "rejected", gw |-> "rejected", qty |-> 0, cum |-> 0, leaves |-> 0,
   canc |-> 0, term |-> TRUE, rej |-> code, full |-> FALSE]

(* draftOrderFromRequest: the row the API wrote before it published.       *)
DraftRow(q) ==
  [st |-> "created", gw |-> "accepted", qty |-> q, cum |-> 0, leaves |-> q,
   canc |-> 0, term |-> FALSE, rej |-> ""]

(* orderSummaryFilledQty: how much of the order its fills should add up to.*)
orderSummaryFilledQty(o) ==
  IF "filled" \notin {o.st, o.gw} THEN 0
  ELSE IF o.cum = 0 \/ o.cum > o.qty THEN o.qty ELSE o.cum
=============================================================================
