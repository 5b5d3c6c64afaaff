------------------------------ MODULE OrderRow ------------------------------
(***************************************************************************)
(* One row of the orders table under every sequence of writes the relay    *)
(* can apply to it: the API's draft, order.event (complete or not),        *)
(* order_page items of an order.list.query reply and rejected submissions. *)
(* A statement that breaks a CHECK constraint fails and changes nothing.   *)
(***************************************************************************)
EXTENDS OrderMerge

CONSTANTS Qty,       \* the quantity of the order
          Words,     \* what a gateway may write in a status field
          Codes,     \* reject codes
          Reports,   \* the reports it may send about the order
          NoRow      \* the order is not in the table

(* What a report may say.                                                  *)
Report ==
  [st : Words, gw : Words, qty : {0, Qty}, cum : 0 .. Qty, leaves : 0 .. Qty,
   canc : 0 .. Qty, term : BOOLEAN, rej : Codes \cup {""}, full : BOOLEAN]

ASSUME QtyAssumption == Qty \in Nat \ {0}

ASSUME RowAssumption ==
  /\ Status \cup GatewayStatus \cup {""} \subseteq Words
  /\ Reports \subseteq Report

VARIABLES row,   \* the order's row, or NoRow
          by     \* history: which path wrote last

vars == <<row, by>>

Row == [st : Status, gw : GatewayStatus, qty : {Qty}, cum : 0 .. Qty,
        leaves : 0 .. Qty, canc : 0 .. Qty, term : BOOLEAN, rej : Codes \cup {""}]

ASSUME NoRowAssumption == NoRow \notin Row

Init == row = NoRow /\ by = "none"

(* CreateOrder: insert-only.                                               *)
Draft == row = NoRow /\ row' = DraftRow(Qty) /\ by' = "live"

(* INSERT ... ON CONFLICT DO UPDATE: the proposed row meets the CHECKs     *)
(* before the conflict is looked at.                                       *)
UpsertOrder(x, merged) ==
  /\ CheckConstraints(RowOf(x))
  /\ row' = IF row = NoRow THEN RowOf(x) ELSE merged

(* A row that is not there is ErrOrderNotFound, and nothing happens.       *)
UpdateOrderStatus(x) ==
  /\ row # NoRow
  /\ CheckConstraints(UpdateStatus(row, x))
  /\ row' = UpdateStatus(row, x)

(* order.event with the fields of an order: it can create the row.         *)
OrderEvent(p) ==
  /\ completeOrderLedgerFields(p)
  /\ LET x == normalizeOrder(toOrder(p)) IN UpsertOrder(x, UpsertEvent(row, x))
  /\ by' = "live"

(* order.event without them: it can only update one.                       *)
StatusEvent(p) ==
  /\ ~completeOrderLedgerFields(p)
  /\ UpdateOrderStatus(normalizeOrderEvent(toOrder(p)))
  /\ by' = "live"

(* An item of an order page (validateOrderPageFields).                     *)
PageItem(p) ==
  /\ completeOrderLedgerFields(p)
  /\ LET x == normalizeOrder(toOrder(p)) IN UpsertOrder(x, UpsertReply(row, x))
  /\ by' = "page"

(* A rejected or failed order.submit, or a failed child of a batch.        *)
RejectedReply(code) ==
  /\ UpdateOrderStatus(normalizeOrderEvent(RejectedOrder(code)))
  /\ by' = "live"

Next ==
  \/ Draft
  \/ \E p \in Reports : OrderEvent(p)
  \/ \E p \in Reports : StatusEvent(p)
  \/ \E p \in Reports : PageItem(p)
  \/ \E code \in Codes : RejectedReply(code)

Spec == Init /\ [][Next]_vars

-----------------------------------------------------------------------------
(* A row has the columns of the table and meets its CHECK constraints.     *)
TypeOK == row \in Row \cup {NoRow} /\ by \in {"none", "live", "page"}

(* The three columns that say whether an order is finished agree: each is  *)
(* chosen by a CASE of its own in the upsert, in the status update and in  *)
(* NormalizeOrderExecutionState.                                           *)
StatusColumnsAgree ==
  row # NoRow => /\ row.term <=> Terminal(row.st)
                 /\ Terminal(row.gw) <=> Terminal(row.st)
                 /\ Terminal(row.st) => row.gw = row.st

(* A filled order is filled whole, whatever later or repeated reports say: *)
(* cum_filled_qty = order_qty and leaves_qty = 0.                          *)
FilledIsWhole == row # NoRow /\ row.st = "filled" => row.cum = Qty /\ row.leaves = 0

(* A live write never reopens a finished order, also when it is late or    *)
(* repeated (docs/DATA_MODEL.md, terminal protection); only a page item    *)
(* may.                                                                    *)
TerminalSticks ==
  [][by' = "live" /\ row # NoRow => (row.term => row'.term)]_vars
=============================================================================
