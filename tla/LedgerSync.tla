----------------------------- MODULE LedgerSync -----------------------------
(***************************************************************************)
(* The synchronisation of the gateway's output streams into the ledger:    *)
(* RunLedgerSyncLoop, ProcessLedgerEntry and what they call, and the       *)
(* repair of the ledger from the archive by ReplayArchivedLedger, which    *)
(* passes archived entries to the same ProcessLedgerEntry.  Every entry is *)
(* a sequence of SQL statements without a transaction around them; the     *)
(* worker and the replay may stop between any two, a statement may fail    *)
(* (the rest of its entry is then skipped), and a checkpoint may fail to   *)
(* be written or to be read.                                               *)
(*                                                                         *)
(* One account, one trading day.  A fill is one lot, its id its number; a  *)
(* lot of an ETF redemption is a component transfer instead.  Fee pages    *)
(* are told apart by their fee_as_of.                                      *)
(***************************************************************************)
EXTENDS OrderMerge, SequencesExt

CONSTANTS Orders,       \* gateway order ids
          Qty,          \* lots of an order
          BatchCount,   \* XREAD COUNT
          NoRow, NoFee,
          Scenarios     \* bounds of the environment, see below

ASSUME SyncAssumption ==
  /\ Qty \in Nat \ {0} /\ BatchCount \in Nat \ {0}
  /\ NoFee \notin [asOf : Nat, done : BOOLEAN] /\ NoRow # DraftRow(Qty)

(* A scenario says of an order whether its events carry every field, it is *)
(* a redemption and the API drafted it; which messages there are besides   *)
(* its events, and how many; and how many crashes, failed statements and   *)
(* replays there are together.                                             *)
Topics == {"order", "fill", "fee", "cancel", "note"}
ASSUME ScenarioAssumption ==
  \A x \in Scenarios : /\ {x.full, x.etf, x.drafted} \subseteq BOOLEAN
                        /\ x.topics \subseteq Topics
                        /\ x.pages \in Nat /\ x.faults \in Nat

(* outputRoles, in the order in which XREAD returns them.                  *)
RoleSet == {"reply", "event"}

(* Who processes entries.                                                  *)
Processes == {"worker", "replay"}

VARIABLES
  scenario,   \* the scenario of this behaviour
  broker,     \* what the gateway knows of each order
  pages,      \* other messages so far: query answers, cancel outcomes, notes
  stream,     \* the output streams: a sequence of entries per role
  archive,    \* raw_stream_messages: <<role, index>> by received_at
  rows,       \* orders
  events,     \* order_events: {<<role, index>>}
  fills,      \* fills by the gateway: the lot numbers of each order
  summary,    \* the quantity of the order's relay-summary fill, 0 if none
  transfers,  \* etf_component_transfers: the lot numbers of each order
  attempts,   \* order_cancel_attempts: the status of the order's attempt
  feeRecords, \* order_fee_records
  fee,        \* orders.fee, and whether adapter_context has a fee_record_id
  ckpt,       \* stream_checkpoints
  at,         \* the statement, entry and item each process is at
  cursor,     \* the worker's cursors,
  hi,         \* the last entry of the batch it read, per role
  stage,      \* the stage of the replay, 0 while there is none
  todo,       \* the rows of its query that are still to come, by received_at
  faults,     \* crashes, failed statements and replays so far
  skipped,    \* entries a statement of which failed, and not repeated since
  upset       \* a replay stopped half-way, overlapped with the worker or found the
              \* archive out of order; or the worker stopped while it repeated what
              \* its checkpoints cover

orderTables == <<rows, fee>>
fillTables == <<fills, summary, transfers>>
otherTables == <<events, attempts, feeRecords>>
db == <<archive, orderTables, fillTables, otherTables, ckpt>>
gateway == <<scenario, broker, pages, stream>>
worker == <<cursor, hi>>
replay == <<stage, todo>>
vars == <<gateway, db, at, worker, replay, faults, skipped, upset>>

-----------------------------------------------------------------------------
(* The gateway (external): an order lives from "new" to a terminal status, *)
(* each change is reported on the event stream, queries, refusals and      *)
(* cancels are answered on the reply stream.                               *)
Report(b) ==
  [st |-> b.st, gw |-> IF b.st = "partially_filled" THEN "working" ELSE b.st,
   qty |-> Qty, cum |-> b.cum,
   leaves |-> IF Terminal(b.st) THEN 0 ELSE Qty - b.cum,
   canc |-> IF b.st \in {"cancelled", "rejected"} THEN Qty - b.cum ELSE 0,
   term |-> Terminal(b.st), rej |-> IF b.st = "rejected" THEN "E1" ELSE "",
   full |-> scenario.full]

OrderItem(o, b) == [o |-> o, rep |-> Report(b), lot |-> 0, etf |-> scenario.etf]
FillItem(o, b, lot) == [OrderItem(o, b) EXCEPT !.lot = lot]
FeeItem(o, asOf, done) == [o |-> o, asOf |-> asOf, done |-> done]
Entry(kind, items) == [kind |-> kind, items |-> items]

Emit(r, es) == stream' = [stream EXCEPT ![r] = @ \o es]

Replaying == stage > 0

(* Faults and repairs are bounded together.                                *)
Fault(n) == faults + n <= scenario.faults /\ faults' = faults + n

Live(o) == broker[o].st \in {"working", "partially_filled"}

BrokerAccept(o) ==
  /\ broker[o].st = "new"
  /\ LET b == [broker[o] EXCEPT !.st = "working"]
     IN  /\ broker' = [broker EXCEPT ![o] = b]
         /\ Emit("event", <<Entry("order", <<OrderItem(o, b)>>)>>)
  /\ UNCHANGED pages

(* A lot trades: a fill.event or transfer.event and an order.event, in     *)
(* either order.                                                           *)
BrokerFill(o, fillFirst) ==
  /\ Live(o)
  /\ LET n == broker[o].cum + 1
         b == [broker[o] EXCEPT !.st = IF n = Qty THEN "filled" ELSE "partially_filled",
                                !.cum = n]
         f == Entry(IF scenario.etf THEN "transfer" ELSE "fill", <<FillItem(o, b, n)>>)
         e == Entry("order", <<OrderItem(o, b)>>)
     IN  /\ broker' = [broker EXCEPT ![o] = b]
         /\ Emit("event", IF fillFirst THEN <<f, e>> ELSE <<e, f>>)
  /\ UNCHANGED pages

BrokerCancel(o) ==
  /\ Live(o)
  /\ LET b == [broker[o] EXCEPT !.st = "cancelled"]
     IN  /\ broker' = [broker EXCEPT ![o] = b]
         /\ Emit("event", <<Entry("order", <<OrderItem(o, b)>>)>>)
  /\ UNCHANGED pages

(* The submission is refused: a rejected reply, or a failed_orders item in *)
(* the reply to its batch.                                                 *)
BrokerReject(o, kind) ==
  /\ broker[o].st = "new" /\ rows[o] # NoRow
  /\ LET b == [broker[o] EXCEPT !.st = "rejected"]
     IN  /\ broker' = [broker EXCEPT ![o] = b]
         /\ Emit("reply", <<Entry(kind, <<OrderItem(o, b)>>)>>)
  /\ UNCHANGED pages

Another(topic) ==
  /\ topic \in scenario.topics
  /\ pages < scenario.pages /\ pages' = pages + 1
  /\ UNCHANGED broker

(* Answers to order.list.query, fill.list.query and fee.list.query: the    *)
(* state now.  The fees of an order are known once it has traded, and      *)
(* complete at some time.                                                  *)
BrokerOrderPage(o) ==
  /\ Another("order")
  /\ broker[o].st # "new"
  /\ Emit("reply", <<Entry("page", <<[OrderItem(o, broker[o]) EXCEPT !.rep.full = TRUE]>>)>>)

BrokerFillPage(o) ==
  /\ Another("fill")
  /\ broker[o].cum > 0
  /\ Emit("reply", <<Entry("fill", [n \in 1 .. broker[o].cum |-> FillItem(o, broker[o], n)])>>)

BrokerFeePage(o, done) ==
  /\ Another("fee")
  /\ broker[o].cum > 0
  /\ Emit("reply", <<Entry("fee", <<FeeItem(o, pages + 1, done)>>)>>)

(* The outcome of a cancel, as a reply or as an order.cancel.event.        *)
BrokerCancelOutcome(o, r, status) ==
  /\ Another("cancel")
  /\ broker[o].st # "new"
  /\ Emit(r, <<Entry("cancel", <<[o |-> o, status |-> status]>>)>>)

(* A message that is only archived: a heartbeat or a dead letter, a body   *)
(* that is no JSON, a failed submission whose outcome is unknown, or a     *)
(* page with an incomplete order or an incomplete fill (lot 0).            *)
BrokerNote(o) ==
  /\ Another("note")
  /\ \E e \in {Entry("note", <<>>), Entry("garbled", <<>>),
               Entry("reject", <<[OrderItem(o, broker[o]) EXCEPT !.rep.rej = "BROKER_NOT_READY"]>>),
               Entry("page", <<[OrderItem(o, broker[o]) EXCEPT !.rep.full = FALSE]>>),
               Entry("fill", [n \in 1 .. broker[o].cum + 1 |->
                                FillItem(o, broker[o], IF n <= broker[o].cum THEN n ELSE 0)])} :
       Emit("reply", <<e>>)

(* The gateway may write at any time; a batch that was read does not change*)
(* with it, so it is enough that it writes between batches, or while the   *)
(* worker is down.                                                         *)
Broker ==
  /\ \/ \E o \in Orders :
          \/ BrokerAccept(o) \/ BrokerCancel(o)
          \/ \E kind \in {"reject", "batch"} : BrokerReject(o, kind)
          \/ \E fillFirst \in BOOLEAN : BrokerFill(o, fillFirst)
          \/ BrokerOrderPage(o) \/ BrokerFillPage(o)
          \/ \E done \in BOOLEAN : BrokerFeePage(o, done)
          \/ BrokerCancelOutcome(o, "reply", "accepted")
          \/ BrokerCancelOutcome(o, "event", "rejected") \/ BrokerNote(o)
  /\ ~Replaying /\ at["worker"].pc \in {"read", "down"}
  /\ UNCHANGED <<scenario, db, at, worker, replay, faults, skipped, upset>>

-----------------------------------------------------------------------------
(* ProcessLedgerEntry, by the worker or by the replay.                     *)
EntryOf(p) == <<at[p].role, at[p].idx>>
Current(p) == stream[at[p].role][at[p].idx]
Item(p) == Current(p).items[at[p].item]
IsAt(p, l) == at[p].pc = l

Go(p, l) == at' = [at EXCEPT ![p].pc = l]
At(p, l, r, i, k) == at' = [at EXCEPT ![p] = [pc |-> l, role |-> r, idx |-> i, item |-> k]]

(* What ProcessLedgerEntry refuses after archiving it.  The items of a     *)
(* page are all decoded before the first one is written.                   *)
DecodeEntry(e) == e.kind # "garbled"
orderErrorInfo(e) == e.items[1].rep.rej
isIndeterminateCommandError(e) ==
  orderErrorInfo(e) \in {"BROKER_NOT_READY", "COMMAND_OUTCOME_UNKNOWN"}
validateFill(i) == ~i.etf /\ i.lot > 0
validateTransfer(i) == i.etf /\ i.lot > 0
fillRecordsFromReplyEnvelope(e) ==
  \A k \in DOMAIN e.items : validateFill(e.items[k]) \/ validateTransfer(e.items[k])
validateOrderPageFields(p) == p.full
ordersFromReplyEnvelope(e) == \A k \in DOMAIN e.items : validateOrderPageFields(e.items[k].rep)
Refused(e) ==
  \/ ~DecodeEntry(e) \/ e.kind = "note"
  \/ e.kind = "reject" /\ isIndeterminateCommandError(e)
  \/ e.kind = "page" /\ ~ordersFromReplyEnvelope(e)
  \/ e.kind \in {"fill", "transfer"} /\ ~fillRecordsFromReplyEnvelope(e)

(* The first statement for an item of an entry.                            *)
FirstStatement(e, k) ==
  CASE e.kind \in {"order", "page", "reject", "batch"} -> "order"
    [] e.kind \in {"fill", "transfer"} -> IF e.items[k].etf THEN "transfer" ELSE "fill"
    [] OTHER -> e.kind                       \* "fee" and "cancel"

(* Roles that have entries in the batch and are not reported yet.          *)
InBatch(c) == {r \in RoleSet : hi[r] > c[r]}
FirstRole(S) == IF "reply" \in S THEN "reply" ELSE "event"

(* processLedgerStreamMessages goes on with the next entry, whatever the   *)
(* result of this one was; after the last entry of the last stream the     *)
(* loop turns to the reports.                                              *)
WorkerGoesOn ==
  LET w == at["worker"]
  IN  IF w.idx < hi[w.role] THEN At("worker", "archive", w.role, w.idx + 1, 1)
      ELSE IF w.role = "reply" /\ "event" \in InBatch(cursor)
      THEN At("worker", "archive", "event", cursor["event"] + 1, 1)
      ELSE At("worker", "report", FirstRole(InBatch(cursor)), 0, 1)

EndEntry(p, ok) ==
  /\ IF p = "worker" THEN WorkerGoesOn ELSE At("replay", "next", "reply", 0, 1)
  /\ skipped' = IF ok THEN skipped \ {EntryOf(p)} ELSE skipped \cup {EntryOf(p)}

NextItem(p) ==
  IF at[p].item < Len(Current(p).items)
  THEN /\ At(p, FirstStatement(Current(p), at[p].item + 1),
             at[p].role, at[p].idx, at[p].item + 1)
       /\ UNCHANGED skipped
  ELSE EndEntry(p, TRUE)

(* What every statement of an entry leaves alone.                          *)
Overlap(p) == upset' = (upset \/ (p = "worker" /\ Replaying))
Statement(p) == Overlap(p) /\ UNCHANGED <<gateway, ckpt, worker, replay, faults>>

(* A ledger error: the rest of the entry is skipped.                       *)
GiveUp(p) == EndEntry(p, FALSE) /\ UNCHANGED <<archive, orderTables, fillTables, otherTables>>

(* The row is stamped with the time of its last arrival.                   *)
Archived(e) ==
  LET others == IF e \in Range(archive)
                THEN RemoveAt(archive, CHOOSE k \in DOMAIN archive : archive[k] = e)
                ELSE archive
  IN  Append(others, e)

ArchiveRawStreamMessage ==
  /\ IsAt("worker", "archive") /\ Statement("worker")
  /\ archive' = Archived(EntryOf("worker"))
  /\ IF Refused(Current("worker")) THEN EndEntry("worker", TRUE)
     ELSE Go("worker", FirstStatement(Current("worker"), 1)) /\ UNCHANGED skipped
  /\ UNCHANGED <<orderTables, fillTables, otherTables>>

(* UpsertOrder and UpdateOrderStatus: the new row, or NoRow if the         *)
(* statement fails (a CHECK, or no row to update).                         *)
Upserted(r, x, merged) ==
  IF ~CheckConstraints(RowOf(x)) THEN NoRow
  ELSE IF r = NoRow THEN RowOf(x) ELSE merged
Updated(r, x) ==
  IF r = NoRow THEN NoRow
  ELSE IF CheckConstraints(UpdateStatus(r, x)) THEN UpdateStatus(r, x) ELSE NoRow

IsUpsert(kind, p) == kind = "page" \/ (kind = "order" /\ completeOrderLedgerFields(p))

(* The row after a report of the given kind, x being the report's order.   *)
OrderWritten(kind, r, p, x) ==
  LET n == normalizeOrder(x) IN
  CASE kind \in {"reject", "batch"} -> Updated(r, normalizeOrderEvent(RejectedOrder(p.rej)))
    [] kind = "page" -> Upserted(r, n, UpsertReply(r, n))
    [] kind = "order" /\ IsUpsert(kind, p) -> Upserted(r, n, UpsertEvent(r, n))
    [] OTHER -> Updated(r, normalizeOrderEvent(x))

(* The fee columns after a report, which carries no fee itself: an upsert  *)
(* keeps the fee of a fee record, and a page replaces adapter_context, in  *)
(* which the fee record is named.                                          *)
NoFeeYet == [asOf |-> 0, marked |-> FALSE]
FeeWritten(kind, p, f) ==
  IF ~IsUpsert(kind, p) THEN f
  ELSE IF ~f.marked THEN NoFeeYet
  ELSE [f EXCEPT !.marked = (kind # "page")]

(* UpsertOrder or UpdateOrderStatus.  The replay synthesises no fills.     *)
WriteOrder(p) ==
  /\ IsAt(p, "order") /\ Statement(p)
  /\ \E o \in {Item(p).o}, rep \in {Item(p).rep}, kind \in {Current(p).kind} :
       \E new \in {OrderWritten(kind, rows[o], rep, toOrder(rep))} :
         \/ /\ new # NoRow
            /\ rows' = [rows EXCEPT ![o] = new]
            /\ fee' = [fee EXCEPT ![o] = FeeWritten(kind, rep, @)]
            /\ CASE IsUpsert(kind, rep) /\ p = "worker" -> Go(p, "summary") /\ UNCHANGED skipped
                 [] kind = "page" /\ p = "replay" -> NextItem(p)
                 [] OTHER -> Go(p, "append") /\ UNCHANGED skipped
            /\ UNCHANGED <<archive, fillTables, otherTables>>
         \/ new = NoRow /\ GiveUp(p)

(* synthesizeOrderSummaryFill: what a filled order lacks in fills.  The    *)
(* insert does nothing when the order has a summary fill already.          *)
Synthesize(i) ==
  LET target == orderSummaryFilledQty(toOrder(i.rep))
      there == Cardinality(fills[i.o]) + summary[i.o]
  IN  IF ~i.etf /\ target > there /\ summary[i.o] = 0 THEN target - there ELSE summary[i.o]

SynthesizeSummaryFill ==
  /\ IsAt("worker", "summary") /\ Statement("worker")
  /\ \E i \in {Item("worker")} : summary' = [summary EXCEPT ![i.o] = Synthesize(i)]
  /\ IF Current("worker").kind = "page" THEN NextItem("worker")
     ELSE Go("worker", "append") /\ UNCHANGED skipped
  /\ UNCHANGED <<archive, orderTables, fills, transfers, otherTables>>

(* A report is known by its place in the stream, and booked once.          *)
appendOrderEventSQL(e) == events \cup {e}

AppendOrderEvent(p) ==
  /\ IsAt(p, "append") /\ Statement(p)
  /\ events' = appendOrderEventSQL(EntryOf(p))
  /\ NextItem(p)
  /\ UNCHANGED <<archive, orderTables, fillTables, attempts, feeRecords>>

(* What identifies the row an item is for: the order and the fill id.  A   *)
(* row that is there already stays.                                        *)
fillFromPayload(i) == [o |-> i.o, id |-> i.lot]
componentTransferFromPayload(i) == [o |-> i.o, id |-> i.lot]
insertFillSQL(f) == [fills EXCEPT ![f.o] = @ \cup {f.id}]
insertComponentTransferSQL(t) == [transfers EXCEPT ![t.o] = @ \cup {t.id}]

(* InsertFill: an insert that a foreign key ties to the order's row, and,  *)
(* as a statement of its own, the removal of the order's summary fill.     *)
(* The repository checks a fill, and a transfer, once more.                *)
normalizeFill(f) == f.id > 0
normalizeComponentTransfer(t) == t.id > 0
Insertable(i) == rows[i.o] # NoRow /\ normalizeFill(fillFromPayload(i))
InsertFill(p) ==
  /\ IsAt(p, "fill") /\ Statement(p)
  /\ \/ /\ Insertable(Item(p))
        /\ fills' = insertFillSQL(fillFromPayload(Item(p)))
        /\ Go(p, "purge")
        /\ UNCHANGED <<archive, orderTables, summary, transfers, otherTables, skipped>>
     \/ ~Insertable(Item(p)) /\ GiveUp(p)

MutPurged(o) == summary[o]   \* mutant: the summary fill stays
Purged(o) == 0

DeleteSummaryFills(p) ==
  /\ IsAt(p, "purge") /\ Statement(p)
  /\ summary' = [summary EXCEPT ![Item(p).o] = Purged(Item(p).o)]
  /\ NextItem(p)
  /\ UNCHANGED <<archive, orderTables, fills, transfers, otherTables>>

(* InsertComponentTransfer does not depend on the order's row.             *)
InsertComponentTransfer(p) ==
  /\ IsAt(p, "transfer") /\ Statement(p)
  /\ normalizeComponentTransfer(componentTransferFromPayload(Item(p)))
  /\ transfers' = insertComponentTransferSQL(componentTransferFromPayload(Item(p)))
  /\ NextItem(p)
  /\ UNCHANGED <<archive, orderTables, fills, summary, otherTables>>

(* The attempt is known by the message of the cancel command, and the last *)
(* outcome that is written stands.                                         *)
processCancelAttemptEnvelope(i) == [o |-> i.o, status |-> i.status]
upsertOrderCancelAttemptSQL(a) == [attempts EXCEPT ![a.o] = a.status]

UpsertOrderCancelAttempt ==
  /\ IsAt("worker", "cancel") /\ Statement("worker")
  /\ attempts' = upsertOrderCancelAttemptSQL(processCancelAttemptEnvelope(Item("worker")))
  /\ NextItem("worker")
  /\ UNCHANGED <<archive, orderTables, fillTables, events, feeRecords>>

(* Which record stands: the newer one, unless it would put an incomplete   *)
(* one in the place of a complete one.                                     *)
MutEffective(old, new) == new      \* mutant: the last record that is written
Effective(old, new) ==
  IF \/ old = NoFee
     \/ new.asOf > old.asOf /\ (old.done => new.done)
     \/ new.asOf = old.asOf /\ new.done /\ ~old.done
  THEN new ELSE old

feeRecordFromPayload(i) == [asOf |-> i.asOf, done |-> i.done]

(* One statement: the record, and the fee of the order's row if the record *)
(* that stands is complete.                                                *)
UpsertOrderFeeRecord ==
  /\ IsAt("worker", "fee") /\ Statement("worker")
  /\ \E o \in {Item("worker").o},
        x \in {feeRecordFromPayload(Item("worker"))} :
       \E e \in {Effective(feeRecords[o], x)} :
         /\ feeRecords' = [feeRecords EXCEPT ![o] = e]
         /\ fee' = [fee EXCEPT ![o] = IF e.done /\ rows[o] # NoRow
                                      THEN [asOf |-> e.asOf, marked |-> TRUE] ELSE @]
  /\ NextItem("worker")
  /\ UNCHANGED <<archive, rows, fillTables, events, attempts>>

(* Any statement may fail.                                                 *)
Statements == {"archive", "order", "summary", "append", "fill", "purge", "transfer",
               "cancel", "fee"}

StatementFails(p) ==
  /\ at[p].pc \in Statements
  /\ Fault(1)
  /\ GiveUp(p) /\ Overlap(p)
  /\ UNCHANGED <<gateway, ckpt, worker, replay>>

-----------------------------------------------------------------------------
(* The loop of the worker.                                                 *)

(* The worker has applied all there is.                                    *)
CaughtUp ==
  /\ IsAt("worker", "read")
  /\ \A r \in RoleSet : cursor[r] = Len(stream[r])

(* readAndProcessStreams: one XREAD over all streams, then every entry it  *)
(* returned, stream by stream.                                             *)
Read ==
  LET h == [r \in RoleSet |-> IF Len(stream[r]) > cursor[r] + BatchCount
                              THEN cursor[r] + BatchCount ELSE Len(stream[r])]
      new == {r \in RoleSet : h[r] > cursor[r]}
  IN  /\ IsAt("worker", "read") /\ new # {}
      /\ hi' = h
      /\ At("worker", "archive", FirstRole(new), cursor[FirstRole(new)] + 1, 1)
      /\ Overlap("worker")
      /\ UNCHANGED <<gateway, db, cursor, replay, faults, skipped>>

(* saveLedgerCheckpoint after the whole batch; a failure is only logged.   *)
(* The callbacks that follow change nothing here.                          *)
MutSaved(r) == Len(stream[r])   \* mutant: the end of the stream, not of the batch
Saved(r) == hi[r]

Advance ==
  LET r == at["worker"].role
      c == [cursor EXCEPT ![r] = hi[r]]
      left == InBatch(c)
  IN  /\ IsAt("worker", "report")
      /\ cursor' = c
      /\ IF left = {} THEN At("worker", "read", "reply", 0, 1)
         ELSE At("worker", "report", FirstRole(left), 0, 1)
      /\ Overlap("worker")
      /\ UNCHANGED <<gateway, archive, orderTables, fillTables, otherTables, hi, replay,
                     skipped>>

UpsertStreamCheckpoint(r, last) == [ckpt EXCEPT ![r] = last]

SaveCheckpoint ==
  /\ Advance
  /\ ckpt' = UpsertStreamCheckpoint(at["worker"].role, Saved(at["worker"].role))
  /\ UNCHANGED faults

SaveCheckpointFails ==
  /\ Advance
  /\ Fault(1)
  /\ UNCHANGED ckpt

(* The worker stops: a crash, or its context is cancelled, after which no  *)
(* statement succeeds and no checkpoint is saved.                          *)
Repeating == \E r \in RoleSet : cursor[r] < ckpt[r]

Crash ==
  /\ ~IsAt("worker", "down") /\ Fault(1)
  /\ upset' = (upset \/ Repeating)
  /\ cursor' = [r \in RoleSet |-> 0] /\ hi' = [r \in RoleSet |-> 0]
  /\ At("worker", "down", "reply", 0, 1)
  /\ UNCHANGED <<gateway, db, replay, skipped>>

(* It starts from the checkpoints, and from the start of a stream whose    *)
(* checkpoint cannot be read.                                              *)
StartAt(r, unread) == IF r \in unread THEN 0 ELSE ckpt[r]

Restart(unread) ==
  /\ IsAt("worker", "down")
  /\ Fault(Cardinality(unread))
  /\ cursor' = [r \in RoleSet |-> StartAt(r, unread)]
  /\ At("worker", "read", "reply", 0, 1)
  /\ UNCHANGED <<gateway, db, hi, replay, skipped, upset>>

-----------------------------------------------------------------------------
(* The replay of the archive: three stages, each of which passes what its  *)
(* query returned, by received_at, to ProcessLedgerEntry.                  *)
Stages == <<{"order", "page"}, {"fill"}, {"transfer"}>>

ArchivedRows(n) ==
  [k \in {k \in DOMAIN archive : stream[archive[k][1]][archive[k][2]].kind \in Stages[n]}
     |-> archive[k]]

(* Relay has archived the events of an order in the order of the stream.   *)
InOrder ==
  \A j, k \in DOMAIN archive :
    (j < k /\ archive[j][1] = archive[k][1]) => archive[j][2] < archive[k][2]

(* The replay is started when the streams have been read, or while the     *)
(* worker is down, and the gateway is silent while it runs: a bound.  The  *)
(* worker may start in the meantime.                                       *)
StartReplay ==
  /\ ~Replaying /\ Fault(1)
  /\ IsAt("worker", "down") \/ CaughtUp
  /\ stage' = 1 /\ todo' = ArchivedRows(1)
  /\ At("replay", "next", "reply", 0, 1)
  /\ upset' = (upset \/ ~InOrder)
  /\ UNCHANGED <<gateway, db, worker, skipped>>

ReplayNext ==
  /\ IsAt("replay", "next")
  /\ \/ /\ \E k \in DOMAIN todo : \E r \in {todo[k][1]}, i \in {todo[k][2]} :
             /\ \A j \in DOMAIN todo : k <= j
             /\ IF Refused(stream[r][i]) THEN UNCHANGED at
                ELSE At("replay", FirstStatement(stream[r][i], 1), r, i, 1)
             /\ todo' = Restrict(todo, DOMAIN todo \ {k})
        /\ UNCHANGED stage
     \/ /\ DOMAIN todo = {} /\ stage < Len(Stages)
        /\ stage' = stage + 1 /\ todo' = ArchivedRows(stage + 1)
        /\ UNCHANGED at
     \/ /\ DOMAIN todo = {} /\ stage = Len(Stages)
        /\ stage' = 0 /\ UNCHANGED todo
        /\ At("replay", "down", "reply", 0, 1)
  /\ UNCHANGED <<gateway, db, worker, faults, skipped, upset>>

(* The replay is interrupted, or its time is up.                           *)
ReplayStops ==
  /\ Replaying /\ Fault(1)
  /\ stage' = 0 /\ todo' = <<>> /\ upset' = TRUE
  /\ At("replay", "down", "reply", 0, 1)
  /\ UNCHANGED <<gateway, db, worker, skipped>>

(* The API has written a draft of the orders, or they were submitted       *)
(* elsewhere.                                                              *)
Idle(l) == [pc |-> l, role |-> "reply", idx |-> 0, item |-> 1]

Init ==
  /\ scenario \in Scenarios
  /\ broker = [o \in Orders |-> [st |-> "new", cum |-> 0]]
  /\ pages = 0 /\ stream = [r \in RoleSet |-> <<>>]
  /\ archive = <<>> /\ events = {}
  /\ rows = [o \in Orders |-> IF scenario.drafted THEN DraftRow(Qty) ELSE NoRow]
  /\ fee = [o \in Orders |-> NoFeeYet] /\ feeRecords = [o \in Orders |-> NoFee]
  /\ fills = [o \in Orders |-> {}] /\ summary = [o \in Orders |-> 0]
  /\ transfers = [o \in Orders |-> {}] /\ attempts = [o \in Orders |-> "none"]
  /\ ckpt = [r \in RoleSet |-> 0] /\ cursor = [r \in RoleSet |-> 0]
  /\ hi = [r \in RoleSet |-> 0]
  /\ at = [p \in Processes |-> Idle(IF p = "worker" THEN "read" ELSE "down")]
  /\ stage = 0 /\ todo = <<>>
  /\ faults = 0 /\ skipped = {} /\ upset = FALSE

Step ==
  \/ Read \/ ArchiveRawStreamMessage \/ SynthesizeSummaryFill \/ UpsertOrderCancelAttempt
  \/ UpsertOrderFeeRecord \/ SaveCheckpoint \/ StartReplay \/ ReplayNext
  \/ \E p \in Processes :
       \/ WriteOrder(p) \/ AppendOrderEvent(p) \/ InsertFill(p) \/ DeleteSummaryFills(p)
       \/ InsertComponentTransfer(p)

Next ==
  \/ Broker \/ Step \/ SaveCheckpointFails \/ Crash \/ ReplayStops
  \/ \E p \in Processes : StatementFails(p)
  \/ \E unread \in SUBSET RoleSet : Restart(unread)

Spec == Init /\ [][Next]_vars

(* The worker keeps going, and a stopped worker is started again: weak     *)
(* fairness of the worker's steps and of Restart, written out.             *)
HasWork ==
  /\ ~IsAt("worker", "down")
  /\ IsAt("worker", "read") => \E r \in RoleSet : Len(stream[r]) > cursor[r]
WorkerMoves == ~IsAt("worker", "down") /\ at'["worker"] # at["worker"]
Restarts == IsAt("worker", "down") /\ at'["worker"].pc = "read"

FairSpec ==
  /\ Spec
  /\ []<>~HasWork \/ []<><<WorkerMoves>>_vars
  /\ []<>~IsAt("worker", "down") \/ []<><<Restarts>>_vars

-----------------------------------------------------------------------------
(* The rows of the tables: a message is known by its stream and id, the    *)
(* fills and transfers of an order by their ids, a fee record by its       *)
(* fee_as_of and fee_complete, an attempt by its outcome.                  *)
RawStreamMessage == {<<r, i>> : r \in RoleSet, i \in 1 .. Len(stream["reply"] \o stream["event"])}
Fill == 1 .. Qty
ComponentTransfer == 1 .. Qty
OrderFeeRecord == [asOf : 1 .. pages, done : BOOLEAN]
OrderCancelAttempt == {"accepted", "rejected"}

(* The tables and the positions of the processes have their types.         *)
TypeOK ==
  /\ \A o \in Orders : /\ rows[o] = NoRow \/ CheckConstraints(rows[o])
                       /\ fills[o] \subseteq Fill /\ transfers[o] \subseteq ComponentTransfer
                       /\ summary[o] \in 0 .. Qty
                       /\ feeRecords[o] \in {NoFee} \cup OrderFeeRecord
                       /\ attempts[o] \in {"none"} \cup OrderCancelAttempt
  /\ \A k \in DOMAIN archive : archive[k] \in RawStreamMessage
  /\ \A r \in RoleSet : /\ ckpt[r] \in 0 .. Len(stream[r])
                        /\ cursor[r] \in 0 .. Len(stream[r])
                        /\ hi[r] \in 0 .. Len(stream[r])
  /\ at["worker"].pc \in Statements \cup {"read", "report", "down"}
  /\ at["replay"].pc \in Statements \cup {"next", "down"}
  /\ \A p \in Processes : at[p].pc \in Statements =>
       /\ at[p].idx \in DOMAIN stream[at[p].role]
       /\ at[p].pc # "archive" => at[p].item \in DOMAIN Current(p).items

(* Everything was applied: what failed was repeated since, by the worker   *)
(* or by a replay.                                                         *)
Applied == CaughtUp /\ skipped = {}

(* And no replay or repetition stopped half-way.                           *)
Settled == Applied /\ ~Replaying /\ ~upset

Booked(o) == IF scenario.etf THEN Cardinality(transfers[o])
             ELSE Cardinality(fills[o]) + summary[o]

(* What an entry is in the ledger for.                                     *)
IsBooked(r, i) ==
  LET e == stream[r][i] IN
  /\ e.kind \in {"order", "reject", "batch"} => <<r, i>> \in events
  /\ e.kind \in {"fill", "transfer"} =>
       \A k \in DOMAIN e.items :
         e.items[k].lot \in (IF e.items[k].etf THEN transfers ELSE fills)[e.items[k].o]
  /\ e.kind = "cancel" => attempts[e.items[1].o] # "none"
  /\ e.kind = "fee" => feeRecords[e.items[1].o] # NoFee

(* A restart loses nothing: what a checkpoint covers has been archived and *)
(* booked completely, except the entries a statement failed of; the rows   *)
(* meet their constraints and cursors stay within the streams (TypeOK).    *)
CheckpointCovers ==
  /\ TypeOK
  /\ \A r \in RoleSet : \A i \in 1 .. ckpt[r] :
       <<r, i>> \notin skipped =>
         /\ <<r, i>> \in {archive[k] : k \in DOMAIN archive}
         /\ IsBooked(r, i) \/ Refused(stream[r][i])

(* Whatever was repeated after a crash or a lost checkpoint, whatever      *)
(* failed and was repaired by a replay of the archive, and wherever such a *)
(* replay stopped, once all is applied every traded lot is booked exactly  *)
(* once: the fills or transfers of the gateway are all there and no        *)
(* summary fill is left beside them.                                       *)
FillsBookedOnce == Applied => \A o \in Orders : Booked(o) = broker[o].cum

Queried(kind) ==
  \E i \in DOMAIN stream["reply"] : stream["reply"][i].kind = kind /\ ~Refused(stream["reply"][i])

(* A ledger that has applied everything has a row of every order, with the *)
(* quantity that has traded and, of a finished order, its outcome, although*)
(* the worker crashed between statements, repeated what its checkpoints did*)
(* not cover or lost a checkpoint, and although the archive was replayed   *)
(* over newer rows (as long as no order page was queried).  The status of a*)
(* live order agrees too, unless the last repetition or replay of old      *)
(* events stopped before it came to the newest.                            *)
CaughtUpAgrees ==
  Applied /\ ~Queried("page") =>
    \A o \in Orders : broker[o].st # "new" =>
      /\ rows[o] # NoRow /\ rows[o].cum = broker[o].cum
      /\ Terminal(broker[o].st) \/ Settled => rows[o].st = broker[o].st

(* The fee pages of the gateway for an order.                              *)
FeePages(o) ==
  {feeRecordFromPayload(e.items[1]) :
     e \in {x \in {stream["reply"][i] : i \in DOMAIN stream["reply"]} :
              x.kind = "fee" /\ x.items[1].o = o}}

(* However fee pages are repeated and whatever of them failed at first, no *)
(* page is newer than the record of its order and at least as complete; and*)
(* the row of an order that Relay drafted shows the fee of the record if it*)
(* is complete, and none if not, whatever events were written over the row *)
(* before and after it (an order page excepted).                           *)
FeesSettled ==
  /\ Applied => \A o \in Orders : FeePages(o) # {} =>
       /\ feeRecords[o] \in FeePages(o)
       /\ \A x \in FeePages(o) :
            x.asOf > feeRecords[o].asOf => feeRecords[o].done /\ ~x.done
  /\ scenario.drafted /\ ~Queried("page") =>
       \A o \in Orders :
         fee[o].asOf = IF feeRecords[o] # NoFee /\ feeRecords[o].done
                       THEN feeRecords[o].asOf ELSE 0

(* The worker catches up: the gateway falls silent in the end, and then    *)
(* everything it wrote has been read and reported, and archived unless a   *)
(* statement failed, although the worker may stop, repeat entries and lose *)
(* a checkpoint.                                                           *)
EventuallyCaughtUp ==
  <>[](CaughtUp /\ \A r \in RoleSet : \A i \in DOMAIN stream[r] :
                     <<r, i>> \in skipped \/ <<r, i>> \in {archive[k] : k \in DOMAIN archive})
=============================================================================
