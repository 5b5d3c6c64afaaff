------------------------------- MODULE OrderFlow -------------------------------
(***************************************************************************)
(* The write path of the relay API: internal/orderflow/service.go.  Every  *)
(* HTTP handler runs SubmitOrder, BatchSubmitOrders or CancelOrder as a    *)
(* series of PostgreSQL statements and one Redis XADD that no transaction  *)
(* joins, so handlers interleave between any two of them and any of them   *)
(* may fail.  Uniqueness of a submission rests on the unique indexes of    *)
(* the orders table; uniqueness of a cancel on an in-process mutex and on  *)
(* the archive of published commands.                                      *)
(***************************************************************************)
EXTENDS Integers, Sequences, FiniteSets

CONSTANTS
  Callers,          \* handler goroutines, each serving one request at a time
  Procs,            \* API processes; cancelMu is a field of each Service
  ProcOf,           \* the process a handler runs in
  Accounts,         \* account ids
  TradingAccounts,  \* accounts whose route is configured, enabled and trading
  Names,            \* identifiers and the parts generated keys are made of
  Bodies,           \* the rest of a payload: symbol, side, price, quantity, tags
  ReportedBody,     \* the rest of a row once a gateway report has rewritten it
  OrderRequests,    \* single submissions as clients send them
  BatchRequests,    \* batch submissions as clients send them
  CancelRequests,   \* cancel requests as clients send them
  NoCaller, NoRow, NoCall,  \* null values
  MaxSends,         \* how often the Redis client sends one command (MaxRetries + 1)
  MaxCalls,         \* bound: number of requests in a behaviour
  MaxDay            \* bound: last trading day of a behaviour

Keys == Seq(Names)
Absent == <<>>      \* an optional string the client left empty

(* trading.SubmitOrderRequest; date 0 is an absent trade_date.             *)
OrderReq == [acct: Accounts, gw: Names, client: Keys, key: Keys,
             date: Nat, body: Bodies \cup {ReportedBody}]

(* One API call.  A single submission is a batch of one order: the code    *)
(* differs only where an action below says so.  Optional fields have their *)
(* defaults, and the gateway order ids of one call differ.                 *)
Call ==
  {x \in [action: {"order.submit", "order.batch.submit", "order.cancel"},
          acct: Accounts, key: Keys, orders: Seq(OrderReq),
          gw: Names, cancel: Names] :
     /\ x.action = "order.cancel" <=> x.orders = <<>>
     /\ \A i \in DOMAIN x.orders :
          /\ x.orders[i].key # Absent /\ x.orders[i].client # Absent
          /\ x.orders[i].date # 0
     /\ \A i, j \in DOMAIN x.orders : x.orders[i].gw = x.orders[j].gw => i = j}

(* A row of the orders table, reduced to the columns the write path reads. *)
Status == {"open", "no_leaves", "terminal"}
Row == [req: OrderReq, origin: Nat, status: Status]

(* A command: one entry of the cmd.trade stream, and its archived copy.    *)
Command == [msg: Nat, call: Call]

Outcome == {"accepted", "replayed", "DUPLICATE_ORDER", "IDEMPOTENCY_CONFLICT",
            "ORDER_CONFLICT", "TERMINAL", "NO_LEAVES", "NOT_FOUND",
            "REFUSED", "ERROR"}

Receipt == [call: Call, outcome: Outcome, msg: Nat, located: BOOLEAN]

PC == {"idle", "gateway", "key", "compare", "create", "publish", "archive",
       "receipt", "lock", "cancel_lookup", "cancel_replay", "cancel_check"}

ASSUME RequestAssumption ==
  /\ TradingAccounts \subseteq Accounts
  /\ "order" \in Names /\ Accounts \subseteq Names
  /\ OrderRequests \subseteq OrderReq
  /\ \A b \in BatchRequests :
       /\ b \in [acct: Accounts, key: Keys, orders: Seq(OrderReq)]
       /\ Len(b.orders) > 0
       /\ \A i \in DOMAIN b.orders : b.orders[i].acct = b.acct
       /\ \A i, j \in DOMAIN b.orders :   \* BatchSubmitOrderRequest.Validate
            b.orders[i].gw = b.orders[j].gw => i = j
  /\ CancelRequests \subseteq [acct: Accounts, key: Keys, gw: Names, cancel: Names]

ASSUME ProcessAssumption ==
  /\ ProcOf \in [Callers -> Procs]
  /\ NoCaller \notin Callers
  /\ NoRow \notin Row /\ NoCall \notin Call
  /\ MaxSends \in Nat /\ MaxCalls \in Nat /\ MaxDay \in Nat \ {0}

VARIABLES
  today,      \* the clock, in trading days
  orders,     \* the orders table
  archive,    \* archived commands (raw_stream_messages), in received_at order
  stream,     \* the Redis cmd.trade stream
  nextMsg,    \* generator of message ids
  cancelMu,   \* holder of each process's cancelMu
  pc, call, child, conflict, replays, row, msg,  \* the locals of each handler
  receipts,   \* what the clients were answered (history)
  calls       \* number of requests so far (bound)

db == <<orders, archive>>
locals == <<pc, call, child, conflict, replays, row, msg>>
vars == <<today, db, stream, nextMsg, cancelMu, locals, receipts, calls>>

(***************************************************************************)
(* Ledger lookups.                                                         *)
(***************************************************************************)
(* GetOrder: the row of the latest trade date with this gateway order id.  *)
RowsOf(acct, gw) == {r \in orders : r.req.acct = acct /\ r.req.gw = gw}
GetOrder(acct, gw) ==
  {r \in RowsOf(acct, gw) : \A s \in RowsOf(acct, gw) : s.req.date <= r.req.date}

(* GetOrderByIdempotencyKey: at most one row, by the unique index.         *)
RowsWithKey(acct, key) == {r \in orders : r.req.acct = acct /\ r.req.key = key}

(* Both archived-command queries return the earliest match.                *)
Earliest(S) == {archive[i] : i \in {j \in S : \A k \in S : j <= k}}
ArchivedByKey(acct, action, key) ==
  {i \in DOMAIN archive : /\ archive[i].call.acct = acct
                          /\ archive[i].call.action = action
                          /\ archive[i].call.key = key}
ArchivedByMessage(m) == {i \in DOMAIN archive : archive[i].msg = m}

(* The unique indexes an INSERT of order o runs into: (account, trade_date,*)
(* gateway_order_id), (account, client_order_id), (account, key).          *)
MutNoOrderIndex(o) ==     \* mutant: no (account, date, gateway id) constraint
  \E r \in orders : r.req.acct = o.acct /\ r.req.key = o.key
UniqueViolation(o) ==
  \E r \in orders : /\ r.req.acct = o.acct
                    /\ \/ r.req.date = o.date /\ r.req.gw = o.gw
                       \/ r.req.client = o.client
                       \/ r.req.key = o.key

(***************************************************************************)
(* Normalisation of a request before its first ledger access.              *)
(***************************************************************************)
WithDefaults(o, key) ==
  [o EXCEPT !.key = key,
            !.client = IF @ = Absent THEN <<o.gw>> ELSE @,
            !.date = IF @ = 0 THEN today ELSE @]

SubmitCall(o) ==
  LET key == IF o.key = Absent THEN <<"order", o.acct, o.gw>> ELSE o.key
  IN  [action |-> "order.submit", acct |-> o.acct, key |-> key,
       orders |-> <<WithDefaults(o, key)>>, gw |-> o.gw, cancel |-> o.gw]

BatchCall(b) ==
  [action |-> "order.batch.submit", acct |-> b.acct, key |-> b.key,
   orders |-> [i \in DOMAIN b.orders |->
                 LET o == b.orders[i]
                 IN  WithDefaults(o, IF o.key = Absent THEN Append(b.key, o.gw)
                                     ELSE o.key)],
   gw |-> b.orders[1].gw, cancel |-> b.orders[1].gw]

CancelCall(x) ==
  [action |-> "order.cancel", acct |-> x.acct, key |-> x.key,
   orders |-> <<>>, gw |-> x.gw, cancel |-> x.cancel]

NormalizedCalls ==
  {SubmitCall(o) : o \in OrderRequests} \cup {BatchCall(b) : b \in BatchRequests}
    \cup {CancelCall(x) : x \in CancelRequests}

(***************************************************************************)
(* Returning from a handler.  CancelOrder's deferred Unlock runs on every  *)
(* path that has locked.                                                   *)
(***************************************************************************)
MutUnlock(c) == UNCHANGED cancelMu   \* mutant: no deferred Unlock
Unlock(c) == cancelMu' = [p \in Procs |-> IF cancelMu[p] = c THEN NoCaller
                                          ELSE cancelMu[p]]

AnswerMsg(c, outcome, m, located) ==
  /\ receipts' = receipts \cup
       {[call |-> call[c], outcome |-> outcome, msg |-> m, located |-> located]}
  /\ pc' = [pc EXCEPT ![c] = "idle"]
  /\ call' = [call EXCEPT ![c] = NoCall]
  /\ child' = [child EXCEPT ![c] = 0]
  /\ conflict' = [conflict EXCEPT ![c] = FALSE]
  /\ replays' = [replays EXCEPT ![c] = 0]
  /\ row' = [row EXCEPT ![c] = NoRow]
  /\ msg' = [msg EXCEPT ![c] = 0]
  /\ Unlock(c)

Answer(c, outcome) == AnswerMsg(c, outcome, msg[c], FALSE)

Goto(c, l) == /\ pc' = [pc EXCEPT ![c] = l]
              /\ UNCHANGED <<cancelMu, receipts>>

(* A request arrives and passes validation and routing.                    *)
Begin(c, x) ==
  /\ pc[c] = "idle" /\ calls < MaxCalls
  /\ x.acct \in TradingAccounts
  /\ Goto(c, IF x.action = "order.cancel" THEN "lock" ELSE "gateway")
  /\ call' = [call EXCEPT ![c] = x]
  /\ child' = [child EXCEPT ![c] = 1]
  /\ calls' = calls + 1
  /\ UNCHANGED <<today, db, stream, nextMsg, conflict, replays, row, msg>>

(* routeForAccount refuses an account that is not configured for trading.  *)
Refuse(c, x) ==
  /\ pc[c] = "idle" /\ calls < MaxCalls
  /\ x.acct \notin TradingAccounts
  /\ receipts' = receipts \cup
       {[call |-> x, outcome |-> "REFUSED", msg |-> 0, located |-> FALSE]}
  /\ calls' = calls + 1
  /\ UNCHANGED <<today, db, stream, nextMsg, cancelMu, locals>>

(***************************************************************************)
(* preflightSubmitOrder, for the current child.  It runs before the insert *)
(* for every child, and again (conflict = TRUE) for a child whose insert   *)
(* met a unique index.                                                     *)
(***************************************************************************)
ChildReq(c) == call[c].orders[child[c]]
LastChild(c) == child[c] = Len(call[c].orders)

(* After the preflight of a child: the next child, or, after the last one, *)
(* the inserts, the replay of the whole call, or the refusal of a mixture. *)
NextPreflight(c, n, m) ==
  \/ /\ ~LastChild(c)
     /\ Goto(c, "gateway")
     /\ child' = [child EXCEPT ![c] = @ + 1]
     /\ replays' = [replays EXCEPT ![c] = n]
     /\ row' = [row EXCEPT ![c] = NoRow]
     /\ msg' = [msg EXCEPT ![c] = m]
     /\ UNCHANGED <<nextMsg, call, conflict>>
  \/ /\ LastChild(c) /\ n = 0
     /\ Goto(c, "create")
     /\ child' = [child EXCEPT ![c] = 1]
     /\ msg' = [msg EXCEPT ![c] = nextMsg]
     /\ nextMsg' = nextMsg + 1
     /\ UNCHANGED <<call, conflict, replays, row>>
  \/ /\ LastChild(c) /\ n = Len(call[c].orders)
     /\ Goto(c, "receipt")
     /\ replays' = [replays EXCEPT ![c] = n]
     /\ msg' = [msg EXCEPT ![c] = m]
     /\ UNCHANGED <<nextMsg, call, child, conflict, row>>
  \/ /\ LastChild(c) /\ n \in 1 .. Len(call[c].orders) - 1
     /\ AnswerMsg(c, "DUPLICATE_ORDER", 0, FALSE)
     /\ UNCHANGED nextMsg

(* The preflight found nothing.  After a conflict that leaves the insert   *)
(* error itself, which is what a clash on client_order_id alone returns.   *)
PreflightNew(c) ==
  \/ /\ conflict[c]
     /\ Answer(c, "ORDER_CONFLICT")
     /\ UNCHANGED nextMsg
  \/ /\ ~conflict[c]
     /\ NextPreflight(c, replays[c], msg[c])

(* The preflight found the same submission.  A replayed receipt falls back *)
(* to the origin message of the first order.  A batch child that was       *)
(* reserved by someone else meanwhile fails the batch.                     *)
PreflightReplay(c) ==
  \/ /\ ~conflict[c]
     /\ NextPreflight(c, replays[c] + 1,
                      IF child[c] = 1 THEN row[c].origin ELSE msg[c])
  \/ /\ conflict[c] /\ call[c].action = "order.submit"
     /\ Goto(c, "receipt")
     /\ msg' = [msg EXCEPT ![c] = row[c].origin]
     /\ UNCHANGED <<nextMsg, call, child, conflict, replays, row>>
  \/ /\ conflict[c] /\ call[c].action # "order.submit"
     /\ Answer(c, "DUPLICATE_ORDER")
     /\ UNCHANGED nextMsg

(* seenIdempotencyKeys: two children of one batch with the same key.       *)
SeenKey(c) ==
  \E j \in 1 .. child[c] - 1 : call[c].orders[j].key = ChildReq(c).key

LookupGateway(c) ==
  LET o == ChildReq(c)
  IN  /\ pc[c] = "gateway"
      /\ \/ /\ ~conflict[c] /\ SeenKey(c)
            /\ Answer(c, "IDEMPOTENCY_CONFLICT")
         \/ /\ conflict[c] \/ ~SeenKey(c)
            /\ RowsOf(o.acct, o.gw) = {}
            /\ Goto(c, "key")
            /\ UNCHANGED <<call, child, conflict, replays, row, msg>>
         \/ /\ conflict[c] \/ ~SeenKey(c)
            /\ \E r \in GetOrder(o.acct, o.gw) :
                 \/ /\ r.req.key # o.key
                    /\ Answer(c, "DUPLICATE_ORDER")
                 \/ /\ r.req.key = o.key
                    /\ Goto(c, "compare")
                    /\ row' = [row EXCEPT ![c] = r]
                    /\ UNCHANGED <<call, child, conflict, replays, msg>>
      /\ UNCHANGED <<today, db, stream, nextMsg, calls>>

LookupKey(c) ==
  LET found == RowsWithKey(ChildReq(c).acct, ChildReq(c).key)
  IN  /\ pc[c] = "key"
      /\ \/ /\ found = {}
            /\ PreflightNew(c)
         \/ \E r \in found :
            /\ Goto(c, "compare")
            /\ row' = [row EXCEPT ![c] = r]
            /\ UNCHANGED <<nextMsg, call, child, conflict, replays, msg>>
      /\ UNCHANGED <<today, db, stream, calls>>

(* sameOriginalSubmitOrder: the request archived under the row's origin    *)
(* message decides, or, when there is none, the row itself (every column   *)
(* but the key).                                                           *)
ArchivedChildren(cmd, o) ==
  IF cmd.call.action = "order.submit" THEN {cmd.call.orders[1]}
  ELSE {cmd.call.orders[i] : i \in {j \in DOMAIN cmd.call.orders :
                                      cmd.call.orders[j].gw = o.gw}}

MutSameOriginal(r, o) ==   \* mutant: an unarchived command is not compared
  \A cmd \in Earliest(ArchivedByMessage(r.origin)) : o \in ArchivedChildren(cmd, o)
SameOriginalSubmitOrder(r, o) ==
  LET found == ArchivedByMessage(r.origin)
  IN  IF found = {} THEN [r.req EXCEPT !.key = o.key] = o
      ELSE \E cmd \in Earliest(found) : o \in ArchivedChildren(cmd, o)

(* The archived batch has no child with the requested gateway order id.    *)
ArchivedChildMissing(r, o) ==
  \E cmd \in Earliest(ArchivedByMessage(r.origin)) : ArchivedChildren(cmd, o) = {}

Compare(c) ==
  LET o == ChildReq(c)
      r == row[c]
      same == SameOriginalSubmitOrder(r, o) /\ r.req.gw = o.gw
  IN  /\ pc[c] = "compare"
      /\ \/ same /\ PreflightReplay(c)
         \/ /\ ~same
            /\ Answer(c, IF ArchivedChildMissing(r, o) THEN "ERROR"
                         ELSE "IDEMPOTENCY_CONFLICT")
            /\ UNCHANGED nextMsg
      /\ UNCHANGED <<today, db, stream, calls>>

(* replayedSubmitResult and replayedBatchSubmitResult: the receipt of the  *)
(* first archived command of this account, action and key.                 *)
ReplayReceipt(c) ==
  LET x == call[c]
      found == ArchivedByKey(x.acct, x.action, x.key)
  IN  /\ pc[c] = "receipt"
      /\ \/ found = {} /\ AnswerMsg(c, "replayed", msg[c], FALSE)
         \/ \E cmd \in Earliest(found) : AnswerMsg(c, "replayed", cmd.msg, TRUE)
      /\ UNCHANGED <<today, db, stream, nextMsg, calls>>

(***************************************************************************)
(* The insert-only reservation, the publication and the archive.           *)
(***************************************************************************)
MutCreateOrder(c) ==      \* mutant: publishes after the first child
  /\ pc[c] = "create" /\ ~UniqueViolation(ChildReq(c))
  /\ orders' = orders \cup
       {[req |-> ChildReq(c), origin |-> msg[c], status |-> "open"]}
  /\ Goto(c, "publish")
  /\ UNCHANGED <<today, archive, stream, nextMsg, call, child, conflict, replays,
                 row, msg, calls>>
CreateOrder(c) ==
  LET o == ChildReq(c)
  IN  /\ pc[c] = "create"
      /\ \/ /\ UniqueViolation(o)
            /\ Goto(c, "gateway")
            /\ conflict' = [conflict EXCEPT ![c] = TRUE]
            /\ UNCHANGED <<orders, child>>
         \/ /\ ~UniqueViolation(o)
            /\ orders' = orders \cup
                 {[req |-> o, origin |-> msg[c], status |-> "open"]}
            /\ Goto(c, IF LastChild(c) THEN "publish" ELSE "create")
            /\ child' = [child EXCEPT ![c] = IF LastChild(c) THEN @ ELSE @ + 1]
            /\ UNCHANGED conflict
      /\ UNCHANGED <<today, archive, stream, nextMsg, call, replays, row, msg, calls>>

CommandOf(c) == [msg |-> msg[c], call |-> call[c]]

MutPublishCommand(c) ==   \* mutant: the error of XADD is dropped
  /\ pc[c] = "publish"
  /\ Goto(c, "archive")
  /\ UNCHANGED <<today, db, stream, nextMsg, call, child, conflict, replays, row,
                 msg, calls>>
PublishCommand(c) ==
  /\ pc[c] = "publish"
  /\ stream' = Append(stream, CommandOf(c))
  /\ Goto(c, "archive")
  /\ UNCHANGED <<today, db, nextMsg, call, child, conflict, replays, row, msg, calls>>

(* The answer to the XADD is lost on the way and the Redis client sends    *)
(* the command again, before PublishCommand returns: go-redis repeats a    *)
(* command by default, and nothing in the entry makes Redis drop a copy.   *)
Copies(c) == {i \in DOMAIN stream : stream[i] = CommandOf(c)}
ResendCommand(c) ==
  /\ pc[c] = "archive"
  /\ Cardinality(Copies(c)) < MaxSends
  /\ stream' = Append(stream, CommandOf(c))
  /\ UNCHANGED <<today, db, nextMsg, cancelMu, locals, receipts, calls>>

ArchiveCommand(c) ==
  /\ pc[c] = "archive"
  /\ archive' = Append(archive, CommandOf(c))
  /\ AnswerMsg(c, "accepted", msg[c], TRUE)
  /\ UNCHANGED <<today, orders, stream, nextMsg, calls>>

(***************************************************************************)
(* CancelOrder, under cancelMu.                                            *)
(***************************************************************************)
MutCancelLock(c) ==       \* mutant: check and publication are not serialised
  /\ pc[c] = "lock"
  /\ Goto(c, "cancel_lookup")
  /\ UNCHANGED <<today, db, stream, nextMsg, call, child, conflict, replays, row,
                 msg, calls>>
CancelLock(c) ==
  /\ pc[c] = "lock"
  /\ cancelMu[ProcOf[c]] = NoCaller
  /\ cancelMu' = [cancelMu EXCEPT ![ProcOf[c]] = c]
  /\ pc' = [pc EXCEPT ![c] = "cancel_lookup"]
  /\ UNCHANGED <<today, db, stream, nextMsg, call, child, conflict, replays, row,
                 msg, receipts, calls>>

(* The archive decides before the order's state does, so that a cancel     *)
(* that worked can still be replayed.  sameCancelOrder compares all fields.*)
CancelLookup(c) ==
  LET x == call[c]
      found == ArchivedByKey(x.acct, "order.cancel", x.key)
  IN  /\ pc[c] = "cancel_lookup"
      /\ \/ /\ found = {}
            /\ Goto(c, "cancel_check")
            /\ UNCHANGED <<call, child, conflict, replays, row, msg>>
         \/ \E cmd \in Earliest(found) :
              \/ cmd.call # x /\ Answer(c, "IDEMPOTENCY_CONFLICT")
              \/ /\ cmd.call = x
                 /\ Goto(c, "cancel_replay")
                 /\ msg' = [msg EXCEPT ![c] = cmd.msg]
                 /\ UNCHANGED <<call, child, conflict, replays, row>>
      /\ UNCHANGED <<today, db, stream, nextMsg, calls>>

CancelReplay(c) ==
  LET x == call[c]
  IN  /\ pc[c] = "cancel_replay"
      /\ IF RowsOf(x.acct, x.gw) = {} THEN Answer(c, "NOT_FOUND")
         ELSE AnswerMsg(c, "replayed", msg[c], TRUE)
      /\ UNCHANGED <<today, db, stream, nextMsg, calls>>

CancelCheck(c) ==
  LET x == call[c]
  IN  /\ pc[c] = "cancel_check"
      /\ \/ /\ RowsOf(x.acct, x.gw) = {}
            /\ Answer(c, "NOT_FOUND") /\ UNCHANGED nextMsg
         \/ \E r \in GetOrder(x.acct, x.gw) :
              \/ /\ r.status = "terminal"
                 /\ Answer(c, "TERMINAL") /\ UNCHANGED nextMsg
              \/ /\ r.status = "no_leaves"
                 /\ Answer(c, "NO_LEAVES") /\ UNCHANGED nextMsg
              \/ /\ r.status = "open"
                 /\ Goto(c, "publish")
                 /\ msg' = [msg EXCEPT ![c] = nextMsg]
                 /\ nextMsg' = nextMsg + 1
                 /\ UNCHANGED <<call, child, conflict, replays, row>>
      /\ UNCHANGED <<today, db, stream, calls>>

(***************************************************************************)
(* Failures and the environment.                                           *)
(***************************************************************************)
(* A statement of the handler fails, its context is cancelled, or the      *)
(* process dies: the call ends where it is.  An insert or an XADD that took*)
(* effect but whose answer was lost is an abort of the following step.     *)
Abort(c) ==
  /\ pc[c] # "idle"
  /\ Answer(c, "ERROR")
  /\ UNCHANGED <<today, db, stream, nextMsg, calls>>

(* The sync worker applies a gateway report to a row: any status, and      *)
(* possibly the gateway's rendering of the payload.  It never touches the  *)
(* identity columns.  A report is of an order that was published, whose    *)
(* row CreateOrder has inserted, so upsertOrderSQL meets it and takes its  *)
(* DO UPDATE; the insertion of orders this API never sent is in LedgerSync.*)
SyncOrder(r, status, body) ==
  /\ \E i \in DOMAIN stream : stream[i].msg = r.origin
  /\ orders' = (orders \ {r}) \cup
       {[r EXCEPT !.status = status, !.req = [@ EXCEPT !.body = body]]}
  /\ UNCHANGED <<today, archive, stream, nextMsg, cancelMu, locals, receipts, calls>>

NextDay == /\ today < MaxDay
           /\ today' = today + 1
           /\ UNCHANGED <<db, stream, nextMsg, cancelMu, locals, receipts, calls>>

Init ==
  /\ today = 1
  /\ orders = {} /\ archive = <<>> /\ stream = <<>>
  /\ nextMsg = 1
  /\ cancelMu = [p \in Procs |-> NoCaller]
  /\ pc = [c \in Callers |-> "idle"]
  /\ call = [c \in Callers |-> NoCall]
  /\ child = [c \in Callers |-> 0] /\ replays = [c \in Callers |-> 0]
  /\ conflict = [c \in Callers |-> FALSE]
  /\ row = [c \in Callers |-> NoRow] /\ msg = [c \in Callers |-> 0]
  /\ receipts = {} /\ calls = 0

Step(c) ==
  \/ LookupGateway(c) \/ LookupKey(c) \/ Compare(c) \/ ReplayReceipt(c)
  \/ CreateOrder(c) \/ PublishCommand(c) \/ ArchiveCommand(c)
  \/ CancelLock(c) \/ CancelLookup(c) \/ CancelReplay(c) \/ CancelCheck(c)

Next ==
  \/ \E c \in Callers :
       \/ \E x \in NormalizedCalls : Begin(c, x)
       \/ \E x \in NormalizedCalls : Refuse(c, x)
       \/ Step(c)
       \/ ResendCommand(c)
       \/ Abort(c)
  \/ \E r \in orders, s \in Status : \E b \in {r.req.body, ReportedBody} :
       SyncOrder(r, s, b)
  \/ NextDay

Spec == Init /\ [][Next]_vars

(* The promise of the write path, as module SubmitOnce states it: what the *)
(* orders table reserves, and which messages cmd.trade carries.            *)
Identity(o) == [acct |-> o.acct, date |-> o.date, gw |-> o.gw, key |-> o.key]
Reserved == {[id |-> Identity(r.req), msg |-> r.origin] : r \in orders}
Sent == {stream[i].msg : i \in DOMAIN stream}
Once == INSTANCE SubmitOnce WITH reserved <- Reserved, sent <- Sent

(* The write path implements SubmitOnce: an identity is reserved by one    *)
(* message only, and a message is published once (the copies the Redis     *)
(* client may add are no new message), never before the rows it carries    *)
(* are reserved and never after another row could join it.                 *)
ImplementsSubmitOnce == Once!Spec

(* A handler goroutine keeps running, and sync.Mutex starves no waiter.    *)
Fairness == \A c \in Callers : WF_vars(Step(c)) /\ SF_vars(CancelLock(c))
FairSpec == Spec /\ Fairness

(***************************************************************************)
(* Properties.                                                             *)
(***************************************************************************)
(* Every variable keeps the shape of the ledger rows, the stream entries   *)
(* and the handler locals it models.                                       *)
TypeOK ==
  /\ today \in Nat \ {0} /\ calls \in Nat /\ nextMsg \in Nat \ {0}
  /\ orders \subseteq Row
  /\ archive \in Seq(Command) /\ stream \in Seq(Command)
  /\ cancelMu \in [Procs -> Callers \cup {NoCaller}]
  /\ pc \in [Callers -> PC] /\ call \in [Callers -> Call \cup {NoCall}]
  /\ child \in [Callers -> Nat] /\ replays \in [Callers -> Nat]
  /\ conflict \in [Callers -> BOOLEAN]
  /\ row \in [Callers -> Row \cup {NoRow}] /\ msg \in [Callers -> Nat]
  /\ receipts \subseteq Receipt

SameOrder(o, p) == /\ o.acct = p.acct
                   /\ \/ o.date = p.date /\ o.gw = p.gw
                      \/ o.key = p.key

(* SubmitOrder and BatchSubmitOrders put an order on cmd.trade in one      *)
(* message only: no two messages of the stream, and no two children of one,*)
(* carry the same account and trade date and gateway order id, or the same *)
(* account and idempotency key, however handlers race, fail and retry.  An *)
(* entry may come twice, but only as a copy the Redis client has added.    *)
SubmitOncePerOrder ==
  \A i, j \in DOMAIN stream :
    \A a \in DOMAIN stream[i].call.orders, b \in DOMAIN stream[j].call.orders :
      SameOrder(stream[i].call.orders[a], stream[j].call.orders[b])
        => stream[i] = stream[j] /\ a = b

(* Table T has a row with the identity of order o, inserted for message m. *)
ReservedIn(T, o, m) ==
  \E r \in T : /\ r.origin = m
               /\ Identity(r.req) = Identity(o) /\ r.req.client = o.client

(* What reaches the broker is in the ledger first: each order on cmd.trade *)
(* has a row with its identity, reserved by the very message that carries  *)
(* it, so reports and retries find it.                                     *)
ReservedBeforePublished ==
  \A i \in DOMAIN stream : \A a \in DOMAIN stream[i].call.orders :
    ReservedIn(orders, stream[i].call.orders[a], stream[i].msg)

(* A reservation whose command never reached the stream is never hidden    *)
(* from its client: its handler is still running or has answered an error. *)
NoSilentOrphan ==
  \A r \in orders :
    \/ \E i \in DOMAIN stream : stream[i].msg = r.origin
    \/ \E c \in Callers : pc[c] # "idle" /\ msg[c] = r.origin
    \/ \E x \in receipts : /\ x.msg = r.origin
                           /\ x.outcome \notin {"accepted", "replayed"}

(* A replayed receipt is given only for the payload that was sent: what    *)
(* cmd.trade carries under the account and key of a replayed order is that *)
(* very order, also when the archive of the command was lost.              *)
ReplayMatchesOriginal ==
  \A x \in receipts : x.outcome = "replayed" =>
    \A k \in DOMAIN x.call.orders, i \in DOMAIN stream :
      \A a \in DOMAIN stream[i].call.orders :
        LET o == x.call.orders[k]
            p == stream[i].call.orders[a]
        IN  o.acct = p.acct /\ o.key = p.key => o = p

CancelsWithKey(acct, key) ==
  {i \in DOMAIN stream : /\ stream[i].call.action = "order.cancel"
                         /\ stream[i].call.acct = acct
                         /\ stream[i].call.key = key}

(* Once a cancel was answered accepted, its key never publishes again:     *)
(* the check of the archive and the publication are one critical section   *)
(* of the API process.                                                     *)
CancelReceiptFinal ==
  [][\A x \in receipts :
       x.call.action = "order.cancel" /\ x.outcome = "accepted" =>
         CancelsWithKey(x.call.acct, x.call.key)'
           = CancelsWithKey(x.call.acct, x.call.key)]_vars

(* Every request is answered: handlers never wait on each other forever,   *)
(* and every return path of CancelOrder releases cancelMu.                 *)
EveryCallAnswered == \A c \in Callers : pc[c] # "idle" ~> pc[c] = "idle"
================================================================================
