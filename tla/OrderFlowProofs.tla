---------------------------- MODULE OrderFlowProofs ----------------------------
(***************************************************************************)
(* Proofs about the API write path for any number of handlers, processes,  *)
(* accounts and requests.                                                  *)
(***************************************************************************)
EXTENDS OrderFlow, TLAPS

(* Filling in the defaults of a request gives a complete order.            *)
LEMMA DefaultsType ==
  ASSUME today \in Nat \ {0}, NEW o \in OrderReq, NEW key \in Keys, key # Absent
  PROVE  /\ WithDefaults(o, key) \in OrderReq
         /\ WithDefaults(o, key).gw = o.gw
         /\ WithDefaults(o, key).acct = o.acct
         /\ WithDefaults(o, key).key # Absent
         /\ WithDefaults(o, key).client # Absent
         /\ WithDefaults(o, key).date # 0
  <1>1. <<o.gw>> \in Keys /\ <<o.gw>> # Absent
    BY DEF OrderReq, Keys, Absent
  <1> QED
    BY <1>1 DEF WithDefaults, OrderReq

(* A normalised single submission is a well-formed call.                   *)
LEMMA SubmitCallType ==
  ASSUME today \in Nat \ {0}, NEW o \in OrderRequests
  PROVE  SubmitCall(o) \in Call
  <1> DEFINE key == IF o.key = Absent THEN <<"order", o.acct, o.gw>> ELSE o.key
             w == WithDefaults(o, key)
             os == <<w>>
  <1>1. o \in OrderReq
    BY RequestAssumption
  <1>2. key \in Keys /\ key # Absent
    BY <1>1, RequestAssumption DEF OrderReq, Keys, Absent
  <1> HIDE DEF key
  <1>3. /\ w \in OrderReq /\ w.key # Absent /\ w.client # Absent /\ w.date # 0
    BY <1>1, <1>2, DefaultsType
  <1> HIDE DEF w
  <1>4. /\ os \in Seq(OrderReq) /\ DOMAIN os = {1} /\ os[1] = w /\ os # <<>>
    BY <1>3
  <1>5. SubmitCall(o) = [action |-> "order.submit", acct |-> o.acct, key |-> key,
                         orders |-> os, gw |-> o.gw, cancel |-> o.gw]
    BY DEF SubmitCall, key, w
  <1> HIDE DEF os
  <1>6. o.acct \in Accounts /\ o.gw \in Names
    BY <1>1 DEF OrderReq
  <1> QED
    BY <1>2, <1>3, <1>4, <1>5, <1>6 DEF Call

(* A normalised batch is a well-formed call: its children keep the         *)
(* pairwise different gateway order ids that Validate checked.             *)
LEMMA BatchCallType ==
  ASSUME today \in Nat \ {0}, NEW b \in BatchRequests
  PROVE  BatchCall(b) \in Call
  <1> DEFINE key(i) == IF b.orders[i].key = Absent THEN Append(b.key, b.orders[i].gw)
                       ELSE b.orders[i].key
             os == [i \in DOMAIN b.orders |-> WithDefaults(b.orders[i], key(i))]
  <1>1. /\ b \in [acct: Accounts, key: Keys, orders: Seq(OrderReq)]
        /\ Len(b.orders) > 0
        /\ \A i, j \in DOMAIN b.orders : b.orders[i].gw = b.orders[j].gw => i = j
    BY RequestAssumption
  <1>2. ASSUME NEW i \in DOMAIN b.orders
        PROVE  /\ os[i] \in OrderReq /\ os[i].gw = b.orders[i].gw
               /\ os[i].key # Absent /\ os[i].client # Absent /\ os[i].date # 0
    <2>1. b.orders[i] \in OrderReq
      BY <1>1
    <2>2. key(i) \in Keys /\ key(i) # Absent
      <3>1. b.key \in Seq(Names) /\ b.orders[i].gw \in Names
        BY <1>1, <2>1 DEF OrderReq, Keys
      <3>2. Append(b.key, b.orders[i].gw) \in Seq(Names)
        BY <3>1
      <3>3. Append(b.key, b.orders[i].gw) # <<>>
        BY <3>1
      <3> QED
        BY <2>1, <3>2, <3>3 DEF OrderReq, Keys, Absent
    <2>3. os[i] = WithDefaults(b.orders[i], key(i))
      OBVIOUS
    <2> HIDE DEF key, os
    <2> QED
      BY <2>1, <2>2, <2>3, DefaultsType
  <1>3. DOMAIN os = 1 .. Len(b.orders)
    BY <1>1
  <1>4. BatchCall(b) = [action |-> "order.batch.submit", acct |-> b.acct,
                        key |-> b.key, orders |-> os,
                        gw |-> b.orders[1].gw, cancel |-> b.orders[1].gw]
    BY DEF BatchCall
  <1>5. b.orders[1] \in OrderReq
    BY <1>1
  <1> HIDE DEF os
  <1>6. os \in Seq(OrderReq)
    <2>1. Len(b.orders) \in Nat /\ DOMAIN b.orders = 1 .. Len(b.orders)
      BY <1>1
    <2>2. os \in [1 .. Len(b.orders) -> OrderReq]
      <3>1. os = [i \in DOMAIN b.orders |-> os[i]]
        BY DEF os
      <3> QED
        BY <1>2, <2>1, <3>1
    <2> QED
      BY <2>1, <2>2
  <1>7. /\ b.acct \in Accounts /\ b.key \in Keys /\ b.orders[1].gw \in Names
        /\ DOMAIN os = DOMAIN b.orders
    BY <1>1, <1>3, <1>5 DEF OrderReq
  <1>8. \A i, j \in DOMAIN os : os[i].gw = os[j].gw => i = j
    BY <1>1, <1>2, <1>7
  <1>9. \A i \in DOMAIN os : os[i].key # Absent /\ os[i].client # Absent /\ os[i].date # 0
    BY <1>2, <1>7
  <1>10. os # <<>>
    <2>1. Len(os) = Len(b.orders) /\ Len(b.orders) > 0 /\ Len(b.orders) \in Nat
      BY <1>1, <1>3, <1>6, <1>7
    <2> QED
      BY <2>1
  <1> QED
    BY <1>4, <1>6, <1>7, <1>8, <1>9, <1>10 DEF Call

(* So is a cancel.                                                         *)
LEMMA CancelCallType ==
  ASSUME NEW x \in CancelRequests
  PROVE  CancelCall(x) \in Call
  BY RequestAssumption DEF CancelCall, Call

LEMMA NormalizedCallType ==
  ASSUME today \in Nat \ {0}, NEW x \in NormalizedCalls
  PROVE  x \in Call
  BY SubmitCallType, BatchCallType, CancelCallType DEF NormalizedCalls

(* What the proofs below use of a call, without unfolding Call.            *)
LEMMA CallFacts ==
  ASSUME NEW x \in Call
  PROVE  /\ x.orders \in Seq(OrderReq)
         /\ Len(x.orders) \in Nat /\ DOMAIN x.orders = 1 .. Len(x.orders)
         /\ \A i \in DOMAIN x.orders : x.orders[i] \in OrderReq
         /\ x.action = "order.cancel" <=> x.orders = <<>>
         /\ x.orders # <<>> => 1 \in DOMAIN x.orders
         /\ \A i, j \in DOMAIN x.orders : x.orders[i].gw = x.orders[j].gw => i = j
  <1>1. x.orders \in Seq(OrderReq)
    BY DEF Call
  <1>2. /\ x.action = "order.cancel" <=> x.orders = <<>>
        /\ \A i, j \in DOMAIN x.orders : x.orders[i].gw = x.orders[j].gw => i = j
    BY DEF Call
  <1>3. Len(x.orders) \in Nat /\ DOMAIN x.orders = 1 .. Len(x.orders)
    BY <1>1
  <1>4. x.orders # <<>> => Len(x.orders) > 0
    BY <1>1
  <1> QED
    BY <1>1, <1>2, <1>3, <1>4

(***************************************************************************)
(* Type correctness.  A handler that is running has a well-formed call, a  *)
(* current child while it reads or writes orders, a row to compare with,   *)
(* and no orders on the cancel path.                                       *)
(***************************************************************************)
SubmitPC == {"gateway", "key", "compare", "create"}
CancelPC == {"lock", "cancel_lookup", "cancel_replay", "cancel_check"}

HandlerOK(c) ==
  /\ pc[c] # "idle" => call[c] \in Call
  /\ pc[c] \in SubmitPC => child[c] \in DOMAIN call[c].orders
  /\ pc[c] = "compare" => row[c] \in Row
  /\ pc[c] \in CancelPC => call[c].orders = <<>>

HandlerInv == \A c \in Callers : HandlerOK(c)

(* The part of TypeOK that a handler's steps disturb.                      *)
LocalType ==
  /\ cancelMu \in [Procs -> Callers \cup {NoCaller}]
  /\ pc \in [Callers -> PC] /\ call \in [Callers -> Call \cup {NoCall}]
  /\ child \in [Callers -> Nat] /\ replays \in [Callers -> Nat]
  /\ conflict \in [Callers -> BOOLEAN]
  /\ row \in [Callers -> Row \cup {NoRow}] /\ msg \in [Callers -> Nat]
  /\ receipts \subseteq Receipt

(* A handler owns the message it is about to publish from the moment it    *)
(* starts to insert rows under it.                                         *)
OwnerPC == {"create", "publish"}

(* A calm step of handler c neither inserts nor publishes.  It owns no     *)
(* message afterwards, or it has just generated the one it owns.           *)
Takes(c) ==
  \/ pc'[c] \notin OwnerPC \cup {"archive"}
  \/ /\ msg'[c] = nextMsg /\ nextMsg' = nextMsg + 1
     /\ \/ pc'[c] = "create" /\ child'[c] = 1
        \/ pc'[c] = "publish" /\ call'[c].orders = <<>>

Alone(c) ==
  \A d \in Callers \ {c} : /\ pc'[d] = pc[d] /\ call'[d] = call[d]
                           /\ child'[d] = child[d] /\ row'[d] = row[d]
                           /\ msg'[d] = msg[d]

Calm(c) ==
  /\ LocalType' /\ HandlerOK(c)' /\ Alone(c) /\ Takes(c)
  /\ orders' = orders /\ stream' = stream
  /\ nextMsg' \in Nat \ {0} /\ nextMsg' >= nextMsg

LEMMA AnswerCalm ==
  ASSUME LocalType, nextMsg \in Nat \ {0}, NEW c \in Callers,
         HandlerOK(c), pc[c] # "idle",
         NEW outcome \in Outcome, NEW m \in Nat, NEW located \in BOOLEAN,
         AnswerMsg(c, outcome, m, located),
         UNCHANGED <<orders, stream, nextMsg>>
  PROVE  Calm(c)
  <1>1. receipts' \subseteq Receipt
    BY DEF LocalType, HandlerOK, AnswerMsg, Receipt
  <1>2. cancelMu' \in [Procs -> Callers \cup {NoCaller}]
    BY DEF LocalType, AnswerMsg, Unlock
  <1>3. LocalType'
    BY <1>1, <1>2 DEF LocalType, AnswerMsg, PC
  <1>4. HandlerOK(c)' /\ Alone(c) /\ Takes(c)
    BY DEF LocalType, AnswerMsg, HandlerOK, Alone, Takes, SubmitPC, CancelPC, OwnerPC
  <1> QED
    BY <1>3, <1>4 DEF Calm

LEMMA NextPreflightCalm ==
  ASSUME LocalType, nextMsg \in Nat \ {0}, NEW c \in Callers,
         HandlerOK(c), pc[c] \in {"key", "compare"}, NEW n \in Nat, NEW m \in Nat,
         NextPreflight(c, n, m), UNCHANGED <<orders, stream>>
  PROVE  Calm(c)
  <1> DEFINE os == call[c].orders
  <1>1. /\ call[c] \in Call /\ child[c] \in DOMAIN os
        /\ Len(os) \in Nat /\ DOMAIN os = 1 .. Len(os)
    BY CallFacts DEF HandlerOK, SubmitPC
  <1>2. CASE /\ ~LastChild(c)
             /\ Goto(c, "gateway")
             /\ child' = [child EXCEPT ![c] = @ + 1]
             /\ replays' = [replays EXCEPT ![c] = n]
             /\ row' = [row EXCEPT ![c] = NoRow]
             /\ msg' = [msg EXCEPT ![c] = m]
             /\ UNCHANGED <<nextMsg, call, conflict>>
    <2>1. child[c] + 1 \in DOMAIN os /\ child[c] + 1 \in Nat
      BY <1>1, <1>2 DEF LastChild
    <2>2. LocalType'
      BY <1>2, <2>1 DEF LocalType, Goto, PC
    <2>3. HandlerOK(c)' /\ Alone(c) /\ Takes(c)
      BY <1>1, <1>2, <2>1 DEF LocalType, Goto, HandlerOK, Alone, Takes, SubmitPC,
                              CancelPC, OwnerPC
    <2> QED
      BY <1>2, <2>2, <2>3 DEF Calm
  <1>3. CASE /\ LastChild(c) /\ n = 0
             /\ Goto(c, "create")
             /\ child' = [child EXCEPT ![c] = 1]
             /\ msg' = [msg EXCEPT ![c] = nextMsg]
             /\ nextMsg' = nextMsg + 1
             /\ UNCHANGED <<call, conflict, replays, row>>
    <2>1. 1 \in DOMAIN os
      BY <1>1
    <2>2. LocalType'
      BY <1>3 DEF LocalType, Goto, PC
    <2>3. HandlerOK(c)' /\ Alone(c) /\ Takes(c)
      BY <1>1, <1>3, <2>1 DEF LocalType, Goto, HandlerOK, Alone, Takes, SubmitPC,
                              CancelPC, OwnerPC
    <2> QED
      BY <1>3, <2>2, <2>3 DEF Calm
  <1>4. CASE /\ LastChild(c) /\ n = Len(call[c].orders)
             /\ Goto(c, "receipt")
             /\ replays' = [replays EXCEPT ![c] = n]
             /\ msg' = [msg EXCEPT ![c] = m]
             /\ UNCHANGED <<nextMsg, call, child, conflict, row>>
    <2>1. LocalType'
      BY <1>4 DEF LocalType, Goto, PC
    <2>2. HandlerOK(c)' /\ Alone(c) /\ Takes(c)
      BY <1>1, <1>4 DEF LocalType, Goto, HandlerOK, Alone, Takes, SubmitPC,
                        CancelPC, OwnerPC
    <2> QED
      BY <1>4, <2>1, <2>2 DEF Calm
  <1>5. CASE AnswerMsg(c, "DUPLICATE_ORDER", 0, FALSE) /\ UNCHANGED nextMsg
    BY <1>5, AnswerCalm DEF Outcome
  <1> QED
    BY <1>2, <1>3, <1>4, <1>5 DEF NextPreflight

(***************************************************************************)
(* Every step of a handler but the insert of a row and the publication is  *)
(* calm.                                                                   *)
(***************************************************************************)
LEMMA TypeParts ==
  ASSUME TypeOK PROVE LocalType /\ nextMsg \in Nat \ {0} /\ orders \subseteq Row
  BY DEF TypeOK, LocalType

LEMMA BeginCalm ==
  ASSUME TypeOK, NEW c \in Callers, NEW x \in NormalizedCalls, Begin(c, x)
  PROVE  Calm(c)
  <1>1. LocalType /\ nextMsg \in Nat \ {0} /\ x \in Call
    BY TypeParts, NormalizedCallType DEF TypeOK
  <1>2. LocalType'
    BY <1>1 DEF Begin, LocalType, Goto, PC
  <1>3. /\ x.action = "order.cancel" => x.orders = <<>>
        /\ x.action # "order.cancel" => 1 \in DOMAIN x.orders
    BY <1>1, CallFacts
  <1>4. HandlerOK(c)'
    BY <1>1, <1>3 DEF Begin, LocalType, Goto, HandlerOK, SubmitPC, CancelPC
  <1>5. Alone(c) /\ Takes(c)
    BY <1>1 DEF Begin, LocalType, Goto, Alone, Takes, OwnerPC
  <1> QED
    BY <1>1, <1>2, <1>4, <1>5 DEF Calm, Begin, db

LEMMA LookupGatewayCalm ==
  ASSUME TypeOK, NEW c \in Callers, HandlerOK(c), LookupGateway(c)
  PROVE  Calm(c)
  <1> DEFINE o == ChildReq(c)
  <1>1. LocalType /\ nextMsg \in Nat \ {0} /\ orders \subseteq Row /\ msg[c] \in Nat
    BY TypeParts DEF LocalType
  <1>2. pc[c] = "gateway" /\ UNCHANGED <<orders, stream, nextMsg>>
    BY DEF LookupGateway, db
  <1>3. ASSUME NEW outcome \in Outcome, Answer(c, outcome) PROVE Calm(c)
    BY <1>1, <1>2, <1>3, AnswerCalm DEF Answer
  <1>4. CASE /\ Goto(c, "key")
             /\ UNCHANGED <<call, child, conflict, replays, row, msg>>
    <2>1. LocalType'
      BY <1>1, <1>4 DEF LocalType, Goto, PC
    <2>2. HandlerOK(c)' /\ Alone(c) /\ Takes(c)
      BY <1>1, <1>2, <1>4 DEF LocalType, Goto, HandlerOK, Alone, Takes, SubmitPC,
                              CancelPC, OwnerPC
    <2> QED
      BY <1>1, <1>2, <2>1, <2>2 DEF Calm
  <1>5. ASSUME NEW r \in GetOrder(o.acct, o.gw), Goto(c, "compare"),
               row' = [row EXCEPT ![c] = r],
               UNCHANGED <<call, child, conflict, replays, msg>>
        PROVE  Calm(c)
    <2>1. r \in Row
      BY <1>1 DEF GetOrder, RowsOf
    <2>2. LocalType'
      BY <1>1, <1>5, <2>1 DEF LocalType, Goto, PC
    <2>3. HandlerOK(c)' /\ Alone(c) /\ Takes(c)
      BY <1>1, <1>2, <1>5, <2>1 DEF LocalType, Goto, HandlerOK, Alone, Takes,
                                    SubmitPC, CancelPC, OwnerPC
    <2> QED
      BY <1>1, <1>2, <2>2, <2>3 DEF Calm
  <1> QED
    BY <1>3, <1>4, <1>5 DEF LookupGateway, Outcome

LEMMA LookupKeyCalm ==
  ASSUME TypeOK, NEW c \in Callers, HandlerOK(c), LookupKey(c)
  PROVE  Calm(c)
  <1>1. /\ LocalType /\ nextMsg \in Nat \ {0} /\ orders \subseteq Row
        /\ msg[c] \in Nat /\ replays[c] \in Nat
    BY TypeParts DEF LocalType
  <1>2. pc[c] = "key" /\ UNCHANGED <<orders, stream>>
    BY DEF LookupKey, db
  <1>3. CASE PreflightNew(c)
    <2>1. CASE Answer(c, "ORDER_CONFLICT") /\ UNCHANGED nextMsg
      BY <1>1, <1>2, <2>1, AnswerCalm DEF Answer, Outcome
    <2>2. CASE NextPreflight(c, replays[c], msg[c])
      BY <1>1, <1>2, <2>2, NextPreflightCalm
    <2> QED
      BY <1>3, <2>1, <2>2 DEF PreflightNew
  <1>4. ASSUME NEW r \in RowsWithKey(ChildReq(c).acct, ChildReq(c).key),
               Goto(c, "compare"), row' = [row EXCEPT ![c] = r],
               UNCHANGED <<nextMsg, call, child, conflict, replays, msg>>
        PROVE  Calm(c)
    <2>1. r \in Row
      BY <1>1 DEF RowsWithKey
    <2>2. LocalType'
      BY <1>1, <1>4, <2>1 DEF LocalType, Goto, PC
    <2>3. HandlerOK(c)' /\ Alone(c) /\ Takes(c)
      BY <1>1, <1>2, <1>4, <2>1 DEF LocalType, Goto, HandlerOK, Alone, Takes,
                                    SubmitPC, CancelPC, OwnerPC
    <2> QED
      BY <1>1, <1>2, <1>4, <2>2, <2>3 DEF Calm
  <1> QED
    BY <1>3, <1>4 DEF LookupKey

LEMMA CompareCalm ==
  ASSUME TypeOK, NEW c \in Callers, HandlerOK(c), Compare(c)
  PROVE  Calm(c)
  <1>1. /\ LocalType /\ nextMsg \in Nat \ {0}
        /\ msg[c] \in Nat /\ replays[c] \in Nat
    BY TypeParts DEF LocalType
  <1>2. pc[c] = "compare" /\ UNCHANGED <<orders, stream>>
    BY DEF Compare, db
  <1>3. row[c].origin \in Nat
    BY <1>2 DEF HandlerOK, Row
  <1>4. ASSUME NEW outcome \in Outcome, Answer(c, outcome), UNCHANGED nextMsg
        PROVE  Calm(c)
    BY <1>1, <1>2, <1>4, AnswerCalm DEF Answer
  <1>5. CASE PreflightReplay(c)
    <2> DEFINE m == IF child[c] = 1 THEN row[c].origin ELSE msg[c]
    <2>1. m \in Nat /\ replays[c] + 1 \in Nat
      BY <1>1, <1>3
    <2>2. CASE NextPreflight(c, replays[c] + 1, m)
      <3> HIDE DEF m
      <3> QED
        BY <1>1, <1>2, <2>1, <2>2, NextPreflightCalm
    <2>3. CASE /\ Goto(c, "receipt")
               /\ msg' = [msg EXCEPT ![c] = row[c].origin]
               /\ UNCHANGED <<nextMsg, call, child, conflict, replays, row>>
      <3>1. LocalType'
        BY <1>1, <1>3, <2>3 DEF LocalType, Goto, PC
      <3>2. HandlerOK(c)' /\ Alone(c) /\ Takes(c)
        BY <1>1, <1>2, <2>3 DEF LocalType, Goto, HandlerOK, Alone, Takes, SubmitPC,
                                CancelPC, OwnerPC
      <3> QED
        BY <1>1, <1>2, <2>3, <3>1, <3>2 DEF Calm
    <2>4. CASE Answer(c, "DUPLICATE_ORDER") /\ UNCHANGED nextMsg
      BY <1>4, <2>4 DEF Outcome
    <2> QED
      BY <1>5, <2>2, <2>3, <2>4 DEF PreflightReplay
  <1>6. CASE \E outcome \in Outcome : Answer(c, outcome) /\ UNCHANGED nextMsg
    BY <1>4, <1>6
  <1> QED
    BY <1>5, <1>6 DEF Compare, Outcome

LEMMA ArchivedCommandType ==
  ASSUME archive \in Seq(Command), NEW S \in SUBSET DOMAIN archive, NEW cmd \in Earliest(S)
  PROVE  cmd \in Command /\ cmd.msg \in Nat
  <1>1. PICK i \in DOMAIN archive : cmd = archive[i]
    BY DEF Earliest
  <1>2. cmd \in Command
    BY <1>1
  <1> QED
    BY <1>2 DEF Command

LEMMA ReplayReceiptCalm ==
  ASSUME TypeOK, NEW c \in Callers, HandlerOK(c), ReplayReceipt(c)
  PROVE  Calm(c)
  <1> DEFINE found == ArchivedByKey(call[c].acct, call[c].action, call[c].key)
  <1>1. LocalType /\ nextMsg \in Nat \ {0} /\ msg[c] \in Nat
    BY TypeParts DEF LocalType
  <1>2. pc[c] = "receipt" /\ UNCHANGED <<orders, stream, nextMsg>>
    BY DEF ReplayReceipt, db
  <1>3. \A cmd \in Earliest(found) : cmd.msg \in Nat
    BY ArchivedCommandType DEF TypeOK, ArchivedByKey
  <1>4. \E m \in Nat, l \in BOOLEAN : AnswerMsg(c, "replayed", m, l)
    BY <1>1, <1>3 DEF ReplayReceipt
  <1> QED
    BY <1>1, <1>2, <1>4, AnswerCalm DEF Outcome

LEMMA ArchiveCommandCalm ==
  ASSUME TypeOK, NEW c \in Callers, HandlerOK(c), ArchiveCommand(c)
  PROVE  Calm(c) /\ archive' \in Seq(Command)
  <1>1. LocalType /\ nextMsg \in Nat \ {0} /\ msg[c] \in Nat
    BY TypeParts DEF LocalType
  <1>2. /\ pc[c] = "archive" /\ UNCHANGED <<orders, stream, nextMsg>>
        /\ AnswerMsg(c, "accepted", msg[c], TRUE)
        /\ archive' = Append(archive, CommandOf(c))
    BY DEF ArchiveCommand
  <1>3. CommandOf(c) \in Command
    BY <1>1, <1>2 DEF CommandOf, Command, HandlerOK
  <1>4. archive' \in Seq(Command)
    BY <1>2, <1>3 DEF TypeOK
  <1> QED
    BY <1>1, <1>2, <1>4, AnswerCalm DEF Outcome

LEMMA CancelLockCalm ==
  ASSUME TypeOK, NEW c \in Callers, HandlerOK(c), CancelLock(c)
  PROVE  Calm(c)
  <1>1. LocalType /\ nextMsg \in Nat \ {0}
    BY TypeParts
  <1>2. LocalType'
    BY <1>1, ProcessAssumption DEF LocalType, CancelLock, PC
  <1>3. HandlerOK(c)' /\ Alone(c) /\ Takes(c)
    BY <1>1 DEF LocalType, CancelLock, HandlerOK, Alone, Takes, SubmitPC, CancelPC, OwnerPC
  <1> QED
    BY <1>1, <1>2, <1>3 DEF Calm, CancelLock, db

LEMMA CancelLookupCalm ==
  ASSUME TypeOK, NEW c \in Callers, HandlerOK(c), CancelLookup(c)
  PROVE  Calm(c)
  <1> DEFINE found == ArchivedByKey(call[c].acct, "order.cancel", call[c].key)
  <1>1. LocalType /\ nextMsg \in Nat \ {0} /\ msg[c] \in Nat
    BY TypeParts DEF LocalType
  <1>2. pc[c] = "cancel_lookup" /\ UNCHANGED <<orders, stream, nextMsg>>
    BY DEF CancelLookup, db
  <1>3. \A cmd \in Earliest(found) : cmd.msg \in Nat
    BY ArchivedCommandType DEF TypeOK, ArchivedByKey
  <1>4. ASSUME NEW m \in Nat, NEW l \in {"cancel_check", "cancel_replay"}, Goto(c, l),
               msg' = [msg EXCEPT ![c] = m],
               UNCHANGED <<call, child, conflict, replays, row>>
        PROVE  Calm(c)
    <2>1. LocalType'
      BY <1>1, <1>4 DEF LocalType, Goto, PC
    <2>2. HandlerOK(c)' /\ Alone(c) /\ Takes(c)
      BY <1>1, <1>2, <1>4 DEF LocalType, Goto, HandlerOK, Alone, Takes, SubmitPC,
                              CancelPC, OwnerPC
    <2> QED
      BY <1>1, <1>2, <2>1, <2>2 DEF Calm
  <1>5. CASE Goto(c, "cancel_check") /\ UNCHANGED <<call, child, conflict, replays, row, msg>>
    <2>1. msg' = [msg EXCEPT ![c] = msg[c]]
      BY <1>1, <1>5 DEF LocalType
    <2> QED
      BY <1>1, <1>4, <1>5, <2>1
  <1>6. CASE Answer(c, "IDEMPOTENCY_CONFLICT")
    BY <1>1, <1>2, <1>6, AnswerCalm DEF Answer, Outcome
  <1>7. ASSUME NEW cmd \in Earliest(found), Goto(c, "cancel_replay"),
               msg' = [msg EXCEPT ![c] = cmd.msg],
               UNCHANGED <<call, child, conflict, replays, row>>
        PROVE  Calm(c)
    BY <1>3, <1>4, <1>7
  <1> QED
    BY <1>5, <1>6, <1>7 DEF CancelLookup

LEMMA CancelReplayCalm ==
  ASSUME TypeOK, NEW c \in Callers, HandlerOK(c), CancelReplay(c)
  PROVE  Calm(c)
  <1>1. LocalType /\ nextMsg \in Nat \ {0} /\ msg[c] \in Nat
    BY TypeParts DEF LocalType
  <1>2. pc[c] = "cancel_replay" /\ UNCHANGED <<orders, stream, nextMsg>>
    BY DEF CancelReplay, db
  <1>3. \/ AnswerMsg(c, "NOT_FOUND", msg[c], FALSE)
        \/ AnswerMsg(c, "replayed", msg[c], TRUE)
    BY DEF CancelReplay, Answer
  <1> QED
    BY <1>1, <1>2, <1>3, AnswerCalm DEF Outcome

LEMMA CancelCheckCalm ==
  ASSUME TypeOK, NEW c \in Callers, HandlerOK(c), CancelCheck(c)
  PROVE  Calm(c)
  <1>1. LocalType /\ nextMsg \in Nat \ {0} /\ msg[c] \in Nat
    BY TypeParts DEF LocalType
  <1>2. pc[c] = "cancel_check" /\ UNCHANGED <<orders, stream>>
    BY DEF CancelCheck, db
  <1>3. ASSUME NEW outcome \in Outcome, Answer(c, outcome), UNCHANGED nextMsg
        PROVE  Calm(c)
    BY <1>1, <1>2, <1>3, AnswerCalm DEF Answer
  <1>4. CASE /\ Goto(c, "publish")
             /\ msg' = [msg EXCEPT ![c] = nextMsg]
             /\ nextMsg' = nextMsg + 1
             /\ UNCHANGED <<call, child, conflict, replays, row>>
    <2>1. LocalType'
      BY <1>1, <1>4 DEF LocalType, Goto, PC
    <2>2. HandlerOK(c)' /\ Alone(c) /\ Takes(c)
      BY <1>1, <1>2, <1>4 DEF LocalType, Goto, HandlerOK, Alone, Takes, SubmitPC,
                              CancelPC, OwnerPC
    <2> QED
      BY <1>1, <1>2, <1>4, <2>1, <2>2 DEF Calm
  <1> QED
    BY <1>3, <1>4 DEF CancelCheck, Outcome

LEMMA AbortCalm ==
  ASSUME TypeOK, NEW c \in Callers, HandlerOK(c), Abort(c)
  PROVE  Calm(c)
  <1>1. LocalType /\ nextMsg \in Nat \ {0} /\ msg[c] \in Nat
    BY TypeParts DEF LocalType
  <1> QED
    BY <1>1, AnswerCalm DEF Abort, Answer, Outcome, db

(***************************************************************************)
(* The inductive invariant.  Message ids are generated once: the stream    *)
(* never repeats one, and the ids that handlers own are below the          *)
(* generator, unpublished and pairwise different.  The indexes make rows   *)
(* unique.  A handler that inserts has reserved the children before the    *)
(* current one, and a handler that publishes all of them, so that what is  *)
(* on the stream is reserved by the message that carries it.               *)
(***************************************************************************)
StreamMsgs ==
  /\ \A i \in DOMAIN stream : stream[i].msg < nextMsg
  /\ \A i, j \in DOMAIN stream : stream[i].msg = stream[j].msg => stream[i] = stream[j]

(* What a handler archives it has published.                               *)
PublishedFirst ==
  \A c \in Callers : pc[c] = "archive" => \E i \in DOMAIN stream : stream[i] = CommandOf(c)

OwnedMsgs ==
  \A c \in Callers : pc[c] \in OwnerPC =>
    /\ msg[c] < nextMsg
    /\ \A i \in DOMAIN stream : stream[i].msg # msg[c]
    /\ \A d \in Callers : pc[d] \in OwnerPC /\ msg[d] = msg[c] => d = c

RowsUnique == \A r, s \in orders : SameOrder(r.req, s.req) => r = s

ReservedUpTo(c, n) ==
  \A a \in DOMAIN call[c].orders : a < n => ReservedIn(orders, call[c].orders[a], msg[c])

HandlersReserve ==
  \A c \in Callers :
    /\ pc[c] = "create" => ReservedUpTo(c, child[c])
    /\ pc[c] = "publish" => ReservedUpTo(c, Len(call[c].orders) + 1)

IndInv == /\ TypeOK /\ HandlerInv
          /\ StreamMsgs /\ PublishedFirst /\ OwnedMsgs /\ RowsUnique /\ HandlersReserve
          /\ ReservedBeforePublished

LEMMA CalmInv ==
  ASSUME IndInv, NEW c \in Callers, Calm(c),
         today' \in Nat \ {0}, calls' \in Nat, archive' \in Seq(Command)
  PROVE  IndInv'
  <1>1. /\ LocalType /\ LocalType' /\ Alone(c) /\ Takes(c) /\ HandlerOK(c)'
        /\ orders' = orders /\ stream' = stream /\ orders \subseteq Row
        /\ nextMsg \in Nat /\ nextMsg' \in Nat \ {0} /\ nextMsg' >= nextMsg
        /\ stream \in Seq(Command)
    BY TypeParts DEF IndInv, Calm, TypeOK
  <1>2. TypeOK'
    BY <1>1 DEF TypeOK, LocalType
  <1>3. HandlerInv'
    BY <1>1 DEF IndInv, HandlerInv, HandlerOK, Alone
  <1>4. \A i \in DOMAIN stream : stream[i].msg \in Nat
    <2>1. \A i \in DOMAIN stream : stream[i] \in Command
      BY <1>1
    <2> QED
      BY <2>1 DEF Command
  <1>5. StreamMsgs'
    BY <1>1, <1>4 DEF IndInv, StreamMsgs
  <1>6. OwnedMsgs'
    <2>1. \A d \in Callers : msg[d] \in Nat
      BY <1>1 DEF LocalType
    <2>2. CASE pc'[c] \notin OwnerPC \cup {"archive"}
      BY <1>1, <2>1, <2>2 DEF IndInv, OwnedMsgs, Alone
    <2>3. CASE msg'[c] = nextMsg /\ nextMsg' = nextMsg + 1
      BY <1>1, <1>4, <2>1, <2>3 DEF IndInv, OwnedMsgs, StreamMsgs, Alone
    <2> QED
      BY <1>1, <2>2, <2>3 DEF Takes
  <1>7. RowsUnique'
    BY <1>1 DEF IndInv, RowsUnique, SameOrder
  <1>8. ReservedBeforePublished'
    BY <1>1 DEF IndInv, ReservedBeforePublished, ReservedIn
  <1>9. HandlersReserve'
    <2> SUFFICES ASSUME NEW d \in Callers
                 PROVE  /\ pc'[d] = "create" => ReservedUpTo(d, child[d])'
                        /\ pc'[d] = "publish" => ReservedUpTo(d, Len(call[d].orders) + 1)'
      BY DEF HandlersReserve
    <2>1. CASE d # c
      <3>1. /\ pc'[d] = pc[d] /\ call'[d] = call[d] /\ child'[d] = child[d]
            /\ msg'[d] = msg[d] /\ orders' = orders
        BY <1>1, <2>1 DEF Alone
      <3> QED
        BY <3>1 DEF IndInv, HandlersReserve, ReservedUpTo
    <2>2. CASE d = c /\ pc'[c] = "create" /\ child'[c] = 1
      <3>1. \A a \in DOMAIN call'[c].orders : ~(a < 1)
        BY <1>1, <2>2, CallFacts DEF HandlerOK
      <3> QED
        BY <2>2, <3>1 DEF ReservedUpTo
    <2>3. CASE d = c /\ pc'[c] = "publish" /\ call'[c].orders = <<>>
      BY <2>3 DEF ReservedUpTo
    <2> QED
      BY <1>1, <2>1, <2>2, <2>3 DEF Takes, OwnerPC
  <1>10. PublishedFirst'
    <2>1. pc'[c] # "archive"
      BY <1>1 DEF Takes
    <2>2. \A d \in Callers \ {c} : pc'[d] = pc[d] /\ CommandOf(d)' = CommandOf(d)
      BY <1>1 DEF Alone, CommandOf
    <2> QED
      BY <1>1, <2>1, <2>2 DEF IndInv, PublishedFirst
  <1> QED
    BY <1>2, <1>3, <1>5, <1>6, <1>7, <1>8, <1>9, <1>10 DEF IndInv

(* An insert reserves the current child: no index refused it, so no row    *)
(* has its identity, and the handler has one child less to reserve.        *)
LEMMA CreateOrderInv ==
  ASSUME IndInv, NEW c \in Callers, CreateOrder(c)
  PROVE  IndInv'
  <1> DEFINE o == ChildReq(c)
             new == [req |-> o, origin |-> msg[c], status |-> "open"]
  <1>1. /\ LocalType /\ orders \subseteq Row /\ HandlerOK(c) /\ TypeOK
        /\ nextMsg \in Nat \ {0} /\ msg[c] \in Nat
    BY TypeParts DEF IndInv, HandlerInv, LocalType
  <1>2. /\ pc[c] = "create" /\ call[c] \in Call /\ child[c] \in DOMAIN call[c].orders
        /\ o \in OrderReq /\ Len(call[c].orders) \in Nat
        /\ DOMAIN call[c].orders = 1 .. Len(call[c].orders)
    BY <1>1, CallFacts DEF CreateOrder, HandlerOK, SubmitPC, ChildReq
  <1>3. UNCHANGED <<today, archive, stream, nextMsg, call, replays, row, msg, calls>>
    BY DEF CreateOrder
  <1>4. CASE /\ Goto(c, "gateway")
             /\ conflict' = [conflict EXCEPT ![c] = TRUE]
             /\ UNCHANGED <<orders, child>>
    <2>1. LocalType'
      BY <1>1, <1>3, <1>4 DEF LocalType, Goto, PC
    <2>2. HandlerOK(c)' /\ Alone(c) /\ Takes(c)
      BY <1>1, <1>2, <1>3, <1>4 DEF LocalType, Goto, HandlerOK, Alone, Takes, SubmitPC,
                                    CancelPC, OwnerPC
    <2>3. Calm(c)
      BY <1>1, <1>3, <1>4, <2>1, <2>2 DEF Calm
    <2> QED
      BY <1>1, <1>3, <2>3, CalmInv DEF TypeOK
  <1>5. CASE /\ ~UniqueViolation(o)
             /\ orders' = orders \cup {new}
             /\ Goto(c, IF LastChild(c) THEN "publish" ELSE "create")
             /\ child' = [child EXCEPT ![c] = IF LastChild(c) THEN @ ELSE @ + 1]
             /\ UNCHANGED conflict
    <2>1. new \in Row
      BY <1>1, <1>2 DEF Row, Status
    <2>2. child'[c] \in DOMAIN call[c].orders /\ child' \in [Callers -> Nat]
      BY <1>1, <1>2, <1>5 DEF LocalType, LastChild
    <2>3. TypeOK'
      BY <1>1, <1>3, <1>5, <2>1, <2>2 DEF TypeOK, Goto, PC
    <2>4. Alone(c) /\ pc'[c] \in OwnerPC
      BY <1>1, <1>3, <1>5 DEF LocalType, Goto, Alone, OwnerPC
    <2>5. HandlerInv'
      <3>1. HandlerOK(c)'
        BY <1>1, <1>2, <1>3, <1>5, <2>2 DEF HandlerOK, SubmitPC, CancelPC, Goto, LocalType
      <3> QED
        BY <2>4, <3>1 DEF IndInv, HandlerInv, HandlerOK, Alone
    <2>6. StreamMsgs' /\ PublishedFirst'
      BY <1>3, <2>4 DEF IndInv, StreamMsgs, PublishedFirst, CommandOf, Alone, OwnerPC
    <2>7. OwnedMsgs'
      BY <1>2, <1>3, <2>4 DEF IndInv, OwnedMsgs, Alone, OwnerPC
    <2>8. RowsUnique'
      <3>1. \A r \in orders : ~SameOrder(r.req, o) /\ ~SameOrder(o, r.req)
        BY <1>5 DEF UniqueViolation, SameOrder
      <3>2. new.req = o
        OBVIOUS
      <3> HIDE DEF new, o
      <3> QED
        BY <1>5, <3>1, <3>2 DEF IndInv, RowsUnique
    <2>9. ASSUME NEW p, NEW m, ReservedIn(orders, p, m)
          PROVE  ReservedIn(orders', p, m)
      BY <1>5, <2>9 DEF ReservedIn
    <2>10. ReservedBeforePublished'
      BY <1>3, <2>9 DEF IndInv, ReservedBeforePublished
    <2>11. ReservedIn(orders', o, msg[c])
      <3>1. new.req = o /\ new.origin = msg[c] /\ new \in orders'
        BY <1>5
      <3> HIDE DEF new, o
      <3> QED
        BY <3>1 DEF ReservedIn
    <2>12. HandlersReserve'
      <3> SUFFICES ASSUME NEW d \in Callers
                   PROVE  /\ pc'[d] = "create" => ReservedUpTo(d, child[d])'
                          /\ pc'[d] = "publish" => ReservedUpTo(d, Len(call[d].orders) + 1)'
        BY DEF HandlersReserve
      <3>1. CASE d # c
        BY <2>4, <2>9, <3>1 DEF IndInv, HandlersReserve, ReservedUpTo, Alone
      <3>2. CASE d = c
        <4>1. ReservedUpTo(c, child[c])
          BY <1>2 DEF IndInv, HandlersReserve
        <4>2. \A a \in DOMAIN call[c].orders : a <= child[c] =>
                ReservedIn(orders', call[c].orders[a], msg[c])
          <5> TAKE a \in DOMAIN call[c].orders
          <5>1. CASE a = child[c]
            BY <2>11, <5>1 DEF ChildReq
          <5>2. CASE a < child[c]
            BY <2>9, <4>1, <5>2 DEF ReservedUpTo
          <5> QED
            BY <1>2, <5>1, <5>2
        <4>3. CASE LastChild(c)
          <5>1. pc'[c] = "publish"
            BY <1>1, <1>5, <4>3 DEF Goto, LocalType
          <5>2. ReservedUpTo(c, Len(call[c].orders) + 1)'
            BY <1>2, <1>3, <4>2, <4>3 DEF ReservedUpTo, LastChild
          <5> QED
            BY <3>2, <5>1, <5>2
        <4>4. CASE ~LastChild(c)
          <5>1. pc'[c] = "create" /\ child'[c] = child[c] + 1
            BY <1>1, <1>5, <4>4 DEF Goto, LocalType
          <5>2. ReservedUpTo(c, child[c])'
            BY <1>2, <1>3, <4>2, <5>1 DEF ReservedUpTo
          <5> QED
            BY <3>2, <5>1, <5>2
        <4> QED
          BY <4>3, <4>4
      <3> QED
        BY <3>1, <3>2
    <2> QED
      BY <2>3, <2>5, <2>6, <2>7, <2>8, <2>10, <2>12 DEF IndInv
  <1> QED
    BY <1>4, <1>5 DEF CreateOrder

(* A publication uses up the message the handler owns; the rows it carries *)
(* are all there.                                                          *)
LEMMA PublishCommandInv ==
  ASSUME IndInv, NEW c \in Callers, PublishCommand(c)
  PROVE  IndInv'
  <1> DEFINE n == Len(stream) + 1
  <1>1. /\ LocalType /\ TypeOK /\ HandlerOK(c) /\ stream \in Seq(Command)
        /\ nextMsg \in Nat \ {0} /\ msg[c] \in Nat
    BY TypeParts DEF IndInv, HandlerInv, LocalType, TypeOK
  <1>2. /\ pc[c] = "publish" /\ stream' = Append(stream, CommandOf(c))
        /\ pc' = [pc EXCEPT ![c] = "archive"]
        /\ UNCHANGED <<today, orders, archive, nextMsg, call, child, conflict, replays,
                       row, msg, calls, cancelMu, receipts>>
    BY DEF PublishCommand, Goto, db
  <1>3. /\ call[c] \in Call /\ CommandOf(c) \in Command
        /\ CommandOf(c).msg = msg[c] /\ CommandOf(c).call = call[c]
    BY <1>1, <1>2 DEF HandlerOK, CommandOf, Command
  <1>4. TypeOK'
    <2>1. stream' \in Seq(Command)
      BY <1>1, <1>2, <1>3
    <2> QED
      BY <1>1, <1>2, <2>1 DEF TypeOK, PC
  <1>5. Alone(c) /\ pc'[c] = "archive"
    BY <1>1, <1>2 DEF LocalType, Alone
  <1>6. HandlerInv'
    BY <1>1, <1>2, <1>3, <1>5 DEF IndInv, HandlerInv, HandlerOK, Alone, SubmitPC, CancelPC
  <1>7. /\ Len(stream) \in Nat /\ DOMAIN stream = 1 .. Len(stream)
        /\ DOMAIN stream' = 1 .. n
        /\ stream'[n] = CommandOf(c)
        /\ \A i \in DOMAIN stream : stream'[i] = stream[i]
    BY <1>1, <1>2, <1>3
  <1>8. \A i \in DOMAIN stream' : \/ i \in DOMAIN stream /\ stream'[i] = stream[i]
                                  \/ i = n /\ stream'[i] = CommandOf(c)
    BY <1>7
  <1> HIDE DEF n
  <1>9. msg[c] < nextMsg /\ \A i \in DOMAIN stream : stream[i].msg # msg[c]
    BY <1>2 DEF IndInv, OwnedMsgs, OwnerPC
  <1>10. StreamMsgs'
    BY <1>2, <1>3, <1>8, <1>9 DEF IndInv, StreamMsgs
  <1>11. OwnedMsgs'
    <2>1. ASSUME NEW d \in Callers, pc'[d] \in OwnerPC
          PROVE  /\ d # c /\ pc[d] \in OwnerPC /\ msg'[d] = msg[d] /\ msg[d] # msg[c]
      BY <1>2, <1>5, <2>1 DEF Alone, IndInv, OwnedMsgs, OwnerPC
    <2> QED
      BY <1>2, <1>3, <1>8, <2>1 DEF IndInv, OwnedMsgs
  <1>12. RowsUnique'
    BY <1>2 DEF IndInv, RowsUnique, SameOrder
  <1>13. ReservedBeforePublished'
    <2>1. \A a \in DOMAIN call[c].orders : ReservedIn(orders, call[c].orders[a], msg[c])
      <3>1. \A a \in DOMAIN call[c].orders : a < Len(call[c].orders) + 1
        BY <1>3, CallFacts
      <3> QED
        BY <1>2, <3>1 DEF IndInv, HandlersReserve, ReservedUpTo
    <2> QED
      BY <1>2, <1>3, <1>8, <2>1 DEF IndInv, ReservedBeforePublished
  <1>14. HandlersReserve'
    <2> SUFFICES ASSUME NEW d \in Callers
                 PROVE  /\ pc'[d] = "create" => ReservedUpTo(d, child[d])'
                        /\ pc'[d] = "publish" => ReservedUpTo(d, Len(call[d].orders) + 1)'
      BY DEF HandlersReserve
    <2>1. CASE d = c
      BY <1>5, <2>1
    <2>2. CASE d # c
      <3>1. /\ pc'[d] = pc[d] /\ call'[d] = call[d] /\ child'[d] = child[d]
            /\ msg'[d] = msg[d] /\ orders' = orders
        BY <1>2, <1>5, <2>2 DEF Alone
      <3> QED
        BY <3>1 DEF IndInv, HandlersReserve, ReservedUpTo
    <2> QED
      BY <2>1, <2>2
  <1>15. PublishedFirst'
    <2>1. \A d \in Callers : CommandOf(d)' = CommandOf(d)
      BY <1>2 DEF CommandOf
    <2>2. \A d \in Callers \ {c} : pc'[d] = pc[d]
      BY <1>5 DEF Alone
    <2>3. /\ n \in DOMAIN stream' /\ stream'[n] = CommandOf(c)
          /\ \A i \in DOMAIN stream : i \in DOMAIN stream' /\ stream'[i] = stream[i]
      BY <1>7 DEF n
    <2> QED
      BY <2>1, <2>2, <2>3 DEF IndInv, PublishedFirst
  <1> QED
    BY <1>4, <1>6, <1>10, <1>11, <1>12, <1>13, <1>14, <1>15 DEF IndInv

(* A copy of a published command adds nothing that the stream does not     *)
(* carry already, and moves no handler.                                    *)
LEMMA ResendFacts ==
  ASSUME IndInv, NEW c \in Callers, ResendCommand(c)
  PROVE  /\ pc[c] = "archive" /\ stream' \in Seq(Command)
         /\ UNCHANGED <<today, orders, archive, nextMsg, cancelMu, pc, call, child,
                        conflict, replays, row, msg, receipts, calls>>
         /\ \A i \in DOMAIN stream : i \in DOMAIN stream' /\ stream'[i] = stream[i]
         /\ \A i \in DOMAIN stream' : \E j \in DOMAIN stream : stream'[i] = stream[j]
  <1>1. /\ pc[c] = "archive" /\ stream' = Append(stream, CommandOf(c))
        /\ UNCHANGED <<today, orders, archive, nextMsg, cancelMu, pc, call, child,
                       conflict, replays, row, msg, receipts, calls>>
    BY DEF ResendCommand, db, locals
  <1>2. PICK k \in DOMAIN stream : stream[k] = CommandOf(c)
    BY <1>1 DEF IndInv, PublishedFirst
  <1>3. stream \in Seq(Command) /\ CommandOf(c) \in Command
    BY <1>2 DEF IndInv, TypeOK
  <1>4. /\ DOMAIN stream' = 1 .. Len(stream) + 1 /\ DOMAIN stream = 1 .. Len(stream)
        /\ Len(stream) \in Nat /\ stream' \in Seq(Command)
        /\ stream'[Len(stream) + 1] = CommandOf(c)
        /\ \A i \in DOMAIN stream : stream'[i] = stream[i]
    BY <1>1, <1>3
  <1>5. \A i \in DOMAIN stream' : \E j \in DOMAIN stream : stream'[i] = stream[j]
    <2> TAKE i \in DOMAIN stream'
    <2>1. i \in DOMAIN stream \/ i = Len(stream) + 1
      BY <1>4
    <2> QED
      BY <1>2, <1>4, <2>1
  <1> QED
    BY <1>1, <1>4, <1>5

LEMMA ResendCommandInv ==
  ASSUME IndInv, NEW c \in Callers, ResendCommand(c)
  PROVE  IndInv'
  <1>1. /\ stream' \in Seq(Command)
        /\ UNCHANGED <<today, orders, archive, nextMsg, cancelMu, pc, call, child,
                       conflict, replays, row, msg, receipts, calls>>
        /\ \A i \in DOMAIN stream : i \in DOMAIN stream' /\ stream'[i] = stream[i]
        /\ \A i \in DOMAIN stream' : \E j \in DOMAIN stream : stream'[i] = stream[j]
    BY ResendFacts
  <1>2. TypeOK'
    BY <1>1 DEF IndInv, TypeOK
  <1>3. HandlerInv' /\ RowsUnique' /\ HandlersReserve'
    BY <1>1 DEF IndInv, HandlerInv, HandlerOK, RowsUnique, SameOrder, HandlersReserve,
                ReservedUpTo
  <1>4. StreamMsgs'
    BY <1>1 DEF IndInv, StreamMsgs
  <1>5. PublishedFirst'
    BY <1>1 DEF IndInv, PublishedFirst, CommandOf
  <1>6. OwnedMsgs'
    BY <1>1 DEF IndInv, OwnedMsgs
  <1>7. ReservedBeforePublished'
    BY <1>1 DEF IndInv, ReservedBeforePublished
  <1> QED
    BY <1>2, <1>3, <1>4, <1>5, <1>6, <1>7 DEF IndInv

(* A report of the gateway rewrites a row but neither its identity nor its *)
(* client order id nor the message that reserved it.                       *)
LEMMA SyncOrderInv ==
  ASSUME IndInv, NEW r \in orders, NEW s \in Status,
         NEW b \in {r.req.body, ReportedBody}, SyncOrder(r, s, b)
  PROVE  IndInv'
  <1> DEFINE q == [r EXCEPT !.status = s, !.req = [@ EXCEPT !.body = b]]
  <1>1. TypeOK /\ LocalType /\ r \in Row /\ orders \subseteq Row
    BY TypeParts DEF IndInv
  <1>2. /\ orders' = (orders \ {r}) \cup {q}
        /\ UNCHANGED <<today, archive, stream, nextMsg, cancelMu, pc, call, child,
                       conflict, replays, row, msg, receipts, calls>>
    BY DEF SyncOrder, locals
  <1>3. /\ q \in Row /\ q.origin = r.origin /\ q.req.client = r.req.client
        /\ q.req.acct = r.req.acct /\ q.req.date = r.req.date
        /\ q.req.gw = r.req.gw /\ q.req.key = r.req.key
    BY <1>1 DEF Row, OrderReq
  <1> HIDE DEF q
  <1>4. TypeOK'
    BY <1>1, <1>2, <1>3 DEF TypeOK
  <1>5. HandlerInv' /\ StreamMsgs' /\ PublishedFirst' /\ OwnedMsgs'
    BY <1>2 DEF IndInv, HandlerInv, HandlerOK, StreamMsgs, PublishedFirst, CommandOf,
                OwnedMsgs
  <1>6. RowsUnique'
    BY <1>2, <1>3 DEF IndInv, RowsUnique, SameOrder
  <1>7. ASSUME NEW p, NEW m, ReservedIn(orders, p, m)
        PROVE  ReservedIn(orders', p, m)
    <2>1. PICK x \in orders : /\ x.origin = m /\ x.req.client = p.client
                              /\ Identity(x.req) = Identity(p)
      BY <1>7 DEF ReservedIn
    <2>2. Identity(q.req) = Identity(r.req)
      BY <1>3 DEF Identity
    <2> QED
      BY <1>2, <1>3, <2>1, <2>2 DEF ReservedIn
  <1>8. ReservedBeforePublished'
    BY <1>2, <1>7 DEF IndInv, ReservedBeforePublished
  <1>9. HandlersReserve'
    BY <1>2, <1>7 DEF IndInv, HandlersReserve, ReservedUpTo
  <1> QED
    BY <1>4, <1>5, <1>6, <1>8, <1>9 DEF IndInv

(* A refusal, a new day and a stuttering step leave the ledger, the stream *)
(* and the handlers alone.                                                 *)
LEMMA FrameInv ==
  ASSUME IndInv, UNCHANGED <<orders, archive, stream, nextMsg, cancelMu, locals>>,
         today' \in Nat \ {0}, calls' \in Nat, receipts' \subseteq Receipt
  PROVE  IndInv'
  <1>1. UNCHANGED <<orders, archive, stream, nextMsg, cancelMu, pc, call, child,
                    conflict, replays, row, msg>>
    BY DEF locals
  <1>2. TypeOK'
    BY <1>1 DEF IndInv, TypeOK
  <1>3. HandlerInv' /\ StreamMsgs' /\ PublishedFirst' /\ OwnedMsgs' /\ RowsUnique'
    BY <1>1 DEF IndInv, HandlerInv, HandlerOK, StreamMsgs, PublishedFirst, CommandOf,
                OwnedMsgs, RowsUnique, SameOrder
  <1>4. HandlersReserve' /\ ReservedBeforePublished'
    BY <1>1 DEF IndInv, HandlersReserve, ReservedUpTo, ReservedBeforePublished
  <1> QED
    BY <1>2, <1>3, <1>4 DEF IndInv

LEMMA InitInv == Init => IndInv
  <1> SUFFICES ASSUME Init PROVE IndInv
    OBVIOUS
  <1>1. TypeOK
    BY DEF Init, TypeOK, PC
  <1>2. HandlerInv
    BY DEF Init, HandlerInv, HandlerOK, SubmitPC, CancelPC
  <1>3. OwnedMsgs /\ HandlersReserve /\ PublishedFirst
    BY DEF Init, OwnedMsgs, HandlersReserve, PublishedFirst, OwnerPC
  <1>4. StreamMsgs /\ RowsUnique /\ ReservedBeforePublished
    BY DEF Init, StreamMsgs, RowsUnique, ReservedBeforePublished
  <1> QED
    BY <1>1, <1>2, <1>3, <1>4 DEF IndInv

LEMMA NextInv == IndInv /\ [Next]_vars => IndInv'
  <1> SUFFICES ASSUME IndInv, [Next]_vars PROVE IndInv'
    OBVIOUS
  <1>1. /\ TypeOK /\ today \in Nat \ {0} /\ calls \in Nat /\ receipts \subseteq Receipt
        /\ archive \in Seq(Command) /\ MaxDay \in Nat /\ MaxCalls \in Nat
    BY ProcessAssumption DEF IndInv, TypeOK
  <1>2. ASSUME NEW c \in Callers, NEW x \in NormalizedCalls, Begin(c, x) PROVE IndInv'
    <2>1. today' = today /\ archive' = archive /\ calls' = calls + 1
      BY <1>2 DEF Begin, db
    <2> QED
      BY <1>1, <1>2, <2>1, BeginCalm, CalmInv
  <1>3. ASSUME NEW c \in Callers, NEW x \in NormalizedCalls, Refuse(c, x) PROVE IndInv'
    <2>1. /\ today' = today /\ calls' = calls + 1
          /\ UNCHANGED <<orders, archive, stream, nextMsg, cancelMu, locals>>
          /\ receipts' = receipts \cup
               {[call |-> x, outcome |-> "REFUSED", msg |-> 0, located |-> FALSE]}
      BY <1>3 DEF Refuse, db
    <2>2. x \in Call
      BY <1>1, <1>3, NormalizedCallType
    <2>3. [call |-> x, outcome |-> "REFUSED", msg |-> 0, located |-> FALSE] \in Receipt
      BY <2>2 DEF Receipt, Outcome
    <2>4. receipts' \subseteq Receipt
      BY <1>1, <2>1, <2>3
    <2> QED
      BY <1>1, <2>1, <2>4, FrameInv
  <1>4. ASSUME NEW c \in Callers, Step(c) PROVE IndInv'
    <2>1. HandlerOK(c)
      BY <1>4 DEF IndInv, HandlerInv
    <2>2. CASE LookupGateway(c)
      BY <1>1, <2>1, <2>2, LookupGatewayCalm, CalmInv DEF LookupGateway, db
    <2>3. CASE LookupKey(c)
      BY <1>1, <2>1, <2>3, LookupKeyCalm, CalmInv DEF LookupKey, db
    <2>4. CASE Compare(c)
      BY <1>1, <2>1, <2>4, CompareCalm, CalmInv DEF Compare, db
    <2>5. CASE ReplayReceipt(c)
      BY <1>1, <2>1, <2>5, ReplayReceiptCalm, CalmInv DEF ReplayReceipt, db
    <2>6. CASE CreateOrder(c)
      BY <1>4, <2>6, CreateOrderInv
    <2>7. CASE PublishCommand(c)
      BY <1>4, <2>7, PublishCommandInv
    <2>8. CASE ArchiveCommand(c)
      BY <1>1, <2>1, <2>8, ArchiveCommandCalm, CalmInv DEF ArchiveCommand
    <2>9. CASE CancelLock(c)
      BY <1>1, <2>1, <2>9, CancelLockCalm, CalmInv DEF CancelLock, db
    <2>10. CASE CancelLookup(c)
      BY <1>1, <2>1, <2>10, CancelLookupCalm, CalmInv DEF CancelLookup, db
    <2>11. CASE CancelReplay(c)
      BY <1>1, <2>1, <2>11, CancelReplayCalm, CalmInv DEF CancelReplay, db
    <2>12. CASE CancelCheck(c)
      BY <1>1, <2>1, <2>12, CancelCheckCalm, CalmInv DEF CancelCheck, db
    <2> QED
      BY <1>4, <2>2, <2>3, <2>4, <2>5, <2>6, <2>7, <2>8, <2>9, <2>10, <2>11, <2>12
         DEF Step
  <1>5. ASSUME NEW c \in Callers, Abort(c) PROVE IndInv'
    <2>1. HandlerOK(c)
      BY <1>5 DEF IndInv, HandlerInv
    <2> QED
      BY <1>1, <1>5, <2>1, AbortCalm, CalmInv DEF Abort, db
  <1>6. ASSUME NEW r \in orders, NEW s \in Status,
               NEW b \in {r.req.body, ReportedBody}, SyncOrder(r, s, b)
        PROVE  IndInv'
    BY <1>6, SyncOrderInv
  <1>7. CASE NextDay
    BY <1>1, <1>7, FrameInv DEF NextDay, db
  <1>8. CASE UNCHANGED vars
    BY <1>1, <1>8, FrameInv DEF vars, db
  <1>9. ASSUME NEW c \in Callers, ResendCommand(c) PROVE IndInv'
    BY <1>9, ResendCommandInv
  <1> QED
    BY <1>2, <1>3, <1>4, <1>5, <1>6, <1>7, <1>8, <1>9 DEF Next

THEOREM IndInvHolds == Spec => []IndInv
  BY InitInv, NextInv, PTL DEF Spec

(* Whatever the requests, handlers and processes: every variable keeps the *)
(* shape of the ledger rows, stream entries and locals it models.          *)
THEOREM TypeCorrect == Spec => []TypeOK
  <1>1. IndInv => TypeOK
    BY DEF IndInv
  <1> QED
    BY <1>1, IndInvHolds, PTL

(* What the API put on cmd.trade, it had reserved in the ledger under the  *)
(* same message before.                                                    *)
THEOREM PublishedWasReserved == Spec => []ReservedBeforePublished
  <1>1. IndInv => ReservedBeforePublished
    BY DEF IndInv
  <1> QED
    BY <1>1, IndInvHolds, PTL

(* SubmitOrder and BatchSubmitOrders publish an order in one message only, *)
(* however many handlers race, fail and retry: the rows that reserve two   *)
(* entries of one identity are the same row, so their message is the same, *)
(* and two entries of one message are copies the Redis client sent.        *)
THEOREM PublishedOnce == Spec => []SubmitOncePerOrder
  <1>1. IndInv => SubmitOncePerOrder
    <2> SUFFICES ASSUME IndInv, NEW i \in DOMAIN stream, NEW j \in DOMAIN stream,
                        NEW a \in DOMAIN stream[i].call.orders,
                        NEW b \in DOMAIN stream[j].call.orders,
                        SameOrder(stream[i].call.orders[a], stream[j].call.orders[b])
                 PROVE  stream[i] = stream[j] /\ a = b
      BY DEF SubmitOncePerOrder
    <2> DEFINE o == stream[i].call.orders[a]
               p == stream[j].call.orders[b]
    <2>1. PICK r \in orders : r.origin = stream[i].msg /\ Identity(r.req) = Identity(o)
      BY DEF IndInv, ReservedBeforePublished, ReservedIn
    <2>2. PICK s \in orders : s.origin = stream[j].msg /\ Identity(s.req) = Identity(p)
      BY DEF IndInv, ReservedBeforePublished, ReservedIn
    <2>3. /\ r.req.acct = o.acct /\ r.req.date = o.date
          /\ r.req.gw = o.gw /\ r.req.key = o.key
      BY <2>1 DEF Identity
    <2>4. /\ s.req.acct = p.acct /\ s.req.date = p.date
          /\ s.req.gw = p.gw /\ s.req.key = p.key
      BY <2>2 DEF Identity
    <2>5. r = s
      BY <2>3, <2>4 DEF SameOrder, IndInv, RowsUnique
    <2>6. stream[i] = stream[j]
      BY <2>1, <2>2, <2>5 DEF IndInv, StreamMsgs
    <2>7. stream[i] \in Command
      BY DEF IndInv, TypeOK
    <2>8. stream[i].call \in Call
      BY <2>7 DEF Command
    <2> QED
      BY <2>3, <2>4, <2>5, <2>6, <2>8, CallFacts
  <1> QED
    BY <1>1, IndInvHolds, PTL

(***************************************************************************)
(* The refinement.  Under the mapping of OrderFlow to SubmitOnce, an       *)
(* insert is a Reserve, a publication a Send, and every other step, the    *)
(* gateway reports that rewrite rows and the copies of the Redis client    *)
(* included, a stuttering step.                                            *)
(***************************************************************************)
LEMMA StutterMaps ==
  ASSUME UNCHANGED <<orders, stream>>
  PROVE  UNCHANGED <<Reserved, Sent>>
  BY DEF Reserved, Sent

LEMMA CreateOrderMaps ==
  ASSUME IndInv, NEW c \in Callers, CreateOrder(c)
  PROVE  [Once!Next]_<<Reserved, Sent>>
  <1> DEFINE o == ChildReq(c)
             new == [req |-> o, origin |-> msg[c], status |-> "open"]
             res == [id |-> Identity(o), msg |-> msg[c]]
  <1>1. CASE UNCHANGED orders
    BY <1>1, StutterMaps DEF CreateOrder
  <1>2. CASE ~UniqueViolation(o) /\ orders' = orders \cup {new}
    <2>1. pc[c] = "create" /\ stream' = stream
      BY DEF CreateOrder
    <2>2. Reserved' = Reserved \cup {res}
      <3>1. Reserved' = {[id |-> Identity(r.req), msg |-> r.origin] : r \in orders'}
        BY DEF Reserved, Identity
      <3>2. [id |-> Identity(new.req), msg |-> new.origin] = res
        OBVIOUS
      <3> HIDE DEF new, res, o
      <3> QED
        BY <1>2, <3>1, <3>2 DEF Reserved
    <2>3. Sent' = Sent
      BY <2>1 DEF Sent
    <2>4. msg[c] \notin Sent
      BY <2>1 DEF IndInv, OwnedMsgs, OwnerPC, Sent
    <2>5. \A x \in Reserved : ~Once!Clash(x.id, Identity(o))
      <3>1. ASSUME NEW r \in orders
            PROVE  ~Once!Clash(Identity(r.req), Identity(o))
        BY <1>2 DEF UniqueViolation, Identity, Once!Clash
      <3>2. ASSUME NEW x \in Reserved PROVE \E r \in orders : x.id = Identity(r.req)
        BY DEF Reserved
      <3> QED
        BY <3>1, <3>2
    <2>6. res.id = Identity(o) /\ res.msg = msg[c] /\ res \in Reserved'
      BY <2>2
    <2> HIDE DEF res
    <2>7. res = [id |-> res.id, msg |-> res.msg]
      BY DEF res
    <2>8. Once!Reserve(res.id, res.msg)
      BY <2>2, <2>3, <2>4, <2>5, <2>6, <2>7 DEF Once!Reserve
    <2> QED
      BY <2>6, <2>8 DEF Once!Next
  <1> QED
    BY <1>1, <1>2 DEF CreateOrder

LEMMA PublishCommandMaps ==
  ASSUME IndInv, NEW c \in Callers, PublishCommand(c)
  PROVE  [Once!Next]_<<Reserved, Sent>>
  <1>1. /\ pc[c] = "publish" /\ stream' = Append(stream, CommandOf(c))
        /\ orders' = orders /\ stream \in Seq(Command)
    BY DEF PublishCommand, db, IndInv, TypeOK
  <1>2. /\ call[c] \in Call /\ msg[c] \in Nat
    BY <1>1, TypeParts DEF IndInv, HandlerInv, HandlerOK, LocalType
  <1>3. CommandOf(c) \in Command /\ CommandOf(c).msg = msg[c]
    BY <1>2 DEF CommandOf, Command
  <1>4. Sent' = Sent \cup {msg[c]}
    <2>1. /\ Len(stream) \in Nat /\ DOMAIN stream = 1 .. Len(stream)
          /\ DOMAIN stream' = 1 .. (Len(stream) + 1)
          /\ stream'[Len(stream) + 1] = CommandOf(c)
          /\ \A i \in DOMAIN stream : stream'[i] = stream[i]
      BY <1>1, <1>3
    <2>2. /\ DOMAIN stream' = DOMAIN stream \cup {Len(stream) + 1}
      BY <2>1
    <2> QED
      BY <1>3, <2>1, <2>2 DEF Sent
  <1>5. Reserved' = Reserved
    BY <1>1 DEF Reserved
  <1>6. msg[c] \notin Sent
    BY <1>1 DEF IndInv, OwnedMsgs, OwnerPC, Sent
  <1>7. Once!Send(msg[c]) /\ msg[c] \in Sent'
    BY <1>4, <1>5, <1>6 DEF Once!Send
  <1> QED
    BY <1>7 DEF Once!Next

LEMMA SyncOrderMaps ==
  ASSUME IndInv, NEW r \in orders, NEW s \in Status,
         NEW b \in {r.req.body, ReportedBody}, SyncOrder(r, s, b)
  PROVE  UNCHANGED <<Reserved, Sent>>
  <1> DEFINE q == [r EXCEPT !.status = s, !.req = [@ EXCEPT !.body = b]]
             f(x) == [id |-> Identity(x.req), msg |-> x.origin]
  <1>1. r \in Row
    BY TypeParts DEF IndInv
  <1>2. orders' = (orders \ {r}) \cup {q} /\ stream' = stream
    BY DEF SyncOrder
  <1>3. /\ q.origin = r.origin
        /\ q.req.acct = r.req.acct /\ q.req.date = r.req.date
        /\ q.req.gw = r.req.gw /\ q.req.key = r.req.key
    BY <1>1 DEF Row, OrderReq
  <1> HIDE DEF q
  <1>4. f(q) = f(r)
    BY <1>3 DEF Identity
  <1>5. Reserved = {f(x) : x \in orders} /\ Reserved' = {f(x) : x \in orders'}
    BY DEF Reserved, Identity
  <1> HIDE DEF f
  <1>6. Reserved' = Reserved
    BY <1>2, <1>4, <1>5
  <1> QED
    BY <1>2, <1>6 DEF Sent

LEMMA ResendMaps ==
  ASSUME IndInv, NEW c \in Callers, ResendCommand(c)
  PROVE  UNCHANGED <<Reserved, Sent>>
  <1>1. /\ orders' = orders
        /\ \A i \in DOMAIN stream : i \in DOMAIN stream' /\ stream'[i] = stream[i]
        /\ \A i \in DOMAIN stream' : \E j \in DOMAIN stream : stream'[i] = stream[j]
    BY ResendFacts
  <1>2. Sent' \subseteq Sent /\ Sent \subseteq Sent'
    BY <1>1 DEF Sent
  <1> QED
    BY <1>1, <1>2 DEF Reserved

LEMMA StepMaps == IndInv /\ [Next]_vars => [Once!Next]_<<Reserved, Sent>>
  <1> SUFFICES ASSUME IndInv, [Next]_vars PROVE [Once!Next]_<<Reserved, Sent>>
    OBVIOUS
  <1>1. CASE UNCHANGED <<orders, stream>>
    BY <1>1, StutterMaps
  <1>2. ASSUME NEW c \in Callers, CreateOrder(c) PROVE [Once!Next]_<<Reserved, Sent>>
    BY <1>2, CreateOrderMaps
  <1>3. ASSUME NEW c \in Callers, PublishCommand(c) PROVE [Once!Next]_<<Reserved, Sent>>
    BY <1>3, PublishCommandMaps
  <1>4. ASSUME NEW r \in orders, NEW s \in Status,
               NEW b \in {r.req.body, ReportedBody}, SyncOrder(r, s, b)
        PROVE  [Once!Next]_<<Reserved, Sent>>
    BY <1>4, SyncOrderMaps
  <1>5. ASSUME NEW c \in Callers, Step(c), ~CreateOrder(c), ~PublishCommand(c)
        PROVE  UNCHANGED <<orders, stream>>
    BY <1>5 DEF Step, LookupGateway, LookupKey, Compare, ReplayReceipt, ArchiveCommand,
                CancelLock, CancelLookup, CancelReplay, CancelCheck, db
  <1>6. ASSUME NEW c \in Callers, NEW x \in NormalizedCalls,
               Begin(c, x) \/ Refuse(c, x)
        PROVE  UNCHANGED <<orders, stream>>
    BY <1>6 DEF Begin, Refuse, db
  <1>7. ASSUME NEW c \in Callers, Abort(c)
        PROVE  UNCHANGED <<orders, stream>>
    BY <1>7 DEF Abort, db
  <1>8. CASE NextDay \/ UNCHANGED vars
    BY <1>1, <1>8 DEF NextDay, vars, db
  <1>9. ASSUME NEW c \in Callers, ResendCommand(c) PROVE [Once!Next]_<<Reserved, Sent>>
    BY <1>9, ResendMaps
  <1> QED
    BY <1>1, <1>2, <1>3, <1>4, <1>5, <1>6, <1>7, <1>8, <1>9 DEF Next

(* The handlers of service.go, with their races, failures and retries,     *)
(* implement SubmitOnce: an order identity is reserved by one message for  *)
(* good, and the message is sent at most once, after its reservations.     *)
THEOREM Refinement == Spec => ImplementsSubmitOnce
  <1>1. Init => Once!Init
    BY DEF Init, Once!Init, Reserved, Sent
  <1> QED
    BY <1>1, StepMaps, IndInvHolds, PTL DEF Spec, ImplementsSubmitOnce, Once!Spec

(***************************************************************************)
(* Orphans and replays.  A handler owns its message while rows may wait    *)
(* for it: while it inserts and publishes, and in the second preflight     *)
(* after an insert met a unique index.                                     *)
(***************************************************************************)
PreflightPC == {"gateway", "key", "compare"}
Retries(c) == conflict[c] /\ pc[c] \in PreflightPC
Owns(c) == pc[c] \in OwnerPC \/ Retries(c)

InStream(m) == \E i \in DOMAIN stream : stream[i].msg = m
RefusedIn(R, m) == \E x \in R : x.msg = m /\ x.outcome \notin {"accepted", "replayed"}

RowOrigins == \A r \in orders : r.origin < nextMsg

OwnersDistinct ==
  \A c \in Callers : Owns(c) => /\ msg[c] < nextMsg
                                /\ \A d \in Callers : Owns(d) /\ msg[d] = msg[c] => d = c

(* A single submission that met an index has inserted nothing.             *)
NothingYet(c) ==
  \/ pc[c] = "create" /\ child[c] = 1
  \/ Retries(c) /\ call[c].action = "order.submit"
NothingInserted ==
  \A c \in Callers : NothingYet(c) => \A r \in orders : r.origin # msg[c]

Traced ==
  \A r \in orders : \/ InStream(r.origin)
                    \/ \E c \in Callers : Owns(c) /\ msg[c] = r.origin
                    \/ RefusedIn(receipts, r.origin)

(* No client sends the payload that a gateway report leaves in a row.      *)
ClientPayloads ==
  /\ \A o \in OrderRequests : o.body # ReportedBody
  /\ \A b \in BatchRequests : \A i \in DOMAIN b.orders : b.orders[i].body # ReportedBody

(* Order o is what its key stands for: it is on cmd.trade, or a row that   *)
(* no report can have rewritten yet holds it.                              *)
Settled(o) ==
  ClientPayloads =>
    \/ \E i \in DOMAIN stream : \E a \in DOMAIN stream[i].call.orders : stream[i].call.orders[a] = o
    \/ \E r \in orders : ~ InStream(r.origin) /\ r.req = o

AllSettled(x) == \A j \in DOMAIN x.orders : Settled(x.orders[j])

CallOK(x) ==
  /\ x.action = "order.submit" => Len(x.orders) = 1
  /\ ClientPayloads => \A j \in DOMAIN x.orders : x.orders[j].body # ReportedBody

RowOK(c) ==
  /\ row[c].req.acct = ChildReq(c).acct /\ row[c].req.key = ChildReq(c).key
  /\ row[c].req.body = ReportedBody \/ Settled(row[c].req)

(* A preflight that has found every child so far has found it settled.     *)
ReplayOK(c) ==
  /\ pc[c] = "idle" => ~ conflict[c] /\ replays[c] = 0
  /\ pc[c] # "idle" => CallOK(call[c])
  /\ pc[c] \in PreflightPC /\ ~ conflict[c] =>
       /\ replays[c] < child[c]
       /\ replays[c] + 1 = child[c] =>
            \A j \in DOMAIN call[c].orders : j < child[c] => Settled(call[c].orders[j])
  /\ pc[c] = "compare" => RowOK(c)
  /\ pc[c] = "receipt" => AllSettled(call[c])

HandlersReplay == \A c \in Callers : ReplayOK(c)

RowsSettled == \A r \in orders : r.req.body = ReportedBody \/ Settled(r.req)

ArchiveSent == \A i \in DOMAIN archive : \E j \in DOMAIN stream : stream[j] = archive[i]

OwnRows ==
  \A c \in Callers : pc[c] \in OwnerPC =>
    \A r \in orders : r.origin = msg[c] =>
      \E a \in DOMAIN call[c].orders : r.req = call[c].orders[a]

ReplaysSettled == \A x \in receipts : x.outcome = "replayed" => AllSettled(x.call)

ReplayInv ==
  /\ RowOrigins /\ OwnersDistinct /\ NothingInserted /\ Traced
  /\ HandlersReplay /\ RowsSettled /\ ArchiveSent /\ OwnRows /\ ReplaysSettled

(* Steps that neither insert, publish nor rewrite a row.                   *)
LEMMA SettledFrame ==
  ASSUME stream' = stream, orders \subseteq orders', NEW o, Settled(o)
  PROVE  Settled(o)'
  BY DEF Settled, InStream

(* A quiet step of handler c: it gives its message up only after telling   *)
(* the client, or when no row waits for it.                                *)
Quiet(c) ==
  /\ \A d \in Callers \ {c} : conflict'[d] = conflict[d] /\ replays'[d] = replays[d]
  /\ Owns(c)' => \/ Owns(c) /\ msg'[c] = msg[c]
                 \/ msg'[c] = nextMsg /\ nextMsg' = nextMsg + 1
  /\ Owns(c) => \/ Owns(c)' /\ msg'[c] = msg[c]
                \/ RefusedIn(receipts', msg[c])
                \/ \A r \in orders : r.origin # msg[c]
  /\ NothingYet(c)' => msg'[c] = nextMsg \/ (NothingYet(c) /\ msg'[c] = msg[c])
  /\ ReplayOK(c)'
  /\ receipts \subseteq receipts' /\ ReplaysSettled' /\ ArchiveSent'

LEMMA QuietInv ==
  ASSUME IndInv, ReplayInv, NEW c \in Callers, Calm(c), Quiet(c)
  PROVE  ReplayInv'
  <1>1. /\ Alone(c) /\ Takes(c) /\ orders' = orders /\ stream' = stream
        /\ nextMsg \in Nat /\ nextMsg' \in Nat /\ nextMsg' >= nextMsg /\ orders \subseteq Row
    BY TypeParts DEF IndInv, Calm
  <1>2. \A r \in orders : r.origin \in Nat
    BY <1>1 DEF Row
  <1>3. \A d \in Callers : msg[d] \in Nat
    BY DEF IndInv, TypeOK
  <1>4. \A d \in Callers \ {c} :
          /\ pc'[d] = pc[d] /\ call'[d] = call[d] /\ child'[d] = child[d] /\ row'[d] = row[d]
          /\ msg'[d] = msg[d] /\ conflict'[d] = conflict[d] /\ replays'[d] = replays[d]
    BY <1>1 DEF Alone, Quiet
  <1>5. \A d \in Callers \ {c} : (Owns(d)' <=> Owns(d)) /\ (NothingYet(d)' <=> NothingYet(d))
    BY <1>4 DEF Owns, NothingYet, Retries
  <1>6. RowOrigins'
    BY <1>1, <1>2 DEF ReplayInv, RowOrigins
  <1>7. OwnersDistinct'
    BY <1>1, <1>3, <1>4, <1>5 DEF ReplayInv, OwnersDistinct, Quiet
  <1>8. NothingInserted'
    <2> SUFFICES ASSUME NEW d \in Callers, NothingYet(d)', NEW r \in orders PROVE r.origin # msg'[d]
      BY <1>1 DEF NothingInserted
    <2>1. r.origin # nextMsg
      BY <1>1, <1>2 DEF ReplayInv, RowOrigins
    <2> QED
      BY <1>4, <1>5, <2>1 DEF ReplayInv, NothingInserted, Quiet
  <1>9. Traced'
    <2> SUFFICES ASSUME NEW r \in orders
                 PROVE  \/ InStream(r.origin)'
                        \/ \E d \in Callers : Owns(d)' /\ msg'[d] = r.origin
                        \/ RefusedIn(receipts', r.origin)
      BY <1>1 DEF Traced
    <2>1. CASE InStream(r.origin)
      BY <1>1, <2>1 DEF InStream
    <2>2. CASE RefusedIn(receipts, r.origin)
      BY <2>2 DEF RefusedIn, Quiet
    <2>3. ASSUME NEW d \in Callers, Owns(d), msg[d] = r.origin
          PROVE  \/ \E e \in Callers : Owns(e)' /\ msg'[e] = r.origin
                 \/ RefusedIn(receipts', r.origin)
      BY <1>4, <1>5, <2>3 DEF Quiet
    <2> QED
      BY <2>1, <2>2, <2>3 DEF ReplayInv, Traced
  <1>10. \A o : Settled(o) => Settled(o)'
    BY <1>1, SettledFrame
  <1>11. HandlersReplay'
    <2> SUFFICES ASSUME NEW d \in Callers \ {c} PROVE ReplayOK(d)'
      BY DEF HandlersReplay, Quiet
    <2>1. ReplayOK(d)
      BY DEF ReplayInv, HandlersReplay
    <2>2. RowOK(d) => RowOK(d)'
      BY <1>4, <1>10 DEF RowOK, ChildReq
    <2>3. AllSettled(call[d]) => AllSettled(call[d])'
      BY <1>4, <1>10 DEF AllSettled
    <2>4. CommandOf(d)' = CommandOf(d)
      BY <1>4 DEF CommandOf
    <2> QED
      BY <1>1, <1>4, <1>10, <2>1, <2>2, <2>3, <2>4 DEF ReplayOK, CallOK
  <1>12. RowsSettled'
    BY <1>1, <1>10 DEF ReplayInv, RowsSettled
  <1>13. OwnRows'
    <2> SUFFICES ASSUME NEW d \in Callers, pc'[d] \in OwnerPC, NEW r \in orders, r.origin = msg'[d]
                 PROVE  \E a \in DOMAIN call'[d].orders : r.req = call'[d].orders[a]
      BY <1>1 DEF OwnRows
    <2>1. CASE d = c
      BY <1>1, <1>2, <2>1 DEF Takes, ReplayInv, RowOrigins
    <2>2. CASE d # c
      BY <1>4, <2>2 DEF ReplayInv, OwnRows
    <2> QED
      BY <2>1, <2>2
  <1> QED
    BY <1>6, <1>7, <1>8, <1>9, <1>11, <1>12, <1>13 DEF ReplayInv, Quiet

(* A handler returns.                                                      *)
LEMMA AnswerQuiet ==
  ASSUME IndInv, ReplayInv, NEW c \in Callers, pc[c] # "idle",
         NEW outcome \in Outcome, NEW m \in Nat, NEW located \in BOOLEAN,
         AnswerMsg(c, outcome, m, located), UNCHANGED <<orders, stream>>,
         Owns(c) => outcome \notin {"accepted", "replayed"} /\ m = msg[c],
         outcome = "replayed" => AllSettled(call[c]),
         ArchiveSent'
  PROVE  Quiet(c)
  <1> DEFINE x == [call |-> call[c], outcome |-> outcome, msg |-> m, located |-> located]
  <1>1. LocalType
    BY TypeParts DEF IndInv
  <1>2. receipts' = receipts \cup {x}
    BY DEF AnswerMsg
  <1>3. x.call = call[c] /\ x.outcome = outcome /\ x.msg = m
    OBVIOUS
  <1> HIDE DEF x
  <1>4. /\ \A d \in Callers \ {c} : conflict'[d] = conflict[d] /\ replays'[d] = replays[d]
        /\ pc'[c] = "idle" /\ conflict'[c] = FALSE /\ replays'[c] = 0
    BY <1>1 DEF AnswerMsg, LocalType
  <1>5. ~ Owns(c)' /\ ~ NothingYet(c)'
    BY <1>4 DEF Owns, NothingYet, Retries, OwnerPC, PreflightPC
  <1>6. Owns(c) => RefusedIn(receipts', msg[c])
    BY <1>2, <1>3 DEF RefusedIn
  <1>7. ReplayOK(c)'
    BY <1>4 DEF ReplayOK, PreflightPC
  <1>8. ReplaysSettled'
    <2>1. \A y : AllSettled(y) => AllSettled(y)'
      BY SettledFrame DEF AllSettled
    <2> QED
      BY <1>2, <1>3, <2>1 DEF ReplayInv, ReplaysSettled, AllSettled
  <1> QED
    BY <1>2, <1>4, <1>5, <1>6, <1>7, <1>8 DEF Quiet

LEMMA ArchiveSame ==
  ASSUME ReplayInv, UNCHANGED <<archive, stream>>
  PROVE  ArchiveSent'
  BY DEF ReplayInv, ArchiveSent

LEMMA NormalizedCallOK ==
  ASSUME NEW x \in NormalizedCalls
  PROVE  CallOK(x)
  <1>1. ASSUME NEW o \in OrderRequests, x = SubmitCall(o) PROVE CallOK(x)
    <2>1. PICK key : x.orders = <<WithDefaults(o, key)>>
      BY <1>1 DEF SubmitCall
    <2>2. WithDefaults(o, key).body = o.body
      BY RequestAssumption DEF WithDefaults, OrderReq
    <2> QED
      BY <2>1, <2>2 DEF CallOK, ClientPayloads
  <1>2. ASSUME NEW b \in BatchRequests, x = BatchCall(b) PROVE CallOK(x)
    <2>1. x.action = "order.batch.submit" /\ DOMAIN x.orders = DOMAIN b.orders
      BY <1>2 DEF BatchCall
    <2>2. ASSUME NEW i \in DOMAIN b.orders PROVE x.orders[i].body = b.orders[i].body
      <3>1. b.orders[i] \in OrderReq
        BY RequestAssumption
      <3>2. PICK key : x.orders[i] = WithDefaults(b.orders[i], key)
        BY <1>2 DEF BatchCall
      <3> QED
        BY <3>1, <3>2 DEF WithDefaults, OrderReq
    <2> QED
      BY <2>1, <2>2 DEF CallOK, ClientPayloads
  <1>3. ASSUME NEW y \in CancelRequests, x = CancelCall(y) PROVE CallOK(x)
    BY <1>3 DEF CancelCall, CallOK
  <1> QED
    BY <1>1, <1>2, <1>3 DEF NormalizedCalls

LEMMA BeginQuiet ==
  ASSUME IndInv, ReplayInv, NEW c \in Callers, NEW x \in NormalizedCalls, Begin(c, x)
  PROVE  Quiet(c)
  <1>1. LocalType /\ x \in Call /\ CallOK(x)
    BY TypeParts, NormalizedCallType, NormalizedCallOK DEF IndInv, TypeOK
  <1>2. /\ pc'[c] \in {"lock", "gateway"} /\ call'[c] = x /\ child'[c] = 1
        /\ UNCHANGED <<orders, archive, stream, conflict, replays, msg, receipts>>
        /\ pc[c] = "idle" /\ conflict[c] = FALSE /\ replays[c] = 0
    BY <1>1 DEF Begin, Goto, LocalType, db, ReplayInv, HandlersReplay, ReplayOK
  <1>3. ~ Owns(c) /\ ~ Owns(c)' /\ ~ NothingYet(c)'
    BY <1>2 DEF Owns, NothingYet, Retries, OwnerPC, PreflightPC
  <1>4. ReplayOK(c)'
    <2>1. \A j \in DOMAIN x.orders : ~(j < 1)
      BY <1>1, CallFacts
    <2> QED
      BY <1>1, <1>2, <2>1 DEF ReplayOK
  <1>5. ReplaysSettled'
    BY <1>2, SettledFrame DEF ReplayInv, ReplaysSettled, AllSettled
  <1> QED
    BY <1>2, <1>3, <1>4, <1>5, ArchiveSame DEF Quiet

(* Steps that answer nobody.                                               *)
LEMMA SilentQuiet ==
  ASSUME IndInv, ReplayInv, NEW c \in Callers,
         \A d \in Callers \ {c} : conflict'[d] = conflict[d] /\ replays'[d] = replays[d],
         UNCHANGED <<orders, archive, stream, receipts>>, ReplayOK(c)',
         Owns(c)' => \/ Owns(c) /\ msg'[c] = msg[c]
                     \/ msg'[c] = nextMsg /\ nextMsg' = nextMsg + 1,
         Owns(c) => \/ Owns(c)' /\ msg'[c] = msg[c]
                    \/ \A r \in orders : r.origin # msg[c],
         NothingYet(c)' => msg'[c] = nextMsg \/ (NothingYet(c) /\ msg'[c] = msg[c])
  PROVE  Quiet(c)
  <1>1. ReplaysSettled'
    BY SettledFrame DEF ReplayInv, ReplaysSettled, AllSettled
  <1> QED
    BY <1>1, ArchiveSame DEF Quiet

LEMMA NextPreflightQuiet ==
  ASSUME IndInv, ReplayInv, NEW c \in Callers, pc[c] \in {"key", "compare"}, ~ conflict[c],
         NEW n \in Nat, NEW m \in Nat, NextPreflight(c, n, m),
         UNCHANGED <<orders, archive, stream>>, n <= child[c],
         n = child[c] =>
           \A j \in DOMAIN call[c].orders : j <= child[c] => Settled(call[c].orders[j])
  PROVE  Quiet(c)
  <1> DEFINE os == call[c].orders
  <1>1. /\ LocalType /\ call[c] \in Call /\ child[c] \in DOMAIN os /\ CallOK(call[c])
        /\ Len(os) \in Nat /\ DOMAIN os = 1 .. Len(os) /\ child[c] \in Nat
    BY TypeParts, CallFacts DEF IndInv, HandlerInv, HandlerOK, SubmitPC, ReplayInv, HandlersReplay,
                                ReplayOK, PreflightPC, LocalType
  <1>2. ~ Owns(c)
    BY DEF Owns, Retries, OwnerPC
  <1>3. \A o : Settled(o) => Settled(o)'
    BY SettledFrame
  <1>4. CASE /\ ~LastChild(c)
             /\ Goto(c, "gateway")
             /\ child' = [child EXCEPT ![c] = @ + 1]
             /\ replays' = [replays EXCEPT ![c] = n]
             /\ row' = [row EXCEPT ![c] = NoRow]
             /\ msg' = [msg EXCEPT ![c] = m]
             /\ UNCHANGED <<nextMsg, call, conflict>>
    <2>1. /\ pc'[c] = "gateway" /\ child'[c] = child[c] + 1 /\ replays'[c] = n
          /\ call'[c] = call[c] /\ conflict'[c] = FALSE /\ receipts' = receipts
          /\ \A d \in Callers \ {c} : conflict'[d] = conflict[d] /\ replays'[d] = replays[d]
      BY <1>1, <1>4 DEF Goto, LocalType
    <2>2. ~ Owns(c)' /\ ~ NothingYet(c)'
      BY <2>1 DEF Owns, NothingYet, Retries, OwnerPC
    <2>3. /\ replays'[c] < child'[c]
          /\ replays'[c] + 1 = child'[c] =>
               \A j \in DOMAIN call'[c].orders : j < child'[c] => Settled(call[c].orders[j])'
      <3>1. replays'[c] + 1 = child'[c] => n = child[c]
        BY <1>1, <2>1
      <3>2. \A j \in DOMAIN os : j < child'[c] => j <= child[c]
        BY <1>1, <2>1
      <3>3. replays'[c] < child'[c]
        BY <1>1, <2>1
      <3>4. ASSUME n = child[c], NEW j \in DOMAIN call'[c].orders, j < child'[c]
            PROVE  Settled(call[c].orders[j])'
        <4>1. Settled(call[c].orders[j])
          BY <2>1, <3>2, <3>4
        <4> QED
          BY <1>3, <2>1, <4>1
      <3> QED
        BY <3>1, <3>3, <3>4
    <2>4. ReplayOK(c)'
      BY <1>1, <2>1, <2>3 DEF ReplayOK
    <2> QED
      BY <1>2, <2>1, <2>2, <2>4, SilentQuiet
  <1>5. CASE /\ LastChild(c) /\ n = 0
             /\ Goto(c, "create")
             /\ child' = [child EXCEPT ![c] = 1]
             /\ msg' = [msg EXCEPT ![c] = nextMsg]
             /\ nextMsg' = nextMsg + 1
             /\ UNCHANGED <<call, conflict, replays, row>>
    <2>1. /\ pc'[c] = "create" /\ msg'[c] = nextMsg /\ nextMsg' = nextMsg + 1
          /\ call'[c] = call[c] /\ receipts' = receipts
          /\ UNCHANGED <<conflict, replays>>
      BY <1>1, <1>5 DEF Goto, LocalType
    <2>2. ReplayOK(c)'
      BY <1>1, <2>1 DEF ReplayOK, PreflightPC
    <2> QED
      BY <1>2, <2>1, <2>2, SilentQuiet
  <1>6. CASE /\ LastChild(c) /\ n = Len(call[c].orders)
             /\ Goto(c, "receipt")
             /\ replays' = [replays EXCEPT ![c] = n]
             /\ msg' = [msg EXCEPT ![c] = m]
             /\ UNCHANGED <<nextMsg, call, child, conflict, row>>
    <2>1. /\ pc'[c] = "receipt" /\ call'[c] = call[c] /\ receipts' = receipts /\ conflict' = conflict
          /\ \A d \in Callers \ {c} : conflict'[d] = conflict[d] /\ replays'[d] = replays[d]
      BY <1>1, <1>6 DEF Goto, LocalType
    <2>2. ~ Owns(c)' /\ ~ NothingYet(c)'
      BY <2>1 DEF Owns, NothingYet, Retries, OwnerPC, PreflightPC
    <2>3. ReplayOK(c)'
      BY <1>1, <1>3, <1>6, <2>1 DEF ReplayOK, PreflightPC, LastChild, AllSettled
    <2> QED
      BY <1>2, <2>1, <2>2, <2>3, SilentQuiet
  <1>7. CASE AnswerMsg(c, "DUPLICATE_ORDER", 0, FALSE) /\ UNCHANGED nextMsg
    BY <1>2, <1>7, AnswerQuiet, ArchiveSame DEF Outcome
  <1> QED
    BY <1>4, <1>5, <1>6, <1>7 DEF NextPreflight

(* What Compare finds to be the same submission is settled: an archived    *)
(* command was sent, and a row that equals a client's payload is one that  *)
(* no report has rewritten.                                                *)
LEMMA CompareSettles ==
  ASSUME IndInv, ReplayInv, NEW c \in Callers, pc[c] = "compare",
         SameOriginalSubmitOrder(row[c], ChildReq(c))
  PROVE  Settled(ChildReq(c))
  <1> DEFINE o == ChildReq(c)
             r == row[c]
             found == ArchivedByMessage(r.origin)
  <1>1. /\ RowOK(c) /\ CallOK(call[c]) /\ r \in Row /\ call[c] \in Call
        /\ child[c] \in DOMAIN call[c].orders
    BY DEF IndInv, HandlerInv, HandlerOK, SubmitPC, ReplayInv, HandlersReplay, ReplayOK
  <1>2. ClientPayloads => o.body # ReportedBody
    BY <1>1 DEF ChildReq, CallOK
  <1>3. CASE found = {}
    <2>1. [r.req EXCEPT !.key = o.key] = o
      BY <1>3 DEF SameOriginalSubmitOrder
    <2>2. r.req \in OrderReq /\ r.req.key = o.key
      BY <1>1 DEF Row, RowOK
    <2> HIDE DEF o, r
    <2>3. r.req = o
      BY <2>1, <2>2 DEF OrderReq
    <2>4. ClientPayloads => Settled(o)
      BY <1>1, <1>2, <2>3 DEF RowOK, r, o
    <2> QED
      BY <2>4 DEF Settled, o
  <1>4. CASE found # {}
    <2>1. PICK cmd \in Earliest(found) : o \in ArchivedChildren(cmd, o)
      BY <1>4 DEF SameOriginalSubmitOrder
    <2>2. PICK i \in DOMAIN archive : cmd = archive[i]
      BY <2>1 DEF Earliest, ArchivedByMessage
    <2>3. PICK j \in DOMAIN stream : stream[j] = cmd
      BY <2>2 DEF ReplayInv, ArchiveSent
    <2>4. cmd.call \in Call
      <3>1. cmd \in Command
        BY <2>2 DEF IndInv, TypeOK
      <3> QED
        BY <3>1 DEF Command
    <2>5. cmd.call.action = "order.submit" => 1 \in DOMAIN cmd.call.orders
      BY <2>4, CallFacts
    <2> HIDE DEF o
    <2>6. \E a \in DOMAIN cmd.call.orders : cmd.call.orders[a] = o
      BY <2>1, <2>5 DEF ArchivedChildren
    <2> QED
      BY <2>3, <2>6 DEF Settled, o
  <1> QED
    BY <1>3, <1>4

(* What a handler that is running may rely on.                             *)
LEMMA HandlerFacts ==
  ASSUME IndInv, ReplayInv, NEW c \in Callers, pc[c] # "idle"
  PROVE  /\ LocalType /\ nextMsg \in Nat \ {0} /\ orders \subseteq Row
         /\ call[c] \in Call /\ CallOK(call[c]) /\ HandlerOK(c) /\ ReplayOK(c)
         /\ msg[c] \in Nat /\ child[c] \in Nat /\ replays[c] \in Nat /\ conflict[c] \in BOOLEAN
         /\ Len(call[c].orders) \in Nat /\ DOMAIN call[c].orders = 1 .. Len(call[c].orders)
  <1>1. /\ LocalType /\ nextMsg \in Nat \ {0} /\ orders \subseteq Row
        /\ call[c] \in Call /\ HandlerOK(c)
    BY TypeParts DEF IndInv, HandlerInv, HandlerOK
  <1>2. ReplayOK(c) /\ CallOK(call[c])
    BY DEF ReplayInv, HandlersReplay, ReplayOK
  <1> QED
    BY <1>1, <1>2, CallFacts DEF LocalType

(* A preflight that found a row goes on to compare it.                     *)
LEMMA FoundQuiet ==
  ASSUME IndInv, ReplayInv, NEW c \in Callers, pc[c] \in {"gateway", "key"}, NEW r \in orders,
         r.req.acct = ChildReq(c).acct, r.req.key = ChildReq(c).key,
         Goto(c, "compare"), row' = [row EXCEPT ![c] = r],
         UNCHANGED <<orders, archive, stream, call, child, conflict, replays, msg>>
  PROVE  Quiet(c)
  <1>1. LocalType /\ ReplayOK(c) /\ CallOK(call[c]) /\ pc'[c] = "compare" /\ row'[c] = r
    BY HandlerFacts DEF Goto, LocalType
  <1>2. \A o : Settled(o) => Settled(o)'
    BY SettledFrame
  <1>3. (Owns(c)' <=> Owns(c)) /\ (NothingYet(c)' <=> NothingYet(c))
    BY <1>1 DEF Owns, NothingYet, Retries, OwnerPC, PreflightPC
  <1>4. RowOK(c)'
    <2>1. r.req.body = ReportedBody \/ Settled(r.req)
      BY DEF ReplayInv, RowsSettled
    <2>2. ChildReq(c)' = ChildReq(c)
      BY DEF ChildReq
    <2>3. Settled(r.req) => Settled(row[c].req)'
      BY <1>1, <1>2
    <2> QED
      BY <1>1, <2>1, <2>2, <2>3 DEF RowOK
  <1>5. ReplayOK(c)'
    BY <1>1, <1>2, <1>4 DEF ReplayOK, PreflightPC
  <1> QED
    BY <1>1, <1>3, <1>5, SilentQuiet DEF Goto

LEMMA LookupGatewayQuiet ==
  ASSUME IndInv, ReplayInv, NEW c \in Callers, LookupGateway(c)
  PROVE  Quiet(c)
  <1> DEFINE o == ChildReq(c)
  <1>1. pc[c] = "gateway" /\ UNCHANGED <<orders, archive, stream, nextMsg>>
    BY DEF LookupGateway, db
  <1>2. LocalType /\ ReplayOK(c) /\ CallOK(call[c]) /\ msg[c] \in Nat
    BY <1>1, HandlerFacts
  <1>3. ASSUME NEW outcome \in {"IDEMPOTENCY_CONFLICT", "DUPLICATE_ORDER"}, Answer(c, outcome)
        PROVE  Quiet(c)
    BY <1>1, <1>2, <1>3, AnswerQuiet, ArchiveSame DEF Answer, Outcome
  <1>4. CASE Goto(c, "key") /\ UNCHANGED <<call, child, conflict, replays, row, msg>>
    <2>1. pc'[c] = "key" /\ receipts' = receipts
      BY <1>2, <1>4 DEF Goto, LocalType
    <2>2. (Owns(c)' <=> Owns(c)) /\ (NothingYet(c)' <=> NothingYet(c))
      BY <1>1, <1>4, <2>1 DEF Owns, NothingYet, Retries, OwnerPC, PreflightPC
    <2>3. \A p : Settled(p) => Settled(p)'
      BY <1>1, SettledFrame
    <2>4. ReplayOK(c)'
      BY <1>1, <1>2, <1>4, <2>1, <2>3 DEF ReplayOK, PreflightPC
    <2> QED
      BY <1>1, <1>4, <2>1, <2>2, <2>4, SilentQuiet
  <1>5. ASSUME NEW r \in GetOrder(o.acct, o.gw), r.req.key = o.key, Goto(c, "compare"),
               row' = [row EXCEPT ![c] = r], UNCHANGED <<call, child, conflict, replays, msg>>
        PROVE  Quiet(c)
    <2>1. r \in orders /\ r.req.acct = o.acct
      BY <1>5 DEF GetOrder, RowsOf
    <2> QED
      BY <1>1, <1>5, <2>1, FoundQuiet
  <1> QED
    BY <1>3, <1>4, <1>5 DEF LookupGateway

LEMMA LookupKeyQuiet ==
  ASSUME IndInv, ReplayInv, NEW c \in Callers, LookupKey(c)
  PROVE  Quiet(c)
  <1>1. pc[c] = "key" /\ UNCHANGED <<orders, archive, stream>>
    BY DEF LookupKey, db
  <1>2. /\ ReplayOK(c) /\ msg[c] \in Nat /\ replays[c] \in Nat /\ child[c] \in Nat
    BY <1>1, HandlerFacts
  <1>3. CASE conflict[c] /\ Answer(c, "ORDER_CONFLICT")
    BY <1>1, <1>2, <1>3, AnswerQuiet, ArchiveSame DEF Answer, Outcome
  <1>4. CASE ~ conflict[c] /\ NextPreflight(c, replays[c], msg[c])
    <2>1. replays[c] < child[c]
      BY <1>1, <1>2, <1>4 DEF ReplayOK, PreflightPC
    <2>2. replays[c] <= child[c] /\ replays[c] # child[c]
      BY <1>2, <2>1
    <2> QED
      BY <1>1, <1>2, <1>4, <2>2, NextPreflightQuiet
  <1>5. ASSUME NEW r \in RowsWithKey(ChildReq(c).acct, ChildReq(c).key), Goto(c, "compare"),
               row' = [row EXCEPT ![c] = r], UNCHANGED <<call, child, conflict, replays, msg>>
        PROVE  Quiet(c)
    <2>1. r \in orders /\ r.req.acct = ChildReq(c).acct /\ r.req.key = ChildReq(c).key
      BY <1>5 DEF RowsWithKey
    <2> QED
      BY <1>1, <1>5, <2>1, FoundQuiet
  <1> QED
    BY <1>3, <1>4, <1>5 DEF LookupKey, PreflightNew

LEMMA CompareQuiet ==
  ASSUME IndInv, ReplayInv, NEW c \in Callers, Compare(c)
  PROVE  Quiet(c)
  <1> DEFINE os == call[c].orders
  <1>1. pc[c] = "compare" /\ UNCHANGED <<orders, archive, stream>>
    BY DEF Compare, db
  <1>2. /\ LocalType /\ ReplayOK(c) /\ CallOK(call[c]) /\ msg[c] \in Nat /\ replays[c] \in Nat
        /\ child[c] \in Nat /\ conflict[c] \in BOOLEAN
        /\ Len(os) \in Nat /\ DOMAIN os = 1 .. Len(os)
    BY <1>1, HandlerFacts
  <1>3. child[c] \in DOMAIN os /\ row[c] \in Row
    BY <1>1 DEF IndInv, HandlerInv, HandlerOK, SubmitPC
  <1>4. ASSUME NEW outcome \in {"IDEMPOTENCY_CONFLICT", "DUPLICATE_ORDER", "ERROR"}, Answer(c, outcome)
        PROVE  Quiet(c)
    BY <1>1, <1>2, <1>4, AnswerQuiet, ArchiveSame DEF Answer, Outcome
  <1>5. ASSUME SameOriginalSubmitOrder(row[c], ChildReq(c)), PreflightReplay(c) PROVE Quiet(c)
    <2>1. Settled(os[child[c]])
      BY <1>1, <1>5, CompareSettles DEF ChildReq
    <2>2. ASSUME ~ conflict[c],
                 NextPreflight(c, replays[c] + 1, IF child[c] = 1 THEN row[c].origin ELSE msg[c])
          PROVE  Quiet(c)
      <3> DEFINE n == replays[c] + 1
                 m == IF child[c] = 1 THEN row[c].origin ELSE msg[c]
      <3>1. n \in Nat /\ m \in Nat
        BY <1>2, <1>3 DEF Row
      <3>2. replays[c] < child[c]
        BY <1>1, <1>2, <2>2 DEF ReplayOK, PreflightPC
      <3>3. n <= child[c]
        BY <1>2, <3>2
      <3>4. ASSUME n = child[c], NEW j \in DOMAIN os, j <= child[c] PROVE Settled(os[j])
        <4>1. j < child[c] \/ j = child[c]
          BY <1>2, <3>4
        <4> QED
          BY <1>1, <1>2, <2>1, <2>2, <3>4, <4>1 DEF ReplayOK, PreflightPC
      <3>5. NextPreflight(c, n, m)
        BY <2>2
      <3> HIDE DEF n, m
      <3> QED
        BY <1>1, <2>2, <3>1, <3>3, <3>4, <3>5, NextPreflightQuiet
    <2>3. CASE /\ conflict[c] /\ call[c].action = "order.submit"
               /\ Goto(c, "receipt")
               /\ msg' = [msg EXCEPT ![c] = row[c].origin]
               /\ UNCHANGED <<nextMsg, call, child, conflict, replays, row>>
      <3>1. pc'[c] = "receipt" /\ receipts' = receipts
        BY <1>2, <2>3 DEF Goto, LocalType
      <3>2. ~ Owns(c)' /\ ~ NothingYet(c)'
        BY <3>1 DEF Owns, NothingYet, Retries, OwnerPC, PreflightPC
      <3>3. \A r \in orders : r.origin # msg[c]
        BY <1>1, <2>3 DEF NothingYet, Retries, PreflightPC, ReplayInv, NothingInserted
      <3>4. AllSettled(call[c])
        BY <1>2, <1>3, <2>1, <2>3 DEF CallOK, AllSettled
      <3>5. AllSettled(call[c])'
        BY <1>1, <2>3, <3>4, SettledFrame DEF AllSettled
      <3>6. ReplayOK(c)'
        BY <1>2, <2>3, <3>1, <3>5 DEF ReplayOK, PreflightPC
      <3> QED
        BY <1>1, <2>3, <3>1, <3>2, <3>3, <3>6, SilentQuiet
    <2> QED
      BY <1>4, <1>5, <2>2, <2>3 DEF PreflightReplay
  <1> QED
    BY <1>4, <1>5 DEF Compare

LEMMA ReplayReceiptQuiet ==
  ASSUME IndInv, ReplayInv, NEW c \in Callers, ReplayReceipt(c)
  PROVE  Quiet(c)
  <1>1. pc[c] = "receipt" /\ UNCHANGED <<orders, archive, stream>>
    BY DEF ReplayReceipt, db
  <1>2. AllSettled(call[c]) /\ msg[c] \in Nat /\ ~ Owns(c)
    BY <1>1, HandlerFacts DEF ReplayOK, Owns, Retries, OwnerPC, PreflightPC
  <1>3. \A S \in SUBSET DOMAIN archive : \A cmd \in Earliest(S) : cmd.msg \in Nat
    BY ArchivedCommandType DEF IndInv, TypeOK
  <1>4. PICK m \in Nat, located \in BOOLEAN : AnswerMsg(c, "replayed", m, located)
    <2>1. ArchivedByKey(call[c].acct, call[c].action, call[c].key) \in SUBSET DOMAIN archive
      BY DEF ArchivedByKey
    <2> QED
      BY <1>2, <1>3, <2>1 DEF ReplayReceipt
  <1> QED
    BY <1>1, <1>2, <1>4, AnswerQuiet, ArchiveSame DEF Outcome

LEMMA ArchiveCommandQuiet ==
  ASSUME IndInv, ReplayInv, NEW c \in Callers, ArchiveCommand(c)
  PROVE  Quiet(c)
  <1>1. /\ pc[c] = "archive" /\ UNCHANGED <<orders, stream>>
        /\ archive' = Append(archive, CommandOf(c)) /\ AnswerMsg(c, "accepted", msg[c], TRUE)
    BY DEF ArchiveCommand
  <1>2. /\ msg[c] \in Nat /\ ~ Owns(c) /\ \E i \in DOMAIN stream : stream[i] = CommandOf(c)
        /\ call[c] \in Call
    BY <1>1, HandlerFacts DEF IndInv, PublishedFirst, Owns, Retries, OwnerPC, PreflightPC
  <1>3. ArchiveSent'
    <2>1. archive \in Seq(Command) /\ CommandOf(c) \in Command
      BY <1>2 DEF IndInv, TypeOK, CommandOf, Command
    <2>2. \A i \in DOMAIN archive' : \/ i \in DOMAIN archive /\ archive'[i] = archive[i]
                                     \/ archive'[i] = CommandOf(c)
      <3> DEFINE n == Len(archive) + 1
      <3>1. /\ Len(archive) \in Nat /\ DOMAIN archive = 1 .. Len(archive)
            /\ DOMAIN archive' = 1 .. n /\ archive'[n] = CommandOf(c)
            /\ \A i \in DOMAIN archive : archive'[i] = archive[i]
        BY <1>1, <2>1
      <3> QED
        BY <3>1
    <2> QED
      BY <1>1, <1>2, <2>2 DEF ArchiveSent, ReplayInv
  <1> QED
    BY <1>1, <1>2, <1>3, AnswerQuiet DEF Outcome

LEMMA AbortQuiet ==
  ASSUME IndInv, ReplayInv, NEW c \in Callers, Abort(c)
  PROVE  Quiet(c)
  <1>1. pc[c] # "idle" /\ Answer(c, "ERROR") /\ UNCHANGED <<orders, archive, stream>>
    BY DEF Abort, db
  <1>2. msg[c] \in Nat
    BY <1>1, HandlerFacts
  <1> QED
    BY <1>1, <1>2, AnswerQuiet, ArchiveSame DEF Answer, Outcome

(* A cancel inserts nothing and replays no order.                          *)
LEMMA CancelQuiet ==
  ASSUME IndInv, ReplayInv, NEW c \in Callers,
         CancelLock(c) \/ CancelLookup(c) \/ CancelReplay(c) \/ CancelCheck(c)
  PROVE  Quiet(c)
  <1>1. pc[c] \in CancelPC /\ UNCHANGED <<orders, archive, stream>>
    BY DEF CancelLock, CancelLookup, CancelReplay, CancelCheck, CancelPC, db
  <1>2. /\ LocalType /\ CallOK(call[c]) /\ ReplayOK(c) /\ msg[c] \in Nat /\ call[c].orders = <<>>
        /\ AllSettled(call[c]) /\ ~ Owns(c)
    BY <1>1, HandlerFacts DEF CancelPC, HandlerOK, AllSettled, Owns, Retries, OwnerPC, PreflightPC
  <1>3. ASSUME NEW outcome \in Outcome, NEW m \in Nat, NEW located \in BOOLEAN,
               AnswerMsg(c, outcome, m, located)
        PROVE  Quiet(c)
    BY <1>1, <1>2, <1>3, AnswerQuiet, ArchiveSame DEF CancelPC
  <1>4. ASSUME NEW l \in {"cancel_lookup", "cancel_check", "cancel_replay", "publish"},
               pc' = [pc EXCEPT ![c] = l], l = "publish" => msg'[c] = nextMsg /\ nextMsg' = nextMsg + 1,
               UNCHANGED <<call, conflict, replays, receipts>>
        PROVE  Quiet(c)
    <2>1. pc'[c] = l
      BY <1>2, <1>4 DEF LocalType
    <2>2. (l # "publish" => ~ Owns(c)') /\ ~ NothingYet(c)'
      BY <1>4, <2>1 DEF Owns, NothingYet, Retries, OwnerPC, PreflightPC
    <2>3. ReplayOK(c)'
      BY <1>2, <1>4, <2>1 DEF ReplayOK, PreflightPC
    <2> QED
      BY <1>1, <1>2, <1>4, <2>2, <2>3, SilentQuiet
  <1>5. CASE CancelLock(c)
    BY <1>4, <1>5 DEF CancelLock
  <1>6. CASE CancelLookup(c)
    BY <1>2, <1>3, <1>4, <1>6 DEF CancelLookup, Goto, Answer, Outcome
  <1>7. CASE CancelReplay(c)
    BY <1>2, <1>3, <1>7 DEF CancelReplay, Answer, Outcome
  <1>8. CASE CancelCheck(c)
    <2>1. CASE /\ Goto(c, "publish")
               /\ msg' = [msg EXCEPT ![c] = nextMsg]
               /\ nextMsg' = nextMsg + 1
               /\ UNCHANGED <<call, child, conflict, replays, row>>
      <3>1. msg'[c] = nextMsg
        BY <1>2, <2>1 DEF LocalType
      <3> QED
        BY <1>4, <2>1, <3>1 DEF Goto
    <2> QED
      BY <1>2, <1>3, <1>8, <2>1 DEF CancelCheck, Answer, Outcome
  <1> QED
    BY <1>5, <1>6, <1>7, <1>8

(* An insert, or the unique index that refuses it.                         *)
LEMMA CreateOrderReplay ==
  ASSUME IndInv, IndInv', ReplayInv, NEW c \in Callers, CreateOrder(c)
  PROVE  ReplayInv'
  <1> DEFINE o == ChildReq(c)
             new == [req |-> o, origin |-> msg[c], status |-> "open"]
  <1>1. pc[c] = "create" /\ UNCHANGED <<archive, stream, nextMsg, call, replays, row, msg, receipts>>
    BY DEF CreateOrder, Goto
  <1>2. /\ LocalType /\ ReplayOK(c) /\ CallOK(call[c]) /\ msg[c] \in Nat /\ nextMsg \in Nat \ {0}
        /\ child[c] \in DOMAIN call[c].orders /\ orders \subseteq Row
        /\ Len(call[c].orders) \in Nat /\ DOMAIN call[c].orders = 1 .. Len(call[c].orders)
    BY <1>1, HandlerFacts DEF HandlerOK, SubmitPC
  <1>3. CASE /\ Goto(c, "gateway")
             /\ conflict' = [conflict EXCEPT ![c] = TRUE]
             /\ UNCHANGED <<orders, child>>
    <2>1. /\ pc'[c] = "gateway" /\ conflict'[c] = TRUE
          /\ \A d \in Callers \ {c} : conflict'[d] = conflict[d]
      BY <1>2, <1>3 DEF Goto, LocalType
    <2>2. Owns(c) /\ Owns(c)'
      BY <1>1, <2>1 DEF Owns, Retries, OwnerPC, PreflightPC
    <2>3. NothingYet(c)' => NothingYet(c)
      <3>1. call[c].action = "order.submit" => Len(call[c].orders) = 1
        BY <1>2 DEF CallOK
      <3>2. ASSUME call[c].action = "order.submit" PROVE child[c] = 1
        <4>1. child[c] \in 1 .. Len(call[c].orders) /\ Len(call[c].orders) = 1
          BY <1>2, <3>1, <3>2
        <4> QED
          BY <4>1
      <3>3. NothingYet(c)' => call[c].action = "order.submit"
        BY <1>1, <2>1 DEF NothingYet
      <3> QED
        BY <1>1, <3>2, <3>3 DEF NothingYet
    <2>4. ReplayOK(c)'
      BY <1>1, <1>2, <2>1 DEF ReplayOK
    <2>5. Quiet(c)
      BY <1>1, <1>3, <2>1, <2>2, <2>3, <2>4, SilentQuiet
    <2>6. LocalType' /\ HandlerOK(c)'
      BY TypeParts DEF IndInv, HandlerInv, TypeOK, LocalType
    <2>7. Alone(c) /\ Takes(c)
      BY <1>1, <1>2, <1>3, <2>1 DEF Alone, Takes, OwnerPC, Goto, LocalType
    <2>8. Calm(c)
      BY <1>1, <1>2, <1>3, <2>6, <2>7 DEF Calm
    <2> QED
      BY <2>5, <2>8, QuietInv
  <1>4. CASE /\ ~UniqueViolation(o)
             /\ orders' = orders \cup {new}
             /\ Goto(c, IF LastChild(c) THEN "publish" ELSE "create")
             /\ child' = [child EXCEPT ![c] = IF LastChild(c) THEN @ ELSE @ + 1]
             /\ UNCHANGED conflict
    <2>1. new.req = o /\ new.origin = msg[c]
      OBVIOUS
    <2> HIDE DEF new
    <2>2. /\ pc'[c] \in OwnerPC /\ (pc'[c] = "create" => child'[c] # 1)
          /\ \A d \in Callers \ {c} : pc'[d] = pc[d] /\ child'[d] = child[d]
      BY <1>2, <1>4 DEF Goto, LocalType, OwnerPC
    <2>3. \A d \in Callers \ {c} : (Owns(d)' <=> Owns(d)) /\ (NothingYet(d)' <=> NothingYet(d))
      BY <1>1, <1>4, <2>2 DEF Owns, NothingYet, Retries
    <2>4. Owns(c) /\ Owns(c)' /\ ~ NothingYet(c)'
      BY <1>1, <2>2 DEF Owns, NothingYet, Retries, OwnerPC, PreflightPC
    <2>5. \A d \in Callers \ {c} : Owns(d) => msg[d] # msg[c]
      BY <2>4 DEF ReplayInv, OwnersDistinct
    <2>6. \A d \in Callers : NothingYet(d) => Owns(d)
      BY DEF NothingYet, Owns, OwnerPC
    <2>7. \A p : Settled(p) => Settled(p)'
      BY <1>1, <1>4, SettledFrame
    <2>8. ~ InStream(msg[c]) /\ msg[c] < nextMsg
      BY <1>1 DEF IndInv, OwnedMsgs, OwnerPC, InStream
    <2>9. RowOrigins'
      BY <1>1, <1>4, <2>1, <2>8 DEF ReplayInv, RowOrigins
    <2>10. OwnersDistinct'
      BY <1>1, <2>3, <2>4 DEF ReplayInv, OwnersDistinct
    <2>11. NothingInserted'
      BY <1>1, <1>4, <2>1, <2>3, <2>4, <2>5, <2>6 DEF ReplayInv, NothingInserted
    <2>12. Traced'
      <3>1. \A m : InStream(m)' <=> InStream(m)
        BY <1>1 DEF InStream
      <3>2. \A d \in Callers : Owns(d) => Owns(d)'
        BY <2>3, <2>4
      <3> QED
        BY <1>1, <1>4, <2>1, <2>4, <3>1, <3>2 DEF ReplayInv, Traced
    <2>13. HandlersReplay'
      <3> SUFFICES ASSUME NEW d \in Callers PROVE ReplayOK(d)'
        BY DEF HandlersReplay
      <3>1. CASE d = c
        BY <1>1, <1>2, <2>2, <3>1 DEF ReplayOK, OwnerPC, PreflightPC
      <3>2. CASE d # c
        <4>1. /\ pc'[d] = pc[d] /\ call'[d] = call[d] /\ child'[d] = child[d] /\ row'[d] = row[d]
              /\ conflict'[d] = conflict[d] /\ replays'[d] = replays[d] /\ ReplayOK(d)
          BY <1>1, <1>4, <2>2, <3>2 DEF ReplayInv, HandlersReplay
        <4>2. RowOK(d) => RowOK(d)'
          BY <2>7, <4>1 DEF RowOK, ChildReq
        <4>3. AllSettled(call[d]) => AllSettled(call[d])'
          BY <2>7, <4>1 DEF AllSettled
        <4>4. CommandOf(d)' = CommandOf(d)
          BY <1>1 DEF CommandOf
        <4> QED
          BY <1>1, <2>7, <4>1, <4>2, <4>3, <4>4 DEF ReplayOK, CallOK
      <3> QED
        BY <3>1, <3>2
    <2>14. RowsSettled'
      <3>1. ASSUME NEW p, p = o PROVE Settled(p)'
        <4>1. \A m : InStream(m)' <=> InStream(m)
          BY <1>1 DEF InStream
        <4>2. \E r \in orders' : ~ InStream(r.origin)' /\ r.req = p
          BY <1>4, <2>1, <2>8, <3>1, <4>1
        <4> QED
          BY <4>2 DEF Settled
      <3> HIDE DEF o
      <3> QED
        BY <1>4, <2>1, <2>7, <3>1 DEF ReplayInv, RowsSettled
    <2>15. OwnRows'
      BY <1>1, <1>2, <1>4, <2>1, <2>2, <2>5 DEF ReplayInv, OwnRows, Owns, OwnerPC, ChildReq
    <2>16. ReplaysSettled' /\ ArchiveSent'
      BY <1>1, <2>7 DEF ReplayInv, ReplaysSettled, AllSettled, ArchiveSent
    <2> QED
      BY <2>9, <2>10, <2>11, <2>12, <2>13, <2>14, <2>15, <2>16 DEF ReplayInv
  <1> QED
    BY <1>3, <1>4 DEF CreateOrder

(* What the handlers know survives every step that keeps settled orders    *)
(* settled and the stream growing.                                         *)
LEMMA HandlerFrame ==
  ASSUME ReplayInv, NEW d \in Callers, ReplayOK(d),
         pc'[d] = pc[d], call'[d] = call[d], child'[d] = child[d], row'[d] = row[d],
         msg'[d] = msg[d], conflict'[d] = conflict[d], replays'[d] = replays[d],
         \A p : Settled(p) => Settled(p)'
  PROVE  ReplayOK(d)'
  <1>1. RowOK(d) => RowOK(d)'
    BY DEF RowOK, ChildReq
  <1>2. AllSettled(call[d]) => AllSettled(call[d])'
    BY DEF AllSettled
  <1> QED
    BY <1>1, <1>2 DEF ReplayOK, CallOK

(* The publication puts every row that waited for it on the stream as it   *)
(* was inserted.                                                           *)
LEMMA PublishCommandReplay ==
  ASSUME IndInv, ReplayInv, NEW c \in Callers, PublishCommand(c)
  PROVE  ReplayInv'
  <1> DEFINE n == Len(stream) + 1
  <1>1. /\ pc[c] = "publish" /\ stream' = Append(stream, CommandOf(c))
        /\ pc' = [pc EXCEPT ![c] = "archive"]
        /\ UNCHANGED <<orders, archive, nextMsg, call, child, conflict, replays, row, msg, receipts>>
    BY DEF PublishCommand, Goto, db
  <1>2. LocalType /\ ReplayOK(c) /\ CallOK(call[c]) /\ call[c] \in Call /\ msg[c] \in Nat
    BY <1>1, HandlerFacts
  <1>3. /\ DOMAIN stream \subseteq DOMAIN stream' /\ n \in DOMAIN stream'
        /\ stream'[n] = CommandOf(c)
        /\ \A i \in DOMAIN stream : stream'[i] = stream[i]
        /\ \A i \in DOMAIN stream' : i \in DOMAIN stream \/ i = n
    <2>1. stream \in Seq(Command) /\ CommandOf(c) \in Command
      BY <1>2 DEF IndInv, TypeOK, CommandOf, Command
    <2>2. /\ Len(stream) \in Nat /\ DOMAIN stream = 1 .. Len(stream) /\ DOMAIN stream' = 1 .. n
          /\ stream'[n] = CommandOf(c) /\ \A i \in DOMAIN stream : stream'[i] = stream[i]
      BY <1>1, <2>1
    <2> QED
      BY <2>2
  <1>4. CommandOf(c).msg = msg[c] /\ CommandOf(c).call = call[c]
    BY DEF CommandOf
  <1> HIDE DEF n
  <1>5. \A m : InStream(m)' <=> InStream(m) \/ m = msg[c]
    BY <1>3, <1>4 DEF InStream
  <1>6. pc'[c] = "archive" /\ \A d \in Callers \ {c} : pc'[d] = pc[d]
    BY <1>1, <1>2 DEF LocalType
  <1>7. ~ Owns(c)' /\ ~ NothingYet(c)'
    BY <1>6 DEF Owns, NothingYet, Retries, OwnerPC, PreflightPC
  <1>8. \A d \in Callers \ {c} : (Owns(d)' <=> Owns(d)) /\ (NothingYet(d)' <=> NothingYet(d))
    BY <1>1, <1>6 DEF Owns, NothingYet, Retries
  <1>9. \A p : Settled(p) => Settled(p)'
    <2> SUFFICES ASSUME NEW p, Settled(p) PROVE Settled(p)'
      OBVIOUS
    <2>1. ASSUME NEW i \in DOMAIN stream, NEW a \in DOMAIN stream[i].call.orders,
                 stream[i].call.orders[a] = p
          PROVE  Settled(p)'
      BY <1>3, <2>1 DEF Settled
    <2>2. ASSUME NEW r \in orders, ~ InStream(r.origin), r.req = p PROVE Settled(p)'
      <3>1. CASE r.origin # msg[c]
        BY <1>1, <1>5, <2>2, <3>1 DEF Settled
      <3>2. CASE r.origin = msg[c]
        <4>1. PICK a \in DOMAIN call[c].orders : p = call[c].orders[a]
          BY <1>1, <2>2, <3>2 DEF ReplayInv, OwnRows, OwnerPC
        <4> QED
          BY <1>3, <1>4, <4>1 DEF Settled
      <3> QED
        BY <3>1, <3>2
    <2> QED
      BY <2>1, <2>2 DEF Settled
  <1>10. RowOrigins' /\ NothingInserted' /\ OwnersDistinct'
    BY <1>1, <1>7, <1>8 DEF ReplayInv, RowOrigins, NothingInserted, OwnersDistinct
  <1>11. Traced'
    BY <1>1, <1>5, <1>8 DEF ReplayInv, Traced
  <1>12. HandlersReplay'
    <2> SUFFICES ASSUME NEW d \in Callers PROVE ReplayOK(d)'
      BY DEF HandlersReplay
    <2>1. CASE d = c
      BY <1>1, <1>2, <1>6, <2>1 DEF ReplayOK, PreflightPC
    <2>2. CASE d # c
      <3>1. ReplayOK(d)
        BY DEF ReplayInv, HandlersReplay
      <3> QED
        BY <1>1, <1>6, <1>9, <2>2, <3>1, HandlerFrame
    <2> QED
      BY <2>1, <2>2
  <1>13. RowsSettled' /\ ReplaysSettled'
    BY <1>1, <1>9 DEF ReplayInv, RowsSettled, ReplaysSettled, AllSettled
  <1>14. ArchiveSent'
    BY <1>1, <1>3 DEF ReplayInv, ArchiveSent
  <1>15. OwnRows'
    BY <1>1, <1>6 DEF ReplayInv, OwnRows, OwnerPC
  <1> QED
    BY <1>10, <1>11, <1>12, <1>13, <1>14, <1>15 DEF ReplayInv

LEMMA ResendReplay ==
  ASSUME IndInv, ReplayInv, NEW c \in Callers, ResendCommand(c)
  PROVE  ReplayInv'
  <1>1. /\ UNCHANGED <<orders, archive, nextMsg, pc, call, child, conflict, replays, row,
                       msg, receipts>>
        /\ \A i \in DOMAIN stream : i \in DOMAIN stream' /\ stream'[i] = stream[i]
        /\ \A i \in DOMAIN stream' : \E j \in DOMAIN stream : stream'[i] = stream[j]
    BY ResendFacts
  <1>2. /\ \A d \in Callers : (Owns(d)' <=> Owns(d)) /\ (NothingYet(d)' <=> NothingYet(d))
        /\ \A m : InStream(m)' <=> InStream(m)
    BY <1>1 DEF Owns, NothingYet, Retries, InStream
  <1>3. \A p : Settled(p) => Settled(p)'
    BY <1>1, <1>2 DEF Settled
  <1>4. RowOrigins' /\ NothingInserted' /\ OwnersDistinct'
    BY <1>1, <1>2 DEF ReplayInv, RowOrigins, NothingInserted, OwnersDistinct
  <1>5. Traced'
    BY <1>1, <1>2 DEF ReplayInv, Traced
  <1>6. HandlersReplay'
    BY <1>1, <1>3, HandlerFrame DEF ReplayInv, HandlersReplay
  <1>7. RowsSettled' /\ ReplaysSettled'
    BY <1>1, <1>3 DEF ReplayInv, RowsSettled, ReplaysSettled, AllSettled
  <1>8. ArchiveSent' /\ OwnRows'
    BY <1>1 DEF ReplayInv, ArchiveSent, OwnRows
  <1> QED
    BY <1>4, <1>5, <1>6, <1>7, <1>8 DEF ReplayInv

(* A report rewrites only rows whose command is on the stream.             *)
LEMMA SyncOrderReplay ==
  ASSUME IndInv, ReplayInv, NEW r \in orders, NEW s \in Status,
         NEW b \in {r.req.body, ReportedBody}, SyncOrder(r, s, b)
  PROVE  ReplayInv'
  <1> DEFINE q == [r EXCEPT !.status = s, !.req = [@ EXCEPT !.body = b]]
  <1>1. /\ orders' = (orders \ {r}) \cup {q} /\ InStream(r.origin)
        /\ UNCHANGED <<archive, stream, nextMsg, pc, call, child, conflict, replays, row, msg, receipts>>
    BY DEF SyncOrder, locals, InStream
  <1>2. /\ r \in Row /\ q.origin = r.origin
        /\ q.req.body = ReportedBody \/ q.req = r.req
    <2>1. r \in Row /\ r.req \in OrderReq
      BY TypeParts DEF IndInv, Row
    <2>2. q.req = [r.req EXCEPT !.body = b] /\ q.origin = r.origin
      BY <2>1 DEF Row
    <2> HIDE DEF q
    <2>3. b = r.req.body => q.req = r.req
      BY <2>1, <2>2 DEF OrderReq
    <2>4. b = ReportedBody => q.req.body = ReportedBody
      BY <2>1, <2>2 DEF OrderReq
    <2> QED
      BY <2>1, <2>2, <2>3, <2>4
  <1> HIDE DEF q
  <1>3. \A m : InStream(m)' <=> InStream(m)
    BY <1>1 DEF InStream
  <1>4. \A d \in Callers : (Owns(d)' <=> Owns(d)) /\ (NothingYet(d)' <=> NothingYet(d))
    BY <1>1 DEF Owns, NothingYet, Retries
  <1>5. \A p : Settled(p) => Settled(p)'
    BY <1>1, <1>3 DEF Settled
  <1>6. RowOrigins' /\ NothingInserted' /\ OwnersDistinct'
    BY <1>1, <1>2, <1>4 DEF ReplayInv, RowOrigins, NothingInserted, OwnersDistinct
  <1>7. Traced'
    BY <1>1, <1>2, <1>3, <1>4 DEF ReplayInv, Traced
  <1>8. HandlersReplay'
    BY <1>1, <1>5, HandlerFrame DEF ReplayInv, HandlersReplay
  <1>9. RowsSettled'
    BY <1>1, <1>2, <1>5 DEF ReplayInv, RowsSettled
  <1>10. ReplaysSettled' /\ ArchiveSent'
    BY <1>1, <1>5 DEF ReplayInv, ReplaysSettled, AllSettled, ArchiveSent
  <1>11. OwnRows'
    <2>1. \A d \in Callers : pc[d] \in OwnerPC => msg[d] # r.origin
      BY <1>1 DEF IndInv, OwnedMsgs, InStream
    <2> QED
      BY <1>1, <1>2, <2>1 DEF ReplayInv, OwnRows
  <1> QED
    BY <1>6, <1>7, <1>8, <1>9, <1>10, <1>11 DEF ReplayInv

LEMMA FrameReplay ==
  ASSUME ReplayInv, UNCHANGED <<orders, archive, stream, nextMsg, locals>>,
         receipts \subseteq receipts', \A x \in receipts' \ receipts : x.outcome # "replayed"
  PROVE  ReplayInv'
  <1>1. UNCHANGED <<orders, archive, stream, nextMsg, pc, call, child, conflict, replays, row, msg>>
    BY DEF locals
  <1>2. /\ \A d \in Callers : (Owns(d)' <=> Owns(d)) /\ (NothingYet(d)' <=> NothingYet(d))
        /\ \A m : (InStream(m)' <=> InStream(m))
        /\ \A p : Settled(p) => Settled(p)'
    BY <1>1 DEF Owns, NothingYet, Retries, InStream, Settled
  <1>3. RowOrigins' /\ NothingInserted' /\ OwnersDistinct'
    BY <1>1, <1>2 DEF ReplayInv, RowOrigins, NothingInserted, OwnersDistinct
  <1>4. Traced'
    BY <1>1, <1>2 DEF ReplayInv, Traced, RefusedIn
  <1>5. HandlersReplay'
    BY <1>1, <1>2, HandlerFrame DEF ReplayInv, HandlersReplay
  <1>6. RowsSettled' /\ ArchiveSent' /\ OwnRows'
    BY <1>1, <1>2 DEF ReplayInv, RowsSettled, ArchiveSent, OwnRows
  <1>7. ReplaysSettled'
    BY <1>2 DEF ReplayInv, ReplaysSettled, AllSettled
  <1> QED
    BY <1>3, <1>4, <1>5, <1>6, <1>7 DEF ReplayInv

LEMMA InitReplay == Init => ReplayInv
  <1> SUFFICES ASSUME Init PROVE ReplayInv
    OBVIOUS
  <1>1. \A c \in Callers : ~ Owns(c) /\ ~ NothingYet(c) /\ ReplayOK(c) /\ pc[c] \notin OwnerPC
    BY DEF Init, Owns, NothingYet, Retries, ReplayOK, OwnerPC, PreflightPC
  <1> QED
    BY <1>1 DEF Init, ReplayInv, RowOrigins, NothingInserted, OwnersDistinct, Traced, HandlersReplay,
                RowsSettled, ArchiveSent, OwnRows, ReplaysSettled

LEMMA NextReplay == IndInv /\ IndInv' /\ ReplayInv /\ [Next]_vars => ReplayInv'
  <1> SUFFICES ASSUME IndInv, IndInv', ReplayInv, [Next]_vars PROVE ReplayInv'
    OBVIOUS
  <1>1. TypeOK /\ \A c \in Callers : HandlerOK(c)
    BY DEF IndInv, HandlerInv
  <1>2. ASSUME NEW c \in Callers, NEW x \in NormalizedCalls, Begin(c, x) PROVE ReplayInv'
    BY <1>1, <1>2, BeginCalm, BeginQuiet, QuietInv
  <1>3. ASSUME NEW c \in Callers, NEW x \in NormalizedCalls, Refuse(c, x) PROVE ReplayInv'
    BY <1>3, FrameReplay DEF Refuse, db
  <1>4. ASSUME NEW c \in Callers, Step(c) PROVE ReplayInv'
    <2>1. CASE LookupGateway(c)
      BY <1>1, <2>1, LookupGatewayCalm, LookupGatewayQuiet, QuietInv
    <2>2. CASE LookupKey(c)
      BY <1>1, <2>2, LookupKeyCalm, LookupKeyQuiet, QuietInv
    <2>3. CASE Compare(c)
      BY <1>1, <2>3, CompareCalm, CompareQuiet, QuietInv
    <2>4. CASE ReplayReceipt(c)
      BY <1>1, <2>4, ReplayReceiptCalm, ReplayReceiptQuiet, QuietInv
    <2>5. CASE ArchiveCommand(c)
      BY <1>1, <2>5, ArchiveCommandCalm, ArchiveCommandQuiet, QuietInv
    <2>6. CASE CancelLock(c)
      BY <1>1, <2>6, CancelLockCalm, CancelQuiet, QuietInv
    <2>7. CASE CancelLookup(c)
      BY <1>1, <2>7, CancelLookupCalm, CancelQuiet, QuietInv
    <2>8. CASE CancelReplay(c)
      BY <1>1, <2>8, CancelReplayCalm, CancelQuiet, QuietInv
    <2>9. CASE CancelCheck(c)
      BY <1>1, <2>9, CancelCheckCalm, CancelQuiet, QuietInv
    <2> QED
      BY <1>4, <2>1, <2>2, <2>3, <2>4, <2>5, <2>6, <2>7, <2>8, <2>9,
         CreateOrderReplay, PublishCommandReplay DEF Step
  <1>5. ASSUME NEW c \in Callers, Abort(c) PROVE ReplayInv'
    BY <1>1, <1>5, AbortCalm, AbortQuiet, QuietInv
  <1>6. ASSUME NEW r \in orders, NEW s \in Status,
               NEW b \in {r.req.body, ReportedBody}, SyncOrder(r, s, b)
        PROVE  ReplayInv'
    BY <1>6, SyncOrderReplay
  <1>7. CASE NextDay \/ UNCHANGED vars
    BY <1>7, FrameReplay DEF NextDay, vars, db
  <1>8. ASSUME NEW c \in Callers, ResendCommand(c) PROVE ReplayInv'
    BY <1>8, ResendReplay
  <1> QED
    BY <1>2, <1>3, <1>4, <1>5, <1>6, <1>7, <1>8 DEF Next

(* The second inductive invariant: every step keeps what the rows without *)
(* a command and the replayed receipts rest on.                            *)
THEOREM ReplayInvHolds == Spec => []ReplayInv
  BY InitReplay, NextReplay, IndInvHolds, PTL DEF Spec

(* A row of CreateOrder whose command never reached cmd.trade is never     *)
(* hidden: its handler is still at work, or its client was told.           *)
THEOREM OrphansAreTold == Spec => []NoSilentOrphan
  <1>1. ReplayInv => NoSilentOrphan
    <2>1. \A c \in Callers : Owns(c) => pc[c] # "idle"
      BY DEF Owns, Retries, OwnerPC, PreflightPC
    <2> QED
      BY <2>1 DEF ReplayInv, Traced, InStream, RefusedIn, NoSilentOrphan
  <1> QED
    BY <1>1, ReplayInvHolds, PTL

(* replayedSubmitResult and replayedBatchSubmitResult answer only for the  *)
(* payload that went out, also when the archive was lost and the row has   *)
(* been rewritten since, provided that no client sends the very payload    *)
(* that a gateway report leaves in a row.                                  *)
THEOREM ReplaysAreOriginal == ClientPayloads => (Spec => []ReplayMatchesOriginal)
  <1>1. IndInv /\ ReplayInv /\ SubmitOncePerOrder => (ClientPayloads => ReplayMatchesOriginal)
    <2> SUFFICES ASSUME IndInv, ReplayInv, SubmitOncePerOrder, ClientPayloads,
                        NEW x \in receipts, x.outcome = "replayed",
                        NEW k \in DOMAIN x.call.orders, NEW i \in DOMAIN stream,
                        NEW a \in DOMAIN stream[i].call.orders,
                        x.call.orders[k].acct = stream[i].call.orders[a].acct,
                        x.call.orders[k].key = stream[i].call.orders[a].key
                 PROVE  x.call.orders[k] = stream[i].call.orders[a]
      BY DEF ReplayMatchesOriginal
    <2> DEFINE o == x.call.orders[k]
               p == stream[i].call.orders[a]
    <2>1. Settled(o)
      BY DEF ReplayInv, ReplaysSettled, AllSettled
    <2>2. ASSUME NEW j \in DOMAIN stream, NEW b \in DOMAIN stream[j].call.orders,
                 stream[j].call.orders[b] = o
          PROVE  o = p
      BY <2>2 DEF SubmitOncePerOrder, SameOrder
    <2>3. ASSUME NEW r \in orders, ~ InStream(r.origin), r.req = o
          PROVE  FALSE
      <3>1. PICK s \in orders : s.origin = stream[i].msg /\ Identity(s.req) = Identity(p)
        BY DEF IndInv, ReservedBeforePublished, ReservedIn
      <3>2. s.req.acct = p.acct /\ s.req.key = p.key
        BY <3>1 DEF Identity
      <3>3. r = s
        BY <2>3, <3>2 DEF IndInv, RowsUnique, SameOrder
      <3> QED
        BY <2>3, <3>1, <3>3 DEF InStream
    <2> QED
      BY <2>1, <2>2, <2>3 DEF Settled
  <1>2. CASE ClientPayloads
    <2>1. IndInv /\ ReplayInv /\ SubmitOncePerOrder => ReplayMatchesOriginal
      BY <1>1, <1>2
    <2> QED
      BY <2>1, ReplayInvHolds, IndInvHolds, PublishedOnce, PTL
  <1> QED
    BY <1>2

(***************************************************************************)
(* Cancels.  A handler past CancelLock holds the mutex of its process      *)
(* until it returns; when all handlers share one process, nobody else can  *)
(* archive a cancel between its look at the archive and its publication.   *)
(***************************************************************************)
SingleProcess == \A c, d \in Callers : ProcOf[c] = ProcOf[d]

Cancelling(c) ==
  \/ pc[c] \in {"cancel_lookup", "cancel_replay", "cancel_check"}
  \/ pc[c] \in {"publish", "archive"} /\ call[c].action = "order.cancel"

MutexHeld == \A c \in Callers : Cancelling(c) => cancelMu[ProcOf[c]] = c

(* The handler has seen that no cancel of its key is archived.             *)
Clear(c) ==
  \/ pc[c] = "cancel_check"
  \/ pc[c] \in {"publish", "archive"} /\ call[c].action = "order.cancel"

NoArchivedCancel(x) ==
  \A i \in DOMAIN archive :
    archive[i].call.action = "order.cancel" /\ archive[i].call.acct = x.acct => archive[i].call.key # x.key

ClearHolds == SingleProcess => \A c \in Callers : Clear(c) => NoArchivedCancel(call[c])

AcceptedArchived ==
  \A x \in receipts : x.outcome = "accepted" => \E i \in DOMAIN archive : archive[i].call = x.call

CancelInv == MutexHeld /\ ClearHolds /\ AcceptedArchived

(* A step of handler c leaves the mutexes of the others alone, archives at *)
(* most its own command, and answers "accepted" only for what is archived. *)
Orderly(c) ==
  /\ \A d \in Callers \ {c} : pc'[d] = pc[d] /\ call'[d] = call[d]
  /\ \A p \in Procs, d \in Callers \ {c} : cancelMu[p] = d => cancelMu'[p] = d
  /\ Cancelling(c)' => cancelMu'[ProcOf[c]] = c
  /\ \/ archive' = archive
     \/ /\ pc[c] = "archive" /\ archive' = Append(archive, CommandOf(c))
        /\ ~ Clear(c)'
  /\ SingleProcess /\ Clear(c)' => NoArchivedCancel(call'[c])
  /\ \A x \in receipts' \ receipts : x.outcome = "accepted" =>
       \E i \in DOMAIN archive' : archive'[i].call = x.call

LEMMA OrderlyInv ==
  ASSUME IndInv, CancelInv, NEW c \in Callers, Orderly(c)
  PROVE  CancelInv'
  <1>0. archive \in Seq(Command) /\ \A d \in Callers : ProcOf[d] \in Procs
    BY ProcessAssumption DEF IndInv, TypeOK
  <1>1. \A d \in Callers \ {c} : (Cancelling(d)' <=> Cancelling(d)) /\ (Clear(d)' <=> Clear(d))
    BY DEF Orderly, Cancelling, Clear
  <1>2. MutexHeld'
    BY <1>0, <1>1 DEF Orderly, CancelInv, MutexHeld
  <1>3. CASE archive' = archive
    <2>1. \A x : NoArchivedCancel(x) => NoArchivedCancel(x)'
      BY <1>3 DEF NoArchivedCancel
    <2>2. ASSUME SingleProcess, NEW d \in Callers, Clear(d)' PROVE NoArchivedCancel(call[d])'
      <3>1. NoArchivedCancel(call'[d])
        BY <1>1, <2>2 DEF Orderly, CancelInv, ClearHolds
      <3> QED
        BY <1>3, <3>1 DEF NoArchivedCancel
    <2>3. ClearHolds'
      BY <2>2 DEF ClearHolds
    <2>4. AcceptedArchived'
      BY <1>3 DEF Orderly, CancelInv, AcceptedArchived
    <2> QED
      BY <1>2, <2>3, <2>4 DEF CancelInv
  <1>4. CASE pc[c] = "archive" /\ archive' = Append(archive, CommandOf(c)) /\ ~ Clear(c)'
    <2>1. CommandOf(c) \in Command /\ CommandOf(c).call = call[c]
      BY <1>4 DEF IndInv, HandlerInv, HandlerOK, TypeOK, CommandOf, Command
    <2>2. \A i \in DOMAIN archive' : \/ i \in DOMAIN archive /\ archive'[i] = archive[i]
                                     \/ archive'[i] = CommandOf(c)
      BY <1>0, <1>4, <2>1
    <2>3. \A i \in DOMAIN archive : i \in DOMAIN archive' /\ archive'[i] = archive[i]
      BY <1>0, <1>4, <2>1
    <2>4. ASSUME SingleProcess, NEW d \in Callers, Clear(d)' PROVE NoArchivedCancel(call[d])'
      <3>1. d # c /\ Clear(d) /\ Cancelling(d) /\ call'[d] = call[d]
        BY <1>1, <1>4, <2>4 DEF Orderly, Clear, Cancelling
      <3>2. cancelMu[ProcOf[d]] = d
        BY <3>1 DEF CancelInv, MutexHeld
      <3>3. ~ Cancelling(c)
        BY <2>4, <3>1, <3>2 DEF CancelInv, MutexHeld, SingleProcess
      <3>4. call[c].action # "order.cancel"
        BY <1>4, <3>3 DEF Cancelling
      <3>5. NoArchivedCancel(call[d])
        BY <2>4, <3>1 DEF CancelInv, ClearHolds
      <3> QED
        BY <2>1, <2>2, <3>1, <3>4, <3>5 DEF NoArchivedCancel
    <2>5. ClearHolds'
      BY <2>4 DEF ClearHolds
    <2>6. AcceptedArchived'
      BY <2>3 DEF Orderly, CancelInv, AcceptedArchived
    <2> QED
      BY <1>2, <2>5, <2>6 DEF CancelInv
  <1> QED
    BY <1>3, <1>4 DEF Orderly

(* The deferred Unlock runs on every return.                               *)
LEMMA AnswerOrderly ==
  ASSUME IndInv, NEW c \in Callers, NEW outcome, outcome # "accepted", NEW m, NEW located,
         AnswerMsg(c, outcome, m, located), archive' = archive
  PROVE  Orderly(c)
  <1>1. LocalType
    BY TypeParts DEF IndInv
  <1>2. /\ pc'[c] = "idle" /\ \A d \in Callers \ {c} : pc'[d] = pc[d] /\ call'[d] = call[d]
        /\ receipts' = receipts \cup
             {[call |-> call[c], outcome |-> outcome, msg |-> m, located |-> located]}
    BY <1>1 DEF AnswerMsg, LocalType
  <1>3. \A p \in Procs, d \in Callers \ {c} : cancelMu[p] = d => cancelMu'[p] = d
    BY DEF AnswerMsg, Unlock
  <1>4. ~ Cancelling(c)' /\ ~ Clear(c)'
    BY <1>2 DEF Cancelling, Clear
  <1>5. \A x \in receipts' \ receipts : x.outcome # "accepted"
    BY <1>2
  <1> QED
    BY <1>2, <1>3, <1>4, <1>5 DEF Orderly

(* A step inside the handler.                                              *)
LEMMA GotoOrderly ==
  ASSUME IndInv, NEW c \in Callers, NEW l, pc' = [pc EXCEPT ![c] = l],
         \A d \in Callers \ {c} : call'[d] = call[d],
         UNCHANGED <<archive, cancelMu, receipts>>,
         Cancelling(c)' => cancelMu[ProcOf[c]] = c,
         SingleProcess /\ Clear(c)' => NoArchivedCancel(call'[c])
  PROVE  Orderly(c)
  <1>1. \A d \in Callers \ {c} : pc'[d] = pc[d]
    BY DEF IndInv, TypeOK
  <1> QED
    BY <1>1 DEF Orderly

LEMMA NextPreflightOrderly ==
  ASSUME IndInv, NEW c \in Callers, NEW n, NEW m, NextPreflight(c, n, m), archive' = archive
  PROVE  Orderly(c)
  <1>1. ASSUME NEW l \in {"gateway", "create", "receipt"}, Goto(c, l), call' = call
        PROVE  Orderly(c)
    <2>1. pc'[c] = l
      BY <1>1 DEF Goto, IndInv, TypeOK
    <2>2. ~ Cancelling(c)' /\ ~ Clear(c)'
      BY <2>1 DEF Cancelling, Clear
    <2> QED
      BY <1>1, <2>2, GotoOrderly DEF Goto
  <1> QED
    BY <1>1, AnswerOrderly DEF NextPreflight

LEMMA SubmitOrderly ==
  ASSUME IndInv, NEW c \in Callers,
         \/ LookupGateway(c) \/ LookupKey(c) \/ Compare(c) \/ ReplayReceipt(c)
         \/ CreateOrder(c) \/ Abort(c)
  PROVE  Orderly(c)
  <1>1. archive' = archive
    BY DEF LookupGateway, LookupKey, Compare, ReplayReceipt, CreateOrder, Abort, db
  <1>2. ASSUME NEW l \in {"gateway", "key", "compare", "create", "receipt"}, Goto(c, l), call' = call
        PROVE  Orderly(c)
    <2>1. pc'[c] = l
      BY <1>2 DEF Goto, IndInv, TypeOK
    <2>2. ~ Cancelling(c)' /\ ~ Clear(c)'
      BY <2>1 DEF Cancelling, Clear
    <2> QED
      BY <1>1, <1>2, <2>2, GotoOrderly DEF Goto
  <1>3. ASSUME NEW outcome, outcome # "accepted", Answer(c, outcome) PROVE Orderly(c)
    BY <1>1, <1>3, AnswerOrderly DEF Answer
  <1>4. CASE LookupGateway(c)
    BY <1>2, <1>3, <1>4 DEF LookupGateway
  <1>5. CASE LookupKey(c)
    BY <1>1, <1>2, <1>3, <1>5, NextPreflightOrderly DEF LookupKey, PreflightNew
  <1>6. CASE Compare(c)
    <2>1. CASE PreflightReplay(c)
      BY <1>1, <1>2, <1>3, <2>1, NextPreflightOrderly DEF PreflightReplay
    <2> QED
      BY <1>3, <1>6, <2>1 DEF Compare
  <1>7. CASE ReplayReceipt(c)
    BY <1>1, <1>7, AnswerOrderly DEF ReplayReceipt
  <1>8. CASE CreateOrder(c)
    <2>1. call[c].action # "order.cancel" /\ call' = call
      <3>1. pc[c] = "create" /\ call' = call
        BY <1>8 DEF CreateOrder
      <3>2. call[c] \in Call /\ child[c] \in DOMAIN call[c].orders
        BY <3>1 DEF IndInv, HandlerInv, HandlerOK, SubmitPC
      <3> QED
        BY <3>1, <3>2, CallFacts
    <2>2. CASE Goto(c, "publish")
      <3>1. pc'[c] = "publish"
        BY <2>2 DEF Goto, IndInv, TypeOK
      <3>2. ~ Cancelling(c)' /\ ~ Clear(c)'
        BY <2>1, <3>1 DEF Cancelling, Clear
      <3> QED
        BY <1>1, <2>1, <2>2, <3>2, GotoOrderly DEF Goto
    <2> QED
      BY <1>2, <1>8, <2>1, <2>2 DEF CreateOrder
  <1>9. CASE Abort(c)
    BY <1>3, <1>9 DEF Abort
  <1> QED
    BY <1>4, <1>5, <1>6, <1>7, <1>8, <1>9

LEMMA CancelOrderly ==
  ASSUME IndInv, CancelInv, NEW c \in Callers,
         CancelLock(c) \/ CancelLookup(c) \/ CancelReplay(c) \/ CancelCheck(c)
  PROVE  Orderly(c)
  <1>1. archive' = archive /\ LocalType /\ ProcOf[c] \in Procs
    BY ProcessAssumption, TypeParts DEF CancelLock, CancelLookup, CancelReplay, CancelCheck, db, IndInv
  <1>2. ASSUME NEW outcome, outcome # "accepted", NEW m, NEW located,
               AnswerMsg(c, outcome, m, located)
        PROVE  Orderly(c)
    BY <1>1, <1>2, AnswerOrderly
  <1>3. CASE CancelLock(c)
    <2>1. /\ pc'[c] = "cancel_lookup" /\ cancelMu'[ProcOf[c]] = c /\ UNCHANGED <<call, receipts>>
          /\ \A d \in Callers \ {c} : pc'[d] = pc[d]
      BY <1>1, <1>3 DEF CancelLock, LocalType
    <2>2. \A p \in Procs, d \in Callers \ {c} : cancelMu[p] = d => cancelMu'[p] = d
      BY <1>1, <1>3, ProcessAssumption DEF CancelLock, LocalType
    <2>3. ~ Clear(c)'
      BY <2>1 DEF Clear
    <2> QED
      BY <1>1, <2>1, <2>2, <2>3 DEF Orderly
  <1>4. CASE CancelLookup(c)
    <2>1. pc[c] = "cancel_lookup" /\ cancelMu[ProcOf[c]] = c
      BY <1>4 DEF CancelLookup, CancelInv, MutexHeld, Cancelling
    <2>2. ASSUME ArchivedByKey(call[c].acct, "order.cancel", call[c].key) = {},
                 Goto(c, "cancel_check"), call' = call
          PROVE  Orderly(c)
      <3>1. NoArchivedCancel(call'[c])
        BY <2>2 DEF ArchivedByKey, NoArchivedCancel
      <3> QED
        BY <1>1, <2>1, <2>2, <3>1, GotoOrderly DEF Goto
    <2>3. ASSUME Goto(c, "cancel_replay"), call' = call PROVE Orderly(c)
      <3>1. pc'[c] = "cancel_replay"
        BY <1>1, <2>3 DEF Goto, LocalType
      <3>2. ~ Clear(c)'
        BY <3>1 DEF Clear
      <3> QED
        BY <1>1, <2>1, <2>3, <3>2, GotoOrderly DEF Goto
    <2> QED
      BY <1>2, <1>4, <2>2, <2>3 DEF CancelLookup, Answer
  <1>5. CASE CancelReplay(c)
    BY <1>2, <1>5 DEF CancelReplay, Answer
  <1>6. CASE CancelCheck(c)
    <2>1. pc[c] = "cancel_check" /\ cancelMu[ProcOf[c]] = c
      BY <1>6 DEF CancelCheck, CancelInv, MutexHeld, Cancelling
    <2>2. ASSUME Goto(c, "publish"), call' = call PROVE Orderly(c)
      <3>1. SingleProcess => NoArchivedCancel(call'[c])
        BY <2>1, <2>2 DEF CancelInv, ClearHolds, Clear
      <3> QED
        BY <1>1, <2>1, <2>2, <3>1, GotoOrderly DEF Goto
    <2> QED
      BY <1>2, <1>6, <2>2 DEF CancelCheck, Answer
  <1> QED
    BY <1>3, <1>4, <1>5, <1>6

LEMMA PublishOrderly ==
  ASSUME IndInv, CancelInv, NEW c \in Callers, PublishCommand(c)
  PROVE  Orderly(c)
  <1>1. /\ pc[c] = "publish" /\ Goto(c, "archive") /\ call' = call /\ archive' = archive
    BY DEF PublishCommand, db
  <1>2. pc'[c] = "archive"
    BY <1>1 DEF Goto, IndInv, TypeOK
  <1>3. (Clear(c)' => Clear(c)) /\ (Cancelling(c)' => Cancelling(c))
    BY <1>1, <1>2 DEF Clear, Cancelling
  <1>4. SingleProcess /\ Clear(c)' => NoArchivedCancel(call'[c])
    BY <1>1, <1>3 DEF CancelInv, ClearHolds
  <1> QED
    BY <1>1, <1>3, <1>4, GotoOrderly DEF Goto, CancelInv, MutexHeld

LEMMA ArchiveOrderly ==
  ASSUME IndInv, NEW c \in Callers, ArchiveCommand(c)
  PROVE  Orderly(c)
  <1>1. /\ pc[c] = "archive" /\ archive' = Append(archive, CommandOf(c))
        /\ AnswerMsg(c, "accepted", msg[c], TRUE) /\ LocalType
    BY TypeParts DEF ArchiveCommand, IndInv
  <1>2. /\ pc'[c] = "idle" /\ \A d \in Callers \ {c} : pc'[d] = pc[d] /\ call'[d] = call[d]
        /\ \A p \in Procs, d \in Callers \ {c} : cancelMu[p] = d => cancelMu'[p] = d
    BY <1>1 DEF AnswerMsg, Unlock, LocalType
  <1>3. ~ Cancelling(c)' /\ ~ Clear(c)'
    BY <1>2 DEF Cancelling, Clear
  <1>4. \E i \in DOMAIN archive' : archive'[i].call = call[c]
    <2>1. archive \in Seq(Command) /\ CommandOf(c) \in Command /\ CommandOf(c).call = call[c]
      BY <1>1 DEF IndInv, HandlerInv, HandlerOK, TypeOK, CommandOf, Command
    <2>2. Len(archive) + 1 \in DOMAIN archive' /\ archive'[Len(archive) + 1] = CommandOf(c)
      BY <1>1, <2>1
    <2> QED
      BY <2>1, <2>2
  <1>5. \A x \in receipts' \ receipts : x.call = call[c]
    BY <1>1 DEF AnswerMsg
  <1> QED
    BY <1>1, <1>2, <1>3, <1>4, <1>5 DEF Orderly

LEMMA BeginOrderly ==
  ASSUME IndInv, NEW c \in Callers, NEW x, Begin(c, x)
  PROVE  Orderly(c)
  <1> DEFINE l == IF x.action = "order.cancel" THEN "lock" ELSE "gateway"
  <1>1. Goto(c, l) /\ archive' = archive /\ \A d \in Callers \ {c} : call'[d] = call[d]
    BY DEF Begin, db, IndInv, TypeOK
  <1>2. pc'[c] \in {"lock", "gateway"}
    BY <1>1 DEF Goto, IndInv, TypeOK
  <1>3. ~ Cancelling(c)' /\ ~ Clear(c)'
    BY <1>2 DEF Cancelling, Clear
  <1> QED
    BY <1>1, <1>3, GotoOrderly DEF Goto

LEMMA InitCancel == Init => CancelInv
  BY DEF Init, CancelInv, MutexHeld, ClearHolds, AcceptedArchived, Cancelling, Clear

LEMMA CancelFrame ==
  ASSUME CancelInv, UNCHANGED <<archive, cancelMu, locals>>,
         \A x \in receipts' \ receipts : x.outcome # "accepted"
  PROVE  CancelInv'
  <1>1. UNCHANGED <<archive, cancelMu, pc, call>>
    BY DEF locals
  <1>2. \A c \in Callers : (Cancelling(c)' <=> Cancelling(c)) /\ (Clear(c)' <=> Clear(c))
    BY <1>1 DEF Cancelling, Clear
  <1>3. ClearHolds'
    BY <1>1, <1>2 DEF CancelInv, ClearHolds, NoArchivedCancel
  <1> QED
    BY <1>1, <1>2, <1>3 DEF CancelInv, MutexHeld, AcceptedArchived

LEMMA NextCancel == IndInv /\ CancelInv /\ [Next]_vars => CancelInv'
  <1> SUFFICES ASSUME IndInv, CancelInv, [Next]_vars PROVE CancelInv'
    OBVIOUS
  <1>1. ASSUME NEW c \in Callers, NEW x \in NormalizedCalls, Begin(c, x) PROVE CancelInv'
    BY <1>1, BeginOrderly, OrderlyInv
  <1>2. ASSUME NEW c \in Callers, NEW x \in NormalizedCalls, Refuse(c, x) PROVE CancelInv'
    BY <1>2, CancelFrame DEF Refuse, db
  <1>3. ASSUME NEW c \in Callers, Step(c) \/ Abort(c) PROVE CancelInv'
    <2>1. Orderly(c)
      BY <1>3, SubmitOrderly, CancelOrderly, PublishOrderly, ArchiveOrderly DEF Step
    <2> QED
      BY <2>1, OrderlyInv
  <1>4. ASSUME NEW r \in orders, NEW s, NEW b, SyncOrder(r, s, b) PROVE CancelInv'
    BY <1>4, CancelFrame DEF SyncOrder
  <1>5. CASE NextDay \/ UNCHANGED vars
    BY <1>5, CancelFrame DEF NextDay, vars, db
  <1>6. ASSUME NEW c \in Callers, ResendCommand(c) PROVE CancelInv'
    BY <1>6, CancelFrame DEF ResendCommand, db
  <1> QED
    BY <1>1, <1>2, <1>3, <1>4, <1>5, <1>6 DEF Next

(* Handlers that look at the archive hold the mutex of their process.      *)
THEOREM CancelInvHolds == Spec => []CancelInv
  BY InitCancel, NextCancel, IndInvHolds, PTL DEF Spec

(* While all handlers run in one API process, the check of the archive and *)
(* the publication of CancelOrder are one critical section: a cancel that  *)
(* was answered accepted is never published again.                         *)
THEOREM AcceptedCancelIsFinal == SingleProcess => (Spec => CancelReceiptFinal)
  <1>1. ASSUME SingleProcess, IndInv, CancelInv, [Next]_vars, NEW x \in receipts,
               x.call.action = "order.cancel", x.outcome = "accepted"
        PROVE  CancelsWithKey(x.call.acct, x.call.key)' = CancelsWithKey(x.call.acct, x.call.key)
    <2> DEFINE mine(y) == y.action = "order.cancel" /\ y.acct = x.call.acct /\ y.key = x.call.key
    <2>1. CASE stream' = stream
      BY <2>1 DEF CancelsWithKey
    <2>2. ASSUME NEW c \in Callers, PublishCommand(c) \/ ResendCommand(c)
          PROVE  CancelsWithKey(x.call.acct, x.call.key)' = CancelsWithKey(x.call.acct, x.call.key)
      <3>1. /\ pc[c] \in {"publish", "archive"} /\ call[c] \in Call
            /\ stream' = Append(stream, CommandOf(c))
        BY <1>1, <2>2 DEF PublishCommand, ResendCommand, IndInv, HandlerInv, HandlerOK
      <3>2. ~ mine(call[c])
        <4>1. PICK i \in DOMAIN archive : archive[i].call = x.call
          BY <1>1 DEF CancelInv, AcceptedArchived
        <4>2. call[c].action = "order.cancel" => NoArchivedCancel(call[c])
          BY <1>1, <3>1 DEF CancelInv, ClearHolds, Clear
        <4> QED
          BY <1>1, <4>1, <4>2 DEF NoArchivedCancel
      <3>3. stream \in Seq(Command) /\ CommandOf(c) \in Command /\ CommandOf(c).call = call[c]
        BY <1>1, <3>1 DEF IndInv, TypeOK, CommandOf, Command
      <3>4. /\ DOMAIN stream' = DOMAIN stream \cup {Len(stream) + 1}
            /\ \A i \in DOMAIN stream : stream'[i] = stream[i]
            /\ stream'[Len(stream) + 1].call = call[c]
            /\ Len(stream) + 1 \notin DOMAIN stream
        BY <3>1, <3>3, SMTT(30)
      <3> QED
        BY <3>2, <3>4 DEF CancelsWithKey
    <2>3. stream' = stream \/ \E c \in Callers : PublishCommand(c) \/ ResendCommand(c)
      BY <1>1 DEF Next, Step, Begin, Refuse, Abort, LookupGateway, LookupKey, Compare, ReplayReceipt,
                  CreateOrder, ArchiveCommand, CancelLock, CancelLookup, CancelReplay, CancelCheck,
                  SyncOrder, NextDay, vars, db
    <2> QED
      BY <2>1, <2>2, <2>3
  <1>2. CASE SingleProcess
    <2>1. IndInv /\ CancelInv /\ [Next]_vars =>
            [\A x \in receipts :
               x.call.action = "order.cancel" /\ x.outcome = "accepted" =>
                 CancelsWithKey(x.call.acct, x.call.key)'
                   = CancelsWithKey(x.call.acct, x.call.key)]_vars
      BY <1>1, <1>2
    <2> QED
      BY <2>1, IndInvHolds, CancelInvHolds, PTL DEF Spec, CancelReceiptFinal
  <1> QED
    BY <1>2
================================================================================
