------------------------------ MODULE EventStream ------------------------------
(***************************************************************************)
(* How a client learns that the ledger changed.  The worker commits        *)
(* changes and sends PostgreSQL notifications (internal/worker), the API   *)
(* listens for them (events/postgres.go), its Hub numbers them, keeps the  *)
(* last few for replay and hands them to subscribers (events/hub.go), the  *)
(* SSE handler writes them out (api/server.go), and the Python SDK resumes *)
(* by cursor and reconciles after a gap (stream_events_resilient).         *)
(* Notifications, connections and processes fail at any point; nothing     *)
(* here is durable, so every loss has to be announced by a relay.gap.      *)
(***************************************************************************)
EXTENDS Integers, Sequences

CONSTANTS
  Clients,
  Accounts,
  AccountOf,       \* the account a client subscribes to
  ReplayCapacity,  \* Hub.replayCapacity (2048)
  Buffer,          \* size of a subscriber's channel (64)
  StartCursors,    \* last_event_id values an application may start with
  NoCursor,        \* the empty cursor
  Garbage,         \* a string parseCursor rejects
  Changes,         \* the ledger changes to come: the accounts each concerns
  MaxEpoch,        \* bound: API processes in a behaviour
  MaxDrops,        \* bound: losses of the LISTEN connection in a behaviour
  MaxReconnects    \* the client's reconnect budget

Cursor == [epoch: Nat, seq: Nat]
AnyCursor == Cursor \cup {NoCursor, Garbage}

(* An event, or a message of the SSE stream.  n is the ledger change a     *)
(* "change" is about; must is reconciliation_required; an empty set of     *)
(* accounts addresses everyone.                                            *)
Event == [kind: {"connected", "change", "gap"}, id: AnyCursor,
          accts: SUBSET Accounts, n: Nat, must: BOOLEAN]

ASSUME StreamAssumption ==
  /\ AccountOf \in [Clients -> Accounts]
  /\ ReplayCapacity \in Nat /\ Buffer \in Nat \ {0}
  /\ NoCursor \notin Cursor /\ Garbage \notin Cursor /\ NoCursor # Garbage
  /\ StartCursors \subseteq {NoCursor, Garbage} \cup [epoch: {0}, seq: Nat]
  /\ Changes \in Seq(SUBSET Accounts \ {{}})
  /\ MaxEpoch \in Nat /\ MaxDrops \in Nat /\ MaxReconnects \in Nat

VARIABLES
  committed,     \* the accounts of each ledger change, in commit order
  unsent,        \* changes whose notification the worker still has to send
  wire,          \* notifications on the LISTEN connection
  link,          \* the listener: "down", "listening" (LISTEN done), "up"
  connectedOnce, \* PostgresListener.connectedOnce
  epoch,         \* Hub.epoch: one per API process
  nextEventID,   \* Hub.nextEventID
  history,       \* Hub.history
  on,            \* whether a client's SSE request is being served
  out,           \* what its handler writes before it reads the channel
  ch,            \* the subscriber's channel
  cursor,        \* the SDK's cursor
  connections,   \* the SDK's connection_number
  reconciled,    \* the SDK's reconciled_this_connection
  snapshot,      \* number of changes in the last ledger read (history)
  told,          \* changes the client was told of (history)
  start,         \* nextEventID when the client subscribed (history)
  log,           \* every event of this epoch (history)
  failed,        \* changes whose notification failed (history)
  unheard,       \* changes sent before the first LISTEN of a process (history)
  drops          \* losses of the LISTEN connection so far (bound)

worker == <<committed, unsent>>
bridge == <<wire, link, connectedOnce, drops>>
hub == <<epoch, nextEventID, history, log>>
client == <<cursor, connections, reconciled, snapshot, told>>
losses == <<failed, unheard>>
vars == <<worker, bridge, hub, on, out, ch, client, start, losses>>

(***************************************************************************)
(* The worker: a change is committed, then its notification is sent.       *)
(***************************************************************************)
Commit ==
  /\ Len(committed) < Len(Changes)
  /\ committed' = SubSeq(Changes, 1, Len(committed) + 1)
  /\ unsent' = Append(unsent, Len(committed) + 1)
  /\ UNCHANGED <<bridge, hub, on, out, ch, client, start, losses>>

(* pg_notify reaches only a session that has executed LISTEN.              *)
Notify ==
  /\ unsent # <<>>
  /\ unsent' = Tail(unsent)
  /\ wire' = IF link = "down" THEN wire ELSE Append(wire, Head(unsent))
  /\ unheard' = IF link = "down" /\ ~connectedOnce THEN unheard \cup {Head(unsent)}
                ELSE unheard
  /\ UNCHANGED <<committed, link, connectedOnce, drops, hub, on, out, ch, client,
                 start, failed>>

(* The notification times out, is too long, or the worker dies before it.  *)
NotifyFails ==
  /\ unsent # <<>>
  /\ unsent' = Tail(unsent)
  /\ failed' = failed \cup {Head(unsent)}
  /\ UNCHANGED <<committed, bridge, hub, on, out, ch, client, start, unheard>>

(***************************************************************************)
(* The Hub.                                                                *)
(***************************************************************************)
SubscriberMatches(c, e) == e.accts = {} \/ AccountOf[c] \in e.accts

Here(seq) == [epoch |-> epoch, seq |-> seq]   \* cursorLocked

AppendHistory(h, e) ==
  IF ReplayCapacity = 0 THEN h
  ELSE IF Len(h) = ReplayCapacity THEN Append(Tail(h), e)
  ELSE Append(h, e)

Gap(id, A) == [kind |-> "gap", id |-> id, accts |-> A, n |-> 0, must |-> TRUE]

(* A full channel is drained and gets a gap instead of the event.          *)
MutSend(c, e) ==      \* mutant: the event is dropped when the channel is full
  IF Len(ch[c]) < Buffer THEN Append(ch[c], e) ELSE ch[c]
Send(c, e) ==
  IF Len(ch[c]) < Buffer THEN Append(ch[c], e) ELSE <<Gap(e.id, {AccountOf[c]})>>

Publish(kind, A, n) ==
  LET e == [kind |-> kind, id |-> Here(nextEventID + 1), accts |-> A, n |-> n,
            must |-> kind = "gap"]
  IN  /\ nextEventID' = nextEventID + 1
      /\ history' = AppendHistory(history, e)
      /\ log' = Append(log, e)
      /\ ch' = [c \in Clients |-> IF on[c] /\ SubscriberMatches(c, e) THEN Send(c, e)
                                  ELSE ch[c]]
      /\ UNCHANGED epoch

(* resumeLocked: what a connection that asks for cursor q starts with.     *)
EarliestSequence ==
  IF history = <<>> THEN nextEventID + 1 ELSE history[1].id.seq
Expired(q) == q.seq + 1 < EarliestSequence
ResumeStatus(q) ==
  IF q = NoCursor THEN "fresh"
  ELSE IF q = Garbage THEN "gap"
  ELSE IF q.epoch # epoch \/ q.seq > nextEventID \/ Expired(q) THEN "gap"
  ELSE "resumed"

(* The members of h at the positions in S, in their order: a loop that     *)
(* appends.                                                                *)
Selected(h, S) ==
  LET kept[i \in 0 .. Len(h)] ==
        IF i = 0 THEN <<>>
        ELSE IF i \in S THEN Append(kept[i - 1], h[i]) ELSE kept[i - 1]
  IN  kept[Len(h)]
Wanted(c, q) ==
  {i \in DOMAIN history : history[i].id.seq > q.seq /\ SubscriberMatches(c, history[i])}
MutReplayed(c, q) ==   \* mutant: replays the newest event first
  LET s == Selected(history, Wanted(c, q)) IN [i \in DOMAIN s |-> s[Len(s) + 1 - i]]
Replayed(c, q) == Selected(history, Wanted(c, q))

(* What the handler writes first: relay.connected, then a gap, the         *)
(* replayed events, or nothing.                                            *)
Connected(c, q) == [kind |-> "connected", id |-> NoCursor, accts |-> {AccountOf[c]},
                    n |-> 0, must |-> q # NoCursor]
Prelude(c, q) ==
  <<Connected(c, q)>> \o
    (CASE ResumeStatus(q) = "fresh" -> <<>>
       [] ResumeStatus(q) = "gap" -> <<Gap(Here(nextEventID), {AccountOf[c]})>>
       [] ResumeStatus(q) = "resumed" -> Replayed(c, q))

(***************************************************************************)
(* The bridge.                                                             *)
(***************************************************************************)
Listen ==
  /\ link = "down"
  /\ link' = "listening"
  /\ UNCHANGED <<worker, wire, connectedOnce, drops, hub, on, out, ch, client, start,
                 losses>>

(* markConnected; a reconnected listener publishes a gap for everyone.     *)
MutAnnounce ==        \* mutant: no gap after a reconnect
  /\ link = "listening"
  /\ link' = "up" /\ connectedOnce' = TRUE
  /\ UNCHANGED <<worker, wire, drops, hub, on, out, ch, client, start, losses>>
Announce ==
  /\ link = "listening"
  /\ link' = "up" /\ connectedOnce' = TRUE
  /\ \/ connectedOnce /\ Publish("gap", {}, 0)
     \/ ~connectedOnce /\ UNCHANGED <<hub, ch>>
  /\ UNCHANGED <<worker, wire, drops, on, out, client, start, losses>>

Dispatch ==
  /\ link = "up" /\ wire # <<>>
  /\ wire' = Tail(wire)
  /\ Publish("change", committed[Head(wire)], Head(wire))
  /\ UNCHANGED <<worker, link, connectedOnce, drops, on, out, client, start, losses>>

(* decodePostgresEvent rejects the payload of another schema version.      *)
Undecodable ==
  /\ link = "up" /\ wire # <<>>
  /\ wire' = Tail(wire)
  /\ failed' = failed \cup {Head(wire)}
  /\ UNCHANGED <<worker, link, connectedOnce, drops, hub, on, out, ch, client, start,
                 unheard>>

(* The session ends: what is on the wire is lost.  A listener that had not *)
(* announced itself yet does not count as connected.                       *)
LinkDrop ==
  /\ link # "down" /\ drops < MaxDrops
  /\ link' = "down" /\ wire' = <<>>
  /\ drops' = drops + 1
  /\ unheard' = IF connectedOnce THEN unheard
                ELSE unheard \cup {wire[i] : i \in DOMAIN wire}
  /\ UNCHANGED <<worker, connectedOnce, hub, on, out, ch, client, start, failed>>

(***************************************************************************)
(* Clients.                                                                *)
(***************************************************************************)
SubscribeFrom(c) ==
  /\ ~on[c] /\ connections[c] <= MaxReconnects
  /\ on' = [on EXCEPT ![c] = TRUE]
  /\ out' = [out EXCEPT ![c] = Prelude(c, cursor[c])]
  /\ ch' = [ch EXCEPT ![c] = <<>>]
  /\ connections' = [connections EXCEPT ![c] = @ + 1]
  /\ reconciled' = [reconciled EXCEPT ![c] = FALSE]
  /\ start' = [start EXCEPT ![c] = nextEventID]
  /\ UNCHANGED <<worker, bridge, hub, cursor, snapshot, told, losses>>

(* The connection breaks, idles out, or a ledger read of the client fails. *)
Disconnect(c) ==
  /\ on[c]
  /\ on' = [on EXCEPT ![c] = FALSE]
  /\ out' = [out EXCEPT ![c] = <<>>]
  /\ ch' = [ch EXCEPT ![c] = <<>>]
  /\ UNCHANGED <<worker, bridge, hub, client, start, losses>>

(* _event_cursor_relation.                                                 *)
Relation(p, q) ==
  IF p \notin Cursor \/ q \notin Cursor THEN "forward"
  ELSE IF p = q THEN "duplicate"
  ELSE IF p.epoch # q.epoch THEN "epoch_changed"
  ELSE IF q.seq < p.seq THEN "out_of_order"
  ELSE "forward"

(* The loop body of stream_events_resilient.  A reconciliation happens at  *)
(* most once per connection.  An application that starts without a cursor  *)
(* reads the ledger itself once it is connected.                           *)
Process(c, e) ==
  LET all == 1 .. Len(committed)
      rel == Relation(cursor[c], e.id)
      demanded == \/ e.must \/ connections[c] > 1
                  \/ rel \in {"out_of_order", "epoch_changed"}
      reads == demanded /\ ~reconciled[c]
      first == e.kind = "connected" /\ connections[c] = 1
      yields == rel \notin {"duplicate", "out_of_order"}
  IN  /\ reconciled' = [reconciled EXCEPT ![c] = @ \/ reads]
      /\ snapshot' = [snapshot EXCEPT ![c] = IF reads \/ first THEN Len(committed)
                                             ELSE @]
      /\ cursor' = [cursor EXCEPT ![c] =
                      IF yields /\ e.id # NoCursor THEN e.id ELSE @]
      /\ told' = [told EXCEPT ![c] =
                    IF reads \/ first \/ (yields /\ e.must) THEN all
                    ELSE IF yields /\ e.kind = "change" THEN @ \cup {e.n}
                    ELSE @]
      /\ UNCHANGED connections

ReceivePrelude(c) ==
  /\ on[c] /\ out[c] # <<>>
  /\ Process(c, Head(out[c]))
  /\ out' = [out EXCEPT ![c] = Tail(@)]
  /\ UNCHANGED <<worker, bridge, hub, on, ch, start, losses>>

ReceiveEvent(c) ==
  /\ on[c] /\ out[c] = <<>> /\ ch[c] # <<>>
  /\ Process(c, Head(ch[c]))
  /\ ch' = [ch EXCEPT ![c] = Tail(@)]
  /\ UNCHANGED <<worker, bridge, hub, on, out, start, losses>>

(* The API process is replaced: a new Hub, a new listener, no connections. *)
ApiRestart ==
  /\ epoch < MaxEpoch
  /\ epoch' = epoch + 1
  /\ nextEventID' = 0 /\ history' = <<>> /\ log' = <<>>
  /\ link' = "down" /\ wire' = <<>> /\ connectedOnce' = FALSE
  /\ on' = [c \in Clients |-> FALSE]
  /\ out' = [c \in Clients |-> <<>>]
  /\ ch' = [c \in Clients |-> <<>>]
  /\ UNCHANGED <<worker, drops, client, start, losses>>

Init ==
  /\ committed = <<>> /\ unsent = <<>>
  /\ wire = <<>> /\ link = "down" /\ connectedOnce = FALSE /\ drops = 0
  /\ epoch = 1 /\ nextEventID = 0 /\ history = <<>> /\ log = <<>>
  /\ on = [c \in Clients |-> FALSE]
  /\ out = [c \in Clients |-> <<>>] /\ ch = [c \in Clients |-> <<>>]
  /\ cursor \in [Clients -> StartCursors]
  /\ connections = [c \in Clients |-> 0]
  /\ reconciled = [c \in Clients |-> FALSE]
  /\ snapshot = [c \in Clients |-> 0] /\ told = [c \in Clients |-> {}]
  /\ start = [c \in Clients |-> 0]
  /\ failed = {} /\ unheard = {}

Next ==
  \/ Commit
  \/ Notify \/ NotifyFails
  \/ Listen \/ Announce \/ Dispatch \/ Undecodable \/ LinkDrop
  \/ ApiRestart
  \/ \E c \in Clients : \/ SubscribeFrom(c) \/ Disconnect(c)
                        \/ ReceivePrelude(c) \/ ReceiveEvent(c)

Spec == Init /\ [][Next]_vars

(* The worker's callback, the listener's retry loop and the client's read  *)
(* loop keep running.                                                      *)
Fairness ==
  /\ WF_vars(Notify) /\ WF_vars(Listen) /\ WF_vars(Announce) /\ WF_vars(Dispatch)
  /\ \A c \in Clients : /\ WF_vars(SubscribeFrom(c)) /\ WF_vars(ReceivePrelude(c))
                        /\ WF_vars(ReceiveEvent(c))
FairSpec == Spec /\ Fairness

(***************************************************************************)
(* Properties.                                                             *)
(***************************************************************************)
(* Every variable keeps the shape of the field it models; the channel and  *)
(* the replay window stay within their capacities.                         *)
TypeOK ==
  /\ committed = SubSeq(Changes, 1, Len(committed))
  /\ unsent \in Seq(Nat) /\ wire \in Seq(Nat)
  /\ link \in {"down", "listening", "up"} /\ connectedOnce \in BOOLEAN
  /\ epoch \in Nat /\ nextEventID \in Nat /\ drops \in Nat
  /\ history \in Seq(Event) /\ Len(history) <= ReplayCapacity
  /\ log \in Seq(Event) /\ Len(log) = nextEventID
  /\ on \in [Clients -> BOOLEAN] /\ out \in [Clients -> Seq(Event)]
  /\ ch \in [Clients -> Seq(Event)] /\ \A c \in Clients : Len(ch[c]) <= Buffer
  /\ cursor \in [Clients -> AnyCursor] /\ connections \in [Clients -> Nat]
  /\ reconciled \in [Clients -> BOOLEAN] /\ snapshot \in [Clients -> Nat]
  /\ told \in [Clients -> SUBSET Nat] /\ start \in [Clients -> Nat]
  /\ failed \subseteq Nat /\ unheard \subseteq Nat

Queued(c) == {out[c][i] : i \in DOMAIN out[c]} \cup {ch[c][i] : i \in DOMAIN ch[c]}

(* The place of the client in the numbering of this API process.           *)
Position(c) == IF cursor[c] \in Cursor /\ cursor[c].epoch = epoch THEN cursor[c].seq
               ELSE start[c]

(* No event of the Hub is skipped silently: whatever a connected client    *)
(* has not passed yet and its filter lets through is queued for it, in the *)
(* replay or in the channel, or a gap that covers it is.  So resuming,     *)
(* draining a full channel and dropping old history agree with each other, *)
(* within the capacities of channel and window (TypeOK).                   *)
NothingSkipped ==
  /\ TypeOK
  /\ \A c \in Clients : on[c] =>
       \A i \in DOMAIN log : i > Position(c) /\ SubscriberMatches(c, log[i]) =>
         \E e \in Queued(c) : \/ e.id = log[i].id /\ e.kind = log[i].kind
                              \/ e.kind = "gap" /\ e.id = Here(e.id.seq) /\ e.id.seq >= i

(* Events reach a connected client in the order in which the Hub numbered  *)
(* them, replay before live events, none of them twice.                    *)
QueuedInOrder ==
  \A c \in Clients :
    LET q == out[c] \o ch[c]
    IN  \A i, j \in DOMAIN q :
          i < j /\ q[i].id \in Cursor /\ q[j].id \in Cursor => q[i].id.seq < q[j].id.seq

(* The client has raised RelayStreamDisconnectedError: its last connection *)
(* broke as well.                                                          *)
GivenUp(c) == connections[c] > MaxReconnects /\ ~on[c]

(* A client is eventually told of every change of its account, by an event *)
(* or by a gap after it, or it tells the application that it has given up: *)
(* LISTEN sessions, API processes and connections that were lost in        *)
(* between do not leave it believing in old data, on no connection up to   *)
(* the last of its budget.  Not covered are the notifications that failed, *)
(* and those sent before the first LISTEN of an API process, which nothing *)
(* announces.                                                              *)
EventuallyTold ==
  \A c \in Clients, n \in 1 .. Len(Changes) :
    (n <= Len(committed) /\ AccountOf[c] \in committed[n])
      ~> (n \in told[c] \cup failed \cup unheard \/ GivenUp(c))
================================================================================
