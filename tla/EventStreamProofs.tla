------------------------- MODULE EventStreamProofs -------------------------
(***************************************************************************)
(* The Hub skips nothing and keeps the order, for any number of clients,   *)
(* accounts, changes, processes and losses, and any capacity of the        *)
(* channels and of the replay window.                                      *)
(***************************************************************************)
EXTENDS EventStream, FiniteSetTheorems, SequenceTheorems, WellFoundedInduction, TLAPS

(* Notifications are about committed changes.                              *)
WireInv ==
  /\ Len(committed) \in 0 .. Len(Changes)
  /\ \A i \in DOMAIN unsent : unsent[i] \in 1 .. Len(committed)
  /\ \A i \in DOMAIN wire : wire[i] \in 1 .. Len(committed)

(* The replay window is the end of the numbered log.                       *)
LogInv ==
  /\ \A i \in DOMAIN log : log[i].id = Here(i)
  /\ Len(history) <= Len(log)
  /\ \A k \in DOMAIN history : history[k] = log[Len(log) - Len(history) + k]

(* What is queued is of this process.  A client whose cursor is not of     *)
(* this process was not replayed to: its queue begins at its subscription. *)
Current(q) == q \in Cursor /\ q.epoch = epoch
Fits(c, e) ==
  \/ e.id = NoCursor /\ e.kind = "connected"
  \/ /\ e.id \in Cursor /\ e.id.epoch = epoch /\ e.id.seq <= nextEventID
     /\ Current(cursor[c]) \/ e.id.seq >= start[c]
QueueInv ==
  \A c \in Clients :
    /\ ~ on[c] => out[c] = <<>> /\ ch[c] = <<>>
    /\ on[c] => start[c] <= nextEventID
    /\ \A i \in DOMAIN out[c] : Fits(c, out[c][i])
    /\ \A i \in DOMAIN ch[c] : Fits(c, ch[c][i])

(* An event a client still needs is in its queue, or a gap that covers it. *)
Covers(e, i) ==
  \/ e.id = log[i].id /\ e.kind = log[i].kind
  \/ e.kind = "gap" /\ e.id = Here(e.id.seq) /\ e.id.seq >= i
CoverInv ==
  \A c \in Clients : on[c] =>
    \A i \in DOMAIN log : i > Position(c) /\ SubscriberMatches(c, log[i]) =>
      \E e \in Queued(c) : Covers(e, i)

(* The order within the prelude, within the channel and between them.      *)
Before(d, e) == d.id \in Cursor /\ e.id \in Cursor => d.id.seq < e.id.seq
Ascending(s) == \A i, j \in DOMAIN s : i < j => Before(s[i], s[j])
OrderInv ==
  \A c \in Clients :
    /\ Ascending(out[c]) /\ Ascending(ch[c])
    /\ \A i \in DOMAIN out[c], j \in DOMAIN ch[c] : Before(out[c][i], ch[c][j])

IndInv == TypeOK /\ WireInv /\ LogInv /\ QueueInv /\ CoverInv /\ OrderInv

-----------------------------------------------------------------------------
(* Lemma: a set of numbers has a least one; with it, induction over the    *)
(* numbers is a proof that a set of counterexamples is empty.              *)
LEMMA LeastNumber ==
  ASSUME NEW T \in SUBSET Nat, T # {}
  PROVE  \E m \in T : \A k \in T : m <= k
<1>1. PICK n \in T : TRUE
  OBVIOUS
<1> DEFINE S == 0 .. n
           D == {0 .. k : k \in {j \in T : j <= n}}
<1>2. IsWellFoundedOn(StrictSubsetOrdering(S), FiniteSubsetsOf(S))
  BY FS_StrictSubsetOrderingWellFounded
<1>3. D \subseteq FiniteSubsetsOf(S) /\ D # {}
  <2>1. ASSUME NEW k \in T, k <= n PROVE 0 .. k \in FiniteSubsetsOf(S)
    <3>1. 0 .. k \in SUBSET S
      BY <2>1
    <3>2. IsFiniteSet(0 .. k)
      BY FS_Interval
    <3>3. QED BY <3>1, <3>2 DEF FiniteSubsetsOf
  <2>2. QED BY <2>1
<1>4. PICK x \in D : \A y \in D : ~ (<<y, x>> \in StrictSubsetOrdering(S))
  <2> HIDE DEF D, S
  <2> QED BY <1>2, <1>3, WFMin
<1>5. PICK m \in T : m <= n /\ x = 0 .. m
  BY <1>4
<1>6. ASSUME NEW k \in T, k < m PROVE FALSE
  <2>1. 0 .. k \in D
    BY <1>5, <1>6
  <2>2. 0 .. k \in SUBSET S /\ 0 .. m \in SUBSET S /\ 0 .. k \subseteq 0 .. m /\ 0 .. k # 0 .. m
    BY <1>5, <1>6
  <2>3. <<0 .. k, 0 .. m>> \in StrictSubsetOrdering(S)
    BY <2>2 DEF StrictSubsetOrdering
  <2>4. QED BY <1>4, <1>5, <2>1, <2>3
<1>7. QED BY <1>5, <1>6

(* The values that the loop of Selected goes through in n rounds.          *)
Loop(h, S, f, n) ==
  f = [i \in 0 .. n |-> IF i = 0 THEN <<>>
                        ELSE IF i \in S THEN Append(f[i - 1], h[i]) ELSE f[i - 1]]

(* Lemma: the loop of Selected can be carried out, by induction.           *)
LEMMA LoopExists ==
  ASSUME NEW h, NEW S, NEW n \in Nat
  PROVE  \E f : Loop(h, S, f, n)
<1> DEFINE T == {m \in Nat : ~ \E f : Loop(h, S, f, m)}
<1>1. SUFFICES ASSUME T # {} PROVE FALSE
  OBVIOUS
<1>2. PICK m \in T : \A k \in T : m <= k
  <2> HIDE DEF T
  <2>1. T \in SUBSET Nat
    BY DEF T
  <2> QED BY <1>1, <2>1, LeastNumber
<1>3. m # 0
  <2> SUFFICES ASSUME m = 0 PROVE FALSE
    OBVIOUS
  <2>1. Loop(h, S, [i \in 0 .. 0 |-> <<>>], 0)
    BY DEF Loop
  <2>2. QED BY <1>2, <2>1
<1>4. m - 1 \in Nat /\ m - 1 \notin T
  BY <1>2, <1>3
<1>5. PICK f : Loop(h, S, f, m - 1)
  BY <1>4
<1> DEFINE g == [i \in 0 .. m |->
                   IF i = m THEN (IF m \in S THEN Append(f[m - 1], h[m]) ELSE f[m - 1]) ELSE f[i]]
<1>6. ASSUME NEW i \in 0 .. m
      PROVE  g[i] = IF i = 0 THEN <<>> ELSE IF i \in S THEN Append(g[i - 1], h[i]) ELSE g[i - 1]
  <2>1. m - 1 \in 0 .. m /\ g[m - 1] = f[m - 1]
    BY <1>2, <1>4
  <2>2. CASE i = m
    BY <2>1, <2>2, <1>2, <1>3
  <2>3. CASE i # m
    <3>1. i \in 0 .. m - 1 /\ g[i] = f[i]
      BY <2>3, <1>2
    <3>2. i # 0 => g[i - 1] = f[i - 1]
      BY <3>1, <1>2
    <3>3. f[i] = IF i = 0 THEN <<>> ELSE IF i \in S THEN Append(f[i - 1], h[i]) ELSE f[i - 1]
      BY <1>4, <1>5, <3>1 DEF Loop
    <3>4. QED BY <3>1, <3>2, <3>3
  <2>4. QED BY <2>2, <2>3
<1>7. Loop(h, S, g, m)
  <2>1. g = [i \in 0 .. m |-> g[i]]
    OBVIOUS
  <2> HIDE DEF g
  <2>2. QED BY <2>1, <1>6 DEF Loop
<1>8. QED BY <1>2, <1>7

(* r lists the members of the first n of h at the positions in S in order: *)
(* pos says where each one comes from.                                     *)
Lists(r, pos, h, S, n) ==
  /\ pos \in Seq(Nat) /\ Len(pos) = Len(r)
  /\ \A k \in 1 .. Len(r) : pos[k] \in 1 .. n /\ pos[k] \in S /\ r[k] = h[pos[k]]
  /\ \A k, l \in 1 .. Len(r) : k < l => pos[k] < pos[l]
  /\ \A i \in 1 .. n : i \in S => \E k \in 1 .. Len(r) : pos[k] = i

(* Lemma: one more round of the loop.                                      *)
LEMMA ListsOneMore ==
  ASSUME NEW E, NEW h \in Seq(E), NEW S, NEW r \in Seq(E), NEW pos, NEW n \in Nat,
         n + 1 \in 1 .. Len(h), Lists(r, pos, h, S, n)
  PROVE  /\ n + 1 \in S => Lists(Append(r, h[n + 1]), Append(pos, n + 1), h, S, n + 1)
         /\ n + 1 \notin S => Lists(r, pos, h, S, n + 1)
<1>1. Len(r) \in Nat /\ pos \in Seq(Nat) /\ Len(pos) = Len(r) /\ h[n + 1] \in E
  BY DEF Lists
<1>2. CASE n + 1 \in S
  <2>1. PICK q : q = Append(r, h[n + 1])
    OBVIOUS
  <2>2. PICK p : p = Append(pos, n + 1)
    OBVIOUS
  <2>3. /\ Len(q) = Len(r) + 1
        /\ \A k \in 1 .. Len(r) : q[k] = r[k]
        /\ q[Len(r) + 1] = h[n + 1]
    BY <2>1, <1>1, AppendProperties
  <2>4. /\ p \in Seq(Nat) /\ Len(p) = Len(r) + 1
        /\ \A k \in 1 .. Len(r) : p[k] = pos[k]
        /\ p[Len(r) + 1] = n + 1
    BY <2>2, <1>1, AppendProperties
  <2>5. ASSUME NEW k \in 1 .. Len(r) + 1
        PROVE  p[k] \in 1 .. n + 1 /\ p[k] \in S /\ q[k] = h[p[k]]
    <3>1. CASE k = Len(r) + 1
      BY <3>1, <2>3, <2>4, <1>2
    <3>2. CASE k \in 1 .. Len(r)
      <4>1. pos[k] \in 1 .. n /\ pos[k] \in S /\ r[k] = h[pos[k]]
        BY <3>2 DEF Lists
      <4>2. QED BY <4>1, <3>2, <2>3, <2>4
    <3>3. QED BY <3>1, <3>2, <1>1
  <2>6. ASSUME NEW k \in 1 .. Len(r) + 1, NEW l \in 1 .. Len(r) + 1, k < l
        PROVE  p[k] < p[l]
    <3>1. k \in 1 .. Len(r) /\ p[k] = pos[k] /\ pos[k] \in 1 .. n
      BY <2>6, <2>4, <1>1 DEF Lists
    <3>2. CASE l = Len(r) + 1
      BY <3>1, <3>2, <2>4
    <3>3. CASE l \in 1 .. Len(r)
      <4>1. pos[k] < pos[l]
        BY <3>1, <3>3, <2>6 DEF Lists
      <4>2. QED BY <4>1, <3>1, <3>3, <2>4
    <3>4. QED BY <3>2, <3>3, <1>1
  <2>7. ASSUME NEW i \in 1 .. n + 1, i \in S
        PROVE  \E k \in 1 .. Len(r) + 1 : p[k] = i
    <3>1. CASE i = n + 1
      BY <3>1, <2>4, <1>1
    <3>2. CASE i # n + 1
      <4>1. PICK k \in 1 .. Len(r) : pos[k] = i
        BY <3>2, <2>7 DEF Lists
      <4>2. k \in 1 .. Len(r) + 1 /\ p[k] = i
        BY <4>1, <2>4, <1>1, SMTT(30)
      <4>3. QED BY <4>2
    <3>3. QED BY <3>1, <3>2
  <2>8. Lists(q, p, h, S, n + 1)
    BY <2>3, <2>4, <2>5, <2>6, <2>7 DEF Lists
  <2>9. QED BY <1>2, <2>1, <2>2, <2>8
<1>3. CASE n + 1 \notin S
  <2>1. \A k \in 1 .. Len(r) : pos[k] \in 1 .. n + 1
    BY DEF Lists
  <2>2. \A i \in 1 .. n + 1 : i \in S => i \in 1 .. n
    BY <1>3
  <2>3. QED BY <1>3, <2>1, <2>2 DEF Lists
<1>4. QED BY <1>2, <1>3

(* Lemma: after n rounds the loop has the first n members, by induction.   *)
LEMMA LoopLists ==
  ASSUME NEW E, NEW h \in Seq(E), NEW S, NEW f, Loop(h, S, f, Len(h)), NEW n \in 0 .. Len(h)
  PROVE  f[n] \in Seq(E) /\ \E pos : Lists(f[n], pos, h, S, n)
<1> DEFINE P(m) == f[m] \in Seq(E) /\ \E pos : Lists(f[m], pos, h, S, m)
           T == {m \in 0 .. Len(h) : ~ P(m)}
<1>0. Len(h) \in Nat
  OBVIOUS
<1>1. SUFFICES ASSUME T # {} PROVE FALSE
  OBVIOUS
<1>2. PICK m \in T : \A k \in T : m <= k
  <2> HIDE DEF P
  <2>1. T \in SUBSET Nat
    BY <1>0
  <2> HIDE DEF T
  <2> QED BY <1>1, <2>1, LeastNumber
<1>3. \A i \in 0 .. Len(h) :
        f[i] = IF i = 0 THEN <<>> ELSE IF i \in S THEN Append(f[i - 1], h[i]) ELSE f[i - 1]
  BY <1>0 DEF Loop
<1>4. m # 0
  <2> SUFFICES ASSUME m = 0 PROVE FALSE
    OBVIOUS
  <2>1. f[0] = <<>>
    BY <1>0, <1>3
  <2>2. Lists(<<>>, <<>>, h, S, 0)
    BY DEF Lists
  <2>3. <<>> \in Seq(E)
    OBVIOUS
  <2>4. P(0)
    BY <2>1, <2>2, <2>3
  <2>5. ~ P(0)
    BY <1>2
  <2>6. QED BY <2>4, <2>5
<1>5. m \in 1 .. Len(h) /\ m - 1 \in 0 .. Len(h) /\ m - 1 \notin T
  <2> HIDE DEF P
  <2> QED BY <1>0, <1>2, <1>4
<1>6. f[m - 1] \in Seq(E)
  BY <1>5
<1>7. PICK pos : Lists(f[m - 1], pos, h, S, m - 1)
  BY <1>5
<1>8. P(m)
  <2>1. PICK n1 \in Nat : n1 = m - 1 /\ n1 + 1 = m
    BY <1>5
  <2>2. PICK r : r = f[n1]
    OBVIOUS
  <2>3. r \in Seq(E) /\ Lists(r, pos, h, S, n1) /\ n1 + 1 \in 1 .. Len(h)
    BY <2>1, <2>2, <1>5, <1>6, <1>7
  <2>4. /\ n1 + 1 \in S => Lists(Append(r, h[n1 + 1]), Append(pos, n1 + 1), h, S, n1 + 1)
        /\ n1 + 1 \notin S => Lists(r, pos, h, S, n1 + 1)
    BY <2>3, ListsOneMore
  <2>5. f[m] = IF m \in S THEN Append(r, h[m]) ELSE r
    BY <2>1, <2>2, <1>3, <1>4, <1>5
  <2>6. f[m] \in Seq(E)
    BY <2>3, <2>5, <1>5
  <2>7. QED BY <2>1, <2>4, <2>5, <2>6
<1>9. QED BY <1>2, <1>8

(* Lemma: Selected lists the members of h at the positions in S.           *)
LEMMA SelectedLists ==
  ASSUME NEW E, NEW h \in Seq(E), NEW S
  PROVE  Selected(h, S) \in Seq(E) /\ \E pos : Lists(Selected(h, S), pos, h, S, Len(h))
<1>1. Len(h) \in Nat /\ Len(h) \in 0 .. Len(h)
  <2>1. Len(h) \in Nat
    BY LenProperties, Zenon
  <2> QED BY <2>1
<1> DEFINE k == CHOOSE f : f = [i \in 0 .. Len(h) |->
                  IF i = 0 THEN <<>> ELSE IF i \in S THEN Append(f[i - 1], h[i]) ELSE f[i - 1]]
<1>2. Loop(h, S, k, Len(h))
  <2>1. \E f : Loop(h, S, f, Len(h))
    BY <1>1, LoopExists
  <2>2. QED BY <2>1 DEF Loop
<1>3. Selected(h, S) = k[Len(h)]
  BY DEF Selected
<1> HIDE DEF k
<1>4. QED BY <1>1, <1>2, <1>3, LoopLists

-----------------------------------------------------------------------------
(* Lemma: at the start nothing is numbered and nothing is queued.          *)
LEMMA InitInv == Init => IndInv
<1> SUFFICES ASSUME Init PROVE IndInv
  OBVIOUS
<1>0. ASSUME NEW c \in Clients
      PROVE  ~ on[c] /\ out[c] = <<>> /\ ch[c] = <<>> /\ DOMAIN out[c] = {} /\ DOMAIN ch[c] = {} /\ Len(ch[c]) = 0
  <2>1. ~ on[c] /\ out[c] = <<>> /\ ch[c] = <<>>
    BY Zenon DEF Init
  <2>2. DOMAIN <<>> = {} /\ Len(<<>>) = 0
    OBVIOUS
  <2>3. QED BY <2>1, <2>2, Zenon
<1>1. TypeOK
  <2>1. /\ committed = SubSeq(Changes, 1, Len(committed))
        /\ unsent \in Seq(Nat) /\ wire \in Seq(Nat)
    <3>1. SubSeq(Changes, 1, 0) = <<>>
      BY StreamAssumption, SubSeqEmpty
    <3>2. committed = <<>> /\ Len(committed) = 0 /\ unsent = <<>> /\ wire = <<>>
      BY DEF Init
    <3>3. QED BY <3>1, <3>2
  <2>2. link \in {"down", "listening", "up"} /\ connectedOnce \in BOOLEAN
    BY DEF Init
  <2>3. epoch \in Nat /\ nextEventID \in Nat /\ drops \in Nat
    BY DEF Init
  <2>4. /\ history \in Seq(Event) /\ Len(history) <= ReplayCapacity
        /\ log \in Seq(Event) /\ Len(log) = nextEventID
    BY StreamAssumption DEF Init
  <2>5. on \in [Clients -> BOOLEAN] /\ reconciled \in [Clients -> BOOLEAN]
    BY DEF Init
  <2>6. out \in [Clients -> Seq(Event)] /\ ch \in [Clients -> Seq(Event)]
    BY DEF Init
  <2>7. \A c \in Clients : Len(ch[c]) <= Buffer
    <3>1. \A c \in Clients : Len(ch[c]) = 0
      BY <1>0, Zenon
    <3>2. 0 <= Buffer
      BY StreamAssumption
    <3>3. QED BY <3>1, <3>2, Zenon
  <2>8. cursor \in [Clients -> AnyCursor]
    BY StreamAssumption DEF Init, AnyCursor, Cursor
  <2>9. connections \in [Clients -> Nat] /\ snapshot \in [Clients -> Nat] /\ start \in [Clients -> Nat]
    BY DEF Init
  <2>10. told \in [Clients -> SUBSET Nat]
    BY DEF Init
  <2>11. failed \subseteq Nat /\ unheard \subseteq Nat
    BY DEF Init
  <2>12. QED BY <2>1, <2>2, <2>3, <2>4, <2>5, <2>6, <2>7, <2>8, <2>9, <2>10, <2>11 DEF TypeOK
<1>2. WireInv /\ LogInv
  BY StreamAssumption DEF Init, WireInv, LogInv
<1>3. QueueInv
  BY <1>0, Zenon DEF QueueInv
<1>4. CoverInv
  BY <1>0, Zenon DEF CoverInv
<1>5. OrderInv
  BY <1>0, Zenon DEF OrderInv, Ascending
<1>6. QED BY <1>1, <1>2, <1>3, <1>4, <1>5 DEF IndInv

(* Lemma: a step that leaves Hub, queues and cursors alone keeps what they *)
(* promise.                                                                *)
LEMMA QuietStep ==
  ASSUME LogInv, QueueInv, CoverInv, OrderInv, UNCHANGED <<hub, on, out, ch, cursor, start>>
  PROVE  LogInv' /\ QueueInv' /\ CoverInv' /\ OrderInv'
<1>1. LogInv'
  BY DEF LogInv, hub, Here
<1>2. QueueInv'
  BY DEF QueueInv, Fits, Current, hub
<1>3. CoverInv'
  <2>1. \A c \in Clients : Position(c)' = Position(c) /\ Queued(c)' = Queued(c)
    BY DEF Position, Queued, hub
  <2>2. \A e, i : Covers(e, i) => Covers(e, i)'
    BY DEF Covers, Here, hub
  <2>3. QED BY <2>1, <2>2 DEF CoverInv, hub, SubscriberMatches
<1>4. OrderInv'
  BY DEF OrderInv, Ascending, Before
<1>5. QED BY <1>1, <1>2, <1>3, <1>4

(* Lemma: the worker and the bridge, as long as nothing is published.      *)
LEMMA BridgeInv ==
  ASSUME IndInv, Commit \/ Notify \/ NotifyFails \/ Listen \/ Undecodable \/ LinkDrop
  PROVE  IndInv'
<1>0. TypeOK /\ WireInv /\ LogInv /\ QueueInv /\ CoverInv /\ OrderInv
  BY DEF IndInv
<1>1. /\ UNCHANGED <<hub, on, out, ch, cursor, start>>
      /\ UNCHANGED <<connections, reconciled, snapshot, told>>
  BY DEF Commit, Notify, NotifyFails, Listen, Undecodable, LinkDrop, client
<1>2. LogInv' /\ QueueInv' /\ CoverInv' /\ OrderInv'
  BY <1>0, <1>1, QuietStep
<1>3. /\ committed' = SubSeq(Changes, 1, Len(committed')) /\ Len(committed') \in 0 .. Len(Changes)
      /\ Len(committed) <= Len(committed') /\ Len(committed) \in Nat
  <2>1. Len(Changes) \in Nat /\ Len(committed) \in 0 .. Len(Changes)
    BY <1>0, StreamAssumption DEF WireInv
  <2>2. CASE Commit
    <3>1. Len(committed) + 1 \in 1 .. Len(Changes)
      BY <2>1, <2>2 DEF Commit
    <3>2. committed' = SubSeq(Changes, 1, Len(committed) + 1)
      BY <2>2 DEF Commit
    <3>3. Len(committed') = Len(committed) + 1
      BY <3>1, <3>2, StreamAssumption
    <3>4. QED BY <2>1, <3>1, <3>2, <3>3
  <2>3. CASE Notify \/ NotifyFails \/ Listen \/ Undecodable \/ LinkDrop
    <3>1. committed' = committed
      BY <2>3 DEF Notify, NotifyFails, Listen, Undecodable, LinkDrop, worker
    <3>2. QED BY <3>1, <2>1, <1>0 DEF TypeOK
  <2>4. QED BY <2>2, <2>3
<1>4. /\ unsent' \in Seq(Nat)
      /\ \A i \in DOMAIN unsent' : unsent'[i] \in 1 .. Len(committed')
  <2>1. CASE Commit
    <3>1. unsent' = Append(unsent, Len(committed) + 1) /\ Len(committed') = Len(committed) + 1
      BY <2>1, <1>0, <1>3, StreamAssumption DEF Commit
    <3>2. QED BY <3>1, <1>0, <1>3 DEF TypeOK, WireInv
  <2>2. CASE Notify \/ NotifyFails
    <3>1. unsent' = Tail(unsent) /\ unsent # <<>>
      BY <2>2 DEF Notify, NotifyFails
    <3>2. QED BY <3>1, <1>0, <1>3 DEF TypeOK, WireInv
  <2>3. CASE Listen \/ Undecodable \/ LinkDrop
    <3>1. unsent' = unsent
      BY <2>3 DEF Listen, Undecodable, LinkDrop, worker
    <3>2. QED BY <3>1, <1>0, <1>3 DEF TypeOK, WireInv
  <2>4. QED BY <2>1, <2>2, <2>3
<1>5. /\ wire' \in Seq(Nat)
      /\ \A i \in DOMAIN wire' : wire'[i] \in 1 .. Len(committed')
  <2>1. CASE wire' = wire
    BY <2>1, <1>0, <1>3 DEF TypeOK, WireInv
  <2>2. CASE unsent # <<>> /\ wire' = Append(wire, Head(unsent))
    <3>1. Head(unsent) \in 1 .. Len(committed) /\ Head(unsent) \in Nat
      BY <2>2, <1>0 DEF TypeOK, WireInv
    <3>2. QED BY <2>2, <3>1, <1>0, <1>3, SMTT(30) DEF TypeOK, WireInv
  <2>3. CASE wire # <<>> /\ wire' = Tail(wire)
    BY <2>3, <1>0, <1>3 DEF TypeOK, WireInv
  <2>4. CASE wire' = <<>>
    BY <2>4
  <2>5. QED BY <2>1, <2>2, <2>3, <2>4 DEF Commit, Notify, NotifyFails, Listen, Undecodable, LinkDrop, bridge
<1>6. WireInv'
  BY <1>3, <1>4, <1>5 DEF WireInv
<1>7. link' \in {"down", "listening", "up"} /\ connectedOnce' \in BOOLEAN
  <2>1. connectedOnce' = connectedOnce /\ (link' = link \/ link' = "down" \/ link' = "listening")
    BY DEF Commit, Notify, NotifyFails, Listen, Undecodable, LinkDrop, bridge
  <2>2. QED BY <2>1, <1>0 DEF TypeOK
<1>8. drops' \in Nat
  BY <1>0 DEF Commit, Notify, NotifyFails, Listen, Undecodable, LinkDrop, bridge, TypeOK
<1>9. failed' \subseteq Nat
  <2>1. /\ unsent # <<>> => Head(unsent) \in Nat
        /\ wire # <<>> => Head(wire) \in Nat
    BY <1>0 DEF TypeOK
  <2>2. \/ failed' = failed
        \/ unsent # <<>> /\ failed' = failed \cup {Head(unsent)}
        \/ wire # <<>> /\ failed' = failed \cup {Head(wire)}
    BY DEF Commit, Notify, NotifyFails, Listen, Undecodable, LinkDrop, losses
  <2>3. QED BY <2>1, <2>2, <1>0 DEF TypeOK
<1>10. unheard' \subseteq Nat
  <2>1. unsent # <<>> => Head(unsent) \in Nat
    BY <1>0 DEF TypeOK
  <2>2. {wire[i] : i \in DOMAIN wire} \subseteq Nat
    BY <1>0 DEF TypeOK
  <2>3. \/ unheard' = unheard
        \/ unsent # <<>> /\ unheard' = unheard \cup {Head(unsent)}
        \/ unheard' = unheard \cup {wire[i] : i \in DOMAIN wire}
    BY DEF Commit, Notify, NotifyFails, Listen, Undecodable, LinkDrop, losses
  <2>4. QED BY <2>1, <2>2, <2>3, <1>0 DEF TypeOK
<1>11. TypeOK'
  BY <1>0, <1>1, <1>3, <1>4, <1>5, <1>7, <1>8, <1>9, <1>10 DEF TypeOK, hub
<1>12. QED BY <1>2, <1>6, <1>11 DEF IndInv
-----------------------------------------------------------------------------
(* Lemma: Publish numbers one event, and every client that it concerns has *)
(* it in its channel, or a gap with its number.                            *)
LEMMA PublishStep ==
  ASSUME TypeOK, LogInv, QueueInv, CoverInv, OrderInv,
         NEW kind \in {"change", "gap"}, NEW A \in SUBSET Accounts, NEW n \in Nat,
         Publish(kind, A, n), UNCHANGED <<on, out, cursor, start>>
  PROVE  /\ LogInv' /\ QueueInv' /\ CoverInv' /\ OrderInv'
         /\ epoch' \in Nat /\ nextEventID' \in Nat
         /\ history' \in Seq(Event) /\ Len(history') <= ReplayCapacity
         /\ log' \in Seq(Event) /\ Len(log') = nextEventID'
         /\ ch' \in [Clients -> Seq(Event)] /\ \A c \in Clients : Len(ch'[c]) <= Buffer
<1>1. PICK N : N = nextEventID /\ N = Len(log) /\ N \in Nat
  BY DEF TypeOK
<1>2. PICK e : e = [kind |-> kind, id |-> Here(N + 1), accts |-> A, n |-> n, must |-> kind = "gap"]
  OBVIOUS
<1>3. /\ e.kind = kind /\ e.id = Here(N + 1) /\ e.accts = A
      /\ e.id \in Cursor /\ e.id.epoch = epoch /\ e.id.seq = N + 1
  BY <1>1, <1>2 DEF Here, Cursor, TypeOK
<1>4. e \in Event
  <2>1. (kind = "gap") \in BOOLEAN
    OBVIOUS
  <2>2. e.id \in AnyCursor
    BY <1>3 DEF AnyCursor
  <2>3. Here(N + 1) \in AnyCursor
    BY <2>2, <1>3
  <2>4. QED BY <1>2, <2>1, <2>3 DEF Event
<1>5. /\ nextEventID' = N + 1 /\ epoch' = epoch
      /\ history' = AppendHistory(history, e)
      /\ log' = Append(log, e)
      /\ ch' = [c \in Clients |-> IF on[c] /\ SubscriberMatches(c, e) THEN Send(c, e) ELSE ch[c]]
  BY <1>1, <1>2 DEF Publish
<1>6. /\ log \in Seq(Event) /\ log' \in Seq(Event) /\ Len(log') = N + 1
      /\ \A i \in 1 .. N : log'[i] = log[i]
      /\ log'[N + 1] = e
      /\ DOMAIN log = 1 .. N /\ DOMAIN log' = 1 .. N + 1
  <2>1. log \in Seq(Event) /\ Len(log) = N
    BY <1>1 DEF TypeOK
  <2>2. QED BY <2>1, <1>1, <1>4, <1>5, AppendProperties
<1>7. /\ history' \in Seq(Event) /\ Len(history') <= ReplayCapacity /\ Len(history') <= N + 1
      /\ \A k \in DOMAIN history' : history'[k] = log'[N + 1 - Len(history') + k]
  <2>0. Len(history) \in Nat /\ Len(history) <= ReplayCapacity /\ Len(history) <= N
    BY <1>1 DEF TypeOK, LogInv
  <2>1. PICK L : L = Len(history) /\ L \in Nat /\ L <= ReplayCapacity /\ L <= N
    BY <2>0
  <2>2. history \in Seq(Event) /\ DOMAIN history = 1 .. L /\ ReplayCapacity \in Nat
    BY <2>1, StreamAssumption DEF TypeOK
  <2>3. \A k \in 1 .. L : history[k] = log[N - L + k]
    BY <2>1, <2>2, <1>1 DEF LogInv
  <2>4. CASE ReplayCapacity = 0
    <3>1. history' = history /\ L = 0
      BY <2>1, <2>2, <2>4, <1>5 DEF AppendHistory
    <3>2. QED BY <3>1, <2>1, <2>2, <2>4, <1>1
  <2>5. CASE ReplayCapacity # 0 /\ L = ReplayCapacity
    <3>1. history' = Append(Tail(history), e)
      BY <2>1, <2>5, <1>5 DEF AppendHistory
    <3>2. PICK t : t = Tail(history)
      OBVIOUS
    <3>3. t \in Seq(Event) /\ Len(t) = L - 1 /\ \A k \in 1 .. L - 1 : t[k] = history[k + 1]
      BY <3>2, <2>1, <2>2, <2>5, HeadTailProperties
    <3>4. /\ history' \in Seq(Event) /\ Len(history') = L /\ DOMAIN history' = 1 .. L
          /\ \A k \in 1 .. L - 1 : history'[k] = t[k]
          /\ history'[L] = e
      BY <3>1, <3>2, <3>3, <1>4, <2>1, AppendProperties
    <3>5. ASSUME NEW k \in 1 .. L
          PROVE  history'[k] = log'[N + 1 - L + k]
      <4>1. CASE k = L
        BY <4>1, <3>4, <1>6, <1>1, <2>1
      <4>2. CASE k \in 1 .. L - 1
        <5>1. k + 1 \in 1 .. L /\ N - L + (k + 1) \in 1 .. N /\ N - L + (k + 1) = N + 1 - L + k
          BY <4>2, <2>1, <1>1
        <5>2. history'[k] = log[N - L + (k + 1)]
          BY <4>2, <5>1, <3>3, <3>4, <2>3
        <5>3. QED BY <5>1, <5>2, <1>6
      <4>3. QED BY <4>1, <4>2, <2>1
    <3>6. QED BY <3>4, <3>5, <2>1, <1>1
  <2>6. CASE ReplayCapacity # 0 /\ L # ReplayCapacity
    <3>1. history' = Append(history, e)
      BY <2>1, <2>6, <1>5 DEF AppendHistory
    <3>2. /\ history' \in Seq(Event) /\ Len(history') = L + 1 /\ DOMAIN history' = 1 .. L + 1
          /\ \A k \in 1 .. L : history'[k] = history[k]
          /\ history'[L + 1] = e
      BY <3>1, <1>4, <2>1, <2>2, AppendProperties
    <3>3. ASSUME NEW k \in 1 .. L + 1
          PROVE  history'[k] = log'[N + 1 - (L + 1) + k]
      <4>1. CASE k = L + 1
        BY <4>1, <3>2, <1>6, <1>1, <2>1
      <4>2. CASE k \in 1 .. L
        <5>1. N - L + k \in 1 .. N /\ N - L + k = N + 1 - (L + 1) + k
          BY <4>2, <2>1, <1>1
        <5>2. QED BY <4>2, <5>1, <3>2, <2>3, <1>6
      <4>3. QED BY <4>1, <4>2, <2>1
    <3>4. QED BY <3>2, <3>3, <2>1, <2>2, <2>6, <1>1
  <2>7. QED BY <2>4, <2>5, <2>6
<1>8. LogInv'
  <2>1. ASSUME NEW i \in 1 .. N + 1 PROVE log'[i].id = Here(i)'
    <3>1. Here(i)' = Here(i)
      BY <1>5 DEF Here
    <3>2. CASE i = N + 1
      BY <3>1, <3>2, <1>3, <1>6
    <3>3. CASE i \in 1 .. N
      BY <3>1, <3>3, <1>6 DEF LogInv
    <3>4. QED BY <3>2, <3>3, <1>1
  <2>2. \A i \in DOMAIN log' : log'[i].id = Here(i)'
    BY <2>1, <1>6
  <2>3. Len(history') <= Len(log') /\ \A k \in DOMAIN history' : history'[k] = log'[Len(log') - Len(history') + k]
    <3>1. Len(log') = N + 1
      BY <1>6
    <3>2. ASSUME NEW k \in DOMAIN history'
          PROVE  history'[k] = log'[Len(log') - Len(history') + k]
      <4>1. history'[k] = log'[N + 1 - Len(history') + k]
        BY <1>7
      <4>2. Len(history') \in Nat /\ k \in Nat
        BY <1>7
      <4>3. N + 1 - Len(history') + k = Len(log') - Len(history') + k
        BY <3>1, <4>2, <1>1
      <4>4. QED BY <4>1, <4>3, Zenon
    <3>3. Len(history') <= Len(log')
      BY <3>1, <1>7
    <3>4. QED BY <3>2, <3>3
  <2>4. QED BY <2>2, <2>3 DEF LogInv
\* What a channel holds afterwards.
<1>9. ASSUME NEW c \in Clients
      PROVE  \/ ch'[c] = ch[c] /\ ~ (on[c] /\ SubscriberMatches(c, e))
             \/ on[c] /\ Len(ch[c]) < Buffer /\ ch'[c] = Append(ch[c], e)
             \/ on[c] /\ ch'[c] = <<Gap(e.id, {AccountOf[c]})>>
  BY <1>5 DEF Send
<1>10. ASSUME NEW c \in Clients, NEW g, g = Gap(e.id, {AccountOf[c]})
       PROVE  g \in Event /\ g.id = e.id /\ g.kind = "gap"
  <2>1. AccountOf[c] \in Accounts /\ e.id \in AnyCursor
    BY <1>3, StreamAssumption DEF AnyCursor
  <2>2. QED BY <2>1, <1>10 DEF Gap, Event
<1>11. ASSUME NEW c \in Clients
       PROVE  /\ ch'[c] \in Seq(Event) /\ Len(ch'[c]) <= Buffer
              /\ \/ ch'[c] = ch[c] /\ ~ (on[c] /\ SubscriberMatches(c, e))
                 \/ /\ on[c] /\ Len(ch'[c]) = Len(ch[c]) + 1
                    /\ \A i \in 1 .. Len(ch[c]) : ch'[c][i] = ch[c][i]
                    /\ ch'[c][Len(ch[c]) + 1] = e
                 \/ on[c] /\ Len(ch'[c]) = 1 /\ ch'[c][1].id = e.id /\ ch'[c][1].kind = "gap"
  <2>1. ch[c] \in Seq(Event) /\ Len(ch[c]) \in Nat /\ Len(ch[c]) <= Buffer /\ Buffer \in Nat /\ Buffer >= 1
    BY StreamAssumption DEF TypeOK
  <2>2. CASE ch'[c] = ch[c] /\ ~ (on[c] /\ SubscriberMatches(c, e))
    BY <2>1, <2>2
  <2>3. CASE on[c] /\ Len(ch[c]) < Buffer /\ ch'[c] = Append(ch[c], e)
    BY <2>1, <2>3, <1>4, AppendProperties
  <2>4. CASE on[c] /\ ch'[c] = <<Gap(e.id, {AccountOf[c]})>>
    <3>1. PICK g : g = Gap(e.id, {AccountOf[c]})
      OBVIOUS
    <3>2. g \in Event /\ g.id = e.id /\ g.kind = "gap" /\ ch'[c] = <<g>>
      BY <3>1, <2>4, <1>10
    <3>3. QED BY <3>2, <2>1, <2>4
  <2>5. QED BY <2>2, <2>3, <2>4, <1>9
<1>12. ch' \in [Clients -> Seq(Event)] /\ \A c \in Clients : Len(ch'[c]) <= Buffer
  <2>1. ch' = [c \in Clients |-> ch'[c]]
    BY <1>5
  <2>2. QED BY <2>1, <1>11
<1>13. ASSUME NEW c \in Clients, NEW x
       PROVE  /\ Fits(c, x) => Fits(c, x)'
              /\ on[c] /\ x.id = e.id => Fits(c, x)'
  <2>1. Current(cursor[c])' <=> Current(cursor[c])
    BY <1>5 DEF Current
  <2>2. Fits(c, x) => Fits(c, x)'
    <3>1. ASSUME x.id \in Cursor, x.id.seq <= nextEventID PROVE x.id.seq <= N + 1
      BY <3>1, <1>1 DEF Cursor
    <3>2. QED BY <2>1, <3>1, <1>5 DEF Fits
  <2>3. ASSUME on[c], x.id = e.id PROVE Fits(c, x)'
    <3>1. start[c] <= N /\ start[c] \in Nat
      BY <2>3, <1>1 DEF QueueInv, TypeOK
    <3>2. x.id \in Cursor /\ x.id.epoch = epoch' /\ x.id.seq <= nextEventID' /\ x.id.seq >= start'[c]
      BY <2>3, <3>1, <1>1, <1>3, <1>5
    <3>3. QED BY <3>2 DEF Fits
  <2>4. QED BY <2>2, <2>3
<1>14. QueueInv'
  <2>1. ASSUME NEW c \in Clients
        PROVE  /\ ~ on[c] => out[c] = <<>> /\ ch'[c] = <<>>
               /\ on[c] => start[c] <= nextEventID'
               /\ \A i \in DOMAIN out[c] : Fits(c, out[c][i])'
               /\ \A i \in DOMAIN ch'[c] : \A x : x = ch'[c][i] => Fits(c, x)'
    <3>1. ~ on[c] => out[c] = <<>> /\ ch'[c] = <<>>
      BY <1>11 DEF QueueInv
    <3>2. on[c] => start[c] <= nextEventID'
      <4>1. start[c] \in Nat
        BY DEF TypeOK
      <4>2. QED BY <4>1, <1>1, <1>5 DEF QueueInv
    <3>3. \A i \in DOMAIN out[c] : \A x : x = out[c][i] => Fits(c, x)'
      BY <1>13 DEF QueueInv
    <3>4. ASSUME NEW i \in DOMAIN ch'[c], NEW x, x = ch'[c][i]
          PROVE  Fits(c, x)'
      <4>1. ch[c] \in Seq(Event) /\ DOMAIN ch[c] = 1 .. Len(ch[c]) /\ Len(ch[c]) \in Nat
            /\ DOMAIN ch'[c] = 1 .. Len(ch'[c]) /\ Len(ch'[c]) \in Nat
        BY <1>11 DEF TypeOK
      <4>2. Fits(c, x) \/ (on[c] /\ x.id = e.id)
        BY <3>4, <4>1, <1>11, SMTT(30) DEF QueueInv
      <4>3. QED BY <4>2, <1>13
    <3>5. QED BY <3>1, <3>2, <3>3, <3>4
  <2>2. QED BY <2>1 DEF QueueInv
<1>15. CoverInv'
  <2>1. ASSUME NEW c \in Clients, on[c], NEW i \in 1 .. N + 1, i > Position(c), SubscriberMatches(c, log'[i])
        PROVE  \E x \in Queued(c)' : Covers(x, i)'
    <3>1. /\ DOMAIN ch[c] = 1 .. Len(ch[c]) /\ Len(ch[c]) \in Nat
          /\ DOMAIN ch'[c] = 1 .. Len(ch'[c])
      BY <1>11 DEF TypeOK
    <3>2. ASSUME NEW x, x.id = e.id, x.kind = "gap"
          PROVE  Covers(x, i)'
      <4>1. x.id = Here(x.id.seq)' /\ x.id.seq >= i
        BY <3>2, <1>1, <1>3, <1>5 DEF Here
      <4>2. QED BY <4>1, <3>2 DEF Covers
    <3>3. CASE i = N + 1
      <4>1. SubscriberMatches(c, e) /\ Covers(e, i)'
        BY <2>1, <3>3, <1>6 DEF Covers
      <4>2. \/ Len(ch'[c]) = Len(ch[c]) + 1 /\ ch'[c][Len(ch[c]) + 1] = e
            \/ Len(ch'[c]) = 1 /\ ch'[c][1].id = e.id /\ ch'[c][1].kind = "gap"
        BY <4>1, <2>1, <1>11
      <4>3. \E j \in DOMAIN ch'[c] : ch'[c][j] = e \/ (ch'[c][j].id = e.id /\ ch'[c][j].kind = "gap")
        <5>1. CASE Len(ch'[c]) = Len(ch[c]) + 1 /\ ch'[c][Len(ch[c]) + 1] = e
          <6>1. Len(ch[c]) + 1 \in DOMAIN ch'[c]
            BY <5>1, <3>1
          <6>2. QED BY <5>1, <6>1
        <5>2. CASE Len(ch'[c]) = 1 /\ ch'[c][1].id = e.id /\ ch'[c][1].kind = "gap"
          <6>1. 1 \in DOMAIN ch'[c]
            BY <5>2, <3>1
          <6>2. QED BY <5>2, <6>1
        <5>3. QED BY <4>2, <5>1, <5>2
      <4>4. PICK x \in Queued(c)' : x = e \/ (x.id = e.id /\ x.kind = "gap")
        BY <4>3 DEF Queued
      <4>5. QED BY <4>1, <4>4, <3>2
    <3>4. CASE i \in 1 .. N
      <4>1. PICK x \in Queued(c) : Covers(x, i)
        BY <3>4, <2>1, <1>6 DEF CoverInv
      <4>2. Covers(x, i)'
        <5>1. Here(x.id.seq)' = Here(x.id.seq) /\ log'[i] = log[i]
          BY <3>4, <1>5, <1>6 DEF Here
        <5>2. QED BY <5>1, <4>1 DEF Covers
      <4>3. CASE Len(ch'[c]) = 1 /\ ch'[c][1].id = e.id /\ ch'[c][1].kind = "gap"
        <5>1. ch'[c][1] \in Queued(c)'
          BY <4>3, <3>1 DEF Queued
        <5>2. QED BY <5>1, <4>3, <3>2
      <4>4. CASE ~ (Len(ch'[c]) = 1 /\ ch'[c][1].id = e.id /\ ch'[c][1].kind = "gap")
        <5>1. \A j \in DOMAIN ch[c] : j \in DOMAIN ch'[c] /\ ch'[c][j] = ch[c][j]
          BY <4>4, <3>1, <1>11
        <5>2. x \in Queued(c)'
          BY <4>1, <5>1 DEF Queued
        <5>3. QED BY <4>2, <5>2
      <4>5. QED BY <4>3, <4>4
    <3>5. QED BY <3>3, <3>4, <1>1
  <2>2. \A c \in Clients : Position(c)' = Position(c)
    BY <1>5 DEF Position
  <2>3. QED BY <2>1, <2>2, <1>6 DEF CoverInv, SubscriberMatches
<1>16. OrderInv'
  <2>1. ASSUME NEW c \in Clients
        PROVE  /\ Ascending(out[c])
               /\ \A i, j \in DOMAIN ch'[c] : i < j => Before(ch'[c][i], ch'[c][j])
               /\ \A i \in DOMAIN out[c], j \in DOMAIN ch'[c] : Before(out[c][i], ch'[c][j])
    <3>1. /\ DOMAIN ch[c] = 1 .. Len(ch[c]) /\ Len(ch[c]) \in Nat
          /\ DOMAIN ch'[c] = 1 .. Len(ch'[c])
      BY <1>11 DEF TypeOK
    <3>2. ASSUME NEW x, Fits(c, x), NEW y, y.id = e.id
          PROVE  Before(x, y)
      <4>1. x.id \in Cursor => x.id.seq <= N /\ x.id.seq \in Nat
        BY <3>2, <1>1, StreamAssumption DEF Fits, Cursor
      <4>2. QED BY <4>1, <3>2, <1>1, <1>3 DEF Before
    <3>3. CASE ch'[c] = ch[c]
      BY <3>3 DEF OrderInv, Ascending
    <3>4. CASE /\ on[c] /\ Len(ch'[c]) = Len(ch[c]) + 1
               /\ \A i \in 1 .. Len(ch[c]) : ch'[c][i] = ch[c][i]
               /\ ch'[c][Len(ch[c]) + 1] = e
      <4>1. \A i \in DOMAIN ch[c] : Before(ch[c][i], e)
        BY <3>2 DEF QueueInv
      <4>2. \A i \in DOMAIN out[c] : Before(out[c][i], e)
        BY <3>2 DEF QueueInv
      <4>3. \A i, j \in DOMAIN ch'[c] : i < j => Before(ch'[c][i], ch'[c][j])
        BY <3>1, <3>4, <4>1, SMTT(30) DEF OrderInv, Ascending
      <4>4. \A i \in DOMAIN out[c], j \in DOMAIN ch'[c] : Before(out[c][i], ch'[c][j])
        BY <3>1, <3>4, <4>2, SMTT(30) DEF OrderInv
      <4>5. QED BY <4>3, <4>4 DEF OrderInv
    <3>5. CASE Len(ch'[c]) = 1 /\ ch'[c][1].id = e.id
      <4>1. \A i \in DOMAIN out[c] : Before(out[c][i], ch'[c][1])
        BY <3>2, <3>5 DEF QueueInv
      <4>2. \A j \in DOMAIN ch'[c] : j = 1
        BY <3>1, <3>5
      <4>3. QED BY <4>1, <4>2 DEF OrderInv
    <3>6. QED BY <3>3, <3>4, <3>5, <1>11
  <2>2. QED BY <2>1 DEF OrderInv, Ascending, Before
<1>17. QED BY <1>1, <1>5, <1>6, <1>7, <1>8, <1>12, <1>14, <1>15, <1>16 DEF TypeOK

(* Lemma: the listener announces itself, and dispatches.                   *)
LEMMA AnnounceDispatchInv ==
  ASSUME IndInv, Announce \/ Dispatch
  PROVE  IndInv'
<1>0. TypeOK /\ WireInv /\ LogInv /\ QueueInv /\ CoverInv /\ OrderInv
  BY DEF IndInv
<1>1. UNCHANGED <<worker, drops, on, out, client, start, losses>>
  BY DEF Announce, Dispatch
<1>2. UNCHANGED <<on, out, cursor, start>>
  BY <1>1 DEF client
<1>3. /\ LogInv' /\ QueueInv' /\ CoverInv' /\ OrderInv'
      /\ epoch' \in Nat /\ nextEventID' \in Nat
      /\ history' \in Seq(Event) /\ Len(history') <= ReplayCapacity
      /\ log' \in Seq(Event) /\ Len(log') = nextEventID'
      /\ ch' \in [Clients -> Seq(Event)] /\ \A c \in Clients : Len(ch'[c]) <= Buffer
  <2>1. CASE Announce /\ connectedOnce
    <3>1. Publish("gap", {}, 0)
      BY <2>1 DEF Announce
    <3>2. "gap" \in {"change", "gap"} /\ {} \in SUBSET Accounts /\ 0 \in Nat
      OBVIOUS
    <3>3. QED BY <3>1, <3>2, <1>0, <1>2, PublishStep
  <2>2. CASE Announce /\ ~ connectedOnce
    <3>1. UNCHANGED <<hub, ch>>
      BY <2>2 DEF Announce
    <3>2. LogInv' /\ QueueInv' /\ CoverInv' /\ OrderInv'
      BY <3>1, <1>0, <1>2, QuietStep
    <3>3. QED BY <3>1, <3>2, <1>0 DEF TypeOK, hub
  <2>3. CASE Dispatch
    <3>1. Publish("change", committed[Head(wire)], Head(wire)) /\ wire # <<>>
      BY <2>3 DEF Dispatch
    <3>2. Head(wire) \in Nat /\ Head(wire) \in 1 .. Len(committed)
      BY <3>1, <1>0 DEF TypeOK, WireInv
    <3>3. committed[Head(wire)] \in SUBSET Accounts
      <4>1. Len(committed) \in 0 .. Len(Changes) /\ committed = SubSeq(Changes, 1, Len(committed))
        BY <1>0 DEF TypeOK, WireInv
      <4>2. \A k \in 1 .. Len(Changes) : Changes[k] \in SUBSET Accounts
        BY StreamAssumption
      <4>3. \A k \in 1 .. Len(committed) : SubSeq(Changes, 1, Len(committed))[k] = Changes[k]
        BY <4>1, StreamAssumption
      <4>4. QED BY <3>2, <4>1, <4>2, <4>3, StreamAssumption
    <3>4. PICK A, n : A = committed[Head(wire)] /\ n = Head(wire)
      OBVIOUS
    <3>5. A \in SUBSET Accounts /\ n \in Nat /\ Publish("change", A, n) /\ "change" \in {"change", "gap"}
      BY <3>1, <3>2, <3>3, <3>4
    <3>6. QED BY <3>5, <1>0, <1>2, PublishStep
  <2>4. QED BY <2>1, <2>2, <2>3
<1>4. /\ wire' \in Seq(Nat)
      /\ \A i \in DOMAIN wire' : wire'[i] \in 1 .. Len(committed)
  <2>1. wire' = wire \/ (wire # <<>> /\ wire' = Tail(wire))
    BY DEF Announce, Dispatch
  <2>2. wire \in Seq(Nat) /\ \A i \in DOMAIN wire : wire[i] \in 1 .. Len(committed)
    BY <1>0 DEF TypeOK, WireInv
  <2>3. CASE wire # <<>> /\ wire' = Tail(wire)
    BY <2>2, <2>3
  <2>4. QED BY <2>1, <2>2, <2>3
<1>5. WireInv'
  BY <1>0, <1>1, <1>4 DEF WireInv, worker
<1>6. link' \in {"down", "listening", "up"} /\ connectedOnce' \in BOOLEAN
  <2>1. connectedOnce \in BOOLEAN /\ link \in {"down", "listening", "up"}
    BY <1>0 DEF TypeOK
  <2>2. QED BY <2>1, Zenon DEF Announce, Dispatch
<1>7. TypeOK'
  BY <1>0, <1>1, <1>3, <1>4, <1>6 DEF TypeOK, worker, client, losses
<1>8. QED BY <1>3, <1>5, <1>7 DEF IndInv

(* Lemma: a lost connection and a new process leave empty queues.          *)
LEMMA DisconnectInv ==
  ASSUME IndInv, NEW c \in Clients, Disconnect(c)
  PROVE  IndInv'
<1>0. TypeOK /\ WireInv /\ LogInv /\ QueueInv /\ CoverInv /\ OrderInv
  BY DEF IndInv
<1>1. /\ on' = [on EXCEPT ![c] = FALSE]
      /\ out' = [out EXCEPT ![c] = <<>>]
      /\ ch' = [ch EXCEPT ![c] = <<>>]
      /\ UNCHANGED <<worker, bridge, hub, client, start, losses>>
  BY DEF Disconnect
<1>2. /\ \A d \in Clients : d # c => on'[d] = on[d] /\ out'[d] = out[d] /\ ch'[d] = ch[d]
      /\ ~ on'[c] /\ out'[c] = <<>> /\ ch'[c] = <<>>
  BY <1>0, <1>1 DEF TypeOK
<1>3. DOMAIN <<>> = {} /\ Len(<<>>) = 0
  OBVIOUS
<1>4. TypeOK'
  <2>1. on' \in [Clients -> BOOLEAN]
    BY <1>0, <1>1 DEF TypeOK
  <2>2. out' \in [Clients -> Seq(Event)] /\ ch' \in [Clients -> Seq(Event)]
    BY <1>0, <1>1 DEF TypeOK
  <2>3. \A d \in Clients : Len(ch'[d]) <= Buffer
    <3>1. 0 <= Buffer /\ \A d \in Clients : Len(ch[d]) <= Buffer
      BY <1>0, StreamAssumption DEF TypeOK
    <3>2. QED BY <3>1, <1>2, <1>3, Zenon
  <2>4. QED BY <1>0, <1>1, <2>1, <2>2, <2>3 DEF TypeOK, worker, bridge, hub, client, losses
<1>5. WireInv' /\ LogInv'
  BY <1>0, <1>1 DEF WireInv, LogInv, worker, bridge, hub, Here
<1>6. QueueInv'
  <2>1. \A d \in Clients : \A x : Fits(d, x) => Fits(d, x)'
    BY <1>1 DEF Fits, Current, hub, client
  <2>2. ASSUME NEW d \in Clients
        PROVE  /\ ~ on'[d] => out'[d] = <<>> /\ ch'[d] = <<>>
               /\ on'[d] => start[d] <= nextEventID
               /\ \A i \in DOMAIN out'[d] : \A x : x = out'[d][i] => Fits(d, x)'
               /\ \A i \in DOMAIN ch'[d] : \A x : x = ch'[d][i] => Fits(d, x)'
    <3>1. CASE d = c
      BY <3>1, <1>2, <1>3, Zenon
    <3>2. CASE d # c
      BY <3>2, <1>0, <1>2, <2>1 DEF QueueInv
    <3>3. QED BY <3>1, <3>2
  <2>3. QED BY <2>2, <1>1 DEF QueueInv, hub
<1>7. CoverInv'
  <2>1. \A d \in Clients : d # c => Position(d)' = Position(d) /\ Queued(d)' = Queued(d)
    BY <1>1, <1>2 DEF Position, Queued, hub, client
  <2>2. \A e, i : Covers(e, i) => Covers(e, i)'
    BY <1>1 DEF Covers, Here, hub
  <2>3. QED BY <2>1, <2>2, <1>0, <1>1, <1>2 DEF CoverInv, hub, SubscriberMatches
<1>8. OrderInv'
  <2>1. ASSUME NEW d \in Clients
        PROVE  /\ Ascending(out'[d]) /\ Ascending(ch'[d])
               /\ \A i \in DOMAIN out'[d], j \in DOMAIN ch'[d] : Before(out'[d][i], ch'[d][j])
    <3>1. CASE d = c
      BY <3>1, <1>2, <1>3, Zenon DEF Ascending
    <3>2. CASE d # c
      BY <3>2, <1>0, <1>2 DEF OrderInv
    <3>3. QED BY <3>1, <3>2
  <2>2. QED BY <2>1 DEF OrderInv, Ascending, Before
<1>9. QED BY <1>4, <1>5, <1>6, <1>7, <1>8 DEF IndInv

(* Lemma: a new process starts with an empty log and no client.            *)
LEMMA RestartInv ==
  ASSUME IndInv, ApiRestart
  PROVE  IndInv'
<1>0. TypeOK /\ WireInv
  BY DEF IndInv
<1>1. /\ epoch' = epoch + 1
      /\ nextEventID' = 0 /\ history' = <<>> /\ log' = <<>>
      /\ link' = "down" /\ wire' = <<>> /\ connectedOnce' = FALSE
      /\ on' = [c \in Clients |-> FALSE]
      /\ out' = [c \in Clients |-> <<>>]
      /\ ch' = [c \in Clients |-> <<>>]
      /\ UNCHANGED <<worker, drops, client, start, losses>>
  BY DEF ApiRestart
<1>2. DOMAIN <<>> = {} /\ Len(<<>>) = 0
  OBVIOUS
<1>3. ASSUME NEW c \in Clients
      PROVE  /\ ~ on'[c] /\ out'[c] = <<>> /\ ch'[c] = <<>>
             /\ DOMAIN out'[c] = {} /\ DOMAIN ch'[c] = {} /\ Len(ch'[c]) = 0
  BY <1>1, <1>2, Zenon
<1>4. TypeOK'
  <2>1. epoch' \in Nat /\ nextEventID' \in Nat
    BY <1>0, <1>1 DEF TypeOK
  <2>2. /\ history' \in Seq(Event) /\ Len(history') <= ReplayCapacity
        /\ log' \in Seq(Event) /\ Len(log') = nextEventID' /\ wire' \in Seq(Nat)
    BY <1>1, <1>2, StreamAssumption
  <2>3. on' \in [Clients -> BOOLEAN] /\ connectedOnce' \in BOOLEAN /\ link' \in {"down", "listening", "up"}
    BY <1>1
  <2>4. out' \in [Clients -> Seq(Event)] /\ ch' \in [Clients -> Seq(Event)]
    BY <1>1
  <2>5. \A c \in Clients : Len(ch'[c]) <= Buffer
    <3>1. 0 <= Buffer
      BY StreamAssumption
    <3>2. QED BY <3>1, <1>3, Zenon
  <2>6. QED BY <1>0, <1>1, <2>1, <2>2, <2>3, <2>4, <2>5 DEF TypeOK, worker, client, losses
<1>5. WireInv'
  BY <1>0, <1>1, <1>2 DEF WireInv, worker
<1>6. LogInv'
  BY <1>1, <1>2 DEF LogInv
<1>7. QueueInv'
  BY <1>3, Zenon DEF QueueInv
<1>8. CoverInv'
  BY <1>3, Zenon DEF CoverInv
<1>9. OrderInv'
  BY <1>3, Zenon DEF OrderInv, Ascending
<1>10. QED BY <1>4, <1>5, <1>6, <1>7, <1>8, <1>9 DEF IndInv

-----------------------------------------------------------------------------
(* Lemma: what a connection starts with.  The window is replayed in order, *)
(* and a cursor of this process misses nothing: the window reaches back to *)
(* it, or a gap says that it does not.                                     *)
LEMMA PreludeLists ==
  ASSUME TypeOK, LogInv, NEW c \in Clients, NEW q \in AnyCursor
  PROVE  \E p :
           /\ p = Prelude(c, q) /\ p \in Seq(Event)
           /\ \A i \in DOMAIN p :
                \/ p[i].id = NoCursor /\ p[i].kind = "connected"
                \/ /\ p[i].id \in Cursor /\ p[i].id.epoch = epoch /\ p[i].id.seq <= nextEventID
                   /\ Current(q) \/ p[i].id.seq >= nextEventID
           /\ Ascending(p)
           /\ \A i \in DOMAIN log : Current(q) /\ i > q.seq /\ SubscriberMatches(c, log[i]) =>
                \E k \in DOMAIN p : Covers(p[k], i)
<1>1. PICK N : N = nextEventID /\ N = Len(log) /\ N \in Nat
  BY DEF TypeOK
<1>2. PICK b : b = Connected(c, q)
  OBVIOUS
<1>3. b \in Event /\ b.id = NoCursor /\ b.kind = "connected"
  <2>1. AccountOf[c] \in Accounts /\ NoCursor \in AnyCursor /\ (q # NoCursor) \in BOOLEAN
    BY StreamAssumption DEF AnyCursor
  <2>2. QED BY <2>1, <1>2 DEF Connected, Event
<1>4. NoCursor \notin Cursor
  BY StreamAssumption
\* A tail that fits, ascends and covers is all that is needed.
<1>5. ASSUME NEW t \in Seq(Event), Prelude(c, q) = <<b>> \o t,
             \A i \in DOMAIN t :
               /\ t[i].id \in Cursor /\ t[i].id.epoch = epoch /\ t[i].id.seq <= N
               /\ Current(q) \/ t[i].id.seq >= N,
             Ascending(t),
             \A i \in DOMAIN log : Current(q) /\ i > q.seq /\ SubscriberMatches(c, log[i]) =>
               \E k \in DOMAIN t : Covers(t[k], i)
      PROVE  \E p :
               /\ p = Prelude(c, q) /\ p \in Seq(Event)
               /\ \A i \in DOMAIN p :
                    \/ p[i].id = NoCursor /\ p[i].kind = "connected"
                    \/ /\ p[i].id \in Cursor /\ p[i].id.epoch = epoch /\ p[i].id.seq <= nextEventID
                       /\ Current(q) \/ p[i].id.seq >= nextEventID
               /\ Ascending(p)
               /\ \A i \in DOMAIN log : Current(q) /\ i > q.seq /\ SubscriberMatches(c, log[i]) =>
                    \E k \in DOMAIN p : Covers(p[k], i)
  <2>1. PICK p : p = <<b>> \o t
    OBVIOUS
  <2>2. <<b>> \in Seq(Event) /\ Len(<<b>>) = 1 /\ <<b>>[1] = b /\ Len(t) \in Nat /\ DOMAIN t = 1 .. Len(t)
    BY <1>3
  <2>3. /\ p \in Seq(Event) /\ Len(p) = Len(t) + 1 /\ DOMAIN p = 1 .. Len(t) + 1
        /\ p[1] = b /\ \A i \in 2 .. Len(t) + 1 : p[i] = t[i - 1]
    BY <2>1, <2>2, <1>3
  <2>4. ASSUME NEW i \in DOMAIN p
        PROVE  (i = 1 /\ p[i] = b) \/ (i - 1 \in DOMAIN t /\ p[i] = t[i - 1])
    BY <2>2, <2>3
  <2>5. \A i \in DOMAIN p :
          \/ p[i].id = NoCursor /\ p[i].kind = "connected"
          \/ /\ p[i].id \in Cursor /\ p[i].id.epoch = epoch /\ p[i].id.seq <= nextEventID
             /\ Current(q) \/ p[i].id.seq >= nextEventID
    BY <2>4, <1>1, <1>3, <1>5
  <2>6. Ascending(p)
    <3>1. ASSUME NEW i \in DOMAIN p, NEW j \in DOMAIN p, i < j
          PROVE  Before(p[i], p[j])
      <4>1. CASE i = 1
        <5>1. p[i] = b
          BY <4>1, <2>3
        <5>2. QED BY <5>1, <1>3, <1>4 DEF Before
      <4>2. CASE i # 1
        <5>1. i - 1 \in DOMAIN t /\ j - 1 \in DOMAIN t /\ p[i] = t[i - 1] /\ p[j] = t[j - 1] /\ i - 1 < j - 1
          BY <4>2, <3>1, <2>2, <2>3
        <5>2. QED BY <5>1, <1>5 DEF Ascending
      <4>3. QED BY <4>1, <4>2
    <3>2. QED BY <3>1 DEF Ascending
  <2>7. ASSUME NEW i \in DOMAIN log, Current(q), i > q.seq, SubscriberMatches(c, log[i])
        PROVE  \E k \in DOMAIN p : Covers(p[k], i)
    <3>1. PICK k \in DOMAIN t : Covers(t[k], i)
      BY <2>7, <1>5
    <3>2. k + 1 \in DOMAIN p /\ p[k + 1] = t[k]
      BY <2>2, <2>3
    <3>3. QED BY <3>1, <3>2
  <2>8. QED BY <2>1, <2>3, <2>5, <2>6, <2>7, <1>5
<1>6. \/ ResumeStatus(q) = "fresh" /\ ~ Current(q)
      \/ ResumeStatus(q) = "gap"
      \/ ResumeStatus(q) = "resumed" /\ Current(q) /\ q.seq <= N /\ ~ Expired(q)
  <2>1. CASE q = NoCursor
    BY <2>1, <1>4 DEF ResumeStatus, Current
  <2>2. CASE q # NoCursor /\ q = Garbage
    BY <2>2 DEF ResumeStatus
  <2>3. CASE q # NoCursor /\ q # Garbage
    <3>1. q \in Cursor /\ q.seq \in Nat
      BY <2>3 DEF AnyCursor, Cursor
    <3>2. QED BY <2>3, <3>1, <1>1 DEF ResumeStatus, Current
  <2>4. QED BY <2>1, <2>2, <2>3
<1>7. CASE ResumeStatus(q) = "fresh" /\ ~ Current(q)
  <2>1. PICK t : t = <<>>
    OBVIOUS
  <2>2. Prelude(c, q) = <<b>> \o t
    BY <2>1, <1>2, <1>7 DEF Prelude
  <2>3. t \in Seq(Event) /\ DOMAIN t = {}
    BY <2>1
  <2>4. Ascending(t)
    BY <2>3 DEF Ascending
  <2>5. QED BY <2>2, <2>3, <2>4, <1>5, <1>7
<1>8. CASE ResumeStatus(q) = "gap"
  <2>1. PICK g : g = Gap(Here(N), {AccountOf[c]})
    OBVIOUS
  <2>2. g \in Event /\ g.kind = "gap" /\ g.id = Here(N) /\ g.id \in Cursor /\ g.id.epoch = epoch /\ g.id.seq = N
    <3>1. Here(N) \in Cursor /\ Here(N).epoch = epoch /\ Here(N).seq = N
      BY <1>1 DEF Here, Cursor, TypeOK
    <3>2. AccountOf[c] \in Accounts
      BY StreamAssumption
    <3>3. QED BY <3>1, <3>2, <2>1 DEF Gap, Event, AnyCursor
  <2>3. Prelude(c, q) = <<b>> \o <<g>>
    BY <2>1, <1>1, <1>2, <1>8 DEF Prelude
  <2>4. PICK t : t = <<g>>
    OBVIOUS
  <2>5. t \in Seq(Event) /\ DOMAIN t = {1} /\ t[1] = g
    BY <2>2, <2>4
  <2>6. Ascending(t)
    BY <2>5 DEF Ascending
  <2>7. \A i \in DOMAIN log : Covers(g, i)
    BY <2>2, <1>1 DEF Covers, TypeOK
  <2>8. \A i \in DOMAIN t :
          /\ t[i].id \in Cursor /\ t[i].id.epoch = epoch /\ t[i].id.seq <= N
          /\ Current(q) \/ t[i].id.seq >= N
    BY <2>2, <2>5, <1>1
  <2>9. \A i \in DOMAIN log : \E k \in DOMAIN t : Covers(t[k], i)
    BY <2>5, <2>7
  <2>10. Prelude(c, q) = <<b>> \o t
    BY <2>3, <2>4
  <2>11. QED BY <2>5, <2>6, <2>8, <2>9, <2>10, <1>5
<1>9. CASE ResumeStatus(q) = "resumed" /\ Current(q) /\ q.seq <= N /\ ~ Expired(q)
  <2>0. Len(history) \in Nat /\ Len(history) <= N /\ q.seq \in Nat
    BY <1>1, <1>9 DEF TypeOK, LogInv, Current, Cursor
  <2>1. PICK L : L = Len(history) /\ L \in Nat /\ L <= N
    BY <2>0
  <2>2. /\ history \in Seq(Event) /\ DOMAIN history = 1 .. L /\ DOMAIN log = 1 .. N
        /\ \A k \in 1 .. L : history[k] = log[N - L + k] /\ N - L + k \in 1 .. N
    <3>1. history \in Seq(Event) /\ DOMAIN history = 1 .. L /\ DOMAIN log = 1 .. N
      BY <2>1, <1>1 DEF TypeOK
    <3>2. \A k \in 1 .. L : history[k] = log[N - L + k]
      BY <3>1, <2>1, <1>1 DEF LogInv
    <3>3. \A k \in 1 .. L : N - L + k \in 1 .. N
      BY <2>1, <1>1
    <3>4. QED BY <3>1, <3>2, <3>3
  <2>3. \A i \in 1 .. N : log[i].id = Here(i) /\ Here(i) \in Cursor /\ Here(i).epoch = epoch /\ Here(i).seq = i
    BY <2>2, <1>1 DEF LogInv, Here, Cursor, TypeOK
  <2>4. PICK t : t = Replayed(c, q)
    OBVIOUS
  <2>5. t \in Seq(Event) /\ \E pos : Lists(t, pos, history, Wanted(c, q), L)
    BY <2>1, <2>2, <2>4, SelectedLists DEF Replayed
  <2>6. PICK pos : Lists(t, pos, history, Wanted(c, q), L)
    BY <2>5
  <2>7. DOMAIN t = 1 .. Len(t) /\ Len(t) \in Nat
    BY <2>5
  <2>8. Prelude(c, q) = <<b>> \o t
    BY <2>4, <1>2, <1>9 DEF Prelude
  <2>9. ASSUME NEW k \in DOMAIN t
        PROVE  /\ pos[k] \in 1 .. L /\ t[k] = log[N - L + pos[k]] /\ N - L + pos[k] \in 1 .. N
               /\ t[k].id \in Cursor /\ t[k].id.epoch = epoch /\ t[k].id.seq = N - L + pos[k]
               /\ t[k].id.seq <= N
    <3>1. pos[k] \in 1 .. L /\ t[k] = history[pos[k]]
      BY <2>6, <2>7 DEF Lists
    <3>2. t[k] = log[N - L + pos[k]] /\ N - L + pos[k] \in 1 .. N
      BY <3>1, <2>2
    <3>3. QED BY <3>1, <3>2, <2>3, <1>1
  <2>10. Ascending(t)
    <3>1. ASSUME NEW k \in DOMAIN t, NEW l \in DOMAIN t, k < l
          PROVE  Before(t[k], t[l])
      <4>1. pos[k] < pos[l]
        BY <3>1, <2>6, <2>7 DEF Lists
      <4>2. QED BY <4>1, <2>1, <2>9, <1>1 DEF Before
    <3>2. QED BY <3>1 DEF Ascending
  <2>11. ASSUME NEW i \in DOMAIN log, i > q.seq, SubscriberMatches(c, log[i])
         PROVE  \E k \in DOMAIN t : Covers(t[k], i)
    <3>1. i \in 1 .. N
      BY <2>2
    <3>2. L >= 1 /\ i - (N - L) \in 1 .. L
      <4>1. CASE history = <<>>
        <5>1. EarliestSequence = N + 1
          BY <4>1, <1>1 DEF EarliestSequence
        <5>2. QED BY <5>1, <3>1, <2>0, <2>11, <1>1, <1>9 DEF Expired
      <4>2. CASE history # <<>>
        <5>1. L >= 1
          BY <4>2, <2>1, <2>2
        <5>2. history[1].id = Here(N - L + 1) /\ Here(N - L + 1).seq = N - L + 1
          <6>1. 1 \in 1 .. L /\ history[1] = log[N - L + 1] /\ N - L + 1 \in 1 .. N
            BY <5>1, <2>1, <2>2, <1>1
          <6>2. QED BY <6>1, <2>3
        <5>3. EarliestSequence = N - L + 1
          BY <4>2, <5>2 DEF EarliestSequence
        <5>4. ~ (q.seq + 1 < N - L + 1)
          BY <5>3, <1>9 DEF Expired
        <5>5. PICK z : z = q.seq /\ z \in Nat
          BY <2>0
        <5>6. ~ (z + 1 < N - L + 1) /\ i > z /\ L \in Nat /\ N \in Nat /\ L <= N
          BY <5>4, <5>5, <2>1, <2>11, <1>1
        <5>7. QED BY <5>1, <5>5, <5>6, <3>1
      <4>3. QED BY <4>1, <4>2
    <3>3. PICK m : m = i - (N - L) /\ m \in 1 .. L /\ N - L + m = i
      BY <3>1, <3>2, <2>1, <1>1
    <3>4. history[m] = log[i] /\ history[m].id.seq = i
      BY <3>1, <3>3, <2>2, <2>3
    <3>5. m \in Wanted(c, q)
      BY <3>3, <3>4, <2>2, <2>11 DEF Wanted
    <3>6. PICK k \in DOMAIN t : pos[k] = m
      BY <3>3, <3>5, <2>6, <2>7 DEF Lists
    <3>7. t[k] = log[i]
      BY <3>3, <3>6, <2>9
    <3>8. QED BY <3>7 DEF Covers
  <2>12. QED BY <2>5, <2>8, <2>9, <2>10, <2>11, <1>5, <1>9
<1>10. QED BY <1>6, <1>7, <1>8, <1>9

(* Lemma: SubscribeFrom keeps the invariant: nothing is published between  *)
(* the replay and the registration of the channel.                         *)
LEMMA SubscribeInv ==
  ASSUME IndInv, NEW c \in Clients, SubscribeFrom(c)
  PROVE  IndInv'
<1>0. TypeOK /\ WireInv /\ LogInv /\ QueueInv /\ CoverInv /\ OrderInv
  BY DEF IndInv
<1>1. /\ on' = [on EXCEPT ![c] = TRUE]
      /\ out' = [out EXCEPT ![c] = Prelude(c, cursor[c])]
      /\ ch' = [ch EXCEPT ![c] = <<>>]
      /\ connections' = [connections EXCEPT ![c] = @ + 1]
      /\ reconciled' = [reconciled EXCEPT ![c] = FALSE]
      /\ start' = [start EXCEPT ![c] = nextEventID]
      /\ UNCHANGED <<worker, bridge, hub, cursor, snapshot, told, losses>>
  BY DEF SubscribeFrom
<1>2. cursor[c] \in AnyCursor
  BY <1>0 DEF TypeOK
<1>3. PICK p :
        /\ p = Prelude(c, cursor[c]) /\ p \in Seq(Event)
        /\ \A i \in DOMAIN p :
             \/ p[i].id = NoCursor /\ p[i].kind = "connected"
             \/ /\ p[i].id \in Cursor /\ p[i].id.epoch = epoch /\ p[i].id.seq <= nextEventID
                /\ Current(cursor[c]) \/ p[i].id.seq >= nextEventID
        /\ Ascending(p)
        /\ \A i \in DOMAIN log : Current(cursor[c]) /\ i > cursor[c].seq /\ SubscriberMatches(c, log[i]) =>
             \E k \in DOMAIN p : Covers(p[k], i)
  <2>1. PICK q : q = cursor[c]
    OBVIOUS
  <2>2. QED BY <2>1, <1>0, <1>2, PreludeLists
<1>4. /\ \A d \in Clients : d # c => on'[d] = on[d] /\ out'[d] = out[d] /\ ch'[d] = ch[d] /\ start'[d] = start[d]
      /\ on'[c] /\ out'[c] = p /\ ch'[c] = <<>> /\ start'[c] = nextEventID
  BY <1>0, <1>1, <1>3 DEF TypeOK
<1>5. DOMAIN <<>> = {} /\ Len(<<>>) = 0
  OBVIOUS
<1>6. TypeOK'
  <2>1. on' \in [Clients -> BOOLEAN] /\ reconciled' \in [Clients -> BOOLEAN]
    BY <1>0, <1>1 DEF TypeOK
  <2>2. out' \in [Clients -> Seq(Event)] /\ ch' \in [Clients -> Seq(Event)]
    BY <1>0, <1>1, <1>3 DEF TypeOK
  <2>3. \A d \in Clients : Len(ch'[d]) <= Buffer
    <3>1. 0 <= Buffer /\ \A d \in Clients : Len(ch[d]) <= Buffer
      BY <1>0, StreamAssumption DEF TypeOK
    <3>2. QED BY <3>1, <1>4, <1>5, Zenon
  <2>4. connections' \in [Clients -> Nat] /\ start' \in [Clients -> Nat]
    BY <1>0, <1>1 DEF TypeOK
  <2>5. QED BY <1>0, <1>1, <2>1, <2>2, <2>3, <2>4 DEF TypeOK, worker, bridge, hub, losses
<1>7. WireInv' /\ LogInv'
  BY <1>0, <1>1 DEF WireInv, LogInv, worker, bridge, hub, Here
<1>8. QueueInv'
  <2>1. \A d \in Clients : \A x : d # c /\ Fits(d, x) => Fits(d, x)'
    BY <1>1, <1>4 DEF Fits, Current, hub
  <2>2. ASSUME NEW d \in Clients
        PROVE  /\ ~ on'[d] => out'[d] = <<>> /\ ch'[d] = <<>>
               /\ on'[d] => start'[d] <= nextEventID
               /\ \A i \in DOMAIN out'[d] : \A x : x = out'[d][i] => Fits(d, x)'
               /\ \A i \in DOMAIN ch'[d] : \A x : x = ch'[d][i] => Fits(d, x)'
    <3>1. CASE d = c
      <4>1. \A i \in DOMAIN p : \A x : x = p[i] => Fits(c, x)'
        <5>1. cursor' = cursor /\ epoch' = epoch /\ nextEventID' = nextEventID /\ start'[c] = nextEventID
          BY <1>1, <1>4 DEF hub
        <5>2. Current(cursor[c]) => Current(cursor[c])'
          BY <5>1 DEF Current
        <5>3. QED BY <5>1, <5>2, <1>3 DEF Fits
      <4>2. nextEventID \in Nat
        BY <1>0 DEF TypeOK
      <4>3. start'[d] <= nextEventID
        BY <4>2, <3>1, <1>4
      <4>4. QED BY <3>1, <4>1, <4>3, <1>4, <1>5, Zenon
    <3>2. CASE d # c
      BY <3>2, <1>0, <1>4, <2>1 DEF QueueInv
    <3>3. QED BY <3>1, <3>2
  <2>3. QED BY <2>2, <1>1 DEF QueueInv, hub
<1>9. CoverInv'
  <2>1. \A d \in Clients : d # c => Position(d)' = Position(d) /\ Queued(d)' = Queued(d)
    BY <1>1, <1>4 DEF Position, Queued, hub
  <2>2. \A e, i : Covers(e, i) => Covers(e, i)'
    BY <1>1 DEF Covers, Here, hub
  <2>3. ASSUME NEW i \in DOMAIN log, i > Position(c)', SubscriberMatches(c, log[i])
        PROVE  \E x \in Queued(c)' : Covers(x, i)'
    <3>1. i <= nextEventID /\ i \in Nat /\ nextEventID \in Nat
      BY <1>0 DEF TypeOK
    <3>2. Position(c)' = IF Current(cursor[c]) THEN cursor[c].seq ELSE nextEventID
      BY <1>1, <1>4 DEF Position, Current, hub
    <3>3. Current(cursor[c]) /\ i > cursor[c].seq
      BY <3>1, <3>2, <2>3
    <3>4. PICK k \in DOMAIN p : Covers(p[k], i)
      BY <3>3, <2>3, <1>3
    <3>5. p[k] \in Queued(c)'
      BY <1>4 DEF Queued
    <3>6. QED BY <3>4, <3>5, <2>2
  <2>4. QED BY <2>1, <2>2, <2>3, <1>0, <1>1, <1>4 DEF CoverInv, hub, SubscriberMatches
<1>10. OrderInv'
  <2>1. ASSUME NEW d \in Clients
        PROVE  /\ Ascending(out'[d]) /\ Ascending(ch'[d])
               /\ \A i \in DOMAIN out'[d], j \in DOMAIN ch'[d] : Before(out'[d][i], ch'[d][j])
    <3>1. CASE d = c
      <4>1. Ascending(<<>>)
        BY <1>5 DEF Ascending
      <4>2. QED BY <3>1, <4>1, <1>3, <1>4, <1>5, Zenon
    <3>2. CASE d # c
      BY <3>2, <1>0, <1>4 DEF OrderInv
    <3>3. QED BY <3>1, <3>2
  <2>2. QED BY <2>1 DEF OrderInv, Ascending, Before
<1>11. QED BY <1>6, <1>7, <1>8, <1>9, <1>10 DEF IndInv

-----------------------------------------------------------------------------
(* Lemma: the client takes e from its queue.  If the cursor moves, it      *)
(* moves to e, and everything e covers is behind it; if e is skipped as a  *)
(* duplicate, what it covers was behind the cursor already.                *)
LEMMA ReceiveStep ==
  ASSUME IndInv, NEW c \in Clients, on[c], NEW e \in Event, Fits(c, e), Process(c, e),
         UNCHANGED <<worker, bridge, hub, on, start, losses>>,
         out' \in [Clients -> Seq(Event)], ch' \in [Clients -> Seq(Event)],
         \A d \in Clients : Len(ch'[d]) <= Buffer,
         \A d \in Clients : d # c => out'[d] = out[d] /\ ch'[d] = ch[d],
         \A i \in DOMAIN out'[c] : \E j \in DOMAIN out[c] : out'[c][i] = out[c][j],
         \A i \in DOMAIN ch'[c] : \E j \in DOMAIN ch[c] : ch'[c][i] = ch[c][j],
         \A x \in Queued(c) : x = e \/ x \in Queued(c)',
         OrderInv'
  PROVE  IndInv'
<1>0. TypeOK /\ WireInv /\ LogInv /\ QueueInv /\ CoverInv
  BY DEF IndInv
<1>1. /\ reconciled' \in [Clients -> BOOLEAN] /\ snapshot' \in [Clients -> Nat]
      /\ told' \in [Clients -> SUBSET Nat] /\ UNCHANGED connections
  <2>0. Len(committed) \in Nat /\ 1 .. Len(committed) \subseteq Nat /\ e.n \in Nat
    BY <1>0, StreamAssumption DEF WireInv, Event
  <2>1. \E b : reconciled' = [reconciled EXCEPT ![c] = @ \/ b]
    BY Zenon DEF Process
  <2>2. reconciled' \in [Clients -> BOOLEAN]
    BY <2>1, <1>0 DEF TypeOK
  <2>3. snapshot' = [snapshot EXCEPT ![c] = Len(committed)] \/ snapshot' = [snapshot EXCEPT ![c] = @]
    BY DEF Process
  <2>4. snapshot' \in [Clients -> Nat]
    BY <2>0, <2>3, <1>0 DEF TypeOK
  <2>5. \/ told' = [told EXCEPT ![c] = 1 .. Len(committed)]
        \/ told' = [told EXCEPT ![c] = @ \cup {e.n}]
        \/ told' = [told EXCEPT ![c] = @]
    BY DEF Process
  <2>6. told' \in [Clients -> SUBSET Nat]
    <3>1. told \in [Clients -> SUBSET Nat]
      BY <1>0 DEF TypeOK
    <3>2. told[c] \cup {e.n} \subseteq Nat
      BY <3>1, <2>0
    <3>3. \E T \in SUBSET Nat : told' = [told EXCEPT ![c] = T]
      BY <3>1, <3>2, <2>0, <2>5
    <3>4. QED BY <3>1, <3>3
  <2>7. UNCHANGED connections
    BY DEF Process
  <2>8. QED BY <2>2, <2>4, <2>6, <2>7
<1>2. /\ cursor' \in [Clients -> AnyCursor]
      /\ \A d \in Clients : d # c => cursor'[d] = cursor[d]
      /\ cursor'[c] = IF Relation(cursor[c], e.id) \notin {"duplicate", "out_of_order"} /\ e.id # NoCursor
                      THEN e.id ELSE cursor[c]
  <2>1. e.id \in AnyCursor
    BY DEF Event
  <2>2. cursor \in [Clients -> AnyCursor]
    BY <1>0 DEF TypeOK
  <2>3. cursor' = [cursor EXCEPT ![c] =
                     IF Relation(cursor[c], e.id) \notin {"duplicate", "out_of_order"} /\ e.id # NoCursor
                     THEN e.id ELSE @]
    BY DEF Process
  <2>4. QED BY <2>1, <2>2, <2>3
<1>3. TypeOK'
  BY <1>0, <1>1, <1>2 DEF TypeOK, worker, bridge, hub, losses
<1>4. WireInv' /\ LogInv'
  BY <1>0 DEF WireInv, LogInv, worker, bridge, hub, Here
<1>5. epoch' = epoch /\ nextEventID' = nextEventID /\ start' = start /\ log' = log /\ on' = on
  BY DEF hub
<1>6. NoCursor \notin Cursor /\ start[c] \in Nat /\ nextEventID \in Nat
  BY <1>0, StreamAssumption DEF TypeOK
\* Where the cursor is afterwards.
<1>7. \/ e.id = NoCursor /\ e.kind = "connected" /\ cursor'[c] = cursor[c]
      \/ /\ e.id \in Cursor /\ e.id.epoch = epoch /\ e.id.seq \in Nat
         /\ cursor'[c] = e.id /\ e.id.seq >= Position(c)
      \/ /\ e.id \in Cursor /\ e.id.epoch = epoch /\ e.id.seq \in Nat
         /\ cursor'[c] = cursor[c] /\ e.id.seq <= Position(c)
  <2>1. CASE e.id = NoCursor /\ e.kind = "connected"
    BY <2>1, <1>2
  <2>2. CASE /\ e.id \in Cursor /\ e.id.epoch = epoch
             /\ Current(cursor[c]) \/ e.id.seq >= start[c]
    <3>1. e.id.seq \in Nat /\ e.id # NoCursor
      BY <2>2, <1>6 DEF Cursor
    <3>2. CASE Current(cursor[c])
      <4>1. Position(c) = cursor[c].seq /\ cursor[c].seq \in Nat /\ cursor[c] \in Cursor /\ cursor[c].epoch = epoch
        BY <3>2 DEF Current, Position, Cursor
      <4>2. CASE e.id = cursor[c]
        BY <4>1, <4>2, <3>1, <2>2, <1>2
      <4>3. CASE e.id # cursor[c] /\ e.id.seq < cursor[c].seq
        <5>1. Relation(cursor[c], e.id) = "out_of_order"
          BY <4>1, <4>3, <2>2 DEF Relation
        <5>2. QED BY <5>1, <4>1, <4>3, <3>1, <2>2, <1>2
      <4>4. CASE e.id # cursor[c] /\ ~ (e.id.seq < cursor[c].seq)
        <5>1. Relation(cursor[c], e.id) = "forward"
          BY <4>1, <4>4, <2>2 DEF Relation
        <5>2. QED BY <5>1, <4>1, <4>4, <3>1, <2>2, <1>2
      <4>5. QED BY <4>2, <4>3, <4>4
    <3>3. CASE ~ Current(cursor[c])
      <4>1. Position(c) = start[c] /\ e.id.seq >= start[c]
        BY <3>3, <2>2 DEF Current, Position
      <4>2. Relation(cursor[c], e.id) \in {"forward", "epoch_changed"}
        BY <3>3, <2>2 DEF Relation, Current
      <4>3. QED BY <4>1, <4>2, <3>1, <2>2, <1>2
    <3>4. QED BY <3>2, <3>3
  <2>3. QED BY <2>1, <2>2 DEF Fits
<1>8. Current(cursor[c]) => Current(cursor[c])'
  BY <1>5, <1>7 DEF Current
<1>9. QueueInv'
  <2>1. ASSUME NEW d \in Clients, NEW x, Fits(d, x)
        PROVE  Fits(d, x)'
    <3>1. Current(cursor[d]) => Current(cursor[d])'
      BY <1>2, <1>5, <1>8 DEF Current
    <3>2. QED BY <2>1, <3>1, <1>5 DEF Fits
  <2>2. ASSUME NEW d \in Clients
        PROVE  /\ ~ on[d] => out'[d] = <<>> /\ ch'[d] = <<>>
               /\ on[d] => start[d] <= nextEventID
               /\ \A i \in DOMAIN out'[d] : \A x : x = out'[d][i] => Fits(d, x)'
               /\ \A i \in DOMAIN ch'[d] : \A x : x = ch'[d][i] => Fits(d, x)'
    <3>1. /\ ~ on[d] => out'[d] = <<>> /\ ch'[d] = <<>>
          /\ on[d] => start[d] <= nextEventID
      BY <1>0, Zenon DEF QueueInv
    <3>2. ASSUME NEW i \in DOMAIN out'[d], NEW x, x = out'[d][i]
          PROVE  Fits(d, x)'
      <4>1. \E j \in DOMAIN out[d] : x = out[d][j]
        BY <3>2, SMTT(30)
      <4>2. Fits(d, x)
        BY <4>1, <1>0 DEF QueueInv
      <4>3. QED BY <4>2, <2>1
    <3>3. ASSUME NEW i \in DOMAIN ch'[d], NEW x, x = ch'[d][i]
          PROVE  Fits(d, x)'
      <4>1. \E j \in DOMAIN ch[d] : x = ch[d][j]
        BY <3>3
      <4>2. Fits(d, x)
        BY <4>1, <1>0 DEF QueueInv
      <4>3. QED BY <4>2, <2>1
    <3>4. QED BY <3>1, <3>2, <3>3
  <2>3. QED BY <2>2, <1>5 DEF QueueInv
<1>10. CoverInv'
  <2>1. \A x, i : Covers(x, i) => Covers(x, i)'
    BY <1>5 DEF Covers, Here
  <2>2. \A d \in Clients : d # c => Position(d)' = Position(d) /\ Queued(d)' = Queued(d)
    BY <1>2, <1>5 DEF Position, Queued
  <2>3. Position(c) \in Nat
    BY <1>6 DEF Position, Cursor
  <2>4. ASSUME NEW i \in DOMAIN log, i > Position(c)', SubscriberMatches(c, log[i])
        PROVE  \E x \in Queued(c)' : Covers(x, i)'
    <3>0. i \in Nat
      BY <1>0 DEF TypeOK
    <3>1. /\ cursor'[c] = cursor[c] => Position(c)' = Position(c)
          /\ cursor'[c] = e.id /\ e.id \in Cursor /\ e.id.epoch = epoch => Position(c)' = e.id.seq
      BY <1>5 DEF Position
    <3>2. i > Position(c)
      BY <3>0, <3>1, <2>3, <2>4, <1>7
    <3>3. PICK x \in Queued(c) : Covers(x, i)
      BY <3>2, <2>4, <1>0 DEF CoverInv
    <3>4. x # e
      <4> SUFFICES ASSUME x = e PROVE FALSE
        OBVIOUS
      <4>1. log[i].id = Here(i) /\ Here(i) \in Cursor /\ Here(i).seq = i
        BY <3>0, <1>0 DEF LogInv, Here, Cursor, TypeOK
      <4>2. e.id \in Cursor /\ e.id.seq \in Nat /\ e.id.seq >= i
        BY <4>1, <3>0, <3>3, <1>6, <1>7 DEF Covers
      <4>3. Position(c)' >= e.id.seq
        BY <3>1, <4>2, <2>3, <1>6, <1>7
      <4>4. Position(c)' \in Nat
        BY <3>1, <4>2, <2>3, <1>6, <1>7
      <4>5. QED BY <4>2, <4>3, <4>4, <3>0, <2>4
    <3>5. QED BY <3>3, <3>4, <2>1
  <2>5. QED BY <2>1, <2>2, <2>4, <1>0, <1>5 DEF CoverInv, SubscriberMatches
<1>11. QED BY <1>3, <1>4, <1>9, <1>10 DEF IndInv

(* Lemma: a queue that loses its head keeps its order.                     *)
LEMMA TailAscends ==
  ASSUME NEW s \in Seq(Event), s # <<>>, Ascending(s)
  PROVE  /\ Tail(s) \in Seq(Event) /\ Len(Tail(s)) = Len(s) - 1 /\ Ascending(Tail(s))
         /\ Head(s) = s[1] /\ 1 \in DOMAIN s
         /\ \A i \in DOMAIN Tail(s) : i + 1 \in DOMAIN s /\ Tail(s)[i] = s[i + 1]
         /\ \A i \in DOMAIN s : i = 1 \/ (i - 1 \in DOMAIN Tail(s) /\ s[i] = Tail(s)[i - 1])
<1>1. PICK t : t = Tail(s)
  OBVIOUS
<1>2. /\ t \in Seq(Event) /\ Len(s) \in Nat /\ Len(s) >= 1 /\ Len(t) = Len(s) - 1
      /\ DOMAIN s = 1 .. Len(s) /\ DOMAIN t = 1 .. Len(s) - 1
      /\ Head(s) = s[1]
      /\ \A i \in 1 .. Len(s) - 1 : t[i] = s[i + 1]
  BY <1>1, HeadTailProperties
<1>3. \A i \in DOMAIN t : i + 1 \in DOMAIN s /\ t[i] = s[i + 1]
  BY <1>2
<1>4. \A i \in DOMAIN s : i = 1 \/ (i - 1 \in DOMAIN t /\ s[i] = t[i - 1])
  BY <1>2
<1>5. Ascending(t)
  <2>1. ASSUME NEW i \in DOMAIN t, NEW j \in DOMAIN t, i < j
        PROVE  Before(t[i], t[j])
    <3>1. i + 1 \in DOMAIN s /\ j + 1 \in DOMAIN s /\ i + 1 < j + 1
      BY <2>1, <1>2
    <3>2. Before(s[i + 1], s[j + 1])
      BY <3>1 DEF Ascending
    <3>3. QED BY <3>2, <1>3
  <2>2. QED BY <2>1 DEF Ascending
<1>6. QED BY <1>1, <1>2, <1>3, <1>4, <1>5

(* Lemma: the prelude is read first.                                       *)
LEMMA ReceivePreludeInv ==
  ASSUME IndInv, NEW c \in Clients, ReceivePrelude(c)
  PROVE  IndInv'
<1>0. TypeOK /\ QueueInv /\ OrderInv
  BY DEF IndInv
<1>1. /\ on[c] /\ out[c] # <<>> /\ Process(c, Head(out[c]))
      /\ out' = [out EXCEPT ![c] = Tail(@)]
      /\ UNCHANGED <<worker, bridge, hub, on, start, losses>> /\ ch' = ch
  BY DEF ReceivePrelude
<1>2. PICK s : s = out[c]
  OBVIOUS
<1>3. s \in Seq(Event) /\ s # <<>> /\ Ascending(s)
  BY <1>0, <1>1, <1>2 DEF TypeOK, OrderInv
<1>4. PICK e : e = Head(s)
  OBVIOUS
<1>5. PICK t : t = Tail(s)
  OBVIOUS
<1>6. /\ t \in Seq(Event) /\ Ascending(t) /\ e = s[1] /\ 1 \in DOMAIN s
      /\ \A i \in DOMAIN t : i + 1 \in DOMAIN s /\ t[i] = s[i + 1]
      /\ \A i \in DOMAIN s : i = 1 \/ (i - 1 \in DOMAIN t /\ s[i] = t[i - 1])
  BY <1>3, <1>4, <1>5, TailAscends
<1>7. /\ \A d \in Clients : d # c => out'[d] = out[d] /\ ch'[d] = ch[d]
      /\ out'[c] = t /\ ch'[c] = ch[c]
  BY <1>0, <1>1, <1>2, <1>5 DEF TypeOK
<1>8. e \in Event /\ Fits(c, e) /\ Process(c, e)
  <2>1. e \in Event
    BY <1>3, <1>6
  <2>2. Fits(c, e)
    BY <1>0, <1>2, <1>6 DEF QueueInv
  <2>3. QED BY <2>1, <2>2, <1>1, <1>2, <1>4
<1>9. /\ out' \in [Clients -> Seq(Event)] /\ ch' \in [Clients -> Seq(Event)]
      /\ \A d \in Clients : Len(ch'[d]) <= Buffer
  BY <1>0, <1>1, <1>2, <1>5, <1>6 DEF TypeOK
<1>10. /\ \A i \in DOMAIN out'[c] : \E j \in DOMAIN out[c] : out'[c][i] = out[c][j]
       /\ \A i \in DOMAIN ch'[c] : \E j \in DOMAIN ch[c] : ch'[c][i] = ch[c][j]
  BY <1>2, <1>6, <1>7
<1>11. \A x \in Queued(c) : x = e \/ x \in Queued(c)'
  <2>1. \A i \in DOMAIN s : s[i] = e \/ \E j \in DOMAIN t : s[i] = t[j]
    BY <1>6
  <2>2. QED BY <2>1, <1>2, <1>7 DEF Queued
<1>12. OrderInv'
  <2>1. ASSUME NEW d \in Clients
        PROVE  /\ Ascending(out'[d]) /\ Ascending(ch'[d])
               /\ \A i \in DOMAIN out'[d], j \in DOMAIN ch'[d] : Before(out'[d][i], ch'[d][j])
    <3>1. CASE d = c
      <4>1. \A i \in DOMAIN t, j \in DOMAIN ch[c] : Before(t[i], ch[c][j])
        BY <1>0, <1>2, <1>6 DEF OrderInv
      <4>2. QED BY <3>1, <4>1, <1>0, <1>6, <1>7 DEF OrderInv
    <3>2. CASE d # c
      BY <3>2, <1>0, <1>7 DEF OrderInv
    <3>3. QED BY <3>1, <3>2
  <2>2. QED BY <2>1 DEF OrderInv, Ascending, Before
<1>13. QED BY <1>1, <1>7, <1>8, <1>9, <1>10, <1>11, <1>12, ReceiveStep

(* Lemma: then the channel.                                                *)
LEMMA ReceiveEventInv ==
  ASSUME IndInv, NEW c \in Clients, ReceiveEvent(c)
  PROVE  IndInv'
<1>0. TypeOK /\ QueueInv /\ OrderInv
  BY DEF IndInv
<1>1. /\ on[c] /\ ch[c] # <<>> /\ Process(c, Head(ch[c]))
      /\ ch' = [ch EXCEPT ![c] = Tail(@)]
      /\ UNCHANGED <<worker, bridge, hub, on, start, losses>> /\ out' = out
  BY DEF ReceiveEvent
<1>2. PICK s : s = ch[c]
  OBVIOUS
<1>3. s \in Seq(Event) /\ s # <<>> /\ Ascending(s) /\ Len(s) <= Buffer
  BY <1>0, <1>1, <1>2 DEF TypeOK, OrderInv
<1>4. PICK e : e = Head(s)
  OBVIOUS
<1>5. PICK t : t = Tail(s)
  OBVIOUS
<1>6. /\ t \in Seq(Event) /\ Ascending(t) /\ e = s[1] /\ 1 \in DOMAIN s /\ Len(t) = Len(s) - 1
      /\ \A i \in DOMAIN t : i + 1 \in DOMAIN s /\ t[i] = s[i + 1]
      /\ \A i \in DOMAIN s : i = 1 \/ (i - 1 \in DOMAIN t /\ s[i] = t[i - 1])
  BY <1>3, <1>4, <1>5, TailAscends
<1>7. /\ \A d \in Clients : d # c => out'[d] = out[d] /\ ch'[d] = ch[d]
      /\ out'[c] = out[c] /\ ch'[c] = t
  BY <1>0, <1>1, <1>2, <1>5 DEF TypeOK
<1>8. e \in Event /\ Fits(c, e) /\ Process(c, e)
  <2>1. e \in Event
    BY <1>3, <1>6
  <2>2. Fits(c, e)
    BY <1>0, <1>2, <1>6 DEF QueueInv
  <2>3. QED BY <2>1, <2>2, <1>1, <1>2, <1>4
<1>9. /\ out' \in [Clients -> Seq(Event)] /\ ch' \in [Clients -> Seq(Event)]
      /\ \A d \in Clients : Len(ch'[d]) <= Buffer
  <2>1. out' \in [Clients -> Seq(Event)] /\ ch' \in [Clients -> Seq(Event)]
    BY <1>0, <1>1, <1>2, <1>5, <1>6 DEF TypeOK
  <2>2. Len(t) <= Buffer
    BY <1>3, <1>6, StreamAssumption
  <2>3. \A d \in Clients : Len(ch[d]) <= Buffer
    BY <1>0 DEF TypeOK
  <2>4. QED BY <2>1, <2>2, <2>3, <1>7
<1>10. /\ \A i \in DOMAIN out'[c] : \E j \in DOMAIN out[c] : out'[c][i] = out[c][j]
       /\ \A i \in DOMAIN ch'[c] : \E j \in DOMAIN ch[c] : ch'[c][i] = ch[c][j]
  BY <1>2, <1>6, <1>7
<1>11. \A x \in Queued(c) : x = e \/ x \in Queued(c)'
  <2>1. \A i \in DOMAIN s : s[i] = e \/ \E j \in DOMAIN t : s[i] = t[j]
    BY <1>6
  <2>2. QED BY <2>1, <1>2, <1>7 DEF Queued
<1>12. OrderInv'
  <2>1. ASSUME NEW d \in Clients
        PROVE  /\ Ascending(out'[d]) /\ Ascending(ch'[d])
               /\ \A i \in DOMAIN out'[d], j \in DOMAIN ch'[d] : Before(out'[d][i], ch'[d][j])
    <3>1. CASE d = c
      <4>1. \A i \in DOMAIN out[c], j \in DOMAIN t : Before(out[c][i], t[j])
        BY <1>0, <1>2, <1>6 DEF OrderInv
      <4>2. QED BY <3>1, <4>1, <1>0, <1>6, <1>7 DEF OrderInv
    <3>2. CASE d # c
      BY <3>2, <1>0, <1>7 DEF OrderInv
    <3>3. QED BY <3>1, <3>2
  <2>2. QED BY <2>1 DEF OrderInv, Ascending, Before
<1>13. QED BY <1>1, <1>7, <1>8, <1>9, <1>10, <1>11, <1>12, ReceiveStep

-----------------------------------------------------------------------------
(* Lemma: every step keeps the invariant.                                  *)
LEMMA NextInv ==
  ASSUME IndInv, [Next]_vars
  PROVE  IndInv'
<1>0. TypeOK /\ WireInv /\ LogInv /\ QueueInv /\ CoverInv /\ OrderInv
  BY DEF IndInv
<1>1. CASE UNCHANGED vars
  <2>1. UNCHANGED <<hub, on, out, ch, cursor, start>>
    BY <1>1 DEF vars, client
  <2>2. LogInv' /\ QueueInv' /\ CoverInv' /\ OrderInv'
    BY <2>1, <1>0, QuietStep
  <2>3. TypeOK'
    BY <1>0, <1>1 DEF TypeOK, vars, worker, bridge, hub, client, losses
  <2>4. WireInv'
    BY <1>0, <1>1 DEF WireInv, vars, worker, bridge
  <2>5. QED BY <2>2, <2>3, <2>4 DEF IndInv
<1>2. CASE Commit \/ Notify \/ NotifyFails \/ Listen \/ Undecodable \/ LinkDrop
  BY <1>2, BridgeInv
<1>3. CASE Announce \/ Dispatch
  BY <1>3, AnnounceDispatchInv
<1>4. CASE ApiRestart
  BY <1>4, RestartInv
<1>5. ASSUME NEW c \in Clients, SubscribeFrom(c) \/ Disconnect(c) \/ ReceivePrelude(c) \/ ReceiveEvent(c)
      PROVE  IndInv'
  BY <1>5, SubscribeInv, DisconnectInv, ReceivePreludeInv, ReceiveEventInv
<1>6. QED BY <1>1, <1>2, <1>3, <1>4, <1>5 DEF Next

(* The inductive invariant holds in every state of the stream.             *)
THEOREM IndInvHolds == Spec => []IndInv
<1>1. Init => IndInv
  BY InitInv
<1>2. IndInv /\ [Next]_vars => IndInv'
  BY NextInv
<1>3. QED BY <1>1, <1>2, PTL DEF Spec

(* No event is skipped silently: whatever is published, drained from a     *)
(* full channel, dropped from the window, replayed or lost with a          *)
(* connection or a process, a connected client has every event it still    *)
(* needs in its queue, or a gap that covers it.                            *)
THEOREM HubSkipsNothing == Spec => []NothingSkipped
<1>1. IndInv => NothingSkipped
  BY DEF IndInv, CoverInv, Covers, NothingSkipped
<1>2. QED BY <1>1, IndInvHolds, PTL

(* A connected client gets events in the order of their numbers, replay    *)
(* before live events, none twice.                                         *)
THEOREM HubKeepsOrder == Spec => []QueuedInOrder
<1>1. ASSUME IndInv, NEW c \in Clients, NEW q, q = out[c] \o ch[c], NEW i \in DOMAIN q, NEW j \in DOMAIN q,
             i < j, q[i].id \in Cursor, q[j].id \in Cursor
      PROVE  q[i].id.seq < q[j].id.seq
  <2>1. PICK a, b : a = out[c] /\ b = ch[c] /\ a \in Seq(Event) /\ b \in Seq(Event)
    BY <1>1 DEF IndInv, TypeOK
  <2>2. /\ Len(a) \in Nat /\ Len(b) \in Nat /\ DOMAIN a = 1 .. Len(a) /\ DOMAIN b = 1 .. Len(b)
        /\ DOMAIN q = 1 .. Len(a) + Len(b)
        /\ \A k \in 1 .. Len(a) : q[k] = a[k]
        /\ \A k \in Len(a) + 1 .. Len(a) + Len(b) : q[k] = b[k - Len(a)]
    <3>1. q = a \o b
      BY <2>1, <1>1
    <3>2. Len(a) \in Nat /\ Len(b) \in Nat /\ DOMAIN a = 1 .. Len(a) /\ DOMAIN b = 1 .. Len(b)
      BY <2>1
    <3>3. /\ q \in Seq(Event) /\ Len(q) = Len(a) + Len(b)
          /\ \A k \in 1 .. Len(a) + Len(b) : q[k] = IF k <= Len(a) THEN a[k] ELSE b[k - Len(a)]
      BY <3>1, <2>1, ConcatProperties
    <3>4. DOMAIN q = 1 .. Len(a) + Len(b)
      BY <3>3
    <3>5. \A k \in 1 .. Len(a) : q[k] = a[k]
      BY <3>2, <3>3
    <3>6. \A k \in Len(a) + 1 .. Len(a) + Len(b) : q[k] = b[k - Len(a)]
      BY <3>2, <3>3
    <3>7. QED BY <3>2, <3>4, <3>5, <3>6
  <2>3. /\ Ascending(a) /\ Ascending(b)
        /\ \A k \in DOMAIN a, l \in DOMAIN b : Before(a[k], b[l])
    BY <2>1, <1>1 DEF IndInv, OrderInv
  <2>4. Before(q[i], q[j])
    <3>0. i \in 1 .. Len(a) + Len(b) /\ j \in 1 .. Len(a) + Len(b) /\ i < j
      BY <2>2, <1>1
    <3>1. CASE j <= Len(a)
      <4>1. i \in DOMAIN a /\ j \in DOMAIN a /\ q[i] = a[i] /\ q[j] = a[j]
        BY <3>0, <3>1, <2>2
      <4>2. QED BY <3>0, <4>1, <2>3 DEF Ascending
    <3>2. CASE i <= Len(a) /\ j > Len(a)
      <4>1. i \in DOMAIN a /\ j - Len(a) \in DOMAIN b /\ q[i] = a[i] /\ q[j] = b[j - Len(a)]
        BY <3>2, <2>2
      <4>2. QED BY <4>1, <2>3
    <3>3. CASE i > Len(a)
      <4>1. /\ i - Len(a) \in DOMAIN b /\ j - Len(a) \in DOMAIN b /\ i - Len(a) < j - Len(a)
            /\ q[i] = b[i - Len(a)] /\ q[j] = b[j - Len(a)]
        BY <3>0, <3>3, <2>2
      <4>2. QED BY <4>1, <2>3 DEF Ascending
    <3>4. QED BY <3>1, <3>2, <3>3, <2>2
  <2>5. QED BY <2>4, <1>1 DEF Before
<1>2. IndInv => QueuedInOrder
  BY <1>1 DEF QueuedInOrder
<1>3. QED BY <1>2, IndInvHolds, PTL
=============================================================================
