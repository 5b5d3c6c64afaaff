--------------------------- MODULE LedgerSyncProofs ---------------------------
(***************************************************************************)
(* Theorems about LedgerSync, for any orders, quantities, batches and      *)
(* scenarios.                                                              *)
(***************************************************************************)
EXTENDS LedgerSync, FiniteSetTheorems, SequenceTheorems, TLAPS

(* The gateway never fills more than the order.                            *)
BrokerStatus == TerminalStatus \cup {"new", "working", "partially_filled"}
BrokerInv ==
  /\ pages \in Nat /\ scenario \in Scenarios
  /\ broker \in [Orders -> [st : BrokerStatus, cum : 0 .. Qty]]
  /\ \A o \in Orders : /\ broker[o].st = "new" => broker[o].cum = 0
                       /\ Live(o) => broker[o].cum < Qty

(* The entries: a report carries the quantity of its order, and only a     *)
(* page or a list of fills has several items.                              *)
Trades == {"fill", "transfer"}
Reports == {"order", "page", "reject", "batch"}
Kinds == Reports \cup Trades \cup {"fee", "cancel", "note", "garbled"}
OrderReport ==
  [st : BrokerStatus, gw : BrokerStatus, qty : {Qty}, cum : 0 .. Qty, leaves : 0 .. Qty,
   canc : 0 .. Qty, term : BOOLEAN, rej : {"", "E1", "BROKER_NOT_READY"}, full : BOOLEAN]
EntryOK(e) ==
  /\ e.kind \in Kinds
  /\ Len(e.items) \in Nat /\ DOMAIN e.items = 1 .. Len(e.items)
  /\ e.kind \notin {"note", "garbled"} => Len(e.items) > 0
  /\ e.kind \notin Trades \cup {"page"} => Len(e.items) <= 1
  /\ \A k \in DOMAIN e.items :
       /\ e.items[k].o \in Orders
       /\ e.kind \in Reports \cup Trades =>
            /\ e.items[k].rep \in OrderReport
            /\ e.items[k].lot \in 0 .. Qty /\ e.items[k].etf \in BOOLEAN
       /\ e.kind = "cancel" => e.items[k].status \in OrderCancelAttempt
       /\ e.kind = "fee" => e.items[k].asOf \in 1 .. pages /\ e.items[k].done \in BOOLEAN
StreamInv ==
  /\ DOMAIN stream = RoleSet
  /\ \A r \in RoleSet :
       /\ stream[r] \in Seq(Range(stream[r]))
       /\ \A i \in DOMAIN stream[r] : EntryOK(stream[r][i])

(* The tables, and the archived entries among those of the streams.        *)
RowsOK == DOMAIN rows = Orders /\ \A o \in Orders : rows[o] = NoRow \/ CheckConstraints(rows[o])
LotsOK == /\ fills \in [Orders -> SUBSET Fill] /\ transfers \in [Orders -> SUBSET ComponentTransfer]
          /\ summary \in [Orders -> 0 .. Qty]
RecordsOK == /\ feeRecords \in [Orders -> {NoFee} \cup OrderFeeRecord]
             /\ attempts \in [Orders -> {"none"} \cup OrderCancelAttempt]
ArchiveOK == /\ archive \in Seq(RoleSet \X Nat)
             /\ \A e \in Range(archive) : e[2] \in DOMAIN stream[e[1]]
             /\ DOMAIN todo \subseteq Nat /\ \A k \in DOMAIN todo : todo[k] \in Range(archive)
CursorsOK == \A c \in {ckpt, cursor, hi} :
               c \in [RoleSet -> Nat] /\ \A r \in RoleSet : c[r] <= Len(stream[r])
TablesInv == RowsOK /\ LotsOK /\ RecordsOK /\ ArchiveOK /\ CursorsOK

(* Where a process is in an entry: at a statement for the kind of the      *)
(* entry, the items before the current one being booked.                   *)
StatementsOf(e, k) ==
  CASE e.kind = "order" -> {"order", "summary", "append"}
    [] e.kind = "page" -> {"order", "summary"}
    [] e.kind \in {"reject", "batch"} -> {"order", "append"}
    [] e.kind \in Trades -> IF e.items[k].etf THEN {"transfer"} ELSE {"fill", "purge"}
    [] e.kind \in {"fee", "cancel"} -> {e.kind}
    [] OTHER -> {}
LotsBooked(e, n) ==
  e.kind \in Trades =>
    \A k \in 1 .. n :
      e.items[k].lot \in (IF e.items[k].etf THEN transfers ELSE fills)[e.items[k].o]
InEntry(p) ==
  /\ at[p].idx \in DOMAIN stream[at[p].role]
  /\ at[p].pc = "archive" => at[p].item = 1
  /\ at[p].pc # "archive" =>
       /\ EntryOf(p) \in Range(archive) /\ ~ Refused(Current(p))
       /\ at[p].item \in DOMAIN Current(p).items
       /\ at[p].pc \in StatementsOf(Current(p), at[p].item)
       /\ LotsBooked(Current(p), at[p].item - 1)
       /\ at[p].pc = "purge" => LotsBooked(Current(p), at[p].item)
PlaceInv ==
  /\ at \in [Processes -> [pc : Statements \cup {"read", "report", "next", "down"},
                           role : RoleSet, idx : Nat, item : Nat \ {0}]]
  /\ at["worker"].pc # "next" /\ at["replay"].pc \notin {"read", "report"}
  /\ \A p \in Processes : at[p].pc \in Statements => InEntry(p)

(* The batch the worker is in, and what it has worked off.                 *)
BatchInv ==
  /\ at["worker"].pc \notin {"read", "down"} => \A r \in RoleSet : cursor[r] <= hi[r]
  /\ at["worker"].pc \in Statements =>
       /\ cursor[at["worker"].role] < at["worker"].idx
       /\ at["worker"].idx <= hi[at["worker"].role]
Worked(r, i) ==
  \/ i <= ckpt[r] \/ i <= cursor[r]
  \/ /\ at["worker"].pc \in Statements
     /\ \/ r = at["worker"].role /\ i < at["worker"].idx
        \/ r = "reply" /\ at["worker"].role = "event" /\ i <= hi["reply"]
  \/ at["worker"].pc = "report" /\ i <= hi[r]
Covered(r, i) == <<r, i>> \in Range(archive) /\ (IsBooked(r, i) \/ Refused(stream[r][i]))
CoverInv ==
  \A r \in RoleSet : \A i \in DOMAIN stream[r] :
    Worked(r, i) /\ <<r, i>> \notin skipped => Covered(r, i)

IndInv == BrokerInv /\ StreamInv /\ TablesInv /\ PlaceInv /\ BatchInv /\ CoverInv

-----------------------------------------------------------------------------
(* Lemma: a sequence and one more element.                                 *)
LEMMA AppendedIn ==
  ASSUME NEW S, NEW s \in Seq(S), NEW e \in S, NEW t, t = Append(s, e)
  PROVE  /\ t \in Seq(S) /\ Len(t) = Len(s) + 1
         /\ \A j \in 1 .. Len(s) : t[j] = s[j]
         /\ t[Len(s) + 1] = e
BY AppendProperties

LEMMA LongerRange ==
  ASSUME NEW s, NEW t, NEW n \in Nat, DOMAIN s = 1 .. n, DOMAIN t = 1 .. n + 1,
         \A j \in 1 .. n : t[j] = s[j]
  PROVE  Range(t) = Range(s) \cup {t[n + 1]}
<1>1. ASSUME NEW j \in DOMAIN t PROVE t[j] \in Range(s) \cup {t[n + 1]}
  BY <1>1 DEF Range
<1>2. ASSUME NEW j \in DOMAIN s PROVE s[j] \in Range(t)
  BY <1>2 DEF Range
<1>3. t[n + 1] \in Range(t)
  BY DEF Range
<1> QED BY <1>1, <1>2, <1>3 DEF Range

(* Lemma: archiving an entry, again or not, adds it to those archived.     *)
LEMMA ArchivedAdds ==
  ASSUME NEW S, archive \in Seq(S), NEW e \in S
  PROVE  Archived(e) \in Seq(S) /\ Range(Archived(e)) = Range(archive) \cup {e}
<1> DEFINE n == Len(archive)
<1>1. DOMAIN archive = 1 .. n /\ n \in Nat /\ \A j \in 1 .. n : archive[j] \in S
  BY LenProperties
<1>2. CASE e \in Range(archive)
  <2> DEFINE k == CHOOSE k \in DOMAIN archive : archive[k] = e
  <2>1. k \in 1 .. n /\ archive[k] = e
    BY <1>1, <1>2 DEF Range
  <2> HIDE DEF k
  <2> DEFINE a == SubSeq(archive, 1, k - 1)
             b == SubSeq(archive, k + 1, n)
             r == a \o b
  <2>2. a \in Seq(S) /\ Len(a) = k - 1 /\ \A j \in 1 .. k - 1 : a[j] = archive[j]
    BY <1>1, <2>1, SubSeqProperties
  <2>3. b \in Seq(S) /\ Len(b) = n - k /\ \A j \in 1 .. n - k : b[j] = archive[k + j]
    <3>1. k + 1 \in 1 .. n + 1 /\ n \in (k + 1) - 1 .. n
      BY <1>1, <2>1
    <3>2. /\ b \in Seq(S) /\ Len(b) = n - (k + 1) + 1
          /\ \A j \in 1 .. n - (k + 1) + 1 : b[j] = archive[(k + 1) + j - 1]
      BY <1>1, <3>1, SubSeqProperties
    <3> HIDE DEF b
    <3>3. n - (k + 1) + 1 = n - k
      BY <1>1, <2>1
    <3>4. ASSUME NEW j \in 1 .. n - k PROVE b[j] = archive[k + j]
      <4>1. (k + 1) + j - 1 = k + j
        BY <1>1, <2>1
      <4> QED BY <3>2, <3>3, <4>1
    <3> QED BY <3>2, <3>3, <3>4
  <2> HIDE DEF a, b
  <2>4. DOMAIN a = 1 .. k - 1 /\ DOMAIN b = 1 .. n - k
    BY <2>2, <2>3, LenProperties
  <2>5. r \in Seq(S) /\ Range(r) = Range(a) \cup Range(b)
    BY <2>2, <2>3, ConcatProperties, RangeConcatenation
  <2>6. Range(a) \subseteq Range(archive)
    BY <1>1, <2>1, <2>2, <2>4 DEF Range
  <2>7. Range(b) \subseteq Range(archive)
    <3>1. ASSUME NEW j \in 1 .. n - k PROVE k + j \in 1 .. n
      BY <1>1, <2>1
    <3> QED BY <1>1, <2>3, <2>4, <3>1 DEF Range
  <2>8. ASSUME NEW j \in 1 .. n PROVE archive[j] \in Range(r) \cup {e}
    <3>1. CASE j < k
      <4>1. j \in 1 .. k - 1
        BY <3>1, <1>1, <2>1
      <4> QED BY <4>1, <2>2, <2>4, <2>5 DEF Range
    <3>2. CASE j = k
      BY <3>2, <2>1
    <3>3. CASE j > k
      <4>1. j - k \in 1 .. n - k /\ b[j - k] = archive[j]
        BY <3>3, <1>1, <2>1, <2>3
      <4> QED BY <4>1, <2>4, <2>5 DEF Range
    <3> QED BY <3>1, <3>2, <3>3, <1>1, <2>1
  <2>9. Range(archive) \subseteq Range(r) \cup {e}
    BY <1>1, <2>8 DEF Range
  <2> HIDE DEF r
  <2>10. PICK t : t = Append(r, e) /\ t = Archived(e)
    <3>1. Archived(e) = Append(RemoveAt(archive, k), e)
      BY <1>2 DEF Archived, k
    <3>2. RemoveAt(archive, k) = r
      BY DEF RemoveAt, r, a, b
    <3> QED BY <3>1, <3>2
  <2>11. t \in Seq(S) /\ Range(t) = Range(r) \cup {e}
    <3>1. r \in Seq(S) /\ t = Append(r, e)
      BY <2>5, <2>10
    <3>2. t \in Seq(S) /\ Len(t) = Len(r) + 1 /\ (\A j \in 1 .. Len(r) : t[j] = r[j]) /\ t[Len(r) + 1] = e
      BY <3>1, AppendedIn
    <3>3. Len(r) \in Nat /\ DOMAIN r = 1 .. Len(r) /\ DOMAIN t = 1 .. Len(r) + 1
      BY <3>1, <3>2, LenProperties, Zenon
    <3>4. PICK m \in Nat : m = Len(r)
      BY <3>3
    <3>5. DOMAIN r = 1 .. m /\ DOMAIN t = 1 .. m + 1 /\ \A j \in 1 .. m : t[j] = r[j]
      BY <3>2, <3>3, <3>4
    <3>6. Range(t) = Range(r) \cup {t[m + 1]}
      BY <3>4, <3>5, LongerRange
    <3>7. t[m + 1] = e
      BY <3>2, <3>4
    <3> QED BY <3>2, <3>6, <3>7
  <2> QED BY <2>5, <2>6, <2>7, <2>9, <2>10, <2>11, <1>2
<1>3. CASE e \notin Range(archive)
  <2>1. PICK t : t = Append(archive, e) /\ t = Archived(e)
    BY <1>3 DEF Archived
  <2>2. t \in Seq(S) /\ Len(t) = n + 1 /\ (\A j \in 1 .. n : t[j] = archive[j]) /\ t[n + 1] = e
    <3>1. t = Append(archive, e)
      BY <2>1
    <3> QED BY <3>1, AppendedIn
  <2>3. DOMAIN t = 1 .. n + 1
    BY <2>2, LenProperties
  <2>4. Range(t) = Range(archive) \cup {e}
    BY <1>1, <2>2, <2>3, LongerRange
  <2> QED BY <2>1, <2>2, <2>4
<1> QED BY <1>2, <1>3

-----------------------------------------------------------------------------
(* What no step undoes: entries stay in the streams and in the archive,    *)
(* and what is booked stays booked.                                        *)
Grows ==
  /\ \A r \in RoleSet : \A i \in DOMAIN stream[r] :
       i \in DOMAIN stream'[r] /\ stream'[r][i] = stream[r][i]
  /\ Range(archive) \subseteq Range(archive') /\ events \subseteq events'
  /\ \A o \in Orders :
       /\ fills[o] \subseteq fills'[o] /\ transfers[o] \subseteq transfers'[o]
       /\ attempts[o] # "none" => attempts'[o] # "none"
       /\ feeRecords[o] # NoFee => feeRecords'[o] # NoFee

LEMMA StreamLengths ==
  ASSUME StreamInv, NEW r \in RoleSet
  PROVE  /\ Len(stream[r]) \in Nat /\ DOMAIN stream[r] = 1 .. Len(stream[r])
         /\ \A i \in DOMAIN stream[r] : EntryOK(stream[r][i])
<1>1. stream[r] \in Seq(Range(stream[r])) /\ \A i \in DOMAIN stream[r] : EntryOK(stream[r][i])
  BY DEF StreamInv
<1> QED BY <1>1, LenProperties

LEMMA LotsStay ==
  ASSUME NEW e, EntryOK(e), NEW n \in Nat, n <= Len(e.items), LotsBooked(e, n), Grows
  PROVE  LotsBooked(e, n)'
<1> SUFFICES ASSUME e.kind \in Trades, NEW k \in 1 .. n
             PROVE  e.items[k].lot \in (IF e.items[k].etf THEN transfers' ELSE fills')[e.items[k].o]
  BY DEF LotsBooked
<1>1. k \in DOMAIN e.items /\ e.items[k].o \in Orders
  BY DEF EntryOK
<1>2. e.items[k].lot \in (IF e.items[k].etf THEN transfers ELSE fills)[e.items[k].o]
  BY DEF LotsBooked
<1> QED BY <1>1, <1>2 DEF Grows

LEMMA CoveredStays ==
  ASSUME StreamInv, Grows, NEW r \in RoleSet, NEW i \in DOMAIN stream[r], Covered(r, i)
  PROVE  Covered(r, i)'
<1>0. PICK e : e = stream[r][i]
  OBVIOUS
<1>1. EntryOK(e) /\ stream'[r][i] = e
  BY <1>0, StreamLengths DEF Grows
<1>2. CASE Refused(e)
  BY <1>0, <1>1, <1>2 DEF Covered, Grows
<1>3. CASE IsBooked(r, i)
  <2>1. Len(e.items) \in Nat /\ DOMAIN e.items = 1 .. Len(e.items)
    BY <1>1 DEF EntryOK
  <2>2. e.kind \in Trades => LotsBooked(e, Len(e.items))'
    <3>1. e.kind \in Trades => LotsBooked(e, Len(e.items))
      BY <1>0, <1>3, <2>1 DEF IsBooked, LotsBooked, Trades
    <3> QED BY <1>1, <2>1, <3>1, LotsStay
  <2>3. e.kind \in {"cancel", "fee"} => e.items[1].o \in Orders
    BY <1>1, <2>1 DEF EntryOK, Trades
  <2>4. /\ e.kind \in {"order", "reject", "batch"} => <<r, i>> \in events
        /\ e.kind = "cancel" => attempts[e.items[1].o] # "none"
        /\ e.kind = "fee" => feeRecords[e.items[1].o] # NoFee
    BY <1>0, <1>3 DEF IsBooked
  <2>5. /\ e.kind \in {"order", "reject", "batch"} => <<r, i>> \in events'
        /\ e.kind = "cancel" => attempts'[e.items[1].o] # "none"
        /\ e.kind = "fee" => feeRecords'[e.items[1].o] # NoFee
    BY <2>3, <2>4 DEF Grows
  <2>6. e.kind \in {"fill", "transfer"} =>
          \A k \in DOMAIN e.items :
            e.items[k].lot \in (IF e.items[k].etf THEN transfers' ELSE fills')[e.items[k].o]
    BY <2>1, <2>2 DEF LotsBooked, Trades
  <2>7. IsBooked(r, i)'
    BY <1>1, <2>5, <2>6 DEF IsBooked
  <2> QED BY <2>7 DEF Covered, Grows
<1> QED BY <1>0, <1>2, <1>3 DEF Covered

LEMMA EntryStays ==
  ASSUME StreamInv, PlaceInv, Grows, NEW p \in Processes, at'[p] = at[p], at[p].pc \in Statements
  PROVE  InEntry(p)'
<1>1. InEntry(p) /\ at[p].role \in RoleSet /\ at[p].item \in Nat \ {0}
  BY DEF PlaceInv
<1>0. PICK n \in Nat \ {0} : n = at[p].item
  BY <1>1
<1>6. PICK e : e = Current(p) /\ n = at[p].item
  BY <1>0
<1>2. at[p].idx \in DOMAIN stream'[at[p].role] /\ Current(p)' = e
  BY <1>6, <1>1 DEF InEntry, Grows, Current
<1>3. EntryOf(p)' = EntryOf(p)
  BY DEF EntryOf
<1>4. CASE at[p].pc = "archive"
  BY <1>1, <1>2, <1>4 DEF InEntry
<1>5. CASE at[p].pc # "archive"
  <2>1. EntryOK(e)
    BY <1>6, <1>1, StreamLengths DEF InEntry, Current
  <2>2. /\ EntryOf(p) \in Range(archive') /\ ~ Refused(e)
        /\ n \in DOMAIN e.items /\ at[p].pc \in StatementsOf(e, n)
        /\ LotsBooked(e, n - 1) /\ (at[p].pc = "purge" => LotsBooked(e, n))
    BY <1>6, <1>1, <1>5 DEF InEntry, Grows
  <2>3. n <= Len(e.items) /\ Len(e.items) \in Nat /\ n - 1 \in Nat /\ n - 1 <= Len(e.items)
    BY <2>1, <2>2 DEF EntryOK
  <2>4. LotsBooked(e, n - 1)'
    BY <2>1, <2>2, <2>3, LotsStay
  <2>5. at[p].pc = "purge" => LotsBooked(e, n)'
    BY <2>1, <2>2, <2>3, LotsStay
  <2>6. at'[p].item = n
    BY <1>6
  <2> QED BY <1>2, <1>3, <1>5, <2>2, <2>4, <2>5, <2>6 DEF InEntry
<1> QED BY <1>4, <1>5

(* Lemma: the worker goes on behind the entry it was in.                   *)
Place == [pc : Statements \cup {"read", "report", "next", "down"},
          role : RoleSet, idx : Nat, item : Nat \ {0}]
Behind(r, i) == Worked(r, i) \/ (r = at["worker"].role /\ i = at["worker"].idx)

LEMMA WorkerGoes ==
  ASSUME IndInv, at["worker"].pc \in Statements, WorkerGoesOn,
         UNCHANGED <<stream, cursor, hi, ckpt>>
  PROVE  /\ \E x \in Place : at' = [at EXCEPT !["worker"] = x]
         /\ at'["worker"].pc \in {"archive", "report"}
         /\ at'["worker"].pc = "archive" => InEntry("worker")'
         /\ BatchInv'
         /\ \A r \in RoleSet : \A i \in DOMAIN stream[r] : Worked(r, i)' => Behind(r, i)
<1> DEFINE w == at["worker"]
<1>1. /\ DOMAIN at = Processes /\ "worker" \in Processes /\ w \in Place
      /\ "report" \notin Statements /\ "archive" \in Statements
      /\ "read" \notin Statements /\ "down" \notin Statements
  BY DEF IndInv, PlaceInv, Place, Processes, Statements
<1>2. /\ cursor["reply"] \in Nat /\ cursor["event"] \in Nat /\ hi["reply"] \in Nat /\ hi["event"] \in Nat
      /\ hi["reply"] <= Len(stream["reply"]) /\ hi["event"] <= Len(stream["event"])
      /\ DOMAIN cursor = RoleSet /\ DOMAIN hi = RoleSet
  BY DEF IndInv, TablesInv, CursorsOK, RoleSet
<1>3. /\ DOMAIN stream["reply"] = 1 .. Len(stream["reply"]) /\ Len(stream["reply"]) \in Nat
      /\ DOMAIN stream["event"] = 1 .. Len(stream["event"]) /\ Len(stream["event"]) \in Nat
  BY StreamLengths DEF IndInv, RoleSet
<1>4. /\ cursor["reply"] <= hi["reply"] /\ cursor["event"] <= hi["event"]
      /\ cursor[w.role] < w.idx /\ w.idx <= hi[w.role]
  BY <1>1 DEF IndInv, BatchInv, RoleSet
<1>5. w.role \in {"reply", "event"} /\ w.idx \in Nat
  BY <1>1 DEF Place, RoleSet
<1>6. CASE w.idx < hi[w.role]
  <2>1. At("worker", "archive", w.role, w.idx + 1, 1)
    BY <1>6 DEF WorkerGoesOn
  <2> DEFINE x == [pc |-> "archive", role |-> w.role, idx |-> w.idx + 1, item |-> 1]
  <2>2. at' = [at EXCEPT !["worker"] = x] /\ at'["worker"] = x /\ x \in Place
    BY <1>1, <1>5, <2>1 DEF At, Place, RoleSet
  <2>3. w.idx + 1 \in DOMAIN stream[w.role]
    BY <1>2, <1>3, <1>5, <1>6, SMTT(30)
  <2>4. InEntry("worker")'
    BY <2>2, <2>3 DEF InEntry
  <2>5. BatchInv'
    BY <1>1, <1>2, <1>4, <1>5, <1>6, <2>2 DEF BatchInv, RoleSet
  <2>6. ASSUME NEW r \in RoleSet, NEW i \in DOMAIN stream[r], Worked(r, i)' PROVE Behind(r, i)
    <3>1. i \in Nat
      BY <1>3, <2>6 DEF RoleSet
    <3> QED BY <1>1, <1>5, <2>2, <2>6, <3>1 DEF Worked, Behind
  <2>7. x.pc \in {"archive", "report"}
    OBVIOUS
  <2> HIDE DEF x
  <2>8. /\ \E y \in Place : at' = [at EXCEPT !["worker"] = y]
        /\ at'["worker"].pc \in {"archive", "report"}
    BY <2>2, <2>7
  <2> QED BY <2>8, <2>4, <2>5, <2>6
<1>7. CASE w.idx >= hi[w.role] /\ w.role = "reply" /\ "event" \in InBatch(cursor)
  <2>1. At("worker", "archive", "event", cursor["event"] + 1, 1)
    BY <1>2, <1>4, <1>5, <1>7 DEF WorkerGoesOn
  <2> DEFINE x == [pc |-> "archive", role |-> "event", idx |-> cursor["event"] + 1, item |-> 1]
  <2>2. at' = [at EXCEPT !["worker"] = x] /\ at'["worker"] = x /\ x \in Place
    BY <1>1, <1>2, <2>1 DEF At, Place, RoleSet
  <2>3. hi["event"] > cursor["event"]
    BY <1>7 DEF InBatch
  <2>4. InEntry("worker")'
    BY <1>2, <1>3, <2>2, <2>3 DEF InEntry
  <2>5. BatchInv'
    BY <1>1, <1>2, <1>4, <2>2, <2>3 DEF BatchInv, RoleSet
  <2>6. ASSUME NEW r \in RoleSet, NEW i \in DOMAIN stream[r], Worked(r, i)' PROVE Behind(r, i)
    <3>1. i \in Nat
      BY <1>3, <2>6 DEF RoleSet
    <3> QED BY <1>1, <1>2, <1>4, <1>5, <1>7, <2>2, <2>6, <3>1 DEF Worked, Behind, RoleSet
  <2>7. x.pc \in {"archive", "report"}
    OBVIOUS
  <2> HIDE DEF x
  <2>8. /\ \E y \in Place : at' = [at EXCEPT !["worker"] = y]
        /\ at'["worker"].pc \in {"archive", "report"}
    BY <2>2, <2>7
  <2> QED BY <2>8, <2>4, <2>5, <2>6
<1>8. CASE w.idx >= hi[w.role] /\ ~ (w.role = "reply" /\ "event" \in InBatch(cursor))
  <2>1. At("worker", "report", FirstRole(InBatch(cursor)), 0, 1)
    BY <1>2, <1>4, <1>5, <1>8 DEF WorkerGoesOn
  <2> DEFINE x == [pc |-> "report", role |-> FirstRole(InBatch(cursor)), idx |-> 0, item |-> 1]
  <2>2. at' = [at EXCEPT !["worker"] = x] /\ at'["worker"] = x /\ x \in Place
    BY <1>1, <2>1 DEF At, Place, RoleSet, FirstRole
  <2>3. at'["worker"].pc = "report"
    BY <2>2
  <2>4. BatchInv'
    BY <1>1, <1>4, <2>3 DEF BatchInv, RoleSet
  <2>5. w.role = "reply" => hi["event"] <= cursor["event"]
    BY <1>2, <1>8 DEF InBatch, RoleSet
  <2>6. ASSUME NEW r \in RoleSet, NEW i \in DOMAIN stream[r], Worked(r, i)' PROVE Behind(r, i)
    <3>1. i \in Nat
      BY <1>3, <2>6 DEF RoleSet
    <3>2. i <= ckpt[r] \/ i <= cursor[r] \/ i <= hi[r]
      BY <1>1, <2>3, <2>6 DEF Worked
    <3> QED BY <1>1, <1>2, <1>4, <1>5, <1>8, <2>5, <3>1, <3>2 DEF Worked, Behind, RoleSet
  <2>7. x.pc \in {"archive", "report"}
    OBVIOUS
  <2> HIDE DEF x
  <2>8. /\ \E y \in Place : at' = [at EXCEPT !["worker"] = y]
        /\ at'["worker"].pc \in {"archive", "report"}
    BY <2>2, <2>7
  <2> QED BY <2>3, <2>8, <2>4, <2>6
<1> QED BY <1>2, <1>5, <1>6, <1>7, <1>8

LEMMA CoverKept ==
  ASSUME IndInv, Grows, stream' = stream,
         \A r \in RoleSet : \A i \in DOMAIN stream[r] :
           Worked(r, i)' /\ <<r, i>> \notin skipped' =>
             (Worked(r, i) /\ <<r, i>> \notin skipped) \/ Covered(r, i)'
  PROVE  CoverInv'
<1> SUFFICES ASSUME NEW r \in RoleSet, NEW i \in DOMAIN stream[r], Worked(r, i)', <<r, i>> \notin skipped'
             PROVE  Covered(r, i)'
  BY DEF CoverInv
<1>1. CASE Worked(r, i) /\ <<r, i>> \notin skipped
  <2>1. Covered(r, i) /\ StreamInv
    BY <1>1 DEF IndInv, CoverInv
  <2> QED BY <2>1, CoveredStays
<1> QED BY <1>1

(* Lemma: one process moves, the other stays in its entry.                 *)
LEMMA OneMoves ==
  ASSUME IndInv, Grows, NEW p \in Processes, NEW x \in Place, at' = [at EXCEPT ![p] = x],
         p = "worker" => x.pc # "next", p = "replay" => x.pc \notin {"read", "report"},
         x.pc \in Statements => InEntry(p)'
  PROVE  PlaceInv'
<1>1. at \in [Processes -> Place] /\ StreamInv /\ PlaceInv
  BY DEF IndInv, PlaceInv, Place
<1>2. at' \in [Processes -> Place]
  BY <1>1
<1>3. at'["worker"].pc # "next" /\ at'["replay"].pc \notin {"read", "report"}
  BY <1>1 DEF Processes, PlaceInv
<1>4. ASSUME NEW q \in Processes, at'[q].pc \in Statements PROVE InEntry(q)'
  <2>1. CASE q = p
    BY <1>1, <1>4, <2>1
  <2>2. CASE q # p
    <3>1. at'[q] = at[q] /\ at[q].pc \in Statements
      BY <1>1, <1>4, <2>2
    <3> QED BY <1>1, <3>1, EntryStays
  <2> QED BY <2>1, <2>2
<1> QED BY <1>2, <1>3, <1>4 DEF PlaceInv, Place

(* Lemma: an entry ends, with what it is for in the ledger or skipped.     *)
LEMMA EntryEnds ==
  ASSUME IndInv, NEW p \in Processes, at[p].pc \in Statements, NEW ok \in BOOLEAN, EndEntry(p, ok),
         Grows, UNCHANGED <<stream, cursor, hi, ckpt>>,
         NEW r \in RoleSet, NEW i \in DOMAIN stream[r], <<r, i>> = EntryOf(p),
         ok => Covered(r, i)'
  PROVE  PlaceInv' /\ BatchInv' /\ CoverInv'
<1>1. r = at[p].role /\ i = at[p].idx
  BY DEF EntryOf
<1>2. skipped' = IF ok THEN skipped \ {<<r, i>>} ELSE skipped \cup {<<r, i>>}
  BY DEF EndEntry
<1>3. CASE p = "worker"
  <2>1. WorkerGoesOn
    BY <1>3 DEF EndEntry
  <2>2. /\ \E x \in Place : at' = [at EXCEPT !["worker"] = x]
        /\ at'["worker"].pc \in {"archive", "report"}
        /\ at'["worker"].pc = "archive" => InEntry("worker")'
        /\ BatchInv'
        /\ \A s \in RoleSet : \A j \in DOMAIN stream[s] : Worked(s, j)' => Behind(s, j)
    BY <1>3, <2>1, WorkerGoes
  <2>3. PICK x \in Place : at' = [at EXCEPT ![p] = x]
    BY <1>3, <2>2
  <2>4. x = at'["worker"]
    BY <1>3, <2>3 DEF IndInv, PlaceInv, Processes
  <2>5. PlaceInv'
    BY <1>3, <2>2, <2>3, <2>4, OneMoves DEF Statements
  <2>6. ASSUME NEW s \in RoleSet, NEW j \in DOMAIN stream[s], Worked(s, j)', <<s, j>> \notin skipped'
        PROVE  (Worked(s, j) /\ <<s, j>> \notin skipped) \/ Covered(s, j)'
    <3>1. CASE s = r /\ j = i
      BY <1>2, <2>6, <3>1
    <3>2. CASE ~ (s = r /\ j = i)
      BY <1>1, <1>2, <1>3, <2>2, <2>6, <3>2 DEF Behind
    <3> QED BY <3>1, <3>2
  <2>7. CoverInv'
    BY <2>6, CoverKept
  <2> QED BY <2>2, <2>5, <2>7
<1>4. CASE p = "replay"
  <2> DEFINE x == [pc |-> "next", role |-> "reply", idx |-> 0, item |-> 1]
  <2>1. at' = [at EXCEPT ![p] = x] /\ x \in Place
    BY <1>4 DEF EndEntry, At, Place, RoleSet
  <2>2. PlaceInv'
    BY <1>4, <2>1, OneMoves DEF Statements
  <2>3. at'["worker"] = at["worker"]
    BY <1>4, <2>1 DEF IndInv, PlaceInv, Processes
  <2>4. BatchInv' /\ \A s \in RoleSet : \A j \in DOMAIN stream[s] : Worked(s, j)' => Worked(s, j)
    BY <2>3 DEF IndInv, BatchInv, Worked
  <2>5. ASSUME NEW s \in RoleSet, NEW j \in DOMAIN stream[s], Worked(s, j)', <<s, j>> \notin skipped'
        PROVE  (Worked(s, j) /\ <<s, j>> \notin skipped) \/ Covered(s, j)'
    BY <1>2, <2>4, <2>5
  <2>6. CoverInv'
    BY <2>5, CoverKept
  <2> QED BY <2>2, <2>4, <2>6
<1> QED BY <1>3, <1>4 DEF Processes

(* Lemma: a process goes on within its entry.                              *)
LEMMA StepsOn ==
  ASSUME IndInv, Grows, NEW p \in Processes, at[p].pc \in Statements,
         NEW x \in Place, at' = [at EXCEPT ![p] = x], x.pc \in Statements,
         x.role = at[p].role, x.idx = at[p].idx, InEntry(p)',
         UNCHANGED <<stream, cursor, hi, ckpt, skipped>>
  PROVE  PlaceInv' /\ BatchInv' /\ CoverInv'
<1>1. "next" \notin Statements /\ "read" \notin Statements /\ "report" \notin Statements /\ "down" \notin Statements
  BY DEF Statements
<1>2. PlaceInv'
  BY <1>1, OneMoves
<1>3. /\ at'["worker"].pc \in Statements <=> at["worker"].pc \in Statements
      /\ at["worker"].pc \notin Statements => at'["worker"] = at["worker"]
      /\ at'["worker"].role = at["worker"].role /\ at'["worker"].idx = at["worker"].idx
  <2>1. CASE p = "worker"
    <3>1. at'["worker"] = x
      BY <2>1 DEF IndInv, PlaceInv, Processes
    <3> QED BY <3>1, <2>1
  <2>2. CASE p # "worker"
    <3>1. at'["worker"] = at["worker"]
      BY <2>2 DEF IndInv, PlaceInv, Processes
    <3> QED BY <3>1
  <2> QED BY <2>1, <2>2
<1>4. BatchInv'
  BY <1>1, <1>3 DEF IndInv, BatchInv
<1>5. \A s \in RoleSet : \A j \in DOMAIN stream[s] : Worked(s, j)' => Worked(s, j)
  BY <1>1, <1>3 DEF Worked
<1>6. CoverInv'
  BY <1>5, CoverKept
<1> QED BY <1>2, <1>4, <1>6

LEMMA FirstOf ==
  ASSUME NEW e, EntryOK(e), ~ Refused(e), NEW k \in DOMAIN e.items
  PROVE  /\ FirstStatement(e, k) \in StatementsOf(e, k)
         /\ FirstStatement(e, k) \in Statements \ {"archive", "purge", "summary", "append"}
<1>1. e.kind \in Kinds \ {"note", "garbled"}
  BY DEF EntryOK, Refused, DecodeEntry
<1> QED BY <1>1 DEF FirstStatement, StatementsOf, Statements, Kinds, Reports, Trades

(* Lemma: an item ends, with its lot, and what else it is for, booked.     *)
LEMMA ItemEnds ==
  ASSUME IndInv, NEW p \in Processes, at[p].pc \in Statements, at[p].pc # "archive", NextItem(p),
         Grows, UNCHANGED <<stream, cursor, hi, ckpt>>,
         NEW r \in RoleSet, NEW i \in DOMAIN stream[r], <<r, i>> = EntryOf(p),
         NEW e, e = Current(p), NEW k \in Nat, k = at[p].item,
         LotsBooked(e, k)',
         e.kind \in {"order", "reject", "batch"} => <<r, i>> \in events',
         e.kind = "cancel" => attempts'[e.items[1].o] # "none",
         e.kind = "fee" => feeRecords'[e.items[1].o] # NoFee
  PROVE  PlaceInv' /\ BatchInv' /\ CoverInv'
<1>0. r = at[p].role /\ i = at[p].idx
  BY DEF EntryOf
<1>1. r = at[p].role /\ i = at[p].idx /\ e = stream[r][i]
  BY <1>0 DEF Current
<1>2. /\ EntryOf(p) \in Range(archive') /\ ~ Refused(e) /\ k \in DOMAIN e.items
  BY DEF IndInv, PlaceInv, InEntry, Grows
<1>3. EntryOK(e) /\ DOMAIN e.items = 1 .. Len(e.items) /\ Len(e.items) \in Nat
  <2>1. StreamInv
    BY DEF IndInv
  <2>2. EntryOK(e)
    BY <1>1, <2>1, StreamLengths
  <2> QED BY <2>2 DEF EntryOK
<1>4. CASE k < Len(e.items)
  <2> DEFINE x == [pc |-> FirstStatement(e, k + 1), role |-> r, idx |-> i, item |-> k + 1]
  <2>1. k + 1 \in DOMAIN e.items
    BY <1>3, <1>4
  <2>2. /\ FirstStatement(e, k + 1) \in StatementsOf(e, k + 1)
        /\ FirstStatement(e, k + 1) \in Statements \ {"archive", "purge", "summary", "append"}
    BY <1>2, <1>3, <2>1, FirstOf, Zenon
  <2>3. at' = [at EXCEPT ![p] = x] /\ UNCHANGED skipped
    BY <1>1, <1>4, Zenon DEF NextItem, At
  <2>4. i \in Nat
    BY <1>1 DEF IndInv, PlaceInv
  <2>5. x \in Place
    BY <2>2, <2>4 DEF Place
  <2>6. at'[p] = x
    BY <2>3 DEF IndInv, PlaceInv
  <2>7. InEntry(p)'
    <3>1. Current(p)' = e /\ EntryOf(p)' = <<r, i>>
      <4>1. at'[p].role = r /\ at'[p].idx = i
        BY <2>6
      <4>2. stream'[r][i] = e
        BY <1>1
      <4> QED BY <4>1, <4>2 DEF Current, EntryOf
    <3>2. at'[p].pc = FirstStatement(e, k + 1) /\ at'[p].item = k + 1 /\ at'[p].item - 1 = k
          /\ at'[p].idx = i /\ at'[p].role = r
      BY <2>6
    <3> QED BY <1>1, <1>2, <2>1, <2>2, <3>1, <3>2, Zenon DEF InEntry
  <2>8. /\ x.pc \in Statements /\ x.role = at[p].role /\ x.idx = at[p].idx
    BY <1>1, <2>2
  <2> HIDE DEF x
  <2> QED BY <2>3, <2>5, <2>7, <2>8, StepsOn
<1>5. CASE ~ (k < Len(e.items))
  <2>1. k = Len(e.items) /\ EndEntry(p, TRUE)
    <3>1. k = Len(e.items)
      BY <1>2, <1>3, <1>5
    <3>2. ~ (at[p].item < Len(Current(p).items))
      BY <1>5
    <3> QED BY <3>1, <3>2 DEF NextItem
  <2>2. IsBooked(r, i)'
    <3>1. e.kind \in {"fill", "transfer"} =>
            \A j \in DOMAIN e.items :
              e.items[j].lot \in (IF e.items[j].etf THEN transfers' ELSE fills')[e.items[j].o]
      BY <1>3, <2>1 DEF LotsBooked, Trades
    <3> QED BY <1>1, <3>1 DEF IsBooked
  <2>3. Covered(r, i)'
    BY <1>2, <2>2 DEF Covered
  <2> QED BY <2>1, <2>3, EntryEnds
<1> QED BY <1>4, <1>5

-----------------------------------------------------------------------------
(* Lemma: what a report leaves of a row meets the constraints of the table,*)
(* or the statement fails.                                                 *)
LEMMA UpsertsOK ==
  ASSUME NEW r, NEW x, CheckConstraints(r), CheckConstraints(RowOf(x))
  PROVE  CheckConstraints(UpsertEvent(r, x)) /\ CheckConstraints(UpsertReply(r, x))
<1>1. /\ x.st \in Status /\ x.gw \in GatewayStatus /\ x.qty > 0 /\ (x.term => x.st \in TerminalStatus)
      /\ r.st \in Status /\ r.gw \in GatewayStatus /\ (r.term => r.st \in TerminalStatus)
  BY DEF CheckConstraints, RowOf
<1>2. CheckConstraints(UpsertEvent(r, x))
  <2> DEFINE u == UpsertEvent(r, x)
  <2>1. /\ u.st = IF r.term /\ ~ x.term THEN r.st ELSE x.st
        /\ u.gw = IF r.term /\ ~ x.term THEN r.gw ELSE x.gw
        /\ u.qty = x.qty
    BY DEF UpsertEvent
  <2>2. u.term => r.term \/ x.term
    BY DEF UpsertEvent
  <2> HIDE DEF u
  <2>3. u.st \in Status /\ u.gw \in GatewayStatus
    BY <1>1, <2>1
  <2>4. u.term => u.st \in TerminalStatus
    BY <1>1, <2>1, <2>2
  <2>5. u.qty > 0
    BY <1>1, <2>1
  <2>6. CheckConstraints(u)
    BY <2>3, <2>4, <2>5 DEF CheckConstraints
  <2> QED BY <2>6 DEF u
<1>3. CheckConstraints(UpsertReply(r, x))
  <2> DEFINE u == UpsertReply(r, x)
  <2>1. u.st = x.st /\ u.gw = x.gw /\ u.qty = x.qty /\ u.term = x.term
    BY DEF UpsertReply, RowOf
  <2> HIDE DEF u
  <2>2. u.qty > 0 /\ u.st \in Status /\ u.gw \in GatewayStatus
    BY <1>1, <2>1
  <2>3. u.term => u.st \in TerminalStatus
    BY <1>1, <2>1
  <2>4. CheckConstraints(u)
    BY <2>2, <2>3 DEF CheckConstraints
  <2> QED BY <2>4 DEF u
<1> QED BY <1>2, <1>3

LEMMA OrderWrittenOK ==
  ASSUME NEW kind, NEW r, NEW p, NEW x, r = NoRow \/ CheckConstraints(r),
         NEW new, new = OrderWritten(kind, r, p, x), new # NoRow
  PROVE  CheckConstraints(new)
<1>1. ASSUME NEW y, NEW m, CheckConstraints(r) /\ CheckConstraints(RowOf(y)) => CheckConstraints(m),
             new = Upserted(r, y, m)
      PROVE  CheckConstraints(new)
  BY <1>1 DEF Upserted
<1>2. ASSUME NEW y, new = Updated(r, y)
      PROVE  CheckConstraints(new)
  BY <1>2 DEF Updated
<1>3. CASE kind \in {"reject", "batch"}
  BY <1>2, <1>3 DEF OrderWritten
<1>4. CASE kind = "page"
  <2>1. new = Upserted(r, normalizeOrder(x), UpsertReply(r, normalizeOrder(x)))
    BY <1>4 DEF OrderWritten
  <2> QED BY <1>1, <2>1, UpsertsOK
<1>5. CASE kind = "order" /\ IsUpsert(kind, p)
  <2>1. new = Upserted(r, normalizeOrder(x), UpsertEvent(r, normalizeOrder(x)))
    BY <1>5 DEF OrderWritten
  <2> QED BY <1>1, <2>1, UpsertsOK
<1>6. CASE /\ kind \notin {"reject", "batch"} /\ kind # "page"
           /\ ~ (kind = "order" /\ IsUpsert(kind, p))
  <2>1. new = Updated(r, normalizeOrderEvent(x))
    BY <1>6 DEF OrderWritten
  <2> QED BY <1>2, <2>1
<1> QED BY <1>3, <1>4, <1>5, <1>6

(* Lemma: what the writers of the ledger leave alone.                      *)
LEMMA GatewayStays ==
  ASSUME IndInv, UNCHANGED gateway
  PROVE  BrokerInv' /\ StreamInv'
<1>1. scenario' = scenario /\ broker' = broker /\ pages' = pages /\ stream' = stream
  BY DEF gateway
<1>2. BrokerInv'
  BY <1>1 DEF IndInv, BrokerInv, Live
<1>3. StreamInv'
  BY <1>1 DEF IndInv, StreamInv, EntryOK, OrderCancelAttempt
<1> QED BY <1>2, <1>3

(* Lemma: Go changes the statement alone.                                  *)
LEMMA Goes ==
  ASSUME PlaceInv, NEW p \in Processes, NEW l \in Statements, Go(p, l)
  PROVE  \E x \in Place : /\ at' = [at EXCEPT ![p] = x] /\ at'[p] = x
                          /\ x.pc = l /\ x.role = at[p].role
                          /\ x.idx = at[p].idx /\ x.item = at[p].item
<1>1. at \in [Processes -> Place] /\ at[p] \in Place
  BY DEF PlaceInv, Place
<1> DEFINE x == [at[p] EXCEPT !.pc = l]
<1>2. /\ x \in Place /\ x.pc = l /\ x.role = at[p].role
      /\ x.idx = at[p].idx /\ x.item = at[p].item
  BY <1>1 DEF Place
<1>3. at' = [at EXCEPT ![p] = x]
  BY <1>1 DEF Go
<1> HIDE DEF x
<1>4. at'[p] = x
  BY <1>1, <1>3
<1> QED BY <1>2, <1>3, <1>4

(* Lemma: where a process is, in constants.                                *)
LEMMA Here ==
  ASSUME IndInv, NEW p \in Processes, at[p].pc \in Statements
  PROVE  \E r \in RoleSet : \E i \in DOMAIN stream[r] : \E e : \E k \in Nat \ {0} :
           /\ r = at[p].role /\ i = at[p].idx /\ k = at[p].item
           /\ <<r, i>> = EntryOf(p) /\ e = Current(p) /\ e = stream[r][i] /\ EntryOK(e)
           /\ i \in Nat
<1>1. /\ at[p].role \in RoleSet /\ at[p].idx \in Nat /\ at[p].item \in Nat \ {0}
      /\ at[p].idx \in DOMAIN stream[at[p].role]
  BY DEF IndInv, PlaceInv, InEntry
<1>2. EntryOK(Current(p)) /\ Current(p) = stream[at[p].role][at[p].idx]
  BY <1>1, StreamLengths DEF IndInv, Current
<1> QED BY <1>1, <1>2 DEF EntryOf

-----------------------------------------------------------------------------
(* The statements of ProcessLedgerEntry.                                   *)
LEMMA ArchiveInv ==
  ASSUME IndInv, ArchiveRawStreamMessage
  PROVE  IndInv'
<1>0. /\ StreamInv /\ RowsOK /\ LotsOK /\ RecordsOK /\ ArchiveOK /\ CursorsOK /\ PlaceInv
      /\ "worker" \in Processes /\ at["worker"].pc = "archive" /\ "archive" \in Statements
  BY DEF IndInv, TablesInv, Processes, Statements, ArchiveRawStreamMessage, IsAt
<1>1. PICK r \in RoleSet, i \in Nat : /\ r = at["worker"].role /\ i = at["worker"].idx
                                      /\ i \in DOMAIN stream[r] /\ <<r, i>> = EntryOf("worker")
  BY <1>0, Here
<1>2. PICK e : e = Current("worker") /\ e = stream[r][i] /\ EntryOK(e)
  BY <1>0, <1>1, Here
<1>3. /\ UNCHANGED <<gateway, stream, ckpt, cursor, hi, todo>>
      /\ UNCHANGED <<rows, fills, transfers, summary, feeRecords, attempts, events>>
      /\ archive' = Archived(<<r, i>>)
  BY <1>1 DEF ArchiveRawStreamMessage, Statement, gateway, worker, replay,
              orderTables, fillTables, otherTables
<1>4. archive' \in Seq(RoleSet \X Nat) /\ Range(archive') = Range(archive) \cup {<<r, i>>}
  <2>1. archive \in Seq(RoleSet \X Nat) /\ <<r, i>> \in RoleSet \X Nat
    BY <1>0 DEF ArchiveOK
  <2> QED BY <1>3, <2>1, ArchivedAdds
<1>5. BrokerInv' /\ StreamInv'
  BY <1>3, GatewayStays
<1>6. TablesInv'
  <2>1. RowsOK' /\ LotsOK' /\ CursorsOK'
    BY <1>0, <1>3 DEF RowsOK, LotsOK, CursorsOK, Fill, ComponentTransfer
  <2>2. RecordsOK'
    BY <1>0, <1>3 DEF RecordsOK, OrderFeeRecord, OrderCancelAttempt, gateway
  <2>3. ArchiveOK'
    <3>1. ASSUME NEW x \in Range(archive') PROVE x[2] \in DOMAIN stream'[x[1]]
      <4>1. x[2] \in DOMAIN stream[x[1]]
        <5>1. CASE x \in Range(archive)
          BY <1>0, <5>1 DEF ArchiveOK
        <5>2. CASE x = <<r, i>>
          BY <1>1, <5>2
        <5> QED BY <1>4, <3>1, <5>1, <5>2
      <4> QED BY <1>3, <4>1
    <3>2. DOMAIN todo' \subseteq Nat /\ \A k \in DOMAIN todo' : todo'[k] \in Range(archive')
      BY <1>0, <1>3, <1>4 DEF ArchiveOK
    <3> QED BY <1>4, <3>1, <3>2 DEF ArchiveOK
  <2> QED BY <2>1, <2>2, <2>3 DEF TablesInv
<1>7. Grows
  BY <1>3, <1>4 DEF Grows
<1>8. CASE Refused(e)
  <2>1. EndEntry("worker", TRUE)
    BY <1>2, <1>8 DEF ArchiveRawStreamMessage
  <2>2. Covered(r, i)'
    BY <1>2, <1>3, <1>4, <1>8 DEF Covered
  <2>3. PlaceInv' /\ BatchInv' /\ CoverInv'
    BY <1>0, <1>1, <1>3, <1>7, <2>1, <2>2, EntryEnds
  <2> QED BY <1>5, <1>6, <2>3 DEF IndInv
<1>9. CASE ~ Refused(e)
  <2>1. Go("worker", FirstStatement(e, 1)) /\ skipped' = skipped
    BY <1>2, <1>9 DEF ArchiveRawStreamMessage
  <2>2. 1 \in DOMAIN e.items
    BY <1>2, <1>9 DEF EntryOK, Refused, DecodeEntry
  <2>3. /\ FirstStatement(e, 1) \in StatementsOf(e, 1)
        /\ FirstStatement(e, 1) \in Statements \ {"archive", "purge", "summary", "append"}
    BY <1>2, <1>9, <2>2, FirstOf
  <2>4. PICK x \in Place : /\ at' = [at EXCEPT !["worker"] = x] /\ at'["worker"] = x
                           /\ x.pc = FirstStatement(e, 1) /\ x.role = r /\ x.idx = i
                           /\ x.item = at["worker"].item
    BY <1>0, <1>1, <2>1, <2>3, Goes
  <2>5. at["worker"].item = 1
    BY <1>0 DEF PlaceInv, InEntry
  <2>9. InEntry("worker")'
    <3>1. at'["worker"].role = r /\ at'["worker"].idx = i
          /\ at'["worker"].item = 1 /\ at'["worker"].pc = FirstStatement(e, 1)
      BY <2>4, <2>5
    <3>2. stream'[r][i] = e /\ i \in DOMAIN stream'[r]
      BY <1>1, <1>2, <1>3
    <3>3. Current("worker")' = e /\ EntryOf("worker")' = <<r, i>>
      BY <3>1, <3>2 DEF Current, EntryOf
    <3>4. LotsBooked(e, 0)'
      BY DEF LotsBooked
    <3>5. /\ at'["worker"].item - 1 = 0 /\ at'["worker"].pc \notin {"archive", "purge"}
      BY <2>3, <3>1
    <3> QED BY <1>2, <1>4, <1>9, <2>2, <2>3, <3>1, <3>2, <3>3, <3>4, <3>5 DEF InEntry
  <2>10. PlaceInv' /\ BatchInv' /\ CoverInv'
    BY <1>0, <1>1, <1>3, <1>7, <2>1, <2>3, <2>4, <2>9, StepsOn
  <2> QED BY <1>5, <1>6, <2>10 DEF IndInv
<1> QED BY <1>8, <1>9

(* Lemma: a process goes on with the item it is at.                        *)
LEMMA GoesOn ==
  ASSUME IndInv, NEW p \in Processes, at[p].pc \in Statements, at[p].pc # "archive",
         NEW l \in Statements \ {"archive"}, Go(p, l), Grows,
         UNCHANGED <<stream, cursor, hi, ckpt, skipped>>,
         NEW r \in RoleSet, NEW i \in DOMAIN stream[r], r = at[p].role, i = at[p].idx,
         NEW e, e = stream[r][i], EntryOK(e), NEW k \in Nat \ {0}, k = at[p].item,
         l \in StatementsOf(e, k), l = "purge" => LotsBooked(e, k)'
  PROVE  PlaceInv' /\ BatchInv' /\ CoverInv'
<1>0. PlaceInv /\ InEntry(p)
  BY DEF IndInv, PlaceInv
<1>1. PICK x \in Place : /\ at' = [at EXCEPT ![p] = x] /\ at'[p] = x
                         /\ x.pc = l /\ x.role = r /\ x.idx = i /\ x.item = k
  BY <1>0, Goes
<1>2. Current(p) = e
  BY DEF Current
<1>3. /\ EntryOf(p) \in Range(archive) /\ ~ Refused(e) /\ k \in DOMAIN e.items
      /\ LotsBooked(e, k - 1)
  BY <1>0, <1>2 DEF InEntry
<1>4. LotsBooked(e, k - 1)'
  <2>1. Len(e.items) \in Nat /\ DOMAIN e.items = 1 .. Len(e.items)
    BY DEF EntryOK
  <2>2. k - 1 \in Nat /\ k - 1 <= Len(e.items)
    BY <1>3, <2>1
  <2> QED BY <1>3, <2>2, LotsStay, Zenon
<1>5. at'[p].role = r /\ at'[p].idx = i /\ at'[p].item = k /\ at'[p].pc = l
  BY <1>1
<1>6. Current(p)' = e /\ EntryOf(p)' = EntryOf(p)
  <2>1. stream'[r][i] = e
    OBVIOUS
  <2> QED BY <1>5, <2>1 DEF Current, EntryOf
<1>7. EntryOf(p)' \in Range(archive')
  BY <1>3, <1>6 DEF Grows
<1>8. i \in DOMAIN stream'[r]
  OBVIOUS
<1>9. InEntry(p)'
  BY <1>3, <1>4, <1>5, <1>6, <1>7, <1>8 DEF InEntry
<1> QED BY <1>1, <1>9, StepsOn

LEMMA GiveUpInv ==
  ASSUME IndInv, NEW p \in Processes, at[p].pc \in Statements, GiveUp(p),
         UNCHANGED <<gateway, ckpt, worker, replay>>
  PROVE  IndInv'
<1>1. PICK r \in RoleSet : \E i \in DOMAIN stream[r] : <<r, i>> = EntryOf(p)
  BY Here
<1>2. PICK i \in DOMAIN stream[r] : <<r, i>> = EntryOf(p)
  BY <1>1
<1>3. /\ UNCHANGED <<gateway, stream, ckpt, cursor, hi, todo, archive>>
      /\ UNCHANGED <<rows, fills, transfers, summary, feeRecords, attempts, events>>
      /\ EndEntry(p, FALSE)
  BY DEF GiveUp, gateway, worker, replay, orderTables, fillTables, otherTables
<1>4. Grows
  BY <1>3 DEF Grows
<1>5. PlaceInv' /\ BatchInv' /\ CoverInv'
  BY <1>2, <1>3, <1>4, EntryEnds
<1>6. TablesInv'
  BY <1>3 DEF IndInv, TablesInv, RowsOK, LotsOK, RecordsOK, ArchiveOK, CursorsOK, Fill,
              ComponentTransfer, OrderFeeRecord, OrderCancelAttempt, gateway
<1> QED BY <1>3, <1>5, <1>6, GatewayStays DEF IndInv

LEMMA StatementFailsInv ==
  ASSUME IndInv, NEW p \in Processes, StatementFails(p)
  PROVE  IndInv'
BY GiveUpInv DEF StatementFails

(* Lemma: which of the tables a statement is about.                        *)
LEMMA TablesKept ==
  ASSUME IndInv, UNCHANGED <<gateway, ckpt, worker, replay, archive>>
  PROVE  /\ ArchiveOK' /\ CursorsOK' /\ BrokerInv' /\ StreamInv'
         /\ rows' = rows => RowsOK'
         /\ UNCHANGED fillTables => LotsOK'
         /\ UNCHANGED <<feeRecords, attempts>> => RecordsOK'
<1>1. UNCHANGED <<stream, pages, todo, cursor, hi, ckpt, archive>>
  BY DEF gateway, worker, replay
<1>2. ArchiveOK' /\ CursorsOK'
  BY <1>1 DEF IndInv, TablesInv, ArchiveOK, CursorsOK
<1>3. /\ rows' = rows => RowsOK'
      /\ UNCHANGED fillTables => LotsOK'
      /\ UNCHANGED <<feeRecords, attempts>> => RecordsOK'
  BY <1>1 DEF IndInv, TablesInv, RowsOK, LotsOK, RecordsOK, fillTables, Fill,
              ComponentTransfer, OrderFeeRecord, OrderCancelAttempt
<1> QED BY <1>2, <1>3, GatewayStays

LEMMA WriteOrderInv ==
  ASSUME IndInv, NEW p \in Processes, WriteOrder(p)
  PROVE  IndInv'
<1>0. at[p].pc = "order" /\ at[p].pc \in Statements /\ at[p].pc # "archive" /\ InEntry(p)
  BY DEF IndInv, PlaceInv, WriteOrder, IsAt, Statements
<1>1. PICK r \in RoleSet, i \in Nat, k \in Nat \ {0} :
        /\ r = at[p].role /\ i = at[p].idx /\ k = at[p].item
        /\ i \in DOMAIN stream[r] /\ <<r, i>> = EntryOf(p)
  BY <1>0, Here
<1>2. PICK e : e = Current(p) /\ e = stream[r][i] /\ EntryOK(e)
  BY <1>0, <1>1, Here
<1>3. k \in DOMAIN e.items /\ e.kind \in Reports /\ e.kind \notin Trades
  BY <1>0, <1>1, <1>2 DEF InEntry, StatementsOf, EntryOK, Kinds, Reports, Trades
<1>4. UNCHANGED <<gateway, ckpt, worker, replay>> /\ UNCHANGED <<stream, cursor, hi>>
  BY DEF WriteOrder, Statement, gateway, worker
<1>5. PICK o, rep, new :
        /\ o = e.items[k].o /\ rep = e.items[k].rep
        /\ new = OrderWritten(e.kind, rows[o], rep, toOrder(rep))
        /\ \/ /\ new # NoRow
              /\ rows' = [rows EXCEPT ![o] = new]
              /\ CASE IsUpsert(e.kind, rep) /\ p = "worker" -> Go(p, "summary") /\ UNCHANGED skipped
                   [] e.kind = "page" /\ p = "replay" -> NextItem(p)
                   [] OTHER -> Go(p, "append") /\ UNCHANGED skipped
              /\ UNCHANGED <<archive, fillTables, otherTables>>
           \/ new = NoRow /\ GiveUp(p)
  <2>1. Item(p) = e.items[k] /\ Current(p).kind = e.kind
    BY <1>1, <1>2 DEF Item
  <2> DEFINE Writes(o, rep, kind, new) ==
        \/ /\ new # NoRow
           /\ rows' = [rows EXCEPT ![o] = new]
           /\ fee' = [fee EXCEPT ![o] = FeeWritten(kind, rep, @)]
           /\ CASE IsUpsert(kind, rep) /\ p = "worker" -> Go(p, "summary") /\ UNCHANGED skipped
                [] kind = "page" /\ p = "replay" -> NextItem(p)
                [] OTHER -> Go(p, "append") /\ UNCHANGED skipped
           /\ UNCHANGED <<archive, fillTables, otherTables>>
        \/ new = NoRow /\ GiveUp(p)
  <2>2. \E o \in {Item(p).o}, rep \in {Item(p).rep}, kind \in {Current(p).kind} :
          \E new \in {OrderWritten(kind, rows[o], rep, toOrder(rep))} : Writes(o, rep, kind, new)
    BY DEF WriteOrder
  <2> HIDE DEF Writes
  <2>3. PICK o, rep, new : /\ o = e.items[k].o /\ rep = e.items[k].rep
                           /\ new = OrderWritten(e.kind, rows[o], rep, toOrder(rep))
                           /\ Writes(o, rep, e.kind, new)
    BY <2>1, <2>2
  <2> QED BY <2>3 DEF Writes
<1>6. CASE new = NoRow /\ GiveUp(p)
  BY <1>0, <1>4, <1>6, GiveUpInv
<1>7. CASE /\ new # NoRow
           /\ rows' = [rows EXCEPT ![o] = new]
           /\ CASE IsUpsert(e.kind, rep) /\ p = "worker" -> Go(p, "summary") /\ UNCHANGED skipped
                [] e.kind = "page" /\ p = "replay" -> NextItem(p)
                [] OTHER -> Go(p, "append") /\ UNCHANGED skipped
           /\ UNCHANGED <<archive, fillTables, otherTables>>
  <2>1. o \in Orders
    BY <1>2, <1>3, <1>5 DEF EntryOK
  <2>2. UNCHANGED <<archive, fills, transfers, summary, events, attempts, feeRecords>>
    BY <1>7 DEF fillTables, otherTables
  <2>3. CheckConstraints(new)
    <3>1. rows[o] = NoRow \/ CheckConstraints(rows[o])
      BY <2>1 DEF IndInv, TablesInv, RowsOK
    <3> QED BY <1>5, <1>7, <3>1, OrderWrittenOK
  <2>4. RowsOK'
    BY <1>7, <2>1, <2>3 DEF IndInv, TablesInv, RowsOK
  <2>5. TablesInv' /\ BrokerInv' /\ StreamInv'
    BY <1>4, <1>7, <2>2, <2>4, TablesKept DEF TablesInv
  <2>6. Grows
    BY <1>4, <2>2 DEF Grows
  <2>7. LotsBooked(e, k)'
    BY <1>3 DEF LotsBooked
  <2>8. CASE IsUpsert(e.kind, rep) /\ p = "worker"
    <3>1. Go(p, "summary") /\ UNCHANGED skipped
      BY <1>7, <2>8
    <3>2. "summary" \in StatementsOf(e, k) /\ "summary" \in Statements \ {"archive"}
      BY <2>8, <1>3 DEF IsUpsert, StatementsOf, Statements
    <3>3. PlaceInv' /\ BatchInv' /\ CoverInv'
      BY <1>0, <1>1, <1>2, <1>4, <2>6, <3>1, <3>2, GoesOn
    <3> QED BY <2>5, <3>3 DEF IndInv
  <2>9. CASE ~ (IsUpsert(e.kind, rep) /\ p = "worker") /\ e.kind = "page" /\ p = "replay"
    <3>1. NextItem(p)
      BY <1>7, <2>9
    <3>2. PlaceInv' /\ BatchInv' /\ CoverInv'
      BY <1>0, <1>1, <1>2, <1>4, <2>6, <2>7, <2>9, <3>1, ItemEnds
    <3> QED BY <2>5, <3>2 DEF IndInv
  <2>10. CASE ~ (IsUpsert(e.kind, rep) /\ p = "worker") /\ ~ (e.kind = "page" /\ p = "replay")
    <3>1. Go(p, "append") /\ UNCHANGED skipped
      BY <1>7, <2>10
    <3>2. "append" \in StatementsOf(e, k) /\ "append" \in Statements \ {"archive"}
      <4>1. e.kind # "page"
        BY <2>10 DEF IsUpsert, Processes
      <4> QED BY <4>1, <1>3 DEF StatementsOf, Statements, Reports
    <3>3. PlaceInv' /\ BatchInv' /\ CoverInv'
      BY <1>0, <1>1, <1>2, <1>4, <2>6, <3>1, <3>2, GoesOn
    <3> QED BY <2>5, <3>3 DEF IndInv
  <2> QED BY <2>8, <2>9, <2>10
<1> QED BY <1>5, <1>6, <1>7

(* Lemma: a filled order says of itself how many lots it has, its quantity *)
(* at most, and so does its summary fill.                                  *)
LEMMA SummaryBound ==
  ASSUME NEW rep \in OrderReport
  PROVE  orderSummaryFilledQty(toOrder(rep)) \in 0 .. Qty
<1> DEFINE a == [rep EXCEPT !.gw = normalizePartialFillGatewayStatus(rep)]
           st == NormalizeOrderExecutionState(a.st, a.gw, a.qty, a.cum, a.leaves)
           b == [a EXCEPT !.st = st.st, !.gw = st.gw, !.term = Terminal(st.st) \/ Terminal(st.gw)]
           c == WithFilledQty(b)
<1>0. Qty \in Nat
  BY SyncAssumption
<1>1. a.qty = Qty /\ a.cum \in 0 .. Qty /\ DOMAIN a = DOMAIN rep
  BY DEF OrderReport
<1>2. "qty" \in DOMAIN a /\ "cum" \in DOMAIN a /\ "leaves" \in DOMAIN a
  BY DEF OrderReport
<1> HIDE DEF a, st
<1>3. b.qty = Qty /\ b.cum \in 0 .. Qty /\ "qty" \in DOMAIN b /\ "cum" \in DOMAIN b /\ "leaves" \in DOMAIN b
  BY <1>1, <1>2
<1> HIDE DEF b
<1>4. c.qty = Qty /\ c.cum \in 0 .. Qty
  BY <1>0, <1>3 DEF WithFilledQty
<1>5. toOrder(rep) = c
  BY DEF toOrder, Normalized, a, b, c, st
<1> HIDE DEF c
<1> QED BY <1>0, <1>4, <1>5 DEF orderSummaryFilledQty

LEMMA SynthesizeBound ==
  ASSUME LotsOK, NEW x, x.o \in Orders, x.rep \in OrderReport
  PROVE  Synthesize(x) \in 0 .. Qty
<1> DEFINE target == orderSummaryFilledQty(toOrder(x.rep))
           n == Cardinality(fills[x.o])
<1>1. target \in 0 .. Qty /\ Qty \in Nat
  BY SummaryBound, SyncAssumption
<1>2. n \in Nat
  <2>1. fills[x.o] \subseteq 1 .. Qty
    BY DEF LotsOK, Fill
  <2>2. IsFiniteSet(1 .. Qty)
    BY <1>1, FS_Interval
  <2> QED BY <2>1, <2>2, FS_Subset, FS_CardinalityType
<1>3. summary[x.o] \in 0 .. Qty
  BY DEF LotsOK
<1>4. Synthesize(x) = IF ~ x.etf /\ target > n + summary[x.o] /\ summary[x.o] = 0
                      THEN target - (n + summary[x.o]) ELSE summary[x.o]
  BY DEF Synthesize
<1> HIDE DEF target, n
<1> QED BY <1>1, <1>2, <1>3, <1>4

LEMMA SummaryInv ==
  ASSUME IndInv, SynthesizeSummaryFill
  PROVE  IndInv'
<1> DEFINE p == "worker"
<1>0. /\ p \in Processes /\ at[p].pc = "summary" /\ at[p].pc \in Statements /\ at[p].pc # "archive"
      /\ InEntry(p)
  BY DEF IndInv, PlaceInv, SynthesizeSummaryFill, IsAt, Statements, Processes
<1>1. PICK r \in RoleSet, i \in Nat, k \in Nat \ {0} :
        /\ r = at[p].role /\ i = at[p].idx /\ k = at[p].item
        /\ i \in DOMAIN stream[r] /\ <<r, i>> = EntryOf(p)
  BY <1>0, Here
<1>2. PICK e : e = Current(p) /\ e = stream[r][i] /\ EntryOK(e)
  BY <1>0, <1>1, Here
<1>3. /\ k \in DOMAIN e.items /\ e.kind \in {"order", "page"} /\ e.kind \notin Trades
      /\ e.kind \in Reports
  BY <1>0, <1>1, <1>2 DEF InEntry, StatementsOf, EntryOK, Kinds, Reports, Trades
<1>4. UNCHANGED <<gateway, ckpt, worker, replay>> /\ UNCHANGED <<stream, cursor, hi>>
  BY DEF SynthesizeSummaryFill, Statement, gateway, worker
<1>5. UNCHANGED <<archive, rows, fills, transfers, events, attempts, feeRecords>>
  BY DEF SynthesizeSummaryFill, orderTables, otherTables
<1>6. summary' = [summary EXCEPT ![e.items[k].o] = Synthesize(e.items[k])]
  <2>1. Item(p) = e.items[k]
    BY <1>1, <1>2 DEF Item
  <2> QED BY <2>1 DEF SynthesizeSummaryFill
<1>7. e.items[k].o \in Orders /\ e.items[k].rep \in OrderReport
  BY <1>2, <1>3 DEF EntryOK
<1>8. LotsOK'
  <2>1. LotsOK
    BY DEF IndInv, TablesInv
  <2>2. Synthesize(e.items[k]) \in 0 .. Qty
    BY <1>7, <2>1, SynthesizeBound
  <2> QED BY <1>5, <1>6, <2>1, <2>2 DEF LotsOK, Fill, ComponentTransfer
<1>9. TablesInv' /\ BrokerInv' /\ StreamInv'
  BY <1>4, <1>5, <1>8, TablesKept DEF TablesInv
<1>10. Grows
  BY <1>4, <1>5 DEF Grows
<1>11. PlaceInv' /\ BatchInv' /\ CoverInv'
  <2>1. CASE e.kind = "page"
    <3>1. NextItem(p) /\ LotsBooked(e, k)'
      BY <1>2, <1>3, <2>1 DEF SynthesizeSummaryFill, LotsBooked
    <3> QED BY <1>0, <1>1, <1>2, <1>4, <1>10, <2>1, <3>1, ItemEnds
  <2>2. CASE e.kind = "order"
    <3>1. Go(p, "append") /\ UNCHANGED skipped
      BY <1>2, <2>2 DEF SynthesizeSummaryFill
    <3>2. "append" \in StatementsOf(e, k) /\ "append" \in Statements \ {"archive"}
      <4>1. StatementsOf(e, k) = {"order", "summary", "append"}
        BY <2>2 DEF StatementsOf, Trades
      <4> QED BY <4>1 DEF Statements
    <3> QED BY <1>0, <1>1, <1>2, <1>4, <1>10, <3>1, <3>2, GoesOn
  <2> QED BY <1>3, <2>1, <2>2
<1> QED BY <1>9, <1>11 DEF IndInv

LEMMA AppendOrderEventInv ==
  ASSUME IndInv, NEW p \in Processes, AppendOrderEvent(p)
  PROVE  IndInv'
<1>0. /\ p \in Processes /\ at[p].pc = "append" /\ at[p].pc \in Statements /\ at[p].pc # "archive"
      /\ InEntry(p)
  BY DEF IndInv, PlaceInv, AppendOrderEvent, IsAt, Statements, Processes
<1>1. PICK r \in RoleSet, i \in Nat, k \in Nat \ {0} :
        /\ r = at[p].role /\ i = at[p].idx /\ k = at[p].item
        /\ i \in DOMAIN stream[r] /\ <<r, i>> = EntryOf(p)
  BY <1>0, Here
<1>2. PICK e : e = Current(p) /\ e = stream[r][i] /\ EntryOK(e)
  BY <1>0, <1>1, Here
<1>3. k \in DOMAIN e.items /\ e.kind \in {"order", "reject", "batch"} /\ e.kind \notin Trades
  BY <1>0, <1>1, <1>2 DEF InEntry, StatementsOf, EntryOK, Kinds, Reports, Trades
<1>4. UNCHANGED <<gateway, ckpt, worker, replay>> /\ UNCHANGED <<stream, cursor, hi>>
  BY DEF AppendOrderEvent, Statement, gateway, worker
<1>5. UNCHANGED <<archive, rows, fillTables, fills, transfers, summary, attempts, feeRecords>>
  BY DEF AppendOrderEvent, orderTables, fillTables
<1>6. events' = events \cup {<<r, i>>} /\ NextItem(p)
  BY <1>1 DEF AppendOrderEvent, appendOrderEventSQL
<1>7. TablesInv' /\ BrokerInv' /\ StreamInv'
  <2>1. RowsOK' /\ LotsOK' /\ RecordsOK' /\ ArchiveOK' /\ CursorsOK' /\ BrokerInv' /\ StreamInv'
    BY <1>4, <1>5, TablesKept
  <2> QED BY <2>1 DEF TablesInv
<1>8. Grows
  BY <1>4, <1>5, <1>6 DEF Grows
<1>9. LotsBooked(e, k)' /\ <<r, i>> \in events'
  BY <1>3, <1>6 DEF LotsBooked
<1>10. PlaceInv' /\ BatchInv' /\ CoverInv'
  BY <1>0, <1>1, <1>2, <1>3, <1>4, <1>6, <1>8, <1>9, ItemEnds
<1> QED BY <1>7, <1>10 DEF IndInv

LEMMA InsertFillInv ==
  ASSUME IndInv, NEW p \in Processes, InsertFill(p)
  PROVE  IndInv'
<1>0. /\ p \in Processes /\ at[p].pc = "fill" /\ at[p].pc \in Statements /\ at[p].pc # "archive"
      /\ InEntry(p)
  BY DEF IndInv, PlaceInv, InsertFill, IsAt, Statements, Processes
<1>1. PICK r \in RoleSet, i \in Nat, k \in Nat \ {0} :
        /\ r = at[p].role /\ i = at[p].idx /\ k = at[p].item
        /\ i \in DOMAIN stream[r] /\ <<r, i>> = EntryOf(p)
  BY <1>0, Here
<1>2. PICK e : e = Current(p) /\ e = stream[r][i] /\ EntryOK(e)
  BY <1>0, <1>1, Here
<1>3. /\ k \in DOMAIN e.items /\ e.kind \in Trades /\ LotsBooked(e, k - 1)
      /\ e.items[k].etf = FALSE /\ e.items[k].o \in Orders /\ e.items[k].lot \in 0 .. Qty
  BY <1>0, <1>1, <1>2 DEF InEntry, StatementsOf, EntryOK, Kinds, Reports, Trades
<1>4. UNCHANGED <<gateway, ckpt, worker, replay>> /\ UNCHANGED <<stream, cursor, hi>>
  BY DEF InsertFill, Statement, gateway, worker
<1>5. Item(p) = e.items[k]
  BY <1>1, <1>2 DEF Item
<1>6. CASE ~ Insertable(Item(p)) /\ GiveUp(p)
  BY <1>0, <1>4, <1>6, GiveUpInv
<1>7. CASE ~ (~ Insertable(Item(p)) /\ GiveUp(p))
  <2>1. /\ Insertable(e.items[k])
        /\ fills' = insertFillSQL(fillFromPayload(e.items[k]))
        /\ Go(p, "purge") /\ UNCHANGED skipped
        /\ UNCHANGED <<archive, rows, summary, transfers, events, attempts, feeRecords>>
    BY <1>5, <1>7 DEF InsertFill, orderTables, otherTables
  <2>2. /\ e.items[k].lot \in Fill
        /\ fills' = [fills EXCEPT ![e.items[k].o] = @ \cup {e.items[k].lot}]
    BY <1>3, <2>1 DEF Insertable, normalizeFill, fillFromPayload, insertFillSQL, Fill
  <2>3. LotsOK' /\ fills \in [Orders -> SUBSET Fill]
    BY <1>3, <2>1, <2>2 DEF IndInv, TablesInv, LotsOK, Fill, ComponentTransfer
  <2>4. TablesInv' /\ BrokerInv' /\ StreamInv'
    <3>1. RowsOK' /\ RecordsOK' /\ ArchiveOK' /\ CursorsOK' /\ BrokerInv' /\ StreamInv'
      BY <1>4, <2>1, TablesKept
    <3> QED BY <2>3, <3>1 DEF TablesInv
  <2>5. \A o \in Orders : fills[o] \subseteq fills'[o]
    BY <2>2, <2>3
  <2>6. Grows
    BY <1>4, <2>1, <2>5 DEF Grows
  <2>7. LotsBooked(e, k)'
    <3>1. LotsBooked(e, k - 1)'
      <4>1. Len(e.items) \in Nat /\ k <= Len(e.items)
        BY <1>2, <1>3 DEF EntryOK
      <4>2. k - 1 \in Nat /\ k - 1 <= Len(e.items)
        BY <1>1, <4>1
      <4> QED BY <1>2, <1>3, <2>6, <4>2, LotsStay
    <3>2. e.items[k].lot \in (IF e.items[k].etf THEN transfers' ELSE fills')[e.items[k].o]
      BY <1>3, <2>2, <2>3
    <3>3. ASSUME NEW j \in 1 .. k PROVE j \in 1 .. k - 1 \/ j = k
      BY <1>1
    <3> QED BY <3>1, <3>2, <3>3 DEF LotsBooked
  <2>8. "purge" \in StatementsOf(e, k) /\ "purge" \in Statements \ {"archive"}
    BY <1>3 DEF StatementsOf, Statements, Trades
  <2>9. PlaceInv' /\ BatchInv' /\ CoverInv'
    BY <1>0, <1>1, <1>2, <1>4, <2>1, <2>6, <2>7, <2>8, GoesOn
  <2> QED BY <2>4, <2>9 DEF IndInv
<1> QED BY <1>6, <1>7

LEMMA DeleteSummaryFillsInv ==
  ASSUME IndInv, NEW p \in Processes, DeleteSummaryFills(p)
  PROVE  IndInv'
<1>0. /\ p \in Processes /\ at[p].pc = "purge" /\ at[p].pc \in Statements /\ at[p].pc # "archive"
      /\ InEntry(p)
  BY DEF IndInv, PlaceInv, DeleteSummaryFills, IsAt, Statements, Processes
<1>1. PICK r \in RoleSet, i \in Nat, k \in Nat \ {0} :
        /\ r = at[p].role /\ i = at[p].idx /\ k = at[p].item
        /\ i \in DOMAIN stream[r] /\ <<r, i>> = EntryOf(p)
  BY <1>0, Here
<1>2. PICK e : e = Current(p) /\ e = stream[r][i] /\ EntryOK(e)
  BY <1>0, <1>1, Here
<1>3. /\ k \in DOMAIN e.items /\ e.kind \in Trades /\ LotsBooked(e, k)
      /\ e.items[k].o \in Orders
  BY <1>0, <1>1, <1>2 DEF InEntry, StatementsOf, EntryOK, Kinds, Reports, Trades
<1>4. UNCHANGED <<gateway, ckpt, worker, replay>> /\ UNCHANGED <<stream, cursor, hi>>
  BY DEF DeleteSummaryFills, Statement, gateway, worker
<1>5. /\ UNCHANGED <<archive, rows, fills, transfers, events, attempts, feeRecords>>
      /\ NextItem(p) /\ summary' = [summary EXCEPT ![e.items[k].o] = 0]
  <2>1. Item(p) = e.items[k]
    BY <1>1, <1>2 DEF Item
  <2> QED BY <2>1 DEF DeleteSummaryFills, Purged, orderTables, otherTables
<1>6. LotsOK'
  <2>1. 0 \in 0 .. Qty
    BY SyncAssumption
  <2> QED BY <1>5, <2>1 DEF IndInv, TablesInv, LotsOK, Fill, ComponentTransfer
<1>7. TablesInv' /\ BrokerInv' /\ StreamInv'
  <2>1. RowsOK' /\ RecordsOK' /\ ArchiveOK' /\ CursorsOK' /\ BrokerInv' /\ StreamInv'
    BY <1>4, <1>5, TablesKept
  <2> QED BY <1>6, <2>1 DEF TablesInv
<1>8. Grows
  BY <1>4, <1>5 DEF Grows
<1>9. LotsBooked(e, k)' /\ e.kind \notin {"order", "reject", "batch", "cancel", "fee"}
  BY <1>3, <1>5 DEF LotsBooked, Trades
<1>10. PlaceInv' /\ BatchInv' /\ CoverInv'
  BY <1>0, <1>1, <1>2, <1>4, <1>5, <1>8, <1>9, ItemEnds, ZenonT(30)
<1> QED BY <1>7, <1>10 DEF IndInv

LEMMA TransferInv ==
  ASSUME IndInv, NEW p \in Processes, InsertComponentTransfer(p)
  PROVE  IndInv'
<1>0. /\ p \in Processes /\ at[p].pc = "transfer" /\ at[p].pc \in Statements /\ at[p].pc # "archive"
      /\ InEntry(p)
  BY DEF IndInv, PlaceInv, InsertComponentTransfer, IsAt, Statements, Processes
<1>1. PICK r \in RoleSet, i \in Nat, k \in Nat \ {0} :
        /\ r = at[p].role /\ i = at[p].idx /\ k = at[p].item
        /\ i \in DOMAIN stream[r] /\ <<r, i>> = EntryOf(p)
  BY <1>0, Here
<1>2. PICK e : e = Current(p) /\ e = stream[r][i] /\ EntryOK(e)
  BY <1>0, <1>1, Here
<1>3. /\ k \in DOMAIN e.items /\ e.kind \in Trades /\ LotsBooked(e, k - 1)
      /\ e.items[k].etf = TRUE /\ e.items[k].o \in Orders /\ e.items[k].lot \in 0 .. Qty
  BY <1>0, <1>1, <1>2 DEF InEntry, StatementsOf, EntryOK, Kinds, Reports, Trades
<1>4. UNCHANGED <<gateway, ckpt, worker, replay>> /\ UNCHANGED <<stream, cursor, hi>>
  BY DEF InsertComponentTransfer, Statement, gateway, worker
<1>5. /\ UNCHANGED <<archive, rows, fills, summary, events, attempts, feeRecords>> /\ NextItem(p)
      /\ e.items[k].lot \in ComponentTransfer
      /\ transfers' = [transfers EXCEPT ![e.items[k].o] = @ \cup {e.items[k].lot}]
  <2>1. Item(p) = e.items[k]
    BY <1>1, <1>2 DEF Item
  <2> QED BY <1>3, <2>1 DEF InsertComponentTransfer, normalizeComponentTransfer, componentTransferFromPayload,
                            insertComponentTransferSQL, ComponentTransfer, orderTables, otherTables
<1>6. LotsOK' /\ transfers \in [Orders -> SUBSET ComponentTransfer]
  BY <1>3, <1>5 DEF IndInv, TablesInv, LotsOK, Fill, ComponentTransfer
<1>7. TablesInv' /\ BrokerInv' /\ StreamInv'
  <2>1. RowsOK' /\ RecordsOK' /\ ArchiveOK' /\ CursorsOK' /\ BrokerInv' /\ StreamInv'
    BY <1>4, <1>5, TablesKept
  <2> QED BY <1>6, <2>1 DEF TablesInv
<1>8. Grows
  <2>1. \A o \in Orders : transfers[o] \subseteq transfers'[o]
    BY <1>5, <1>6
  <2> QED BY <1>4, <1>5, <2>1 DEF Grows
<1>9. LotsBooked(e, k)'
  <2>1. LotsBooked(e, k - 1)'
    <3>1. Len(e.items) \in Nat /\ k <= Len(e.items)
      BY <1>2, <1>3 DEF EntryOK
    <3>2. k - 1 \in Nat /\ k - 1 <= Len(e.items)
      BY <1>1, <3>1
    <3> QED BY <1>2, <1>3, <1>8, <3>2, LotsStay
  <2>2. e.items[k].lot \in (IF e.items[k].etf THEN transfers' ELSE fills')[e.items[k].o]
    BY <1>3, <1>5, <1>6
  <2>3. ASSUME NEW j \in 1 .. k PROVE j \in 1 .. k - 1 \/ j = k
    BY <1>1
  <2> QED BY <2>1, <2>2, <2>3 DEF LotsBooked
<1>10. e.kind \notin {"order", "reject", "batch", "cancel", "fee"}
  BY <1>3 DEF Trades
<1>11. PlaceInv' /\ BatchInv' /\ CoverInv'
  BY <1>0, <1>1, <1>2, <1>4, <1>5, <1>8, <1>9, <1>10, ItemEnds
<1> QED BY <1>7, <1>11 DEF IndInv

LEMMA CancelAttemptInv ==
  ASSUME IndInv, UpsertOrderCancelAttempt
  PROVE  IndInv'
<1> DEFINE p == "worker"
<1>0. /\ p \in Processes /\ at[p].pc = "cancel" /\ at[p].pc \in Statements /\ at[p].pc # "archive"
      /\ InEntry(p)
  BY DEF IndInv, PlaceInv, UpsertOrderCancelAttempt, IsAt, Statements, Processes
<1>1. PICK r \in RoleSet, i \in Nat, k \in Nat \ {0} :
        /\ r = at[p].role /\ i = at[p].idx /\ k = at[p].item
        /\ i \in DOMAIN stream[r] /\ <<r, i>> = EntryOf(p)
  BY <1>0, Here
<1>2. PICK e : e = Current(p) /\ e = stream[r][i] /\ EntryOK(e)
  BY <1>0, <1>1, Here
<1>3. /\ k \in DOMAIN e.items /\ e.kind = "cancel" /\ k = 1 /\ e.items[1].o \in Orders
      /\ e.items[1].status \in OrderCancelAttempt
  <2>1. k \in DOMAIN e.items /\ e.kind = "cancel"
    BY <1>0, <1>1, <1>2 DEF InEntry, StatementsOf, EntryOK, Kinds, Reports, Trades
  <2> QED BY <1>2, <2>1 DEF EntryOK, Trades
<1>4. UNCHANGED <<gateway, ckpt, worker, replay>> /\ UNCHANGED <<stream, cursor, hi>>
  BY DEF UpsertOrderCancelAttempt, Statement, gateway, worker
<1>5. /\ UNCHANGED <<archive, rows, fillTables, fills, summary, transfers, events, feeRecords>> /\ NextItem(p)
      /\ attempts' = [attempts EXCEPT ![e.items[1].o] = e.items[1].status]
  <2>1. Item(p) = e.items[1]
    BY <1>1, <1>2, <1>3 DEF Item
  <2> QED BY <2>1 DEF UpsertOrderCancelAttempt, processCancelAttemptEnvelope, upsertOrderCancelAttemptSQL,
                      orderTables, fillTables
<1>6. RecordsOK' /\ attempts \in [Orders -> {"none"} \cup OrderCancelAttempt]
  BY <1>3, <1>4, <1>5 DEF IndInv, TablesInv, RecordsOK, OrderCancelAttempt, OrderFeeRecord, gateway
<1>7. TablesInv' /\ BrokerInv' /\ StreamInv'
  <2>1. RowsOK' /\ LotsOK' /\ ArchiveOK' /\ CursorsOK' /\ BrokerInv' /\ StreamInv'
    BY <1>4, <1>5, TablesKept
  <2> QED BY <1>6, <2>1 DEF TablesInv
<1>8. attempts'[e.items[1].o] # "none" /\ \A o \in Orders : attempts[o] # "none" => attempts'[o] # "none"
  BY <1>3, <1>5, <1>6 DEF OrderCancelAttempt
<1>9. Grows
  BY <1>4, <1>5, <1>8 DEF Grows
<1>10. LotsBooked(e, k)'
  BY <1>3 DEF LotsBooked, Trades
<1>11. PlaceInv' /\ BatchInv' /\ CoverInv'
  BY <1>0, <1>1, <1>2, <1>3, <1>4, <1>5, <1>8, <1>9, <1>10, ItemEnds
<1> QED BY <1>7, <1>11 DEF IndInv

LEMMA FeeRecordInv ==
  ASSUME IndInv, UpsertOrderFeeRecord
  PROVE  IndInv'
<1> DEFINE p == "worker"
<1>0. /\ p \in Processes /\ at[p].pc = "fee" /\ at[p].pc \in Statements /\ at[p].pc # "archive"
      /\ InEntry(p)
  BY DEF IndInv, PlaceInv, UpsertOrderFeeRecord, IsAt, Statements, Processes
<1>1. PICK r \in RoleSet, i \in Nat, k \in Nat \ {0} :
        /\ r = at[p].role /\ i = at[p].idx /\ k = at[p].item
        /\ i \in DOMAIN stream[r] /\ <<r, i>> = EntryOf(p)
  BY <1>0, Here
<1>2. PICK e : e = Current(p) /\ e = stream[r][i] /\ EntryOK(e)
  BY <1>0, <1>1, Here
<1>3. /\ k \in DOMAIN e.items /\ e.kind = "fee" /\ k = 1 /\ e.items[1].o \in Orders
      /\ e.items[1].asOf \in 1 .. pages /\ e.items[1].done \in BOOLEAN
  <2>1. k \in DOMAIN e.items /\ e.kind = "fee"
    BY <1>0, <1>1, <1>2 DEF InEntry, StatementsOf, EntryOK, Kinds, Reports, Trades
  <2> QED BY <1>2, <2>1 DEF EntryOK, Trades
<1>4. UNCHANGED <<gateway, ckpt, worker, replay>> /\ UNCHANGED <<stream, cursor, hi>>
  BY DEF UpsertOrderFeeRecord, Statement, gateway, worker
<1>5. PICK new : /\ new = [asOf |-> e.items[1].asOf, done |-> e.items[1].done]
                 /\ feeRecords' = [feeRecords EXCEPT ![e.items[1].o] = Effective(feeRecords[e.items[1].o], new)]
  <2>1. Item(p) = e.items[1]
    BY <1>1, <1>2, <1>3 DEF Item
  <2> QED BY <2>1 DEF UpsertOrderFeeRecord, feeRecordFromPayload
<1>6. UNCHANGED <<archive, rows, fillTables, fills, summary, transfers, events, attempts>> /\ NextItem(p)
  BY DEF UpsertOrderFeeRecord, fillTables
<1>7. new \in OrderFeeRecord /\ new # NoFee
  <2>1. pages \in Nat
    BY DEF IndInv, BrokerInv
  <2>2. new \in OrderFeeRecord
    BY <1>3, <1>5 DEF OrderFeeRecord
  <2>3. new \in [asOf : Nat, done : BOOLEAN]
    BY <1>3, <1>5, <2>1
  <2> QED BY <2>2, <2>3, SyncAssumption
<1>8. /\ Effective(feeRecords[e.items[1].o], new) \in OrderFeeRecord
      /\ Effective(feeRecords[e.items[1].o], new) # NoFee
  BY <1>3, <1>7 DEF Effective, IndInv, TablesInv, RecordsOK
<1>9. RecordsOK' /\ feeRecords \in [Orders -> {NoFee} \cup OrderFeeRecord]
  BY <1>3, <1>4, <1>5, <1>6, <1>8 DEF IndInv, TablesInv, RecordsOK, OrderCancelAttempt, OrderFeeRecord, gateway
<1>10. TablesInv' /\ BrokerInv' /\ StreamInv'
  <2>1. RowsOK' /\ LotsOK' /\ ArchiveOK' /\ CursorsOK' /\ BrokerInv' /\ StreamInv'
    BY <1>4, <1>6, TablesKept
  <2> QED BY <1>9, <2>1 DEF TablesInv
<1>11. feeRecords'[e.items[1].o] # NoFee /\ \A o \in Orders : feeRecords[o] # NoFee => feeRecords'[o] # NoFee
  BY <1>3, <1>5, <1>8, <1>9
<1>12. Grows
  BY <1>4, <1>6, <1>11 DEF Grows
<1>13. LotsBooked(e, k)'
  BY <1>3 DEF LotsBooked, Trades
<1>14. PlaceInv' /\ BatchInv' /\ CoverInv'
  BY <1>0, <1>1, <1>2, <1>3, <1>4, <1>6, <1>11, <1>12, <1>13, ItemEnds
<1> QED BY <1>10, <1>14 DEF IndInv

-----------------------------------------------------------------------------
(* The loop of the worker.                                                 *)

(* Lemma: what stays as it is while only the processes move.               *)
LEMMA RowsStay ==
  ASSUME IndInv, UNCHANGED <<gateway, archive, orderTables, fillTables, otherTables>>
  PROVE  /\ BrokerInv' /\ StreamInv' /\ RowsOK' /\ LotsOK' /\ RecordsOK' /\ Grows
         /\ stream' = stream
         /\ todo' = todo => ArchiveOK'
<1>1. /\ UNCHANGED <<stream, pages, archive, rows, fills, summary, transfers>>
      /\ UNCHANGED <<events, attempts, feeRecords>>
  BY DEF gateway, orderTables, fillTables, otherTables
<1>2. RowsOK' /\ LotsOK' /\ RecordsOK'
  BY <1>1 DEF IndInv, TablesInv, RowsOK, LotsOK, RecordsOK, Fill, ComponentTransfer,
              OrderFeeRecord, OrderCancelAttempt
<1>3. Grows /\ (todo' = todo => ArchiveOK')
  BY <1>1 DEF Grows, IndInv, TablesInv, ArchiveOK
<1> QED BY <1>1, <1>2, <1>3, GatewayStays

(* A step in which no statement is executed: no entry is worked off by it, *)
(* and who is at a statement after it was there before or begins an entry. *)
Quiet ==
  /\ \A r \in RoleSet : \A i \in DOMAIN stream[r] : Worked(r, i)' => Worked(r, i)
  /\ \A p \in Processes : at'[p].pc \in Statements =>
       at'[p] = at[p] \/ (at'[p].item = 1 /\ at'[p].pc \notin {"purge", "summary", "append"})

(* Lemma: the worker moves in its loop, and nothing more counts as worked  *)
(* off than before.                                                        *)
LEMMA WorkerMovesInv ==
  ASSUME IndInv, UNCHANGED <<gateway, archive, orderTables, fillTables, otherTables, replay, skipped>>,
         NEW x \in Place, at' = [at EXCEPT !["worker"] = x], x.pc # "next",
         x.pc \in Statements => InEntry("worker")',
         x = at["worker"] \/ x.pc \notin Statements \/ (x.pc = "archive" /\ x.item = 1),
         CursorsOK', BatchInv',
         \A r \in RoleSet : \A i \in DOMAIN stream[r] : Worked(r, i)' => Worked(r, i)
  PROVE  IndInv' /\ Quiet
<1>1. /\ BrokerInv' /\ StreamInv' /\ RowsOK' /\ LotsOK' /\ RecordsOK' /\ ArchiveOK' /\ Grows
      /\ stream' = stream
  BY RowsStay DEF replay
<1>2. PlaceInv'
  BY <1>1, OneMoves DEF Processes
<1>3. CoverInv'
  BY <1>1, CoverKept
<1>4. \A p \in Processes : at'[p] = IF p = "worker" THEN x ELSE at[p]
  BY DEF IndInv, PlaceInv
<1>5. Quiet
  BY <1>4 DEF Quiet
<1> QED BY <1>1, <1>2, <1>3, <1>5 DEF IndInv, TablesInv

(* Lemma: the cursors in numbers.                                          *)
LEMMA Cursors ==
  ASSUME IndInv
  PROVE  /\ DOMAIN cursor = RoleSet /\ DOMAIN hi = RoleSet /\ DOMAIN ckpt = RoleSet
         /\ cursor \in [RoleSet -> Nat] /\ hi \in [RoleSet -> Nat] /\ ckpt \in [RoleSet -> Nat]
         /\ \A r \in RoleSet : /\ cursor[r] \in Nat /\ hi[r] \in Nat /\ ckpt[r] \in Nat
                               /\ Len(stream[r]) \in Nat /\ DOMAIN stream[r] = 1 .. Len(stream[r])
                               /\ cursor[r] <= Len(stream[r]) /\ hi[r] <= Len(stream[r])
                               /\ ckpt[r] <= Len(stream[r])
         /\ at["worker"] \in Place /\ "worker" \in Processes /\ DOMAIN at = Processes
<1>1. CursorsOK /\ StreamInv /\ PlaceInv
  BY DEF IndInv, TablesInv
<1>2. \A r \in RoleSet : Len(stream[r]) \in Nat /\ DOMAIN stream[r] = 1 .. Len(stream[r])
  BY <1>1, StreamLengths
<1>3. at["worker"] \in Place /\ "worker" \in Processes /\ DOMAIN at = Processes
  BY <1>1 DEF PlaceInv, Place, Processes
<1> QED BY <1>1, <1>2, <1>3 DEF CursorsOK

LEMMA ReadInv ==
  ASSUME IndInv, Read
  PROVE  IndInv' /\ Quiet
<1> DEFINE h == [r \in RoleSet |-> IF Len(stream[r]) > cursor[r] + BatchCount
                                   THEN cursor[r] + BatchCount ELSE Len(stream[r])]
           new == {r \in RoleSet : h[r] > cursor[r]}
<1>1. /\ at["worker"].pc = "read" /\ new # {} /\ hi' = h
      /\ At("worker", "archive", FirstRole(new), cursor[FirstRole(new)] + 1, 1)
      /\ UNCHANGED <<gateway, db, cursor, replay, skipped>>
  BY DEF Read, IsAt
<1>2. /\ UNCHANGED <<gateway, archive, orderTables, fillTables, otherTables, replay, skipped>>
      /\ UNCHANGED <<stream, ckpt, cursor>>
  BY <1>1 DEF db, gateway
<1>3. \A r \in RoleSet : /\ h[r] \in Nat /\ h[r] <= Len(stream[r]) /\ cursor[r] <= h[r]
                         /\ r \notin new => h[r] = cursor[r]
  BY Cursors, SyncAssumption
<1>4. PICK r \in RoleSet : r = FirstRole(new) /\ r \in new /\ (r = "event" => "reply" \notin new)
  BY <1>1 DEF FirstRole, RoleSet
<1> DEFINE x == [pc |-> "archive", role |-> r, idx |-> cursor[r] + 1, item |-> 1]
<1>5. x \in Place /\ at' = [at EXCEPT !["worker"] = x] /\ at'["worker"] = x
  BY <1>1, <1>4, Cursors DEF At, Place, Statements
<1>6. h[r] > cursor[r] /\ cursor[r] + 1 <= h[r] /\ cursor[r] < cursor[r] + 1
  BY <1>3, <1>4, Cursors
<1>7. h \in [RoleSet -> Nat]
  BY <1>3
<1> HIDE DEF h, new
<1>8. CursorsOK'
  BY <1>1, <1>2, <1>3, <1>7, Cursors DEF CursorsOK, IndInv, TablesInv
<1>9. InEntry("worker")'
  <2>1. cursor[r] + 1 \in DOMAIN stream'[r]
    BY <1>2, <1>3, <1>4, <1>6, Cursors
  <2> QED BY <1>5, <2>1 DEF InEntry
<1>10. BatchInv'
  BY <1>1, <1>2, <1>3, <1>5, <1>6 DEF BatchInv
<1>11. ASSUME NEW s \in RoleSet, NEW i \in DOMAIN stream[s], Worked(s, i)' PROVE Worked(s, i)
  <2>1. i \in Nat
    BY Cursors
  <2>2. i <= ckpt[s] \/ i <= cursor[s] \/ (s = r /\ i < cursor[r] + 1)
        \/ (s = "reply" /\ r = "event" /\ i <= h["reply"])
    BY <1>1, <1>2, <1>5, <1>11 DEF Worked
  <2>3. s = "reply" /\ r = "event" => h["reply"] = cursor["reply"]
    BY <1>3, <1>4
  <2> QED BY <2>1, <2>2, <2>3, Cursors DEF Worked
<1>12. x.pc # "next" /\ x.pc = "archive" /\ x.item = 1
  OBVIOUS
<1> HIDE DEF x
<1> QED BY <1>2, <1>5, <1>8, <1>9, <1>10, <1>11, <1>12, WorkerMovesInv

(* Lemma: a stream is reported; its cursor and, if it can be written, its  *)
(* checkpoint are at the end of the batch.                                 *)
LEMMA AdvanceInv ==
  ASSUME IndInv, Advance,
         NEW r \in RoleSet, r = at["worker"].role,
         ckpt' = ckpt \/ ckpt' = [ckpt EXCEPT ![r] = hi[r]]
  PROVE  IndInv' /\ Quiet
<1> DEFINE c == [cursor EXCEPT ![r] = hi[r]]
<1>1. /\ at["worker"].pc = "report" /\ cursor' = c
      /\ IF InBatch(c) = {} THEN At("worker", "read", "reply", 0, 1)
         ELSE At("worker", "report", FirstRole(InBatch(c)), 0, 1)
      /\ UNCHANGED <<gateway, archive, orderTables, fillTables, otherTables, hi, replay, skipped>>
      /\ UNCHANGED stream
  BY DEF Advance, IsAt, gateway
<1>2. \A s \in RoleSet : cursor[s] <= hi[s]
  BY <1>1 DEF IndInv, BatchInv
<1>3. /\ c \in [RoleSet -> Nat]
      /\ \A s \in RoleSet : c[s] = (IF s = r THEN hi[s] ELSE cursor[s]) /\ c[s] <= hi[s]
  <2>1. cursor \in [RoleSet -> Nat] /\ \A s \in RoleSet : hi[s] \in Nat /\ cursor[s] \in Nat
    BY Cursors
  <2>2. c \in [RoleSet -> Nat] /\ \A s \in RoleSet : c[s] = (IF s = r THEN hi[s] ELSE cursor[s])
    BY <2>1
  <2> HIDE DEF c
  <2> QED BY <1>2, <2>1, <2>2
<1>4. /\ ckpt' \in [RoleSet -> Nat]
      /\ \A s \in RoleSet : ckpt'[s] = ckpt[s] \/ ckpt'[s] = hi[s]
  BY Cursors DEF IndInv, TablesInv, CursorsOK
<1>5. PICK x \in Place : /\ at' = [at EXCEPT !["worker"] = x] /\ x.pc \in {"read", "report"}
                         /\ at'["worker"] = x
  <2>1. CASE InBatch(c) = {}
    <3> DEFINE y == [pc |-> "read", role |-> "reply", idx |-> 0, item |-> 1]
    <3>1. at' = [at EXCEPT !["worker"] = y] /\ y \in Place /\ y.pc = "read" /\ at'["worker"] = y
      BY <1>1, <2>1, Cursors DEF At, Place, RoleSet
    <3> HIDE DEF y
    <3> QED BY <3>1
  <2>2. CASE InBatch(c) # {}
    <3> DEFINE y == [pc |-> "report", role |-> FirstRole(InBatch(c)), idx |-> 0, item |-> 1]
    <3>1. at' = [at EXCEPT !["worker"] = y]
      BY <1>1, <2>2 DEF At
    <3>2. y \in Place /\ y.pc = "report"
      BY DEF Place, RoleSet, FirstRole
    <3>3. at'["worker"] = y
      <4> HIDE DEF y
      <4> QED BY <3>1, Cursors
    <3> HIDE DEF y
    <3> QED BY <3>1, <3>2, <3>3
  <2> QED BY <2>1, <2>2
<1> HIDE DEF c
<1>6. CursorsOK'
  <2>1. hi' \in [RoleSet -> Nat]
    BY <1>1 DEF IndInv, TablesInv, CursorsOK
  <2> QED BY <1>1, <1>3, <1>4, <2>1, Cursors DEF CursorsOK
<1>7. BatchInv'
  BY <1>1, <1>3, <1>5 DEF BatchInv, Statements
<1>8. ASSUME NEW s \in RoleSet, NEW i \in DOMAIN stream[s], Worked(s, i)' PROVE Worked(s, i)
  <2>1. i \in Nat
    BY Cursors
  <2>2. i <= ckpt'[s] \/ i <= c[s] \/ i <= hi[s]
    BY <1>1, <1>5, <1>8 DEF Worked, Statements
  <2> QED BY <1>1, <1>3, <1>4, <2>1, <2>2 DEF Worked
<1>9. x.pc # "next" /\ x.pc \notin Statements
  BY <1>5 DEF Statements
<1> QED BY <1>1, <1>5, <1>6, <1>7, <1>8, <1>9, WorkerMovesInv

LEMMA CheckpointInv ==
  ASSUME IndInv, SaveCheckpoint \/ SaveCheckpointFails
  PROVE  IndInv' /\ Quiet
<1>1. PICK r \in RoleSet : r = at["worker"].role
  BY Cursors DEF Place
<1>2. Advance /\ (ckpt' = ckpt \/ ckpt' = [ckpt EXCEPT ![r] = hi[r]])
  BY <1>1 DEF SaveCheckpoint, SaveCheckpointFails, UpsertStreamCheckpoint, Saved
<1> QED BY <1>1, <1>2, AdvanceInv

(* Lemma: the worker stops, and starts again from checkpoints.             *)
LEMMA CrashInv ==
  ASSUME IndInv, Crash
  PROVE  IndInv' /\ Quiet
<1> DEFINE x == [pc |-> "down", role |-> "reply", idx |-> 0, item |-> 1]
<1>1. /\ cursor' = [r \in RoleSet |-> 0] /\ hi' = [r \in RoleSet |-> 0]
      /\ UNCHANGED <<gateway, archive, orderTables, fillTables, otherTables, ckpt, replay, skipped>>
      /\ UNCHANGED stream
  BY DEF Crash, db, gateway
<1>2. at' = [at EXCEPT !["worker"] = x] /\ x \in Place /\ at'["worker"] = x
  BY Cursors DEF Crash, At, Place, RoleSet
<1>3. x.pc = "down" /\ at'["worker"].pc = "down" /\ x.pc # "next" /\ x.pc \notin Statements
  BY <1>2 DEF Statements
<1> HIDE DEF x
<1>4. CursorsOK'
  <2>1. ckpt \in [RoleSet -> Nat]
    BY DEF IndInv, TablesInv, CursorsOK
  <2>2. cursor' \in [RoleSet -> Nat] /\ \A r \in RoleSet : cursor'[r] = 0 /\ hi'[r] = 0
    BY <1>1
  <2> QED BY <1>1, <2>1, <2>2, Cursors DEF CursorsOK
<1>5. BatchInv'
  BY <1>3 DEF BatchInv, Statements
<1>6. ASSUME NEW s \in RoleSet, NEW i \in DOMAIN stream[s], Worked(s, i)' PROVE Worked(s, i)
  <2>1. i \in Nat /\ i > 0
    BY Cursors
  <2>2. i <= ckpt[s] \/ i <= 0
    BY <1>1, <1>3, <1>6 DEF Worked, Statements
  <2> QED BY <2>1, <2>2 DEF Worked
<1> QED BY <1>1, <1>2, <1>3, <1>4, <1>5, <1>6, WorkerMovesInv

LEMMA RestartInv ==
  ASSUME IndInv, NEW unread, Restart(unread)
  PROVE  IndInv' /\ Quiet
<1> DEFINE x == [pc |-> "read", role |-> "reply", idx |-> 0, item |-> 1]
<1>1. /\ cursor' = [r \in RoleSet |-> StartAt(r, unread)]
      /\ UNCHANGED <<gateway, archive, orderTables, fillTables, otherTables, ckpt, hi, replay, skipped>>
      /\ UNCHANGED stream
  BY DEF Restart, db, gateway
<1>2. at' = [at EXCEPT !["worker"] = x] /\ x \in Place /\ at'["worker"] = x
  BY Cursors DEF Restart, At, Place, RoleSet
<1>3. x.pc = "read" /\ at'["worker"].pc = "read" /\ x.pc # "next" /\ x.pc \notin Statements
  BY <1>2 DEF Statements
<1> HIDE DEF x
<1>4. cursor' \in [RoleSet -> Nat] /\ \A r \in RoleSet : cursor'[r] \in {0, ckpt[r]}
  BY <1>1, Cursors DEF StartAt
<1>5. CursorsOK'
  <2>1. ASSUME NEW r \in RoleSet PROVE cursor'[r] <= Len(stream'[r])
    <3>1. ckpt[r] <= Len(stream[r]) /\ Len(stream[r]) \in Nat
      BY Cursors
    <3>2. cursor'[r] = 0 \/ cursor'[r] = ckpt[r]
      BY <1>4
    <3>3. 0 <= Len(stream[r])
      BY <3>1
    <3> QED BY <1>1, <3>1, <3>2, <3>3
  <2> QED BY <1>1, <1>4, <2>1, Cursors DEF CursorsOK
<1>6. BatchInv'
  BY <1>3 DEF BatchInv, Statements
<1>7. ASSUME NEW s \in RoleSet, NEW i \in DOMAIN stream[s], Worked(s, i)' PROVE Worked(s, i)
  <2>1. i \in Nat /\ i > 0
    BY Cursors
  <2>2. i <= ckpt[s] \/ i <= cursor'[s]
    BY <1>1, <1>3, <1>7 DEF Worked, Statements
  <2> QED BY <1>4, <2>1, <2>2 DEF Worked
<1> QED BY <1>1, <1>2, <1>3, <1>5, <1>6, <1>7, WorkerMovesInv

-----------------------------------------------------------------------------
(* The replay of the archive.                                              *)

(* Lemma: the replay moves, and the worker stays where it is.              *)
LEMMA ReplayMovesInv ==
  ASSUME IndInv, UNCHANGED <<gateway, db, worker, skipped>>, ArchiveOK',
         NEW x \in Place, at' = [at EXCEPT !["replay"] = x], x.pc \notin {"read", "report"},
         x.pc \in Statements => InEntry("replay")',
         x = at["replay"] \/ x.pc \notin Statements \/
           (x.item = 1 /\ x.pc \notin {"purge", "summary", "append"})
  PROVE  IndInv' /\ Quiet
<1>1. UNCHANGED <<archive, orderTables, fillTables, otherTables>> /\ UNCHANGED <<ckpt, cursor, hi, stream>>
  BY DEF db, worker, gateway
<1>2. BrokerInv' /\ StreamInv' /\ RowsOK' /\ LotsOK' /\ RecordsOK' /\ Grows
  BY <1>1, RowsStay
<1>3. CursorsOK'
  BY <1>1 DEF IndInv, TablesInv, CursorsOK
<1>4. PlaceInv'
  BY <1>2, OneMoves DEF Processes
<1>5. at'["worker"] = at["worker"]
  BY Cursors
<1>6. BatchInv' /\ \A r \in RoleSet : \A i \in DOMAIN stream[r] : Worked(r, i)' => Worked(r, i)
  BY <1>1, <1>5 DEF IndInv, BatchInv, Worked
<1>7. CoverInv'
  BY <1>1, <1>2, <1>6, CoverKept
<1>8. \A p \in Processes : at'[p] = IF p = "replay" THEN x ELSE at[p]
  BY DEF IndInv, PlaceInv
<1>9. Quiet
  BY <1>6, <1>8 DEF Quiet
<1> QED BY <1>2, <1>3, <1>4, <1>6, <1>7, <1>9 DEF IndInv, TablesInv

(* Lemma: the query of a stage returns archived entries.                   *)
LEMMA QueryOK ==
  ASSUME IndInv, NEW n, archive' = archive, stream' = stream, todo' = ArchivedRows(n)
  PROVE  ArchiveOK'
<1>1. ArchiveOK
  BY DEF IndInv, TablesInv
<1>2. DOMAIN archive \subseteq Nat
  <2>1. archive \in Seq(RoleSet \X Nat)
    BY <1>1 DEF ArchiveOK
  <2>2. DOMAIN archive = 1 .. Len(archive) /\ Len(archive) \in Nat
    BY <2>1, LenProperties
  <2> QED BY <2>2
<1>3. DOMAIN todo' \subseteq DOMAIN archive /\ \A k \in DOMAIN todo' : todo'[k] = archive[k]
  BY DEF ArchivedRows
<1>4. \A k \in DOMAIN todo' : todo'[k] \in Range(archive)
  BY <1>3 DEF Range
<1>5. DOMAIN todo' \subseteq Nat
  BY <1>2, <1>3
<1>6. archive' \in Seq(RoleSet \X Nat) /\ \A e \in Range(archive') : e[2] \in DOMAIN stream'[e[1]]
  BY <1>1 DEF ArchiveOK
<1> QED BY <1>4, <1>5, <1>6 DEF ArchiveOK

(* Lemma: it starts, is interrupted and takes its rows one by one.         *)
LEMMA StartReplayInv ==
  ASSUME IndInv, StartReplay
  PROVE  IndInv' /\ Quiet
<1> DEFINE x == [pc |-> "next", role |-> "reply", idx |-> 0, item |-> 1]
<1>1. UNCHANGED <<gateway, db, worker, skipped>> /\ todo' = ArchivedRows(1)
  BY DEF StartReplay
<1>2. ArchiveOK'
  BY <1>1, QueryOK DEF db, gateway
<1>3. at' = [at EXCEPT !["replay"] = x] /\ x \in Place /\ x.pc \notin Statements \cup {"read", "report"}
  BY DEF StartReplay, At, Place, RoleSet, Statements
<1> HIDE DEF x
<1> QED BY <1>1, <1>2, <1>3, ReplayMovesInv

LEMMA ReplayStopsInv ==
  ASSUME IndInv, ReplayStops
  PROVE  IndInv' /\ Quiet
<1> DEFINE x == [pc |-> "down", role |-> "reply", idx |-> 0, item |-> 1]
<1>1. UNCHANGED <<gateway, db, worker, skipped>> /\ todo' = <<>>
  BY DEF ReplayStops
<1>2. ArchiveOK'
  BY <1>1 DEF IndInv, TablesInv, ArchiveOK, db, gateway
<1>3. at' = [at EXCEPT !["replay"] = x] /\ x \in Place /\ x.pc \notin Statements \cup {"read", "report"}
  BY DEF ReplayStops, At, Place, RoleSet, Statements
<1> HIDE DEF x
<1> QED BY <1>1, <1>2, <1>3, ReplayMovesInv

LEMMA ReplayNextInv ==
  ASSUME IndInv, ReplayNext
  PROVE  IndInv' /\ Quiet
<1>1. /\ UNCHANGED <<gateway, db, worker, skipped>> /\ UNCHANGED <<archive, stream>>
      /\ at["replay"].pc = "next"
  BY DEF ReplayNext, IsAt, db, gateway
<1>2. ArchiveOK /\ StreamInv /\ at["replay"] \in Place /\ at \in [Processes -> Place]
  BY DEF IndInv, TablesInv, PlaceInv, Place, Processes
<1>3. ASSUME ArchiveOK', UNCHANGED at PROVE IndInv' /\ Quiet
  <2>1. at' = [at EXCEPT !["replay"] = at["replay"]]
    BY <1>2, <1>3
  <2>2. at["replay"].pc \notin Statements \cup {"read", "report"}
    BY <1>1 DEF Statements
  <2> QED BY <1>1, <1>2, <1>3, <2>1, <2>2, ReplayMovesInv
<1>4. ASSUME NEW k \in DOMAIN todo, NEW r, NEW i, r = todo[k][1], i = todo[k][2],
             IF Refused(stream[r][i]) THEN UNCHANGED at
             ELSE At("replay", FirstStatement(stream[r][i], 1), r, i, 1),
             todo' = Restrict(todo, DOMAIN todo \ {k})
      PROVE  IndInv' /\ Quiet
  <2>1. ArchiveOK'
    <3>1. \A j \in DOMAIN todo' : j \in DOMAIN todo /\ todo'[j] = todo[j]
      BY <1>4 DEF Restrict
    <3> QED BY <1>1, <1>2, <3>1 DEF ArchiveOK
  <2>2. r \in RoleSet /\ i \in Nat /\ <<r, i>> = todo[k] /\ <<r, i>> \in Range(archive) /\ i \in DOMAIN stream[r]
    <3>1. todo[k] \in Range(archive) /\ archive \in Seq(RoleSet \X Nat)
      BY <1>2, <1>4 DEF ArchiveOK
    <3>2. Range(archive) \subseteq RoleSet \X Nat
      BY <3>1, RangeOfSeq
    <3>3. todo[k] \in RoleSet \X Nat
      BY <3>1, <3>2
    <3>4. <<r, i>> = todo[k] /\ r \in RoleSet /\ i \in Nat
      BY <1>4, <3>3
    <3> QED BY <1>2, <1>4, <3>1, <3>4 DEF ArchiveOK
  <2>3. PICK e : e = stream[r][i]
    OBVIOUS
  <2>4. EntryOK(e)
    BY <1>2, <2>2, <2>3, StreamLengths
  <2>5. CASE Refused(e)
    BY <1>3, <1>4, <2>1, <2>3, <2>5
  <2>6. CASE ~ Refused(e)
    <3>1. 1 \in DOMAIN e.items
      BY <2>4, <2>6 DEF EntryOK, Refused, DecodeEntry
    <3>2. /\ FirstStatement(e, 1) \in StatementsOf(e, 1)
          /\ FirstStatement(e, 1) \in Statements \ {"archive", "purge", "summary", "append"}
      BY <2>4, <2>6, <3>1, FirstOf
    <3> DEFINE x == [pc |-> FirstStatement(e, 1), role |-> r, idx |-> i, item |-> 1]
    <3>3. at' = [at EXCEPT !["replay"] = x]
      BY <1>4, <2>3, <2>6 DEF At
    <3>4. /\ x \in Place /\ x.pc \notin {"read", "report", "purge", "summary", "append"}
          /\ x.item = 1
      BY <2>2, <3>2 DEF Place, Statements
    <3>5. at'["replay"] = x
      BY <1>2, <3>3 DEF Processes
    <3>6. InEntry("replay")'
      <4>1. /\ at'["replay"].role = r /\ at'["replay"].idx = i /\ at'["replay"].item = 1
            /\ at'["replay"].pc = FirstStatement(e, 1)
        BY <3>5
      <4>2. stream'[r][i] = e /\ i \in DOMAIN stream'[r] /\ <<r, i>> \in Range(archive')
        BY <1>1, <2>2, <2>3
      <4>3. Current("replay")' = e /\ EntryOf("replay")' = <<r, i>>
        BY <4>1, <4>2 DEF Current, EntryOf
      <4>4. LotsBooked(e, 0)'
        BY DEF LotsBooked
      <4>5. at'["replay"].item - 1 = 0 /\ at'["replay"].pc \notin {"archive", "purge"}
        BY <3>2, <4>1
      <4> QED BY <2>6, <3>1, <3>2, <4>1, <4>2, <4>3, <4>4, <4>5 DEF InEntry
    <3> HIDE DEF x
    <3> QED BY <1>1, <2>1, <3>3, <3>4, <3>6, ReplayMovesInv
  <2> QED BY <2>5, <2>6
<1>5. CASE todo' = ArchivedRows(stage + 1) /\ UNCHANGED at
  <2>1. ArchiveOK'
    BY <1>1, <1>5, QueryOK
  <2> QED BY <1>3, <1>5, <2>1
<1>6. CASE UNCHANGED todo /\ At("replay", "down", "reply", 0, 1)
  <2> DEFINE x == [pc |-> "down", role |-> "reply", idx |-> 0, item |-> 1]
  <2>1. ArchiveOK'
    BY <1>1, <1>2, <1>6 DEF ArchiveOK
  <2>2. at' = [at EXCEPT !["replay"] = x] /\ x \in Place /\ x.pc \notin Statements \cup {"read", "report"}
    BY <1>6 DEF At, Place, RoleSet, Statements
  <2> HIDE DEF x
  <2> QED BY <1>1, <2>1, <2>2, ReplayMovesInv
<1> QED BY <1>4, <1>5, <1>6 DEF ReplayNext

-----------------------------------------------------------------------------
(* The gateway.                                                            *)

(* Lemma: entries are added to a stream between two batches of the worker. *)
LEMMA EmitInv ==
  ASSUME IndInv, BrokerInv', scenario' = scenario, at["worker"].pc \in {"read", "down"},
         UNCHANGED <<db, at, worker, replay, skipped>>, pages' \in Nat, pages <= pages',
         NEW r \in RoleSet, NEW U, NEW es \in Seq(U), Emit(r, es),
         \A j \in 1 .. Len(es) : EntryOK(es[j])'
  PROVE  IndInv'
<1>1. /\ UNCHANGED <<archive, rows, fills, summary, transfers, events, attempts, feeRecords>>
      /\ UNCHANGED <<ckpt, cursor, hi, todo, at, skipped>>
  BY DEF db, worker, replay, orderTables, fillTables, otherTables
<1>2. /\ StreamInv /\ RowsOK /\ LotsOK /\ RecordsOK /\ ArchiveOK /\ CursorsOK /\ PlaceInv
      /\ BrokerInv /\ pages \in Nat
  BY DEF IndInv, TablesInv, BrokerInv
<1>3. ASSUME NEW e, EntryOK(e) PROVE EntryOK(e)'
  BY <1>2, <1>3 DEF EntryOK, OrderCancelAttempt
<1>4. DOMAIN stream = RoleSet /\ stream' = [stream EXCEPT ![r] = stream[r] \o es]
  BY <1>2 DEF StreamInv, Emit
<1>5. \A s \in RoleSet : s # r => stream'[s] = stream[s]
  BY <1>4
<1>6. PICK t : t = stream'[r] /\ t = stream[r] \o es
  BY <1>4
<1>7. /\ t \in Seq(Range(t)) /\ Len(t) = Len(stream[r]) + Len(es)
      /\ Len(stream[r]) \in Nat /\ Len(es) \in Nat
      /\ DOMAIN stream[r] = 1 .. Len(stream[r]) /\ DOMAIN t = 1 .. Len(stream[r]) + Len(es)
      /\ \A i \in 1 .. Len(stream[r]) : t[i] = stream[r][i]
      /\ \A i \in 1 .. Len(es) : t[Len(stream[r]) + i] = es[i]
  <2>1. PICK s, S : s = stream[r] /\ S = Range(stream[r]) \cup U
    OBVIOUS
  <2>2. s \in Seq(S) /\ es \in Seq(S) /\ t = s \o es
    BY <1>2, <1>6, <2>1, SeqMonotonic DEF StreamInv
  <2>3. /\ t \in Seq(S) /\ Len(t) = Len(s) + Len(es)
        /\ \A i \in 1 .. Len(s) + Len(es) : t[i] = IF i <= Len(s) THEN s[i] ELSE es[i - Len(s)]
    BY <2>2, ConcatProperties
  <2>4. DOMAIN t = 1 .. Len(t) /\ DOMAIN s = 1 .. Len(s) /\ Len(s) \in Nat /\ Len(es) \in Nat
    BY <2>2, <2>3, LenProperties
  <2>5. t \in Seq(Range(t))
    BY <2>3, SeqOfRange
  <2>6. \A i \in 1 .. Len(s) : t[i] = s[i]
    BY <2>3, <2>4
  <2>7. ASSUME NEW i \in 1 .. Len(es) PROVE t[Len(s) + i] = es[i]
    <3>1. /\ Len(s) + i \in 1 .. Len(s) + Len(es) /\ ~ (Len(s) + i <= Len(s))
          /\ (Len(s) + i) - Len(s) = i
      BY <2>4
    <3> QED BY <2>3, <3>1
  <2> QED BY <2>1, <2>3, <2>4, <2>5, <2>6, <2>7
<1>8. ASSUME NEW i \in DOMAIN t PROVE EntryOK(t[i])'
  <2>1. CASE i <= Len(stream[r])
    <3>1. i \in 1 .. Len(stream[r]) /\ t[i] = stream[r][i]
      BY <1>7, <1>8, <2>1
    <3>2. EntryOK(stream[r][i])
      BY <1>2, <1>7, <3>1 DEF StreamInv
    <3>3. PICK e : e = stream[r][i]
      OBVIOUS
    <3>4. EntryOK(e)' /\ t[i] = e
      BY <1>3, <3>1, <3>2, <3>3
    <3> QED BY <3>4
  <2>2. CASE i > Len(stream[r])
    <3>1. i - Len(stream[r]) \in 1 .. Len(es) /\ i = Len(stream[r]) + (i - Len(stream[r]))
      BY <1>7, <1>8, <2>2
    <3>2. t[i] = es[i - Len(stream[r])]
      BY <1>7, <3>1
    <3> QED BY <3>1, <3>2
  <2> QED BY <1>7, <1>8, <2>1, <2>2
<1>9. StreamInv'
  <2>1. ASSUME NEW s \in RoleSet, s # r
        PROVE  stream'[s] \in Seq(Range(stream'[s])) /\ \A i \in DOMAIN stream'[s] : EntryOK(stream[s][i])'
    <3>1. stream'[s] = stream[s] /\ stream[s] \in Seq(Range(stream[s]))
      BY <1>2, <1>5, <2>1 DEF StreamInv
    <3>2. ASSUME NEW i \in DOMAIN stream[s] PROVE EntryOK(stream[s][i])'
      <4>1. PICK e : e = stream[s][i] /\ e = stream'[s][i]
        BY <3>1
      <4>2. EntryOK(e)
        BY <1>2, <4>1 DEF StreamInv
      <4>3. EntryOK(e)'
        BY <1>3, <4>2
      <4> QED BY <4>1, <4>3
    <3> QED BY <3>1, <3>2
  <2>2. t \in Seq(Range(t)) /\ t = stream'[r] /\ \A i \in DOMAIN t : EntryOK(t[i])'
    BY <1>6, <1>7, <1>8
  <2>3. DOMAIN stream' = RoleSet
    BY <1>4
  <2>4. ASSUME NEW s \in RoleSet
        PROVE  stream'[s] \in Seq(Range(stream'[s])) /\ \A i \in DOMAIN stream'[s] : EntryOK(stream[s][i])'
    BY <2>1, <2>2
  <2> QED BY <2>3, <2>4 DEF StreamInv
<1>10. \A s \in RoleSet : /\ \A i \in DOMAIN stream[s] : i \in DOMAIN stream'[s] /\ stream'[s][i] = stream[s][i]
                          /\ Len(stream'[s]) >= Len(stream[s])
  <2>1. ASSUME NEW i \in DOMAIN stream[r] PROVE i \in DOMAIN t /\ t[i] = stream[r][i]
    BY <1>7
  <2>2. Len(t) >= Len(stream[r])
    BY <1>7
  <2>3. \A s \in RoleSet : Len(stream[s]) \in Nat
    BY Cursors
  <2>4. ASSUME NEW s \in RoleSet
        PROVE  /\ \A i \in DOMAIN stream[s] : i \in DOMAIN stream'[s] /\ stream'[s][i] = stream[s][i]
               /\ Len(stream'[s]) >= Len(stream[s])
    <3>1. CASE s = r
      BY <1>6, <2>1, <2>2, <3>1
    <3>2. CASE s # r
      <4>1. Len(stream[s]) \in Nat /\ stream'[s] = stream[s]
        BY <1>5, <2>3, <3>2
      <4> QED BY <4>1
    <3> QED BY <3>1, <3>2
  <2> QED BY <2>4
<1>11. Grows
  BY <1>1, <1>10 DEF Grows
<1>12. RowsOK' /\ LotsOK'
  BY <1>1, <1>2 DEF RowsOK, LotsOK, Fill, ComponentTransfer
<1>13. RecordsOK'
  <2>1. OrderFeeRecord \subseteq OrderFeeRecord'
    BY <1>2 DEF OrderFeeRecord
  <2> QED BY <1>1, <1>2, <2>1 DEF RecordsOK, OrderCancelAttempt
<1>14. ArchiveOK'
  <2>1. Range(archive) \subseteq RoleSet \X Nat
    BY <1>2, RangeOfSeq DEF ArchiveOK
  <2>2. ASSUME NEW x \in Range(archive) PROVE x[2] \in DOMAIN stream'[x[1]]
    <3>1. x[1] \in RoleSet /\ x[2] \in DOMAIN stream[x[1]]
      BY <1>2, <2>1 DEF ArchiveOK
    <3> QED BY <1>10, <3>1
  <2> QED BY <1>1, <1>2, <2>2 DEF ArchiveOK
<1>15. CursorsOK'
  <2>1. ASSUME NEW c \in {ckpt, cursor, hi}, NEW s \in RoleSet PROVE c[s] <= Len(stream'[s])
    <3>1. c[s] \in Nat /\ Len(stream[s]) \in Nat /\ c[s] <= Len(stream[s])
      BY Cursors
    <3>2. Len(stream'[s]) >= Len(stream[s]) /\ Len(stream'[s]) \in Nat
      BY <1>5, <1>6, <1>7, <1>10, <3>1
    <3> QED BY <3>1, <3>2
  <2> QED BY <1>1, <1>2, <2>1 DEF CursorsOK
<1>16. PlaceInv'
  BY <1>1, <1>2, <1>11, EntryStays DEF PlaceInv
<1>17. BatchInv'
  BY <1>1 DEF IndInv, BatchInv
<1>18. ASSUME NEW s \in RoleSet, NEW i \in DOMAIN stream'[s], Worked(s, i)', <<s, i>> \notin skipped'
       PROVE  Covered(s, i)'
  <2>1. i <= ckpt[s] \/ i <= cursor[s]
    BY <1>1, <1>18 DEF Worked, Statements
  <2>2. i \in Nat /\ i > 0
    <3>1. DOMAIN stream'[s] = 1 .. Len(stream'[s]) /\ Len(stream'[s]) \in Nat
      <4>1. CASE s = r
        BY <1>6, <1>7, <4>1
      <4>2. CASE s # r
        BY <1>5, <4>2, Cursors
      <4> QED BY <4>1, <4>2
    <3> QED BY <3>1
  <2>3. i \in DOMAIN stream[s]
    <3>1. /\ DOMAIN stream[s] = 1 .. Len(stream[s]) /\ Len(stream[s]) \in Nat
          /\ ckpt[s] \in Nat /\ cursor[s] \in Nat /\ ckpt[s] <= Len(stream[s]) /\ cursor[s] <= Len(stream[s])
      BY Cursors
    <3> QED BY <2>1, <2>2, <3>1
  <2>4. Covered(s, i)
    BY <1>1, <1>18, <2>1, <2>3 DEF IndInv, CoverInv, Worked
  <2> QED BY <1>2, <1>11, <2>3, <2>4, CoveredStays
<1> QED BY <1>9, <1>12, <1>13, <1>14, <1>15, <1>16, <1>17, <1>18 DEF IndInv, TablesInv, CoverInv

(* Lemma: what the gateway says of an order.                               *)
LEMMA ItemOK ==
  ASSUME IndInv, NEW o \in Orders, NEW b \in [st : BrokerStatus, cum : 0 .. Qty], NEW n \in 0 .. Qty
  PROVE  /\ OrderItem(o, b) \in [o : Orders, rep : OrderReport, lot : 0 .. Qty, etf : BOOLEAN]
         /\ FillItem(o, b, n) \in [o : Orders, rep : OrderReport, lot : 0 .. Qty, etf : BOOLEAN]
<1>1. Qty \in Nat /\ scenario.full \in BOOLEAN /\ scenario.etf \in BOOLEAN
  BY SyncAssumption, ScenarioAssumption DEF IndInv, BrokerInv
<1>2. Report(b) \in OrderReport
  <2>1. b.st \in BrokerStatus /\ b.cum \in 0 .. Qty /\ Qty - b.cum \in 0 .. Qty /\ 0 \in 0 .. Qty
    BY <1>1
  <2>2. Terminal(b.st) \in BOOLEAN /\ "working" \in BrokerStatus
    BY DEF Terminal, BrokerStatus
  <2> QED BY <1>1, <2>1, <2>2 DEF Report, OrderReport
<1>3. 0 \in 0 .. Qty
  BY <1>1
<1>4. OrderItem(o, b) \in [o : Orders, rep : OrderReport, lot : 0 .. Qty, etf : BOOLEAN]
  BY <1>1, <1>2, <1>3 DEF OrderItem
<1> QED BY <1>4 DEF FillItem

(* Lemma: a message about one order, and a list of fills.                  *)
LEMMA OneItemOK ==
  ASSUME NEW kind \in Kinds, kind \notin {"note", "garbled"}, NEW x, x.o \in Orders,
         kind \in Reports \cup Trades =>
           x.rep \in OrderReport /\ x.lot \in 0 .. Qty /\ x.etf \in BOOLEAN,
         kind = "cancel" => x.status \in OrderCancelAttempt,
         kind = "fee" => x.asOf \in 1 .. pages' /\ x.done \in BOOLEAN,
         NEW e, e = Entry(kind, <<x>>)
  PROVE  EntryOK(e)'
<1>2. e.kind = kind /\ Len(e.items) = 1 /\ DOMAIN e.items = 1 .. 1 /\ e.items[1] = x
  BY DEF Entry
<1>3. ASSUME NEW k \in DOMAIN e.items
      PROVE  /\ e.items[k].o \in Orders
             /\ e.kind \in Reports \cup Trades =>
                  /\ e.items[k].rep \in OrderReport
                  /\ e.items[k].lot \in 0 .. Qty /\ e.items[k].etf \in BOOLEAN
             /\ e.kind = "cancel" => e.items[k].status \in OrderCancelAttempt
             /\ e.kind = "fee" => e.items[k].asOf \in 1 .. pages' /\ e.items[k].done \in BOOLEAN
  <2>1. e.items[k] = x
    BY <1>2
  <2> QED BY <1>2, <2>1
<1>4. Len(e.items) \in Nat /\ DOMAIN e.items = 1 .. Len(e.items) /\ Len(e.items) > 0 /\ Len(e.items) <= 1
  <2>1. Len(e.items) = 1 /\ DOMAIN e.items = 1 .. 1
    BY <1>2
  <2>2. 1 \in Nat /\ 1 > 0 /\ 1 <= 1
    OBVIOUS
  <2> QED BY <2>1, <2>2, Zenon
<1>5. e.kind \in Kinds /\ e.kind \notin {"note", "garbled"}
  BY <1>2
<1> QED BY <1>3, <1>4, <1>5 DEF EntryOK

LEMMA FillsOK ==
  ASSUME IndInv, NEW o \in Orders, NEW b \in [st : BrokerStatus, cum : 0 .. Qty],
         NEW m \in Nat \ {0}, NEW lots \in [1 .. m -> 0 .. Qty],
         NEW e, e = Entry("fill", [n \in 1 .. m |-> FillItem(o, b, lots[n])])
  PROVE  EntryOK(e)'
<1> DEFINE I == [o : Orders, rep : OrderReport, lot : 0 .. Qty, etf : BOOLEAN]
<1>1. PICK s : s = [n \in 1 .. m |-> FillItem(o, b, lots[n])]
  OBVIOUS
<1>2. ASSUME NEW n \in 1 .. m PROVE s[n] \in I
  <2>1. lots[n] \in 0 .. Qty /\ s[n] = FillItem(o, b, lots[n])
    BY <1>1
  <2> QED BY <2>1, ItemOK
<1>3. DOMAIN s = 1 .. m
  BY <1>1
<1>4. s \in [1 .. m -> I]
  BY <1>1, <1>2, <1>3
<1>5. s \in Seq(I) /\ Len(s) = m
  <2> HIDE DEF I
  <2>1. s \in Seq(I)
    BY <1>4
  <2>2. Len(s) \in Nat /\ DOMAIN s = 1 .. Len(s)
    BY <2>1, LenProperties
  <2> QED BY <1>3, <2>1, <2>2
<1>6. e.kind = "fill" /\ e.items = s
  BY <1>1 DEF Entry
<1>7. \A k \in DOMAIN s : s[k].o \in Orders /\ s[k].rep \in OrderReport /\ s[k].lot \in 0 .. Qty /\ s[k].etf \in BOOLEAN
  BY <1>2, <1>3
<1>8. /\ e.kind \in Kinds \ {"note", "garbled", "cancel", "fee"} /\ e.kind \in Trades \cup {"page"}
      /\ Len(e.items) \in Nat /\ DOMAIN e.items = 1 .. Len(e.items) /\ Len(e.items) > 0
  BY <1>3, <1>5, <1>6 DEF Kinds, Trades, Reports
<1> QED BY <1>6, <1>7, <1>8 DEF EntryOK

(* Lemma: the gateway goes on with an order.                               *)
LEMMA OrderGoesOn ==
  ASSUME IndInv, NEW o \in Orders, NEW b \in [st : BrokerStatus, cum : 0 .. Qty],
         b.st # "new", b.st \in {"working", "partially_filled"} => b.cum < Qty,
         broker' = [broker EXCEPT ![o] = b], UNCHANGED <<pages, scenario>>
  PROVE  BrokerInv' /\ pages' \in Nat /\ pages <= pages'
<1>1. BrokerInv
  BY DEF IndInv
<1>2. /\ broker' \in [Orders -> [st : BrokerStatus, cum : 0 .. Qty]]
      /\ \A x \in Orders : broker'[x] = IF x = o THEN b ELSE broker[x]
  BY <1>1 DEF BrokerInv
<1>3. \A x \in Orders : /\ broker'[x].st = "new" => broker'[x].cum = 0
                        /\ Live(x)' => broker'[x].cum < Qty
  BY <1>1, <1>2 DEF BrokerInv, Live
<1>4. pages \in Nat /\ scenario \in Scenarios
  BY <1>1 DEF BrokerInv
<1> QED BY <1>2, <1>3, <1>4 DEF BrokerInv

LEMMA GatewayAnswers ==
  ASSUME IndInv, NEW topic, Another(topic), scenario' = scenario
  PROVE  BrokerInv' /\ pages' = pages + 1 /\ pages' \in Nat /\ pages <= pages' /\ broker' = broker
<1>1. pages' = pages + 1 /\ broker' = broker /\ pages \in Nat /\ BrokerInv
  BY DEF IndInv, BrokerInv, Another
<1>2. BrokerInv'
  BY <1>1 DEF BrokerInv, Live
<1> QED BY <1>1, <1>2

(* The gateway writes between two batches.                                 *)
Between == at["worker"].pc \in {"read", "down"} /\ UNCHANGED <<scenario, db, at, worker, replay, skipped>>

LEMMA OneSent ==
  ASSUME IndInv, Between, BrokerInv', pages' \in Nat, pages <= pages',
         NEW r \in RoleSet, NEW e, EntryOK(e)', Emit(r, <<e>>)
  PROVE  IndInv'
<1>1. PICK es : es = <<e>>
  OBVIOUS
<1>2. es \in Seq({e}) /\ \A j \in 1 .. Len(es) : es[j] = e
  BY <1>1
<1>3. \A j \in 1 .. Len(es) : EntryOK(es[j])'
  BY <1>2
<1>4. Emit(r, es)
  BY <1>1
<1> QED BY <1>2, <1>3, <1>4, EmitInv DEF Between

(* Lemma: the gateway reports what became of an order.                     *)
LEMMA OrderSent ==
  ASSUME IndInv, Between, UNCHANGED pages, NEW o \in Orders,
         NEW b \in [st : BrokerStatus, cum : 0 .. Qty], b.st # "new",
         b.st \in {"working", "partially_filled"} => b.cum < Qty,
         broker' = [broker EXCEPT ![o] = b],
         NEW r \in RoleSet, NEW kind \in {"order", "reject", "batch"},
         Emit(r, <<Entry(kind, <<OrderItem(o, b)>>)>>)
  PROVE  IndInv'
<1>1. BrokerInv' /\ pages' \in Nat /\ pages <= pages'
  BY OrderGoesOn DEF Between
<1>2. PICK x : x = OrderItem(o, b)
  OBVIOUS
<1>3. PICK e : e = Entry(kind, <<x>>)
  OBVIOUS
<1>4. x \in [o : Orders, rep : OrderReport, lot : 0 .. Qty, etf : BOOLEAN]
  <2>1. 0 \in 0 .. Qty
    BY SyncAssumption
  <2> QED BY <1>2, <2>1, ItemOK
<1>5. EntryOK(e)'
  BY <1>3, <1>4, OneItemOK DEF Kinds, Reports
<1>6. Emit(r, <<e>>)
  BY <1>2, <1>3
<1> QED BY <1>1, <1>5, <1>6, OneSent

LEMMA OrderChangesInv ==
  ASSUME IndInv, Between, NEW o \in Orders,
         BrokerAccept(o) \/ BrokerCancel(o) \/ \E kind \in {"reject", "batch"} : BrokerReject(o, kind)
  PROVE  IndInv'
<1>1. /\ broker[o] \in [st : BrokerStatus, cum : 0 .. Qty] /\ Qty \in Nat \ {0}
      /\ broker[o].st = "new" => broker[o].cum = 0
  BY SyncAssumption DEF IndInv, BrokerInv
<1>2. CASE BrokerAccept(o)
  <2> DEFINE b == [broker[o] EXCEPT !.st = "working"]
  <2>1. b \in [st : BrokerStatus, cum : 0 .. Qty] /\ b.st = "working" /\ b.cum < Qty
    BY <1>1, <1>2 DEF BrokerAccept, BrokerStatus
  <2>2. /\ broker' = [broker EXCEPT ![o] = b] /\ UNCHANGED pages
        /\ Emit("event", <<Entry("order", <<OrderItem(o, b)>>)>>)
    BY <1>2 DEF BrokerAccept
  <2> HIDE DEF b
  <2> QED BY <2>1, <2>2, OrderSent DEF RoleSet
<1>3. CASE BrokerCancel(o)
  <2> DEFINE b == [broker[o] EXCEPT !.st = "cancelled"]
  <2>1. b \in [st : BrokerStatus, cum : 0 .. Qty] /\ b.st = "cancelled"
    BY <1>1 DEF BrokerStatus, TerminalStatus
  <2>2. /\ broker' = [broker EXCEPT ![o] = b] /\ UNCHANGED pages
        /\ Emit("event", <<Entry("order", <<OrderItem(o, b)>>)>>)
    BY <1>3 DEF BrokerCancel
  <2> HIDE DEF b
  <2> QED BY <2>1, <2>2, OrderSent DEF RoleSet
<1>4. ASSUME NEW kind \in {"reject", "batch"}, BrokerReject(o, kind) PROVE IndInv'
  <2> DEFINE b == [broker[o] EXCEPT !.st = "rejected"]
  <2>1. b \in [st : BrokerStatus, cum : 0 .. Qty] /\ b.st = "rejected"
    BY <1>1 DEF BrokerStatus, TerminalStatus
  <2>2. /\ broker' = [broker EXCEPT ![o] = b] /\ UNCHANGED pages
        /\ Emit("reply", <<Entry(kind, <<OrderItem(o, b)>>)>>)
    BY <1>4 DEF BrokerReject
  <2> HIDE DEF b
  <2> QED BY <1>4, <2>1, <2>2, OrderSent DEF RoleSet
<1> QED BY <1>2, <1>3, <1>4

(* Lemma: a lot trades, which the gateway says in two messages.            *)
LEMMA BrokerFillInv ==
  ASSUME IndInv, Between, NEW o \in Orders, NEW fillFirst \in BOOLEAN, BrokerFill(o, fillFirst)
  PROVE  IndInv'
<1>1. /\ broker[o] \in [st : BrokerStatus, cum : 0 .. Qty] /\ Qty \in Nat \ {0}
      /\ broker[o].cum < Qty
  BY SyncAssumption DEF IndInv, BrokerInv, BrokerFill
<1> DEFINE n == broker[o].cum + 1
           b == [broker[o] EXCEPT !.st = IF n = Qty THEN "filled" ELSE "partially_filled", !.cum = n]
<1>2. n \in 0 .. Qty
  BY <1>1
<1>3. /\ b \in [st : BrokerStatus, cum : 0 .. Qty] /\ b.st # "new"
      /\ b.st \in {"working", "partially_filled"} => b.cum < Qty
  <2> HIDE DEF n
  <2>1. {"filled", "partially_filled"} \subseteq BrokerStatus
    BY DEF BrokerStatus, TerminalStatus
  <2>2. /\ b \in [st : BrokerStatus, cum : 0 .. Qty] /\ b.cum = n
        /\ b.st = IF n = Qty THEN "filled" ELSE "partially_filled"
    BY <1>1, <1>2, <2>1
  <2>3. n # Qty => n < Qty
    BY <1>1, <1>2
  <2> HIDE DEF b
  <2> QED BY <2>2, <2>3
<1>4. PICK kind \in {"transfer", "fill"} : kind = IF scenario.etf THEN "transfer" ELSE "fill"
  OBVIOUS
<1>5. PICK f, e :
        /\ f = Entry(kind, <<FillItem(o, b, n)>>) /\ e = Entry("order", <<OrderItem(o, b)>>)
        /\ Emit("event", IF fillFirst THEN <<f, e>> ELSE <<e, f>>)
  BY <1>4 DEF BrokerFill
<1>6. broker' = [broker EXCEPT ![o] = b] /\ UNCHANGED pages
  BY DEF BrokerFill
<1> HIDE DEF b, n
<1>7. BrokerInv' /\ pages' \in Nat /\ pages <= pages'
  BY <1>3, <1>6, OrderGoesOn DEF Between
<1>8. PICK x, y : x = FillItem(o, b, n) /\ y = OrderItem(o, b)
  OBVIOUS
<1>9. /\ x \in [o : Orders, rep : OrderReport, lot : 0 .. Qty, etf : BOOLEAN]
      /\ y \in [o : Orders, rep : OrderReport, lot : 0 .. Qty, etf : BOOLEAN]
  BY <1>2, <1>3, <1>8, ItemOK
<1>10. EntryOK(f)'
  BY <1>4, <1>5, <1>8, <1>9, OneItemOK DEF Kinds, Trades
<1>11. EntryOK(e)'
  BY <1>5, <1>8, <1>9, OneItemOK DEF Kinds, Reports
<1>12. PICK es : es = (IF fillFirst THEN <<f, e>> ELSE <<e, f>>) /\ Emit("event", es)
  BY <1>5
<1>13. es \in Seq({e, f}) /\ \A j \in 1 .. Len(es) : es[j] \in {e, f}
  <2>1. es = <<f, e>> \/ es = <<e, f>>
    BY <1>12
  <2> DEFINE S == {e, f}
  <2>2. e \in S /\ f \in S
    OBVIOUS
  <2> HIDE DEF S
  <2>3. <<f, e>> \in Seq(S) /\ <<e, f>> \in Seq(S)
    BY <2>2
  <2>4. es \in Seq(S)
    BY <2>1, <2>3
  <2>5. \A j \in 1 .. Len(es) : es[j] \in S
    BY <2>4, ElementOfSeq
  <2> QED BY <2>4, <2>5 DEF S
<1>14. \A j \in 1 .. Len(es) : EntryOK(es[j])'
  BY <1>10, <1>11, <1>13
<1> QED BY <1>7, <1>12, <1>13, <1>14, EmitInv DEF Between, RoleSet

(* Lemma: it answers queries.                                              *)
LEMMA OrderPageInv ==
  ASSUME IndInv, Between, NEW o \in Orders, BrokerOrderPage(o)
  PROVE  IndInv'
<1>1. BrokerInv' /\ pages' \in Nat /\ pages <= pages'
  BY GatewayAnswers DEF Between, BrokerOrderPage
<1>2. broker[o] \in [st : BrokerStatus, cum : 0 .. Qty]
  BY DEF IndInv, BrokerInv
<1>3. PICK i : i = OrderItem(o, broker[o])
  OBVIOUS
<1>4. i \in [o : Orders, rep : OrderReport, lot : 0 .. Qty, etf : BOOLEAN]
  <2>1. 0 \in 0 .. Qty
    BY SyncAssumption
  <2> QED BY <1>2, <1>3, <2>1, ItemOK
<1>5. PICK x : x = [i EXCEPT !.rep.full = TRUE]
  OBVIOUS
<1>6. x.o \in Orders /\ x.rep \in OrderReport /\ x.lot \in 0 .. Qty /\ x.etf \in BOOLEAN
  BY <1>4, <1>5 DEF OrderReport
<1>7. PICK e : e = Entry("page", <<x>>)
  OBVIOUS
<1>8. EntryOK(e)'
  BY <1>6, <1>7, OneItemOK DEF Kinds, Reports
<1>9. Emit("reply", <<e>>)
  BY <1>3, <1>5, <1>7 DEF BrokerOrderPage
<1> QED BY <1>1, <1>8, <1>9, OneSent DEF RoleSet

LEMMA FillPageInv ==
  ASSUME IndInv, Between, NEW o \in Orders, BrokerFillPage(o)
  PROVE  IndInv'
<1>1. BrokerInv' /\ pages' \in Nat /\ pages <= pages'
  BY GatewayAnswers DEF Between, BrokerFillPage
<1>2. broker[o] \in [st : BrokerStatus, cum : 0 .. Qty] /\ broker[o].cum > 0 /\ Qty \in Nat
  BY SyncAssumption DEF IndInv, BrokerInv, BrokerFillPage
<1>3. PICK m, lots : m = broker[o].cum /\ lots = [n \in 1 .. m |-> n]
  OBVIOUS
<1>4. m \in Nat \ {0} /\ lots \in [1 .. m -> 0 .. Qty]
  BY <1>2, <1>3
<1>5. PICK e : e = Entry("fill", [n \in 1 .. m |-> FillItem(o, broker[o], lots[n])])
  OBVIOUS
<1>6. PICK b : b = broker[o]
  OBVIOUS
<1>7. EntryOK(e)'
  BY <1>2, <1>4, <1>5, <1>6, FillsOK
<1>8. Emit("reply", <<e>>)
  <2>1. [n \in 1 .. m |-> FillItem(o, broker[o], lots[n])] = [n \in 1 .. m |-> FillItem(o, broker[o], n)]
    BY <1>3
  <2> QED BY <1>3, <1>5, <2>1 DEF BrokerFillPage
<1> QED BY <1>1, <1>7, <1>8, OneSent DEF RoleSet

LEMMA FeePageInv ==
  ASSUME IndInv, Between, NEW o \in Orders, NEW done \in BOOLEAN, BrokerFeePage(o, done)
  PROVE  IndInv'
<1>1. BrokerInv' /\ pages' = pages + 1 /\ pages' \in Nat /\ pages <= pages'
  BY GatewayAnswers DEF Between, BrokerFeePage
<1>2. pages \in Nat
  BY DEF IndInv, BrokerInv
<1>3. PICK x : x = FeeItem(o, pages + 1, done)
  OBVIOUS
<1>4. x.o \in Orders /\ x.asOf \in 1 .. pages' /\ x.done \in BOOLEAN
  BY <1>1, <1>2, <1>3 DEF FeeItem
<1>5. PICK e : e = Entry("fee", <<x>>)
  OBVIOUS
<1>6. EntryOK(e)'
  BY <1>4, <1>5, OneItemOK DEF Kinds, Reports, Trades
<1>7. Emit("reply", <<e>>)
  BY <1>3, <1>5 DEF BrokerFeePage
<1> QED BY <1>1, <1>6, <1>7, OneSent DEF RoleSet

LEMMA CancelOutcomeInv ==
  ASSUME IndInv, Between, NEW o \in Orders, NEW r \in RoleSet, NEW status \in OrderCancelAttempt,
         BrokerCancelOutcome(o, r, status)
  PROVE  IndInv'
<1>1. BrokerInv' /\ pages' \in Nat /\ pages <= pages'
  BY GatewayAnswers DEF Between, BrokerCancelOutcome
<1>2. PICK x : x = [o |-> o, status |-> status]
  OBVIOUS
<1>3. PICK e : e = Entry("cancel", <<x>>)
  OBVIOUS
<1>4. EntryOK(e)'
  BY <1>2, <1>3, OneItemOK DEF Kinds, Reports, Trades
<1>5. Emit(r, <<e>>)
  BY <1>2, <1>3 DEF BrokerCancelOutcome
<1> QED BY <1>1, <1>4, <1>5, OneSent

LEMMA NoteInv ==
  ASSUME IndInv, Between, NEW o \in Orders, BrokerNote(o)
  PROVE  IndInv'
<1>1. BrokerInv' /\ pages' \in Nat /\ pages <= pages'
  BY GatewayAnswers DEF Between, BrokerNote
<1>2. broker[o] \in [st : BrokerStatus, cum : 0 .. Qty] /\ Qty \in Nat
  BY SyncAssumption DEF IndInv, BrokerInv
<1>3. PICK i : i = OrderItem(o, broker[o])
  OBVIOUS
<1>4. i \in [o : Orders, rep : OrderReport, lot : 0 .. Qty, etf : BOOLEAN]
  <2>1. 0 \in 0 .. Qty
    BY <1>2
  <2> QED BY <1>2, <1>3, <2>1, ItemOK
<1>5. PICK m, lots : /\ m = broker[o].cum + 1
                     /\ lots = [n \in 1 .. m |-> IF n <= broker[o].cum THEN n ELSE 0]
  OBVIOUS
<1>6. m \in Nat \ {0} /\ lots \in [1 .. m -> 0 .. Qty]
  BY <1>2, <1>5
<1>7. PICK e : /\ Emit("reply", <<e>>)
               /\ \/ e = Entry("note", <<>>) \/ e = Entry("garbled", <<>>)
                  \/ e = Entry("reject", <<[i EXCEPT !.rep.rej = "BROKER_NOT_READY"]>>)
                  \/ e = Entry("page", <<[i EXCEPT !.rep.full = FALSE]>>)
                  \/ e = Entry("fill", [n \in 1 .. m |-> FillItem(o, broker[o], lots[n])])
  <2>1. [n \in 1 .. m |-> FillItem(o, broker[o], lots[n])] =
          [n \in 1 .. broker[o].cum + 1 |-> FillItem(o, broker[o], IF n <= broker[o].cum THEN n ELSE 0)]
    BY <1>5
  <2> QED BY <1>3, <2>1 DEF BrokerNote
<1>8. EntryOK(e)'
  <2>1. CASE e = Entry("note", <<>>) \/ e = Entry("garbled", <<>>)
    <3>1. e.kind \in {"note", "garbled"} /\ e.items = <<>>
      BY <2>1 DEF Entry
    <3>2. Len(e.items) = 0 /\ DOMAIN e.items = {} /\ 1 .. 0 = {}
      BY <3>1
    <3> QED BY <3>1, <3>2 DEF EntryOK, Kinds, Trades, Reports
  <2>2. CASE e = Entry("reject", <<[i EXCEPT !.rep.rej = "BROKER_NOT_READY"]>>)
    <3>1. PICK x : x = [i EXCEPT !.rep.rej = "BROKER_NOT_READY"]
      OBVIOUS
    <3>2. x.o \in Orders /\ x.rep \in OrderReport /\ x.lot \in 0 .. Qty /\ x.etf \in BOOLEAN
      BY <1>4, <3>1 DEF OrderReport
    <3>3. e = Entry("reject", <<x>>)
      BY <2>2, <3>1
    <3> QED BY <3>2, <3>3, OneItemOK DEF Kinds, Reports
  <2>3. CASE e = Entry("page", <<[i EXCEPT !.rep.full = FALSE]>>)
    <3>1. PICK x : x = [i EXCEPT !.rep.full = FALSE]
      OBVIOUS
    <3>2. x.o \in Orders /\ x.rep \in OrderReport /\ x.lot \in 0 .. Qty /\ x.etf \in BOOLEAN
      BY <1>4, <3>1 DEF OrderReport
    <3>3. e = Entry("page", <<x>>)
      BY <2>3, <3>1
    <3> QED BY <3>2, <3>3, OneItemOK DEF Kinds, Reports
  <2>4. CASE e = Entry("fill", [n \in 1 .. m |-> FillItem(o, broker[o], lots[n])])
    <3>1. PICK b : b = broker[o]
      OBVIOUS
    <3> QED BY <1>2, <1>6, <2>4, <3>1, FillsOK
  <2> QED BY <1>7, <2>1, <2>2, <2>3, <2>4
<1> QED BY <1>1, <1>7, <1>8, OneSent DEF RoleSet

LEMMA GatewayWritesInv ==
  ASSUME IndInv, Broker
  PROVE  IndInv'
<1>1. Between
  BY DEF Broker, Between
<1>2. PICK o \in Orders :
        \/ BrokerAccept(o) \/ BrokerCancel(o)
        \/ \E kind \in {"reject", "batch"} : BrokerReject(o, kind)
        \/ \E fillFirst \in BOOLEAN : BrokerFill(o, fillFirst)
        \/ BrokerOrderPage(o) \/ BrokerFillPage(o)
        \/ \E done \in BOOLEAN : BrokerFeePage(o, done)
        \/ BrokerCancelOutcome(o, "reply", "accepted")
        \/ BrokerCancelOutcome(o, "event", "rejected") \/ BrokerNote(o)
  BY DEF Broker
<1>3. \A r \in {"reply", "event"} : \A s \in {"accepted", "rejected"} : BrokerCancelOutcome(o, r, s) => IndInv'
  BY <1>1, CancelOutcomeInv DEF RoleSet, OrderCancelAttempt
<1> QED BY <1>1, <1>2, <1>3, OrderChangesInv, BrokerFillInv, OrderPageInv, FillPageInv, FeePageInv, NoteInv

-----------------------------------------------------------------------------
(* Lemma: the invariant holds in the first state and after every step.     *)
LEMMA InitInv ==
  ASSUME Init
  PROVE  IndInv
<1>1. /\ Qty \in Nat \ {0} /\ scenario \in Scenarios
      /\ pages = 0 /\ stream = [r \in RoleSet |-> <<>>] /\ broker = [o \in Orders |-> [st |-> "new", cum |-> 0]]
      /\ at = [p \in Processes |-> Idle(IF p = "worker" THEN "read" ELSE "down")]
      /\ "read" \notin Statements /\ "down" \notin Statements
  BY SyncAssumption DEF Init, Statements
<1>2. BrokerInv
  <2>1. [st |-> "new", cum |-> 0] \in [st : BrokerStatus, cum : 0 .. Qty]
    BY <1>1 DEF BrokerStatus
  <2>2. broker \in [Orders -> [st : BrokerStatus, cum : 0 .. Qty]]
    BY <1>1, <2>1
  <2>3. \A o \in Orders : broker[o].st = "new" /\ broker[o].cum = 0
    BY <1>1
  <2> QED BY <1>1, <2>2, <2>3 DEF BrokerInv, Live
<1>3. DOMAIN stream = RoleSet /\ \A r \in RoleSet : stream[r] = <<>>
  BY <1>1
<1>4. \A r \in RoleSet : DOMAIN stream[r] = {} /\ Len(stream[r]) = 0 /\ stream[r] \in Seq(Range(stream[r]))
  <2>1. DOMAIN <<>> = {} /\ Len(<<>>) = 0
    OBVIOUS
  <2>2. \A S : <<>> \in Seq(S)
    BY EmptySeq
  <2> QED BY <1>3, <2>1, <2>2
<1>5. StreamInv
  BY <1>3, <1>4 DEF StreamInv
<1>6. RowsOK
  <2>1. rows = [o \in Orders |-> IF scenario.drafted THEN DraftRow(Qty) ELSE NoRow]
    BY DEF Init
  <2>2. CheckConstraints(DraftRow(Qty))
    BY <1>1 DEF CheckConstraints, DraftRow, Status, GatewayStatus
  <2> QED BY <2>1, <2>2 DEF RowsOK
<1>7. LotsOK
  <2>1. 0 \in 0 .. Qty
    BY <1>1
  <2>2. /\ fills = [o \in Orders |-> {}] /\ transfers = [o \in Orders |-> {}]
        /\ summary = [o \in Orders |-> 0]
    BY DEF Init
  <2> QED BY <2>1, <2>2 DEF LotsOK
<1>8. RecordsOK
  BY DEF Init, RecordsOK
<1>9. ArchiveOK
  <2>1. archive = <<>> /\ todo = <<>>
    BY DEF Init
  <2>2. archive \in Seq(RoleSet \X Nat)
    BY <2>1, EmptySeq
  <2>3. DOMAIN archive = {} /\ DOMAIN todo = {}
    BY <2>1
  <2> QED BY <2>2, <2>3 DEF ArchiveOK, Range
<1>10. CursorsOK
  <2>1. ckpt = [r \in RoleSet |-> 0] /\ cursor = [r \in RoleSet |-> 0] /\ hi = [r \in RoleSet |-> 0]
    BY DEF Init
  <2> QED BY <1>4, <2>1 DEF CursorsOK
<1>11. \A p \in Processes : at[p] \in Place /\ at[p].pc = IF p = "worker" THEN "read" ELSE "down"
  BY <1>1 DEF Idle, Place, RoleSet
<1>12. PlaceInv
  <2>1. at \in [Processes -> Place]
    BY <1>1, <1>11
  <2> QED BY <1>1, <1>11, <2>1 DEF PlaceInv, Place, Processes
<1>13. BatchInv
  BY <1>1, <1>11 DEF BatchInv, Processes
<1>14. CoverInv
  BY <1>4 DEF CoverInv
<1> QED BY <1>2, <1>5, <1>6, <1>7, <1>8, <1>9, <1>10, <1>12, <1>13, <1>14 DEF IndInv, TablesInv

LEMMA StutterInv ==
  ASSUME IndInv, UNCHANGED vars
  PROVE  IndInv' /\ Quiet
<1>1. /\ UNCHANGED <<gateway, archive, orderTables, fillTables, otherTables, replay, skipped, worker>>
      /\ UNCHANGED <<ckpt, cursor, hi, at, stream>>
  BY DEF vars, db, worker, gateway
<1>2. /\ StreamInv /\ PlaceInv /\ Grows /\ at["worker"] \in Place /\ "worker" \in Processes
      /\ at \in [Processes -> Place]
  BY <1>1, RowsStay DEF IndInv, PlaceInv, Place, Processes
<1>3. at["worker"].pc \in Statements => InEntry("worker")'
  BY <1>1, <1>2, EntryStays
<1>4. at' = [at EXCEPT !["worker"] = at["worker"]] /\ at["worker"].pc # "next"
  BY <1>1, <1>2 DEF PlaceInv
<1>5. CursorsOK' /\ BatchInv'
  BY <1>1 DEF IndInv, TablesInv, CursorsOK, BatchInv
<1>6. \A r \in RoleSet : \A i \in DOMAIN stream[r] : Worked(r, i)' => Worked(r, i)
  BY <1>1 DEF Worked
<1> QED BY <1>1, <1>2, <1>3, <1>4, <1>5, <1>6, WorkerMovesInv

LEMMA NextInv ==
  ASSUME IndInv, Next
  PROVE  IndInv'
<1>1. CASE Step
  BY <1>1, ReadInv, ArchiveInv, SummaryInv, CancelAttemptInv, FeeRecordInv, CheckpointInv,
     StartReplayInv, ReplayNextInv, WriteOrderInv, AppendOrderEventInv, InsertFillInv,
     DeleteSummaryFillsInv, TransferInv DEF Step
<1>2. CASE \E p \in Processes : StatementFails(p)
  BY <1>2, StatementFailsInv
<1>3. CASE \E unread \in SUBSET RoleSet : Restart(unread)
  BY <1>3, RestartInv
<1> QED BY <1>1, <1>2, <1>3, GatewayWritesInv, CheckpointInv, CrashInv, ReplayStopsInv DEF Next

(* The invariant of the synchronisation: what is in the streams, where the *)
(* worker and the replay are, and that the ledger has what they have       *)
(* worked off.                                                             *)
THEOREM IndInvHolds == Spec => []IndInv
<1>1. Init => IndInv
  BY InitInv
<1>2. IndInv /\ [Next]_vars => IndInv'
  BY NextInv, StutterInv
<1> QED BY <1>1, <1>2, PTL DEF Spec

(* Lemma: the tables and the positions have their types.                   *)
LEMMA Typed ==
  ASSUME IndInv
  PROVE  TypeOK
<1>1. /\ \A r \in RoleSet : stream[r] \in Seq(Range(stream[r]))
      /\ RowsOK /\ LotsOK /\ RecordsOK /\ ArchiveOK /\ PlaceInv
  BY DEF IndInv, TablesInv, StreamInv
<1>2. /\ Len(stream["reply"]) \in Nat /\ Len(stream["event"]) \in Nat
      /\ Len(stream["reply"] \o stream["event"]) = Len(stream["reply"]) + Len(stream["event"])
  <2> DEFINE S == Range(stream["reply"]) \cup Range(stream["event"])
  <2>1. stream["reply"] \in Seq(S) /\ stream["event"] \in Seq(S)
    BY <1>1, SeqMonotonic DEF RoleSet
  <2> HIDE DEF S
  <2> QED BY <2>1, ConcatProperties, LenProperties
<1>3. ASSUME NEW k \in DOMAIN archive PROVE archive[k] \in RawStreamMessage
  <2>1. archive[k] \in Range(archive)
    BY DEF Range
  <2>2. Range(archive) \subseteq RoleSet \X Nat /\ archive[k][2] \in DOMAIN stream[archive[k][1]]
    BY <1>1, <2>1, RangeOfSeq DEF ArchiveOK
  <2>3. PICK r \in RoleSet, i \in Nat : archive[k] = <<r, i>> /\ i \in DOMAIN stream[r]
    <3>1. archive[k] \in RoleSet \X Nat
      BY <2>1, <2>2
    <3> QED BY <2>2, <3>1
  <2>4. i \in 1 .. Len(stream[r])
    BY <2>3, Cursors
  <2>5. PICK m \in Nat, n \in Nat : m = Len(stream["reply"]) /\ n = Len(stream["event"])
    BY <1>2
  <2>6. i \in 1 .. m \/ i \in 1 .. n
    BY <2>4, <2>5 DEF RoleSet
  <2>7. i \in 1 .. m + n
    BY <2>6
  <2>8. i \in 1 .. Len(stream["reply"] \o stream["event"])
    BY <1>2, <2>5, <2>7
  <2>9. <<r, i>> \in RawStreamMessage
    <3>1. PICK L : L = 1 .. Len(stream["reply"] \o stream["event"])
      OBVIOUS
    <3>2. RawStreamMessage = {<<x, j>> : x \in RoleSet, j \in L}
      BY <3>1 DEF RawStreamMessage
    <3>3. i \in L
      BY <2>8, <3>1
    <3> QED BY <3>2, <3>3
  <2> QED BY <2>3, <2>9
<1>4. \A r \in RoleSet : /\ ckpt[r] \in 0 .. Len(stream[r]) /\ cursor[r] \in 0 .. Len(stream[r])
                         /\ hi[r] \in 0 .. Len(stream[r])
  BY Cursors
<1>5. \A o \in Orders : /\ rows[o] = NoRow \/ CheckConstraints(rows[o])
                        /\ fills[o] \subseteq Fill /\ transfers[o] \subseteq ComponentTransfer
                        /\ summary[o] \in 0 .. Qty
                        /\ feeRecords[o] \in {NoFee} \cup OrderFeeRecord
                        /\ attempts[o] \in {"none"} \cup OrderCancelAttempt
  BY <1>1 DEF RowsOK, LotsOK, RecordsOK
<1>6. /\ at["worker"].pc \in Statements \cup {"read", "report", "down"}
      /\ at["replay"].pc \in Statements \cup {"next", "down"}
  BY <1>1 DEF PlaceInv, Processes
<1>7. \A p \in Processes : at[p].pc \in Statements =>
        /\ at[p].idx \in DOMAIN stream[at[p].role]
        /\ at[p].pc # "archive" => at[p].item \in DOMAIN Current(p).items
  BY <1>1 DEF PlaceInv, InEntry
<1> QED BY <1>3, <1>4, <1>5, <1>6, <1>7 DEF TypeOK

(* A restart loses nothing: in every state what a checkpoint covers has    *)
(* been archived and booked completely, unless a statement of it failed.   *)
THEOREM CheckpointsCover == Spec => []CheckpointCovers
<1>1. IndInv => CheckpointCovers
  <2> SUFFICES ASSUME IndInv PROVE CheckpointCovers
    OBVIOUS
  <2>1. ASSUME NEW r \in RoleSet, NEW i \in 1 .. ckpt[r], <<r, i>> \notin skipped
        PROVE  /\ <<r, i>> \in {archive[k] : k \in DOMAIN archive}
               /\ IsBooked(r, i) \/ Refused(stream[r][i])
    <3>1. i \in DOMAIN stream[r] /\ i <= ckpt[r]
      BY Cursors
    <3>2. Covered(r, i)
      BY <2>1, <3>1 DEF IndInv, CoverInv, Worked
    <3> QED BY <3>2 DEF Covered, Range
  <2> QED BY <2>1, Typed DEF CheckpointCovers
<1> QED BY <1>1, IndInvHolds, PTL

-----------------------------------------------------------------------------
(* What the gateway has said.                                              *)

(* What an order may look like, and what one that looked so has become: it *)
(* has traded as much at least, and it is the same if it had finished.     *)
OrderState(b) ==
  /\ b.st \in {"new", "working", "rejected"} => b.cum = 0
  /\ b.st = "partially_filled" => b.cum \in 1 .. Qty - 1
  /\ b.st = "filled" => b.cum = Qty
  /\ b.st = "cancelled" => b.cum < Qty
Was(b, o) == OrderState(b) /\ b.cum <= broker[o].cum /\ (Terminal(b.st) => b = broker[o])
StateOf(rep) == [st |-> rep.st, cum |-> rep.cum]

(* Every report is of a state the order has been in; the lots are told one *)
(* by one on the event stream, and the newest state of an order has been   *)
(* reported.                                                               *)
Says(rep, b) ==
  \E x \in {Report(b)} :
    /\ rep.st = x.st /\ rep.gw = x.gw /\ rep.qty = x.qty /\ rep.cum = x.cum
    /\ rep.leaves = x.leaves /\ rep.canc = x.canc /\ rep.term = x.term
ItemKnown(i) ==
  /\ Says(i.rep, StateOf(i.rep))
  /\ Was(StateOf(i.rep), i.o)
  /\ i.lot <= broker[i.o].cum /\ i.etf = scenario.etf
EntryKnown(r, e) ==
  /\ r = "event" => e.kind \notin {"page", "fee"}
  /\ e.kind \in Reports \cup Trades => \A k \in DOMAIN e.items : ItemKnown(e.items[k])
  /\ e.kind \in Reports /\ ~ Refused(e) =>
       \A k \in DOMAIN e.items : /\ e.items[k].rep.st # "new"
                                 /\ e.kind \in {"reject", "batch"} => e.items[k].rep.st = "rejected"
Tells(e, o, n) ==
  /\ e.kind \in Trades /\ ~ Refused(e)
  /\ \E k \in DOMAIN e.items : e.items[k].o = o /\ e.items[k].lot = n
IsReport(e) == e.kind \in {"order", "reject", "batch"} /\ ~ Refused(e)
Newest(e, o) == IsReport(e) /\ e.items[1].o = o /\ StateOf(e.items[1].rep) = broker[o]
KnownInv ==
  /\ \A o \in Orders : OrderState(broker[o])
  /\ \A r \in RoleSet : \A i \in DOMAIN stream[r] : EntryKnown(r, stream[r][i])
  /\ \A o \in Orders : \A n \in 1 .. broker[o].cum :
       \E i \in DOMAIN stream["event"] : Tells(stream["event"][i], o, n)
  /\ \A o \in Orders : broker[o].st # "new" =>
       \E r \in RoleSet : \E i \in DOMAIN stream[r] : Newest(stream[r][i], o)

(* The gateway goes on: it adds to the streams, and a finished order stays *)
(* as it is.                                                               *)
MovesOn ==
  /\ Between
  /\ \A r \in RoleSet : \A i \in DOMAIN stream[r] :
       i \in DOMAIN stream'[r] /\ stream'[r][i] = stream[r][i]
  /\ \A r \in RoleSet : \A i \in DOMAIN stream'[r] : i \in DOMAIN stream[r] \/ i > Len(stream[r])
  /\ \A o \in Orders : /\ OrderState(broker'[o]) /\ broker[o].cum <= broker'[o].cum
                       /\ Terminal(broker[o].st) => broker'[o] = broker[o]

(* Lemma: what is in a stream after entries were added.                    *)
LEMMA Emitted ==
  ASSUME StreamInv, NEW r \in RoleSet, NEW U, NEW es \in Seq(U), Emit(r, es)
  PROVE  /\ \A s \in RoleSet : \A i \in DOMAIN stream[s] :
              i \in DOMAIN stream'[s] /\ stream'[s][i] = stream[s][i]
         /\ \A s \in RoleSet : \A i \in DOMAIN stream'[s] :
              \/ i \in DOMAIN stream[s]
              \/ s = r /\ i > Len(stream[s]) /\ \E j \in 1 .. Len(es) : stream'[s][i] = es[j]
         /\ \A j \in 1 .. Len(es) : \E i \in DOMAIN stream'[r] : stream'[r][i] = es[j]
<1>1. DOMAIN stream = RoleSet /\ stream' = [stream EXCEPT ![r] = stream[r] \o es]
  BY DEF StreamInv, Emit
<1>2. \A s \in RoleSet : s # r => stream'[s] = stream[s]
  BY <1>1
<1>3. PICK t : t = stream'[r] /\ t = stream[r] \o es
  BY <1>1
<1>4. PICK m \in Nat, n \in Nat :
        /\ m = Len(stream[r]) /\ n = Len(es) /\ DOMAIN stream[r] = 1 .. m /\ DOMAIN t = 1 .. m + n
        /\ \A i \in 1 .. m : t[i] = stream[r][i]
        /\ \A i \in 1 .. n : t[m + i] = es[i]
  <2>1. PICK s, S : s = stream[r] /\ S = Range(stream[r]) \cup U
    OBVIOUS
  <2>2. s \in Seq(S) /\ es \in Seq(S) /\ t = s \o es
    BY <1>3, <2>1, SeqMonotonic DEF StreamInv
  <2>3. /\ t \in Seq(S) /\ Len(t) = Len(s) + Len(es)
        /\ \A i \in 1 .. Len(s) + Len(es) : t[i] = IF i <= Len(s) THEN s[i] ELSE es[i - Len(s)]
    BY <2>2, ConcatProperties
  <2>4. DOMAIN t = 1 .. Len(t) /\ DOMAIN s = 1 .. Len(s) /\ Len(s) \in Nat /\ Len(es) \in Nat
    BY <2>2, <2>3, LenProperties
  <2>5. \A i \in 1 .. Len(s) : t[i] = s[i]
    BY <2>3, <2>4
  <2>6. ASSUME NEW i \in 1 .. Len(es) PROVE t[Len(s) + i] = es[i]
    <3>1. /\ Len(s) + i \in 1 .. Len(s) + Len(es) /\ ~ (Len(s) + i <= Len(s))
          /\ (Len(s) + i) - Len(s) = i
      BY <2>4
    <3> QED BY <2>3, <3>1
  <2> QED BY <2>1, <2>3, <2>4, <2>5, <2>6
<1>5. \A i \in DOMAIN stream[r] : i \in DOMAIN t /\ t[i] = stream[r][i]
  BY <1>4
<1>6. ASSUME NEW i \in DOMAIN t, i \notin DOMAIN stream[r]
      PROVE  i > m /\ \E j \in 1 .. n : t[i] = es[j]
  <2>1. i - m \in 1 .. n /\ i = m + (i - m) /\ i > m
    BY <1>4, <1>6
  <2>2. t[m + (i - m)] = es[i - m]
    BY <1>4, <2>1
  <2> QED BY <2>1, <2>2
<1>7. ASSUME NEW j \in 1 .. n PROVE \E i \in DOMAIN t : t[i] = es[j]
  <2>1. m + j \in DOMAIN t /\ t[m + j] = es[j]
    BY <1>4
  <2> QED BY <2>1
<1>8. ASSUME NEW s \in RoleSet, NEW i \in DOMAIN stream[s]
      PROVE  i \in DOMAIN stream'[s] /\ stream'[s][i] = stream[s][i]
  BY <1>2, <1>3, <1>5
<1>9. ASSUME NEW s \in RoleSet, NEW i \in DOMAIN stream'[s], i \notin DOMAIN stream[s]
      PROVE  s = r /\ i > Len(stream[s]) /\ \E j \in 1 .. Len(es) : stream'[s][i] = es[j]
  <2>1. s = r
    BY <1>2, <1>9
  <2>2. i > m /\ \E j \in 1 .. n : t[i] = es[j]
    BY <1>3, <1>6, <1>9, <2>1
  <2> QED BY <1>3, <1>4, <2>1, <2>2
<1>10. \A j \in 1 .. Len(es) : \E i \in DOMAIN stream'[r] : stream'[r][i] = es[j]
  BY <1>3, <1>4, <1>7
<1> QED BY <1>8, <1>9, <1>10

(* Lemma: what was known of an order is known when it goes on.             *)
LEMMA KnownStays ==
  ASSUME scenario' = scenario, NEW r, NEW e, EntryKnown(r, e), EntryOK(e),
         \A o \in Orders : /\ broker[o].cum \in Nat /\ broker'[o].cum \in Nat
                           /\ broker[o].cum <= broker'[o].cum
                           /\ Terminal(broker[o].st) => broker'[o] = broker[o]
  PROVE  EntryKnown(r, e)'
<1>1. ASSUME NEW k \in DOMAIN e.items, e.kind \in Reports \cup Trades PROVE ItemKnown(e.items[k])'
  <2>1. PICK i : i = e.items[k]
    OBVIOUS
  <2>2. i.o \in Orders /\ ItemKnown(i) /\ i.lot \in 0 .. Qty /\ i.rep \in OrderReport
    BY <1>1, <2>1 DEF EntryKnown, EntryOK
  <2>3. Says(i.rep, StateOf(i.rep))
    BY <2>2 DEF ItemKnown
  <2>4. Says(i.rep, StateOf(i.rep))'
    BY <2>3 DEF Says, Report
  <2>5. PICK b : b = StateOf(i.rep)
    OBVIOUS
  <2>6. b.cum \in 0 .. Qty
    BY <2>2, <2>5 DEF StateOf, OrderReport
  <2>7. Was(b, i.o) /\ i.lot <= broker[i.o].cum /\ i.etf = scenario.etf
    BY <2>2, <2>5 DEF ItemKnown
  <2>8. Was(b, i.o)'
    BY <2>2, <2>6, <2>7, SyncAssumption DEF Was
  <2>9. i.lot <= broker'[i.o].cum
    BY <2>2, <2>7, SyncAssumption
  <2>10. ItemKnown(i)'
    BY <2>3, <2>4, <2>5, <2>7, <2>8, <2>9 DEF ItemKnown
  <2> QED BY <2>1, <2>10
<1> QED BY <1>1 DEF EntryKnown

(* Lemma: entries that say what is so are added.                           *)
LEMMA KnownSent ==
  ASSUME IndInv, KnownInv, Between, NEW r \in RoleSet, NEW U, NEW es \in Seq(U), Emit(r, es),
         \A o \in Orders : /\ OrderState(broker'[o]) /\ broker'[o].cum \in Nat
                           /\ broker[o].cum <= broker'[o].cum
                           /\ Terminal(broker[o].st) => broker'[o] = broker[o],
         \A j \in 1 .. Len(es) : EntryKnown(r, es[j])',
         \A o \in Orders : \A n \in broker[o].cum + 1 .. broker'[o].cum :
           r = "event" /\ \E j \in 1 .. Len(es) : Tells(es[j], o, n),
         \A o \in Orders : broker'[o] = broker[o] \/ \E j \in 1 .. Len(es) : Newest(es[j], o)'
  PROVE  KnownInv' /\ MovesOn
<1>1. /\ StreamInv /\ scenario' = scenario
      /\ \A o \in Orders : broker[o].cum \in Nat
  BY SyncAssumption DEF IndInv, BrokerInv, Between
<1>2. /\ \A s \in RoleSet : \A i \in DOMAIN stream[s] :
           i \in DOMAIN stream'[s] /\ stream'[s][i] = stream[s][i]
      /\ \A s \in RoleSet : \A i \in DOMAIN stream'[s] :
           \/ i \in DOMAIN stream[s]
           \/ s = r /\ i > Len(stream[s]) /\ \E j \in 1 .. Len(es) : stream'[s][i] = es[j]
      /\ \A j \in 1 .. Len(es) : \E i \in DOMAIN stream'[r] : stream'[r][i] = es[j]
  BY <1>1, Emitted
<1>3. MovesOn
  BY <1>2 DEF MovesOn
<1>4. ASSUME NEW s \in RoleSet, NEW i \in DOMAIN stream'[s] PROVE EntryKnown(s, stream[s][i])'
  <2>1. CASE i \in DOMAIN stream[s]
    <3>1. PICK e : e = stream[s][i] /\ stream'[s][i] = e
      BY <1>2, <2>1
    <3>2. EntryKnown(s, e) /\ EntryOK(e)
      BY <1>1, <2>1, <3>1, StreamLengths DEF KnownInv
    <3>3. EntryKnown(s, e)'
      BY <1>1, <3>2, KnownStays
    <3> QED BY <3>1, <3>3
  <2>2. CASE i \notin DOMAIN stream[s]
    <3>1. PICK j \in 1 .. Len(es) : s = r /\ stream'[s][i] = es[j]
      BY <1>2, <1>4, <2>2
    <3> QED BY <3>1
  <2> QED BY <2>1, <2>2
<1>5. ASSUME NEW o \in Orders, NEW n \in 1 .. broker'[o].cum
      PROVE  \E i \in DOMAIN stream'["event"] : Tells(stream'["event"][i], o, n)
  <2>1. CASE n <= broker[o].cum
    <3>1. n \in 1 .. broker[o].cum
      BY <1>1, <2>1
    <3>2. PICK i \in DOMAIN stream["event"] : Tells(stream["event"][i], o, n)
      BY <3>1 DEF KnownInv
    <3>3. i \in DOMAIN stream'["event"] /\ stream'["event"][i] = stream["event"][i]
      BY <1>2 DEF RoleSet
    <3> QED BY <3>2, <3>3
  <2>2. CASE ~ (n <= broker[o].cum)
    <3>1. n \in broker[o].cum + 1 .. broker'[o].cum
      BY <1>1, <2>2
    <3>2. PICK j \in 1 .. Len(es) : r = "event" /\ Tells(es[j], o, n)
      BY <3>1
    <3>3. PICK i \in DOMAIN stream'[r] : stream'[r][i] = es[j]
      BY <1>2
    <3> QED BY <3>2, <3>3
  <2> QED BY <2>1, <2>2
<1>6. ASSUME NEW o \in Orders, broker'[o].st # "new"
      PROVE  (\E s \in RoleSet : \E i \in DOMAIN stream[s] : Newest(stream[s][i], o))'
  <2>1. CASE broker'[o] = broker[o]
    <3>0. PICK s \in RoleSet : \E i \in DOMAIN stream[s] : Newest(stream[s][i], o)
      BY <1>6, <2>1 DEF KnownInv
    <3>1. PICK i \in DOMAIN stream[s] : Newest(stream[s][i], o)
      BY <3>0
    <3>2. PICK e : e = stream[s][i] /\ i \in DOMAIN stream'[s] /\ e = stream'[s][i]
      BY <1>2
    <3>3. Newest(e, o)'
      BY <2>1, <3>1, <3>2 DEF Newest
    <3> QED BY <3>2, <3>3
  <2>2. CASE broker'[o] # broker[o]
    <3>1. PICK j \in 1 .. Len(es) : Newest(es[j], o)'
      BY <2>2
    <3>2. PICK i \in DOMAIN stream'[r] : stream'[r][i] = es[j]
      BY <1>2
    <3> QED BY <3>1, <3>2
  <2> QED BY <2>1, <2>2
<1>7. KnownInv'
  BY <1>4, <1>5, <1>6 DEF KnownInv
<1> QED BY <1>3, <1>7

(* Lemma: what the gateway says of a state of an order is known.           *)
LEMMA ItemSaid ==
  ASSUME NEW o \in Orders, NEW b \in [st : BrokerStatus, cum : 0 .. Qty], OrderState(b),
         broker'[o] = b, scenario' = scenario,
         NEW x, x.o = o, x.lot <= b.cum, x.etf = scenario.etf, Says(x.rep, b)
  PROVE  ItemKnown(x)' /\ StateOf(x.rep) = b
<1>1. StateOf(x.rep) = b
  <2>1. x.rep.st = b.st /\ x.rep.cum = b.cum
    <3>1. Report(b).st = b.st /\ Report(b).cum = b.cum
      BY DEF Report
    <3> QED BY <3>1 DEF Says
  <2> QED BY <2>1 DEF StateOf
<1>2. Says(x.rep, b)'
  BY DEF Says, Report
<1>3. Was(b, o)'
  BY SyncAssumption DEF Was
<1> QED BY <1>1, <1>2, <1>3 DEF ItemKnown

LEMMA OneKnown ==
  ASSUME IndInv, KnownInv, Between, NEW r \in RoleSet, NEW e, Emit(r, <<e>>), EntryKnown(r, e)',
         \A o \in Orders : /\ OrderState(broker'[o]) /\ broker'[o].cum = broker[o].cum
                           /\ Terminal(broker[o].st) => broker'[o] = broker[o]
                           /\ broker'[o] = broker[o] \/ Newest(e, o)'
  PROVE  KnownInv' /\ MovesOn
<1>1. PICK es : es = <<e>>
  OBVIOUS
<1>2. es \in Seq({e}) /\ Len(es) = 1 /\ \A j \in 1 .. Len(es) : es[j] = e
  BY <1>1
<1>3. /\ \A j \in 1 .. Len(es) : EntryKnown(r, es[j])'
      /\ \A o \in Orders : broker'[o] = broker[o] \/ \E j \in 1 .. Len(es) : Newest(es[j], o)'
  <2>1. 1 \in 1 .. Len(es)
    BY <1>2
  <2> QED BY <1>2, <2>1
<1>4. Emit(r, es)
  BY <1>1
<1>5. \A o \in Orders : broker[o].cum \in Nat
  BY SyncAssumption DEF IndInv, BrokerInv
<1>6. \A o \in Orders : /\ OrderState(broker'[o]) /\ broker'[o].cum \in Nat
                        /\ broker[o].cum <= broker'[o].cum
                        /\ Terminal(broker[o].st) => broker'[o] = broker[o]
  BY <1>5
<1>7. \A o \in Orders : \A n \in broker[o].cum + 1 .. broker'[o].cum :
        r = "event" /\ \E j \in 1 .. Len(es) : Tells(es[j], o, n)
  <2>1. \A o \in Orders : broker[o].cum + 1 .. broker'[o].cum = {}
    BY <1>5
  <2> QED BY <2>1
<1> QED BY <1>2, <1>3, <1>4, <1>6, <1>7, KnownSent

LEMMA OrderKnown ==
  ASSUME IndInv, KnownInv, Between, NEW o \in Orders, NEW b \in [st : BrokerStatus, cum : 0 .. Qty],
         OrderState(b), b.st # "new", b.cum = broker[o].cum, ~ Terminal(broker[o].st),
         broker' = [broker EXCEPT ![o] = b], NEW r \in RoleSet, NEW kind \in {"order", "reject", "batch"},
         kind # "order" => b.st = "rejected",
         NEW x, x = OrderItem(o, b), NEW e, e = Entry(kind, <<x>>), Emit(r, <<e>>)
  PROVE  KnownInv' /\ MovesOn
<1>2. /\ \A z \in Orders : broker'[z] = IF z = o THEN b ELSE broker[z]
      /\ \A z \in Orders : OrderState(broker[z])
      /\ scenario' = scenario
  BY DEF IndInv, BrokerInv, KnownInv, Between
<1>3. /\ x.o = o /\ x.lot = 0 /\ x.etf = scenario.etf /\ x.rep = Report(b)
      /\ Says(x.rep, b) /\ x.rep.st = b.st
      /\ x.rep.rej \notin {"BROKER_NOT_READY", "COMMAND_OUTCOME_UNKNOWN"}
  BY DEF OrderItem, Report, Says
<1>4. ItemKnown(x)' /\ StateOf(x.rep) = b
  <2>1. x.lot <= b.cum /\ broker'[o] = b
    <3>1. b.cum \in 0 .. Qty /\ Qty \in Nat
      BY SyncAssumption
    <3> QED BY <1>2, <1>3, <3>1
  <2> QED BY <1>2, <1>3, <2>1, ItemSaid
<1>5. e.kind = kind /\ DOMAIN e.items = {1} /\ e.items[1] = x
  BY DEF Entry
<1>6. ~ Refused(e)
  BY <1>3, <1>5 DEF Refused, DecodeEntry, isIndeterminateCommandError, orderErrorInfo
<1>7. EntryKnown(r, e)'
  <2>1. \A k \in DOMAIN e.items : ItemKnown(e.items[k])'
    BY <1>4, <1>5
  <2>2. \A k \in DOMAIN e.items :
          /\ e.items[k].rep.st # "new"
          /\ e.kind \in {"reject", "batch"} => e.items[k].rep.st = "rejected"
    BY <1>3, <1>5
  <2>3. e.kind \notin {"page", "fee"}
    BY <1>5
  <2> QED BY <2>1, <2>2, <2>3 DEF EntryKnown
<1>8. Newest(e, o)'
  BY <1>2, <1>3, <1>4, <1>5, <1>6 DEF Newest, IsReport
<1> QED BY <1>2, <1>7, <1>8, OneKnown

LEMMA OrderChangesKnown ==
  ASSUME IndInv, KnownInv, Between, NEW o \in Orders,
         BrokerAccept(o) \/ BrokerCancel(o) \/ \E kind \in {"reject", "batch"} : BrokerReject(o, kind)
  PROVE  KnownInv' /\ MovesOn
<1>1. /\ broker[o] \in [st : BrokerStatus, cum : 0 .. Qty] /\ Qty \in Nat \ {0}
      /\ OrderState(broker[o]) /\ (Live(o) => broker[o].cum < Qty)
  BY SyncAssumption DEF IndInv, BrokerInv, KnownInv
<1>2. CASE BrokerAccept(o)
  <2> DEFINE b == [broker[o] EXCEPT !.st = "working"]
  <2>1. /\ b \in [st : BrokerStatus, cum : 0 .. Qty] /\ b.st = "working" /\ b.cum = broker[o].cum
        /\ OrderState(b) /\ ~ Terminal(broker[o].st)
    BY <1>1, <1>2 DEF BrokerAccept, BrokerStatus, OrderState, Terminal, TerminalStatus
  <2>2. /\ broker' = [broker EXCEPT ![o] = b]
        /\ Emit("event", <<Entry("order", <<OrderItem(o, b)>>)>>)
    BY <1>2 DEF BrokerAccept
  <2> HIDE DEF b
  <2> QED BY <2>1, <2>2, OrderKnown DEF RoleSet
<1>3. CASE BrokerCancel(o)
  <2> DEFINE b == [broker[o] EXCEPT !.st = "cancelled"]
  <2>1. /\ b \in [st : BrokerStatus, cum : 0 .. Qty] /\ b.st = "cancelled" /\ b.cum = broker[o].cum
        /\ OrderState(b) /\ ~ Terminal(broker[o].st)
    BY <1>1, <1>3 DEF BrokerCancel, BrokerStatus, OrderState, Terminal, TerminalStatus, Live
  <2>2. /\ broker' = [broker EXCEPT ![o] = b]
        /\ Emit("event", <<Entry("order", <<OrderItem(o, b)>>)>>)
    BY <1>3 DEF BrokerCancel
  <2> HIDE DEF b
  <2> QED BY <2>1, <2>2, OrderKnown DEF RoleSet
<1>4. ASSUME NEW kind \in {"reject", "batch"}, BrokerReject(o, kind) PROVE KnownInv' /\ MovesOn
  <2> DEFINE b == [broker[o] EXCEPT !.st = "rejected"]
  <2>1. /\ b \in [st : BrokerStatus, cum : 0 .. Qty] /\ b.st = "rejected" /\ b.cum = broker[o].cum
        /\ OrderState(b) /\ ~ Terminal(broker[o].st)
    BY <1>1, <1>4 DEF BrokerReject, BrokerStatus, OrderState, Terminal, TerminalStatus
  <2>2. /\ broker' = [broker EXCEPT ![o] = b]
        /\ Emit("reply", <<Entry(kind, <<OrderItem(o, b)>>)>>)
    BY <1>4 DEF BrokerReject
  <2> HIDE DEF b
  <2> QED BY <1>4, <2>1, <2>2, OrderKnown DEF RoleSet
<1> QED BY <1>2, <1>3, <1>4

LEMMA BrokerFillKnown ==
  ASSUME IndInv, KnownInv, Between, NEW o \in Orders, NEW fillFirst \in BOOLEAN, BrokerFill(o, fillFirst)
  PROVE  KnownInv' /\ MovesOn
<1>1. /\ broker[o] \in [st : BrokerStatus, cum : 0 .. Qty] /\ Qty \in Nat \ {0}
      /\ broker[o].cum < Qty /\ ~ Terminal(broker[o].st) /\ scenario.etf \in BOOLEAN
      /\ scenario' = scenario
  BY SyncAssumption, ScenarioAssumption
     DEF IndInv, BrokerInv, BrokerFill, Live, Terminal, TerminalStatus, Between
<1>2. PICK n \in 1 .. Qty : n = broker[o].cum + 1
  BY <1>1
<1>3. PICK b : b = [broker[o] EXCEPT !.st = IF n = Qty THEN "filled" ELSE "partially_filled", !.cum = n]
  OBVIOUS
<1>4. /\ b \in [st : BrokerStatus, cum : 0 .. Qty] /\ b.cum = n /\ b.st # "new"
      /\ OrderState(b)
  <2>1. {"filled", "partially_filled"} \subseteq BrokerStatus
    BY DEF BrokerStatus, TerminalStatus
  <2>2. /\ b \in [st : BrokerStatus, cum : 0 .. Qty] /\ b.cum = n
        /\ b.st = IF n = Qty THEN "filled" ELSE "partially_filled"
    <3>1. n \in 0 .. Qty
      BY <1>1
    <3>2. PICK l \in BrokerStatus : l = IF n = Qty THEN "filled" ELSE "partially_filled"
      BY <2>1
    <3> QED BY <1>1, <1>3, <3>1, <3>2
  <2>3. n # Qty => n \in 1 .. Qty - 1
    BY <1>1, <1>2
  <2> QED BY <2>2, <2>3 DEF OrderState
<1>5. PICK x, y, f, e :
        /\ x = FillItem(o, b, n) /\ y = OrderItem(o, b) /\ e = Entry("order", <<y>>)
        /\ f = Entry(IF scenario.etf THEN "transfer" ELSE "fill", <<x>>)
        /\ Emit("event", IF fillFirst THEN <<f, e>> ELSE <<e, f>>)
  BY <1>2, <1>3 DEF BrokerFill
<1>6. broker' = [broker EXCEPT ![o] = b]
  BY <1>2, <1>3 DEF BrokerFill
<1>7. /\ \A z \in Orders : broker'[z] = IF z = o THEN b ELSE broker[z]
      /\ \A z \in Orders : OrderState(broker[z]) /\ broker[z].cum \in Nat
  BY <1>1, <1>6 DEF IndInv, BrokerInv, KnownInv
<1>8. /\ y.o = o /\ y.lot = 0 /\ y.etf = scenario.etf /\ y.rep = Report(b)
      /\ Says(y.rep, b) /\ y.rep.st = b.st
  BY <1>5 DEF OrderItem, Report, Says
<1>9. x.o = o /\ x.lot = n /\ x.etf = scenario.etf /\ x.rep = y.rep
  BY <1>5 DEF OrderItem, FillItem
<1>10. ItemKnown(y)' /\ StateOf(y.rep) = b
  <2>1. y.lot <= b.cum /\ broker'[o] = b
    BY <1>2, <1>4, <1>7, <1>8
  <2> QED BY <1>1, <1>4, <1>8, <2>1, ItemSaid
<1>11. ItemKnown(x)'
  <2>1. x.lot <= b.cum /\ broker'[o] = b
    BY <1>2, <1>4, <1>7, <1>9
  <2>2. Says(x.rep, b)
    BY <1>8, <1>9
  <2> QED BY <1>1, <1>4, <1>9, <2>1, <2>2, ItemSaid
<1>12. /\ e.kind = "order" /\ DOMAIN e.items = {1} /\ e.items[1] = y
       /\ f.kind \in Trades /\ DOMAIN f.items = {1} /\ f.items[1] = x
  BY <1>5 DEF Entry, Trades
<1>13. EntryKnown("event", e)' /\ EntryKnown("event", f)'
  BY <1>4, <1>8, <1>10, <1>11, <1>12 DEF EntryKnown, Trades, Reports
<1>14. Newest(e, o)'
  <2>1. ~ Refused(e)
    BY <1>12 DEF Refused, DecodeEntry
  <2> QED BY <1>7, <1>8, <1>10, <1>12, <2>1 DEF Newest, IsReport
<1>15. Tells(f, o, n)
  <2>1. ~ Refused(f)
    BY <1>1, <1>2, <1>9, <1>12 DEF Refused, DecodeEntry, fillRecordsFromReplyEnvelope, validateFill,
                                   validateTransfer, Trades
  <2> QED BY <1>9, <1>12, <2>1 DEF Tells
<1>16. PICK es : es = (IF fillFirst THEN <<f, e>> ELSE <<e, f>>) /\ Emit("event", es)
  BY <1>5
<1>17. /\ es \in Seq({e, f}) /\ \A j \in 1 .. Len(es) : es[j] \in {e, f}
       /\ \E j \in 1 .. Len(es) : es[j] = e
       /\ \E j \in 1 .. Len(es) : es[j] = f
  <2> DEFINE S == {e, f}
  <2>1. e \in S /\ f \in S
    OBVIOUS
  <2>2. es = <<f, e>> \/ es = <<e, f>>
    BY <1>16
  <2> HIDE DEF S
  <2>3. <<f, e>> \in Seq(S) /\ <<e, f>> \in Seq(S)
    BY <2>1
  <2>4. es \in Seq(S)
    BY <2>2, <2>3
  <2>5. \A j \in 1 .. Len(es) : es[j] \in S
    BY <2>4, ElementOfSeq
  <2>6. Len(es) = 2 /\ {es[1], es[2]} = {e, f}
    BY <2>2
  <2>7. 1 \in 1 .. Len(es) /\ 2 \in 1 .. Len(es)
    BY <2>6
  <2>8. (\E j \in 1 .. Len(es) : es[j] = e) /\ \E j \in 1 .. Len(es) : es[j] = f
    BY <2>6, <2>7
  <2> QED BY <2>4, <2>5, <2>8 DEF S
<1>18. \A j \in 1 .. Len(es) : EntryKnown("event", es[j])'
  BY <1>13, <1>17
<1>19. ASSUME NEW z \in Orders, NEW m \in broker[z].cum + 1 .. broker'[z].cum
       PROVE  \E j \in 1 .. Len(es) : Tells(es[j], z, m)
  <2>1. z = o /\ m = n
    BY <1>2, <1>4, <1>7, <1>19
  <2> QED BY <1>15, <1>17, <2>1
<1>20. \A z \in Orders : broker'[z] = broker[z] \/ \E j \in 1 .. Len(es) : Newest(es[j], z)'
  BY <1>7, <1>14, <1>17
<1>21. \A z \in Orders : /\ OrderState(broker'[z]) /\ broker'[z].cum \in Nat
                         /\ broker[z].cum <= broker'[z].cum
                         /\ Terminal(broker[z].st) => broker'[z] = broker[z]
  BY <1>1, <1>2, <1>4, <1>7
<1> QED BY <1>16, <1>17, <1>18, <1>19, <1>20, <1>21, KnownSent DEF RoleSet

(* Lemma: an answer tells the states of now and changes no order.          *)
LEMMA AnswerKnown ==
  ASSUME IndInv, KnownInv, Between, broker' = broker, NEW r \in RoleSet, NEW e, Emit(r, <<e>>),
         r = "event" => e.kind \notin {"page", "fee"},
         NEW o \in Orders, e.kind \in {"order", "batch"} => FALSE,
         e.kind = "page" /\ ~ Refused(e) => broker[o].st # "new", e.kind = "reject" => Refused(e),
         e.kind \in Reports \cup Trades => \A k \in DOMAIN e.items :
           \E x \in {e.items[k]} : /\ x.o = o /\ x.lot <= broker[o].cum /\ x.etf = scenario.etf
                                   /\ Says(x.rep, broker[o])
  PROVE  KnownInv' /\ MovesOn
<1>1. /\ scenario' = scenario /\ broker[o] \in [st : BrokerStatus, cum : 0 .. Qty]
      /\ \A z \in Orders : OrderState(broker[z])
  BY DEF Between, IndInv, BrokerInv, KnownInv
<1>2. ASSUME NEW k \in DOMAIN e.items, e.kind \in Reports \cup Trades
      PROVE  ItemKnown(e.items[k])' /\ e.items[k].rep.st = broker[o].st
  <2>1. PICK x : /\ x = e.items[k]
                 /\ x.o = o /\ x.lot <= broker[o].cum /\ x.etf = scenario.etf
                 /\ Says(x.rep, broker[o])
    BY <1>2
  <2>2. PICK b \in [st : BrokerStatus, cum : 0 .. Qty] :
          /\ b = broker[o] /\ broker'[o] = b /\ OrderState(b) /\ x.lot <= b.cum /\ Says(x.rep, b)
    BY <1>1, <2>1
  <2>3. ItemKnown(x)' /\ StateOf(x.rep) = b
    BY <1>1, <2>1, <2>2, ItemSaid
  <2>4. x.rep.st = b.st
    BY <2>3 DEF StateOf
  <2> QED BY <2>1, <2>2, <2>3, <2>4
<1>3. e.kind \in Reports /\ ~ Refused(e) =>
        \A k \in DOMAIN e.items :
          /\ e.items[k].rep.st # "new"
          /\ e.kind \in {"reject", "batch"} => e.items[k].rep.st = "rejected"
  BY <1>2 DEF Reports
<1>4. EntryKnown(r, e)'
  BY <1>2, <1>3 DEF EntryKnown
<1> QED BY <1>1, <1>4, OneKnown

LEMMA AnswersKnown ==
  ASSUME IndInv, KnownInv, Between, NEW o \in Orders,
         \/ BrokerOrderPage(o) \/ BrokerFillPage(o) \/ \E done \in BOOLEAN : BrokerFeePage(o, done)
         \/ \E r \in RoleSet, status \in OrderCancelAttempt : BrokerCancelOutcome(o, r, status)
  PROVE  KnownInv' /\ MovesOn
<1>1. /\ broker[o] \in [st : BrokerStatus, cum : 0 .. Qty] /\ Qty \in Nat \ {0}
      /\ broker[o].cum \in 0 .. Qty /\ 0 <= broker[o].cum
  BY SyncAssumption DEF IndInv, BrokerInv
<1>2. ASSUME BrokerOrderPage(o) PROVE KnownInv' /\ MovesOn
  <2>1. PICK x, e : /\ x = [OrderItem(o, broker[o]) EXCEPT !.rep.full = TRUE]
                    /\ e = Entry("page", <<x>>) /\ Emit("reply", <<e>>)
                    /\ broker' = broker /\ broker[o].st # "new"
    BY <1>2 DEF BrokerOrderPage, Another
  <2>2. /\ x.o = o /\ x.lot = 0 /\ x.etf = scenario.etf
        /\ Says(x.rep, broker[o])
    BY <2>1 DEF OrderItem, Report, Says
  <2>3. e.kind = "page" /\ DOMAIN e.items = {1} /\ e.items[1] = x
    BY <2>1 DEF Entry
  <2>4. x.lot <= broker[o].cum
    BY <1>1, <2>2
  <2>5. \A k \in DOMAIN e.items :
          \E z \in {e.items[k]} : /\ z.o = o /\ z.lot <= broker[o].cum /\ z.etf = scenario.etf
                                  /\ Says(z.rep, broker[o])
    BY <2>2, <2>3, <2>4
  <2> QED BY <2>1, <2>3, <2>5, AnswerKnown DEF RoleSet
<1>3. ASSUME BrokerFillPage(o) PROVE KnownInv' /\ MovesOn
  <2>1. PICK e : /\ e = Entry("fill", [n \in 1 .. broker[o].cum |-> FillItem(o, broker[o], n)])
                 /\ Emit("reply", <<e>>) /\ broker' = broker
    BY <1>3 DEF BrokerFillPage, Another
  <2>2. e.kind = "fill" /\ DOMAIN e.items = 1 .. broker[o].cum
        /\ \A n \in DOMAIN e.items : e.items[n] = FillItem(o, broker[o], n)
    BY <2>1 DEF Entry
  <2>3. ASSUME NEW n \in DOMAIN e.items
        PROVE  \E x \in {e.items[n]} : /\ x.o = o /\ x.lot <= broker[o].cum /\ x.etf = scenario.etf
                                       /\ Says(x.rep, broker[o])
    <3>1. PICK x : x = e.items[n] /\ x = FillItem(o, broker[o], n)
      BY <2>2
    <3>2. x.o = o /\ x.lot = n /\ x.etf = scenario.etf /\ x.rep = Report(broker[o])
      BY <3>1 DEF FillItem, OrderItem
    <3>3. n <= broker[o].cum /\ Says(x.rep, broker[o])
      BY <1>1, <2>2, <3>2 DEF Says
    <3> QED BY <3>1, <3>2, <3>3
  <2> QED BY <2>1, <2>2, <2>3, AnswerKnown DEF RoleSet
<1>4. ASSUME NEW done \in BOOLEAN, BrokerFeePage(o, done) PROVE KnownInv' /\ MovesOn
  <2>1. PICK e : e.kind = "fee" /\ Emit("reply", <<e>>) /\ broker' = broker
    BY <1>4 DEF BrokerFeePage, Another, Entry
  <2> QED BY <2>1, AnswerKnown DEF RoleSet, Reports, Trades
<1>5. ASSUME NEW r \in RoleSet, NEW status \in OrderCancelAttempt, BrokerCancelOutcome(o, r, status)
      PROVE  KnownInv' /\ MovesOn
  <2>1. PICK e : e.kind = "cancel" /\ Emit(r, <<e>>) /\ broker' = broker
    BY <1>5 DEF BrokerCancelOutcome, Another, Entry
  <2> QED BY <2>1, AnswerKnown DEF RoleSet, Reports, Trades
<1> QED BY <1>2, <1>3, <1>4, <1>5

LEMMA NoteKnown ==
  ASSUME IndInv, KnownInv, Between, NEW o \in Orders, BrokerNote(o)
  PROVE  KnownInv' /\ MovesOn
<1>1. /\ broker[o] \in [st : BrokerStatus, cum : 0 .. Qty] /\ Qty \in Nat \ {0}
      /\ broker[o].cum \in 0 .. Qty /\ 0 <= broker[o].cum
  BY SyncAssumption DEF IndInv, BrokerInv
<1>2. PICK e \in {Entry("note", <<>>), Entry("garbled", <<>>),
               Entry("reject", <<[OrderItem(o, broker[o]) EXCEPT !.rep.rej = "BROKER_NOT_READY"]>>),
               Entry("page", <<[OrderItem(o, broker[o]) EXCEPT !.rep.full = FALSE]>>),
               Entry("fill", [n \in 1 .. broker[o].cum + 1 |->
                                FillItem(o, broker[o], IF n <= broker[o].cum THEN n ELSE 0)])} :
               Emit("reply", <<e>>)
  BY DEF BrokerNote
<1>3. broker' = broker
  BY DEF BrokerNote, Another
<1>4. CASE e = Entry("note", <<>>) \/ e = Entry("garbled", <<>>)
  <2>1. e.kind \in {"note", "garbled"}
    BY <1>4 DEF Entry
  <2> QED BY <1>2, <1>3, <2>1, AnswerKnown DEF RoleSet, Reports, Trades
<1>5. CASE e = Entry("reject", <<[OrderItem(o, broker[o]) EXCEPT !.rep.rej = "BROKER_NOT_READY"]>>)
  <2>1. PICK x : /\ x = [OrderItem(o, broker[o]) EXCEPT !.rep.rej = "BROKER_NOT_READY"]
                 /\ e = Entry("reject", <<x>>)
    BY <1>5
  <2>0. PICK R : R = Report(broker[o]) /\ x = [OrderItem(o, broker[o]) EXCEPT !.rep.rej = "BROKER_NOT_READY"]
    BY <2>1
  <2>2. /\ x.o = o /\ x.lot = 0 /\ x.etf = scenario.etf /\ x.rep.rej = "BROKER_NOT_READY"
        /\ Says(x.rep, broker[o])
    <3>1. /\ x.o = o /\ x.lot = 0 /\ x.etf = scenario.etf
          /\ x.rep = [R EXCEPT !.rej = "BROKER_NOT_READY"]
      BY <2>0 DEF OrderItem
    <3>2. R = [st |-> R.st, gw |-> R.gw, qty |-> R.qty, cum |-> R.cum, leaves |-> R.leaves,
               canc |-> R.canc, term |-> R.term, rej |-> R.rej, full |-> R.full]
      BY <2>0 DEF Report
    <3> QED BY <2>0, <3>1, <3>2 DEF Says
  <2>3. e.kind = "reject" /\ DOMAIN e.items = {1} /\ e.items[1] = x
    BY <2>1 DEF Entry
  <2>4. x.lot <= broker[o].cum /\ Refused(e)
    BY <1>1, <2>2, <2>3 DEF Refused, isIndeterminateCommandError, orderErrorInfo
  <2> QED BY <1>2, <1>3, <2>2, <2>3, <2>4, AnswerKnown DEF RoleSet
<1>6. CASE e = Entry("page", <<[OrderItem(o, broker[o]) EXCEPT !.rep.full = FALSE]>>)
  <2>1. PICK x : /\ x = [OrderItem(o, broker[o]) EXCEPT !.rep.full = FALSE]
                 /\ e = Entry("page", <<x>>)
    BY <1>6
  <2>0. PICK R : R = Report(broker[o]) /\ x = [OrderItem(o, broker[o]) EXCEPT !.rep.full = FALSE]
    BY <2>1
  <2>2. /\ x.o = o /\ x.lot = 0 /\ x.etf = scenario.etf /\ ~ x.rep.full
        /\ Says(x.rep, broker[o])
    <3>1. /\ x.o = o /\ x.lot = 0 /\ x.etf = scenario.etf
          /\ x.rep = [R EXCEPT !.full = FALSE]
      BY <2>0 DEF OrderItem
    <3>2. R = [st |-> R.st, gw |-> R.gw, qty |-> R.qty, cum |-> R.cum, leaves |-> R.leaves,
               canc |-> R.canc, term |-> R.term, rej |-> R.rej, full |-> R.full]
      BY <2>0 DEF Report
    <3> QED BY <2>0, <3>1, <3>2 DEF Says
  <2>3. e.kind = "page" /\ DOMAIN e.items = {1} /\ e.items[1] = x
    BY <2>1 DEF Entry
  <2>4. x.lot <= broker[o].cum /\ Refused(e)
    BY <1>1, <2>2, <2>3 DEF Refused, ordersFromReplyEnvelope, validateOrderPageFields
  <2> QED BY <1>2, <1>3, <2>2, <2>3, <2>4, AnswerKnown DEF RoleSet
<1>7. CASE e = Entry("fill", [n \in 1 .. broker[o].cum + 1 |->
                                FillItem(o, broker[o], IF n <= broker[o].cum THEN n ELSE 0)])
  <2>2. e.kind = "fill" /\ DOMAIN e.items = 1 .. broker[o].cum + 1
        /\ \A n \in DOMAIN e.items :
             e.items[n] = FillItem(o, broker[o], IF n <= broker[o].cum THEN n ELSE 0)
    BY <1>7 DEF Entry
  <2>3. ASSUME NEW n \in DOMAIN e.items
        PROVE  \E x \in {e.items[n]} : /\ x.o = o /\ x.lot <= broker[o].cum /\ x.etf = scenario.etf
                                       /\ Says(x.rep, broker[o])
    <3>1. PICK m : m = (IF n <= broker[o].cum THEN n ELSE 0) /\ m <= broker[o].cum
      BY <1>1, <2>2
    <3>2. PICK x : x = e.items[n] /\ x = FillItem(o, broker[o], m)
      BY <2>2, <3>1
    <3>3. x.o = o /\ x.lot = m /\ x.etf = scenario.etf /\ x.rep = Report(broker[o])
      BY <3>2 DEF FillItem, OrderItem
    <3>4. Says(x.rep, broker[o])
      BY <3>3 DEF Says
    <3> QED BY <3>1, <3>2, <3>3, <3>4
  <2> QED BY <1>2, <1>3, <2>2, <2>3, AnswerKnown DEF RoleSet
<1> QED BY <1>2, <1>4, <1>5, <1>6, <1>7

(* Lemma: the gateway only says what is so.                                *)
LEMMA GatewayKnown ==
  ASSUME IndInv, KnownInv, Broker
  PROVE  KnownInv' /\ MovesOn
<1>1. Between
  BY DEF Broker, Between
<1>2. PICK o \in Orders :
          \/ BrokerAccept(o) \/ BrokerCancel(o)
          \/ \E kind \in {"reject", "batch"} : BrokerReject(o, kind)
          \/ \E fillFirst \in BOOLEAN : BrokerFill(o, fillFirst)
          \/ BrokerOrderPage(o) \/ BrokerFillPage(o)
          \/ \E done \in BOOLEAN : BrokerFeePage(o, done)
          \/ BrokerCancelOutcome(o, "reply", "accepted")
          \/ BrokerCancelOutcome(o, "event", "rejected") \/ BrokerNote(o)
  BY DEF Broker
<1>3. CASE \/ BrokerAccept(o) \/ BrokerCancel(o)
           \/ \E kind \in {"reject", "batch"} : BrokerReject(o, kind)
  BY <1>1, <1>3, OrderChangesKnown
<1>4. CASE \E fillFirst \in BOOLEAN : BrokerFill(o, fillFirst)
  BY <1>1, <1>4, BrokerFillKnown
<1>5. CASE \/ BrokerOrderPage(o) \/ BrokerFillPage(o)
           \/ \E done \in BOOLEAN : BrokerFeePage(o, done)
           \/ BrokerCancelOutcome(o, "reply", "accepted")
           \/ BrokerCancelOutcome(o, "event", "rejected")
  BY <1>1, <1>5, AnswersKnown DEF RoleSet, OrderCancelAttempt
<1>6. CASE BrokerNote(o)
  BY <1>1, <1>6, NoteKnown
<1> QED BY <1>2, <1>3, <1>4, <1>5, <1>6

LEMMA KnownKept ==
  ASSUME KnownInv, UNCHANGED gateway
  PROVE  KnownInv'
<1>1. broker' = broker /\ stream' = stream /\ scenario' = scenario
  BY DEF gateway
<1>2. ASSUME NEW i, ItemKnown(i) PROVE ItemKnown(i)'
  <2>1. Says(i.rep, StateOf(i.rep))'
    BY <1>1, <1>2 DEF ItemKnown, Says, Report
  <2> QED BY <1>1, <1>2, <2>1 DEF ItemKnown, Was
<1>3. ASSUME NEW r, NEW e, EntryKnown(r, e) PROVE EntryKnown(r, e)'
  BY <1>2, <1>3 DEF EntryKnown
<1>4. (\A r \in RoleSet : \A i \in DOMAIN stream[r] : EntryKnown(r, stream[r][i]))'
  BY <1>1, <1>3 DEF KnownInv
<1>5. ASSUME NEW e, NEW o, Newest(e, o) PROVE Newest(e, o)'
  BY <1>1, <1>5 DEF Newest
<1>6. (\A o \in Orders : broker[o].st # "new" =>
         \E r \in RoleSet : \E i \in DOMAIN stream[r] : Newest(stream[r][i], o))'
  BY <1>1, <1>5, Zenon DEF KnownInv
<1>7. /\ (\A o \in Orders : OrderState(broker[o]))'
      /\ (\A o \in Orders : \A n \in 1 .. broker[o].cum :
            \E i \in DOMAIN stream["event"] : Tells(stream["event"][i], o, n))'
  BY <1>1, Zenon DEF KnownInv
<1> QED BY <1>4, <1>6, <1>7 DEF KnownInv

LEMMA NothingKnown ==
  ASSUME Init
  PROVE  KnownInv
<1>1. /\ \A o \in Orders : broker[o].st = "new" /\ broker[o].cum = 0
      /\ \A r \in RoleSet : DOMAIN stream[r] = {}
  BY DEF Init
<1>2. \A o \in Orders : 1 .. broker[o].cum = {}
  BY <1>1
<1> QED BY <1>1, <1>2 DEF KnownInv, OrderState

-----------------------------------------------------------------------------
(* Every lot is booked once.                                               *)

(* Lemma: a report of an order is read as it was meant.                    *)
LEMMA ReportRead ==
  ASSUME NEW rep \in OrderReport, NEW b \in [st : BrokerStatus, cum : 0 .. Qty],
         OrderState(b), b.st # "new", Says(rep, b)
  PROVE  \E t \in {toOrder(rep)} :
           /\ t.st = b.st /\ t.gw = rep.gw /\ t.qty = Qty /\ t.cum = b.cum /\ t.leaves = rep.leaves
           /\ t.canc = rep.canc /\ t.term = Terminal(b.st) /\ t.rej = rep.rej
<1> DEFINE a == [rep EXCEPT !.gw = normalizePartialFillGatewayStatus(rep)]
           x == NormalizeOrderExecutionState(a.st, a.gw, a.qty, a.cum, a.leaves)
           y == [a EXCEPT !.st = x.st, !.gw = x.gw, !.term = Terminal(x.st) \/ Terminal(x.gw)]
           t == WithFilledQty(y)
<1>0. Qty \in Nat \ {0}
  BY SyncAssumption
<1>1. /\ rep.st = b.st /\ rep.gw = (IF b.st = "partially_filled" THEN "working" ELSE b.st)
      /\ rep.qty = Qty /\ rep.cum = b.cum
      /\ rep.leaves = (IF Terminal(b.st) THEN 0 ELSE Qty - b.cum)
  <2>1. PICK R : /\ R = Report(b) /\ rep.st = R.st /\ rep.gw = R.gw /\ rep.qty = R.qty
                 /\ rep.cum = R.cum /\ rep.leaves = R.leaves
    BY DEF Says
  <2>2. /\ R.st = b.st /\ R.gw = (IF b.st = "partially_filled" THEN "working" ELSE b.st)
        /\ R.qty = Qty /\ R.cum = b.cum /\ R.leaves = (IF Terminal(b.st) THEN 0 ELSE Qty - b.cum)
    BY <2>1 DEF Report
  <2> QED BY <2>1, <2>2
<1>2. /\ a.st = rep.st /\ a.gw = rep.gw /\ a.qty = rep.qty /\ a.cum = rep.cum
      /\ a.leaves = rep.leaves /\ a.canc = rep.canc /\ a.rej = rep.rej
      /\ DOMAIN a = {"st", "gw", "qty", "cum", "leaves", "canc", "term", "rej", "full"}
  <2>1. normalizePartialFillGatewayStatus(rep) = rep.gw
    BY <1>1 DEF normalizePartialFillGatewayStatus
  <2> QED BY <2>1 DEF OrderReport
<1>3. x.st = b.st /\ x.gw = rep.gw
  <2>1. b.st \in {"working", "partially_filled", "filled", "cancelled", "rejected"}
    BY DEF BrokerStatus, TerminalStatus
  <2>2. CASE b.st = "working"
    <3>1. b.cum = 0 /\ ~ (b.cum >= Qty) /\ ~ (b.cum > 0) /\ ~ Terminal(b.st)
      BY <1>0, <2>2 DEF OrderState, Terminal, TerminalStatus
    <3> QED BY <1>1, <1>2, <2>2, <3>1 DEF NormalizeOrderExecutionState, QuantityComplete,
            Terminal, TerminalStatus, gatewayStatusForOrderStatus
  <2>3. CASE b.st = "partially_filled"
    <3>1. b.cum > 0 /\ Qty - b.cum > 0 /\ ~ (b.cum >= Qty) /\ ~ Terminal(b.st)
      BY <1>0, <2>3 DEF OrderState, Terminal, TerminalStatus
    <3> QED BY <1>1, <1>2, <2>3, <3>1 DEF NormalizeOrderExecutionState, QuantityComplete,
            Terminal, TerminalStatus
  <2>4. CASE b.st = "filled"
    BY <1>0, <1>1, <1>2, <2>4 DEF NormalizeOrderExecutionState, QuantityComplete, OrderState,
       Terminal, TerminalStatus, gatewayStatusForOrderStatus
  <2>5. CASE b.st \in {"cancelled", "rejected"}
    BY <1>0, <1>1, <1>2, <2>5 DEF NormalizeOrderExecutionState, QuantityComplete, OrderState,
       Terminal, TerminalStatus, gatewayStatusForOrderStatus
  <2> QED BY <2>1, <2>2, <2>3, <2>4, <2>5
<1>4. toOrder(rep) = t
  BY DEF toOrder, Normalized
<1> HIDE DEF a, x
<1>5. /\ y.st = b.st /\ y.gw = rep.gw /\ y.qty = Qty /\ y.cum = b.cum /\ y.leaves = rep.leaves
      /\ y.canc = rep.canc /\ y.term = (Terminal(b.st) \/ Terminal(rep.gw)) /\ y.rej = rep.rej
      /\ DOMAIN y = {"st", "gw", "qty", "cum", "leaves", "canc", "term", "rej", "full"}
  BY <1>1, <1>2, <1>3
<1>6. y.term = Terminal(b.st)
  BY <1>1, <1>5 DEF Terminal, TerminalStatus
<1> HIDE DEF y
<1>7. CASE b.st = "filled"
  <2>1. t = [y EXCEPT !.cum = y.qty, !.leaves = 0]
    BY <1>5, <1>7 DEF WithFilledQty
  <2>2. rep.leaves = 0 /\ b.cum = Qty
    BY <1>1, <1>7 DEF Terminal, TerminalStatus, OrderState
  <2>3. /\ t.st = b.st /\ t.gw = rep.gw /\ t.qty = Qty /\ t.cum = b.cum /\ t.leaves = rep.leaves
        /\ t.canc = rep.canc /\ t.term = Terminal(b.st) /\ t.rej = rep.rej
    BY <1>5, <1>6, <2>1, <2>2
  <2> QED BY <1>4, <2>3
<1>8. CASE b.st # "filled"
  <2>1. t = y
    BY <1>5, <1>8 DEF WithFilledQty
  <2> QED BY <1>4, <1>5, <1>6, <2>1
<1> QED BY <1>7, <1>8

(* Lemma: only a report of an order that has been filled calls for a       *)
(* summary fill.                                                           *)
LEMMA SummaryOfFilled ==
  ASSUME NEW rep \in OrderReport, NEW b \in [st : BrokerStatus, cum : 0 .. Qty],
         OrderState(b), b.st # "new", Says(rep, b), orderSummaryFilledQty(toOrder(rep)) # 0
  PROVE  b.cum = Qty
<1>1. PICK t : t = toOrder(rep) /\ t.st = b.st /\ t.gw = rep.gw
  BY ReportRead
<1>2. rep.gw = (IF b.st = "partially_filled" THEN "working" ELSE b.st)
  <2>1. PICK R : R = Report(b) /\ rep.gw = R.gw
    BY DEF Says
  <2> QED BY <2>1 DEF Report
<1>3. b.st = "filled"
  BY <1>1, <1>2 DEF orderSummaryFilledQty
<1> QED BY <1>3 DEF OrderState

(* What is worked off and did not fail; an entry that is not, and whose    *)
(* item k nobody has gone past; and an item that is to be booked as a fill.*)
Done(r, i) == Worked(r, i) /\ <<r, i>> \notin skipped
Ahead(r, i, k) ==
  /\ ~ Done(r, i)
  /\ \A p \in Processes : at[p].pc \in Statements /\ EntryOf(p) = <<r, i>> => at[p].item <= k
ToBook(e, o, k) ==
  /\ e.kind \in Trades /\ ~ Refused(e)
  /\ k \in DOMAIN e.items /\ e.items[k].o = o /\ ~ e.items[k].etf
StillToBook(o) ==
  \E r \in RoleSet : \E i \in DOMAIN stream[r] : \E k \in Nat \ {0} :
    ToBook(stream[r][i], o, k) /\ Ahead(r, i, k)

(* Only what has traded is booked, and a summary fill stays beside all the *)
(* fills of its order only as long as somebody is still to remove it.      *)
LotsTraded == \A o \in Orders : fills[o] \cup transfers[o] \subseteq 1 .. broker[o].cum
SummaryLeft ==
  \A o \in Orders : summary[o] # 0 =>
    broker[o].cum = Qty /\ (fills[o] = Fill => StillToBook(o))
FillInv == KnownInv /\ LotsTraded /\ SummaryLeft

(* Lemma: what is ahead stays ahead of a process that goes on within its   *)
(* entry, of one whose statement failed, and of one that is elsewhere.     *)
LEMMA AheadWithin ==
  ASSUME IndInv, NEW p \in Processes, at[p].pc \in Statements, NEW l \in Statements, Go(p, l),
         UNCHANGED <<cursor, hi, ckpt, skipped>>, NEW r, NEW i, NEW k, Ahead(r, i, k)
  PROVE  Ahead(r, i, k)'
<1>1. PICK x \in Place : /\ at' = [at EXCEPT ![p] = x] /\ at'[p] = x
                         /\ x.pc = l /\ x.role = at[p].role
                         /\ x.idx = at[p].idx /\ x.item = at[p].item
  BY Goes DEF IndInv
<1>2. \A q \in Processes : /\ at'[q].role = at[q].role /\ at'[q].idx = at[q].idx
                           /\ at'[q].item = at[q].item
                           /\ at'[q].pc \in Statements <=> at[q].pc \in Statements
                           /\ q # p => at'[q] = at[q]
  BY <1>1 DEF IndInv, PlaceInv
<1>3. Worked(r, i)' => Worked(r, i)
  <2>1. "worker" \in Processes /\ "report" \notin Statements
    BY DEF Processes, Statements
  <2> QED BY <1>2, <2>1 DEF Worked
<1> QED BY <1>2, <1>3 DEF Ahead, Done, EntryOf

LEMMA AheadEnds ==
  ASSUME IndInv, NEW p \in Processes, at[p].pc \in Statements, NEW ok \in BOOLEAN, EndEntry(p, ok),
         UNCHANGED <<stream, cursor, hi, ckpt>>,
         NEW r \in RoleSet, NEW i \in DOMAIN stream[r], NEW k \in Nat \ {0}, Ahead(r, i, k),
         ok => EntryOf(p) # <<r, i>>
  PROVE  Ahead(r, i, k)'
<1>1. skipped' = IF ok THEN skipped \ {EntryOf(p)} ELSE skipped \cup {EntryOf(p)}
  BY DEF EndEntry
<1>2. CASE p = "worker"
  <2>1. WorkerGoesOn
    BY <1>2 DEF EndEntry
  <2>2. /\ \E x \in Place : at' = [at EXCEPT !["worker"] = x]
        /\ at'["worker"].pc \in {"archive", "report"}
        /\ at'["worker"].pc = "archive" => InEntry("worker")'
        /\ \A s \in RoleSet : \A j \in DOMAIN stream[s] : Worked(s, j)' => Behind(s, j)
    BY <1>2, <2>1, WorkerGoes
  <2>3. at'["replay"] = at["replay"]
    BY <2>2 DEF IndInv, PlaceInv, Processes
  <2>4. at'["worker"].pc \in Statements => at'["worker"].item = 1
    BY <2>2 DEF Statements, InEntry
  <2>5. Done(r, i)' => Done(r, i)
    <3>1. Worked(r, i)' => Worked(r, i) \/ <<r, i>> = EntryOf(p)
      BY <1>2, <2>2 DEF Behind, EntryOf
    <3> QED BY <1>1, <3>1 DEF Done
  <2>6. EntryOf("replay")' = EntryOf("replay")
    BY <2>3 DEF EntryOf
  <2>7. 1 <= k
    OBVIOUS
  <2> QED BY <2>3, <2>4, <2>5, <2>6, <2>7 DEF Ahead, Processes
<1>3. CASE p = "replay"
  <2>1. at' = [at EXCEPT !["replay"] = [pc |-> "next", role |-> "reply", idx |-> 0, item |-> 1]]
    BY <1>3 DEF EndEntry, At
  <2>2. at'["worker"] = at["worker"] /\ at'["replay"].pc \notin Statements
    BY <2>1 DEF IndInv, PlaceInv, Processes, Statements
  <2>3. Worked(r, i)' => Worked(r, i)
    BY <2>2 DEF Worked
  <2>4. Done(r, i)' => Done(r, i)
    BY <1>1, <2>3 DEF Done
  <2>5. EntryOf("worker")' = EntryOf("worker")
    BY <2>2 DEF EntryOf
  <2> QED BY <2>2, <2>4, <2>5 DEF Ahead, Processes
<1> QED BY <1>2, <1>3 DEF Processes

LEMMA AheadNext ==
  ASSUME IndInv, NEW p \in Processes, at[p].pc \in Statements, at[p].pc # "archive", NextItem(p),
         UNCHANGED <<stream, cursor, hi, ckpt>>,
         NEW r \in RoleSet, NEW i \in DOMAIN stream[r], NEW k \in Nat \ {0}, Ahead(r, i, k),
         k \in DOMAIN stream[r][i].items, EntryOf(p) = <<r, i>> => at[p].item # k
  PROVE  Ahead(r, i, k)'
<1>1. /\ EntryOf(p) = <<r, i>> => at[p].item < k
      /\ at[p].item \in Nat \ {0}
  <2>1. at[p].item \in Nat \ {0}
    BY DEF IndInv, PlaceInv
  <2> QED BY <2>1 DEF Ahead
<1>2. PICK s \in RoleSet, j \in Nat, m \in Nat \ {0} :
        /\ s = at[p].role /\ j = at[p].idx /\ m = at[p].item
        /\ j \in DOMAIN stream[s] /\ <<s, j>> = EntryOf(p)
  BY Here
<1>3. PICK e : e = Current(p) /\ e = stream[s][j] /\ EntryOK(e)
  BY <1>2, Here
<1>4. DOMAIN e.items = 1 .. Len(e.items) /\ Len(e.items) \in Nat /\ ~ Refused(e) /\ m \in DOMAIN e.items
  BY <1>2, <1>3 DEF EntryOK, IndInv, PlaceInv, InEntry
<1>5. CASE m < Len(e.items)
  <2> DEFINE x == [pc |-> FirstStatement(e, m + 1), role |-> s, idx |-> j, item |-> m + 1]
  <2>1. m + 1 \in DOMAIN e.items
    BY <1>4, <1>5
  <2>2. FirstStatement(e, m + 1) \in Statements
    BY <1>2, <1>3, <1>4, <2>1, FirstOf, Zenon
  <2>3. at' = [at EXCEPT ![p] = x] /\ UNCHANGED skipped
    BY <1>2, <1>3, <1>5, Zenon DEF NextItem, At
  <2>4. /\ at'[p] = x /\ \A q \in Processes : q # p => at'[q] = at[q]
    BY <2>3 DEF IndInv, PlaceInv
  <2>5. /\ at'[p].role = s /\ at'[p].idx = j /\ at'[p].item = m + 1 /\ at'[p].pc \in Statements
    BY <2>2, <2>4
  <2>6. Worked(r, i)' => Worked(r, i)
    <3>1. "worker" \in Processes /\ "report" \notin Statements
      BY DEF Processes, Statements
    <3>2. /\ at'["worker"].role = at["worker"].role /\ at'["worker"].idx = at["worker"].idx
          /\ at'["worker"].pc \in Statements => at["worker"].pc \in Statements
          /\ at'["worker"].pc = "report" => at["worker"].pc = "report"
      BY <1>2, <1>3, <2>4, <2>5, <3>1
    <3> QED BY <3>2 DEF Worked
  <2>7. Done(r, i)' => Done(r, i)
    BY <2>3, <2>6 DEF Done
  <2>8. EntryOf(p) = <<r, i>> => m + 1 <= k
    BY <1>1, <1>2, <1>3
  <2>9. EntryOf(p)' = EntryOf(p) /\ \A q \in Processes : q # p => EntryOf(q)' = EntryOf(q)
    BY <1>2, <1>3, <2>4, <2>5 DEF EntryOf
  <2> QED BY <2>4, <2>5, <2>7, <2>8, <2>9 DEF Ahead
<1>6. CASE ~ (m < Len(e.items))
  <2>1. EndEntry(p, TRUE)
    BY <1>2, <1>3, <1>6 DEF NextItem
  <2>2. EntryOf(p) # <<r, i>>
    <3> SUFFICES ASSUME EntryOf(p) = <<r, i>> PROVE FALSE
      OBVIOUS
    <3>1. m < k /\ e = stream[r][i]
      BY <1>1, <1>2, <1>3
    <3>2. k \in 1 .. Len(e.items)
      BY <1>4, <3>1
    <3> QED BY <1>4, <1>6, <3>1, <3>2
  <2> QED BY <2>1, <2>2, AheadEnds
<1> QED BY <1>5, <1>6

LEMMA AheadQuiet ==
  ASSUME IndInv, Quiet, stream' = stream, skipped' = skipped,
         NEW r \in RoleSet, NEW i \in DOMAIN stream[r], NEW k \in Nat \ {0}, Ahead(r, i, k)
  PROVE  Ahead(r, i, k)'
<1>1. Done(r, i)' => Done(r, i)
  BY DEF Quiet, Done
<1>2. ASSUME NEW p \in Processes, at'[p].pc \in Statements, EntryOf(p)' = <<r, i>>
      PROVE  at'[p].item <= k
  <2>1. at'[p] = at[p] \/ at'[p].item = 1
    BY <1>2 DEF Quiet
  <2>2. CASE at'[p] = at[p]
    BY <1>2, <2>2 DEF Ahead, EntryOf
  <2>3. CASE at'[p].item = 1
    BY <2>3
  <2> QED BY <2>1, <2>2, <2>3
<1> QED BY <1>1, <1>2 DEF Ahead

(* Lemma: nothing is booked beside a summary fill while all that was ahead *)
(* is still ahead.                                                         *)
LEMMA FillsKept ==
  ASSUME IndInv, FillInv, UNCHANGED gateway, fills' = fills,
         \A o \in Orders : summary'[o] = summary[o] \/ summary'[o] = 0,
         \A o \in Orders : transfers'[o] \subseteq 1 .. broker[o].cum,
         \A o \in Orders : summary'[o] # 0 =>
           \A r \in RoleSet : \A i \in DOMAIN stream[r] : \A k \in Nat \ {0} :
             ToBook(stream[r][i], o, k) /\ Ahead(r, i, k) => Ahead(r, i, k)'
  PROVE  FillInv'
<1>1. broker' = broker /\ stream' = stream
  BY DEF gateway
<1>2. LotsTraded'
  BY <1>1 DEF FillInv, LotsTraded
<1>3. ASSUME NEW o \in Orders, summary'[o] # 0
      PROVE  broker[o].cum = Qty /\ (fills[o] = Fill => StillToBook(o)')
  <2>1. broker[o].cum = Qty /\ (fills[o] = Fill => StillToBook(o))
    BY <1>3 DEF FillInv, SummaryLeft
  <2>2. ASSUME StillToBook(o) PROVE StillToBook(o)'
    <3>1. PICK r \in RoleSet : \E i \in DOMAIN stream[r] : \E k \in Nat \ {0} :
            ToBook(stream[r][i], o, k) /\ Ahead(r, i, k)
      BY <2>2 DEF StillToBook
    <3>2. PICK i \in DOMAIN stream[r] : \E k \in Nat \ {0} :
            ToBook(stream[r][i], o, k) /\ Ahead(r, i, k)
      BY <3>1
    <3>3. PICK k \in Nat \ {0} : ToBook(stream[r][i], o, k) /\ Ahead(r, i, k)
      BY <3>2
    <3>4. ToBook(stream'[r][i], o, k) /\ Ahead(r, i, k)' /\ i \in DOMAIN stream'[r]
      BY <1>1, <1>3, <3>3
    <3> QED BY <3>4 DEF StillToBook, ToBook
  <2> QED BY <2>1, <2>2
<1>4. SummaryLeft'
  BY <1>1, <1>3 DEF SummaryLeft, Fill
<1> QED BY <1>2, <1>4, KnownKept DEF FillInv

LEMMA StepFills ==
  ASSUME IndInv, FillInv, NEW p \in Processes, at[p].pc \in Statements,
         UNCHANGED gateway, UNCHANGED <<cursor, hi, ckpt>>, fills' = fills,
         \A o \in Orders : summary'[o] = summary[o] \/ summary'[o] = 0,
         \A o \in Orders : transfers'[o] \subseteq 1 .. broker[o].cum,
         \/ \E l \in Statements : Go(p, l) /\ skipped' = skipped
         \/ EndEntry(p, FALSE)
         \/ EndEntry(p, TRUE) /\ Refused(Current(p))
         \/ /\ at[p].pc # "archive" /\ NextItem(p)
            /\ \A o \in Orders : summary'[o] # 0 => ~ ToBook(Current(p), o, at[p].item)
  PROVE  FillInv'
<1>1. stream' = stream
  BY DEF gateway
<1>2. ASSUME NEW o \in Orders, summary'[o] # 0, NEW r \in RoleSet, NEW i \in DOMAIN stream[r],
             NEW k \in Nat \ {0}, ToBook(stream[r][i], o, k), Ahead(r, i, k)
      PROVE  Ahead(r, i, k)'
  <2>1. EntryOf(p) = <<r, i>> => Current(p) = stream[r][i]
    BY DEF EntryOf, Current
  <2>2. ASSUME NEW l \in Statements, Go(p, l), skipped' = skipped PROVE Ahead(r, i, k)'
    BY <1>2, <2>2, AheadWithin
  <2>3. CASE EndEntry(p, FALSE)
    BY <1>1, <1>2, <2>3, AheadEnds
  <2>4. CASE EndEntry(p, TRUE) /\ Refused(Current(p))
    <3>1. EntryOf(p) # <<r, i>>
      BY <1>2, <2>1, <2>4 DEF ToBook
    <3> QED BY <1>1, <1>2, <2>4, <3>1, AheadEnds
  <2>5. CASE /\ at[p].pc # "archive" /\ NextItem(p)
             /\ \A x \in Orders : summary'[x] # 0 => ~ ToBook(Current(p), x, at[p].item)
    <3>1. k \in DOMAIN stream[r][i].items
      BY <1>2 DEF ToBook
    <3>2. EntryOf(p) = <<r, i>> => at[p].item # k
      BY <1>2, <2>1, <2>5
    <3> QED BY <1>1, <1>2, <2>5, <3>1, <3>2, AheadNext
  <2> QED BY <2>2, <2>3, <2>4, <2>5
<1> QED BY <1>2, FillsKept

LEMMA QuietFills ==
  ASSUME IndInv, FillInv, Quiet, UNCHANGED <<gateway, fillTables, skipped>>
  PROVE  FillInv'
<1>1. /\ UNCHANGED gateway /\ stream' = stream /\ skipped' = skipped
      /\ fills' = fills /\ summary' = summary /\ transfers' = transfers
  BY DEF gateway, fillTables
<1>2. \A o \in Orders : transfers'[o] \subseteq 1 .. broker[o].cum
  BY <1>1 DEF FillInv, LotsTraded
<1>3. ASSUME NEW r \in RoleSet, NEW i \in DOMAIN stream[r], NEW k \in Nat \ {0}, Ahead(r, i, k)
      PROVE  Ahead(r, i, k)'
  BY <1>1, <1>3, AheadQuiet
<1> QED BY <1>1, <1>2, <1>3, FillsKept

(* Lemma: the gateway adds entries, which nobody has worked off.           *)
LEMMA GatewayFills ==
  ASSUME IndInv, FillInv, Broker
  PROVE  FillInv'
<1>1. KnownInv' /\ MovesOn /\ Between
  BY GatewayKnown DEF FillInv, MovesOn
<1>2. /\ UNCHANGED <<fills, summary, transfers, at, cursor, hi, ckpt, skipped>>
      /\ \A o \in Orders : broker[o].cum \in 0 .. Qty /\ broker'[o].cum \in 0 .. Qty
                           /\ broker[o].cum <= broker'[o].cum
  <2>1. BrokerInv /\ BrokerInv'
    BY GatewayWritesInv DEF IndInv
  <2> QED BY <1>1, <2>1 DEF MovesOn, Between, db, fillTables, worker, BrokerInv
<1>3. Qty \in Nat
  BY SyncAssumption
<1>4. LotsTraded'
  <2> SUFFICES ASSUME NEW o \in Orders, NEW n \in fills[o] \cup transfers[o]
               PROVE  n \in 1 .. broker'[o].cum
    BY <1>2 DEF LotsTraded
  <2>1. n \in 1 .. broker[o].cum
    BY DEF FillInv, LotsTraded
  <2> QED BY <1>2, <1>3, <2>1
<1>5. ASSUME NEW o \in Orders, StillToBook(o) PROVE StillToBook(o)'
  <2>1. PICK r \in RoleSet : \E i \in DOMAIN stream[r] : \E k \in Nat \ {0} :
          ToBook(stream[r][i], o, k) /\ Ahead(r, i, k)
    BY <1>5 DEF StillToBook
  <2>2. PICK i \in DOMAIN stream[r] : \E k \in Nat \ {0} :
          ToBook(stream[r][i], o, k) /\ Ahead(r, i, k)
    BY <2>1
  <2>3. PICK k \in Nat \ {0} : ToBook(stream[r][i], o, k) /\ Ahead(r, i, k)
    BY <2>2
  <2>4. PICK e : e = stream[r][i] /\ e = stream'[r][i] /\ i \in DOMAIN stream'[r]
    BY <1>1 DEF MovesOn
  <2>5. ToBook(stream'[r][i], o, k)
    BY <2>3, <2>4
  <2>6. Ahead(r, i, k)'
    BY <1>2, <2>3 DEF Ahead, Done, Worked, EntryOf
  <2> QED BY <2>4, <2>5, <2>6 DEF StillToBook, ToBook
<1>6. ASSUME NEW o \in Orders, summary'[o] # 0
      PROVE  broker'[o].cum = Qty /\ (fills'[o] = Fill => StillToBook(o)')
  <2>1. broker[o].cum = Qty /\ (fills[o] = Fill => StillToBook(o))
    BY <1>2, <1>6 DEF FillInv, SummaryLeft
  <2>2. broker'[o].cum = Qty
    BY <1>2, <1>3, <2>1
  <2> QED BY <1>2, <1>5, <2>1, <2>2
<1>7. SummaryLeft'
  BY <1>6 DEF SummaryLeft, Fill
<1> QED BY <1>1, <1>4, <1>7 DEF FillInv

(* Lemma: the statements that book no fill.                                *)
LEMMA OtherFills ==
  ASSUME IndInv, FillInv, NEW p \in Processes,
         \/ p = "worker" /\ ArchiveRawStreamMessage
         \/ WriteOrder(p) \/ AppendOrderEvent(p) \/ StatementFails(p)
         \/ p = "worker" /\ UpsertOrderCancelAttempt
         \/ p = "worker" /\ UpsertOrderFeeRecord
  PROVE  FillInv'
<1>1. at[p].pc \in Statements /\ UNCHANGED gateway /\ UNCHANGED <<cursor, hi, ckpt>>
  BY DEF ArchiveRawStreamMessage, WriteOrder, AppendOrderEvent, StatementFails, UpsertOrderCancelAttempt,
         UpsertOrderFeeRecord, IsAt, Statements, Statement, worker
<1>2. fills' = fills /\ summary' = summary /\ transfers' = transfers
  BY DEF ArchiveRawStreamMessage, WriteOrder, AppendOrderEvent, StatementFails, UpsertOrderCancelAttempt,
         UpsertOrderFeeRecord, GiveUp, fillTables
<1>3. /\ \A o \in Orders : summary'[o] = summary[o] \/ summary'[o] = 0
      /\ \A o \in Orders : transfers'[o] \subseteq 1 .. broker[o].cum
  BY <1>2 DEF FillInv, LotsTraded
<1>4. PICK e : /\ e = Current(p) /\ EntryOK(e)
               /\ at[p].pc # "archive" => at[p].pc \in StatementsOf(e, at[p].item)
               /\ at[p].pc # "archive" => ~ Refused(e) /\ at[p].item \in DOMAIN e.items
  BY <1>1, Here DEF IndInv, PlaceInv, InEntry
<1>5. at[p].pc \in {"order", "append", "cancel", "fee"} => e.kind \notin Trades
  BY <1>4 DEF StatementsOf, Trades, EntryOK, Kinds, Reports
<1>6. \/ \E l \in Statements : Go(p, l) /\ skipped' = skipped
      \/ EndEntry(p, FALSE)
      \/ EndEntry(p, TRUE) /\ Refused(e)
      \/ at[p].pc \in {"order", "append", "cancel", "fee"} /\ NextItem(p)
  <2>1. CASE p = "worker" /\ ArchiveRawStreamMessage
    <3>1. CASE Refused(Current("worker"))
      BY <1>4, <2>1, <3>1 DEF ArchiveRawStreamMessage
    <3>2. CASE ~ Refused(Current("worker"))
      <4>1. Go("worker", FirstStatement(e, 1)) /\ skipped' = skipped
        BY <1>4, <2>1, <3>2 DEF ArchiveRawStreamMessage
      <4>2. FirstStatement(e, 1) \in Statements
        <5>1. 1 \in DOMAIN e.items
          BY <1>4, <2>1, <3>2 DEF EntryOK, Refused, DecodeEntry
        <5> QED BY <1>4, <2>1, <3>2, <5>1, FirstOf, Zenon
      <4> QED BY <2>1, <4>1, <4>2
    <3> QED BY <3>1, <3>2
  <2>2. CASE WriteOrder(p)
    <3>1. \/ Go(p, "summary") /\ skipped' = skipped
          \/ Go(p, "append") /\ skipped' = skipped
          \/ NextItem(p) \/ EndEntry(p, FALSE)
      BY <2>2 DEF WriteOrder, GiveUp
    <3> QED BY <2>2, <3>1 DEF WriteOrder, IsAt, Statements
  <2>3. CASE AppendOrderEvent(p)
    BY <2>3 DEF AppendOrderEvent, IsAt
  <2>4. CASE StatementFails(p)
    BY <2>4 DEF StatementFails, GiveUp
  <2>5. CASE p = "worker" /\ UpsertOrderCancelAttempt
    BY <2>5 DEF UpsertOrderCancelAttempt, IsAt
  <2>6. CASE p = "worker" /\ UpsertOrderFeeRecord
    BY <2>6 DEF UpsertOrderFeeRecord, IsAt
  <2> QED BY <2>1, <2>2, <2>3, <2>4, <2>5, <2>6
<1>7. CASE at[p].pc \in {"order", "append", "cancel", "fee"} /\ NextItem(p)
  <2>1. \A o \in Orders : ~ ToBook(Current(p), o, at[p].item)
    BY <1>4, <1>5, <1>7 DEF ToBook
  <2> QED BY <1>1, <1>2, <1>3, <1>7, <2>1, StepFills
<1>8. CASE \/ \E l \in Statements : Go(p, l) /\ skipped' = skipped
           \/ EndEntry(p, FALSE)
           \/ EndEntry(p, TRUE) /\ Refused(e)
  BY <1>1, <1>2, <1>3, <1>4, <1>8, StepFills
<1> QED BY <1>6, <1>7, <1>8

LEMMA TransferFills ==
  ASSUME IndInv, FillInv, NEW p \in Processes, InsertComponentTransfer(p)
  PROVE  FillInv'
<1>1. at[p].pc \in Statements /\ at[p].pc = "transfer" /\ UNCHANGED gateway /\ UNCHANGED <<cursor, hi, ckpt>>
  BY DEF InsertComponentTransfer, IsAt, Statements, Statement, worker
<1>2. PICK r \in RoleSet, i \in Nat, k \in Nat \ {0} :
        /\ r = at[p].role /\ i = at[p].idx /\ k = at[p].item
        /\ i \in DOMAIN stream[r] /\ <<r, i>> = EntryOf(p)
  BY <1>1, Here
<1>3. PICK e : e = Current(p) /\ e = stream[r][i] /\ EntryOK(e)
  BY <1>1, <1>2, Here
<1>4. /\ k \in DOMAIN e.items /\ e.items[k].etf /\ e.kind \in Trades
  BY <1>1, <1>2, <1>3 DEF IndInv, PlaceInv, InEntry, StatementsOf, EntryOK, Kinds, Reports, Trades
<1>5. PICK x : x = e.items[k] /\ x = Item(p)
  BY <1>2, <1>3 DEF Item
<1>6. x.o \in Orders /\ x.lot \in 0 .. Qty /\ ItemKnown(x)
  <2>1. EntryKnown(r, e)
    BY <1>2, <1>3 DEF FillInv, KnownInv
  <2>2. ItemKnown(e.items[k])
    BY <1>4, <2>1 DEF EntryKnown
  <2>3. e.items[k].o \in Orders /\ e.items[k].lot \in 0 .. Qty
    BY <1>3, <1>4 DEF EntryOK
  <2> QED BY <1>5, <2>2, <2>3
<1>7. /\ fills' = fills /\ summary' = summary
      /\ x.lot > 0 /\ transfers' = [transfers EXCEPT ![x.o] = transfers[x.o] \cup {x.lot}]
      /\ NextItem(p)
  BY <1>5 DEF InsertComponentTransfer, normalizeComponentTransfer, componentTransferFromPayload,
              insertComponentTransferSQL
<1>8. ASSUME NEW o \in Orders PROVE transfers'[o] \subseteq 1 .. broker[o].cum
  <2>1. transfers[o] \subseteq 1 .. broker[o].cum
    BY DEF FillInv, LotsTraded
  <2>2. broker[o].cum \in 0 .. Qty /\ Qty \in Nat /\ DOMAIN transfers = Orders
    BY SyncAssumption DEF IndInv, BrokerInv, TablesInv, LotsOK
  <2>3. transfers'[o] = IF o = x.o THEN transfers[o] \cup {x.lot} ELSE transfers[o]
    BY <1>7, <2>2
  <2>4. o = x.o => x.lot \in 1 .. broker[o].cum
    BY <1>6, <1>7, <2>2 DEF ItemKnown
  <2> QED BY <2>1, <2>3, <2>4
<1>9. \A o \in Orders : ~ ToBook(Current(p), o, at[p].item)
  BY <1>2, <1>3, <1>4 DEF ToBook
<1> QED BY <1>1, <1>7, <1>8, <1>9, StepFills

LEMMA PurgeFills ==
  ASSUME IndInv, FillInv, NEW p \in Processes, DeleteSummaryFills(p)
  PROVE  FillInv'
<1>1. at[p].pc \in Statements /\ at[p].pc = "purge" /\ UNCHANGED gateway /\ UNCHANGED <<cursor, hi, ckpt>>
  BY DEF DeleteSummaryFills, IsAt, Statements, Statement, worker
<1>2. PICK x : x = Item(p)
  OBVIOUS
<1>3. /\ fills' = fills /\ transfers' = transfers /\ NextItem(p)
      /\ summary' = [summary EXCEPT ![x.o] = 0]
  BY <1>2 DEF DeleteSummaryFills, Purged
<1>4. DOMAIN summary = Orders
  BY DEF IndInv, TablesInv, LotsOK
<1>5. /\ \A o \in Orders : summary'[o] = summary[o] \/ summary'[o] = 0
      /\ \A o \in Orders : summary'[o] # 0 => o # x.o
  BY <1>3, <1>4
<1>6. \A o \in Orders : summary'[o] # 0 => ~ ToBook(Current(p), o, at[p].item)
  BY <1>2, <1>5 DEF ToBook, Item
<1>7. \A o \in Orders : transfers'[o] \subseteq 1 .. broker[o].cum
  BY <1>3 DEF FillInv, LotsTraded
<1> QED BY <1>1, <1>3, <1>5, <1>6, <1>7, StepFills

(* Lemma: the fill that completes an order is inserted by somebody who will*)
(* remove the summary fill next, and cannot have been worked off before.   *)
LEMMA InsertFills ==
  ASSUME IndInv, FillInv, NEW p \in Processes, InsertFill(p)
  PROVE  FillInv'
<1>1. /\ at[p].pc \in Statements /\ at[p].pc = "fill" /\ InEntry(p)
      /\ UNCHANGED gateway /\ UNCHANGED <<stream, broker, cursor, hi, ckpt>>
  BY DEF InsertFill, IsAt, Statements, Statement, worker, gateway, IndInv, PlaceInv
<1>2. PICK r \in RoleSet, i \in Nat, k \in Nat \ {0} :
        /\ r = at[p].role /\ i = at[p].idx /\ k = at[p].item
        /\ i \in DOMAIN stream[r] /\ <<r, i>> = EntryOf(p)
  BY <1>1, Here
<1>3. PICK e : e = Current(p) /\ e = stream[r][i] /\ EntryOK(e)
  BY <1>1, <1>2, Here
<1>4. /\ k \in DOMAIN e.items /\ e.items[k].etf = FALSE /\ e.kind \in Trades /\ ~ Refused(e)
      /\ DOMAIN e.items = 1 .. Len(e.items) /\ Len(e.items) \in Nat
  BY <1>1, <1>2, <1>3 DEF InEntry, StatementsOf, EntryOK, Kinds, Reports, Trades
<1>5. PICK x : x = e.items[k] /\ x = Item(p)
  BY <1>2, <1>3 DEF Item
<1>6. x.o \in Orders /\ x.lot \in 0 .. Qty /\ ItemKnown(x)
  <2>1. EntryKnown(r, e)
    BY <1>2, <1>3 DEF FillInv, KnownInv
  <2>2. ItemKnown(e.items[k])
    BY <1>4, <2>1 DEF EntryKnown
  <2>3. e.items[k].o \in Orders /\ e.items[k].lot \in 0 .. Qty
    BY <1>3, <1>4 DEF EntryOK
  <2> QED BY <1>5, <2>2, <2>3
<1>7. CASE ~ Insertable(x)
  <2>1. GiveUp(p)
    BY <1>5, <1>7 DEF InsertFill
  <2>2. fills' = fills /\ summary' = summary /\ transfers' = transfers /\ EndEntry(p, FALSE)
    BY <2>1 DEF GiveUp, fillTables
  <2>3. \A o \in Orders : transfers'[o] \subseteq 1 .. broker[o].cum
    BY <2>2 DEF FillInv, LotsTraded
  <2> QED BY <1>1, <2>2, <2>3, StepFills
<1>8. CASE Insertable(x)
  <2>1. /\ fills' = [fills EXCEPT ![x.o] = fills[x.o] \cup {x.lot}] /\ x.lot > 0
        /\ Go(p, "purge") /\ summary' = summary /\ transfers' = transfers /\ skipped' = skipped
    BY <1>5, <1>8 DEF InsertFill, Insertable, normalizeFill, fillFromPayload, insertFillSQL
  <2>2. DOMAIN fills = Orders
    BY DEF IndInv, TablesInv, LotsOK
  <2>3. \A o \in Orders : fills'[o] = IF o = x.o THEN fills[o] \cup {x.lot} ELSE fills[o]
    BY <2>1, <2>2
  <2>4. LotsTraded'
    <3> SUFFICES ASSUME NEW o \in Orders PROVE fills'[o] \cup transfers'[o] \subseteq 1 .. broker[o].cum
      BY <1>1 DEF LotsTraded
    <3>1. fills[o] \cup transfers[o] \subseteq 1 .. broker[o].cum
      BY DEF FillInv, LotsTraded
    <3>2. broker[o].cum \in 0 .. Qty /\ Qty \in Nat
      BY SyncAssumption DEF IndInv, BrokerInv
    <3>3. o = x.o => x.lot \in 1 .. broker[o].cum
      BY <1>6, <2>1, <3>2 DEF ItemKnown
    <3> QED BY <2>1, <2>3, <3>1, <3>3
  <2>5. ASSUME NEW o \in Orders, StillToBook(o) PROVE StillToBook(o)'
    <3>1. PICK s \in RoleSet : \E j \in DOMAIN stream[s] : \E m \in Nat \ {0} :
            ToBook(stream[s][j], o, m) /\ Ahead(s, j, m)
      BY <2>5 DEF StillToBook
    <3>2. PICK j \in DOMAIN stream[s] : \E m \in Nat \ {0} :
            ToBook(stream[s][j], o, m) /\ Ahead(s, j, m)
      BY <3>1
    <3>3. PICK m \in Nat \ {0} : ToBook(stream[s][j], o, m) /\ Ahead(s, j, m)
      BY <3>2
    <3>4. Ahead(s, j, m)'
      BY <1>1, <2>1, <3>3, AheadWithin DEF Statements
    <3>5. ToBook(stream'[s][j], o, m) /\ j \in DOMAIN stream'[s]
      BY <1>1, <3>3
    <3> QED BY <3>4, <3>5 DEF StillToBook, ToBook
  <2>6. ASSUME x.lot \notin fills[x.o] PROVE StillToBook(x.o)'
    <3>1. Ahead(r, i, k)
      <4>1. ~ Done(r, i)
        <5> SUFFICES ASSUME Done(r, i) PROVE FALSE
          OBVIOUS
        <5>1. Covered(r, i)
          BY <1>2 DEF Done, IndInv, CoverInv
        <5>2. IsBooked(r, i)
          BY <1>3, <1>4, <5>1 DEF Covered
        <5> QED BY <1>3, <1>4, <1>5, <2>6, <5>2 DEF IsBooked, Trades
      <4>2. ASSUME NEW q \in Processes, at[q].pc \in Statements, EntryOf(q) = <<r, i>>
            PROVE  at[q].item <= k
        <5> SUFFICES ASSUME ~ (at[q].item <= k) PROVE FALSE
          OBVIOUS
        <5>1. at[q].item \in Nat /\ k \in 1 .. at[q].item - 1
          BY DEF IndInv, PlaceInv
        <5>2. at[q].pc # "archive" /\ Current(q) = e
          <6>1. InEntry(q) /\ at[q].item # 1 /\ r = at[q].role /\ i = at[q].idx
            BY <4>2 DEF IndInv, PlaceInv, EntryOf
          <6> QED BY <1>3, <6>1 DEF InEntry, Current
        <5>3. LotsBooked(e, at[q].item - 1)
          BY <4>2, <5>2 DEF IndInv, PlaceInv, InEntry
        <5> QED BY <1>4, <1>5, <2>6, <5>1, <5>3 DEF LotsBooked
      <4> QED BY <4>1, <4>2 DEF Ahead
    <3>2. Ahead(r, i, k)'
      BY <1>1, <2>1, <3>1, AheadWithin DEF Statements
    <3>3. ToBook(stream'[r][i], x.o, k) /\ i \in DOMAIN stream'[r]
      BY <1>1, <1>2, <1>3, <1>4, <1>5 DEF ToBook
    <3> QED BY <3>2, <3>3 DEF StillToBook, ToBook
  <2>7. ASSUME NEW o \in Orders, summary'[o] # 0
        PROVE  broker[o].cum = Qty /\ (fills'[o] = Fill => StillToBook(o)')
    <3>1. broker[o].cum = Qty /\ (fills[o] = Fill => StillToBook(o))
      BY <2>1, <2>7 DEF FillInv, SummaryLeft
    <3>2. fills'[o] = fills[o] \/ (o = x.o /\ x.lot \notin fills[x.o])
      BY <2>3
    <3> QED BY <2>5, <2>6, <3>1, <3>2
  <2>8. SummaryLeft'
    BY <1>1, <2>7 DEF SummaryLeft, Fill
  <2> QED BY <1>1, <2>4, <2>8, KnownKept DEF FillInv
<1> QED BY <1>7, <1>8

(* Lemma: a summary fill is only synthesised for what a filled order lacks.*)
LEMMA SummaryFills ==
  ASSUME IndInv, FillInv, SynthesizeSummaryFill
  PROVE  FillInv'
<1> DEFINE p == "worker"
<1>1. /\ p \in Processes /\ at[p].pc \in Statements /\ at[p].pc = "summary" /\ InEntry(p)
      /\ at[p].pc # "archive" /\ UNCHANGED gateway
      /\ UNCHANGED <<stream, broker, cursor, hi, ckpt>>
  BY DEF SynthesizeSummaryFill, IsAt, Statements, Statement, worker, gateway, IndInv, PlaceInv, Processes
<1>2. PICK r \in RoleSet, i \in Nat, k \in Nat \ {0} :
        /\ r = at[p].role /\ i = at[p].idx /\ k = at[p].item
        /\ i \in DOMAIN stream[r] /\ <<r, i>> = EntryOf(p)
  BY <1>1, Here
<1>3. PICK e : e = Current(p) /\ e = stream[r][i] /\ EntryOK(e)
  BY <1>1, <1>2, Here
<1>4. /\ k \in DOMAIN e.items /\ e.kind \in {"order", "page"} /\ e.kind \notin Trades
      /\ e.kind \in Reports /\ ~ Refused(e)
  BY <1>1, <1>2, <1>3 DEF InEntry, StatementsOf, EntryOK, Kinds, Reports, Trades
<1>5. PICK x : x = e.items[k] /\ x = Item(p)
  BY <1>2, <1>3 DEF Item
<1>6. x.o \in Orders /\ x.rep \in OrderReport /\ ItemKnown(x) /\ x.rep.st # "new"
  <2>1. EntryKnown(r, e)
    BY <1>2, <1>3 DEF FillInv, KnownInv
  <2>2. ItemKnown(e.items[k]) /\ e.items[k].rep.st # "new"
    BY <1>4, <2>1 DEF EntryKnown
  <2>3. e.items[k].o \in Orders /\ e.items[k].rep \in OrderReport
    BY <1>3, <1>4 DEF EntryOK
  <2> QED BY <1>5, <2>2, <2>3
<1>7. /\ fills' = fills /\ transfers' = transfers
      /\ summary' = [summary EXCEPT ![x.o] = Synthesize(x)]
      /\ NextItem(p) \/ (Go(p, "append") /\ skipped' = skipped)
  BY <1>5 DEF SynthesizeSummaryFill
<1>8. \A o \in Orders : summary'[o] = IF o = x.o THEN Synthesize(x) ELSE summary[o]
  BY <1>7 DEF IndInv, TablesInv, LotsOK
<1>9. ASSUME NEW o \in Orders, StillToBook(o) PROVE StillToBook(o)'
  <2>1. PICK s \in RoleSet : \E j \in DOMAIN stream[s] : \E m \in Nat \ {0} :
          ToBook(stream[s][j], o, m) /\ Ahead(s, j, m)
    BY <1>9 DEF StillToBook
  <2>2. PICK j \in DOMAIN stream[s] : \E m \in Nat \ {0} :
          ToBook(stream[s][j], o, m) /\ Ahead(s, j, m)
    BY <2>1
  <2>3. PICK m \in Nat \ {0} : ToBook(stream[s][j], o, m) /\ Ahead(s, j, m)
    BY <2>2
  <2>4. EntryOf(p) # <<s, j>>
    BY <1>2, <1>3, <1>4, <2>3 DEF ToBook
  <2>5. CASE NextItem(p)
    <3>1. m \in DOMAIN stream[s][j].items
      BY <2>3 DEF ToBook
    <3>2. Ahead(s, j, m)'
      BY <1>1, <2>3, <2>4, <2>5, <3>1, AheadNext
    <3> QED BY <1>1, <2>3, <3>2 DEF StillToBook, ToBook
  <2>6. CASE Go(p, "append") /\ skipped' = skipped
    <3>1. Ahead(s, j, m)'
      BY <1>1, <2>3, <2>6, AheadWithin DEF Statements
    <3> QED BY <1>1, <2>3, <3>1 DEF StillToBook, ToBook
  <2> QED BY <1>7, <2>5, <2>6
<1>10. ASSUME NEW o \in Orders, summary'[o] # 0
       PROVE  broker[o].cum = Qty /\ (fills[o] = Fill => StillToBook(o)')
  <2>1. CASE summary'[o] = summary[o]
    <3>1. broker[o].cum = Qty /\ (fills[o] = Fill => StillToBook(o))
      BY <1>10, <2>1 DEF FillInv, SummaryLeft
    <3> QED BY <1>9, <3>1
  <2>2. CASE summary'[o] # summary[o]
    <3>1. o = x.o /\ Synthesize(x) # summary[x.o]
      BY <1>8, <2>2
    <3>2. PICK target \in 0 .. Qty : target = orderSummaryFilledQty(toOrder(x.rep))
      BY <1>6, SummaryBound
    <3>3. target > Cardinality(fills[x.o]) + summary[x.o] /\ summary[x.o] = 0
      BY <3>1, <3>2 DEF Synthesize
    <3>4. fills[x.o] \subseteq 1 .. Qty /\ Qty \in Nat /\ IsFiniteSet(1 .. Qty) /\ Cardinality(1 .. Qty) = Qty
      <4>1. Qty \in Nat /\ 1 .. Qty = Fill /\ fills[x.o] \subseteq Fill
        BY <1>6, SyncAssumption DEF IndInv, TablesInv, LotsOK, Fill
      <4>2. IsFiniteSet(1 .. Qty) /\ Cardinality(1 .. Qty) = Qty
        BY <4>1, FS_Interval
      <4> QED BY <4>1, <4>2
    <3>5. Cardinality(fills[x.o]) \in Nat
      BY <3>4, FS_Subset, FS_CardinalityType
    <3>6. fills[x.o] # Fill
      BY <3>2, <3>3, <3>4, <3>5 DEF Fill
    <3>7. target # 0
      BY <3>2, <3>3, <3>5
    <3>8. PICK b : b = StateOf(x.rep)
      OBVIOUS
    <3>9. /\ b \in [st : BrokerStatus, cum : 0 .. Qty] /\ b.st # "new"
          /\ OrderState(b) /\ Says(x.rep, b) /\ b.cum <= broker[x.o].cum
      <4>1. b \in [st : BrokerStatus, cum : 0 .. Qty] /\ b.st = x.rep.st
        BY <1>6, <3>8 DEF StateOf, OrderReport
      <4> QED BY <1>6, <3>8, <4>1 DEF ItemKnown, Was
    <3>10. b.cum = Qty
      BY <1>6, <3>2, <3>7, <3>9, SummaryOfFilled
    <3>11. broker[x.o].cum \in 0 .. Qty
      BY <1>6 DEF IndInv, BrokerInv
    <3> QED BY <3>1, <3>4, <3>6, <3>9, <3>10, <3>11
  <2> QED BY <2>1, <2>2
<1>11. SummaryLeft' /\ LotsTraded'
  BY <1>1, <1>7, <1>10 DEF FillInv, SummaryLeft, LotsTraded, Fill
<1> QED BY <1>1, <1>11, KnownKept DEF FillInv

LEMMA FillsNext ==
  ASSUME IndInv, FillInv, [Next]_vars
  PROVE  FillInv'
<1>1. CASE Read \/ SaveCheckpoint \/ SaveCheckpointFails
  <2>1. Quiet
    BY <1>1, ReadInv, CheckpointInv
  <2>2. UNCHANGED <<gateway, fillTables, skipped>>
    BY <1>1 DEF Read, SaveCheckpoint, SaveCheckpointFails, Advance, db
  <2> QED BY <2>1, <2>2, QuietFills
<1>2. CASE Crash \/ \E unread \in SUBSET RoleSet : Restart(unread)
  <2>1. Quiet
    BY <1>2, CrashInv, RestartInv
  <2>2. UNCHANGED <<gateway, fillTables, skipped>>
    BY <1>2 DEF Crash, Restart, db
  <2> QED BY <2>1, <2>2, QuietFills
<1>3. CASE StartReplay \/ ReplayNext \/ ReplayStops
  <2>1. Quiet
    BY <1>3, StartReplayInv, ReplayNextInv, ReplayStopsInv
  <2>2. UNCHANGED <<gateway, fillTables, skipped>>
    BY <1>3 DEF StartReplay, ReplayNext, ReplayStops, db
  <2> QED BY <2>1, <2>2, QuietFills
<1>4. CASE UNCHANGED vars
  <2>1. UNCHANGED <<gateway, fillTables, skipped>>
    BY <1>4 DEF vars, db
  <2> QED BY <1>4, <2>1, StutterInv, QuietFills
<1>5. CASE ArchiveRawStreamMessage \/ UpsertOrderCancelAttempt \/ UpsertOrderFeeRecord
  <2>1. "worker" \in Processes
    BY DEF Processes
  <2> QED BY <1>5, <2>1, OtherFills
<1>6. CASE \E p \in Processes :
             WriteOrder(p) \/ AppendOrderEvent(p) \/ StatementFails(p)
  BY <1>6, OtherFills
<1>7. CASE \E p \in Processes :
             InsertFill(p) \/ DeleteSummaryFills(p) \/ InsertComponentTransfer(p)
  BY <1>7, InsertFills, PurgeFills, TransferFills
<1>8. CASE Broker
  BY <1>8, GatewayFills
<1>9. CASE SynthesizeSummaryFill
  BY <1>9, SummaryFills
<1> QED BY <1>1, <1>2, <1>3, <1>4, <1>5, <1>6, <1>7, <1>8, <1>9 DEF Next, Step

(* The invariant of the fills: what the gateway has said, that only traded *)
(* lots are booked, and that beside a summary fill whatever the gateway    *)
(* filled is booked or still to be worked off.                             *)
THEOREM FillInvHolds == Spec => []FillInv
<1>1. Init => FillInv
  <2> SUFFICES ASSUME Init PROVE FillInv
    OBVIOUS
  <2>1. \A o \in Orders : fills[o] = {} /\ transfers[o] = {} /\ summary[o] = 0
    BY DEF Init
  <2> QED BY <2>1, NothingKnown DEF FillInv, LotsTraded, SummaryLeft
<1>2. IndInv /\ FillInv /\ [Next]_vars => FillInv'
  BY FillsNext
<1> QED BY <1>1, <1>2, IndInvHolds, PTL DEF Spec

(* Lemma: when everything is applied, everything was worked off.           *)
LEMMA AllDone ==
  ASSUME IndInv, Applied, NEW r \in RoleSet, NEW i \in DOMAIN stream[r]
  PROVE  Done(r, i) /\ Covered(r, i)
<1>1. i <= cursor[r]
  BY Cursors DEF Applied, CaughtUp
<1>2. <<r, i>> \notin skipped
  BY DEF Applied
<1> QED BY <1>1, <1>2 DEF Done, Worked, IndInv, CoverInv

(* However entries are repeated, fail and are repaired, once everything is *)
(* applied every lot that traded is booked exactly once, as a fill, as a   *)
(* transfer, or within no summary fill at all.                             *)
THEOREM EveryLotBookedOnce == Spec => []FillsBookedOnce
<1>1. IndInv /\ FillInv => FillsBookedOnce
  <2> SUFFICES ASSUME IndInv, FillInv, Applied, NEW o \in Orders PROVE Booked(o) = broker[o].cum
    BY DEF FillsBookedOnce
  <2>1. PICK c \in 0 .. Qty : c = broker[o].cum
    BY DEF IndInv, BrokerInv
  <2>2. /\ Qty \in Nat /\ IsFiniteSet(1 .. c) /\ Cardinality(1 .. c) = c
    <3>1. Qty \in Nat /\ c \in Int /\ 1 \in Int /\ c >= 0
      BY SyncAssumption, <2>1
    <3>2. /\ IsFiniteSet(1 .. c)
          /\ Cardinality(1 .. c) = IF 1 > c THEN 0 ELSE c - 1 + 1
      BY <3>1, FS_Interval
    <3>3. (IF 1 > c THEN 0 ELSE c - 1 + 1) = c
      BY <3>1
    <3> QED BY <3>1, <3>2, <3>3
  <2>3. ASSUME NEW n \in 1 .. c
        PROVE  n \in (IF scenario.etf THEN transfers ELSE fills)[o]
    <3>1. PICK i \in DOMAIN stream["event"] : Tells(stream["event"][i], o, n)
      BY <2>1 DEF FillInv, KnownInv
    <3>2. PICK e : e = stream["event"][i]
      OBVIOUS
    <3>3. PICK k \in DOMAIN e.items :
            e.kind \in Trades /\ ~ Refused(e) /\ e.items[k].o = o /\ e.items[k].lot = n
      BY <3>1, <3>2 DEF Tells
    <3>4. "event" \in RoleSet
      BY DEF RoleSet
    <3>5. Covered("event", i)
      BY <3>4, AllDone
    <3>6. e.items[k].lot \in (IF e.items[k].etf THEN transfers ELSE fills)[e.items[k].o]
      BY <3>2, <3>3, <3>5 DEF Covered, IsBooked, Trades
    <3>7. e.items[k].etf = scenario.etf
      <4>1. EntryKnown("event", e)
        BY <3>2, <3>4 DEF FillInv, KnownInv
      <4> QED BY <3>3, <4>1 DEF EntryKnown, ItemKnown
    <3> QED BY <3>3, <3>6, <3>7
  <2>4. fills[o] \subseteq 1 .. c /\ transfers[o] \subseteq 1 .. c
    BY <2>1 DEF FillInv, LotsTraded
  <2>5. CASE scenario.etf
    <3>1. transfers[o] = 1 .. c
      BY <2>3, <2>4, <2>5
    <3> QED BY <2>1, <2>2, <2>5, <3>1 DEF Booked
  <2>6. CASE ~ scenario.etf
    <3>1. fills[o] = 1 .. c
      BY <2>3, <2>4, <2>6
    <3>2. summary[o] = 0
      <4> SUFFICES ASSUME summary[o] # 0 PROVE FALSE
        OBVIOUS
      <4>1. c = Qty /\ (fills[o] = Fill => StillToBook(o))
        BY <2>1 DEF FillInv, SummaryLeft
      <4>2. StillToBook(o)
        BY <3>1, <4>1 DEF Fill
      <4>3. PICK r \in RoleSet : \E i \in DOMAIN stream[r] : \E k \in Nat \ {0} :
              ToBook(stream[r][i], o, k) /\ Ahead(r, i, k)
        BY <4>2 DEF StillToBook
      <4> QED BY <4>3, AllDone DEF Ahead
    <3> QED BY <2>1, <2>2, <2>6, <3>1, <3>2 DEF Booked
  <2> QED BY <2>5, <2>6
<1> QED BY <1>1, IndInvHolds, FillInvHolds, PTL

-----------------------------------------------------------------------------
(* The fees are those of the newest complete page.                         *)

(* Lemma: a step of an entry adds no more than that entry to what is done. *)
LEMMA DoneMoves ==
  ASSUME IndInv, NEW p \in Processes, at[p].pc \in Statements, UNCHANGED <<stream, cursor, hi, ckpt>>,
         \/ \E l \in Statements : Go(p, l) /\ skipped' = skipped
         \/ EndEntry(p, FALSE) \/ EndEntry(p, TRUE)
         \/ at[p].pc # "archive" /\ NextItem(p),
         NEW s \in RoleSet, NEW j \in DOMAIN stream[s], Done(s, j)'
  PROVE  \/ Done(s, j)
         \/ <<s, j>> = EntryOf(p) /\ EndEntry(p, TRUE)
<1>1. ASSUME NEW ok \in BOOLEAN, EndEntry(p, ok)
      PROVE  Done(s, j) \/ (<<s, j>> = EntryOf(p) /\ ok)
  <2>1. skipped' = IF ok THEN skipped \ {EntryOf(p)} ELSE skipped \cup {EntryOf(p)}
    BY <1>1 DEF EndEntry
  <2>2. Worked(s, j) \/ <<s, j>> = EntryOf(p)
    <3>1. CASE p = "worker"
      <4>1. WorkerGoesOn
        BY <1>1, <3>1 DEF EndEntry
      <4>2. Worked(s, j)' => Behind(s, j)
        BY <3>1, <4>1, WorkerGoes
      <4> QED BY <3>1, <4>2 DEF Behind, EntryOf, Done
    <3>2. CASE p = "replay"
      <4>1. at' = [at EXCEPT !["replay"] = [pc |-> "next", role |-> "reply", idx |-> 0, item |-> 1]]
        BY <1>1, <3>2 DEF EndEntry, At
      <4>2. at'["worker"] = at["worker"]
        BY <4>1 DEF IndInv, PlaceInv, Processes
      <4> QED BY <4>2 DEF Done, Worked
    <3> QED BY <3>1, <3>2 DEF Processes
  <2> QED BY <2>1, <2>2 DEF Done
<1>2. ASSUME NEW x, at'[p].pc \in Statements, at'[p].role = at[p].role, at'[p].idx = at[p].idx,
             at' = [at EXCEPT ![p] = x], skipped' = skipped
      PROVE  Done(s, j)
  <2>1. \A q \in Processes : q # p => at'[q] = at[q]
    BY <1>2 DEF IndInv, PlaceInv
  <2>2. "worker" \in Processes /\ "report" \notin Statements
    BY DEF Processes, Statements
  <2>3. Worked(s, j)' => Worked(s, j)
    BY <1>2, <2>1, <2>2 DEF Worked
  <2> QED BY <1>2, <2>3 DEF Done
<1>3. ASSUME NEW l \in Statements, Go(p, l), skipped' = skipped PROVE Done(s, j)
  <2>1. PICK x \in Place : /\ at' = [at EXCEPT ![p] = x] /\ at'[p] = x
                           /\ x.pc = l /\ x.role = at[p].role
                           /\ x.idx = at[p].idx /\ x.item = at[p].item
    BY <1>3, Goes DEF IndInv
  <2> QED BY <1>2, <1>3, <2>1
<1>4. ASSUME at[p].pc # "archive", NextItem(p), at[p].item < Len(Current(p).items) PROVE Done(s, j)
  <2>1. PICK r \in RoleSet, i \in Nat, m \in Nat \ {0} :
          /\ r = at[p].role /\ i = at[p].idx /\ m = at[p].item
          /\ i \in DOMAIN stream[r] /\ <<r, i>> = EntryOf(p)
    BY Here
  <2>2. PICK e : e = Current(p) /\ e = stream[r][i] /\ EntryOK(e)
    BY <2>1, Here
  <2>3. m + 1 \in DOMAIN e.items /\ ~ Refused(e)
    <3>1. m < Len(e.items) /\ Len(e.items) \in Nat /\ DOMAIN e.items = 1 .. Len(e.items)
      BY <1>4, <2>1, <2>2 DEF EntryOK
    <3>2. ~ Refused(e)
      BY <1>4, <2>2 DEF IndInv, PlaceInv, InEntry
    <3> QED BY <3>1, <3>2
  <2>4. FirstStatement(e, m + 1) \in Statements
    BY <2>2, <2>3, FirstOf, Zenon
  <2>5. PICK x : /\ x = [pc |-> FirstStatement(e, m + 1), role |-> r, idx |-> i, item |-> m + 1]
                 /\ at' = [at EXCEPT ![p] = x] /\ skipped' = skipped
    BY <1>4, <2>1, <2>2, Zenon DEF NextItem, At
  <2>6. at'[p] = x
    BY <2>5 DEF IndInv, PlaceInv
  <2>7. /\ at'[p].pc \in Statements /\ at'[p].role = at[p].role /\ at'[p].idx = at[p].idx
        /\ at' = [at EXCEPT ![p] = x] /\ skipped' = skipped
    BY <2>1, <2>4, <2>5, <2>6
  <2> QED BY <1>2, <2>7
<1>5. NextItem(p) /\ ~ (at[p].item < Len(Current(p).items)) => EndEntry(p, TRUE)
  BY DEF NextItem
<1> QED BY <1>1, <1>3, <1>4, <1>5

(* A record gives way to a newer one, a complete one to complete ones only.*)
Replaces(old, new) ==
  \/ new.asOf > old.asOf /\ (old.done => new.done)
  \/ new.asOf = old.asOf /\ new.done /\ ~ old.done
FeePage(i) == feeRecordFromPayload(stream["reply"][i].items[1])
FeeShown(f, x) == /\ f.asOf = IF x # NoFee /\ x.done THEN x.asOf ELSE 0
                  /\ f.asOf # 0 => f.marked
FeeInv ==
  /\ fee \in [Orders -> [asOf : Nat, marked : BOOLEAN]]
  /\ \A o \in Orders : feeRecords[o] # NoFee => feeRecords[o] \in FeePages(o)
  /\ \A i \in DOMAIN stream["reply"] :
       stream["reply"][i].kind = "fee" /\ Done("reply", i) =>
         \E f \in {feeRecords[stream["reply"][i].items[1].o]} : f # NoFee /\ ~ Replaces(f, FeePage(i))
  /\ scenario.drafted => \A o \in Orders : rows[o] # NoRow
  /\ scenario.drafted /\ ~ Queried("page") => \A o \in Orders : FeeShown(fee[o], feeRecords[o])

FeeRecord == [asOf : Nat, done : BOOLEAN]

(* Lemma: the record that stands is at least as good as either.            *)
LEMMA EffectiveStands ==
  ASSUME NEW old \in FeeRecord \cup {NoFee}, NEW new \in FeeRecord,
         NEW e, e = Effective(old, new)
  PROVE  /\ e \in FeeRecord /\ e # NoFee /\ e \in {old, new} /\ ~ Replaces(e, new)
         /\ \A x \in FeeRecord : old # NoFee /\ ~ Replaces(old, x) => ~ Replaces(e, x)
         /\ old # NoFee /\ old.done => e.done
<1>1. NoFee \notin FeeRecord
  BY SyncAssumption DEF FeeRecord
<1>2. CASE old = NoFee
  <2>1. e = new
    BY <1>2 DEF Effective
  <2> QED BY <1>1, <1>2, <2>1 DEF Replaces, FeeRecord
<1>3. CASE old # NoFee
  <2>1. old \in FeeRecord /\ e = IF Replaces(old, new) THEN new ELSE old
    BY <1>3 DEF Effective, Replaces
  <2>2. \A x \in FeeRecord : Replaces(old, new) /\ Replaces(new, x) => Replaces(old, x)
    BY <2>1 DEF Replaces, FeeRecord
  <2>3. ~ Replaces(new, new) /\ (Replaces(old, new) /\ old.done => new.done)
    BY <2>1 DEF Replaces, FeeRecord
  <2> QED BY <1>1, <2>1, <2>2, <2>3
<1> QED BY <1>2, <1>3

(* Lemma: records and fees are left alone, and no fee page is done with.   *)
LEMMA FeesKept ==
  ASSUME IndInv, FeeInv, UNCHANGED gateway, feeRecords' = feeRecords,
         fee' \in [Orders -> [asOf : Nat, marked : BOOLEAN]],
         \A o \in Orders : rows[o] # NoRow => rows'[o] # NoRow,
         ~ Queried("page") => \A o \in Orders :
           fee[o].asOf # 0 /\ fee[o].marked => fee'[o].asOf = fee[o].asOf /\ fee'[o].marked,
         ~ Queried("page") => \A o \in Orders : fee[o].asOf = 0 => fee'[o].asOf = 0,
         \A i \in DOMAIN stream["reply"] :
           stream["reply"][i].kind = "fee" /\ Done("reply", i)' => Done("reply", i)
  PROVE  FeeInv'
<1>1. stream' = stream /\ scenario' = scenario
  BY DEF gateway
<1>2. (\A o \in Orders : feeRecords[o] # NoFee => feeRecords[o] \in FeePages(o))'
  BY <1>1 DEF FeeInv, FeePages
<1>3. (\A i \in DOMAIN stream["reply"] :
         stream["reply"][i].kind = "fee" /\ Done("reply", i) =>
           \E f \in {feeRecords[stream["reply"][i].items[1].o]} : f # NoFee /\ ~ Replaces(f, FeePage(i)))'
  BY <1>1 DEF FeeInv, FeePage
<1>4. (scenario.drafted => \A o \in Orders : rows[o] # NoRow)'
  BY <1>1 DEF FeeInv
<1>5. ASSUME scenario.drafted, ~ Queried("page"), NEW o \in Orders PROVE FeeShown(fee[o], feeRecords[o])'
  <2>1. FeeShown(fee[o], feeRecords[o])
    BY <1>5 DEF FeeInv
  <2>2. fee'[o].asOf = fee[o].asOf /\ (fee[o].asOf # 0 => fee'[o].marked)
    BY <1>5, <2>1 DEF FeeShown
  <2> QED BY <2>1, <2>2 DEF FeeShown
<1>6. Queried("page")' = Queried("page")
  BY <1>1 DEF Queried
<1> QED BY <1>1, <1>2, <1>3, <1>4, <1>5, <1>6 DEF FeeInv

LEMMA QuietFees ==
  ASSUME IndInv, FeeInv, Quiet, UNCHANGED <<gateway, orderTables, feeRecords, skipped>>
  PROVE  FeeInv'
<1>1. /\ UNCHANGED gateway /\ feeRecords' = feeRecords /\ fee' = fee /\ rows' = rows
      /\ skipped' = skipped
  BY DEF orderTables
<1>2. \A i \in DOMAIN stream["reply"] : Done("reply", i)' => Done("reply", i)
  BY <1>1 DEF Quiet, Done, RoleSet
<1>3. fee' \in [Orders -> [asOf : Nat, marked : BOOLEAN]]
  BY <1>1 DEF FeeInv
<1> QED BY <1>1, <1>2, <1>3, FeesKept

(* Lemma: the statements that are not about a fee page.                    *)
LEMMA StepFees ==
  ASSUME IndInv, FeeInv, NEW p \in Processes, at[p].pc \in Statements,
         UNCHANGED gateway, UNCHANGED <<stream, cursor, hi, ckpt>>, feeRecords' = feeRecords,
         fee' \in [Orders -> [asOf : Nat, marked : BOOLEAN]],
         \A o \in Orders : rows[o] # NoRow => rows'[o] # NoRow,
         ~ Queried("page") => \A o \in Orders :
           fee[o].asOf # 0 /\ fee[o].marked => fee'[o].asOf = fee[o].asOf /\ fee'[o].marked,
         ~ Queried("page") => \A o \in Orders : fee[o].asOf = 0 => fee'[o].asOf = 0,
         \/ \E l \in Statements : Go(p, l) /\ skipped' = skipped
         \/ EndEntry(p, FALSE)
         \/ EndEntry(p, TRUE) /\ Refused(Current(p))
         \/ at[p].pc \notin {"archive", "fee"} /\ NextItem(p)
  PROVE  FeeInv'
<1>1. ASSUME NEW i \in DOMAIN stream["reply"], stream["reply"][i].kind = "fee", Done("reply", i)'
      PROVE  Done("reply", i)
  <2>1. EntryOf(p) = <<"reply", i>> => Current(p) = stream["reply"][i]
    BY DEF EntryOf, Current
  <2>2. at[p].pc # "archive" => at[p].pc \in StatementsOf(Current(p), at[p].item)
    BY DEF IndInv, PlaceInv, InEntry
  <2>3. EntryOf(p) = <<"reply", i>> =>
          ~ Refused(Current(p)) /\ (at[p].pc # "archive" => at[p].pc = "fee")
    BY <1>1, <2>1, <2>2 DEF Refused, DecodeEntry, StatementsOf, Trades
  <2>4. "reply" \in RoleSet
    BY DEF RoleSet
  <2>5. Done("reply", i) \/ (<<"reply", i>> = EntryOf(p) /\ EndEntry(p, TRUE))
    BY <1>1, <2>4, DoneMoves
  <2>6. CASE EndEntry(p, FALSE)
    <3>1. skipped' = skipped \cup {EntryOf(p)}
      BY <2>6 DEF EndEntry
    <3> QED BY <1>1, <2>5, <3>1 DEF Done
  <2>7. ASSUME NEW l \in Statements, Go(p, l), skipped' = skipped PROVE Done("reply", i)
    <3>1. PICK x \in Place : /\ at' = [at EXCEPT ![p] = x] /\ at'[p] = x
                             /\ x.pc = l /\ x.role = at[p].role
                             /\ x.idx = at[p].idx /\ x.item = at[p].item
      BY <2>7, Goes DEF IndInv
    <3>2. \A q \in Processes : q # p => at'[q] = at[q]
      BY <3>1 DEF IndInv, PlaceInv
    <3>3. "worker" \in Processes /\ "report" \notin Statements
      BY DEF Processes, Statements
    <3>4. Worked("reply", i)' => Worked("reply", i)
      BY <3>1, <3>2, <3>3 DEF Worked
    <3> QED BY <1>1, <2>7, <3>4 DEF Done
  <2> QED BY <2>3, <2>5, <2>6, <2>7
<1> QED BY <1>1, FeesKept

(* Lemma: the gateway adds pages, which nobody has worked off.             *)
LEMMA GatewayFees ==
  ASSUME IndInv, KnownInv, FeeInv, Broker
  PROVE  FeeInv'
<1>1. MovesOn /\ Between
  BY GatewayKnown DEF MovesOn
<1>2. UNCHANGED <<scenario, fee, feeRecords, rows, at, cursor, hi, ckpt, skipped>>
  BY <1>1 DEF Between, db, orderTables, otherTables, worker
<1>3. /\ \A i \in DOMAIN stream["reply"] :
           i \in DOMAIN stream'["reply"] /\ stream'["reply"][i] = stream["reply"][i]
      /\ \A i \in DOMAIN stream'["reply"] :
           i \in DOMAIN stream["reply"] \/ i > Len(stream["reply"])
  BY <1>1 DEF MovesOn, RoleSet
<1>4. ASSUME NEW o \in Orders PROVE FeePages(o) \subseteq FeePages(o)'
  BY <1>3 DEF FeePages
<1>5. (\A o \in Orders : feeRecords[o] # NoFee => feeRecords[o] \in FeePages(o))'
  BY <1>2, <1>4 DEF FeeInv
<1>6. ASSUME NEW i \in DOMAIN stream'["reply"], stream'["reply"][i].kind = "fee", Done("reply", i)'
      PROVE  \E f \in {feeRecords'[stream'["reply"][i].items[1].o]} :
               f # NoFee /\ ~ Replaces(f, FeePage(i)')
  <2>1. Done("reply", i)
    BY <1>2, <1>6 DEF Done, Worked
  <2>2. i \in DOMAIN stream["reply"]
    <3>1. "reply" \in RoleSet
      BY DEF RoleSet
    <3>2. i <= ckpt["reply"] \/ i <= cursor["reply"]
      <4>1. at["worker"].pc \notin Statements /\ at["worker"].pc # "report"
        BY <1>1 DEF Between, Statements
      <4> QED BY <2>1, <4>1 DEF Done, Worked
    <3>3. PICK n \in Nat : n = Len(stream["reply"]) /\ ckpt["reply"] <= n /\ cursor["reply"] <= n
      BY <3>1, Cursors
    <3>4. ckpt["reply"] \in Nat /\ cursor["reply"] \in Nat
      BY <3>1, Cursors
    <3>5. i \in Nat
      <4>1. StreamInv'
        BY GatewayWritesInv DEF IndInv
      <4>2. DOMAIN stream'["reply"] = 1 .. Len(stream'["reply"])
        BY <3>1, <4>1, LenProperties DEF StreamInv
      <4> QED BY <1>6, <4>2
    <3> QED BY <1>3, <3>2, <3>3, <3>4, <3>5
  <2>3. PICK e : e = stream["reply"][i] /\ e = stream'["reply"][i]
    BY <1>3, <2>2
  <2>4. \E f \in {feeRecords[e.items[1].o]} : f # NoFee /\ ~ Replaces(f, feeRecordFromPayload(e.items[1]))
    BY <1>6, <2>1, <2>2, <2>3 DEF FeeInv, FeePage
  <2> QED BY <1>2, <2>3, <2>4 DEF FeePage
<1>7. Queried("page") => Queried("page")'
  BY <1>3 DEF Queried
<1>8. (scenario.drafted => \A o \in Orders : rows[o] # NoRow)'
      /\ fee' \in [Orders -> [asOf : Nat, marked : BOOLEAN]]
  BY <1>2 DEF FeeInv
<1>9. (scenario.drafted /\ ~ Queried("page") => \A o \in Orders : FeeShown(fee[o], feeRecords[o]))'
  BY <1>2, <1>7 DEF FeeInv, FeeShown
<1> QED BY <1>5, <1>6, <1>8, <1>9 DEF FeeInv

(* Lemma: the statements that touch neither rows nor records.              *)
LEMMA OtherFees ==
  ASSUME IndInv, FeeInv, NEW p \in Processes,
         \/ p = "worker" /\ ArchiveRawStreamMessage
         \/ AppendOrderEvent(p) \/ InsertFill(p) \/ DeleteSummaryFills(p)
         \/ InsertComponentTransfer(p) \/ StatementFails(p)
         \/ p = "worker" /\ UpsertOrderCancelAttempt
         \/ p = "worker" /\ SynthesizeSummaryFill
  PROVE  FeeInv'
<1>1. at[p].pc \in Statements /\ UNCHANGED gateway /\ UNCHANGED <<stream, cursor, hi, ckpt>>
  BY DEF ArchiveRawStreamMessage, AppendOrderEvent, InsertFill, DeleteSummaryFills, InsertComponentTransfer,
         StatementFails, UpsertOrderCancelAttempt, SynthesizeSummaryFill,
         IsAt, Statements, Statement, worker, gateway
<1>2. feeRecords' = feeRecords /\ fee' = fee /\ rows' = rows
  BY DEF ArchiveRawStreamMessage, AppendOrderEvent, InsertFill, DeleteSummaryFills, InsertComponentTransfer,
         StatementFails, UpsertOrderCancelAttempt, SynthesizeSummaryFill, GiveUp, orderTables, otherTables
<1>3. \/ \E l \in Statements : Go(p, l) /\ skipped' = skipped
      \/ EndEntry(p, FALSE)
      \/ EndEntry(p, TRUE) /\ Refused(Current(p))
      \/ at[p].pc \notin {"archive", "fee"} /\ NextItem(p)
  <2>1. CASE p = "worker" /\ ArchiveRawStreamMessage
    <3>1. CASE Refused(Current("worker"))
      BY <2>1, <3>1 DEF ArchiveRawStreamMessage
    <3>2. CASE ~ Refused(Current("worker"))
      <4>1. PICK e : e = Current(p) /\ EntryOK(e)
        BY <1>1, Here
      <4>2. Go("worker", FirstStatement(e, 1)) /\ skipped' = skipped
        BY <2>1, <3>2, <4>1 DEF ArchiveRawStreamMessage
      <4>3. FirstStatement(e, 1) \in Statements
        <5>1. 1 \in DOMAIN e.items
          BY <2>1, <3>2, <4>1 DEF EntryOK, Refused, DecodeEntry
        <5> QED BY <2>1, <3>2, <4>1, <5>1, FirstOf, Zenon
      <4> QED BY <2>1, <4>2, <4>3
    <3> QED BY <3>1, <3>2
  <2>2. CASE AppendOrderEvent(p) \/ DeleteSummaryFills(p) \/ InsertComponentTransfer(p)
    BY <2>2 DEF AppendOrderEvent, DeleteSummaryFills, InsertComponentTransfer, IsAt
  <2>3. CASE InsertFill(p)
    BY <2>3 DEF InsertFill, GiveUp, Statements
  <2>4. CASE StatementFails(p)
    BY <2>4 DEF StatementFails, GiveUp
  <2>5. CASE p = "worker" /\ UpsertOrderCancelAttempt
    BY <2>5 DEF UpsertOrderCancelAttempt, IsAt
  <2>6. CASE p = "worker" /\ SynthesizeSummaryFill
    BY <2>6 DEF SynthesizeSummaryFill, IsAt, Statements
  <2> QED BY <2>1, <2>2, <2>3, <2>4, <2>5, <2>6
<1>4. fee' \in [Orders -> [asOf : Nat, marked : BOOLEAN]]
  BY <1>2 DEF FeeInv
<1> QED BY <1>1, <1>2, <1>3, <1>4, StepFees

(* Lemma: a report leaves the fee of a record where it is.                 *)
LEMMA WriteFees ==
  ASSUME IndInv, KnownInv, FeeInv, NEW p \in Processes, WriteOrder(p)
  PROVE  FeeInv'
<1>1. /\ at[p].pc = "order" /\ at[p].pc \in Statements /\ InEntry(p)
      /\ UNCHANGED gateway /\ UNCHANGED <<stream, cursor, hi, ckpt>>
  BY DEF WriteOrder, IsAt, Statements, Statement, worker, gateway, IndInv, PlaceInv
<1>2. PICK r \in RoleSet, i \in Nat, k \in Nat \ {0} :
        /\ r = at[p].role /\ i = at[p].idx /\ k = at[p].item
        /\ i \in DOMAIN stream[r] /\ <<r, i>> = EntryOf(p)
  BY <1>1, Here
<1>3. PICK e : e = Current(p) /\ e = stream[r][i] /\ EntryOK(e)
  BY <1>1, <1>2, Here
<1>4. k \in DOMAIN e.items /\ ~ Refused(e) /\ e.items[k].o \in Orders
  BY <1>1, <1>2, <1>3 DEF InEntry, EntryOK
<1>5. PICK o \in Orders : o = Item(p).o
  BY <1>2, <1>3, <1>4 DEF Item
<1>51. PICK rep : rep = Item(p).rep
  OBVIOUS
<1>6. PICK new : new = OrderWritten(e.kind, rows[o], rep, toOrder(rep))
  OBVIOUS
<1>7. ~ Queried("page") => e.kind # "page"
  <2> SUFFICES ASSUME e.kind = "page" PROVE Queried("page")
    OBVIOUS
  <2>1. EntryKnown(r, e)
    BY <1>2, <1>3 DEF KnownInv
  <2>2. r = "reply"
    BY <2>1 DEF EntryKnown, RoleSet
  <2> QED BY <1>2, <1>3, <1>4, <2>2 DEF Queried
<1>8. CASE new = NoRow
  <2>1. GiveUp(p)
    BY <1>3, <1>5, <1>51, <1>6, <1>8 DEF WriteOrder
  <2>2. feeRecords' = feeRecords /\ fee' = fee /\ rows' = rows /\ EndEntry(p, FALSE)
    BY <2>1 DEF GiveUp, orderTables, otherTables
  <2>3. fee' \in [Orders -> [asOf : Nat, marked : BOOLEAN]]
    BY <2>2 DEF FeeInv
  <2> QED BY <1>1, <2>2, <2>3, StepFees
<1>9. CASE new # NoRow
  <2>1. /\ rows' = [rows EXCEPT ![o] = new]
        /\ fee' = [fee EXCEPT ![o] = FeeWritten(e.kind, rep, fee[o])]
        /\ \/ Go(p, "summary") /\ skipped' = skipped
           \/ Go(p, "append") /\ skipped' = skipped
           \/ NextItem(p)
        /\ feeRecords' = feeRecords
    BY <1>3, <1>5, <1>51, <1>6, <1>9 DEF WriteOrder, otherTables
  <2>2. \/ \E l \in Statements : Go(p, l) /\ skipped' = skipped
        \/ at[p].pc \notin {"archive", "fee"} /\ NextItem(p)
    BY <1>1, <2>1 DEF Statements
  <2>3. PICK f \in [asOf : Nat, marked : BOOLEAN] : f = fee[o]
    BY DEF FeeInv
  <2>4. PICK g : g = FeeWritten(e.kind, rep, f)
    OBVIOUS
  <2>5. /\ g \in [asOf : Nat, marked : BOOLEAN]
        /\ e.kind # "page" => /\ f.asOf # 0 /\ f.marked => g.asOf = f.asOf /\ g.marked
                              /\ f.asOf = 0 => g.asOf = 0
    BY <2>4 DEF FeeWritten, NoFeeYet
  <2>6. \A z \in Orders : fee'[z] = IF z = o THEN g ELSE fee[z]
    BY <2>1, <2>3, <2>4 DEF FeeInv
  <2>7. fee' \in [Orders -> [asOf : Nat, marked : BOOLEAN]]
    BY <2>1, <2>3, <2>4, <2>5 DEF FeeInv
  <2>8. ~ Queried("page") => \A z \in Orders :
          /\ fee[z].asOf # 0 /\ fee[z].marked => fee'[z].asOf = fee[z].asOf /\ fee'[z].marked
          /\ fee[z].asOf = 0 => fee'[z].asOf = 0
    BY <1>7, <2>3, <2>5, <2>6
  <2>9. \A z \in Orders : rows[z] # NoRow => rows'[z] # NoRow
    <3>1. \A z \in Orders : rows'[z] = IF z = o THEN new ELSE rows[z]
      BY <2>1 DEF IndInv, TablesInv, RowsOK
    <3> QED BY <1>9, <3>1
  <2> QED BY <1>1, <2>1, <2>2, <2>7, <2>8, <2>9, StepFees
<1> QED BY <1>8, <1>9

(* Lemma: a fee page leaves the record that stands.                        *)
LEMMA RecordFees ==
  ASSUME IndInv, KnownInv, FeeInv, UpsertOrderFeeRecord
  PROVE  FeeInv'
<1> DEFINE p == "worker"
<1>1. /\ p \in Processes /\ at[p].pc = "fee" /\ at[p].pc \in Statements /\ InEntry(p)
      /\ at[p].pc # "archive"
      /\ UNCHANGED gateway /\ UNCHANGED <<stream, pages, scenario, cursor, hi, ckpt>>
  BY DEF UpsertOrderFeeRecord, IsAt, Statements, Statement, worker, gateway, IndInv, PlaceInv, Processes
<1>2. PICK r \in RoleSet, i \in Nat, k \in Nat \ {0} :
        /\ r = at[p].role /\ i = at[p].idx /\ k = at[p].item
        /\ i \in DOMAIN stream[r] /\ <<r, i>> = EntryOf(p)
  BY <1>1, Here
<1>3. PICK e : e = Current(p) /\ e = stream[r][i] /\ EntryOK(e)
  BY <1>1, <1>2, Here
<1>4. /\ k \in DOMAIN e.items /\ e.kind = "fee" /\ k = 1 /\ e.items[1].o \in Orders
      /\ e.items[1].asOf \in 1 .. pages /\ e.items[1].done \in BOOLEAN /\ pages \in Nat
  <2>1. k \in DOMAIN e.items /\ e.kind = "fee"
    BY <1>1, <1>2, <1>3 DEF InEntry, StatementsOf, EntryOK, Kinds, Reports, Trades
  <2> QED BY <1>3, <2>1 DEF EntryOK, Trades, IndInv, BrokerInv
<1>5. PICK o \in Orders, x \in FeeRecord : o = e.items[1].o /\ x = feeRecordFromPayload(e.items[1])
  <2>1. [asOf |-> e.items[1].asOf, done |-> e.items[1].done] \in FeeRecord
    BY <1>4 DEF FeeRecord
  <2> QED BY <1>4, <2>1 DEF feeRecordFromPayload
<1>6. PICK old : old = feeRecords[o]
  OBVIOUS
<1>7. PICK v : v = Effective(old, x)
  OBVIOUS
<1>8. old \in FeeRecord \cup {NoFee}
  BY <1>4, <1>6 DEF IndInv, TablesInv, RecordsOK, OrderFeeRecord, FeeRecord
<1>9. /\ v \in FeeRecord /\ v # NoFee /\ v \in {old, x} /\ ~ Replaces(v, x)
      /\ \A y \in FeeRecord : old # NoFee /\ ~ Replaces(old, y) => ~ Replaces(v, y)
      /\ old # NoFee /\ old.done => v.done
  BY <1>7, <1>8, EffectiveStands
<1>10. /\ feeRecords' = [feeRecords EXCEPT ![o] = v] /\ rows' = rows
       /\ fee' = [fee EXCEPT ![o] = IF v.done /\ rows[o] # NoRow
                                    THEN [asOf |-> v.asOf, marked |-> TRUE] ELSE fee[o]]
       /\ NextItem(p)
  <2>1. Item(p) = e.items[1]
    BY <1>2, <1>3, <1>4 DEF Item
  <2>2. Item(p).o = o /\ feeRecordFromPayload(Item(p)) = x /\ Effective(feeRecords[o], x) = v
    BY <1>5, <1>6, <1>7, <2>1
  <2>3. NextItem(p) /\ rows' = rows
    BY DEF UpsertOrderFeeRecord
  <2>4. PICK z, y, w :
          /\ z = Item(p).o /\ y = feeRecordFromPayload(Item(p)) /\ w = Effective(feeRecords[z], y)
          /\ feeRecords' = [feeRecords EXCEPT ![z] = w]
          /\ fee' = [fee EXCEPT ![z] = IF w.done /\ rows[z] # NoRow
                                       THEN [asOf |-> w.asOf, marked |-> TRUE] ELSE fee[z]]
    BY DEF UpsertOrderFeeRecord
  <2>5. z = o /\ y = x /\ w = v
    BY <2>2, <2>4
  <2> QED BY <2>3, <2>4, <2>5, Zenon
<1>11. \A z \in Orders : feeRecords'[z] = IF z = o THEN v ELSE feeRecords[z]
  BY <1>10 DEF IndInv, TablesInv, RecordsOK
<1>12. PICK g : g = IF v.done /\ rows[o] # NoRow THEN [asOf |-> v.asOf, marked |-> TRUE] ELSE fee[o]
  OBVIOUS
<1>13. /\ g \in [asOf : Nat, marked : BOOLEAN]
       /\ \A z \in Orders : fee'[z] = IF z = o THEN g ELSE fee[z]
       /\ fee' \in [Orders -> [asOf : Nat, marked : BOOLEAN]]
  <2>1. fee \in [Orders -> [asOf : Nat, marked : BOOLEAN]]
    BY DEF FeeInv
  <2>2. g \in [asOf : Nat, marked : BOOLEAN]
    BY <1>9, <1>12, <2>1 DEF FeeRecord
  <2>3. fee' = [fee EXCEPT ![o] = g]
    BY <1>10, <1>12
  <2> QED BY <2>1, <2>2, <2>3
<1>14. r = "reply" /\ x \in FeePages(o) /\ x = FeePage(i)
  <2>1. EntryKnown(r, e)
    BY <1>2, <1>3 DEF KnownInv
  <2>2. r = "reply"
    BY <1>4, <2>1 DEF EntryKnown, RoleSet
  <2> QED BY <1>2, <1>3, <1>4, <1>5, <2>2 DEF FeePages, FeePage
<1>15. (\A z \in Orders : feeRecords[z] # NoFee => feeRecords[z] \in FeePages(z))'
  <2>1. \A z \in Orders : FeePages(z)' = FeePages(z)
    BY <1>1 DEF FeePages
  <2>2. v \in FeePages(o)
    BY <1>6, <1>9, <1>14 DEF FeeInv
  <2> QED BY <1>11, <2>1, <2>2 DEF FeeInv
<1>16. ASSUME NEW j \in DOMAIN stream["reply"], stream["reply"][j].kind = "fee", Done("reply", j)'
       PROVE  \E f \in {feeRecords'[stream["reply"][j].items[1].o]} : f # NoFee /\ ~ Replaces(f, FeePage(j))
  <2>1. PICK d : d = stream["reply"][j] /\ EntryOK(d)
    BY StreamLengths DEF IndInv, RoleSet
  <2>2. PICK z \in Orders, y \in FeeRecord :
          z = d.items[1].o /\ y = FeePage(j) /\ y = feeRecordFromPayload(d.items[1])
    <3>1. /\ d.items[1].o \in Orders /\ d.items[1].asOf \in 1 .. pages /\ d.items[1].done \in BOOLEAN
      BY <1>16, <2>1 DEF EntryOK, Trades
    <3>2. [asOf |-> d.items[1].asOf, done |-> d.items[1].done] \in FeeRecord
      BY <1>4, <3>1 DEF FeeRecord
    <3> QED BY <2>1, <3>1, <3>2 DEF FeePage, feeRecordFromPayload
  <2>3. CASE j = i
    <3>1. z = o /\ y = x
      BY <1>3, <1>5, <1>14, <2>1, <2>2, <2>3
    <3> QED BY <1>9, <1>11, <2>1, <2>2, <3>1
  <2>4. CASE j # i
    <3>1. Done("reply", j)
      <4>1. Done("reply", j) \/ <<"reply", j>> = EntryOf(p)
        BY <1>1, <1>10, <1>16, DoneMoves DEF RoleSet
      <4> QED BY <1>2, <1>14, <2>4, <4>1
    <3>2. feeRecords[z] # NoFee /\ ~ Replaces(feeRecords[z], y)
      BY <1>16, <2>1, <2>2, <3>1 DEF FeeInv
    <3> QED BY <1>6, <1>9, <1>11, <2>1, <2>2, <3>2
  <2> QED BY <2>3, <2>4
<1>17. ASSUME scenario.drafted, ~ Queried("page"), NEW z \in Orders PROVE FeeShown(fee[z], feeRecords[z])'
  <2>1. FeeShown(fee[z], feeRecords[z]) /\ rows[o] # NoRow
    BY <1>17 DEF FeeInv
  <2>2. CASE z = o
    <3>1. v.done => g.asOf = v.asOf /\ g.marked
      BY <1>12, <2>1
    <3>2. ~ v.done => g = fee[o] /\ (old = NoFee \/ ~ old.done)
      BY <1>9, <1>12
    <3>3. ~ v.done => g.asOf = 0
      BY <1>6, <2>1, <2>2, <3>2 DEF FeeShown
    <3>4. FeeShown(g, v)
      BY <1>9, <3>1, <3>3 DEF FeeShown
    <3> QED BY <1>11, <1>13, <2>2, <3>4 DEF FeeShown
  <2>3. CASE z # o
    BY <1>11, <1>13, <2>1, <2>3 DEF FeeShown
  <2> QED BY <2>2, <2>3
<1>18. Queried("page")' = Queried("page")
  BY <1>1 DEF Queried
<1>19. (scenario.drafted => \A z \in Orders : rows[z] # NoRow)'
  BY <1>1, <1>10 DEF FeeInv
<1>20. \A j : FeePage(j)' = FeePage(j)
  BY <1>1 DEF FeePage
<1> QED BY <1>1, <1>13, <1>15, <1>16, <1>17, <1>18, <1>19, <1>20 DEF FeeInv

LEMMA FeesNext ==
  ASSUME IndInv, KnownInv, FeeInv, [Next]_vars
  PROVE  FeeInv'
<1>1. CASE Read \/ SaveCheckpoint \/ SaveCheckpointFails
  <2>1. Quiet
    BY <1>1, ReadInv, CheckpointInv
  <2>2. UNCHANGED <<gateway, orderTables, feeRecords, skipped>>
    BY <1>1 DEF Read, SaveCheckpoint, SaveCheckpointFails, Advance, db, otherTables
  <2> QED BY <2>1, <2>2, QuietFees
<1>2. CASE Crash \/ \E unread \in SUBSET RoleSet : Restart(unread)
  <2>1. Quiet
    BY <1>2, CrashInv, RestartInv
  <2>2. UNCHANGED <<gateway, orderTables, feeRecords, skipped>>
    BY <1>2 DEF Crash, Restart, db, otherTables
  <2> QED BY <2>1, <2>2, QuietFees
<1>3. CASE StartReplay \/ ReplayNext \/ ReplayStops
  <2>1. Quiet
    BY <1>3, StartReplayInv, ReplayNextInv, ReplayStopsInv
  <2>2. UNCHANGED <<gateway, orderTables, feeRecords, skipped>>
    BY <1>3 DEF StartReplay, ReplayNext, ReplayStops, db, otherTables
  <2> QED BY <2>1, <2>2, QuietFees
<1>4. CASE UNCHANGED vars
  <2>1. UNCHANGED <<gateway, orderTables, feeRecords, skipped>>
    BY <1>4 DEF vars, db, otherTables
  <2> QED BY <1>4, <2>1, StutterInv, QuietFees
<1>5. CASE ArchiveRawStreamMessage \/ UpsertOrderCancelAttempt \/ SynthesizeSummaryFill
  <2>1. "worker" \in Processes
    BY DEF Processes
  <2> QED BY <1>5, <2>1, OtherFees
<1>6. CASE \E p \in Processes :
             \/ InsertFill(p) \/ DeleteSummaryFills(p) \/ InsertComponentTransfer(p)
             \/ AppendOrderEvent(p) \/ StatementFails(p)
  BY <1>6, OtherFees
<1>7. CASE \E p \in Processes : WriteOrder(p)
  BY <1>7, WriteFees
<1>8. CASE Broker
  BY <1>8, GatewayFees
<1>9. CASE UpsertOrderFeeRecord
  BY <1>9, RecordFees
<1> QED BY <1>1, <1>2, <1>3, <1>4, <1>5, <1>6, <1>7, <1>8, <1>9 DEF Next, Step

(* The invariant of the fees: a record is one of the pages of its order,   *)
(* no page that was worked off could replace it, and the row of a drafted  *)
(* order shows it.                                                         *)
THEOREM FeeInvHolds == Spec => []FeeInv
<1>1. Init => FeeInv
  <2> SUFFICES ASSUME Init PROVE FeeInv
    OBVIOUS
  <2>1. /\ fee = [o \in Orders |-> [asOf |-> 0, marked |-> FALSE]]
        /\ \A o \in Orders : feeRecords[o] = NoFee
    BY DEF Init, NoFeeYet
  <2>2. DOMAIN stream["reply"] = {}
    BY DEF Init, RoleSet
  <2>3. scenario.drafted => \A o \in Orders : rows[o] # NoRow
    BY SyncAssumption DEF Init
  <2>4. fee \in [Orders -> [asOf : Nat, marked : BOOLEAN]]
        /\ \A o \in Orders : fee[o].asOf = 0
    BY <2>1
  <2> QED BY <2>1, <2>2, <2>3, <2>4 DEF FeeInv, FeeShown
<1>2. IndInv /\ FillInv /\ FeeInv /\ [Next]_vars => FeeInv'
  BY FeesNext DEF FillInv
<1> QED BY <1>1, <1>2, IndInvHolds, FillInvHolds, PTL DEF Spec

(* However fee pages are repeated and whatever of them failed at first,    *)
(* once everything is applied no page is newer than the record of its order*)
(* and at least as complete; and the row of a drafted order shows the fee  *)
(* of a complete record in every state, whatever was written over the row. *)
THEOREM FeesAreSettled == Spec => []FeesSettled
<1>1. IndInv /\ FeeInv => FeesSettled
  <2> SUFFICES ASSUME IndInv, FeeInv PROVE FeesSettled
    OBVIOUS
  <2>1. ASSUME Applied, NEW o \in Orders, NEW x \in FeePages(o)
        PROVE  /\ feeRecords[o] \in FeePages(o)
               /\ x.asOf > feeRecords[o].asOf => feeRecords[o].done /\ ~ x.done
    <3>1. PICK i \in DOMAIN stream["reply"] :
            /\ stream["reply"][i].kind = "fee" /\ stream["reply"][i].items[1].o = o
            /\ x = FeePage(i)
      BY <2>1 DEF FeePages, FeePage
    <3>2. Done("reply", i)
      BY <2>1, AllDone DEF RoleSet
    <3>3. feeRecords[o] # NoFee /\ ~ Replaces(feeRecords[o], x)
      BY <3>1, <3>2 DEF FeeInv
    <3>4. feeRecords[o] \in FeePages(o)
      BY <3>3 DEF FeeInv
    <3> QED BY <3>3, <3>4 DEF Replaces
  <2>2. scenario.drafted /\ ~ Queried("page") =>
          \A o \in Orders : fee[o].asOf = IF feeRecords[o] # NoFee /\ feeRecords[o].done
                                          THEN feeRecords[o].asOf ELSE 0
    BY DEF FeeInv, FeeShown
  <2> QED BY <2>1, <2>2 DEF FeesSettled
<1> QED BY <1>1, IndInvHolds, FeeInvHolds, PTL

-----------------------------------------------------------------------------
(* What a report of an order says of it, once it has been parsed.          *)
ReportFields == {"st", "gw", "qty", "cum", "leaves", "canc", "term", "rej", "full"}
Told(a, b) ==
  /\ DOMAIN a = ReportFields
  /\ a.st = b.st /\ a.gw = (IF b.st = "partially_filled" THEN "working" ELSE b.st)
  /\ a.qty = Qty /\ a.cum = b.cum /\ a.leaves = (IF Terminal(b.st) THEN 0 ELSE Qty - b.cum)

(* Lemma: what is said of an order is left as it is.                       *)
LEMMA NormalRead ==
  ASSUME NEW b \in [st : BrokerStatus, cum : 0 .. Qty], OrderState(b), b.st # "new",
         NEW a, Told(a, b)
  PROVE  \E t \in {Normalized(a)} :
           Told(t, b) /\ t.term = Terminal(b.st) /\ t.canc = a.canc /\ t.rej = a.rej
<1> DEFINE x == NormalizeOrderExecutionState(a.st, a.gw, a.qty, a.cum, a.leaves)
           y == [a EXCEPT !.st = x.st, !.gw = x.gw, !.term = Terminal(x.st) \/ Terminal(x.gw)]
           t == WithFilledQty(y)
<1>0. Qty \in Nat \ {0}
  BY SyncAssumption
<1>1. /\ a.st = b.st /\ a.gw = (IF b.st = "partially_filled" THEN "working" ELSE b.st)
      /\ a.qty = Qty /\ a.cum = b.cum /\ a.leaves = (IF Terminal(b.st) THEN 0 ELSE Qty - b.cum)
      /\ DOMAIN a = ReportFields
  BY DEF Told
<1>2. x.st = b.st /\ x.gw = a.gw
  <2>1. b.st \in {"working", "partially_filled", "filled", "cancelled", "rejected"}
    BY DEF BrokerStatus, TerminalStatus
  <2>2. CASE b.st = "working"
    <3>1. b.cum = 0 /\ ~ (b.cum >= Qty) /\ ~ (b.cum > 0) /\ ~ Terminal(b.st)
      BY <1>0, <2>2 DEF OrderState, Terminal, TerminalStatus
    <3> QED BY <1>1, <2>2, <3>1 DEF NormalizeOrderExecutionState, QuantityComplete,
            Terminal, TerminalStatus, gatewayStatusForOrderStatus
  <2>3. CASE b.st = "partially_filled"
    <3>1. b.cum > 0 /\ Qty - b.cum > 0 /\ ~ (b.cum >= Qty) /\ ~ Terminal(b.st)
      BY <1>0, <2>3 DEF OrderState, Terminal, TerminalStatus
    <3> QED BY <1>1, <2>3, <3>1 DEF NormalizeOrderExecutionState, QuantityComplete,
            Terminal, TerminalStatus
  <2>4. CASE b.st = "filled"
    BY <1>0, <1>1, <2>4 DEF NormalizeOrderExecutionState, QuantityComplete, OrderState,
       Terminal, TerminalStatus, gatewayStatusForOrderStatus
  <2>5. CASE b.st \in {"cancelled", "rejected"}
    BY <1>0, <1>1, <2>5 DEF NormalizeOrderExecutionState, QuantityComplete, OrderState,
       Terminal, TerminalStatus, gatewayStatusForOrderStatus
  <2> QED BY <2>1, <2>2, <2>3, <2>4, <2>5
<1>3. Normalized(a) = t
  BY DEF Normalized
<1> HIDE DEF x
<1>4. /\ y.st = b.st /\ y.gw = a.gw /\ y.qty = Qty /\ y.cum = b.cum /\ y.leaves = a.leaves
      /\ y.canc = a.canc /\ y.term = (Terminal(b.st) \/ Terminal(a.gw)) /\ y.rej = a.rej
      /\ DOMAIN y = ReportFields
  BY <1>1, <1>2 DEF ReportFields
<1>5. y.term = Terminal(b.st)
  BY <1>1, <1>4 DEF Terminal, TerminalStatus
<1> HIDE DEF y
<1>6. CASE b.st = "filled"
  <2>1. t = [y EXCEPT !.cum = y.qty, !.leaves = 0]
    BY <1>4, <1>6 DEF WithFilledQty
  <2>2. a.leaves = 0 /\ b.cum = Qty
    BY <1>1, <1>6 DEF Terminal, TerminalStatus, OrderState
  <2>3. /\ t.st = b.st /\ t.gw = a.gw /\ t.qty = Qty /\ t.cum = b.cum /\ t.leaves = a.leaves
        /\ t.canc = a.canc /\ t.term = Terminal(b.st) /\ t.rej = a.rej /\ DOMAIN t = ReportFields
    BY <1>4, <1>5, <2>1, <2>2 DEF ReportFields
  <2> QED BY <1>1, <1>3, <2>3 DEF Told
<1>7. CASE b.st # "filled"
  <2>1. t = y
    BY <1>4, <1>7 DEF WithFilledQty
  <2> QED BY <1>1, <1>3, <1>4, <1>5, <2>1 DEF Told
<1> QED BY <1>6, <1>7

(* Lemma: a report of an order is read as it was meant.                    *)
LEMMA ReportTold ==
  ASSUME NEW rep \in OrderReport, NEW b \in [st : BrokerStatus, cum : 0 .. Qty],
         OrderState(b), b.st # "new", Says(rep, b)
  PROVE  \E t \in {toOrder(rep)} :
           Told(t, b) /\ t.term = Terminal(b.st) /\ t.canc = rep.canc /\ t.rej = rep.rej
<1>1. /\ rep.st = b.st /\ rep.gw = (IF b.st = "partially_filled" THEN "working" ELSE b.st)
      /\ rep.qty = Qty /\ rep.cum = b.cum
      /\ rep.leaves = (IF Terminal(b.st) THEN 0 ELSE Qty - b.cum)
  <2>1. PICK R : /\ R = Report(b) /\ rep.st = R.st /\ rep.gw = R.gw /\ rep.qty = R.qty
                 /\ rep.cum = R.cum /\ rep.leaves = R.leaves
    BY DEF Says
  <2>2. /\ R.st = b.st /\ R.gw = (IF b.st = "partially_filled" THEN "working" ELSE b.st)
        /\ R.qty = Qty /\ R.cum = b.cum /\ R.leaves = (IF Terminal(b.st) THEN 0 ELSE Qty - b.cum)
    BY <2>1 DEF Report
  <2> QED BY <2>1, <2>2
<1>2. PICK a : a = [rep EXCEPT !.gw = normalizePartialFillGatewayStatus(rep)]
  OBVIOUS
<1>3. Told(a, b) /\ a.canc = rep.canc /\ a.rej = rep.rej
  <2>1. normalizePartialFillGatewayStatus(rep) = rep.gw
    BY <1>1 DEF normalizePartialFillGatewayStatus
  <2> QED BY <1>1, <1>2, <2>1 DEF OrderReport, Told, ReportFields
<1>4. toOrder(rep) = Normalized(a)
  BY <1>2 DEF toOrder
<1> QED BY <1>3, <1>4, NormalRead

(* What the statements take from a report: x is read as the state b.       *)
Reads(x, b) == x.st = b.st /\ x.cum = b.cum /\ x.term = Terminal(b.st)

LEMMA ReportReads ==
  ASSUME NEW rep \in OrderReport, NEW b \in [st : BrokerStatus, cum : 0 .. Qty],
         OrderState(b), b.st # "new", Says(rep, b)
  PROVE  Reads(normalizeOrder(toOrder(rep)), b) /\ Reads(normalizeOrderEvent(toOrder(rep)), b)
<1>1. PICK t : t = toOrder(rep) /\ Told(t, b)
  BY ReportTold
<1>2. PICK n : n = Normalized(t) /\ Told(n, b) /\ n.term = Terminal(b.st)
  BY <1>1, NormalRead
<1>3. Reads(n, b)
  BY <1>2 DEF Reads, Told
<1>4. PICK m : m = normalizeOrder(t) /\ m = IF n.leaves = 0 /\ n.cum = 0 /\ n.canc = 0 /\ ~ n.term
                                           THEN [n EXCEPT !.leaves = n.qty] ELSE n
  BY <1>2 DEF normalizeOrder
<1>5. Reads(m, b)
  <2>1. m.st = n.st /\ m.cum = n.cum /\ m.term = n.term
    BY <1>2, <1>4 DEF Told, ReportFields
  <2> QED BY <1>3, <2>1 DEF Reads
<1> QED BY <1>1, <1>2, <1>3, <1>4, <1>5 DEF normalizeOrderEvent

(* Lemma: a rejection is read as one.                                      *)
LEMMA RejectionReads ==
  ASSUME NEW code, NEW b, b.st = "rejected", b.cum = 0
  PROVE  Reads(normalizeOrderEvent(RejectedOrder(code)), b)
<1>1. PICK a : a = RejectedOrder(code)
  OBVIOUS
<1>11. /\ a.st = "rejected" /\ a.gw = "rejected" /\ a.qty = 0 /\ a.cum = 0 /\ a.leaves = 0
       /\ DOMAIN a = ReportFields
  BY <1>1 DEF RejectedOrder, ReportFields
<1>2. PICK s : s = NormalizeOrderExecutionState(a.st, a.gw, a.qty, a.cum, a.leaves)
  OBVIOUS
<1>21. s.st = "rejected" /\ s.gw = "rejected"
  <2>1. Terminal("rejected") /\ "filled" \notin {"rejected"}
    BY DEF Terminal, TerminalStatus
  <2>2. s = [st |-> "rejected", gw |-> gatewayStatusForOrderStatus("rejected", "rejected")]
    BY <1>11, <1>2, <2>1 DEF NormalizeOrderExecutionState
  <2> QED BY <2>1, <2>2 DEF gatewayStatusForOrderStatus
<1>3. PICK y : y = [a EXCEPT !.st = s.st, !.gw = s.gw, !.term = Terminal(s.st) \/ Terminal(s.gw)]
  OBVIOUS
<1>31. y.st = "rejected" /\ y.cum = 0 /\ y.term = (Terminal(s.st) \/ Terminal(s.gw))
  BY <1>11, <1>21, <1>3 DEF ReportFields
<1>4. Normalized(a) = y
  BY <1>2, <1>3, <1>31 DEF Normalized, WithFilledQty
<1> QED BY <1>1, <1>21, <1>31, <1>4 DEF Reads, normalizeOrderEvent, Terminal, TerminalStatus

-----------------------------------------------------------------------------
(* Every row follows its order.                                            *)

(* What a row may show of the order c, what a step may make of it, and that*)
(* it shows at least what a report of the state b told.                    *)
Follows(row, c) ==
  /\ row.cum \in 0 .. c.cum /\ row.term \in BOOLEAN
  /\ row.term => Terminal(c.st) /\ row.st = c.st /\ row.cum = c.cum
  /\ ~ row.term => /\ row.st \in {"created", "working", "partially_filled"}
                   /\ row.st = "partially_filled" => c.cum > 0
Onward(old, new) == old.cum <= new.cum /\ (old.term => new.term) /\ new.st # "created"
Has(row, b) == row.cum >= b.cum /\ (Terminal(b.st) => row.term) /\ row.st # "created"

(* Lemma: a report, which may be an old one, is merged into a row.         *)
LEMMA Merged ==
  ASSUME NEW c \in [st : BrokerStatus, cum : 0 .. Qty], NEW b \in [st : BrokerStatus, cum : 0 .. Qty],
         OrderState(b), b.cum <= c.cum, Terminal(b.st) => b = c, b.st # "new",
         NEW x, Reads(x, b), NEW old, NEW m,
         \/ old = NoRow /\ m.st = x.st /\ m.cum = x.cum /\ m.term = x.term
         \/ /\ Follows(old, c)
            /\ m.st = IF old.term /\ ~ x.term THEN old.st ELSE x.st
            /\ m.cum = IF x.term THEN x.cum ELSE MaxOf(old.cum, x.cum)
            /\ m.term = (old.term \/ x.term)
  PROVE  /\ Follows(m, c) /\ Has(m, b) /\ (~ Terminal(c.st) => m.st = b.st)
         /\ old # NoRow => Onward(old, m)
<1>1. /\ Qty \in Nat \ {0} /\ b.cum \in 0 .. Qty /\ c.cum \in 0 .. Qty
      /\ x.st = b.st /\ x.cum = b.cum /\ x.term = Terminal(b.st)
      /\ Terminal(b.st) \in BOOLEAN /\ Terminal(c.st) \in BOOLEAN
  BY SyncAssumption DEF Reads, Terminal
<1>2. ~ Terminal(b.st) => /\ b.st \in {"working", "partially_filled"}
                          /\ b.st = "partially_filled" => b.cum > 0
  BY <1>1 DEF Terminal, TerminalStatus, BrokerStatus, OrderState
<1>3. b.st # "created" /\ (Terminal(c.st) => c.st # "created")
  BY DEF BrokerStatus, Terminal, TerminalStatus
<1>4. CASE old = NoRow /\ m.st = x.st /\ m.cum = x.cum /\ m.term = x.term
  BY <1>1, <1>2, <1>3, <1>4 DEF Follows, Has
<1>5. CASE /\ Follows(old, c)
           /\ m.st = IF old.term /\ ~ x.term THEN old.st ELSE x.st
           /\ m.cum = IF x.term THEN x.cum ELSE MaxOf(old.cum, x.cum)
           /\ m.term = (old.term \/ x.term)
  <2>1. old.cum \in 0 .. c.cum /\ old.term \in BOOLEAN
    BY <1>5 DEF Follows
  <2>2. CASE x.term
    <3>1. m.st = b.st /\ m.cum = b.cum /\ m.term = TRUE /\ b = c
      BY <1>1, <1>5, <2>2
    <3>2. Follows(m, c) /\ Has(m, b)
      <4>1. Terminal(c.st) /\ m.st = c.st /\ m.cum = c.cum /\ m.cum \in 0 .. c.cum
        <5>1. Terminal(b.st)
          BY <1>1, <2>2, Zenon
        <5> QED BY <1>1, <3>1, <5>1
      <4>2. m.term \in BOOLEAN /\ m.term
        BY <3>1
      <4>3. m.st # "created"
        BY <1>3, <3>1
      <4>4. m.cum >= b.cum
        BY <1>1, <3>1
      <4> QED BY <4>1, <4>2, <4>3, <4>4 DEF Follows, Has
    <3>3. Onward(old, m)
      BY <1>1, <1>3, <2>1, <3>1 DEF Onward
    <3> QED BY <2>2, <3>1, <3>2, <3>3, <1>1
  <2>3. CASE ~ x.term /\ old.term
    <3>1. m.cum = old.cum /\ old.cum = c.cum
      BY <1>1, <1>5, <2>1, <2>3 DEF Follows, MaxOf
    <3> QED BY <1>1, <1>3, <1>5, <2>1, <2>3, <3>1 DEF Follows, Has, Onward
  <2>4. CASE ~ x.term /\ ~ old.term
    <3>1. m.cum >= old.cum /\ m.cum >= b.cum /\ m.cum \in 0 .. c.cum
      BY <1>1, <1>5, <2>1, <2>4 DEF MaxOf
    <3> QED BY <1>1, <1>2, <1>3, <1>5, <2>1, <2>4, <3>1 DEF Follows, Has, Onward
  <2> QED BY <2>1, <2>2, <2>3, <2>4
<1> QED BY <1>4, <1>5

LEMMA OrderFollows ==
  ASSUME NEW c \in [st : BrokerStatus, cum : 0 .. Qty], NEW b \in [st : BrokerStatus, cum : 0 .. Qty],
         OrderState(b), b.cum <= c.cum, Terminal(b.st) => b = c, b.st # "new",
         NEW rep \in OrderReport, Says(rep, b), NEW kind \in {"order", "reject", "batch"},
         kind # "order" => b.st = "rejected",
         NEW old, old = NoRow \/ Follows(old, c),
         NEW new, new = OrderWritten(kind, old, rep, toOrder(rep)), new # NoRow
  PROVE  /\ Follows(new, c) /\ Has(new, b) /\ (~ Terminal(c.st) => new.st = b.st)
         /\ old # NoRow => Onward(old, new)
<1>1. ASSUME NEW x, Reads(x, b), new = Updated(old, x)
      PROVE  /\ Follows(new, c) /\ Has(new, b) /\ (~ Terminal(c.st) => new.st = b.st)
             /\ old # NoRow => Onward(old, new)
  <2>1. old # NoRow /\ Follows(old, c) /\ new = UpdateStatus(old, x)
    BY <1>1 DEF Updated
  <2>2. /\ new.st = IF old.term /\ ~ x.term THEN old.st ELSE x.st
        /\ new.cum = IF x.term THEN x.cum ELSE MaxOf(old.cum, x.cum)
        /\ new.term = (old.term \/ x.term)
    BY <2>1 DEF UpdateStatus
  <2> QED BY <1>1, <2>1, <2>2, Merged
<1>2. ASSUME NEW x, Reads(x, b), new = Upserted(old, x, UpsertEvent(old, x))
      PROVE  /\ Follows(new, c) /\ Has(new, b) /\ (~ Terminal(c.st) => new.st = b.st)
             /\ old # NoRow => Onward(old, new)
  <2>1. CASE old = NoRow
    <3>1. new = RowOf(x)
      BY <1>2, <2>1 DEF Upserted
    <3>2. new.st = x.st /\ new.cum = x.cum /\ new.term = x.term
      BY <3>1 DEF RowOf
    <3> QED BY <1>2, <2>1, <3>2, Merged
  <2>2. CASE old # NoRow
    <3>1. Follows(old, c) /\ new = UpsertEvent(old, x)
      BY <1>2, <2>2 DEF Upserted
    <3>2. /\ new.st = IF old.term /\ ~ x.term THEN old.st ELSE x.st
          /\ new.cum = IF x.term THEN x.cum ELSE MaxOf(old.cum, x.cum)
          /\ new.term = (old.term \/ x.term)
      BY <3>1 DEF UpsertEvent
    <3> QED BY <1>2, <2>2, <3>1, <3>2, Merged
  <2> QED BY <2>1, <2>2
<1>3. CASE kind # "order"
  <2>1. b.st = "rejected" /\ b.cum = 0
    BY <1>3 DEF OrderState
  <2>2. new = Updated(old, normalizeOrderEvent(RejectedOrder(rep.rej)))
    BY <1>3 DEF OrderWritten
  <2> QED BY <1>1, <2>1, <2>2, RejectionReads
<1>4. CASE kind = "order" /\ IsUpsert(kind, rep)
  <2>1. PICK x : x = normalizeOrder(toOrder(rep))
    OBVIOUS
  <2>2. new = Upserted(old, x, UpsertEvent(old, x))
    BY <1>4, <2>1 DEF OrderWritten
  <2> QED BY <1>2, <2>1, <2>2, ReportReads
<1>5. CASE kind = "order" /\ ~ IsUpsert(kind, rep)
  <2>1. new = Updated(old, normalizeOrderEvent(toOrder(rep)))
    BY <1>5 DEF OrderWritten
  <2> QED BY <1>1, <2>1, ReportReads
<1> QED BY <1>3, <1>4, <1>5

(* The row shows what a report has told of its order.                      *)
Written(e) ==
  \E o \in {e.items[1].o} : rows[o] # NoRow /\ Has(rows[o], StateOf(e.items[1].rep))
RowInv ==
  ~ Queried("page") =>
    /\ \A o \in Orders : rows[o] # NoRow => Follows(rows[o], broker[o])
    /\ \A r \in RoleSet : \A i \in DOMAIN stream[r] :
         IsReport(stream[r][i]) /\ Done(r, i) => Written(stream[r][i])
    /\ \A p \in Processes : at[p].pc \in {"summary", "append"} => Written(Current(p))

(* Lemma: where a process is in a report.                                  *)
LEMMA AtReport ==
  ASSUME IndInv, NEW p \in Processes, at[p].pc \in {"order", "summary", "append"}
  PROVE  EntryOK(Current(p)) /\ Current(p).kind \in Reports
<1>1. at[p].pc \in Statements /\ InEntry(p)
  BY DEF Statements, IndInv, PlaceInv
<1>2. EntryOK(Current(p))
  BY <1>1, Here
<1>3. at[p].pc \in StatementsOf(Current(p), at[p].item)
  BY <1>1 DEF InEntry
<1>4. Current(p).kind \in Kinds
  BY <1>2 DEF EntryOK
<1>5. Current(p).kind \in Reports
  BY <1>3, <1>4 DEF StatementsOf, Kinds, Reports, Trades
<1> QED BY <1>2, <1>5

(* Lemma: a report that is shown is shown by the rows that go on from it.  *)
LEMMA WrittenStays ==
  ASSUME IndInv, RowInv, ~ Queried("page"), NEW e, EntryOK(e), e.kind \in Reports, Written(e),
         \A o \in Orders : rows'[o] # NoRow => Follows(rows'[o], broker[o]),
         \A o \in Orders : rows[o] # NoRow =>
           rows'[o] # NoRow /\ (rows'[o] = rows[o] \/ Onward(rows[o], rows'[o]))
  PROVE  Written(e)'
<1>1. e.items[1].o \in Orders /\ e.items[1].rep \in OrderReport
  <2>1. 1 \in DOMAIN e.items
    BY DEF EntryOK, Reports
  <2> QED BY <2>1 DEF EntryOK
<1>2. PICK o \in Orders : o = e.items[1].o
  BY <1>1
<1>3. PICK b : b = StateOf(e.items[1].rep) /\ b.cum \in 0 .. Qty
  <2>1. PICK rep \in OrderReport : rep = e.items[1].rep
    BY <1>1
  <2>2. rep.cum \in 0 .. Qty
    BY DEF OrderReport
  <2>3. PICK b : b = StateOf(rep)
    OBVIOUS
  <2>4. b.cum \in 0 .. Qty
    BY <2>2, <2>3 DEF StateOf
  <2> QED BY <2>1, <2>3, <2>4
<1>4. PICK old, new : /\ old = rows[o] /\ new = rows'[o] /\ old # NoRow /\ Has(old, b)
                      /\ new # NoRow /\ (new = old \/ Onward(old, new))
                      /\ Follows(old, broker[o]) /\ Follows(new, broker[o])
  BY <1>2, <1>3 DEF Written, RowInv
<1>5. broker[o].cum \in 0 .. Qty /\ Qty \in Nat
  BY SyncAssumption DEF IndInv, BrokerInv
<1>6. Has(new, b)
  <2>1. old.cum \in Nat /\ new.cum \in Nat /\ b.cum \in Nat
    BY <1>3, <1>4, <1>5 DEF Follows
  <2> QED BY <1>4, <2>1 DEF Has, Onward
<1> QED BY <1>2, <1>3, <1>4, <1>6 DEF Written

(* Lemma: rows go on, and what is done with has been written.              *)
LEMMA RowsKept ==
  ASSUME IndInv, RowInv, UNCHANGED gateway,
         ~ Queried("page") =>
           /\ \A o \in Orders : rows'[o] # NoRow => Follows(rows'[o], broker[o])
           /\ \A o \in Orders : rows[o] # NoRow =>
                rows'[o] # NoRow /\ (rows'[o] = rows[o] \/ Onward(rows[o], rows'[o]))
           /\ \A r \in RoleSet : \A i \in DOMAIN stream[r] :
                IsReport(stream[r][i]) /\ Done(r, i)' => Done(r, i) \/ Written(stream[r][i])
           /\ \A p \in Processes : at'[p].pc \in {"summary", "append"} =>
                \E e \in {Current(p)'} :
                  Written(e)' \/ (e = Current(p) /\ at[p].pc \in {"summary", "append"})
  PROVE  RowInv'
<1>1. stream' = stream /\ broker' = broker
  BY DEF gateway
<1>2. Queried("page")' = Queried("page")
  BY <1>1 DEF Queried
<1> SUFFICES ASSUME ~ Queried("page")
             PROVE  /\ \A o \in Orders : rows'[o] # NoRow => Follows(rows'[o], broker[o])
                    /\ \A r \in RoleSet : \A i \in DOMAIN stream[r] :
                         IsReport(stream[r][i]) /\ Done(r, i)' => Written(stream[r][i])'
                    /\ \A p \in Processes : at'[p].pc \in {"summary", "append"} => Written(Current(p))'
  BY <1>1, <1>2 DEF RowInv
<1>3. ASSUME NEW r \in RoleSet, NEW i \in DOMAIN stream[r], IsReport(stream[r][i]), Done(r, i)'
      PROVE  Written(stream[r][i])'
  <2>1. PICK e : e = stream[r][i] /\ EntryOK(e)
    BY StreamLengths DEF IndInv
  <2>2. e.kind \in Reports
    BY <1>3, <2>1 DEF IsReport, Reports
  <2>3. Written(e)
    BY <1>3, <2>1 DEF RowInv
  <2>4. Written(e)'
    BY <2>1, <2>2, <2>3, WrittenStays
  <2> QED BY <1>1, <2>1, <2>4 DEF Written
<1>4. ASSUME NEW p \in Processes, at'[p].pc \in {"summary", "append"} PROVE Written(Current(p))'
  <2>1. PICK e : e = Current(p)' /\ (Written(e)' \/ (e = Current(p) /\ at[p].pc \in {"summary", "append"}))
    BY <1>4
  <2>2. CASE e = Current(p) /\ at[p].pc \in {"summary", "append"}
    <3>1. EntryOK(e) /\ e.kind \in Reports
      BY <2>2, AtReport
    <3>2. Written(e)
      BY <2>2 DEF RowInv
    <3>3. Written(e)'
      BY <3>1, <3>2, WrittenStays
    <3> QED BY <2>1, <3>3 DEF Written
  <2>3. CASE Written(e)'
    BY <2>1, <2>3 DEF Written
  <2> QED BY <2>1, <2>2, <2>3
<1> QED BY <1>3, <1>4

LEMMA QuietRows ==
  ASSUME IndInv, RowInv, Quiet, UNCHANGED <<gateway, rows, skipped>>
  PROVE  RowInv'
<1>1. stream' = stream /\ UNCHANGED gateway
  BY DEF gateway
<1>2. \A r \in RoleSet : \A i \in DOMAIN stream[r] : Done(r, i)' => Done(r, i)
  BY DEF Quiet, Done
<1>3. ASSUME NEW p \in Processes, at'[p].pc \in {"summary", "append"}
      PROVE  Current(p)' = Current(p) /\ at[p].pc \in {"summary", "append"}
  <2>1. at'[p].pc \in Statements /\ at'[p].pc \in {"summary", "append"}
    BY <1>3 DEF Statements
  <2>2. at'[p] = at[p]
    BY <2>1 DEF Quiet
  <2> QED BY <1>1, <1>3, <2>2 DEF Current
<1>4. ~ Queried("page") => \A o \in Orders : rows'[o] # NoRow => Follows(rows'[o], broker[o])
  BY DEF RowInv
<1> QED BY <1>1, <1>2, <1>3, <1>4, RowsKept

(* Lemma: no process comes to the later statements of a report but by      *)
(* those before.                                                           *)
LEMMA ItemBegins ==
  ASSUME IndInv, NEW p \in Processes, at[p].pc \in Statements, UNCHANGED <<stream, cursor, hi, ckpt>>,
         \/ EndEntry(p, FALSE) \/ EndEntry(p, TRUE)
         \/ at[p].pc # "archive" /\ NextItem(p),
         NEW q \in Processes, at'[q].pc \in {"summary", "append"}
  PROVE  at'[q] = at[q]
<1>1. DOMAIN at = Processes /\ PlaceInv
  BY Cursors DEF IndInv
<1>2. ASSUME NEW ok \in BOOLEAN, EndEntry(p, ok) PROVE at'[q] = at[q]
  <2>1. CASE p = "worker"
    <3>1. WorkerGoesOn
      BY <1>2, <2>1 DEF EndEntry
    <3>2. PICK x : at' = [at EXCEPT !["worker"] = x] /\ at'["worker"].pc \in {"archive", "report"}
      BY <2>1, <3>1, WorkerGoes
    <3> QED BY <1>1, <2>1, <3>2
  <2>2. CASE p = "replay"
    <3>1. at' = [at EXCEPT !["replay"] = [pc |-> "next", role |-> "reply", idx |-> 0, item |-> 1]]
      BY <1>2, <2>2 DEF EndEntry, At
    <3> QED BY <1>1, <2>2, <3>1
  <2> QED BY <2>1, <2>2 DEF Processes
<1>3. ASSUME at[p].pc # "archive", NextItem(p), at[p].item < Len(Current(p).items) PROVE at'[q] = at[q]
  <2>1. PICK r \in RoleSet, i \in Nat, m \in Nat \ {0} :
          r = at[p].role /\ i = at[p].idx /\ m = at[p].item
    BY Here
  <2>2. PICK e : e = Current(p) /\ EntryOK(e)
    BY Here
  <2>3. m + 1 \in DOMAIN e.items /\ ~ Refused(e)
    <3>1. m < Len(e.items) /\ Len(e.items) \in Nat /\ DOMAIN e.items = 1 .. Len(e.items)
      BY <1>3, <2>1, <2>2 DEF EntryOK
    <3>2. ~ Refused(e)
      BY <1>3, <2>2 DEF IndInv, PlaceInv, InEntry
    <3> QED BY <3>1, <3>2
  <2>4. PICK l : l = FirstStatement(e, m + 1) /\ l \notin {"summary", "append"}
    BY <2>2, <2>3, FirstOf, Zenon
  <2>5. PICK x : x = [pc |-> l, role |-> r, idx |-> i, item |-> m + 1] /\ at' = [at EXCEPT ![p] = x]
    BY <1>3, <2>1, <2>2, <2>4, Zenon DEF NextItem, At
  <2> QED BY <1>1, <2>4, <2>5
<1>4. NextItem(p) /\ ~ (at[p].item < Len(Current(p).items)) => EndEntry(p, TRUE)
  BY DEF NextItem
<1> QED BY <1>2, <1>3, <1>4

(* Lemma: within an entry nothing more is done with.                       *)
LEMMA GoDone ==
  ASSUME IndInv, NEW p \in Processes, at[p].pc \in Statements, UNCHANGED <<stream, cursor, hi, ckpt>>,
         NEW l \in Statements, Go(p, l), skipped' = skipped, NEW s, NEW j, Done(s, j)'
  PROVE  Done(s, j)
<1>1. PICK x \in Place : /\ at' = [at EXCEPT ![p] = x] /\ at'[p] = x
                         /\ x.pc = l /\ x.role = at[p].role
                         /\ x.idx = at[p].idx /\ x.item = at[p].item
  BY Goes DEF IndInv
<1>2. \A q \in Processes : q # p => at'[q] = at[q]
  BY <1>1 DEF IndInv, PlaceInv
<1>3. "worker" \in Processes /\ "report" \notin Statements
  BY DEF Processes, Statements
<1>4. Worked(s, j)' => Worked(s, j)
  BY <1>1, <1>2, <1>3 DEF Worked
<1> QED BY <1>4 DEF Done

(* Lemma: the statements that leave the rows alone.                        *)
LEMMA StepRows ==
  ASSUME IndInv, KnownInv, RowInv, NEW p \in Processes, at[p].pc \in Statements,
         UNCHANGED gateway, UNCHANGED <<stream, cursor, hi, ckpt>>, rows' = rows,
         \/ \E l \in Statements : /\ Go(p, l) /\ skipped' = skipped
                                  /\ l \in {"summary", "append"} => at[p].pc = "summary"
         \/ EndEntry(p, FALSE)
         \/ EndEntry(p, TRUE) /\ Refused(Current(p))
         \/ at[p].pc \notin {"archive", "order"} /\ NextItem(p)
  PROVE  RowInv'
<1>1. ASSUME NEW r \in RoleSet, NEW i \in DOMAIN stream[r], IsReport(stream[r][i]), Done(r, i)',
             ~ Queried("page")
      PROVE  Done(r, i) \/ Written(stream[r][i])
  <2>1. <<r, i>> = EntryOf(p) => Current(p) = stream[r][i]
    BY DEF EntryOf, Current
  <2>2. CASE \E l \in Statements : Go(p, l) /\ skipped' = skipped
    BY <1>1, <2>2, GoDone
  <2>3. CASE EndEntry(p, FALSE)
    <3>1. skipped' = skipped \cup {EntryOf(p)}
      BY <2>3 DEF EndEntry
    <3>2. Done(r, i) \/ <<r, i>> = EntryOf(p)
      BY <1>1, <2>3, DoneMoves
    <3> QED BY <1>1, <3>1, <3>2 DEF Done
  <2>4. CASE EndEntry(p, TRUE) /\ Refused(Current(p))
    <3>1. Done(r, i) \/ <<r, i>> = EntryOf(p)
      BY <1>1, <2>4, DoneMoves
    <3> QED BY <1>1, <2>1, <2>4, <3>1 DEF IsReport
  <2>5. CASE at[p].pc \notin {"archive", "order"} /\ NextItem(p)
    <3>1. Done(r, i) \/ <<r, i>> = EntryOf(p)
      BY <1>1, <2>5, DoneMoves
    <3>2. CASE <<r, i>> = EntryOf(p)
      <4>1. at[p].pc \in StatementsOf(Current(p), at[p].item)
        BY <2>5 DEF IndInv, PlaceInv, InEntry
      <4>2. PICK e, l, k : e = Current(p) /\ l = at[p].pc /\ k = at[p].item
        OBVIOUS
      <4>3. e.kind \in {"order", "reject", "batch"}
        BY <1>1, <2>1, <3>2, <4>2 DEF IsReport
      <4>4. l \in StatementsOf(e, k) /\ l # "order"
        BY <2>5, <4>1, <4>2
      <4>5. l \in {"summary", "append"}
        BY <4>3, <4>4 DEF StatementsOf, Trades, Reports
      <4> QED BY <1>1, <2>1, <3>2, <4>2, <4>5 DEF RowInv
    <3> QED BY <3>1, <3>2
  <2> QED BY <2>2, <2>3, <2>4, <2>5
<1>2. ASSUME NEW q \in Processes, at'[q].pc \in {"summary", "append"}
      PROVE  Current(q)' = Current(q) /\ at[q].pc \in {"summary", "append"}
  <2>1. CASE EndEntry(p, FALSE) \/ EndEntry(p, TRUE) \/ (at[p].pc # "archive" /\ NextItem(p))
    <3>1. at'[q] = at[q]
      BY <1>2, <2>1, ItemBegins
    <3> QED BY <1>2, <3>1 DEF Current
  <2>2. CASE \E l \in Statements : Go(p, l) /\ (l \in {"summary", "append"} => at[p].pc = "summary")
    <3>1. PICK l \in Statements : Go(p, l) /\ (l \in {"summary", "append"} => at[p].pc = "summary")
      BY <2>2
    <3>2. PICK x \in Place : /\ at' = [at EXCEPT ![p] = x] /\ at'[p] = x
                             /\ x.pc = l /\ x.role = at[p].role /\ x.idx = at[p].idx
      BY <3>1, Goes DEF IndInv
    <3>3. q # p => at'[q] = at[q]
      BY <3>2 DEF IndInv, PlaceInv
    <3> QED BY <1>2, <3>1, <3>2, <3>3 DEF Current
  <2> QED BY <2>1, <2>2
<1>3. ~ Queried("page") => \A o \in Orders : rows'[o] # NoRow => Follows(rows'[o], broker[o])
  BY DEF RowInv
<1> QED BY <1>1, <1>2, <1>3, RowsKept

(* Lemma: what a report makes of the row of its order.                     *)
LEMMA OrderWrites ==
  ASSUME IndInv, KnownInv, RowInv, ~ Queried("page"), NEW p \in Processes, WriteOrder(p), ~ GiveUp(p)
  PROVE  \E e, o, b, new :
           /\ e = Current(p) /\ EntryOK(e) /\ IsReport(e) /\ o = e.items[1].o /\ o \in Orders
           /\ b = StateOf(e.items[1].rep) /\ b \in [st : BrokerStatus, cum : 0 .. Qty] /\ Was(b, o)
           /\ Follows(new, broker[o]) /\ Has(new, b)
           /\ (~ Terminal(broker[o].st) => new.st = b.st)
           /\ new # NoRow /\ (rows[o] # NoRow => Onward(rows[o], new))
           /\ (\A z \in Orders : rows'[z] = IF z = o THEN new ELSE rows[z])
           /\ (\E l \in {"summary", "append"} : Go(p, l)) /\ skipped' = skipped
<1>1. at[p].pc = "order" /\ at[p].pc \in Statements /\ InEntry(p)
  BY DEF WriteOrder, IsAt, Statements, IndInv, PlaceInv
<1>2. PICK r \in RoleSet, i \in Nat, k \in Nat \ {0} :
        /\ r = at[p].role /\ i = at[p].idx /\ k = at[p].item /\ i \in DOMAIN stream[r]
  BY <1>1, Here
<1>3. PICK e : e = Current(p) /\ e = stream[r][i] /\ EntryOK(e)
  BY <1>1, <1>2, Here
<1>4. k \in DOMAIN e.items /\ ~ Refused(e) /\ "order" \in StatementsOf(e, k)
  BY <1>1, <1>2, <1>3 DEF InEntry
<1>5. EntryKnown(r, e)
  BY <1>2, <1>3 DEF KnownInv
<1>6. e.kind # "page"
  <2> SUFFICES ASSUME e.kind = "page" PROVE Queried("page")
    OBVIOUS
  <2>1. r = "reply"
    BY <1>5 DEF EntryKnown, RoleSet
  <2> QED BY <1>2, <1>3, <1>4, <2>1 DEF Queried
<1>7. e.kind \in {"order", "reject", "batch"} /\ IsReport(e)
  <2>1. e.kind \in Kinds
    BY <1>3 DEF EntryOK
  <2>2. e.kind \in {"order", "reject", "batch"}
    BY <1>4, <1>6, <2>1 DEF StatementsOf, Kinds, Reports, Trades
  <2> QED BY <1>4, <2>2 DEF IsReport
<1>8. k = 1
  BY <1>3, <1>4, <1>7 DEF EntryOK, Trades
<1>9. PICK o \in Orders, rep \in OrderReport : o = e.items[1].o /\ rep = e.items[1].rep
  BY <1>3, <1>4, <1>7, <1>8 DEF EntryOK, Reports
<1>10. PICK b : b = StateOf(rep)
  OBVIOUS
<1>11. /\ b \in [st : BrokerStatus, cum : 0 .. Qty] /\ Says(rep, b) /\ Was(b, o) /\ b.st # "new"
       /\ e.kind # "order" => b.st = "rejected"
  <2>1. b \in [st : BrokerStatus, cum : 0 .. Qty] /\ b.st = rep.st
    BY <1>10 DEF StateOf, OrderReport
  <2>2. ItemKnown(e.items[1])
    BY <1>4, <1>5, <1>7, <1>8 DEF EntryKnown, Reports
  <2>3. Says(rep, b) /\ Was(b, o)
    BY <1>9, <1>10, <2>2 DEF ItemKnown
  <2>4. rep.st # "new" /\ (e.kind # "order" => rep.st = "rejected")
    BY <1>4, <1>5, <1>7, <1>8, <1>9 DEF EntryKnown, Reports
  <2> QED BY <2>1, <2>3, <2>4
<1>12. Item(p) = e.items[1]
  BY <1>2, <1>3, <1>8 DEF Item
<1>13. PICK old : old = rows[o]
  OBVIOUS
<1>14. PICK new : new = OrderWritten(e.kind, old, rep, toOrder(rep))
  OBVIOUS
<1>15. /\ new # NoRow /\ rows' = [rows EXCEPT ![o] = new]
       /\ skipped' = skipped /\ \E l \in {"summary", "append"} : Go(p, l)
  <2>1. PICK z, y, kind, w :
          /\ z = Item(p).o /\ y = Item(p).rep /\ kind = Current(p).kind
          /\ w = OrderWritten(kind, rows[z], y, toOrder(y))
          /\ \/ /\ w # NoRow /\ rows' = [rows EXCEPT ![z] = w]
                /\ CASE IsUpsert(kind, y) /\ p = "worker" -> Go(p, "summary") /\ UNCHANGED skipped
                     [] kind = "page" /\ p = "replay" -> NextItem(p)
                     [] OTHER -> Go(p, "append") /\ UNCHANGED skipped
             \/ GiveUp(p)
    BY DEF WriteOrder
  <2>2. z = o /\ y = rep /\ kind = e.kind
    BY <1>3, <1>9, <1>12, <2>1
  <2>3. w = new
    BY <1>13, <1>14, <2>1, <2>2
  <2>4. CASE IsUpsert(kind, y) /\ p = "worker"
    BY <2>1, <2>2, <2>3, <2>4
  <2>5. CASE ~ (IsUpsert(kind, y) /\ p = "worker")
    BY <1>6, <2>1, <2>2, <2>3, <2>5
  <2> QED BY <2>4, <2>5
<1>16. PICK c \in [st : BrokerStatus, cum : 0 .. Qty] : c = broker[o]
  BY DEF IndInv, BrokerInv
<1>17. /\ Follows(new, c) /\ Has(new, b) /\ (~ Terminal(c.st) => new.st = b.st)
       /\ old # NoRow => Onward(old, new)
  <2>1. old = NoRow \/ Follows(old, c)
    BY <1>13, <1>16 DEF RowInv
  <2>2. OrderState(b) /\ b.cum <= c.cum /\ (Terminal(b.st) => b = c)
    BY <1>11, <1>16 DEF Was
  <2> QED BY <1>7, <1>11, <1>14, <1>15, <2>1, <2>2, OrderFollows
<1>18. \A z \in Orders : rows'[z] = IF z = o THEN new ELSE rows[z]
  BY <1>15 DEF IndInv, TablesInv, RowsOK
<1>19. /\ b = StateOf(e.items[1].rep) /\ Follows(new, broker[o]) /\ Has(new, b)
       /\ (~ Terminal(broker[o].st) => new.st = b.st)
       /\ (rows[o] # NoRow => Onward(rows[o], new))
  BY <1>9, <1>10, <1>13, <1>16, <1>17
<1>20. /\ e = Current(p) /\ EntryOK(e) /\ IsReport(e) /\ o = e.items[1].o /\ o \in Orders
       /\ b \in [st : BrokerStatus, cum : 0 .. Qty] /\ Was(b, o)
       /\ new # NoRow /\ (\E l \in {"summary", "append"} : Go(p, l)) /\ skipped' = skipped
  BY <1>3, <1>7, <1>9, <1>11, <1>15
<1> QED BY <1>18, <1>19, <1>20

(* Lemma: the statement that writes the row.                               *)
LEMMA WriteRows ==
  ASSUME IndInv, KnownInv, RowInv, NEW p \in Processes, WriteOrder(p)
  PROVE  RowInv'
<1>1. /\ at[p].pc \in Statements
      /\ UNCHANGED gateway /\ UNCHANGED <<stream, broker, cursor, hi, ckpt>>
  BY DEF WriteOrder, IsAt, Statements, Statement, worker, gateway
<1>2. CASE GiveUp(p)
  <2>1. rows' = rows /\ EndEntry(p, FALSE)
    BY <1>2 DEF GiveUp, orderTables
  <2> QED BY <1>1, <2>1, StepRows
<1>3. CASE Queried("page")
  BY <1>1, <1>3 DEF RowInv, Queried
<1>4. CASE ~ Queried("page") /\ ~ GiveUp(p)
  <2>1. PICK e, o, b, new :
           /\ e = Current(p) /\ EntryOK(e) /\ IsReport(e) /\ o = e.items[1].o /\ o \in Orders
           /\ b = StateOf(e.items[1].rep) /\ b \in [st : BrokerStatus, cum : 0 .. Qty] /\ Was(b, o)
           /\ Follows(new, broker[o]) /\ Has(new, b)
           /\ (~ Terminal(broker[o].st) => new.st = b.st)
           /\ new # NoRow /\ (rows[o] # NoRow => Onward(rows[o], new))
           /\ (\A z \in Orders : rows'[z] = IF z = o THEN new ELSE rows[z])
           /\ (\E l \in {"summary", "append"} : Go(p, l)) /\ skipped' = skipped
    BY <1>4, OrderWrites
  <2>2. PICK l \in Statements : Go(p, l)
    BY <2>1 DEF Statements
  <2>3. \A r, i : Done(r, i)' => Done(r, i)
    BY <1>1, <2>1, <2>2, GoDone
  <2>4. PICK x : at' = [at EXCEPT ![p] = x] /\ at'[p] = x /\ x.role = at[p].role /\ x.idx = at[p].idx
    BY <2>2, Goes DEF IndInv
  <2>5. \A q \in Processes : q # p => at'[q] = at[q]
    BY <2>4 DEF IndInv, PlaceInv
  <2>6. Current(p)' = e
    BY <1>1, <2>1, <2>4 DEF Current
  <2>7. Written(e)'
    <3>1. rows'[o] = new
      BY <2>1
    <3> QED BY <2>1, <3>1 DEF Written
  <2>8. ASSUME NEW q \in Processes, at'[q].pc \in {"summary", "append"}
        PROVE  \E d \in {Current(q)'} :
                 Written(d)' \/ (d = Current(q) /\ at[q].pc \in {"summary", "append"})
    <3>1. CASE q = p
      BY <2>6, <2>7, <3>1
    <3>2. CASE q # p
      <4>1. Current(q)' = Current(q) /\ at[q].pc \in {"summary", "append"}
        BY <1>1, <2>5, <2>8, <3>2 DEF Current
      <4> QED BY <4>1
    <3> QED BY <3>1, <3>2
  <2>9. \A z \in Orders : rows'[z] # NoRow => Follows(rows'[z], broker[z])
    BY <1>4, <2>1 DEF RowInv
  <2>10. \A z \in Orders : rows[z] # NoRow =>
           rows'[z] # NoRow /\ (rows'[z] = rows[z] \/ Onward(rows[z], rows'[z]))
    BY <2>1
  <2> QED BY <1>1, <2>3, <2>8, <2>9, <2>10, RowsKept
<1> QED BY <1>2, <1>3, <1>4

(* Lemma: nothing of what the gateway adds is done with.                   *)
LEMMA NoneDone ==
  ASSUME IndInv, Broker, MovesOn, NEW r \in RoleSet, NEW i \in DOMAIN stream'[r], Done(r, i)'
  PROVE  Done(r, i) /\ i \in DOMAIN stream[r]
<1>1. UNCHANGED <<at, cursor, hi, ckpt, skipped>> /\ at["worker"].pc \notin Statements \cup {"report"}
  BY DEF MovesOn, Between, db, worker, Statements
<1>2. Done(r, i)
  BY <1>1 DEF Done, Worked
<1>3. i <= ckpt[r] \/ i <= cursor[r]
  BY <1>1, <1>2 DEF Done, Worked
<1>4. PICK n \in Nat : n = Len(stream[r]) /\ ckpt[r] <= n /\ cursor[r] <= n
  BY Cursors
<1>5. ckpt[r] \in Nat /\ cursor[r] \in Nat
  BY Cursors
<1>6. i \in Nat
  <2>1. StreamInv'
    BY GatewayWritesInv DEF IndInv
  <2>2. DOMAIN stream'[r] = 1 .. Len(stream'[r])
    BY <2>1, LenProperties DEF StreamInv
  <2> QED BY <2>2
<1> QED BY <1>2, <1>3, <1>4, <1>5, <1>6 DEF MovesOn

(* Lemma: the rows follow their orders when these go on.                   *)
LEMMA GatewayRows ==
  ASSUME IndInv, KnownInv, RowInv, Broker
  PROVE  RowInv'
<1>1. MovesOn /\ Between /\ BrokerInv' /\ BrokerInv
  BY GatewayKnown, GatewayWritesInv DEF MovesOn, IndInv
<1>2. UNCHANGED <<rows, at, cursor, hi, ckpt, skipped>>
  BY <1>1 DEF Between, db, orderTables, worker
<1>3. \A r \in RoleSet : \A i \in DOMAIN stream[r] :
        i \in DOMAIN stream'[r] /\ stream'[r][i] = stream[r][i]
  BY <1>1 DEF MovesOn
<1>4. Queried("page") => Queried("page")'
  BY <1>3 DEF Queried, RoleSet
<1> SUFFICES ASSUME ~ Queried("page"), ~ Queried("page")'
             PROVE  /\ \A o \in Orders : rows[o] # NoRow => Follows(rows[o], broker'[o])
                    /\ \A r \in RoleSet : \A i \in DOMAIN stream'[r] :
                         IsReport(stream'[r][i]) /\ Done(r, i)' => Written(stream'[r][i])
                    /\ \A p \in Processes : at[p].pc \in {"summary", "append"} => Written(Current(p)')
  BY <1>2, <1>4 DEF RowInv, Written
<1>5. ASSUME NEW o \in Orders, rows[o] # NoRow PROVE Follows(rows[o], broker'[o])
  <2>1. PICK c \in [st : BrokerStatus, cum : 0 .. Qty] : c = broker[o]
    BY <1>1 DEF BrokerInv
  <2>2. PICK d \in [st : BrokerStatus, cum : 0 .. Qty] : d = broker'[o]
    BY <1>1 DEF BrokerInv
  <2>3. c.cum <= d.cum /\ (Terminal(c.st) => d = c)
    BY <1>1, <2>1, <2>2 DEF MovesOn
  <2>4. PICK row : row = rows[o] /\ Follows(row, c)
    BY <1>5, <2>1 DEF RowInv
  <2>5. Follows(row, d)
    BY <2>3, <2>4, SyncAssumption DEF Follows
  <2> QED BY <2>2, <2>4, <2>5
<1>6. ASSUME NEW r \in RoleSet, NEW i \in DOMAIN stream'[r], IsReport(stream'[r][i]), Done(r, i)'
      PROVE  Written(stream'[r][i])
  <2>1. Done(r, i) /\ i \in DOMAIN stream[r]
    BY <1>1, <1>6, NoneDone
  <2>2. stream'[r][i] = stream[r][i]
    BY <1>3, <2>1
  <2> QED BY <1>6, <2>1, <2>2 DEF RowInv
<1>7. ASSUME NEW p \in Processes, at[p].pc \in {"summary", "append"} PROVE Written(Current(p)')
  <2>1. at[p].pc \in Statements
    BY <1>7 DEF Statements
  <2>2. PICK r \in RoleSet, i \in Nat, k \in Nat \ {0} :
          r = at[p].role /\ i = at[p].idx /\ k = at[p].item /\ i \in DOMAIN stream[r]
    BY <2>1, Here
  <2>3. Current(p)' = Current(p)
    BY <1>2, <1>3, <2>2 DEF Current
  <2> QED BY <1>7, <2>3 DEF RowInv
<1> QED BY <1>5, <1>6, <1>7

(* Lemma: the statements that are not about the row of an order.           *)
LEMMA OtherRows ==
  ASSUME IndInv, KnownInv, RowInv, NEW p \in Processes,
         \/ p = "worker" /\ ArchiveRawStreamMessage
         \/ AppendOrderEvent(p) \/ InsertFill(p) \/ DeleteSummaryFills(p)
         \/ InsertComponentTransfer(p) \/ StatementFails(p)
         \/ p = "worker" /\ UpsertOrderCancelAttempt
         \/ p = "worker" /\ UpsertOrderFeeRecord
         \/ p = "worker" /\ SynthesizeSummaryFill
  PROVE  RowInv'
<1>1. at[p].pc \in Statements /\ UNCHANGED gateway /\ UNCHANGED <<stream, cursor, hi, ckpt>>
  BY DEF ArchiveRawStreamMessage, AppendOrderEvent, InsertFill, DeleteSummaryFills, InsertComponentTransfer,
         StatementFails, UpsertOrderCancelAttempt, UpsertOrderFeeRecord, SynthesizeSummaryFill,
         IsAt, Statements, Statement, worker, gateway
<1>2. rows' = rows
  BY DEF ArchiveRawStreamMessage, AppendOrderEvent, InsertFill, DeleteSummaryFills, InsertComponentTransfer,
         StatementFails, UpsertOrderCancelAttempt, UpsertOrderFeeRecord, SynthesizeSummaryFill,
         GiveUp, orderTables
<1>3. \/ \E l \in Statements : /\ Go(p, l) /\ skipped' = skipped
                               /\ l \in {"summary", "append"} => at[p].pc = "summary"
      \/ EndEntry(p, FALSE)
      \/ EndEntry(p, TRUE) /\ Refused(Current(p))
      \/ at[p].pc \notin {"archive", "order"} /\ NextItem(p)
  <2>1. CASE p = "worker" /\ ArchiveRawStreamMessage
    <3>1. CASE Refused(Current("worker"))
      BY <2>1, <3>1 DEF ArchiveRawStreamMessage
    <3>2. CASE ~ Refused(Current("worker"))
      <4>1. PICK e : e = Current(p) /\ EntryOK(e)
        BY <1>1, Here
      <4>2. Go("worker", FirstStatement(e, 1)) /\ skipped' = skipped
        BY <2>1, <3>2, <4>1 DEF ArchiveRawStreamMessage
      <4>3. FirstStatement(e, 1) \in Statements /\ FirstStatement(e, 1) \notin {"summary", "append"}
        <5>1. 1 \in DOMAIN e.items
          BY <2>1, <3>2, <4>1 DEF EntryOK, Refused, DecodeEntry
        <5> QED BY <2>1, <3>2, <4>1, <5>1, FirstOf, Zenon
      <4> QED BY <2>1, <4>2, <4>3
    <3> QED BY <3>1, <3>2
  <2>2. CASE AppendOrderEvent(p) \/ DeleteSummaryFills(p) \/ InsertComponentTransfer(p)
    BY <2>2 DEF AppendOrderEvent, DeleteSummaryFills, InsertComponentTransfer, IsAt
  <2>3. CASE InsertFill(p)
    BY <2>3 DEF InsertFill, GiveUp, Statements
  <2>4. CASE StatementFails(p)
    BY <2>4 DEF StatementFails, GiveUp
  <2>5. CASE p = "worker" /\ (UpsertOrderCancelAttempt \/ UpsertOrderFeeRecord)
    BY <2>5 DEF UpsertOrderCancelAttempt, UpsertOrderFeeRecord, IsAt
  <2>6. CASE p = "worker" /\ SynthesizeSummaryFill
    BY <2>6 DEF SynthesizeSummaryFill, IsAt, Statements
  <2> QED BY <2>1, <2>2, <2>3, <2>4, <2>5, <2>6
<1> QED BY <1>1, <1>2, <1>3, StepRows

(* Lemma: every step keeps the invariant of the rows.                      *)
LEMMA RowsNext ==
  ASSUME IndInv, KnownInv, RowInv, [Next]_vars
  PROVE  RowInv'
<1>1. CASE Read \/ SaveCheckpoint \/ SaveCheckpointFails
  <2>1. Quiet
    BY <1>1, ReadInv, CheckpointInv
  <2>2. UNCHANGED <<gateway, rows, skipped>>
    BY <1>1 DEF Read, SaveCheckpoint, SaveCheckpointFails, Advance, db, orderTables
  <2> QED BY <2>1, <2>2, QuietRows
<1>2. CASE Crash \/ \E unread \in SUBSET RoleSet : Restart(unread)
  <2>1. Quiet
    BY <1>2, CrashInv, RestartInv
  <2>2. UNCHANGED <<gateway, rows, skipped>>
    BY <1>2 DEF Crash, Restart, db, orderTables
  <2> QED BY <2>1, <2>2, QuietRows
<1>3. CASE StartReplay \/ ReplayNext \/ ReplayStops
  <2>1. Quiet
    BY <1>3, StartReplayInv, ReplayNextInv, ReplayStopsInv
  <2>2. UNCHANGED <<gateway, rows, skipped>>
    BY <1>3 DEF StartReplay, ReplayNext, ReplayStops, db, orderTables
  <2> QED BY <2>1, <2>2, QuietRows
<1>4. CASE UNCHANGED vars
  <2>1. UNCHANGED <<gateway, rows, skipped>>
    BY <1>4 DEF vars, db, orderTables
  <2> QED BY <1>4, <2>1, StutterInv, QuietRows
<1>5. CASE \/ ArchiveRawStreamMessage \/ UpsertOrderCancelAttempt \/ UpsertOrderFeeRecord
           \/ SynthesizeSummaryFill
  <2>1. "worker" \in Processes
    BY DEF Processes
  <2> QED BY <1>5, <2>1, OtherRows
<1>6. CASE \E p \in Processes :
             \/ InsertFill(p) \/ DeleteSummaryFills(p) \/ InsertComponentTransfer(p)
             \/ AppendOrderEvent(p) \/ StatementFails(p)
  BY <1>6, OtherRows
<1>7. CASE \E p \in Processes : WriteOrder(p)
  BY <1>7, WriteRows
<1>8. CASE Broker
  BY <1>8, GatewayRows
<1> QED BY <1>1, <1>2, <1>3, <1>4, <1>5, <1>6, <1>7, <1>8 DEF Next, Step

(* The invariant of the rows: while no page was queried a row follows its  *)
(* order, and shows at least what every report that was worked off has told*)
(* of it.                                                                  *)
THEOREM RowInvHolds == Spec => []RowInv
<1>1. Init => RowInv
  <2> SUFFICES ASSUME Init PROVE RowInv
    OBVIOUS
  <2>1. /\ \A o \in Orders : rows[o] # NoRow => rows[o] = DraftRow(Qty)
        /\ \A o \in Orders : broker[o].cum = 0
        /\ \A r \in RoleSet : DOMAIN stream[r] = {}
        /\ \A p \in Processes : at[p].pc \in {"read", "down"}
    BY DEF Init, Idle
  <2>2. PICK d : d = DraftRow(Qty)
    OBVIOUS
  <2>3. d.cum = 0 /\ d.term = FALSE /\ d.st = "created"
    BY <2>2 DEF DraftRow
  <2>4. ASSUME NEW o \in Orders, rows[o] # NoRow PROVE Follows(rows[o], broker[o])
    <3>1. rows[o] = d
      BY <2>1, <2>2, <2>4
    <3>2. PICK c : c = broker[o] /\ c.cum = 0
      BY <2>1
    <3>3. d.cum \in 0 .. c.cum
      BY <2>3, <3>2
    <3>4. ~ d.term /\ d.term \in BOOLEAN
      BY <2>3, Zenon
    <3>5. Follows(d, c)
      BY <2>3, <3>3, <3>4 DEF Follows
    <3> QED BY <3>1, <3>2, <3>5
  <2> QED BY <2>1, <2>4 DEF RowInv
<1>2. IndInv /\ FillInv /\ RowInv /\ [Next]_vars => RowInv'
  BY RowsNext DEF FillInv
<1> QED BY <1>1, <1>2, IndInvHolds, FillInvHolds, PTL DEF Spec

-----------------------------------------------------------------------------
(* What the event stream says of an order, and in which order: a partial   *)
(* fill after the acceptance.                                              *)
Sends(e, o, st) == e.kind = "order" /\ e.items[1].o = o /\ e.items[1].rep.st = st
ToldInOrder ==
  /\ \A r \in RoleSet : \A i \in DOMAIN stream[r] : stream[r][i].kind = "order" => r = "event"
  /\ \A o \in Orders : \A i, j \in DOMAIN stream["event"] :
       Sends(stream["event"][i], o, "partially_filled") /\ Sends(stream["event"][j], o, "working") => j < i

(* Lemma: what one message adds to the streams.                            *)
LEMMA OneAdded ==
  ASSUME StreamInv, NEW r \in RoleSet, NEW e, Emit(r, <<e>>),
         NEW s \in RoleSet, NEW i \in DOMAIN stream'[s], i \notin DOMAIN stream[s]
  PROVE  s = r /\ stream'[s][i] = e
<1>1. PICK es : es = <<e>>
  OBVIOUS
<1>2. es \in Seq({e}) /\ \A j \in 1 .. Len(es) : es[j] = e
  BY <1>1
<1>3. Emit(r, es)
  BY <1>1
<1>4. s = r /\ \E j \in 1 .. Len(es) : stream'[s][i] = es[j]
  BY <1>2, <1>3, Emitted
<1> QED BY <1>2, <1>4

(* Lemma: the gateway reports an order on the event stream, and accepts it *)
(* before it trades.                                                       *)
LEMMA OrdersAdded ==
  ASSUME IndInv, Broker, NEW s \in RoleSet, NEW i \in DOMAIN stream'[s], i \notin DOMAIN stream[s],
         stream'[s][i].kind = "order"
  PROVE  /\ s = "event"
         /\ \A o \in Orders : Sends(stream'[s][i], o, "working") => broker'[o].cum = 0
<1>1. StreamInv /\ BrokerInv
  BY DEF IndInv
<1>2. PICK o \in Orders :
          \/ BrokerAccept(o) \/ BrokerCancel(o)
          \/ \E kind \in {"reject", "batch"} : BrokerReject(o, kind)
          \/ \E fillFirst \in BOOLEAN : BrokerFill(o, fillFirst)
          \/ BrokerOrderPage(o) \/ BrokerFillPage(o)
          \/ \E done \in BOOLEAN : BrokerFeePage(o, done)
          \/ BrokerCancelOutcome(o, "reply", "accepted")
          \/ BrokerCancelOutcome(o, "event", "rejected") \/ BrokerNote(o)
  BY DEF Broker
<1>3. ASSUME NEW r \in RoleSet, NEW e, Emit(r, <<e>>), e.kind # "order" PROVE FALSE
  BY <1>1, <1>3, OneAdded
<1>0. ASSUME NEW b, NEW e, e = Entry("order", <<OrderItem(o, b)>>)
      PROVE  e.items[1].o = o /\ e.items[1].rep.st = b.st
  <2>1. PICK x : x = OrderItem(o, b)
    OBVIOUS
  <2>2. e.items[1] = x
    BY <1>0, <2>1 DEF Entry
  <2>3. x.o = o /\ x.rep.st = b.st
    BY <2>1 DEF OrderItem, Report
  <2> QED BY <2>2, <2>3
<1>4. ASSUME NEW b, Emit("event", <<Entry("order", <<OrderItem(o, b)>>)>>)
      PROVE  /\ s = "event" /\ stream'[s][i].items[1].o = o
             /\ stream'[s][i].items[1].rep.st = b.st
  <2>1. PICK e : e = Entry("order", <<OrderItem(o, b)>>) /\ Emit("event", <<e>>)
    BY <1>4
  <2>2. s = "event" /\ stream'[s][i] = e
    BY <1>1, <2>1, OneAdded DEF RoleSet
  <2> QED BY <1>0, <2>1, <2>2
<1>5. CASE BrokerAccept(o)
  <2>1. PICK b : /\ b = [broker[o] EXCEPT !.st = "working"] /\ broker' = [broker EXCEPT ![o] = b]
                 /\ Emit("event", <<Entry("order", <<OrderItem(o, b)>>)>>)
    BY <1>5 DEF BrokerAccept
  <2>2. broker[o].cum = 0 /\ broker[o] \in [st : BrokerStatus, cum : 0 .. Qty]
    BY <1>1, <1>5 DEF BrokerAccept, BrokerInv
  <2>3. b.cum = 0
    BY <2>1, <2>2
  <2>4. broker'[o] = b
    BY <1>1, <2>1 DEF BrokerInv
  <2>5. s = "event" /\ stream'[s][i].items[1].o = o
    BY <1>4, <2>1
  <2> QED BY <2>3, <2>4, <2>5 DEF Sends
<1>6. CASE BrokerCancel(o)
  <2>1. PICK b : /\ b = [broker[o] EXCEPT !.st = "cancelled"]
                 /\ Emit("event", <<Entry("order", <<OrderItem(o, b)>>)>>)
    BY <1>6 DEF BrokerCancel
  <2>2. b.st = "cancelled"
    BY <1>1, <2>1 DEF BrokerInv
  <2>3. s = "event" /\ stream'[s][i].items[1].rep.st = b.st
    BY <1>4, <2>1
  <2> QED BY <2>2, <2>3 DEF Sends
<1>7. ASSUME NEW kind \in {"reject", "batch"}, BrokerReject(o, kind) PROVE FALSE
  <2>1. PICK e : e.kind = kind /\ Emit("reply", <<e>>)
    BY <1>7 DEF BrokerReject, Entry
  <2> QED BY <1>3, <2>1 DEF RoleSet
<1>8. ASSUME NEW fillFirst \in BOOLEAN, BrokerFill(o, fillFirst)
      PROVE  /\ s = "event"
             /\ \A z \in Orders : ~ Sends(stream'[s][i], z, "working")
  <2>1. PICK n : n = broker[o].cum + 1
    OBVIOUS
  <2>2. PICK b : b = [broker[o] EXCEPT !.st = IF n = Qty THEN "filled" ELSE "partially_filled", !.cum = n]
    OBVIOUS
  <2>3. PICK kind \in {"transfer", "fill"} : kind = IF scenario.etf THEN "transfer" ELSE "fill"
    OBVIOUS
  <2>4. PICK f, e :
          /\ f = Entry(kind, <<FillItem(o, b, n)>>) /\ e = Entry("order", <<OrderItem(o, b)>>)
          /\ Emit("event", IF fillFirst THEN <<f, e>> ELSE <<e, f>>)
    BY <1>8, <2>1, <2>2, <2>3 DEF BrokerFill
  <2>5. PICK es : es = (IF fillFirst THEN <<f, e>> ELSE <<e, f>>) /\ Emit("event", es)
    BY <2>4
  <2>6. es \in Seq({e, f}) /\ \A j \in 1 .. Len(es) : es[j] \in {e, f}
    <3>1. es = <<f, e>> \/ es = <<e, f>>
      BY <2>5
    <3> DEFINE S == {e, f}
    <3>2. e \in S /\ f \in S
      OBVIOUS
    <3> HIDE DEF S
    <3>3. <<f, e>> \in Seq(S) /\ <<e, f>> \in Seq(S)
      BY <3>2
    <3>4. es \in Seq(S)
      BY <3>1, <3>3
    <3>5. \A j \in 1 .. Len(es) : es[j] \in S
      BY <3>4, ElementOfSeq
    <3> QED BY <3>4, <3>5 DEF S
  <2>7. s = "event" /\ \E j \in 1 .. Len(es) : stream'[s][i] = es[j]
    <3>1. PICK U : es \in Seq(U)
      BY <2>6
    <3>2. PICK r \in RoleSet : r = "event"
      BY DEF RoleSet
    <3>3. Emit(r, es)
      BY <2>5, <3>2
    <3>4. s = r /\ \E j \in 1 .. Len(es) : stream'[s][i] = es[j]
      BY <1>1, <3>1, <3>3, Emitted
    <3> QED BY <3>2, <3>4
  <2>8. f.kind = kind /\ e.items[1] = OrderItem(o, b)
    BY <2>4 DEF Entry
  <2>9. stream'[s][i] = e
    BY <2>3, <2>6, <2>7, <2>8
  <2>10. b.st \in {"filled", "partially_filled"}
    BY <1>1, <2>2 DEF BrokerInv
  <2>11. e.items[1].rep.st = b.st
    BY <1>0, <2>4
  <2> QED BY <2>7, <2>9, <2>10, <2>11 DEF Sends
<1>9. ASSUME BrokerOrderPage(o) \/ BrokerFillPage(o) \/ \E done \in BOOLEAN : BrokerFeePage(o, done)
      PROVE  FALSE
  <2>1. PICK kind, items : kind \in {"page", "fill", "fee"} /\ Emit("reply", <<Entry(kind, items)>>)
    <3>1. CASE BrokerOrderPage(o)
      BY <3>1 DEF BrokerOrderPage
    <3>2. CASE BrokerFillPage(o)
      BY <3>2 DEF BrokerFillPage
    <3>3. CASE \E done \in BOOLEAN : BrokerFeePage(o, done)
      BY <3>3 DEF BrokerFeePage
    <3> QED BY <1>9, <3>1, <3>2, <3>3
  <2>2. PICK e : e = Entry(kind, items)
    OBVIOUS
  <2>3. e.kind = kind /\ Emit("reply", <<e>>)
    BY <2>1, <2>2 DEF Entry
  <2> QED BY <1>3, <2>1, <2>3 DEF RoleSet
<1>10. ASSUME NEW r \in RoleSet, NEW status, BrokerCancelOutcome(o, r, status) PROVE FALSE
  <2>1. PICK e : e.kind = "cancel" /\ Emit(r, <<e>>)
    BY <1>10 DEF BrokerCancelOutcome, Entry
  <2> QED BY <1>3, <2>1
<1>11. ASSUME BrokerNote(o) PROVE FALSE
  <2>1. PICK kind, items : /\ kind \in {"note", "garbled", "reject", "page", "fill"}
                           /\ Emit("reply", <<Entry(kind, items)>>)
    BY <1>11 DEF BrokerNote
  <2>2. PICK e : e = Entry(kind, items)
    OBVIOUS
  <2>3. e.kind = kind /\ Emit("reply", <<e>>)
    BY <2>1, <2>2 DEF Entry
  <2> QED BY <1>3, <2>1, <2>3 DEF RoleSet
<1> QED BY <1>2, <1>5, <1>6, <1>7, <1>8, <1>9, <1>10, <1>11 DEF RoleSet

(* Lemma: every step keeps this order of the event stream.                 *)
LEMMA ToldNext ==
  ASSUME IndInv, KnownInv, ToldInOrder, [Next]_vars
  PROVE  ToldInOrder'
<1>1. CASE ~ Broker
  <2>1. UNCHANGED gateway
    BY <1>1 DEF Next, Step, vars, Read, ArchiveRawStreamMessage, SynthesizeSummaryFill,
            UpsertOrderCancelAttempt, UpsertOrderFeeRecord, SaveCheckpoint, StartReplay, ReplayNext,
            WriteOrder, AppendOrderEvent, InsertFill, DeleteSummaryFills, InsertComponentTransfer,
            SaveCheckpointFails, Advance, Crash, ReplayStops, StatementFails, Restart, Statement
  <2>2. stream' = stream
    BY <2>1 DEF gateway
  <2> QED BY <2>2 DEF ToldInOrder
<1>2. CASE Broker
  <2>1. KnownInv' /\ MovesOn /\ BrokerInv' /\ StreamInv' /\ StreamInv
    BY <1>2, GatewayKnown, GatewayWritesInv DEF IndInv
  <2>2. \A r \in RoleSet : \A i \in DOMAIN stream[r] :
          i \in DOMAIN stream'[r] /\ stream'[r][i] = stream[r][i]
    BY <2>1 DEF MovesOn
  <2>3. ASSUME NEW r \in RoleSet, NEW i \in DOMAIN stream'[r], stream'[r][i].kind = "order"
        PROVE  r = "event"
    <3>1. CASE i \in DOMAIN stream[r]
      BY <2>2, <2>3, <3>1 DEF ToldInOrder
    <3>2. CASE i \notin DOMAIN stream[r]
      BY <1>2, <2>3, <3>2, OrdersAdded
    <3> QED BY <3>1, <3>2
  <2>4. ASSUME NEW o \in Orders, NEW i \in DOMAIN stream'["event"], NEW j \in DOMAIN stream'["event"],
               Sends(stream'["event"][i], o, "partially_filled"), Sends(stream'["event"][j], o, "working")
        PROVE  j < i
    <3>0. "event" \in RoleSet
      BY DEF RoleSet
    <3>1. PICK e : e = stream'["event"][i] /\ EntryOK(e)' /\ EntryKnown("event", e)'
      BY <2>1, <3>0, StreamLengths DEF KnownInv, StreamInv
    <3>2. e.kind = "order" /\ e.items[1].o = o /\ e.items[1].rep.st = "partially_filled"
      BY <2>4, <3>1 DEF Sends
    <3>3. j \in DOMAIN stream["event"]
      <4> SUFFICES ASSUME j \notin DOMAIN stream["event"] PROVE FALSE
        OBVIOUS
      <4>1. broker'[o].cum = 0
        <5>1. stream'["event"][j].kind = "order"
          BY <2>4 DEF Sends
        <5> QED BY <1>2, <2>4, <3>0, <5>1, OrdersAdded
      <4>2. 1 \in DOMAIN e.items
        BY <3>1, <3>2 DEF EntryOK
      <4>3. ItemKnown(e.items[1])'
        BY <3>1, <3>2, <4>2 DEF EntryKnown, Reports
      <4>4. PICK b : b = StateOf(e.items[1].rep) /\ Was(b, o)'
        BY <3>2, <4>3 DEF ItemKnown
      <4>5. b.st = "partially_filled"
        BY <3>2, <4>4 DEF StateOf
      <4>6. b.cum \in 1 .. Qty - 1 /\ b.cum <= broker'[o].cum
        BY <4>4, <4>5 DEF Was, OrderState
      <4> QED BY <4>1, <4>6, SyncAssumption
    <3>4. CASE i \in DOMAIN stream["event"]
      BY <2>2, <2>4, <3>0, <3>3, <3>4 DEF ToldInOrder
    <3>5. CASE i \notin DOMAIN stream["event"]
      <4>1. i > Len(stream["event"])
        BY <2>1, <3>0, <3>5 DEF MovesOn
      <4>2. DOMAIN stream["event"] = 1 .. Len(stream["event"]) /\ Len(stream["event"]) \in Nat
        BY <2>1, <3>0, StreamLengths
      <4>3. i \in Nat
        <5>1. DOMAIN stream'["event"] = 1 .. Len(stream'["event"])
          BY <2>1, <3>0, LenProperties DEF StreamInv
        <5> QED BY <5>1
      <4> QED BY <3>3, <4>1, <4>2, <4>3
    <3> QED BY <3>4, <3>5
  <2> QED BY <2>3, <2>4 DEF ToldInOrder
<1> QED BY <1>1, <1>2

-----------------------------------------------------------------------------
(* A process executes a statement of its entry, or tries to.               *)
Executes(p) ==
  \/ p = "worker" /\ (ArchiveRawStreamMessage \/ SynthesizeSummaryFill)
  \/ p = "worker" /\ (UpsertOrderCancelAttempt \/ UpsertOrderFeeRecord)
  \/ WriteOrder(p) \/ AppendOrderEvent(p) \/ InsertFill(p) \/ DeleteSummaryFills(p)
  \/ InsertComponentTransfer(p) \/ StatementFails(p)

(* Lemma: what a statement leaves alone, and where the process goes.       *)
LEMMA Execution ==
  ASSUME IndInv, NEW p \in Processes, Executes(p)
  PROVE  /\ at[p].pc \in Statements
         /\ UNCHANGED gateway /\ UNCHANGED <<stream, broker, cursor, hi, ckpt, stage, todo>>
         /\ upset' = (upset \/ (p = "worker" /\ Replaying))
         /\ p = "replay" => archive' = archive
         /\ ~ WriteOrder(p) => rows' = rows
         /\ \/ \E l \in Statements : Go(p, l) /\ skipped' = skipped
            \/ EndEntry(p, FALSE) \/ EndEntry(p, TRUE)
            \/ at[p].pc # "archive" /\ NextItem(p)
<1>1. /\ at[p].pc \in Statements
      /\ UNCHANGED gateway /\ UNCHANGED <<stream, broker, cursor, hi, ckpt, stage, todo>>
      /\ Overlap(p)
  BY DEF Executes, ArchiveRawStreamMessage, AppendOrderEvent, InsertFill, DeleteSummaryFills,
         InsertComponentTransfer, StatementFails, UpsertOrderCancelAttempt, UpsertOrderFeeRecord,
         SynthesizeSummaryFill, WriteOrder, IsAt, Statements, Statement, worker, replay, gateway
<1>2. upset' = (upset \/ (p = "worker" /\ Replaying))
  BY <1>1 DEF Overlap
<1>3. p = "replay" => archive' = archive
  BY DEF Executes, AppendOrderEvent, InsertFill, DeleteSummaryFills, InsertComponentTransfer,
         StatementFails, WriteOrder, GiveUp
<1>4. ~ WriteOrder(p) => rows' = rows
  BY DEF Executes, ArchiveRawStreamMessage, AppendOrderEvent, InsertFill, DeleteSummaryFills,
         InsertComponentTransfer, StatementFails, UpsertOrderCancelAttempt, UpsertOrderFeeRecord,
         SynthesizeSummaryFill, GiveUp, orderTables
<1>5. \/ \E l \in Statements : Go(p, l) /\ skipped' = skipped
      \/ EndEntry(p, FALSE) \/ EndEntry(p, TRUE)
      \/ at[p].pc # "archive" /\ NextItem(p)
  <2>1. CASE p = "worker" /\ ArchiveRawStreamMessage
    <3>1. CASE Refused(Current("worker"))
      BY <2>1, <3>1 DEF ArchiveRawStreamMessage
    <3>2. CASE ~ Refused(Current("worker"))
      <4>1. PICK e : e = Current(p) /\ EntryOK(e)
        BY <1>1, Here
      <4>2. Go("worker", FirstStatement(e, 1)) /\ skipped' = skipped
        BY <2>1, <3>2, <4>1 DEF ArchiveRawStreamMessage
      <4>3. FirstStatement(e, 1) \in Statements
        <5>1. 1 \in DOMAIN e.items
          BY <2>1, <3>2, <4>1 DEF EntryOK, Refused, DecodeEntry
        <5> QED BY <2>1, <3>2, <4>1, <5>1, FirstOf, Zenon
      <4> QED BY <2>1, <4>2, <4>3
    <3> QED BY <3>1, <3>2
  <2>2. CASE AppendOrderEvent(p) \/ DeleteSummaryFills(p) \/ InsertComponentTransfer(p)
    BY <2>2 DEF AppendOrderEvent, DeleteSummaryFills, InsertComponentTransfer, IsAt
  <2>3. CASE InsertFill(p)
    BY <2>3 DEF InsertFill, GiveUp, Statements
  <2>4. CASE StatementFails(p)
    BY <2>4 DEF StatementFails, GiveUp
  <2>5. CASE p = "worker" /\ (UpsertOrderCancelAttempt \/ UpsertOrderFeeRecord)
    BY <2>5 DEF UpsertOrderCancelAttempt, UpsertOrderFeeRecord, IsAt
  <2>6. CASE p = "worker" /\ SynthesizeSummaryFill
    BY <2>6 DEF SynthesizeSummaryFill, IsAt, Statements
  <2>7. CASE WriteOrder(p)
    <3>1. \/ Go(p, "summary") /\ skipped' = skipped
          \/ Go(p, "append") /\ skipped' = skipped
          \/ NextItem(p) \/ GiveUp(p)
      BY <2>7 DEF WriteOrder
    <3>2. at[p].pc = "order"
      BY <2>7 DEF WriteOrder, IsAt
    <3> QED BY <3>1, <3>2 DEF Statements, GiveUp
  <2> QED BY <2>1, <2>2, <2>3, <2>4, <2>5, <2>6, <2>7 DEF Executes
<1> QED BY <1>1, <1>2, <1>3, <1>4, <1>5

(* Lemma: it stays in its entry or ends it, and the other process stays.   *)
LEMMA Moves ==
  ASSUME IndInv, NEW p \in Processes, at[p].pc \in Statements, UNCHANGED <<stream, cursor, hi, ckpt>>,
         \/ \E l \in Statements : Go(p, l) /\ skipped' = skipped
         \/ EndEntry(p, FALSE) \/ EndEntry(p, TRUE)
         \/ at[p].pc # "archive" /\ NextItem(p)
  PROVE  /\ \A q \in Processes : q # p => at'[q] = at[q]
         /\ \/ /\ at'[p].pc \in Statements /\ skipped' = skipped
               /\ at'[p].role = at[p].role /\ at'[p].idx = at[p].idx
            \/ EndEntry(p, FALSE) \/ EndEntry(p, TRUE)
<1>1. DOMAIN at = Processes
  BY Cursors
<1>2. ASSUME NEW ok \in BOOLEAN, EndEntry(p, ok)
      PROVE  \A q \in Processes : q # p => at'[q] = at[q]
  <2>1. PICK x : at' = [at EXCEPT ![p] = x]
    BY <1>2 DEF EndEntry, WorkerGoesOn, At, Processes
  <2> QED BY <1>1, <2>1
<1>3. ASSUME NEW l \in Statements, Go(p, l), skipped' = skipped
      PROVE  /\ \A q \in Processes : q # p => at'[q] = at[q]
             /\ at'[p].pc \in Statements /\ skipped' = skipped
             /\ at'[p].role = at[p].role /\ at'[p].idx = at[p].idx
  <2>1. PICK x \in Place : /\ at' = [at EXCEPT ![p] = x] /\ at'[p] = x
                           /\ x.pc = l /\ x.role = at[p].role
                           /\ x.idx = at[p].idx /\ x.item = at[p].item
    BY <1>3, Goes DEF IndInv
  <2> QED BY <1>1, <1>3, <2>1
<1>4. ASSUME at[p].pc # "archive", NextItem(p), at[p].item < Len(Current(p).items)
      PROVE  /\ \A q \in Processes : q # p => at'[q] = at[q]
             /\ at'[p].pc \in Statements /\ skipped' = skipped
             /\ at'[p].role = at[p].role /\ at'[p].idx = at[p].idx
  <2>1. PICK r \in RoleSet, i \in Nat, m \in Nat \ {0} :
          r = at[p].role /\ i = at[p].idx /\ m = at[p].item
    BY Here
  <2>2. PICK e : e = Current(p) /\ EntryOK(e)
    BY Here
  <2>3. m + 1 \in DOMAIN e.items /\ ~ Refused(e)
    <3>1. m < Len(e.items) /\ Len(e.items) \in Nat /\ DOMAIN e.items = 1 .. Len(e.items)
      BY <1>4, <2>1, <2>2 DEF EntryOK
    <3>2. ~ Refused(e)
      BY <1>4, <2>2 DEF IndInv, PlaceInv, InEntry
    <3> QED BY <3>1, <3>2
  <2>4. PICK l \in Statements : l = FirstStatement(e, m + 1)
    BY <2>2, <2>3, FirstOf, Zenon
  <2>5. PICK x : x = [pc |-> l, role |-> r, idx |-> i, item |-> m + 1] /\ at' = [at EXCEPT ![p] = x]
                 /\ skipped' = skipped
    BY <1>4, <2>1, <2>2, <2>4, Zenon DEF NextItem, At
  <2> QED BY <1>1, <2>1, <2>4, <2>5
<1>5. NextItem(p) /\ ~ (at[p].item < Len(Current(p).items)) => EndEntry(p, TRUE)
  BY DEF NextItem
<1> QED BY <1>2, <1>3, <1>4, <1>5

(* What a replay finds in the archive is in the order of the streams, and  *)
(* what it has come to is followed by everything of its kind that was      *)
(* archived later, as long as nobody interferes.                           *)
KindOf(k) == stream[archive[k][1]][archive[k][2]].kind
Left(k) ==
  /\ k \in DOMAIN archive
  /\ \A m \in DOMAIN archive : m > k /\ KindOf(m) = KindOf(k) => m \in DOMAIN todo /\ todo[m] = archive[m]
ReplayInv ==
  /\ stage \in Nat
  /\ ~ Replaying => at["replay"].pc = "down"
  /\ Replaying /\ ~ upset =>
       /\ InOrder /\ at["worker"].pc \in {"read", "down"}
       /\ \A k \in DOMAIN todo : Left(k) /\ todo[k] = archive[k]
       /\ at["replay"].pc \in Statements =>
            \E k \in DOMAIN archive : archive[k] = EntryOf("replay") /\ Left(k)

(* Lemma: the worker does something, or nothing happens to the replay.     *)
LEMMA ReplayKept ==
  ASSUME ReplayInv, UNCHANGED <<stage, todo>>, at'["replay"] = at["replay"],
         \/ upset' = (upset \/ Replaying)
         \/ /\ UNCHANGED <<stream, archive>> /\ (upset => upset')
            /\ at'["worker"].pc \in {"read", "down"} \/ at'["worker"] = at["worker"]
  PROVE  ReplayInv'
<1>1. Replaying' = Replaying
  BY DEF Replaying
<1>2. CASE upset' = (upset \/ Replaying)
  BY <1>1, <1>2 DEF ReplayInv
<1>3. CASE /\ UNCHANGED <<stream, archive>> /\ (upset => upset')
           /\ at'["worker"].pc \in {"read", "down"} \/ at'["worker"] = at["worker"]
  <2>1. \A k : KindOf(k)' = KindOf(k)
    BY <1>3 DEF KindOf
  <2>2. \A k : Left(k)' = Left(k)
    BY <1>3, <2>1 DEF Left
  <2>3. InOrder' = InOrder /\ EntryOf("replay")' = EntryOf("replay")
    BY <1>3 DEF InOrder, EntryOf
  <2> QED BY <1>1, <1>3, <2>2, <2>3 DEF ReplayInv
<1> QED BY <1>2, <1>3

(* Lemma: statements of either process keep what the replay knows.         *)
LEMMA ReplayExecutes ==
  ASSUME IndInv, ReplayInv, NEW p \in Processes, Executes(p)
  PROVE  ReplayInv'
<1>1. /\ at[p].pc \in Statements
      /\ UNCHANGED <<stream, cursor, hi, ckpt, stage, todo>>
      /\ upset' = (upset \/ (p = "worker" /\ Replaying))
      /\ p = "replay" => archive' = archive
  BY Execution
<1>2. /\ \A q \in Processes : q # p => at'[q] = at[q]
      /\ \/ /\ at'[p].pc \in Statements /\ skipped' = skipped
            /\ at'[p].role = at[p].role /\ at'[p].idx = at[p].idx
         \/ EndEntry(p, FALSE) \/ EndEntry(p, TRUE)
  BY Execution, Moves
<1>3. CASE p = "worker"
  <2>1. upset' = (upset \/ Replaying)
    BY <1>1, <1>3
  <2>2. at'["replay"] = at["replay"]
    BY <1>2, <1>3 DEF Processes
  <2> QED BY <1>1, <2>1, <2>2, ReplayKept
<1>4. CASE p = "replay"
  <2>0. p # "worker" /\ archive' = archive
    BY <1>1, <1>4
  <2>00. upset' <=> upset
    BY <1>1, <2>0, Zenon
  <2>1. at'["worker"] = at["worker"]
    BY <1>2, <1>4, <2>0 DEF Processes
  <2>2. Replaying /\ Replaying' /\ stage' \in Nat
    <3>1. "down" \notin Statements
      BY DEF Statements
    <3> QED BY <1>1, <1>4, <3>1 DEF ReplayInv, Replaying
  <2>3. at'["replay"].pc \in Statements => EntryOf("replay")' = EntryOf("replay")
    <3>1. ASSUME NEW ok, EndEntry("replay", ok) PROVE at'["replay"].pc \notin Statements
      <4>1. At("replay", "next", "reply", 0, 1)
        BY <3>1 DEF EndEntry
      <4>2. at'["replay"].pc = "next"
        BY <4>1, Cursors DEF At, Processes
      <4> QED BY <4>2 DEF Statements
    <3> QED BY <1>2, <1>4, <3>1 DEF EntryOf
  <2>4. \A k : KindOf(k)' = KindOf(k)
    BY <1>1, <2>0 DEF KindOf
  <2>5. \A k : Left(k)' = Left(k)
    BY <1>1, <2>0, <2>4 DEF Left
  <2>6. InOrder' = InOrder
    BY <2>0 DEF InOrder
  <2> QED BY <1>1, <1>4, <2>0, <2>00, <2>1, <2>2, <2>3, <2>5, <2>6 DEF ReplayInv
<1> QED BY <1>3, <1>4 DEF Processes

(* Lemma: a query returns all of its kinds.                                *)
LEMMA QueryLeaves ==
  ASSUME NEW n, UNCHANGED <<stream, archive>>, todo' = ArchivedRows(n)
  PROVE  \A k \in DOMAIN todo' : Left(k)' /\ todo'[k] = archive'[k]
<1> DEFINE D == {k \in DOMAIN archive : KindOf(k) \in Stages[n]}
<1>1. DOMAIN todo' = D /\ \A k \in D : todo'[k] = archive[k]
  BY DEF ArchivedRows, KindOf
<1>2. \A k : KindOf(k)' = KindOf(k)
  BY DEF KindOf
<1> SUFFICES ASSUME NEW k \in D PROVE Left(k)' /\ todo'[k] = archive'[k]
  BY <1>1
<1>3. \A m \in DOMAIN archive : KindOf(m) = KindOf(k) => m \in D
  OBVIOUS
<1> HIDE DEF D
<1>4. Left(k)'
  <2>1. k \in DOMAIN archive
    BY DEF D
  <2> QED BY <1>1, <1>2, <1>3, <2>1 DEF Left
<1> QED BY <1>1, <1>4

(* Lemma: the replay starts, takes its rows and stops.                     *)
LEMMA ReplayMoves ==
  ASSUME IndInv, ReplayInv, StartReplay \/ ReplayNext \/ ReplayStops
  PROVE  ReplayInv'
<1>1. DOMAIN at = Processes /\ {"worker", "replay"} = Processes
  BY Cursors DEF Processes
<1>2. UNCHANGED <<gateway, db, worker, skipped>> /\ UNCHANGED <<stream, archive>>
  BY DEF StartReplay, ReplayNext, ReplayStops, gateway, db
<1>3. CASE ReplayStops
  <2>1. stage' = 0 /\ at'["replay"].pc = "down"
    BY <1>1, <1>3 DEF ReplayStops, At
  <2> QED BY <2>1 DEF ReplayInv, Replaying
<1>4. CASE StartReplay
  <2>1. /\ stage' = 1 /\ todo' = ArchivedRows(1)
        /\ at["worker"].pc \in {"read", "down"}
    BY <1>4 DEF StartReplay, IsAt, CaughtUp
  <2>5. ~ upset' => InOrder
    <3>1. upset' = (upset \/ ~ InOrder)
      BY <1>4 DEF StartReplay
    <3> QED BY <3>1, Zenon
  <2>2. at'["worker"] = at["worker"] /\ at'["replay"].pc = "next"
    BY <1>1, <1>4 DEF StartReplay, At
  <2>3. \A k \in DOMAIN todo' : Left(k)' /\ todo'[k] = archive'[k]
    BY <1>2, <2>1, QueryLeaves
  <2>4. InOrder' = InOrder
    BY <1>2 DEF InOrder
  <2> QED BY <2>1, <2>2, <2>3, <2>4, <2>5 DEF ReplayInv, Replaying, Statements
<1>5. CASE ReplayNext
  <2>0. upset' = upset /\ at["replay"].pc = "next" /\ Replaying /\ stage \in Nat
    BY <1>5 DEF ReplayNext, IsAt, ReplayInv
  <2>00. InOrder' = InOrder /\ \A k : KindOf(k)' = KindOf(k)
    BY <1>2 DEF InOrder, KindOf
  <2>1. ASSUME NEW k \in DOMAIN todo, NEW r, NEW i, r = todo[k][1], i = todo[k][2],
               \A j \in DOMAIN todo : k <= j,
               IF Refused(stream[r][i]) THEN UNCHANGED at
               ELSE At("replay", FirstStatement(stream[r][i], 1), r, i, 1),
               todo' = Restrict(todo, DOMAIN todo \ {k}), stage' = stage
        PROVE  ReplayInv'
    <3>1. at'["worker"] = at["worker"] /\ Replaying'
      BY <1>1, <2>0, <2>1 DEF At, Replaying
    <3>2. DOMAIN todo' = DOMAIN todo \ {k} /\ \A m \in DOMAIN todo' : todo'[m] = todo[m]
      BY <2>1 DEF Restrict
    <3>3. ASSUME ~ upset, NEW m \in DOMAIN archive, Left(m), k <= m PROVE Left(m)'
      <4>1. k \in Nat /\ DOMAIN archive \subseteq Nat
        <5>1. ArchiveOK
          BY DEF IndInv, TablesInv
        <5>2. DOMAIN archive = 1 .. Len(archive) /\ Len(archive) \in Nat
          BY <5>1, LenProperties DEF ArchiveOK
        <5> QED BY <5>1, <5>2 DEF ArchiveOK
      <4>2. \A n \in DOMAIN archive : n > m => n # k
        BY <3>3, <4>1
      <4> QED BY <1>2, <2>00, <3>2, <3>3, <4>2 DEF Left
    <3>4. ASSUME ~ upset, NEW m \in DOMAIN todo PROVE m \in DOMAIN archive /\ todo[m] = archive[m] /\ Left(m)'
      BY <2>0, <2>1, <3>3, <3>4 DEF ReplayInv, Left
    <3>5. ASSUME ~ upset, at'["replay"].pc \in Statements
          PROVE  \E m \in DOMAIN archive' : archive'[m] = EntryOf("replay")' /\ Left(m)'
      <4>1. at' = [at EXCEPT !["replay"] = [pc |-> FirstStatement(stream[r][i], 1), role |-> r, idx |-> i,
                                             item |-> 1]]
        <5>1. at' # at
          BY <2>0, <3>5 DEF Statements
        <5> QED BY <2>1, <5>1 DEF At
      <4>2. EntryOf("replay")' = <<r, i>>
        BY <1>1, <4>1 DEF EntryOf
      <4>3. todo[k] = <<r, i>>
        <5>1. ArchiveOK
          BY DEF IndInv, TablesInv
        <5>2. todo[k] \in Range(archive) /\ archive \in Seq(RoleSet \X Nat)
          BY <2>1, <5>1 DEF ArchiveOK
        <5>3. todo[k] \in RoleSet \X Nat
          BY <5>2, RangeOfSeq
        <5> QED BY <2>1, <5>3
      <4> QED BY <1>2, <3>4, <3>5, <4>2, <4>3
    <3>6. ~ upset' /\ Replaying' =>
            /\ InOrder' /\ at'["worker"].pc \in {"read", "down"}
            /\ \A m \in DOMAIN todo' : Left(m)' /\ todo'[m] = archive'[m]
      BY <1>2, <2>0, <2>00, <3>1, <3>2, <3>4 DEF ReplayInv
    <3> QED BY <2>0, <2>1, <3>1, <3>5, <3>6 DEF ReplayInv
  <2>2. CASE stage' = stage + 1 /\ todo' = ArchivedRows(stage + 1) /\ UNCHANGED at
    <3>1. \A k \in DOMAIN todo' : Left(k)' /\ todo'[k] = archive'[k]
      BY <1>2, <2>2, QueryLeaves
    <3> QED BY <2>0, <2>00, <2>2, <3>1 DEF ReplayInv, Replaying, Statements
  <2>3. CASE stage' = 0 /\ At("replay", "down", "reply", 0, 1)
    <3>1. at'["replay"].pc = "down"
      BY <1>1, <2>3 DEF At
    <3> QED BY <2>3, <3>1 DEF ReplayInv, Replaying
  <2> QED BY <1>5, <2>1, <2>2, <2>3 DEF ReplayNext
<1> QED BY <1>3, <1>4, <1>5

(* Lemma: every step keeps what the replay knows.                          *)
LEMMA ReplayInvNext ==
  ASSUME IndInv, ReplayInv, [Next]_vars
  PROVE  ReplayInv'
<1>1. DOMAIN at = Processes /\ {"worker", "replay"} = Processes
  BY Cursors DEF Processes
<1>2. CASE Read \/ SaveCheckpoint \/ SaveCheckpointFails
  <2>1. UNCHANGED replay /\ upset' = (upset \/ Replaying)
    BY <1>2 DEF Read, SaveCheckpoint, SaveCheckpointFails, Advance, Overlap
  <2>2. at'["replay"] = at["replay"]
    BY <1>1, <1>2 DEF Read, SaveCheckpoint, SaveCheckpointFails, Advance, At
  <2> QED BY <2>1, <2>2, ReplayKept DEF replay
<1>3. CASE Crash \/ \E unread \in SUBSET RoleSet : Restart(unread)
  <2>0. UNCHANGED <<gateway, db, replay>>
    BY <1>3 DEF Crash, Restart
  <2>1. UNCHANGED <<stage, todo>> /\ UNCHANGED <<stream, archive>>
    BY <2>0 DEF db, gateway, replay
  <2>3. upset => upset'
    <3>1. CASE Crash
      <4>1. upset' = (upset \/ Repeating)
        BY <3>1 DEF Crash
      <4> QED BY <4>1, Zenon
    <3>2. CASE \E unread \in SUBSET RoleSet : Restart(unread)
      BY <3>2 DEF Restart
    <3> QED BY <1>3, <3>1, <3>2
  <2>2. at'["replay"] = at["replay"] /\ at'["worker"].pc \in {"read", "down"}
    BY <1>1, <1>3 DEF Crash, Restart, At
  <2> QED BY <2>1, <2>2, <2>3, ReplayKept
<1>4. CASE StartReplay \/ ReplayNext \/ ReplayStops
  BY <1>4, ReplayMoves
<1>5. CASE UNCHANGED vars
  <2>1. UNCHANGED <<replay, stream, archive, at, upset>>
    BY <1>5 DEF vars, gateway, db
  <2> QED BY <2>1, ReplayKept DEF replay
<1>6. CASE Broker
  <2>1. UNCHANGED <<stage, todo>> /\ at'["replay"] = at["replay"] /\ ~ Replaying /\ upset' = upset
    BY <1>6 DEF Broker, replay
  <2> QED BY <2>1 DEF ReplayInv, Replaying
<1>7. CASE \E p \in Processes : Executes(p)
  BY <1>7, ReplayExecutes
<1> QED BY <1>1, <1>2, <1>3, <1>4, <1>5, <1>6, <1>7 DEF Next, Step, Executes

-----------------------------------------------------------------------------
(* An order that has traded in part and whose row does not show it: an     *)
(* event that tells it is still to come.  The worker will come to it, or   *)
(* the replay, or it failed; and no process is past its report.            *)
Stale(o) == broker[o].st = "partially_filled" /\ rows[o] # NoRow /\ rows[o].st # "partially_filled"
WorkerAhead(i) ==
  /\ cursor["event"] < i
  /\ at["worker"].pc = "down" => ckpt["event"] < i
  /\ at["worker"].pc = "report" => hi["event"] < i
  /\ at["worker"].pc \in Statements /\ at["worker"].role = "event" => at["worker"].idx <= i
ReplayAhead(i) ==
  /\ Replaying
  /\ \/ at["replay"].pc = "order" /\ EntryOf("replay") = <<"event", i>>
     \/ \E k \in DOMAIN todo : todo[k] = <<"event", i>>
ToCome(i) ==
  /\ <<"event", i>> \in skipped \/ WorkerAhead(i) \/ ReplayAhead(i)
  /\ \A p \in Processes : at[p].pc \in Statements /\ EntryOf(p) = <<"event", i>> =>
       at[p].pc \in {"archive", "order"}
StaleInv ==
  ~ Queried("page") /\ ~ upset => \A o \in Orders : Stale(o) =>
       \E i \in DOMAIN stream["event"] : Sends(stream["event"][i], o, "partially_filled") /\ ToCome(i)

(* Lemma: the worker ends an entry, and what is behind it stays ahead.     *)
LEMMA WorkerOn ==
  ASSUME IndInv, NEW i \in Nat, WorkerAhead(i), at["worker"].pc \in Statements,
         UNCHANGED <<cursor, hi, ckpt>>, WorkerGoesOn, EntryOf("worker") # <<"event", i>>
  PROVE  WorkerAhead(i)' /\ at'["worker"].pc \in {"archive", "report"}
<1>1. PICK r \in RoleSet, m \in Nat : r = at["worker"].role /\ m = at["worker"].idx
  BY Cursors DEF Place
<1>2. PICK c, h : c = cursor["event"] /\ h = hi["event"] /\ c \in Nat /\ h \in Nat
  BY Cursors DEF RoleSet
<1>3. /\ c < i /\ (r = "event" => m <= h /\ m < i) /\ r \in {"reply", "event"}
      /\ at["worker"].idx \in Nat /\ hi[r] \in Nat
  <2>1. r = "event" => m # i
    BY <1>1 DEF EntryOf
  <2>2. c < i /\ (r = "event" => m <= i /\ m <= h)
    BY <1>1, <1>2 DEF WorkerAhead, IndInv, BatchInv
  <2> QED BY <1>1, <2>1, <2>2, Cursors DEF RoleSet
<1>4. DOMAIN at = Processes /\ "worker" \in Processes /\ Statements \cap {"report", "down"} = {}
  BY Cursors DEF Statements, Processes
<1>5. CASE m < hi[r]
  <2>1. At("worker", "archive", r, m + 1, 1)
    BY <1>1, <1>5 DEF WorkerGoesOn
  <2>2. at'["worker"].pc = "archive" /\ at'["worker"].role = r /\ at'["worker"].idx = m + 1
    BY <1>4, <2>1 DEF At
  <2> QED BY <1>2, <1>3, <2>2 DEF WorkerAhead
<1>6. CASE ~ (m < hi[r]) /\ r = "reply" /\ "event" \in InBatch(cursor)
  <2>1. At("worker", "archive", "event", c + 1, 1)
    BY <1>1, <1>2, <1>6 DEF WorkerGoesOn
  <2>2. at'["worker"].pc = "archive" /\ at'["worker"].role = "event" /\ at'["worker"].idx = c + 1
    BY <1>4, <2>1 DEF At
  <2> QED BY <1>2, <1>3, <2>2 DEF WorkerAhead
<1>7. CASE ~ (m < hi[r]) /\ ~ (r = "reply" /\ "event" \in InBatch(cursor))
  <2>1. At("worker", "report", FirstRole(InBatch(cursor)), 0, 1)
    BY <1>1, <1>7 DEF WorkerGoesOn
  <2>2. at'["worker"].pc = "report"
    BY <1>4, <2>1 DEF At
  <2>3. h < i
    <3>1. CASE r = "event"
      BY <1>2, <1>3, <1>7, <3>1
    <3>2. CASE r = "reply"
      BY <1>2, <1>3, <1>7, <3>2 DEF InBatch, RoleSet
    <3> QED BY <1>3, <3>1, <3>2
  <2> QED BY <1>2, <1>3, <1>4, <2>2, <2>3 DEF WorkerAhead
<1> QED BY <1>5, <1>6, <1>7

(* Lemma: an event stays to come while statements of other entries run,    *)
(* when its own fails, and when it has been archived.                      *)
LEMMA HopeStep ==
  ASSUME IndInv, ReplayInv, NEW p \in Processes, Executes(p), ~ upset',
         NEW i \in Nat, ToCome(i),
         \/ EndEntry(p, FALSE)
         \/ EntryOf(p) # <<"event", i>>
         \/ at[p].pc = "archive" /\ Go(p, "order") /\ skipped' = skipped
  PROVE  ToCome(i)'
<1>1. /\ at[p].pc \in Statements
      /\ UNCHANGED <<stream, cursor, hi, ckpt, stage, todo>>
      /\ upset' = (upset \/ (p = "worker" /\ Replaying))
  BY Execution
<1>2. /\ \A q \in Processes : q # p => at'[q] = at[q]
      /\ \/ /\ at'[p].pc \in Statements /\ skipped' = skipped
            /\ at'[p].role = at[p].role /\ at'[p].idx = at[p].idx
         \/ EndEntry(p, FALSE) \/ EndEntry(p, TRUE)
  BY Execution, Moves
<1>3. p = "worker" => ~ Replaying
  BY <1>1, Zenon
<1>4. Replaying' = Replaying
  BY <1>1 DEF Replaying
<1>5. DOMAIN at = Processes /\ p \in {"worker", "replay"} /\ "next" \notin Statements /\ "report" \notin Statements
  BY Cursors DEF Processes, Statements
<1>6. ASSUME NEW ok, EndEntry(p, ok) PROVE at'[p].pc \in {"next", "report", "archive"}
  <2>1. CASE p = "replay"
    <3>1. At("replay", "next", "reply", 0, 1)
      BY <1>6, <2>1 DEF EndEntry
    <3> QED BY <1>5, <2>1, <3>1 DEF At
  <2>2. CASE p = "worker"
    <3>1. WorkerGoesOn
      BY <1>6, <2>2 DEF EndEntry
    <3> QED BY <1>1, <2>2, <3>1, WorkerGoes
  <2> QED BY <1>5, <2>1, <2>2
<1>7. ASSUME NEW q \in Processes, at'[q].pc \in Statements, EntryOf(q)' = <<"event", i>>
      PROVE  at'[q].pc \in {"archive", "order"}
  <2>1. CASE q # p
    BY <1>2, <1>7, <2>1 DEF ToCome, EntryOf
  <2>2. CASE q = p /\ \E ok \in BOOLEAN : EndEntry(p, ok)
    BY <1>5, <1>6, <1>7, <2>2
  <2>3. CASE q = p /\ ~ EndEntry(p, FALSE) /\ ~ EndEntry(p, TRUE)
    <3>1. EntryOf(p)' = EntryOf(p)
      BY <1>2, <2>3 DEF EntryOf
    <3>2. Go(p, "order")
      BY <1>7, <2>3, <3>1
    <3>3. at'[p].pc = "order"
      BY <3>2, Goes DEF IndInv, Statements
    <3> QED BY <2>3, <3>3
  <2> QED BY <2>1, <2>2, <2>3
<1>8. <<"event", i>> \in skipped' \/ WorkerAhead(i)' \/ ReplayAhead(i)'
  <2>0. EndEntry(p, FALSE) /\ EntryOf(p) = <<"event", i>> => <<"event", i>> \in skipped'
    BY DEF EndEntry
  <2>1. CASE <<"event", i>> \in skipped
    <3>1. CASE \E ok \in BOOLEAN : EndEntry(p, ok)
      BY <2>0, <2>1, <3>1 DEF EndEntry
    <3>2. CASE skipped' = skipped
      BY <2>1, <3>2
    <3> QED BY <1>2, <3>1, <3>2
  <2>2. CASE WorkerAhead(i) /\ p = "replay"
    <3>1. at'["worker"] = at["worker"]
      BY <1>2, <2>2 DEF Processes
    <3> QED BY <1>1, <2>2, <3>1 DEF WorkerAhead
  <2>3. CASE WorkerAhead(i) /\ p = "worker" /\ ~ EndEntry(p, FALSE) /\ ~ EndEntry(p, TRUE)
    BY <1>1, <1>2, <2>3 DEF WorkerAhead, Statements
  <2>4. CASE WorkerAhead(i) /\ p = "worker" /\ \E ok \in BOOLEAN : EndEntry(p, ok)
    <3>1. WorkerGoesOn
      BY <2>4 DEF EndEntry
    <3>2. CASE EntryOf(p) # <<"event", i>>
      BY <1>1, <2>4, <3>1, <3>2, WorkerOn
    <3>3. CASE EntryOf(p) = <<"event", i>>
      <4>1. ~ Go(p, "order") \/ EndEntry(p, FALSE)
        <5>1. ASSUME Go(p, "order") PROVE FALSE
          <6>1. at'[p].pc = "order"
            BY <5>1, Goes DEF IndInv, Statements
          <6> QED BY <1>6, <2>4, <6>1
        <5> QED BY <5>1
      <4> QED BY <2>0, <3>3, <4>1
    <3> QED BY <3>2, <3>3
  <2>5. CASE ReplayAhead(i)
    <3>1. p = "replay"
      BY <1>3, <1>5, <2>5 DEF ReplayAhead
    <3>2. CASE \E k \in DOMAIN todo : todo[k] = <<"event", i>>
      BY <1>1, <1>4, <2>5, <3>2 DEF ReplayAhead
    <3>3. CASE at["replay"].pc = "order" /\ EntryOf("replay") = <<"event", i>>
      BY <2>0, <3>1, <3>3
    <3> QED BY <2>5, <3>2, <3>3 DEF ReplayAhead
  <2> QED BY <1>2, <1>5, <2>1, <2>2, <2>3, <2>4, <2>5 DEF ToCome
<1> QED BY <1>7, <1>8 DEF ToCome

(* Lemma: the statement of a partial report that is not written yet.       *)
LEMMA ReportFails ==
  ASSUME IndInv, NEW p \in Processes, Executes(p), at[p].pc \in {"archive", "order"},
         Current(p).kind = "order", ~ WriteOrder(p) \/ GiveUp(p)
  PROVE  EndEntry(p, FALSE) \/ (at[p].pc = "archive" /\ Go(p, "order") /\ skipped' = skipped)
<1>1. CASE StatementFails(p) \/ WriteOrder(p)
  BY <1>1 DEF StatementFails, GiveUp
<1>2. CASE p = "worker" /\ ArchiveRawStreamMessage
  <2>1. ~ Refused(Current("worker"))
    BY <1>2 DEF Refused, DecodeEntry
  <2>2. Go("worker", FirstStatement(Current("worker"), 1)) /\ skipped' = skipped
    BY <1>2, <2>1 DEF ArchiveRawStreamMessage
  <2>3. FirstStatement(Current("worker"), 1) = "order"
    BY <1>2 DEF FirstStatement
  <2> QED BY <1>2, <2>2, <2>3 DEF ArchiveRawStreamMessage, IsAt
<1> QED BY <1>1, <1>2 DEF Executes, AppendOrderEvent, InsertFill, DeleteSummaryFills, InsertComponentTransfer,
         UpsertOrderCancelAttempt, UpsertOrderFeeRecord, SynthesizeSummaryFill, IsAt

(* Lemma: an order that has traded in part was told so by an event, and    *)
(* was accepted by events before it.                                       *)
LEMMA PartTold ==
  ASSUME IndInv, KnownInv, ToldInOrder, NEW o \in Orders, broker[o].st = "partially_filled"
  PROVE  \E i \in DOMAIN stream["event"] : Sends(stream["event"][i], o, "partially_filled")
<1>1. PICK r \in RoleSet : \E i \in DOMAIN stream[r] : Newest(stream[r][i], o)
  BY DEF KnownInv
<1>2. PICK i \in DOMAIN stream[r] : Newest(stream[r][i], o)
  BY <1>1
<1>3. PICK e : e = stream[r][i] /\ EntryOK(e) /\ EntryKnown(r, e) /\ Newest(e, o)
  BY <1>2, StreamLengths DEF IndInv, KnownInv
<1>4. e.items[1].o = o /\ e.items[1].rep.st = "partially_filled"
  <2>1. StateOf(e.items[1].rep).st = "partially_filled"
    BY <1>3 DEF Newest
  <2> QED BY <1>3, <2>1 DEF StateOf, Newest
<1>5. e.kind = "order"
  <2>1. 1 \in DOMAIN e.items
    BY <1>3 DEF EntryOK, Newest, IsReport
  <2> QED BY <1>3, <1>4, <2>1 DEF EntryKnown, Newest, IsReport, Reports
<1>6. r = "event"
  BY <1>2, <1>3, <1>5 DEF ToldInOrder
<1> QED BY <1>3, <1>4, <1>5, <1>6 DEF Sends

(* Lemma: while the acceptance of an order is written, a later event of it *)
(* is still to come: the worker has not come to it, and a replay of the    *)
(* archive has it among its rows, unless it never was archived.            *)
LEMMA LaterComes ==
  ASSUME IndInv, ReplayInv, NEW p \in Processes, at[p].pc \in Statements, ~ upset,
         p = "worker" => ~ Replaying,
         UNCHANGED <<stream, cursor, hi, ckpt, stage, todo, skipped>>,
         NEW l \in Statements, Go(p, l),
         NEW i \in DOMAIN stream["event"], NEW j \in Nat, EntryOf(p) = <<"event", j>>, j < i,
         stream["event"][i].kind = "order", stream["event"][j].kind = "order"
  PROVE  ToCome(i)'
<1>0. PICK r \in RoleSet : r = "event"
  BY DEF RoleSet
<1>1. PICK x \in Place : /\ at' = [at EXCEPT ![p] = x] /\ at'[p] = x
                         /\ x.pc = l /\ x.role = at[p].role /\ x.idx = at[p].idx
  BY Goes DEF IndInv
<1>2. at[p].role = r /\ at[p].idx = j /\ i \in Nat /\ DOMAIN at = Processes
  BY <1>0, Cursors DEF EntryOf
<1>3. \A q \in Processes : q # p => at'[q] = at[q]
  BY <1>1, <1>2
<1>4. Statements \cap {"read", "down", "report", "next"} = {}
  BY DEF Statements
<1>5. EntryOf(p)' # <<"event", i>>
  BY <1>1, <1>2 DEF EntryOf
<1>6. CASE p = "worker"
  <2>1. at'["replay"].pc \notin Statements
    BY <1>3, <1>4, <1>6 DEF ReplayInv, Processes
  <2>2. WorkerAhead(i)'
    <3>1. cursor["event"] < j
      BY <1>0, <1>2, <1>6 DEF IndInv, BatchInv
    <3>2. cursor["event"] \in Nat
      BY <1>0, Cursors
    <3>3. at'["worker"].pc = l /\ at'["worker"].idx = j
      BY <1>1, <1>2, <1>6
    <3> QED BY <1>2, <1>4, <3>1, <3>2, <3>3 DEF WorkerAhead
  <2>3. \A q \in Processes : at'[q].pc \in Statements /\ EntryOf(q)' = <<"event", i>> =>
          at'[q].pc \in {"archive", "order"}
    BY <1>5, <1>6, <2>1 DEF Processes
  <2> QED BY <2>2, <2>3 DEF ToCome
<1>7. CASE p = "replay"
  <2>1. Replaying /\ Replaying'
    BY <1>4, <1>7 DEF ReplayInv, Replaying
  <2>2. at'["worker"] = at["worker"] /\ at["worker"].pc \in {"read", "down"} /\ InOrder
    BY <1>3, <1>7, <2>1 DEF ReplayInv, Processes
  <2>3. \A q \in Processes : at'[q].pc \in Statements /\ EntryOf(q)' = <<"event", i>> =>
          at'[q].pc \in {"archive", "order"}
    BY <1>4, <1>5, <1>7, <2>2 DEF Processes
  <2>4. PICK k \in DOMAIN archive : archive[k] = <<"event", j>> /\ Left(k)
    BY <1>7, <2>1 DEF ReplayInv
  <2>5. DOMAIN archive \subseteq Nat
    <3>1. archive \in Seq(RoleSet \X Nat)
      BY DEF IndInv, TablesInv, ArchiveOK
    <3> QED BY <3>1, LenProperties
  <2>6. CASE \E m \in DOMAIN archive : archive[m] = <<"event", i>>
    <3>1. PICK m \in DOMAIN archive : archive[m] = <<"event", i>>
      BY <2>6
    <3>2. archive[m][1] = "event" /\ archive[m][2] = i /\ archive[k][1] = "event" /\ archive[k][2] = j
      BY <2>4, <3>1
    <3>3. m \in Nat /\ k \in Nat
      BY <2>5
    <3>4. ~ (m < k) /\ m # k
      <4>1. m < k => i < j
        BY <2>2, <3>2 DEF InOrder
      <4> QED BY <1>2, <3>2, <4>1
    <3>5. m > k /\ KindOf(m) = KindOf(k)
      BY <3>2, <3>3, <3>4 DEF KindOf
    <3>6. m \in DOMAIN todo /\ todo[m] = <<"event", i>>
      BY <2>4, <3>1, <3>5 DEF Left
    <3> QED BY <2>1, <2>3, <3>6 DEF ToCome, ReplayAhead
  <2>7. CASE ~ \E m \in DOMAIN archive : archive[m] = <<"event", i>>
    <3>1. ~ Covered(r, i)
      BY <1>0, <2>7 DEF Covered, Range
    <3>2. ~ Worked(r, i) \/ <<"event", i>> \in skipped
      BY <1>0, <3>1 DEF IndInv, CoverInv
    <3>3. ~ Worked(r, i) => cursor["event"] < i /\ ckpt["event"] < i
      BY <1>0, <1>2, Cursors DEF Worked
    <3>4. ~ Worked(r, i) => WorkerAhead(i)'
      BY <1>4, <2>2, <3>3 DEF WorkerAhead
    <3> QED BY <2>3, <3>2, <3>4 DEF ToCome
  <2> QED BY <2>6, <2>7
<1> QED BY <1>6, <1>7 DEF Processes

(* Lemma: statements keep it.  Writing the acceptance over a partial fill  *)
(* makes the row stale, and then the fill comes later; writing a partial   *)
(* fill does not.                                                          *)
LEMMA StaleExecutes ==
  ASSUME IndInv, KnownInv, RowInv, ToldInOrder, ReplayInv, StaleInv, NEW p \in Processes, Executes(p)
  PROVE  StaleInv'
<1>1. /\ at[p].pc \in Statements
      /\ UNCHANGED <<stream, broker, cursor, hi, ckpt, stage, todo>>
      /\ upset' = (upset \/ (p = "worker" /\ Replaying))
      /\ ~ WriteOrder(p) => rows' = rows
  BY Execution
<1>2. Queried("page")' = Queried("page")
  BY <1>1 DEF Queried
<1> SUFFICES ASSUME ~ Queried("page"), ~ upset', NEW o \in Orders, Stale(o)'
             PROVE  \E i \in DOMAIN stream["event"] :
                      Sends(stream["event"][i], o, "partially_filled") /\ ToCome(i)'
  BY <1>1, <1>2 DEF StaleInv
<1>3. ~ upset /\ (p = "worker" => ~ Replaying)
  BY <1>1, Zenon
<1>4. broker[o].st = "partially_filled" /\ rows'[o] # NoRow /\ rows'[o].st # "partially_filled"
  BY <1>1 DEF Stale
<1>0. PICK ev \in RoleSet : ev = "event"
  BY DEF RoleSet
<1>5. PICK r \in RoleSet, j \in Nat :
        r = at[p].role /\ j = at[p].idx /\ <<r, j>> = EntryOf(p) /\ j \in DOMAIN stream[r]
  BY <1>1, Here
<1>6. PICK e : e = Current(p) /\ e = stream[r][j] /\ EntryOK(e)
  BY <1>1, <1>5, Here
<1>7. DOMAIN stream["event"] \subseteq Nat
  BY <1>0, Cursors
<1>8. CASE WriteOrder(p) /\ ~ GiveUp(p)
  <2>1. PICK f, z, b, new :
           /\ f = Current(p) /\ EntryOK(f) /\ IsReport(f) /\ z = f.items[1].o /\ z \in Orders
           /\ b = StateOf(f.items[1].rep) /\ b \in [st : BrokerStatus, cum : 0 .. Qty] /\ Was(b, z)
           /\ Follows(new, broker[z]) /\ Has(new, b)
           /\ (~ Terminal(broker[z].st) => new.st = b.st)
           /\ new # NoRow /\ (rows[z] # NoRow => Onward(rows[z], new))
           /\ (\A y \in Orders : rows'[y] = IF y = z THEN new ELSE rows[y])
           /\ (\E l \in {"summary", "append"} : Go(p, l)) /\ skipped' = skipped
    BY <1>8, OrderWrites
  <2>2. CASE z # o
    <3>1. Stale(o)
      BY <1>4, <2>1, <2>2 DEF Stale
    <3>2. PICK i \in DOMAIN stream["event"] :
            Sends(stream["event"][i], o, "partially_filled") /\ ToCome(i)
      BY <1>3, <3>1 DEF StaleInv
    <3>3. EntryOf(p) # <<"event", i>>
      <4> SUFFICES ASSUME EntryOf(p) = <<"event", i>> PROVE FALSE
        OBVIOUS
      <4>1. r = "event" /\ j = i
        BY <1>5
      <4> QED BY <1>6, <2>1, <2>2, <3>2, <4>1 DEF Sends
    <3> QED BY <1>7, <3>2, <3>3, HopeStep
  <2>3. CASE z = o
    <3>1. b.st # "partially_filled" /\ ~ Terminal(b.st)
      <4>1. ~ Terminal("partially_filled")
        BY DEF Terminal, TerminalStatus
      <4>2. b.st # "partially_filled"
        BY <1>4, <2>1, <2>3, <4>1
      <4>3. Terminal(b.st) => b = broker[o]
        BY <2>1, <2>3 DEF Was
      <4> QED BY <1>4, <4>1, <4>2, <4>3
    <3>2. b.st = f.items[1].rep.st
      BY <2>1 DEF StateOf
    <3>0. f = e
      BY <1>6, <2>1
    <3>3. 1 \in DOMAIN f.items /\ EntryKnown(r, f)
      <4>1. EntryKnown(r, e)
        BY <1>5, <1>6 DEF KnownInv
      <4>2. 1 \in DOMAIN f.items
        BY <2>1 DEF EntryOK, IsReport
      <4> QED BY <3>0, <4>1, <4>2
    <3>4. b.st # "new" /\ f.kind = "order"
      <4>1. Terminal("rejected")
        BY DEF Terminal, TerminalStatus
      <4> QED BY <2>1, <3>1, <3>2, <3>3, <4>1 DEF EntryKnown, IsReport, Reports
    <3>5. b.st = "working"
      BY <2>1, <3>1, <3>4 DEF BrokerStatus, Terminal
    <3>6. r = "event" /\ Sends(stream["event"][j], o, "working")
      <4>1. r = "event"
        BY <1>5, <1>6, <3>0, <3>4 DEF ToldInOrder
      <4> QED BY <1>6, <2>1, <2>3, <3>0, <3>2, <3>4, <3>5, <4>1 DEF Sends
    <3>7. PICK i \in DOMAIN stream["event"] : Sends(stream["event"][i], o, "partially_filled")
      BY <1>4, PartTold
    <3>8. j < i
      BY <1>5, <3>6, <3>7 DEF ToldInOrder
    <3>9. PICK l \in Statements : Go(p, l)
      BY <2>1 DEF Statements
    <3>10. stream["event"][i].kind = "order" /\ stream["event"][j].kind = "order"
      BY <3>6, <3>7 DEF Sends
    <3>11. ToCome(i)'
      BY <1>1, <1>3, <1>5, <2>1, <3>6, <3>8, <3>9, <3>10, LaterComes
    <3> QED BY <3>7, <3>11
  <2> QED BY <2>2, <2>3
<1>9. CASE ~ WriteOrder(p) \/ GiveUp(p)
  <2>1. rows' = rows
    BY <1>1, <1>9 DEF GiveUp, orderTables
  <2>2. Stale(o)
    BY <1>4, <2>1 DEF Stale
  <2>3. PICK i \in DOMAIN stream["event"] :
          Sends(stream["event"][i], o, "partially_filled") /\ ToCome(i)
    BY <1>3, <2>2 DEF StaleInv
  <2>4. \/ EndEntry(p, FALSE) \/ EntryOf(p) # <<"event", i>>
        \/ at[p].pc = "archive" /\ Go(p, "order") /\ skipped' = skipped
    <3> SUFFICES ASSUME EntryOf(p) = <<"event", i>>
                 PROVE  EndEntry(p, FALSE) \/ (at[p].pc = "archive" /\ Go(p, "order") /\ skipped' = skipped)
      OBVIOUS
    <3>1. at[p].pc \in {"archive", "order"}
      BY <1>1, <2>3 DEF ToCome
    <3>2. r = "event" /\ j = i
      BY <1>5
    <3>3. Current(p).kind = "order"
      BY <1>6, <2>3, <3>2 DEF Sends
    <3> QED BY <1>9, <3>1, <3>3, ReportFails
  <2> QED BY <1>7, <2>3, <2>4, HopeStep
<1> QED BY <1>8, <1>9

(* Lemma: nothing is written, and what was to come still is.               *)
LEMMA StaleKept ==
  ASSUME StaleInv, UNCHANGED <<stream, broker, rows>>,
         ~ upset' => ~ upset /\ \A i \in DOMAIN stream["event"] :
                                  stream["event"][i].kind = "order" /\ ToCome(i) => ToCome(i)'
  PROVE  StaleInv'
<1>1. Queried("page")' = Queried("page")
  BY DEF Queried
<1> SUFFICES ASSUME ~ Queried("page"), ~ upset', NEW o \in Orders, Stale(o)'
             PROVE  \E i \in DOMAIN stream["event"] :
                      Sends(stream["event"][i], o, "partially_filled") /\ ToCome(i)'
  BY <1>1 DEF StaleInv
<1>2. Stale(o)
  BY DEF Stale
<1>3. PICK i \in DOMAIN stream["event"] : Sends(stream["event"][i], o, "partially_filled") /\ ToCome(i)
  BY <1>2 DEF StaleInv
<1> QED BY <1>3 DEF Sends

(* Lemma: the worker moves in its loop, stops and starts.                  *)
LEMMA StaleWorker ==
  ASSUME IndInv, ReplayInv, StaleInv,
         \/ Read \/ SaveCheckpoint \/ SaveCheckpointFails \/ Crash
         \/ \E unread \in SUBSET RoleSet : Restart(unread)
  PROVE  StaleInv'
<1>0. PICK ev \in RoleSet : ev = "event"
  BY DEF RoleSet
<1>1. UNCHANGED <<stream, broker, rows, skipped, stage, todo>>
  BY DEF Read, SaveCheckpoint, SaveCheckpointFails, Advance, Crash, Restart, gateway, db, orderTables, replay
<1>2. DOMAIN at = Processes /\ "replay" \in Processes /\ "worker" \in Processes
  BY Cursors DEF Processes
<1>3. at'["replay"] = at["replay"]
  BY <1>2 DEF Read, SaveCheckpoint, SaveCheckpointFails, Advance, Crash, Restart, At
<1>4. Statements \cap {"read", "down", "report", "next"} = {}
  BY DEF Statements
<1>5. ASSUME NEW i, ReplayAhead(i) PROVE ReplayAhead(i)'
  BY <1>1, <1>3, <1>5 DEF ReplayAhead, Replaying, EntryOf
<1>6. ASSUME NEW i, ToCome(i), WorkerAhead(i) => WorkerAhead(i)',
             at'["worker"].pc \notin Statements \ {"archive"}
      PROVE  ToCome(i)'
  <2>1. <<"event", i>> \in skipped' \/ WorkerAhead(i)' \/ ReplayAhead(i)'
    BY <1>1, <1>5, <1>6 DEF ToCome
  <2>2. \A p \in Processes : at'[p].pc \in Statements /\ EntryOf(p)' = <<"event", i>> =>
          at'[p].pc \in {"archive", "order"}
    BY <1>3, <1>6 DEF ToCome, EntryOf, Processes
  <2> QED BY <2>1, <2>2 DEF ToCome
<1>7. DOMAIN stream["event"] \subseteq Nat \ {0}
  BY <1>0, Cursors
<1>8. CASE Read
  <2>1. ~ upset' => ~ upset
    <3>1. upset' = (upset \/ ("worker" = "worker" /\ Replaying))
      BY <1>8 DEF Read, Overlap
    <3> QED BY <3>1, Zenon
  <2>2. PICK r \in RoleSet : At("worker", "archive", r, cursor[r] + 1, 1)
    <3>1. PICK new \in SUBSET RoleSet : At("worker", "archive", FirstRole(new), cursor[FirstRole(new)] + 1, 1)
      BY <1>8 DEF Read
    <3>2. PICK r \in RoleSet : r = FirstRole(new)
      BY DEF FirstRole, RoleSet
    <3> QED BY <3>1, <3>2
  <2>3. at'["worker"].pc = "archive" /\ at'["worker"].role = r /\ at'["worker"].idx = cursor[r] + 1
    BY <1>2, <2>2 DEF At
  <2>4. ASSUME NEW i \in DOMAIN stream["event"], WorkerAhead(i) PROVE WorkerAhead(i)'
    <3>1. cursor' = cursor /\ cursor["event"] \in Nat /\ i \in Nat
      BY <1>0, <1>7, <1>8, Cursors DEF Read
    <3> QED BY <1>4, <2>3, <2>4, <3>1 DEF WorkerAhead
  <2> QED BY <1>1, <1>6, <2>1, <2>3, <2>4, StaleKept
<1>9. CASE SaveCheckpoint \/ SaveCheckpointFails
  <2>0. Advance
    BY <1>9 DEF SaveCheckpoint, SaveCheckpointFails
  <2>1. ~ upset' => ~ upset
    <3>1. upset' = (upset \/ ("worker" = "worker" /\ Replaying))
      BY <2>0 DEF Advance, Overlap
    <3> QED BY <3>1, Zenon
  <2>2. PICK r \in RoleSet : r = at["worker"].role
    BY Cursors DEF Place
  <2>3. cursor' = [cursor EXCEPT ![r] = hi[r]] /\ hi' = hi /\ at["worker"].pc = "report"
    BY <2>0, <2>2 DEF Advance, IsAt
  <2>4. at'["worker"].pc \in {"read", "report"}
    BY <1>2, <2>0 DEF Advance, At
  <2>5. ASSUME NEW i \in DOMAIN stream["event"], WorkerAhead(i) PROVE WorkerAhead(i)'
    <3>1. cursor["event"] < i /\ hi["event"] < i
      BY <2>3, <2>5 DEF WorkerAhead
    <3>2. cursor'["event"] = cursor["event"] \/ cursor'["event"] = hi["event"]
      BY <1>0, <2>3, Cursors
    <3> QED BY <1>4, <2>3, <2>4, <3>1, <3>2 DEF WorkerAhead
  <2> QED BY <1>1, <1>4, <1>6, <2>1, <2>4, <2>5, StaleKept
<1>10. CASE Crash
  <2>1. ~ upset' => ~ upset /\ ~ Repeating
    <3>1. upset' = (upset \/ Repeating)
      BY <1>10 DEF Crash
    <3> QED BY <3>1, Zenon
  <2>2. at'["worker"].pc = "down"
    BY <1>2, <1>10 DEF Crash, At
  <2>3. ASSUME NEW i \in DOMAIN stream["event"], WorkerAhead(i), ~ upset' PROVE WorkerAhead(i)'
    <3>1. cursor["event"] < i /\ i \in Nat \ {0}
      BY <1>7, <2>3 DEF WorkerAhead
    <3>2. cursor'["event"] = 0 /\ ckpt'["event"] = ckpt["event"]
      BY <1>10 DEF Crash, RoleSet, db
    <3>3. ckpt["event"] <= cursor["event"] /\ cursor["event"] \in Nat /\ ckpt["event"] \in Nat
      BY <1>0, <2>1, <2>3, Cursors DEF Repeating
    <3> QED BY <1>4, <2>2, <3>1, <3>2, <3>3 DEF WorkerAhead
  <2> QED BY <1>1, <1>4, <1>6, <2>1, <2>2, <2>3, StaleKept
<1>11. CASE \E unread \in SUBSET RoleSet : Restart(unread)
  <2>1. PICK unread \in SUBSET RoleSet : Restart(unread)
    BY <1>11
  <2>2. upset' = upset /\ at["worker"].pc = "down" /\ at'["worker"].pc = "read"
    BY <1>2, <2>1 DEF Restart, IsAt, At
  <2>3. ASSUME NEW i \in DOMAIN stream["event"], WorkerAhead(i) PROVE WorkerAhead(i)'
    <3>1. ckpt["event"] < i /\ i \in Nat \ {0}
      BY <1>7, <2>2, <2>3 DEF WorkerAhead
    <3>2. cursor'["event"] \in {0, ckpt["event"]}
      BY <2>1 DEF Restart, StartAt, RoleSet
    <3> QED BY <1>4, <2>2, <3>1, <3>2 DEF WorkerAhead
  <2> QED BY <1>1, <1>4, <1>6, <2>2, <2>3, StaleKept
<1> QED BY <1>8, <1>9, <1>10, <1>11

(* Lemma: the replay starts, takes its rows and stops.                     *)
LEMMA StaleReplay ==
  ASSUME IndInv, ReplayInv, StaleInv, StartReplay \/ ReplayNext \/ ReplayStops
  PROVE  StaleInv'
<1>0. PICK ev \in RoleSet : ev = "event"
  BY DEF RoleSet
<1>1. UNCHANGED <<stream, broker, rows, cursor, hi, ckpt, skipped>>
  BY DEF StartReplay, ReplayNext, ReplayStops, gateway, db, orderTables, worker
<1>2. DOMAIN at = Processes /\ "replay" \in Processes /\ "worker" \in Processes
  BY Cursors DEF Processes
<1>3. at'["worker"] = at["worker"]
  BY <1>2 DEF StartReplay, ReplayNext, ReplayStops, At
<1>4. Statements \cap {"read", "down", "report", "next"} = {}
  BY DEF Statements
<1>5. ASSUME NEW i, WorkerAhead(i) PROVE WorkerAhead(i)'
  BY <1>1, <1>3, <1>5 DEF WorkerAhead
<1>6. ASSUME NEW i, ToCome(i), ReplayAhead(i) => ReplayAhead(i)',
             at'["replay"].pc \in Statements /\ EntryOf("replay")' = <<"event", i>> =>
               at'["replay"].pc = "order"
      PROVE  ToCome(i)'
  <2>1. <<"event", i>> \in skipped' \/ WorkerAhead(i)' \/ ReplayAhead(i)'
    BY <1>1, <1>5, <1>6 DEF ToCome
  <2>2. \A p \in Processes : at'[p].pc \in Statements /\ EntryOf(p)' = <<"event", i>> =>
          at'[p].pc \in {"archive", "order"}
    BY <1>3, <1>6 DEF ToCome, EntryOf, Processes
  <2> QED BY <2>1, <2>2 DEF ToCome
<1>7. CASE StartReplay
  <2>1. ~ upset' => ~ upset
    <3>1. upset' = (upset \/ ~ InOrder)
      BY <1>7 DEF StartReplay
    <3> QED BY <3>1, Zenon
  <2>2. at'["replay"].pc = "next" /\ ~ Replaying
    BY <1>2, <1>7 DEF StartReplay, At
  <2> QED BY <1>1, <1>4, <1>6, <2>1, <2>2, StaleKept DEF ReplayAhead
<1>8. CASE ReplayStops
  <2>1. upset'
    BY <1>8 DEF ReplayStops
  <2> QED BY <1>1, <2>1, StaleKept
<1>9. CASE ReplayNext
  <2>0. upset' = upset /\ at["replay"].pc = "next"
    BY <1>9 DEF ReplayNext, IsAt
  <2>1. CASE \E k \in DOMAIN todo : \E r \in {todo[k][1]}, i \in {todo[k][2]} :
               /\ \A j \in DOMAIN todo : k <= j
               /\ IF Refused(stream[r][i]) THEN UNCHANGED at
                  ELSE At("replay", FirstStatement(stream[r][i], 1), r, i, 1)
               /\ todo' = Restrict(todo, DOMAIN todo \ {k}) /\ stage' = stage
    <3>1. PICK k \in DOMAIN todo :
            \E r \in {todo[k][1]}, i \in {todo[k][2]} :
               /\ IF Refused(stream[r][i]) THEN UNCHANGED at
                  ELSE At("replay", FirstStatement(stream[r][i], 1), r, i, 1)
               /\ todo' = Restrict(todo, DOMAIN todo \ {k}) /\ stage' = stage
      BY <2>1
    <3>2. PICK r, m : /\ r = todo[k][1] /\ m = todo[k][2]
                      /\ IF Refused(stream[r][m]) THEN UNCHANGED at
                         ELSE At("replay", FirstStatement(stream[r][m], 1), r, m, 1)
                      /\ todo' = Restrict(todo, DOMAIN todo \ {k}) /\ stage' = stage
      BY <3>1
    <3>3. DOMAIN todo' = DOMAIN todo \ {k} /\ \A n \in DOMAIN todo' : todo'[n] = todo[n]
      BY <3>2 DEF Restrict
    <3>4. ~ Refused(stream[r][m]) => /\ at'["replay"].pc = FirstStatement(stream[r][m], 1)
                                     /\ EntryOf("replay")' = <<r, m>>
      BY <1>2, <3>2 DEF At, EntryOf
    <3>5. Refused(stream[r][m]) => at'["replay"].pc = "next"
      BY <2>0, <3>2
    <3>6. ASSUME NEW i \in DOMAIN stream["event"], stream["event"][i].kind = "order", r = "event", m = i
          PROVE  at'["replay"].pc = "order" /\ EntryOf("replay")' = <<"event", i>>
      <4>1. ~ Refused(stream[r][m])
        BY <3>6 DEF Refused, DecodeEntry
      <4>2. FirstStatement(stream[r][m], 1) = "order"
        BY <3>6 DEF FirstStatement
      <4> QED BY <3>4, <3>6, <4>1, <4>2
    <3>7. ASSUME NEW i \in DOMAIN stream["event"], stream["event"][i].kind = "order", ReplayAhead(i)
          PROVE  ReplayAhead(i)'
      <4>1. Replaying' /\ Replaying
        BY <3>2, <3>7 DEF ReplayAhead, Replaying
      <4>2. PICK n \in DOMAIN todo : todo[n] = <<"event", i>>
        BY <2>0, <3>7 DEF ReplayAhead
      <4>3. CASE n = k
        <5>1. r = "event" /\ m = i
          BY <3>2, <4>2, <4>3
        <5> QED BY <3>6, <3>7, <4>1, <5>1 DEF ReplayAhead
      <4>4. CASE n # k
        BY <3>3, <4>1, <4>2, <4>4 DEF ReplayAhead
      <4> QED BY <4>3, <4>4
    <3>8. ASSUME NEW i \in DOMAIN stream["event"], stream["event"][i].kind = "order",
                 at'["replay"].pc \in Statements, EntryOf("replay")' = <<"event", i>>
          PROVE  at'["replay"].pc = "order"
      <4>1. ~ Refused(stream[r][m])
        BY <1>4, <3>5, <3>8
      <4>2. r = "event" /\ m = i
        BY <3>4, <3>8, <4>1
      <4> QED BY <3>6, <3>8, <4>2
    <3> QED BY <1>1, <1>6, <2>0, <3>7, <3>8, StaleKept
  <2>2. CASE DOMAIN todo = {}
    <3>1. \A i : ~ ReplayAhead(i)
      BY <2>0, <2>2 DEF ReplayAhead
    <3>2. at'["replay"].pc \in {"next", "down"}
      BY <1>2, <1>9, <2>0, <2>2 DEF ReplayNext, At
    <3> QED BY <1>1, <1>4, <1>6, <2>0, <3>1, <3>2, StaleKept
  <2> QED BY <1>9, <2>1, <2>2 DEF ReplayNext
<1> QED BY <1>7, <1>8, <1>9

(* Lemma: the gateway trades, and tells it on the event stream.            *)
LEMMA StaleGateway ==
  ASSUME IndInv, KnownInv, RowInv, ToldInOrder, ToldInOrder', StaleInv, Broker
  PROVE  StaleInv'
<1>0. PICK ev \in RoleSet : ev = "event"
  BY DEF RoleSet
<1>1. /\ MovesOn /\ Between /\ BrokerInv' /\ StreamInv' /\ KnownInv' /\ IndInv'
      /\ BrokerInv /\ StreamInv
  BY GatewayKnown, GatewayWritesInv, NextInv DEF MovesOn, IndInv, Next
<1>2. UNCHANGED <<rows, at, cursor, hi, ckpt, skipped, stage, todo, upset>> /\ ~ Replaying
  BY DEF Broker, db, orderTables, worker, replay
<1>3. \A r \in RoleSet : \A i \in DOMAIN stream[r] :
        i \in DOMAIN stream'[r] /\ stream'[r][i] = stream[r][i]
  BY <1>1 DEF MovesOn
<1>4. Queried("page") => Queried("page")'
  BY <1>3 DEF Queried, RoleSet
<1> SUFFICES ASSUME ~ Queried("page"), ~ Queried("page")', ~ upset, NEW o \in Orders, Stale(o)'
             PROVE  \E i \in DOMAIN stream'["event"] :
                      Sends(stream'["event"][i], o, "partially_filled") /\ ToCome(i)'
  BY <1>2, <1>4 DEF StaleInv
<1>5. broker'[o].st = "partially_filled" /\ rows[o] # NoRow /\ rows[o].st # "partially_filled"
  BY <1>2 DEF Stale
<1>6. PICK i \in DOMAIN stream'["event"] :
        Sends(stream'["event"][i], o, "partially_filled") /\ StateOf(stream'["event"][i].items[1].rep) = broker'[o]
  <2>1. PICK r \in RoleSet : (\E i \in DOMAIN stream[r] : Newest(stream[r][i], o))'
    BY <1>1, <1>5 DEF KnownInv
  <2>2. PICK i \in DOMAIN stream'[r] : Newest(stream[r][i], o)'
    BY <2>1
  <2>3. PICK e : e = stream'[r][i] /\ EntryOK(e)' /\ EntryKnown(r, e)' /\ Newest(e, o)'
    <3>1. EntryOK(stream[r][i])' /\ EntryKnown(r, stream[r][i])'
      BY <1>1 DEF StreamInv, KnownInv
    <3> QED BY <2>2, <3>1
  <2>4. e.items[1].o = o /\ e.items[1].rep.st = "partially_filled" /\ StateOf(e.items[1].rep) = broker'[o]
    <3>1. StateOf(e.items[1].rep) = broker'[o] /\ e.items[1].o = o
      BY <2>3 DEF Newest
    <3>2. StateOf(e.items[1].rep).st = "partially_filled"
      BY <1>5, <3>1
    <3> QED BY <3>1, <3>2 DEF StateOf
  <2>5. e.kind \in {"order", "reject", "batch"} /\ ~ Refused(e)
    BY <2>3 DEF Newest, IsReport
  <2>6. e.kind = "order"
    <3>1. 1 \in DOMAIN e.items
      BY <2>3, <2>5 DEF EntryOK
    <3> QED BY <2>3, <2>4, <2>5, <3>1 DEF EntryKnown, Reports
  <2>7. r = "event"
    BY <2>2, <2>3, <2>6 DEF ToldInOrder
  <2> QED BY <2>3, <2>4, <2>6, <2>7 DEF Sends
<1>7. CASE i \notin DOMAIN stream["event"]
  <2>1. i > Len(stream["event"]) /\ i \in Nat
    <3>1. DOMAIN stream'["event"] = 1 .. Len(stream'["event"])
      BY <1>0, <1>1, LenProperties DEF StreamInv
    <3> QED BY <1>0, <1>1, <1>7, <3>1 DEF MovesOn
  <2>2. /\ cursor["event"] < i /\ ckpt["event"] < i /\ hi["event"] < i
    BY <1>0, <2>1, Cursors
  <2>3. at["worker"].pc \notin Statements
    BY DEF Broker, Statements
  <2>4. WorkerAhead(i)'
    BY <1>2, <2>2, <2>3 DEF WorkerAhead
  <2>5. ASSUME NEW p \in Processes, at[p].pc \in Statements, EntryOf(p) = <<"event", i>> PROVE FALSE
    <3>1. PICK r \in RoleSet : \E m \in DOMAIN stream[r] : <<r, m>> = EntryOf(p)
      BY <2>5, Here
    <3>2. PICK m \in DOMAIN stream[r] : <<r, m>> = EntryOf(p)
      BY <3>1
    <3>3. r = "event" /\ m = i
      BY <2>5, <3>2
    <3> QED BY <1>7, <3>2, <3>3
  <2>6. \A p \in Processes : EntryOf(p)' = EntryOf(p)
    BY <1>2 DEF EntryOf
  <2>7. ToCome(i)'
    BY <1>2, <2>4, <2>5, <2>6 DEF ToCome
  <2> QED BY <1>6, <2>7
<1>8. CASE i \in DOMAIN stream["event"]
  <2>1. PICK e : e = stream["event"][i] /\ e = stream'["event"][i] /\ EntryOK(e) /\ EntryKnown("event", e)
    BY <1>0, <1>1, <1>3, <1>8, StreamLengths DEF KnownInv
  <2>2. e.kind = "order" /\ e.items[1].o = o /\ e.items[1].rep.st = "partially_filled" /\ 1 \in DOMAIN e.items
    <3>1. e.kind = "order" /\ e.items[1].o = o /\ e.items[1].rep.st = "partially_filled"
      BY <1>6, <2>1 DEF Sends
    <3> QED BY <2>1, <3>1 DEF EntryOK
  <2>3. ItemKnown(e.items[1])
    BY <2>1, <2>2 DEF EntryKnown, Reports
  <2>4. PICK b : b = StateOf(e.items[1].rep) /\ Was(b, o) /\ b = broker'[o]
    BY <1>6, <2>1, <2>2, <2>3 DEF ItemKnown
  <2>5. PICK c \in [st : BrokerStatus, cum : 0 .. Qty] : c = broker[o]
    BY <1>1 DEF BrokerInv
  <2>6. PICK d \in [st : BrokerStatus, cum : 0 .. Qty] : d = broker'[o]
    BY <1>1 DEF BrokerInv
  <2>7. d.st = "partially_filled" /\ d.cum \in 1 .. Qty - 1 /\ d.cum <= c.cum /\ c.cum <= d.cum
    <3>1. c.cum <= d.cum /\ OrderState(d)
      BY <1>1, <2>5, <2>6 DEF MovesOn
    <3>2. d.cum <= c.cum
      BY <2>4, <2>5, <2>6 DEF Was
    <3> QED BY <1>5, <2>6, <3>1, <3>2 DEF OrderState
  <2>8. c.st = "partially_filled"
    <3>1. OrderState(c)
      BY <2>5 DEF KnownInv
    <3>2. ~ Terminal(c.st)
      <4>1. ~ Terminal("partially_filled")
        BY DEF Terminal, TerminalStatus
      <4>2. Terminal(c.st) => d = c
        BY <1>1, <2>5, <2>6 DEF MovesOn
      <4> QED BY <2>7, <4>1, <4>2
    <3>3. c.cum \in Nat /\ c.cum > 0
      BY <2>5, <2>7, SyncAssumption
    <3>4. c.st \notin {"new", "working"}
      BY <3>1, <3>3 DEF OrderState
    <3> QED BY <2>5, <3>2, <3>4 DEF BrokerStatus, Terminal
  <2>9. Stale(o)
    BY <1>5, <2>5, <2>8 DEF Stale
  <2>10. PICK m \in DOMAIN stream["event"] : Sends(stream["event"][m], o, "partially_filled") /\ ToCome(m)
    BY <2>9 DEF StaleInv
  <2>11. m \in DOMAIN stream'["event"] /\ Sends(stream'["event"][m], o, "partially_filled")
    BY <1>0, <1>3, <2>10
  <2>12. ToCome(m)'
    <3>1. \A p \in Processes : EntryOf(p)' = EntryOf(p)
      BY <1>2 DEF EntryOf
    <3>2. WorkerAhead(m) => WorkerAhead(m)'
      BY <1>2 DEF WorkerAhead
    <3>3. ~ ReplayAhead(m)
      BY <1>2 DEF ReplayAhead
    <3> QED BY <1>2, <2>10, <3>1, <3>2, <3>3 DEF ToCome
  <2> QED BY <2>11, <2>12
<1> QED BY <1>7, <1>8

(* What the status of live orders rests on.                                *)
AgreeInv == ToldInOrder /\ ReplayInv /\ StaleInv

(* Lemma: every step keeps it.                                             *)
LEMMA AgreesNext ==
  ASSUME IndInv, KnownInv, RowInv, AgreeInv, [Next]_vars
  PROVE  AgreeInv'
<1>1. ToldInOrder' /\ ReplayInv'
  BY ToldNext, ReplayInvNext DEF AgreeInv
<1>2. CASE Read \/ SaveCheckpoint \/ SaveCheckpointFails \/ Crash
           \/ \E unread \in SUBSET RoleSet : Restart(unread)
  BY <1>1, <1>2, StaleWorker DEF AgreeInv
<1>3. CASE StartReplay \/ ReplayNext \/ ReplayStops
  BY <1>1, <1>3, StaleReplay DEF AgreeInv
<1>4. CASE UNCHANGED vars
  <2>1. UNCHANGED <<stream, broker, rows, skipped, cursor, hi, ckpt, stage, todo, at, upset>>
    BY <1>4 DEF vars, gateway, db, orderTables, worker, replay
  <2>2. ASSUME NEW i, ToCome(i) PROVE ToCome(i)'
    BY <2>1, <2>2 DEF ToCome, WorkerAhead, ReplayAhead, Replaying, EntryOf
  <2>3. StaleInv'
    BY <2>1, <2>2, StaleKept DEF AgreeInv
  <2> QED BY <1>1, <2>3 DEF AgreeInv
<1>5. CASE \E p \in Processes : Executes(p)
  BY <1>1, <1>5, StaleExecutes DEF AgreeInv
<1>6. CASE Broker
  BY <1>1, <1>6, StaleGateway DEF AgreeInv
<1>7. "worker" \in Processes
  BY DEF Processes
<1> QED BY <1>2, <1>3, <1>4, <1>5, <1>6, <1>7 DEF Next, Step, Executes

(* The invariant of the stale rows: while a row does not show that its     *)
(* order has traded in part, an event that tells it is still to come,      *)
(* unless a replay or a repetition stopped half-way.                       *)
THEOREM AgreeInvHolds == Spec => []AgreeInv
<1>1. Init => AgreeInv
  <2> SUFFICES ASSUME Init PROVE AgreeInv
    OBVIOUS
  <2>1. /\ \A o \in Orders : broker[o].st = "new"
        /\ \A r \in RoleSet : DOMAIN stream[r] = {}
        /\ stage = 0 /\ at["replay"].pc = "down"
    BY DEF Init, Idle, Processes
  <2>2. ToldInOrder
    BY <2>1 DEF ToldInOrder, RoleSet
  <2>3. ReplayInv
    BY <2>1 DEF ReplayInv, Replaying
  <2>4. StaleInv
    BY <2>1 DEF StaleInv, Stale
  <2> QED BY <2>2, <2>3, <2>4 DEF AgreeInv
<1>2. IndInv /\ FillInv /\ RowInv /\ AgreeInv /\ [Next]_vars => AgreeInv'
  BY AgreesNext DEF FillInv
<1> QED BY <1>1, <1>2, IndInvHolds, FillInvHolds, RowInvHolds, PTL DEF Spec

(* However the worker crashed, repeated or failed, and over whatever newer *)
(* rows the archive was replayed: once everything is applied every order   *)
(* has its row, the row shows what has traded and the outcome of a finished*)
(* order, and the status of a live one if no replay or repetition stopped  *)
(* half-way.                                                               *)
THEOREM LedgerAgrees == Spec => []CaughtUpAgrees
<1>1. IndInv /\ FillInv /\ RowInv /\ AgreeInv => CaughtUpAgrees
  <2> SUFFICES ASSUME IndInv, FillInv, RowInv, AgreeInv, Applied, ~ Queried("page"),
                      NEW o \in Orders, broker[o].st # "new"
               PROVE  /\ rows[o] # NoRow /\ rows[o].cum = broker[o].cum
                      /\ Terminal(broker[o].st) \/ Settled => rows[o].st = broker[o].st
    BY DEF CaughtUpAgrees
  <2>1. PICK c \in [st : BrokerStatus, cum : 0 .. Qty] : c = broker[o] /\ OrderState(c)
    BY DEF IndInv, BrokerInv, FillInv, KnownInv
  <2>2. PICK r \in RoleSet : \E i \in DOMAIN stream[r] : Newest(stream[r][i], o)
    BY DEF FillInv, KnownInv
  <2>3. PICK i \in DOMAIN stream[r] : Newest(stream[r][i], o)
    BY <2>2
  <2>4. Written(stream[r][i])
    <3>1. Done(r, i)
      BY AllDone
    <3> QED BY <2>3, <3>1 DEF RowInv, Newest
  <2>5. PICK row : row = rows[o] /\ row # NoRow /\ Has(row, c) /\ Follows(row, c)
    BY <2>1, <2>3, <2>4 DEF Written, Newest, RowInv
  <2>6. row.cum = c.cum
    BY <2>1, <2>5 DEF Has, Follows
  <2>7. CASE Terminal(c.st)
    BY <2>1, <2>5, <2>6, <2>7 DEF Has, Follows
  <2>8. CASE ~ Terminal(c.st)
    <3>1. row.st \in {"working", "partially_filled"} /\ (row.st = "partially_filled" => c.cum > 0)
      BY <2>5, <2>8 DEF Has, Follows
    <3>2. c.st \in {"working", "partially_filled"}
      BY <2>1, <2>8 DEF BrokerStatus, Terminal
    <3>3. CASE c.st = "working"
      BY <2>1, <2>5, <2>6, <2>8, <3>1, <3>3 DEF OrderState
    <3>4. CASE c.st = "partially_filled" /\ Settled
      <4> SUFFICES ASSUME row.st # "partially_filled" PROVE FALSE
        BY <2>1, <2>5, <2>6, <3>4
      <4>1. Stale(o) /\ ~ upset /\ ~ Replaying
        BY <2>1, <2>5, <3>4 DEF Stale, Settled
      <4>2. PICK m \in DOMAIN stream["event"] : ToCome(m)
        BY <4>1 DEF AgreeInv, StaleInv
      <4>3. WorkerAhead(m)
        BY <4>1, <4>2 DEF ToCome, ReplayAhead, Applied
      <4>4. PICK ev \in RoleSet : ev = "event"
        BY DEF RoleSet
      <4> QED BY <4>2, <4>3, <4>4, Cursors DEF WorkerAhead, Applied, CaughtUp
    <3> QED BY <2>1, <2>5, <2>6, <2>8, <3>2, <3>3, <3>4
  <2> QED BY <2>7, <2>8
<1> QED BY <1>1, IndInvHolds, FillInvHolds, RowInvHolds, AgreeInvHolds, PTL
=============================================================================
