--------------------------- MODULE CloseCaptureProofs ---------------------------
(***************************************************************************)
(* Theorems about CloseCapture, for any symbols, queries, batches and      *)
(* clocks within CaptureAssumption.                                        *)
(***************************************************************************)
EXTENDS CloseCapture, FiniteSetTheorems, SequenceTheorems, TLAPS

(* The shape of the tables and of the three programs.                      *)
Busy == worker.pc \in {"archive", "asset", "positions"}
Verdicts == {"pending", "completed", "failed", "invalid", "accepted", "not_ready"}
Tables ==
  /\ version \in 0 .. MaxTrades /\ held \subseteq Symbols
  /\ clock \in Nat /\ clock >= 2 /\ skew \in Skews
  /\ cmds \in Seq(Range(cmds)) /\ stream \in Seq(Range(stream)) /\ archive \in Seq(DOMAIN stream)
  /\ \A c \in DOMAIN cmds :
       cmds[c] \in [by : {"job", "other"}, step : {cmds[c].step}, at : Nat, answered : BOOLEAN]
  /\ \A i \in DOMAIN stream :
       /\ stream[i].cmd \in DOMAIN cmds /\ stream[i].seen \in Seen
       /\ stream[i].produced \in Int /\ stream[i].items \subseteq Symbols
  /\ IsInjective(archive)
  /\ asset \in Asset /\ positions \in [Symbols -> Position \cup {NoRow}]
  /\ close \in [asset : Asset, positions : [Symbols -> Seen \cup {NoRow}]]
  /\ ckpt \in Nat /\ crashes \in Nat /\ errors \in Nat /\ skipped \in BOOLEAN
JobIn(j, n) ==
  j \in [pc : {"idle", "publish", "asset", "positions", "status", "decide", "wait", "ended"},
         start : Nat, todo : {j.todo}, again : BOOLEAN, lost : BOOLEAN,
         refresh : [Steps -> 0 .. n], fresh : BOOLEAN,
         verdict : [Steps -> Verdicts], result : {"none", "blocked", "failed", "ready"}]
Programs ==
  /\ worker \in [pc : {"read", "archive", "asset", "positions", "save"}, idx : Nat,
                 todo : SUBSET Symbols, hi : Nat]
  /\ JobIn(job, Len(cmds))
  /\ api \in [pc : {"idle", "asset", "positions", "write_asset", "write_positions"}, at : Nat,
              asset : Asset \cup {NoRow}, positions : [Symbols -> Seen \cup {NoRow}],
              todo : SUBSET Symbols, err : BOOLEAN]

(* Queries are issued one after the other and answered in that order, each *)
(* at one instant, by pages of which the last alone may complete it.       *)
StreamInv ==
  /\ \A c \in DOMAIN cmds : cmds[c].at > 0 /\ cmds[c].at < clock
  /\ \A c, d \in DOMAIN cmds : c < d => /\ cmds[c].at < cmds[d].at
                                        /\ cmds[d].answered => cmds[c].answered
  /\ \A i \in DOMAIN stream :
       /\ cmds[stream[i].cmd].answered /\ stream[i].produced < clock + skew
       /\ stream[i].type \in {"asset_page", "position_page"} => stream[i].status # "failed"
  /\ \A i, j \in DOMAIN stream : i < j =>
       /\ stream[i].cmd <= stream[j].cmd /\ stream[i].produced <= stream[j].produced
       /\ stream[i].cmd = stream[j].cmd =>
            stream[i].status # "completed" /\ stream[i].seen = stream[j].seen

(* Where the worker is in the stream, and what it has processed since it   *)
(* started from the checkpoint.                                            *)
Done(i) == IF Busy THEN i < worker.idx ELSE i <= worker.hi
WorkerInv ==
  /\ worker.hi <= Len(stream)
  /\ Busy => ckpt < worker.idx /\ worker.idx <= worker.hi
  /\ ~ Busy => ckpt <= worker.hi
  /\ worker.pc = "asset" => Entry.type = "asset_page"
  /\ worker.pc = "positions" => Entry.type = "position_page" /\ worker.todo \subseteq Entry.items

(* A row of positions is of Init or of a page of the stream.               *)
Applied(i, s) == Done(i) \/ (worker.pc = "positions" /\ i = worker.idx /\ s \notin worker.todo)
RowsInv ==
  \A s \in Symbols : positions[s] # NoRow =>
    \/ positions[s].at = 0
    \/ \E i \in PositionPages : /\ s \in stream[i].items /\ positions[s].seen = stream[i].seen
                                /\ positions[s].at = positionQueryUpdatedAt(stream[i])

(* A query that was issued after the time on every other page: what was    *)
(* applied of it stands, and nothing older outlives its last page.         *)
IssuedAt(q) == cmds[stream[q].cmd].at
LastQuery(q) ==
  /\ q \in PositionPages /\ stream[q].status = "completed"
  /\ \A i \in PositionPages : stream[i].cmd # stream[q].cmd =>
       positionQueryUpdatedAt(stream[i]) < IssuedAt(q)
LastInv ==
  ~ skipped => \A q \in PositionPages : LastQuery(q) => \A s \in Symbols :
    /\ \A i \in PositionPages :
         stream[i].cmd = stream[q].cmd /\ s \in stream[i].items /\ Applied(i, s) =>
           positions[s] # NoRow /\ positions[s].at >= IssuedAt(q)
    /\ Done(q) /\ positions[s] # NoRow => positions[s].at >= IssuedAt(q)

(* The job and the handler of the snapshot wait for each other, and a      *)
(* verdict is no older than the round it was asked in.                     *)
Answered(s) ==
  \E i \in Range(archive) : stream[i].cmd = job.refresh[s] /\ stream[i].status = "completed"
JobInv ==
  /\ api.pc # "idle" <=> job.pc = "wait"
  /\ job.result # "none" => job.pc = "ended"
  /\ \A s \in Steps : job.verdict[s] = "completed" => job.pc \in {"status", "decide"} /\ Answered(s)
  /\ job.pc = "wait" \/ job.result = "ready" => \A s \in Steps : Answered(s)

(* What the handler has read is what it has written.                       *)
WholeInv ==
  /\ api.pc = "write_asset" => ~ api.err
  /\ api.pc \in {"write_asset", "write_positions"} /\ ~ api.err =>
       \A s \in Symbols \ api.todo : api.positions[s] # NoRow =>
         api.pc = "write_positions" /\ close.positions[s] = api.positions[s]
  /\ CaptureIsWhole

(* Whatever is dated after the start of the job shows the close, and once  *)
(* such an asset is in the ledger only such assets follow.                 *)
Cut == job.start - FreshSlack
Held(row) == row \in Asset /\ (crashes = 0 => row.seen = version)
AssetInv ==
  /\ asset.at = 0 \/ asset.at < clock + skew
  /\ close.asset.at = 0 \/ api.pc = "write_positions" \/ job.pc = "ended"
  /\ job.fresh => job.pc \in {"positions", "status", "decide"}
  /\ job.pc # "idle" =>
       /\ Cut > 0
       /\ \A i \in DOMAIN stream : stream[i].produced >= Cut => stream[i].seen = version
       /\ asset.at >= Cut => asset.seen = version
       /\ crashes = 0 /\ asset.at >= Cut =>
            \A i \in DOMAIN stream : ~ Done(i) => stream[i].produced >= Cut
  /\ crashes = 0 /\ (job.fresh \/ api.pc = "asset") => asset.at >= Cut
  /\ api.pc \in {"positions", "write_asset"} /\ ~ api.err => Held(api.asset)
  /\ api.pc = "write_positions" /\ ~ api.err => Held(close.asset)
  /\ CapturedAssetFinal

IndInv == /\ Tables /\ Programs /\ StreamInv /\ WorkerInv /\ RowsInv /\ LastInv
          /\ JobInv /\ WholeInv /\ AssetInv

-----------------------------------------------------------------------------
(* Lemma: a sequence and one more element, whatever it is.                 *)
LEMMA Appended ==
  ASSUME NEW s, s \in Seq(Range(s)), NEW x, NEW t, t = Append(s, x)
  PROVE  /\ t \in Seq(Range(t)) /\ Len(t) = Len(s) + 1 /\ DOMAIN s = 1 .. Len(s)
         /\ Len(s) \in Nat /\ DOMAIN t = 1 .. Len(s) + 1
         /\ \A i \in 1 .. Len(s) : t[i] = s[i]
         /\ t[Len(s) + 1] = x
<1> DEFINE S == Range(s) \cup {x}
<1>1. s \in Seq(S)
  BY SeqMonotonic
<1>2. t \in Seq(S) /\ Len(t) = Len(s) + 1 /\ (\A i \in 1 .. Len(s) : t[i] = s[i]) /\ t[Len(s) + 1] = x
  BY <1>1, AppendProperties
<1>3. DOMAIN t = 1 .. Len(t) /\ DOMAIN s = 1 .. Len(s) /\ Len(s) \in Nat
  BY <1>1, <1>2, LenProperties
<1>4. t \in Seq(Range(t))
  BY <1>2, SeqOfRange
<1> QED BY <1>2, <1>3, <1>4

(* Lemma: two sequences, one after the other.                              *)
LEMMA Joined ==
  ASSUME NEW R, NEW U, NEW s \in Seq(R), NEW u \in Seq(U), NEW t, t = s \o u
  PROVE  /\ t \in Seq(Range(t)) /\ Len(t) = Len(s) + Len(u) /\ Len(s) \in Nat /\ Len(u) \in Nat
         /\ DOMAIN s = 1 .. Len(s) /\ DOMAIN u = 1 .. Len(u) /\ DOMAIN t = 1 .. Len(s) + Len(u)
         /\ \A i \in 1 .. Len(s) : t[i] = s[i]
         /\ \A i \in 1 .. Len(u) : t[Len(s) + i] = u[i]
<1> DEFINE S == R \cup U
<1>1. s \in Seq(S) /\ u \in Seq(S)
  BY SeqMonotonic
<1>2. /\ t \in Seq(S) /\ Len(t) = Len(s) + Len(u)
      /\ \A i \in 1 .. Len(s) + Len(u) : t[i] = IF i <= Len(s) THEN s[i] ELSE u[i - Len(s)]
  BY <1>1, ConcatProperties
<1>3. /\ DOMAIN t = 1 .. Len(t) /\ DOMAIN s = 1 .. Len(s) /\ DOMAIN u = 1 .. Len(u)
      /\ Len(s) \in Nat /\ Len(u) \in Nat
  BY <1>1, <1>2, LenProperties
<1>4. t \in Seq(Range(t))
  BY <1>2, SeqOfRange
<1> HIDE DEF S
<1> QED BY <1>2, <1>3, <1>4

(* Lemma: an element of S appended to a sequence over S.                   *)
LEMMA AppendedIn ==
  ASSUME NEW S, NEW s \in Seq(S), NEW e \in S, NEW t, t = Append(s, e)
  PROVE  /\ t \in Seq(S) /\ Len(t) = Len(s) + 1
         /\ \A j \in 1 .. Len(s) : t[j] = s[j]
         /\ t[Len(s) + 1] = e
BY AppendProperties

(* Lemma: an entry that is archived again is in the archive once, behind   *)
(* all others.                                                             *)
LEMMA ArchivedOnce ==
  ASSUME NEW S, archive \in Seq(S), IsInjective(archive), NEW i \in S
  PROVE  /\ Archived(i) \in Seq(S) /\ IsInjective(Archived(i))
         /\ Range(Archived(i)) = Range(archive) \cup {i}
<1> DEFINE n == Len(archive)
<1>1. DOMAIN archive = 1 .. n /\ n \in Nat
  BY LenProperties
<1>2. CASE i \in Range(archive)
  <2> DEFINE k == CHOOSE k \in DOMAIN archive : archive[k] = i
  <2>1. k \in 1 .. n /\ archive[k] = i
    BY <1>1, <1>2 DEF Range
  <2> HIDE DEF k
  <2> DEFINE a == SubSeq(archive, 1, k - 1)
             b == SubSeq(archive, k + 1, n)
             r == a \o b
  <2>2. a \in Seq(S) /\ Len(a) = k - 1 /\ \A j \in 1 .. k - 1 : a[j] = archive[j]
    BY <1>1, <2>1, SubSeqProperties
  <2>3. b \in Seq(S) /\ Len(b) = n - k /\ \A j \in 1 .. n - k : b[j] = archive[k + j]
    <3>1. k + 1 \in 1 .. n + 1 /\ n \in (k + 1) - 1 .. n
      BY <1>1, <2>1
    <3>2. /\ b \in Seq(S) /\ Len(b) = n - (k + 1) + 1
          /\ \A j \in 1 .. n - (k + 1) + 1 : b[j] = archive[(k + 1) + j - 1]
      BY <3>1, SubSeqProperties
    <3> HIDE DEF b
    <3>3. n - (k + 1) + 1 = n - k
      BY <1>1, <2>1
    <3>4. ASSUME NEW j \in 1 .. n - k PROVE b[j] = archive[k + j]
      <4>1. (k + 1) + j - 1 = k + j
        BY <1>1, <2>1
      <4> QED BY <3>2, <3>3, <4>1
    <3> QED BY <3>2, <3>3, <3>4
  <2> HIDE DEF a, b
  <2>4. /\ r \in Seq(S) /\ Len(r) = n - 1
        /\ \A j \in 1 .. n - 1 : r[j] = IF j <= k - 1 THEN a[j] ELSE b[j - (k - 1)]
    <3>1. /\ r \in Seq(S) /\ Len(r) = Len(a) + Len(b)
          /\ \A j \in 1 .. Len(a) + Len(b) : r[j] = IF j <= Len(a) THEN a[j] ELSE b[j - Len(a)]
      BY <2>2, <2>3, ConcatProperties
    <3> HIDE DEF r
    <3>2. Len(a) = k - 1 /\ Len(a) + Len(b) = n - 1
      <4>1. Len(a) = k - 1 /\ Len(b) = n - k
        BY <2>2, <2>3
      <4>2. (k - 1) + (n - k) = n - 1
        BY <1>1, <2>1
      <4> QED BY <4>1, <4>2
    <3> QED BY <3>1, <3>2
  <2> HIDE DEF r
  <2>5. \A j \in 1 .. n - 1 : r[j] = IF j < k THEN archive[j] ELSE archive[j + 1]
    BY <1>1, <2>1, <2>2, <2>3, <2>4
  <2>6. PICK t : t = Append(r, i) /\ t = Archived(i)
    <3>1. Archived(i) = Append(RemoveAt(archive, k), i)
      BY <1>2 DEF Archived, k
    <3>2. RemoveAt(archive, k) = r
      BY DEF RemoveAt, r, a, b
    <3> QED BY <3>1, <3>2
  <2>7. t \in Seq(S) /\ Len(t) = n /\ (\A j \in 1 .. n - 1 : t[j] = r[j]) /\ t[n] = i /\ DOMAIN t = 1 .. n
    <3>1. t \in Seq(S) /\ Len(t) = Len(r) + 1 /\ (\A j \in 1 .. Len(r) : t[j] = r[j]) /\ t[Len(r) + 1] = i
      <4>1. r \in Seq(S) /\ t = Append(r, i)
        BY <2>4, <2>6
      <4> HIDE DEF n
      <4> QED BY <4>1, AppendedIn
    <3>2. DOMAIN t = 1 .. Len(t)
      BY <3>1, LenProperties
    <3> QED BY <3>1, <3>2, <1>1, <2>1, <2>4
  <2>8. \A j, l \in 1 .. n : archive[j] = archive[l] => j = l
    BY <1>1 DEF IsInjective
  <2>9. \A j \in 1 .. n - 1 : r[j] # i
    BY <1>1, <2>1, <2>5, <2>8
  <2>10. \A j, l \in 1 .. n - 1 : r[j] = r[l] => j = l
    BY <1>1, <2>1, <2>5, <2>8
  <2>11. IsInjective(t)
    BY <1>1, <2>1, <2>7, <2>9, <2>10 DEF IsInjective
  <2>12. Range(t) \subseteq Range(archive) \cup {i}
    BY <1>1, <2>1, <2>5, <2>7 DEF Range
  <2>13. Range(archive) \cup {i} \subseteq Range(t)
    <3> SUFFICES ASSUME NEW j \in 1 .. n PROVE archive[j] \in Range(t)
      BY <1>1, <2>1, <2>7 DEF Range
    <3>1. CASE j < k
      BY <3>1, <1>1, <2>1, <2>5, <2>7 DEF Range
    <3>2. CASE j = k
      BY <3>2, <1>1, <2>1, <2>7 DEF Range
    <3>3. CASE j > k
      <4>1. j - 1 \in 1 .. n - 1 /\ t[j - 1] = archive[j]
        BY <3>3, <1>1, <2>1, <2>5, <2>7
      <4> QED BY <4>1, <1>1, <2>7 DEF Range
    <3> QED BY <3>1, <3>2, <3>3, <1>1, <2>1
  <2> QED BY <2>6, <2>7, <2>11, <2>12, <2>13
<1>3. CASE i \notin Range(archive)
  <2>1. PICK t : t = Append(archive, i) /\ t = Archived(i)
    BY <1>3 DEF Archived
  <2>2. t \in Seq(S) /\ Len(t) = n + 1 /\ (\A j \in 1 .. n : t[j] = archive[j]) /\ t[n + 1] = i
        /\ DOMAIN t = 1 .. n + 1
    <3>1. t \in Seq(S) /\ Len(t) = n + 1 /\ (\A j \in 1 .. n : t[j] = archive[j]) /\ t[n + 1] = i
      <4>1. t = Append(archive, i)
        BY <2>1
      <4> QED BY <4>1, AppendedIn
    <3>2. DOMAIN t = 1 .. Len(t)
      BY <3>1, LenProperties
    <3> QED BY <3>1, <3>2
  <2>3. \A j \in 1 .. n : archive[j] # i
    BY <1>1, <1>3 DEF Range
  <2>4. IsInjective(t)
    BY <1>1, <2>2, <2>3 DEF IsInjective
  <2>5. Range(t) = Range(archive) \cup {i}
    BY <1>1, <2>2 DEF Range
  <2> QED BY <2>1, <2>2, <2>4, <2>5
<1> QED BY <1>2, <1>3

-----------------------------------------------------------------------------
(* Lemmas: what each part of the invariant depends on.                     *)
LEMMA StreamFrame ==
  ASSUME StreamInv, UNCHANGED <<cmds, clock, skew, stream>>
  PROVE  StreamInv'
BY DEF StreamInv

LEMMA RowsFrame ==
  ASSUME RowsInv, UNCHANGED <<positions, stream, cmds>>
  PROVE  RowsInv'
BY DEF RowsInv, PositionPages, positionQueryUpdatedAt, positionQueryStaleCutoff

LEMMA LastFrame ==
  ASSUME LastInv, UNCHANGED <<stream, cmds, positions>>, ~ skipped' => ~ skipped,
         \A i \in PositionPages, s \in Symbols : s \in stream[i].items /\ Applied(i, s)' => Applied(i, s),
         \A i \in PositionPages : Done(i)' => Done(i) \/ stream[i].status # "completed"
  PROVE  LastInv'
<1> SUFFICES ASSUME ~ skipped', NEW q \in PositionPages, LastQuery(q)', NEW s \in Symbols
             PROVE  /\ \A i \in PositionPages :
                         stream[i].cmd = stream[q].cmd /\ s \in stream[i].items /\ Applied(i, s)' =>
                           positions[s] # NoRow /\ positions[s].at >= IssuedAt(q)
                    /\ Done(q)' /\ positions[s] # NoRow => positions[s].at >= IssuedAt(q)
  BY DEF LastInv, PositionPages, IssuedAt
<1>1. LastQuery(q)
  BY DEF LastQuery, PositionPages, IssuedAt, positionQueryUpdatedAt, positionQueryStaleCutoff
<1>2. stream[q].status = "completed"
  BY <1>1 DEF LastQuery
<1> QED BY <1>1, <1>2 DEF LastInv

LEMMA JobFrame ==
  ASSUME JobInv, UNCHANGED <<job, stream>>, api'.pc = api.pc, Range(archive) \subseteq Range(archive')
  PROVE  JobInv'
<1>1. \A s \in Steps : Answered(s) => Answered(s)'
  BY DEF Answered, Range
<1> QED BY <1>1 DEF JobInv

LEMMA WholeFrame ==
  ASSUME WholeInv, UNCHANGED <<api, close>>, job'.result = job.result
  PROVE  WholeInv'
BY DEF WholeInv, CaptureIsWhole

LEMMA AssetFrame ==
  ASSUME AssetInv, crashes \in Nat, crashes' \in Nat, crashes' >= crashes,
         UNCHANGED <<asset, close, job, api, clock, skew, version, stream>>,
         crashes' = 0 => \A i \in DOMAIN stream : Done(i) => Done(i)'
  PROVE  AssetInv'
<1>1. crashes' = 0 => crashes = 0
  OBVIOUS
<1>2. Cut' = Cut /\ Asset' = Asset
  BY DEF Cut, Asset, Seen
<1>3. CapturedAssetFinal'
  BY <1>1 DEF AssetInv, CapturedAssetFinal
<1>4. \A row : Held(row) => (row \in Asset /\ (crashes' = 0 => row.seen = version))
  BY <1>1 DEF Held
<1>5. /\ api'.pc \in {"positions", "write_asset"} /\ ~ api'.err => Held(api.asset)'
      /\ api'.pc = "write_positions" /\ ~ api'.err => Held(close.asset)'
  BY <1>2, <1>4 DEF AssetInv, Held
<1>6. job'.pc # "idle" /\ crashes' = 0 /\ asset'.at >= Cut' =>
            \A i \in DOMAIN stream' : ~ Done(i)' => stream'[i].produced >= Cut'
  BY <1>1, <1>2 DEF AssetInv
<1>7. /\ asset'.at = 0 \/ asset'.at < clock' + skew'
      /\ close'.asset.at = 0 \/ api'.pc = "write_positions" \/ job'.pc = "ended"
      /\ job'.fresh => job'.pc \in {"positions", "status", "decide"}
      /\ job'.pc # "idle" =>
           /\ Cut' > 0
           /\ \A i \in DOMAIN stream' : stream'[i].produced >= Cut' => stream'[i].seen = version'
           /\ asset'.at >= Cut' => asset'.seen = version'
      /\ crashes' = 0 /\ (job'.fresh \/ api'.pc = "asset") => asset'.at >= Cut'
  BY <1>1, <1>2 DEF AssetInv
<1> QED BY <1>3, <1>5, <1>6, <1>7 DEF AssetInv

-----------------------------------------------------------------------------
(* Lemmas: the worker's steps through a batch.                             *)
LEMMA WorkerAt ==
  ASSUME Programs, NEW pc \in {"read", "archive", "asset", "positions", "save"}, NEW idx \in Nat,
         NEW todo \in SUBSET Symbols, At(pc, idx, todo)
  PROVE  /\ worker'.pc = pc /\ worker'.idx = idx /\ worker'.todo = todo /\ worker'.hi = worker.hi
         /\ worker' \in [pc : {"read", "archive", "asset", "positions", "save"}, idx : Nat,
                         todo : SUBSET Symbols, hi : Nat]
BY DEF Programs, At

LEMMA ProgramsFrame ==
  ASSUME Programs, UNCHANGED <<job, api, cmds, version>>,
         worker' \in [pc : {"read", "archive", "asset", "positions", "save"}, idx : Nat,
                      todo : SUBSET Symbols, hi : Nat]
  PROVE  Programs'
BY DEF Programs, Asset, Seen

(* The next entry of the batch, or the checkpoint.                         *)
LEMMA EntryEnds ==
  ASSUME Programs, WorkerInv, Busy, EndEntry, UNCHANGED <<stream, ckpt>>, ckpt \in Nat, Len(stream) \in Nat
  PROVE  /\ WorkerInv' /\ worker'.pc \notin {"asset", "positions"}
         /\ worker' \in [pc : {"read", "archive", "asset", "positions", "save"}, idx : Nat,
                         todo : SUBSET Symbols, hi : Nat]
         /\ \A i \in Nat : Done(i)' <=> i <= worker.idx
         /\ \A i \in Nat, s \in Symbols : Applied(i, s)' <=> i <= worker.idx
<1>0. worker.idx \in Nat /\ worker.hi \in Nat /\ worker.hi <= Len(stream) /\ ckpt < worker.idx /\ worker.idx <= worker.hi
  BY DEF WorkerInv, Programs
<1>1. CASE worker.idx < worker.hi
  <2>1. At("archive", worker.idx + 1, {})
    BY <1>1 DEF EndEntry
  <2>2. /\ worker'.pc = "archive" /\ worker'.idx = worker.idx + 1 /\ worker'.todo = {} /\ worker'.hi = worker.hi
        /\ worker' \in [pc : {"read", "archive", "asset", "positions", "save"}, idx : Nat,
                         todo : SUBSET Symbols, hi : Nat]
    BY <1>0, <2>1, WorkerAt
  <2> QED BY <1>0, <1>1, <2>2 DEF WorkerInv, Done, Applied, Busy, Entry
<1>2. CASE ~ (worker.idx < worker.hi)
  <2>1. At("save", 0, {})
    BY <1>2 DEF EndEntry
  <2>2. /\ worker'.pc = "save" /\ worker'.idx = 0 /\ worker'.todo = {} /\ worker'.hi = worker.hi
        /\ worker' \in [pc : {"read", "archive", "asset", "positions", "save"}, idx : Nat,
                         todo : SUBSET Symbols, hi : Nat]
    BY <1>0, <2>1, WorkerAt
  <2> QED BY <1>0, <1>2, <2>2 DEF WorkerInv, Done, Applied, Busy, Entry
<1> QED BY <1>1, <1>2

(* What a step that leaves the gateway's side alone keeps of the tables.   *)
LEMMA TablesFrame ==
  ASSUME Tables, UNCHANGED <<version, held, clock, skew, cmds, stream>>,
         archive' \in Seq(DOMAIN stream), IsInjective(archive'),
         asset' \in Asset, positions' \in [Symbols -> Position \cup {NoRow}],
         close' \in [asset : Asset, positions : [Symbols -> Seen \cup {NoRow}]],
         ckpt' \in Nat, crashes' \in Nat, errors' \in Nat, skipped' \in BOOLEAN
  PROVE  Tables'
<1>1. Seen' = Seen /\ Asset' = Asset /\ Position' = Position
  BY DEF Seen, Asset, Position
<1> QED BY <1>1 DEF Tables

(* Lemma: the worker's view of the stream.                                 *)
LEMMA StreamLength ==
  ASSUME Tables
  PROVE  /\ Len(stream) \in Nat /\ DOMAIN stream = 1 .. Len(stream)
         /\ Len(cmds) \in Nat /\ DOMAIN cmds = 1 .. Len(cmds)
         /\ PositionPages \subseteq Nat
BY LenProperties DEF Tables, PositionPages

LEMMA ReadInv ==
  ASSUME IndInv, Read
  PROVE  IndInv'
<1>0. /\ Tables /\ Programs /\ StreamInv /\ WorkerInv /\ RowsInv /\ LastInv /\ JobInv /\ WholeInv /\ AssetInv
  BY DEF IndInv
<1>1. /\ UNCHANGED <<gateway, clock, cmds, ledger, close, job, api, faults>>
      /\ UNCHANGED <<held, version, skew, stream, archive, positions, asset, ckpt, crashes, errors, skipped>>
  BY DEF Read, gateway, ledger, faults
<1>2. Len(stream) \in Nat /\ PositionPages \subseteq Nat /\ worker.hi \in Nat /\ BatchCount \in Nat \ {0}
  BY <1>0, StreamLength, CaptureAssumption DEF Programs
<1> DEFINE h == IF Len(stream) > worker.hi + BatchCount THEN worker.hi + BatchCount ELSE Len(stream)
<1>3. /\ worker' = [pc |-> "archive", idx |-> worker.hi + 1, todo |-> {}, hi |-> h]
      /\ h > worker.hi /\ h <= Len(stream) /\ h \in Nat
  <2>1. Len(stream) > worker.hi
    BY DEF Read
  <2>2. worker' = [pc |-> "archive", idx |-> worker.hi + 1, todo |-> {}, hi |-> h]
    BY DEF Read
  <2> QED BY <1>2, <2>1, <2>2
<1> HIDE DEF h
<1>4. worker' \in [pc : {"read", "archive", "asset", "positions", "save"}, idx : Nat,
                   todo : SUBSET Symbols, hi : Nat]
  BY <1>2, <1>3
<1>5. worker.pc = "read" /\ ~ Busy
  BY DEF Read, Busy
<1>6. \A i \in Nat : Done(i)' <=> Done(i)
  BY <1>2, <1>3, <1>5 DEF Done, Busy
<1>7. \A i \in Nat, s \in Symbols : Applied(i, s)' => Applied(i, s)
  BY <1>3, <1>6 DEF Applied
<1>8. WorkerInv'
  <2>1. ckpt <= worker.hi
    BY <1>0, <1>5 DEF WorkerInv
  <2>2. worker'.pc = "archive" /\ worker'.idx = worker.hi + 1 /\ worker'.hi = h
    BY <1>3
  <2>3. ckpt \in Nat
    BY <1>0 DEF Tables
  <2> QED BY <2>1, <2>2, <2>3, <1>1, <1>2, <1>3 DEF WorkerInv, Busy
<1>9. Tables'
  BY <1>0, <1>1, TablesFrame DEF Tables
<1>10. LastInv'
  BY <1>0, <1>1, <1>2, <1>6, <1>7, LastFrame
<1>11. AssetInv'
  <2>1. crashes \in Nat /\ DOMAIN stream \subseteq Nat
    BY <1>0, StreamLength DEF Tables
  <2> QED BY <2>1, <1>0, <1>1, <1>6, AssetFrame
<1>12. JobInv' /\ WholeInv' /\ StreamInv' /\ RowsInv' /\ Programs'
  BY <1>0, <1>1, <1>4, JobFrame, WholeFrame, StreamFrame, RowsFrame, ProgramsFrame
<1> QED BY <1>8, <1>9, <1>10, <1>11, <1>12 DEF IndInv

LEMMA SaveInv ==
  ASSUME IndInv, SaveCheckpoint
  PROVE  IndInv'
<1>0. /\ Tables /\ Programs /\ StreamInv /\ WorkerInv /\ RowsInv /\ LastInv /\ JobInv /\ WholeInv /\ AssetInv
  BY DEF IndInv
<1>1. /\ UNCHANGED <<gateway, clock, cmds, close, job, api, faults>>
      /\ UNCHANGED <<held, version, skew, stream, archive, positions, asset, crashes, errors, skipped>>
      /\ ckpt' = worker.hi
  BY DEF SaveCheckpoint, gateway, faults
<1>2. Len(stream) \in Nat /\ PositionPages \subseteq Nat /\ worker.hi \in Nat
  BY <1>0, StreamLength DEF Programs
<1>3. worker.pc = "save" /\ At("read", 0, {}) /\ ~ Busy
  BY DEF SaveCheckpoint, Busy
<1>4. /\ worker' \in [pc : {"read", "archive", "asset", "positions", "save"}, idx : Nat,
                      todo : SUBSET Symbols, hi : Nat]
      /\ worker'.pc = "read" /\ worker'.hi = worker.hi
  BY <1>0, <1>3, WorkerAt
<1>6. \A i \in Nat : Done(i)' <=> Done(i)
  BY <1>2, <1>3, <1>4 DEF Done, Busy
<1>7. \A i \in Nat, s \in Symbols : Applied(i, s)' => Applied(i, s)
  BY <1>4, <1>6 DEF Applied
<1>8. WorkerInv'
  BY <1>0, <1>1, <1>2, <1>3, <1>4 DEF WorkerInv, Busy
<1>9. Tables'
  BY <1>0, <1>1, <1>2, TablesFrame DEF Tables
<1>10. LastInv'
  BY <1>0, <1>1, <1>2, <1>6, <1>7, LastFrame
<1>11. AssetInv'
  <2>1. crashes \in Nat /\ DOMAIN stream \subseteq Nat
    BY <1>0, StreamLength DEF Tables
  <2> QED BY <2>1, <1>0, <1>1, <1>6, AssetFrame
<1>12. JobInv' /\ WholeInv' /\ StreamInv' /\ RowsInv' /\ Programs'
  BY <1>0, <1>1, <1>4, JobFrame, WholeFrame, StreamFrame, RowsFrame, ProgramsFrame
<1> QED BY <1>8, <1>9, <1>10, <1>11, <1>12 DEF IndInv

(* The worker goes back to its checkpoint.                                 *)
LEMMA CrashInv ==
  ASSUME IndInv, WorkerCrash
  PROVE  IndInv'
<1>0. /\ Tables /\ Programs /\ StreamInv /\ WorkerInv /\ RowsInv /\ LastInv /\ JobInv /\ WholeInv /\ AssetInv
  BY DEF IndInv
<1>1. /\ UNCHANGED <<gateway, clock, cmds, ledger, close, job, api>>
      /\ UNCHANGED <<held, version, skew, stream, archive, positions, asset, ckpt, errors, skipped>>
      /\ crashes' = crashes + 1
      /\ worker' = [pc |-> "read", idx |-> 0, todo |-> {}, hi |-> ckpt]
  BY DEF WorkerCrash, gateway, ledger
<1>2. /\ Len(stream) \in Nat /\ PositionPages \subseteq Nat /\ worker.hi \in Nat /\ worker.idx \in Nat
      /\ ckpt \in Nat /\ crashes \in Nat
  BY <1>0, StreamLength DEF Programs, Tables
<1>3. /\ worker' \in [pc : {"read", "archive", "asset", "positions", "save"}, idx : Nat,
                      todo : SUBSET Symbols, hi : Nat]
      /\ worker'.pc = "read" /\ worker'.hi = ckpt
  BY <1>1, <1>2
<1>4. ckpt <= worker.hi /\ (Busy => ckpt < worker.idx)
  BY <1>0, <1>2 DEF WorkerInv
<1>6. \A i \in Nat : Done(i)' => Done(i)
  BY <1>2, <1>3, <1>4 DEF Done, Busy
<1>7. \A i \in Nat, s \in Symbols : Applied(i, s)' => Applied(i, s)
  BY <1>3, <1>6 DEF Applied
<1>8. WorkerInv'
  BY <1>0, <1>1, <1>2, <1>3, <1>4 DEF WorkerInv, Busy
<1>9. Tables'
  BY <1>0, <1>1, <1>2, TablesFrame DEF Tables
<1>10. LastInv'
  BY <1>0, <1>1, <1>2, <1>6, <1>7, LastFrame
<1>11. AssetInv'
  BY <1>0, <1>1, <1>2, AssetFrame
<1>12. JobInv' /\ WholeInv' /\ StreamInv' /\ RowsInv' /\ Programs'
  BY <1>0, <1>1, <1>3, JobFrame, WholeFrame, StreamFrame, RowsFrame, ProgramsFrame
<1> QED BY <1>8, <1>9, <1>10, <1>11, <1>12 DEF IndInv

(* Lemma: the entry the worker is at.                                      *)
LEMMA AtEntry ==
  ASSUME IndInv, Busy
  PROVE  /\ worker.idx \in DOMAIN stream /\ worker.idx \in Nat /\ ckpt \in Nat /\ Len(stream) \in Nat
         /\ \A i \in Nat : Done(i) <=> i < worker.idx
         /\ Entry = stream[worker.idx] /\ Entry.items \subseteq Symbols /\ Entry.seen \in Seen
         /\ Entry.produced \in Int
<1>1. /\ worker.idx \in Nat /\ worker.hi \in Nat /\ ckpt \in Nat /\ ckpt < worker.idx
      /\ worker.idx <= worker.hi /\ worker.hi <= Len(stream)
  BY DEF IndInv, Programs, Tables, WorkerInv
<1>2. Len(stream) \in Nat /\ DOMAIN stream = 1 .. Len(stream)
  BY StreamLength DEF IndInv
<1>3. worker.idx \in DOMAIN stream
  BY <1>1, <1>2
<1>4. Entry.items \subseteq Symbols /\ Entry.seen \in Seen /\ Entry.produced \in Int
  BY <1>3 DEF IndInv, Tables, Entry
<1> QED BY <1>1, <1>2, <1>3, <1>4 DEF Done, Entry

LEMMA ArchiveInv ==
  ASSUME IndInv, ArchiveRawStreamMessage
  PROVE  IndInv'
<1>0. /\ Tables /\ Programs /\ StreamInv /\ WorkerInv /\ RowsInv /\ LastInv /\ JobInv /\ WholeInv /\ AssetInv
  BY DEF IndInv
<1>1. /\ UNCHANGED <<gateway, clock, cmds, close, job, api, faults>>
      /\ UNCHANGED <<held, version, skew, stream, ckpt, positions, asset, crashes, errors, skipped>>
      /\ archive' = Archived(worker.idx) /\ worker.pc = "archive" /\ Busy
  BY DEF ArchiveRawStreamMessage, gateway, faults, Busy
<1>2. /\ worker.idx \in DOMAIN stream /\ worker.idx \in Nat /\ ckpt \in Nat /\ Len(stream) \in Nat
      /\ \A i \in Nat : Done(i) <=> i < worker.idx
      /\ Entry = stream[worker.idx] /\ Entry.items \subseteq Symbols
  BY <1>1, AtEntry
<1>3. /\ archive' \in Seq(DOMAIN stream) /\ IsInjective(archive')
      /\ Range(archive) \subseteq Range(archive')
  BY <1>0, <1>1, <1>2, ArchivedOnce DEF Tables
<1>4. /\ \/ EndEntry /\ worker.idx \notin PositionPages
         \/ At("asset", worker.idx, {}) /\ Entry.type = "asset_page"
         \/ At("positions", worker.idx, Entry.items) /\ Entry.type = "position_page"
  <2>1. CASE Entry.status = "failed"
    <3>2. Entry.type # "position_page" /\ Entry.type # "asset_page"
      BY <2>1, <1>0, <1>2 DEF StreamInv
    <3>1. EndEntry
      BY <2>1, <3>2 DEF ArchiveRawStreamMessage
    <3> QED BY <1>2, <3>1, <3>2 DEF PositionPages
  <2>2. CASE Entry.status # "failed" /\ Entry.type = "asset_page"
    BY <2>2 DEF ArchiveRawStreamMessage
  <2>3. CASE Entry.status # "failed" /\ Entry.type = "position_page"
    BY <2>3 DEF ArchiveRawStreamMessage
  <2>4. CASE Entry.status # "failed" /\ Entry.type # "asset_page" /\ Entry.type # "position_page"
    <3>1. EndEntry
      BY <2>4 DEF ArchiveRawStreamMessage
    <3> QED BY <1>2, <2>4, <3>1 DEF PositionPages
  <2> QED BY <2>1, <2>2, <2>3, <2>4
<1>5. /\ WorkerInv'
      /\ worker' \in [pc : {"read", "archive", "asset", "positions", "save"}, idx : Nat,
                      todo : SUBSET Symbols, hi : Nat]
      /\ \A i \in Nat : Done(i) => Done(i)'
      /\ \A i \in PositionPages, s \in Symbols : s \in stream[i].items /\ Applied(i, s)' => Applied(i, s)
      /\ \A i \in PositionPages : Done(i)' => Done(i)
  <2>0. PositionPages \subseteq Nat
    BY <1>0, StreamLength
  <2>1. CASE EndEntry /\ worker.idx \notin PositionPages
    <3>1. /\ WorkerInv' /\ worker'.pc \notin {"asset", "positions"}
          /\ worker' \in [pc : {"read", "archive", "asset", "positions", "save"}, idx : Nat,
                          todo : SUBSET Symbols, hi : Nat]
          /\ \A i \in Nat : Done(i)' <=> i <= worker.idx
          /\ \A i \in Nat, s \in Symbols : Applied(i, s)' <=> i <= worker.idx
      BY <1>0, <1>1, <1>2, <2>1, EntryEnds
    <3>2. \A i \in PositionPages : i \in Nat /\ (i <= worker.idx => i < worker.idx)
      BY <1>2, <2>0, <2>1
    <3>3. \A i \in PositionPages, s \in Symbols : Applied(i, s)' => Applied(i, s)
      BY <1>2, <3>1, <3>2 DEF Applied
    <3>4. \A i \in PositionPages : Done(i)' => Done(i)
      BY <1>2, <3>1, <3>2
    <3>5. \A i \in Nat : Done(i) => Done(i)'
      BY <1>2, <3>1
    <3> QED BY <3>1, <3>3, <3>4, <3>5
  <2>2. CASE At("asset", worker.idx, {}) /\ Entry.type = "asset_page"
    <3>1. /\ worker'.pc = "asset" /\ worker'.idx = worker.idx /\ worker'.todo = {} /\ worker'.hi = worker.hi
          /\ worker' \in [pc : {"read", "archive", "asset", "positions", "save"}, idx : Nat,
                          todo : SUBSET Symbols, hi : Nat]
      BY <1>0, <1>2, <2>2, WorkerAt
    <3>2. \A i \in Nat : Done(i)' <=> Done(i)
      BY <1>2, <3>1 DEF Done, Busy
    <3>3. \A i \in PositionPages, s \in Symbols : Applied(i, s)' => Applied(i, s)
      BY <2>0, <3>1, <3>2 DEF Applied
    <3>4. WorkerInv'
      BY <1>0, <1>1, <1>2, <2>2, <3>1 DEF WorkerInv, Busy, Entry
    <3> QED BY <2>0, <3>1, <3>2, <3>3, <3>4
  <2>3. CASE At("positions", worker.idx, Entry.items) /\ Entry.type = "position_page"
    <3>1. /\ worker'.pc = "positions" /\ worker'.idx = worker.idx /\ worker'.todo = Entry.items
          /\ worker'.hi = worker.hi
          /\ worker' \in [pc : {"read", "archive", "asset", "positions", "save"}, idx : Nat,
                          todo : SUBSET Symbols, hi : Nat]
      BY <1>0, <1>2, <2>3, WorkerAt
    <3>2. \A i \in Nat : Done(i)' <=> Done(i)
      BY <1>2, <3>1 DEF Done, Busy
    <3>3. \A i \in PositionPages, s \in Symbols : s \in stream[i].items /\ Applied(i, s)' => Applied(i, s)
      BY <1>2, <2>0, <3>1, <3>2 DEF Applied
    <3>4. WorkerInv'
      BY <1>0, <1>1, <1>2, <2>3, <3>1 DEF WorkerInv, Busy, Entry
    <3> QED BY <2>0, <3>1, <3>2, <3>3, <3>4
  <2> QED BY <1>4, <2>1, <2>2, <2>3
<1>6. Tables'
  BY <1>0, <1>1, <1>3, TablesFrame DEF Tables
<1>7. LastInv'
  BY <1>0, <1>1, <1>5, LastFrame
<1>8. AssetInv'
  <2>1. crashes \in Nat /\ DOMAIN stream \subseteq Nat
    BY <1>0, StreamLength DEF Tables
  <2> QED BY <2>1, <1>0, <1>1, <1>5, AssetFrame
<1>9. JobInv' /\ WholeInv' /\ StreamInv' /\ RowsInv' /\ Programs'
  BY <1>0, <1>1, <1>3, <1>5, JobFrame, WholeFrame, StreamFrame, RowsFrame, ProgramsFrame
<1> QED BY <1>5, <1>6, <1>7, <1>8, <1>9 DEF IndInv

LEMMA UpsertAssetInv ==
  ASSUME IndInv, UpsertAssetSnapshot
  PROVE  IndInv'
<1>0. /\ Tables /\ Programs /\ StreamInv /\ WorkerInv /\ RowsInv /\ LastInv /\ JobInv /\ WholeInv /\ AssetInv
  BY DEF IndInv
<1>1. /\ UNCHANGED <<gateway, clock, cmds, close, job, api, faults>>
      /\ UNCHANGED <<held, version, skew, stream, ckpt, positions, archive, crashes, errors, skipped>>
      /\ asset' = [seen |-> Entry.seen, at |-> Entry.produced] /\ worker.pc = "asset" /\ Busy /\ EndEntry
  BY DEF UpsertAssetSnapshot, gateway, faults, Busy, assetFromReplyEnvelope
<1>2. /\ worker.idx \in DOMAIN stream /\ worker.idx \in Nat /\ ckpt \in Nat /\ Len(stream) \in Nat
      /\ \A i \in Nat : Done(i) <=> i < worker.idx
      /\ Entry = stream[worker.idx] /\ Entry.seen \in Seen /\ Entry.produced \in Int
  BY <1>1, AtEntry
<1>3. /\ WorkerInv' /\ worker'.pc \notin {"asset", "positions"}
      /\ worker' \in [pc : {"read", "archive", "asset", "positions", "save"}, idx : Nat,
                      todo : SUBSET Symbols, hi : Nat]
      /\ \A i \in Nat : Done(i)' <=> i <= worker.idx
      /\ \A i \in Nat, s \in Symbols : Applied(i, s)' <=> i <= worker.idx
  BY <1>0, <1>1, <1>2, EntryEnds
<1>4. \A i \in PositionPages : i \in Nat /\ (i <= worker.idx => i < worker.idx)
  <2>1. worker.idx \notin PositionPages
    BY <1>0, <1>1, <1>2 DEF WorkerInv, PositionPages
  <2> QED BY <1>0, <1>2, <2>1, StreamLength
<1>5. asset' \in Asset /\ asset'.at = Entry.produced /\ asset'.seen = Entry.seen
  BY <1>1, <1>2 DEF Asset
<1>6. Tables'
  BY <1>0, <1>1, <1>5, TablesFrame DEF Tables
<1>7. LastInv'
  <2>1. \A i \in PositionPages, s \in Symbols : Applied(i, s)' => Applied(i, s)
    BY <1>2, <1>3, <1>4 DEF Applied
  <2>2. \A i \in PositionPages : Done(i)' => Done(i)
    BY <1>2, <1>3, <1>4
  <2> QED BY <1>0, <1>1, <2>1, <2>2, LastFrame
<1>8. AssetInv'
  <2>1. Cut' = Cut /\ Asset' = Asset /\ DOMAIN stream = 1 .. Len(stream) /\ Cut \in Int
    BY <1>0, <1>1, StreamLength, CaptureAssumption DEF Cut, Asset, Seen, Programs, JobIn
  <2>2. Entry.produced < clock + skew
    BY <1>0, <1>2 DEF StreamInv
  <2>3. CASE job.pc = "idle"
    <3>1. ~ job.fresh /\ api.pc = "idle"
      BY <1>0, <2>3 DEF AssetInv, JobInv
    <3> QED BY <1>0, <1>1, <1>5, <2>1, <2>2, <2>3, <3>1 DEF AssetInv, Held, CapturedAssetFinal
  <2>4. CASE job.pc # "idle"
    <3>1. /\ Cut > 0 /\ \A i \in DOMAIN stream : stream[i].produced >= Cut => stream[i].seen = version
      BY <1>0, <2>4 DEF AssetInv
    <3>2. asset'.at >= Cut => asset'.seen = version
      BY <1>2, <1>5, <3>1
    <3>3. crashes = 0 /\ asset.at >= Cut => asset'.at >= Cut
      BY <1>0, <1>2, <1>5, <2>4 DEF AssetInv
    <3>4. asset'.at >= Cut => \A i \in DOMAIN stream : ~ Done(i)' => stream[i].produced >= Cut
      <4> SUFFICES ASSUME asset'.at >= Cut, NEW i \in DOMAIN stream, ~ Done(i)' PROVE stream[i].produced >= Cut
        OBVIOUS
      <4>1. i \in Nat /\ worker.idx < i
        BY <1>2, <1>3, <2>1
      <4>2. stream[worker.idx].produced <= stream[i].produced /\ stream[i].produced \in Int
        BY <1>0, <1>2, <4>1 DEF StreamInv, Tables
      <4> QED BY <1>2, <1>5, <2>1, <4>2
    <3> QED BY <1>0, <1>1, <1>5, <2>1, <2>2, <2>4, <3>1, <3>2, <3>3, <3>4 DEF AssetInv, Held, CapturedAssetFinal
  <2> QED BY <2>3, <2>4
<1>9. JobInv' /\ WholeInv' /\ StreamInv' /\ RowsInv' /\ Programs'
  BY <1>0, <1>1, <1>3, JobFrame, WholeFrame, StreamFrame, RowsFrame, ProgramsFrame
<1> QED BY <1>3, <1>6, <1>7, <1>8, <1>9 DEF IndInv

LEMMA PartialPageInv ==
  ASSUME IndInv, PartialPageDone
  PROVE  IndInv'
<1>0. /\ Tables /\ Programs /\ StreamInv /\ WorkerInv /\ RowsInv /\ LastInv /\ JobInv /\ WholeInv /\ AssetInv
  BY DEF IndInv
<1>1. /\ UNCHANGED <<gateway, clock, cmds, close, job, api, faults>>
      /\ UNCHANGED <<held, version, skew, stream, ckpt, positions, asset, archive, crashes, errors, skipped>>
      /\ worker.pc = "positions" /\ worker.todo = {} /\ Busy /\ EndEntry /\ Entry.status # "completed"
  BY DEF PartialPageDone, gateway, faults, ledger, Busy
<1>2. /\ worker.idx \in DOMAIN stream /\ worker.idx \in Nat /\ ckpt \in Nat /\ Len(stream) \in Nat
      /\ \A i \in Nat : Done(i) <=> i < worker.idx
      /\ Entry = stream[worker.idx]
  BY <1>1, AtEntry
<1>3. /\ WorkerInv' /\ worker'.pc \notin {"asset", "positions"}
      /\ worker' \in [pc : {"read", "archive", "asset", "positions", "save"}, idx : Nat,
                      todo : SUBSET Symbols, hi : Nat]
      /\ \A i \in Nat : Done(i)' <=> i <= worker.idx
      /\ \A i \in Nat, s \in Symbols : Applied(i, s)' <=> i <= worker.idx
  BY <1>0, <1>1, <1>2, EntryEnds
<1>4. PositionPages \subseteq Nat /\ DOMAIN stream \subseteq Nat /\ crashes \in Nat
  BY <1>0, StreamLength DEF Tables
<1>5. Tables'
  BY <1>0, <1>1, TablesFrame DEF Tables
<1>6. LastInv'
  <2>1. \A i \in PositionPages, s \in Symbols : Applied(i, s)' => Applied(i, s)
    BY <1>1, <1>2, <1>3, <1>4 DEF Applied
  <2>2. \A i \in PositionPages : Done(i)' => Done(i) \/ stream[i].status # "completed"
    <3>1. stream[worker.idx].status # "completed"
      BY <1>1, <1>2
    <3>2. \A i \in PositionPages : Done(i)' => Done(i) \/ i = worker.idx
      BY <1>2, <1>3, <1>4
    <3> QED BY <3>1, <3>2
  <2> QED BY <1>0, <1>1, <2>1, <2>2, LastFrame
<1>7. AssetInv'
  <2>1. \A i \in DOMAIN stream : Done(i) => Done(i)'
    BY <1>2, <1>3, <1>4
  <2> QED BY <2>1, <1>0, <1>1, <1>4, AssetFrame
<1>8. JobInv' /\ WholeInv' /\ StreamInv' /\ RowsInv' /\ Programs'
  BY <1>0, <1>1, <1>3, JobFrame, WholeFrame, StreamFrame, RowsFrame, ProgramsFrame
<1> QED BY <1>3, <1>5, <1>6, <1>7, <1>8 DEF IndInv

LEMMA StatementFailsInv ==
  ASSUME IndInv, StatementFails
  PROVE  IndInv'
<1>0. /\ Tables /\ Programs /\ StreamInv /\ WorkerInv /\ RowsInv /\ LastInv /\ JobInv /\ WholeInv /\ AssetInv
  BY DEF IndInv
<1>1. /\ UNCHANGED <<gateway, clock, cmds, close, job, api>>
      /\ UNCHANGED <<held, version, skew, stream, ckpt, positions, asset, archive, crashes>>
      /\ errors' = errors + 1 /\ skipped' = TRUE /\ Busy /\ EndEntry
  BY DEF StatementFails, gateway, ledger, Busy
<1>2. /\ worker.idx \in Nat /\ ckpt \in Nat /\ Len(stream) \in Nat
      /\ \A i \in Nat : Done(i) <=> i < worker.idx
  BY <1>1, AtEntry
<1>3. /\ WorkerInv'
      /\ worker' \in [pc : {"read", "archive", "asset", "positions", "save"}, idx : Nat,
                      todo : SUBSET Symbols, hi : Nat]
      /\ \A i \in Nat : Done(i)' <=> i <= worker.idx
  BY <1>0, <1>1, <1>2, EntryEnds
<1>4. DOMAIN stream \subseteq Nat /\ crashes \in Nat
  BY <1>0, StreamLength DEF Tables
<1>5. Tables'
  BY <1>0, <1>1, TablesFrame DEF Tables
<1>6. LastInv'
  BY <1>1 DEF LastInv
<1>7. AssetInv'
  <2>1. \A i \in DOMAIN stream : Done(i) => Done(i)'
    BY <1>2, <1>3, <1>4
  <2> QED BY <2>1, <1>0, <1>1, <1>4, AssetFrame
<1>8. JobInv' /\ WholeInv' /\ StreamInv' /\ RowsInv' /\ Programs'
  BY <1>0, <1>1, <1>3, JobFrame, WholeFrame, StreamFrame, RowsFrame, ProgramsFrame
<1> QED BY <1>3, <1>5, <1>6, <1>7, <1>8 DEF IndInv

-----------------------------------------------------------------------------
(* Lemma: no page is dated before its own query.                           *)
LEMMA PageTimes ==
  ASSUME Tables, NEW i \in DOMAIN stream
  PROVE  /\ positionQueryUpdatedAt(stream[i]) \in Int /\ IssuedAt(i) \in Nat
         /\ positionQueryStaleCutoff(stream[i]) = IssuedAt(i)
         /\ positionQueryUpdatedAt(stream[i]) >= IssuedAt(i)
<1>1. stream[i].produced \in Int /\ stream[i].cmd \in DOMAIN cmds
  BY DEF Tables
<1>2. cmds[stream[i].cmd].at \in Nat
  BY <1>1 DEF Tables
<1> QED BY <1>1, <1>2 DEF positionQueryUpdatedAt, positionQueryStaleCutoff, IssuedAt

(* Lemma: after the last page of the last query there is no other page.    *)
LEMMA NoPageAfter ==
  ASSUME Tables, StreamInv, NEW q \in PositionPages, LastQuery(q), NEW i \in PositionPages
  PROVE  i <= q
<1> SUFFICES ASSUME ~ (i <= q) PROVE FALSE
  OBVIOUS
<1>1. q \in DOMAIN stream /\ i \in DOMAIN stream /\ q < i /\ stream[q].status = "completed"
  BY StreamLength DEF PositionPages, LastQuery
<1>2. stream[q].cmd <= stream[i].cmd /\ stream[q].cmd # stream[i].cmd
  BY <1>1 DEF StreamInv
<1>3. stream[q].cmd < stream[i].cmd
  BY <1>1, <1>2, StreamLength DEF Tables
<1>4. IssuedAt(q) < IssuedAt(i)
  BY <1>1, <1>3 DEF StreamInv, IssuedAt, Tables
<1>5. positionQueryUpdatedAt(stream[i]) < IssuedAt(q)
  BY <1>2 DEF LastQuery
<1> QED BY <1>1, <1>4, <1>5, PageTimes

LEMMA UpsertPositionInv ==
  ASSUME IndInv, NEW s \in Symbols, UpsertPosition(s)
  PROVE  IndInv'
<1>0. /\ Tables /\ Programs /\ StreamInv /\ WorkerInv /\ RowsInv /\ LastInv /\ JobInv /\ WholeInv /\ AssetInv
  BY DEF IndInv
<1> DEFINE new == positionsFromReplyEnvelope(Entry)[s]
           up == positionQueryUpdatedAt(Entry)
<1>1. /\ UNCHANGED <<gateway, clock, cmds, close, job, api, faults>>
      /\ UNCHANGED <<held, version, skew, stream, ckpt, asset, archive, crashes, errors, skipped>>
      /\ positions' = [positions EXCEPT ![s] = upsertPositionSQL(@, new)]
      /\ worker.pc = "positions" /\ s \in worker.todo /\ Busy
      /\ At("positions", worker.idx, worker.todo \ {s})
  BY DEF UpsertPosition, gateway, faults, Busy
<1>2. /\ worker.idx \in DOMAIN stream /\ worker.idx \in Nat /\ ckpt \in Nat /\ Len(stream) \in Nat
      /\ \A i \in Nat : Done(i) <=> i < worker.idx
      /\ Entry = stream[worker.idx] /\ Entry.items \subseteq Symbols /\ Entry.seen \in Seen
  BY <1>1, AtEntry
<1>3. /\ Entry.type = "position_page" /\ s \in Entry.items /\ worker.todo \subseteq Entry.items
      /\ worker.idx \in PositionPages
  BY <1>0, <1>1, <1>2 DEF WorkerInv, PositionPages
<1>4. up \in Int /\ IssuedAt(worker.idx) \in Nat /\ up >= IssuedAt(worker.idx)
  BY <1>0, <1>2, PageTimes
<1>5. new = [seen |-> Entry.seen, at |-> up]
  BY <1>3 DEF positionsFromReplyEnvelope
<1> HIDE DEF new, up
<1>6. new \in Position /\ new.seen = Entry.seen /\ new.at = up /\ new # NoRow
  BY <1>2, <1>4, <1>5, CaptureAssumption DEF Position, Seen
<1>7. worker.todo \in SUBSET Symbols
  BY <1>0 DEF Programs
<1>8. /\ worker'.pc = "positions" /\ worker'.idx = worker.idx /\ worker'.todo = worker.todo \ {s}
      /\ worker'.hi = worker.hi
      /\ worker' \in [pc : {"read", "archive", "asset", "positions", "save"}, idx : Nat,
                      todo : SUBSET Symbols, hi : Nat]
  BY <1>0, <1>1, <1>2, <1>7, WorkerAt
<1>9. \A i \in Nat : Done(i)' <=> Done(i)
  BY <1>2, <1>8 DEF Done, Busy
<1>10. /\ positions \in [Symbols -> Position \cup {NoRow}] /\ positions' \in [Symbols -> Position \cup {NoRow}]
       /\ positions'[s] = upsertPositionSQL(positions[s], new)
       /\ \A r \in Symbols \ {s} : positions'[r] = positions[r]
  <2>1. positions \in [Symbols -> Position \cup {NoRow}]
    BY <1>0 DEF Tables
  <2>2. upsertPositionSQL(positions[s], new) \in Position \cup {NoRow}
    BY <1>6, <2>1 DEF upsertPositionSQL
  <2> QED BY <1>1, <2>1, <2>2
<1>11. \/ positions'[s] = new /\ (positions[s] = NoRow \/ positions[s].at <= up)
       \/ positions'[s] = positions[s] /\ positions[s] # NoRow /\ positions[s].at > up
  <2>1. positions[s] # NoRow => positions[s].at \in Int
    BY <1>10 DEF Position
  <2> QED BY <1>4, <1>6, <1>10, <2>1 DEF upsertPositionSQL
<1>12. Tables'
  BY <1>0, <1>1, <1>10, TablesFrame DEF Tables
<1>13. RowsInv'
  <2>1. PositionPages' = PositionPages
    BY <1>1 DEF PositionPages
  <2>2. \A i \in PositionPages : positionQueryUpdatedAt(stream[i])' = positionQueryUpdatedAt(stream[i])
    BY <1>1 DEF positionQueryUpdatedAt, positionQueryStaleCutoff
  <2>3. up = positionQueryUpdatedAt(stream[worker.idx])
    BY <1>2 DEF up
  <2>4. \A r \in Symbols : positions'[r] # NoRow =>
          \/ positions'[r].at = 0
          \/ \E i \in PositionPages : /\ r \in stream[i].items /\ positions'[r].seen = stream[i].seen
                                      /\ positions'[r].at = positionQueryUpdatedAt(stream[i])
    <3> SUFFICES ASSUME NEW r \in Symbols, positions'[r] # NoRow
                 PROVE  \/ positions'[r].at = 0
                        \/ \E i \in PositionPages :
                             /\ r \in stream[i].items /\ positions'[r].seen = stream[i].seen
                             /\ positions'[r].at = positionQueryUpdatedAt(stream[i])
      OBVIOUS
    <3>1. CASE positions'[r] = positions[r]
      BY <3>1, <1>0 DEF RowsInv
    <3>2. CASE r = s /\ positions'[s] = new
      BY <3>2, <1>2, <1>3, <1>6, <2>3
    <3> QED BY <3>1, <3>2, <1>10, <1>11
  <2> QED BY <1>1, <2>1, <2>2, <2>4 DEF RowsInv
<1>14. LastInv'
  <2> SUFFICES ASSUME ~ skipped', NEW q \in PositionPages, LastQuery(q)', NEW r \in Symbols
               PROVE  /\ \A i \in PositionPages :
                           stream[i].cmd = stream[q].cmd /\ r \in stream[i].items /\ Applied(i, r)' =>
                             positions'[r] # NoRow /\ positions'[r].at >= IssuedAt(q)
                      /\ Done(q)' /\ positions'[r] # NoRow => positions'[r].at >= IssuedAt(q)
    BY <1>1 DEF LastInv, PositionPages, IssuedAt
  <2>1. LastQuery(q) /\ ~ skipped
    BY <1>1 DEF LastQuery, PositionPages, IssuedAt, positionQueryUpdatedAt, positionQueryStaleCutoff
  <2>2. IssuedAt(q) \in Nat /\ q \in Nat
    BY <1>0, PageTimes, StreamLength DEF PositionPages
  <2>3. CASE stream[worker.idx].cmd = stream[q].cmd
    <3>1. IssuedAt(worker.idx) = IssuedAt(q)
      BY <2>3 DEF IssuedAt
    <3>2. ASSUME NEW i \in PositionPages, stream[i].cmd = stream[q].cmd, r \in stream[i].items, Applied(i, r)'
          PROVE  positions'[r] # NoRow /\ positions'[r].at >= IssuedAt(q)
      <4>1. CASE r = s
        BY <4>1, <1>4, <1>6, <1>10, <1>11, <2>2, <3>1 DEF Position
      <4>2. CASE r # s
        <5>1. Applied(i, r)
          BY <4>2, <3>2, <1>0, <1>1, <1>8, <1>9, StreamLength DEF Applied
        <5> QED BY <4>2, <5>1, <3>2, <1>0, <1>10, <2>1 DEF LastInv
      <4> QED BY <4>1, <4>2
    <3>3. ~ Done(q)'
      BY <1>0, <1>2, <1>3, <1>9, <2>1, <2>2, NoPageAfter
    <3> QED BY <3>2, <3>3
  <2>4. CASE stream[worker.idx].cmd # stream[q].cmd
    <3>1. up < IssuedAt(q)
      BY <1>2, <1>3, <2>1, <2>4 DEF LastQuery, up
    <3>2. ASSUME NEW i \in PositionPages, stream[i].cmd = stream[q].cmd, r \in stream[i].items, Applied(i, r)'
          PROVE  positions'[r] # NoRow /\ positions'[r].at >= IssuedAt(q)
      <4>1. i # worker.idx
        BY <2>4, <3>2
      <4>2. Applied(i, r)
        BY <4>1, <3>2, <1>0, <1>8, <1>9, StreamLength DEF Applied
      <4>3. positions[r] # NoRow /\ positions[r].at >= IssuedAt(q)
        BY <4>2, <3>2, <1>0, <2>1 DEF LastInv
      <4>4. positions[r].at \in Int
        BY <4>3, <1>10 DEF Position
      <4>5. positions'[r] = positions[r]
        BY <4>3, <4>4, <1>4, <1>10, <1>11, <2>2, <3>1
      <4> QED BY <4>3, <4>5
    <3>3. ~ Done(q)'
      BY <1>0, <1>2, <1>3, <1>9, <2>1, <2>2, NoPageAfter
    <3> QED BY <3>2, <3>3
  <2> QED BY <2>3, <2>4
<1>15. WorkerInv'
  BY <1>0, <1>1, <1>2, <1>3, <1>8 DEF WorkerInv, Busy, Entry
<1>16. AssetInv'
  <2>1. crashes \in Nat /\ DOMAIN stream \subseteq Nat
    BY <1>0, StreamLength DEF Tables
  <2> QED BY <2>1, <1>0, <1>1, <1>9, AssetFrame
<1>17. JobInv' /\ WholeInv' /\ StreamInv' /\ Programs'
  BY <1>0, <1>1, <1>8, JobFrame, WholeFrame, StreamFrame, ProgramsFrame
<1> QED BY <1>12, <1>13, <1>14, <1>15, <1>16, <1>17 DEF IndInv

LEMMA DeleteStaleInv ==
  ASSUME IndInv, DeleteStalePositions
  PROVE  IndInv'
<1>0. /\ Tables /\ Programs /\ StreamInv /\ WorkerInv /\ RowsInv /\ LastInv /\ JobInv /\ WholeInv /\ AssetInv
  BY DEF IndInv
<1> DEFINE cut == positionQueryStaleCutoff(Entry)
<1>1. /\ UNCHANGED <<gateway, clock, cmds, close, job, api, faults>>
      /\ UNCHANGED <<held, version, skew, stream, ckpt, asset, archive, crashes, errors, skipped>>
      /\ positions' = [s \in Symbols |-> deleteStalePositionsSQL(positions[s], cut)]
      /\ worker.pc = "positions" /\ worker.todo = {} /\ Busy /\ EndEntry
  BY DEF DeleteStalePositions, gateway, faults, Busy
<1>2. /\ worker.idx \in DOMAIN stream /\ worker.idx \in Nat /\ ckpt \in Nat /\ Len(stream) \in Nat
      /\ \A i \in Nat : Done(i) <=> i < worker.idx
      /\ Entry = stream[worker.idx]
  BY <1>1, AtEntry
<1>3. worker.idx \in PositionPages
  BY <1>0, <1>1, <1>2 DEF WorkerInv, PositionPages
<1>4. cut = IssuedAt(worker.idx) /\ cut \in Nat
  BY <1>0, <1>2, PageTimes
<1> HIDE DEF cut
<1>5. /\ WorkerInv' /\ worker'.pc \notin {"asset", "positions"}
      /\ worker' \in [pc : {"read", "archive", "asset", "positions", "save"}, idx : Nat,
                      todo : SUBSET Symbols, hi : Nat]
      /\ \A i \in Nat : Done(i)' <=> i <= worker.idx
      /\ \A i \in Nat, s \in Symbols : Applied(i, s)' <=> i <= worker.idx
  BY <1>0, <1>1, <1>2, EntryEnds
<1>6. /\ PositionPages \subseteq Nat /\ DOMAIN stream \subseteq Nat /\ crashes \in Nat
      /\ positions \in [Symbols -> Position \cup {NoRow}]
  BY <1>0, StreamLength DEF Tables
<1>7. \A s \in Symbols :
        \/ positions'[s] = positions[s] /\ (positions[s] = NoRow \/ positions[s].at >= cut)
        \/ positions'[s] = NoRow /\ positions[s] # NoRow /\ positions[s].at < cut
  <2> SUFFICES ASSUME NEW s \in Symbols
               PROVE  \/ positions'[s] = positions[s] /\ (positions[s] = NoRow \/ positions[s].at >= cut)
                      \/ positions'[s] = NoRow /\ positions[s] # NoRow /\ positions[s].at < cut
    OBVIOUS
  <2>1. positions'[s] = deleteStalePositionsSQL(positions[s], cut)
    BY <1>1
  <2>2. positions[s] # NoRow => positions[s].at \in Int
    BY <1>6 DEF Position
  <2> QED BY <1>4, <2>1, <2>2 DEF deleteStalePositionsSQL
<1>8. positions' \in [Symbols -> Position \cup {NoRow}]
  <2>1. DOMAIN positions' = Symbols /\ positions' = [s \in Symbols |-> positions'[s]]
    BY <1>1
  <2> QED BY <1>6, <1>7, <2>1
<1>9. Tables'
  BY <1>0, <1>1, <1>8, TablesFrame DEF Tables
<1>10. RowsInv'
  <2>1. PositionPages' = PositionPages
    BY <1>1 DEF PositionPages
  <2>2. \A i \in PositionPages : positionQueryUpdatedAt(stream[i])' = positionQueryUpdatedAt(stream[i])
    BY <1>1 DEF positionQueryUpdatedAt, positionQueryStaleCutoff
  <2> QED BY <1>0, <1>1, <1>7, <2>1, <2>2 DEF RowsInv
<1>11. LastInv'
  <2> SUFFICES ASSUME ~ skipped', NEW q \in PositionPages, LastQuery(q)', NEW r \in Symbols
               PROVE  /\ \A i \in PositionPages :
                           stream[i].cmd = stream[q].cmd /\ r \in stream[i].items /\ Applied(i, r)' =>
                             positions'[r] # NoRow /\ positions'[r].at >= IssuedAt(q)
                      /\ Done(q)' /\ positions'[r] # NoRow => positions'[r].at >= IssuedAt(q)
    BY <1>1 DEF LastInv, PositionPages, IssuedAt
  <2>1. LastQuery(q) /\ ~ skipped
    BY <1>1 DEF LastQuery, PositionPages, IssuedAt, positionQueryUpdatedAt, positionQueryStaleCutoff
  <2>2. IssuedAt(q) \in Nat /\ q \in Nat
    BY <1>0, PageTimes, StreamLength DEF PositionPages
  <2>3. cut <= IssuedAt(q)
    <3>1. CASE stream[worker.idx].cmd = stream[q].cmd
      BY <3>1, <1>4, <2>2 DEF IssuedAt
    <3>2. CASE stream[worker.idx].cmd # stream[q].cmd
      <4>1. positionQueryUpdatedAt(stream[worker.idx]) < IssuedAt(q)
        BY <3>2, <1>3, <2>1 DEF LastQuery
      <4> QED BY <4>1, <1>0, <1>2, <1>4, <2>2, PageTimes
    <3> QED BY <3>1, <3>2
  <2>4. ASSUME NEW i \in PositionPages, stream[i].cmd = stream[q].cmd, r \in stream[i].items, Applied(i, r)'
        PROVE  positions'[r] # NoRow /\ positions'[r].at >= IssuedAt(q)
    <3>1. Applied(i, r)
      BY <2>4, <1>1, <1>2, <1>5, <1>6 DEF Applied
    <3>2. positions[r] # NoRow /\ positions[r].at >= IssuedAt(q)
      BY <2>1, <2>4, <3>1, <1>0 DEF LastInv
    <3>3. positions[r].at \in Int
      BY <3>2, <1>6 DEF Position
    <3> QED BY <1>4, <1>7, <2>2, <2>3, <3>2, <3>3
  <2>5. ASSUME Done(q)', positions'[r] # NoRow
        PROVE  positions'[r].at >= IssuedAt(q)
    <3>1. q <= worker.idx
      BY <1>5, <2>2, <2>5
    <3>2. CASE q = worker.idx
      BY <3>2, <1>4, <1>7, <2>5
    <3>3. CASE q < worker.idx
      <4>1. positions[r] # NoRow /\ positions'[r] = positions[r]
        BY <1>7, <2>5
      <4> QED BY <4>1, <3>3, <1>0, <1>2, <2>1, <2>2 DEF LastInv
    <3> QED BY <3>1, <3>2, <3>3, <1>2, <2>2
  <2> QED BY <2>4, <2>5
<1>12. AssetInv'
  <2>1. \A i \in DOMAIN stream : Done(i) => Done(i)'
    BY <1>2, <1>5, <1>6
  <2> QED BY <2>1, <1>0, <1>1, <1>6, AssetFrame
<1>13. JobInv' /\ WholeInv' /\ StreamInv' /\ Programs'
  BY <1>0, <1>1, <1>5, JobFrame, WholeFrame, StreamFrame, ProgramsFrame
<1> QED BY <1>5, <1>9, <1>10, <1>11, <1>12, <1>13 DEF IndInv

-----------------------------------------------------------------------------
(* Queries and answers.                                                    *)

(* Lemma: what the gateway answers to one query.                           *)
Answering(c, t) ==
  /\ t \in Seq(Range(t)) /\ Len(t) >= 1
  /\ \A k \in 1 .. Len(t) :
       /\ t[k].cmd = c /\ t[k].seen = version /\ t[k].produced = clock + skew /\ t[k].items \subseteq Symbols
       /\ t[k].type \in {"asset_page", "position_page"} => t[k].status # "failed"
       /\ k < Len(t) => t[k].status # "completed"

LEMMA OneReply ==
  ASSUME NEW c, NEW e, e.cmd = c, e.seen = version, e.produced = clock + skew, e.items \subseteq Symbols,
         e.type \in {"asset_page", "position_page"} => e.status # "failed"
  PROVE  Answering(c, <<e>>)
<1>1. Len(<<e>>) = 1 /\ <<e>>[1] = e /\ <<e>> \in Seq({e}) /\ DOMAIN <<e>> = 1 .. 1
  OBVIOUS
<1>2. PICK t : t = <<e>>
  OBVIOUS
<1>3. Len(t) = 1 /\ t[1] = e /\ t \in Seq({e}) /\ DOMAIN t = 1 .. 1
  BY <1>1, <1>2
<1>4. t \in Seq(Range(t))
  BY <1>3, SeqOfRange
<1>5. Answering(c, t)
  BY <1>3, <1>4 DEF Answering
<1> QED BY <1>2, <1>5

LEMMA MoreReplies ==
  ASSUME NEW c, NEW e, NEW t, NEW u, Answering(c, <<e>>), e.status # "completed", Answering(c, t), u = <<e>> \o t
  PROVE  Answering(c, u)
<1>1. PICK a : a = <<e>>
  OBVIOUS
<1>2. Len(a) = 1 /\ a[1] = e /\ Answering(c, a) /\ a \in Seq(Range(a)) /\ t \in Seq(Range(t))
  <2>1. Len(<<e>>) = 1 /\ <<e>>[1] = e
    OBVIOUS
  <2> QED BY <1>1, <2>1 DEF Answering
<1>3. /\ u \in Seq(Range(u)) /\ Len(u) = 1 + Len(t) /\ Len(t) \in Nat
      /\ u[1] = e /\ \A i \in 1 .. Len(t) : u[1 + i] = t[i]
  <2>1. u = a \o t
    BY <1>1
  <2>2. /\ u \in Seq(Range(u)) /\ Len(u) = Len(a) + Len(t) /\ Len(t) \in Nat
        /\ \A i \in 1 .. Len(a) : u[i] = a[i]
        /\ \A i \in 1 .. Len(t) : u[Len(a) + i] = t[i]
    <3>1. a \in Seq(Range(a)) /\ t \in Seq(Range(t))
      BY <1>2
    <3>2. u \in Seq(Range(u))
      <4>1. a \o t \in Seq(Range(a) \cup Range(t))
        BY <3>1, SeqMonotonic, ConcatProperties
      <4>2. u \in Seq(Range(a) \cup Range(t))
        BY <2>1, <4>1
      <4> QED BY <4>2, SeqOfRange
    <3>3. Len(u) = Len(a) + Len(t) /\ Len(t) \in Nat
      BY <2>1, <3>1, Joined
    <3>4. \A i \in 1 .. Len(a) : u[i] = a[i]
      BY <2>1, <3>1, Joined
    <3>5. \A i \in 1 .. Len(t) : u[Len(a) + i] = t[i]
      BY <2>1, <3>1, Joined
    <3> QED BY <3>2, <3>3, <3>4, <3>5
  <2> QED BY <1>2, <2>2
<1>4. \A k \in 1 .. Len(u) : k = 1 \/ (k - 1 \in 1 .. Len(t) /\ u[k] = t[k - 1])
  <2> SUFFICES ASSUME NEW k \in 1 .. Len(u), k # 1 PROVE k - 1 \in 1 .. Len(t) /\ u[k] = t[k - 1]
    OBVIOUS
  <2>1. k - 1 \in 1 .. Len(t) /\ 1 + (k - 1) = k
    BY <1>3
  <2> QED BY <1>3, <2>1
<1>5. /\ e.cmd = c /\ e.seen = version /\ e.produced = clock + skew /\ e.items \subseteq Symbols
      /\ e.type \in {"asset_page", "position_page"} => e.status # "failed"
  BY <1>2 DEF Answering
<1> QED BY <1>2, <1>3, <1>4, <1>5 DEF Answering

LEMMA RepliesAnswer ==
  ASSUME IndInv, NEW c \in DOMAIN cmds, Answer(c)
  PROVE  \E t : Answering(c, t) /\ stream' = stream \o t
<1>0. held \subseteq Symbols
  BY DEF IndInv, Tables
<1>1. PICK first \in (IF cmds[c].step = "positions" THEN SUBSET held ELSE {{}}) :
        \/ stream' = stream \o Pages(c, first)
        \/ stream' = stream \o <<Failure(c, "QUERY_INTERRUPTED")>> \o Pages(c, first)
        \/ \E code \in {"BROKER_NOT_READY", "ERROR"} : stream' = Append(stream, Failure(c, code))
  BY DEF Answer
<1>2. first \subseteq Symbols
  BY <1>0
<1>3. \A code : Answering(c, <<Failure(c, code)>>) /\ Failure(c, code).status # "completed"
  <2> SUFFICES ASSUME NEW code PROVE Answering(c, <<Failure(c, code)>>) /\ Failure(c, code).status # "completed"
    OBVIOUS
  <2>1. PICK e : e = Failure(c, code)
    OBVIOUS
  <2>2. /\ e.cmd = c /\ e.seen = version /\ e.produced = clock + skew /\ e.items = {}
        /\ e.type = "error_result" /\ e.status = "failed"
    BY <2>1 DEF Failure, Reply
  <2> QED BY <2>1, <2>2, OneReply
<1>4. Answering(c, Pages(c, first))
  <2> DEFINE type == expectedCommandResultType(cmds[c].step)
             all == IF cmds[c].step = "positions" THEN held ELSE {}
  <2>1. PICK e : e = Reply(c, "partial", "", type, FALSE, first)
    OBVIOUS
  <2>2. PICK f : f = Reply(c, "completed", "", type, TRUE, all \ first)
    OBVIOUS
  <2>3. Answering(c, <<e>>) /\ e.status # "completed"
    <3>1. e.cmd = c /\ e.seen = version /\ e.produced = clock + skew /\ e.items = first /\ e.status = "partial"
      BY <2>1 DEF Reply
    <3> QED BY <1>2, <3>1, OneReply
  <2>4. Answering(c, <<f>>)
    <3>1. /\ f.cmd = c /\ f.seen = version /\ f.produced = clock + skew /\ f.items = all \ first
          /\ f.status = "completed"
      BY <2>2 DEF Reply
    <3>2. all \ first \subseteq Symbols
      BY <1>0
    <3> HIDE DEF all, type
    <3> QED BY <3>1, <3>2, OneReply
  <2>5. Pages(c, first) = (IF first = {} THEN <<>> ELSE <<e>>) \o <<f>>
    BY <2>1, <2>2 DEF Pages
  <2>6. CASE first = {}
    <3>1. <<>> \o <<f>> = <<f>>
      OBVIOUS
    <3> QED BY <2>4, <2>5, <2>6, <3>1
  <2>7. CASE first # {}
    BY <2>3, <2>4, <2>5, <2>7, MoreReplies
  <2> QED BY <2>6, <2>7
<1>5. CASE stream' = stream \o Pages(c, first)
  BY <1>4, <1>5
<1>6. CASE stream' = stream \o <<Failure(c, "QUERY_INTERRUPTED")>> \o Pages(c, first)
  <2>1. PICK a, b : a = <<Failure(c, "QUERY_INTERRUPTED")>> /\ b = Pages(c, first)
    OBVIOUS
  <2>2. Answering(c, a \o b)
    BY <1>3, <1>4, <2>1, MoreReplies
  <2>3. stream \in Seq(Range(stream)) /\ a \in Seq(Range(a)) /\ b \in Seq(Range(b))
    BY <1>3, <1>4, <2>1 DEF Answering, IndInv, Tables
  <2>4. (stream \o a) \o b = stream \o (a \o b)
    <3> DEFINE S == Range(stream) \cup Range(a) \cup Range(b)
    <3>1. stream \in Seq(S) /\ a \in Seq(S) /\ b \in Seq(S)
      BY <2>3, SeqMonotonic
    <3> QED BY <3>1, ConcatAssociative
  <2> QED BY <1>6, <2>1, <2>2, <2>4
<1>7. CASE \E code \in {"BROKER_NOT_READY", "ERROR"} : stream' = Append(stream, Failure(c, code))
  <2>1. PICK code : stream' = Append(stream, Failure(c, code))
    BY <1>7
  <2>2. Append(stream, Failure(c, code)) = stream \o <<Failure(c, code)>>
    <3> DEFINE S == Range(stream) \cup {Failure(c, code)}
    <3>1. stream \in Seq(S)
      BY SeqMonotonic DEF IndInv, Tables
    <3> QED BY <3>1, AppendIsConcat
  <2> QED BY <1>3, <2>1, <2>2
<1> QED BY <1>1, <1>5, <1>6, <1>7

(* Lemma: the stream and the queries after an answer.                      *)
LEMMA AnswerFacts ==
  ASSUME IndInv, NEW c \in DOMAIN cmds, Answer(c)
  PROVE  /\ cmds' \in Seq(Range(cmds')) /\ Len(cmds') = Len(cmds) /\ DOMAIN cmds' = DOMAIN cmds
         /\ \A d \in DOMAIN cmds :
              /\ cmds'[d].at = cmds[d].at
              /\ cmds'[d] \in [by : {"job", "other"}, step : {cmds'[d].step}, at : Nat, answered : BOOLEAN]
              /\ cmds'[d].answered <=> (d = c \/ cmds[d].answered)
         /\ ~ cmds[c].answered /\ \A d \in 1 .. c - 1 : cmds[d].answered
         /\ stream' \in Seq(Range(stream')) /\ Len(stream') \in Nat /\ Len(stream') > Len(stream)
         /\ DOMAIN stream' = 1 .. Len(stream')
         /\ \A i \in 1 .. Len(stream) : stream'[i] = stream[i]
         /\ \A i \in Len(stream) + 1 .. Len(stream') :
              /\ stream'[i].cmd = c /\ stream'[i].seen = version /\ stream'[i].produced = clock + skew
              /\ stream'[i].items \subseteq Symbols
              /\ stream'[i].type \in {"asset_page", "position_page"} => stream'[i].status # "failed"
              /\ i < Len(stream') => stream'[i].status # "completed"
<1>0. Tables /\ Len(cmds) \in Nat /\ DOMAIN cmds = 1 .. Len(cmds) /\ c \in 1 .. Len(cmds)
  BY StreamLength DEF IndInv
<1>1. PICK t : Answering(c, t) /\ stream' = stream \o t
  BY RepliesAnswer
<1>2. stream \in Seq(Range(stream)) /\ t \in Seq(Range(t)) /\ Len(t) >= 1
  BY <1>0, <1>1 DEF Tables, Answering
<1>3. /\ stream' \in Seq(Range(stream')) /\ Len(stream') = Len(stream) + Len(t) /\ Len(stream) \in Nat
      /\ Len(t) \in Nat /\ DOMAIN stream' = 1 .. Len(stream) + Len(t)
      /\ \A i \in 1 .. Len(stream) : stream'[i] = stream[i]
      /\ \A i \in 1 .. Len(t) : stream'[Len(stream) + i] = t[i]
  <2>1. stream' = stream \o t /\ stream \in Seq(Range(stream)) /\ t \in Seq(Range(t))
    BY <1>1, <1>2
  <2>2. stream' \in Seq(Range(stream'))
    BY <2>1, Joined
  <2>3. /\ Len(stream') = Len(stream) + Len(t) /\ Len(stream) \in Nat /\ Len(t) \in Nat
        /\ DOMAIN stream' = 1 .. Len(stream) + Len(t)
    BY <2>1, Joined
  <2>4. \A i \in 1 .. Len(stream) : stream'[i] = stream[i]
    BY <2>1, Joined
  <2>5. \A i \in 1 .. Len(t) : stream'[Len(stream) + i] = t[i]
    BY <2>1, Joined
  <2> QED BY <2>2, <2>3, <2>4, <2>5
<1>4. \A i \in Len(stream) + 1 .. Len(stream') :
        i - Len(stream) \in 1 .. Len(t) /\ stream'[i] = t[i - Len(stream)]
  <2> SUFFICES ASSUME NEW i \in Len(stream) + 1 .. Len(stream')
               PROVE  i - Len(stream) \in 1 .. Len(t) /\ stream'[i] = t[i - Len(stream)]
    OBVIOUS
  <2>1. i - Len(stream) \in 1 .. Len(t) /\ Len(stream) + (i - Len(stream)) = i
    BY <1>3
  <2> QED BY <1>3, <2>1
<1>5. \A i \in Len(stream) + 1 .. Len(stream') :
        /\ stream'[i].cmd = c /\ stream'[i].seen = version /\ stream'[i].produced = clock + skew
        /\ stream'[i].items \subseteq Symbols
        /\ stream'[i].type \in {"asset_page", "position_page"} => stream'[i].status # "failed"
        /\ i < Len(stream') => stream'[i].status # "completed"
  BY <1>1, <1>3, <1>4 DEF Answering
<1>6. cmds[c] \in [by : {"job", "other"}, step : {cmds[c].step}, at : Nat, answered : BOOLEAN]
  BY <1>0 DEF Tables
<1>7. PICK x : x = [cmds[c] EXCEPT !.answered = TRUE]
  OBVIOUS
<1>8. /\ x \in [by : {"job", "other"}, step : {x.step}, at : Nat, answered : BOOLEAN]
      /\ x.at = cmds[c].at /\ x.answered = TRUE
  BY <1>6, <1>7
<1>9. cmds' = [cmds EXCEPT ![c] = x]
  BY <1>7 DEF Answer
<1>10. cmds' \in Seq(Range(cmds')) /\ Len(cmds') = Len(cmds) /\ DOMAIN cmds' = DOMAIN cmds
  <2> DEFINE S == Range(cmds) \cup {x}
  <2>1. cmds \in Seq(S)
    BY <1>0, SeqMonotonic DEF Tables
  <2>2. x \in S
    OBVIOUS
  <2> HIDE DEF S
  <2>3. cmds' \in Seq(S) /\ Len(cmds') = Len(cmds)
    BY <1>0, <1>9, <2>1, <2>2, ExceptSeq
  <2>4. cmds' \in Seq(Range(cmds')) /\ DOMAIN cmds' = 1 .. Len(cmds')
    BY <2>3, SeqOfRange, LenProperties
  <2> QED BY <1>0, <2>3, <2>4
<1>11. cmds'[c] = x /\ \A d \in DOMAIN cmds \ {c} : cmds'[d] = cmds[d]
  BY <1>0, <1>9
<1>12. \A d \in DOMAIN cmds :
         /\ cmds'[d].at = cmds[d].at
         /\ cmds'[d] \in [by : {"job", "other"}, step : {cmds'[d].step}, at : Nat, answered : BOOLEAN]
         /\ cmds'[d].answered <=> (d = c \/ cmds[d].answered)
  <2> SUFFICES ASSUME NEW d \in DOMAIN cmds
               PROVE  /\ cmds'[d].at = cmds[d].at
                      /\ cmds'[d] \in [by : {"job", "other"}, step : {cmds'[d].step}, at : Nat, answered : BOOLEAN]
                      /\ cmds'[d].answered <=> (d = c \/ cmds[d].answered)
    OBVIOUS
  <2>1. CASE d = c
    BY <1>8, <1>11, <2>1
  <2>2. CASE d # c
    <3>1. cmds'[d] = cmds[d]
      BY <1>11, <2>2
    <3>2. cmds[d] \in [by : {"job", "other"}, step : {cmds[d].step}, at : Nat, answered : BOOLEAN]
      BY <1>0 DEF Tables
    <3> QED BY <2>2, <3>1, <3>2
  <2> QED BY <2>1, <2>2
<1>13. ~ cmds[c].answered /\ \A d \in 1 .. c - 1 : cmds[d].answered
  BY DEF Answer
<1> QED BY <1>2, <1>3, <1>5, <1>10, <1>12, <1>13

LEMMA AnswerInv ==
  ASSUME IndInv, NEW c \in DOMAIN cmds, Answer(c)
  PROVE  IndInv'
<1>0. /\ Tables /\ Programs /\ StreamInv /\ WorkerInv /\ RowsInv /\ LastInv /\ JobInv /\ WholeInv /\ AssetInv
  BY DEF IndInv
<1>1. /\ UNCHANGED <<held, version, skew, archive, positions, asset, ckpt, close, worker, job, api>>
      /\ UNCHANGED <<crashes, errors, skipped>> /\ clock' = clock + 2
  BY DEF Answer, ledger, faults
<1>2. /\ cmds' \in Seq(Range(cmds')) /\ Len(cmds') = Len(cmds) /\ DOMAIN cmds' = DOMAIN cmds
      /\ \A d \in DOMAIN cmds :
           /\ cmds'[d].at = cmds[d].at
           /\ cmds'[d] \in [by : {"job", "other"}, step : {cmds'[d].step}, at : Nat, answered : BOOLEAN]
           /\ cmds'[d].answered <=> (d = c \/ cmds[d].answered)
      /\ ~ cmds[c].answered /\ \A d \in 1 .. c - 1 : cmds[d].answered
  BY AnswerFacts
<1>3. /\ stream' \in Seq(Range(stream')) /\ Len(stream') \in Nat /\ Len(stream') > Len(stream)
      /\ DOMAIN stream' = 1 .. Len(stream')
      /\ \A i \in 1 .. Len(stream) : stream'[i] = stream[i]
      /\ \A i \in Len(stream) + 1 .. Len(stream') :
           /\ stream'[i].cmd = c /\ stream'[i].seen = version /\ stream'[i].produced = clock + skew
           /\ stream'[i].items \subseteq Symbols
           /\ stream'[i].type \in {"asset_page", "position_page"} => stream'[i].status # "failed"
           /\ i < Len(stream') => stream'[i].status # "completed"
  BY AnswerFacts
<1>4. /\ Len(stream) \in Nat /\ DOMAIN stream = 1 .. Len(stream) /\ Len(cmds) \in Nat
      /\ DOMAIN cmds = 1 .. Len(cmds) /\ clock \in Nat /\ skew \in Int /\ version \in Nat
  BY <1>0, StreamLength, CaptureAssumption DEF Tables
<1>5. \A i \in DOMAIN stream' : i \in DOMAIN stream \/ i \in Len(stream) + 1 .. Len(stream')
  BY <1>3, <1>4
<1>6. \A i \in DOMAIN stream : i \in DOMAIN stream' /\ stream'[i] = stream[i]
  BY <1>3, <1>4
<1>7. \A i \in DOMAIN stream :
        /\ stream[i].cmd \in DOMAIN cmds /\ stream[i].seen \in Seen /\ cmds[stream[i].cmd].answered
        /\ stream[i].produced \in Int /\ stream[i].items \subseteq Symbols
        /\ stream[i].produced < clock + skew
  BY <1>0 DEF Tables, StreamInv
<1>8. \A i \in DOMAIN stream : stream[i].cmd < c
  <2> SUFFICES ASSUME NEW i \in DOMAIN stream PROVE stream[i].cmd < c
    OBVIOUS
  <2>1. stream[i].cmd # c /\ stream[i].cmd \in DOMAIN cmds /\ cmds[stream[i].cmd].answered
    BY <1>2, <1>7
  <2>2. ~ (c < stream[i].cmd)
    BY <1>0, <1>2, <2>1 DEF StreamInv
  <2> QED BY <1>4, <2>1, <2>2
<1>9. Tables'
  <2>1. archive' \in Seq(DOMAIN stream')
    <3>1. DOMAIN stream \subseteq DOMAIN stream'
      BY <1>6
    <3> QED BY <1>0, <1>1, <3>1, SeqMonotonic DEF Tables
  <2>2. \A i \in DOMAIN stream' :
          /\ stream'[i].cmd \in DOMAIN cmds' /\ stream'[i].seen \in Seen
          /\ stream'[i].produced \in Int /\ stream'[i].items \subseteq Symbols
    <3>1. ASSUME NEW i \in DOMAIN stream
          PROVE  /\ stream'[i].cmd \in DOMAIN cmds' /\ stream'[i].seen \in Seen
                 /\ stream'[i].produced \in Int /\ stream'[i].items \subseteq Symbols
      BY <1>2, <1>6, <1>7
    <3>2. ASSUME NEW i \in Len(stream) + 1 .. Len(stream')
          PROVE  /\ stream'[i].cmd \in DOMAIN cmds' /\ stream'[i].seen \in Seen
                 /\ stream'[i].produced \in Int /\ stream'[i].items \subseteq Symbols
      <4>1. stream'[i].cmd = c /\ stream'[i].seen = version /\ stream'[i].produced = clock + skew
            /\ stream'[i].items \subseteq Symbols
        BY <1>3
      <4>2. version \in Seen /\ clock + skew \in Int /\ c \in DOMAIN cmds'
        BY <1>2, <1>4 DEF Seen
      <4> QED BY <4>1, <4>2
    <3> QED BY <1>5, <3>1, <3>2
  <2>3. Seen' = Seen /\ Asset' = Asset /\ Position' = Position
    BY <1>1 DEF Seen, Asset, Position
  <2> QED BY <1>0, <1>1, <1>2, <1>3, <1>4, <2>1, <2>2, <2>3 DEF Tables
<1>10. StreamInv'
  <2>1. \A d \in DOMAIN cmds' : cmds'[d].at > 0 /\ cmds'[d].at < clock'
    BY <1>0, <1>1, <1>2, <1>4 DEF StreamInv, Tables
  <2>2. \A d, e \in DOMAIN cmds' : d < e => /\ cmds'[d].at < cmds'[e].at
                                            /\ cmds'[e].answered => cmds'[d].answered
    <3> SUFFICES ASSUME NEW d \in DOMAIN cmds, NEW e \in DOMAIN cmds, d < e
                 PROVE  /\ cmds'[d].at < cmds'[e].at
                        /\ cmds'[e].answered => cmds'[d].answered
      BY <1>2
    <3>1. cmds[d].at < cmds[e].at /\ (cmds[e].answered => cmds[d].answered)
      BY <1>0 DEF StreamInv
    <3>2. e = c => cmds[d].answered
      BY <1>2, <1>4
    <3> QED BY <1>2, <3>1, <3>2
  <2>3. \A i \in DOMAIN stream' :
          /\ cmds'[stream'[i].cmd].answered /\ stream'[i].produced < clock' + skew'
          /\ stream'[i].type \in {"asset_page", "position_page"} => stream'[i].status # "failed"
    <3>1. ASSUME NEW i \in DOMAIN stream
          PROVE  /\ cmds'[stream'[i].cmd].answered /\ stream'[i].produced < clock' + skew'
                 /\ stream'[i].type \in {"asset_page", "position_page"} => stream'[i].status # "failed"
      BY <1>0, <1>1, <1>2, <1>4, <1>6, <1>7 DEF StreamInv
    <3>2. ASSUME NEW i \in Len(stream) + 1 .. Len(stream')
          PROVE  /\ cmds'[stream'[i].cmd].answered /\ stream'[i].produced < clock' + skew'
                 /\ stream'[i].type \in {"asset_page", "position_page"} => stream'[i].status # "failed"
      <4>1. stream'[i].cmd = c /\ stream'[i].produced = clock + skew
            /\ (stream'[i].type \in {"asset_page", "position_page"} => stream'[i].status # "failed")
        BY <1>3
      <4>2. cmds'[c].answered
        BY <1>2
      <4> QED BY <1>1, <1>4, <4>1, <4>2
    <3> QED BY <1>5, <3>1, <3>2
  <2>4. \A i, j \in DOMAIN stream' : i < j =>
          /\ stream'[i].cmd <= stream'[j].cmd /\ stream'[i].produced <= stream'[j].produced
          /\ stream'[i].cmd = stream'[j].cmd =>
               stream'[i].status # "completed" /\ stream'[i].seen = stream'[j].seen
    <3> SUFFICES ASSUME NEW i \in DOMAIN stream', NEW j \in DOMAIN stream', i < j
                 PROVE  /\ stream'[i].cmd <= stream'[j].cmd /\ stream'[i].produced <= stream'[j].produced
                        /\ stream'[i].cmd = stream'[j].cmd =>
                             stream'[i].status # "completed" /\ stream'[i].seen = stream'[j].seen
      OBVIOUS
    <3>1. CASE j \in DOMAIN stream
      <4>1. i \in DOMAIN stream
        BY <3>1, <1>3, <1>4
      <4>2. stream'[i] = stream[i] /\ stream'[j] = stream[j]
        BY <3>1, <4>1, <1>6
      <4> QED BY <3>1, <4>1, <4>2, <1>0 DEF StreamInv
    <3>2. CASE i \in DOMAIN stream /\ j \in Len(stream) + 1 .. Len(stream')
      <4>1. stream'[i] = stream[i] /\ stream[i].cmd < c /\ stream[i].cmd \in Nat
            /\ stream[i].produced < clock + skew /\ stream[i].produced \in Int
        BY <3>2, <1>4, <1>6, <1>7, <1>8
      <4> QED BY <3>2, <4>1, <1>3, <1>4
    <3>3. CASE i \in Len(stream) + 1 .. Len(stream') /\ j \in Len(stream) + 1 .. Len(stream')
      <4>1. i < Len(stream')
        BY <3>3, <1>3, <1>4
      <4> QED BY <3>3, <4>1, <1>3, <1>4
    <3>4. i \in DOMAIN stream \/ i \in Len(stream) + 1 .. Len(stream')
      BY <1>5
    <3>5. j \in DOMAIN stream \/ j \in Len(stream) + 1 .. Len(stream')
      BY <1>5
    <3> QED BY <3>1, <3>2, <3>3, <3>4, <3>5
  <2> QED BY <2>1, <2>2, <2>3, <2>4 DEF StreamInv
<1>11. Programs'
  BY <1>0, <1>1, <1>2 DEF Programs, Asset, Seen
<1>12. WorkerInv'
  <2>1. worker.hi \in Nat /\ worker.idx \in Nat /\ ckpt \in Nat
    BY <1>0 DEF Programs, Tables
  <2>2. Busy => worker.idx \in DOMAIN stream /\ Entry' = Entry
    BY <1>0, <1>1, <1>4, <1>6, <2>1 DEF WorkerInv, Entry
  <2> QED BY <1>0, <1>1, <1>3, <1>4, <2>1, <2>2 DEF WorkerInv, Busy
<1>13. \A i \in DOMAIN stream : /\ positionQueryUpdatedAt(stream[i])' = positionQueryUpdatedAt(stream[i])
                                /\ IssuedAt(i)' = IssuedAt(i)
                                /\ i \in PositionPages' <=> i \in PositionPages
  <2> SUFFICES ASSUME NEW i \in DOMAIN stream
               PROVE  /\ positionQueryUpdatedAt(stream[i])' = positionQueryUpdatedAt(stream[i])
                      /\ IssuedAt(i)' = IssuedAt(i)
                      /\ i \in PositionPages' <=> i \in PositionPages
    OBVIOUS
  <2>1. stream'[i] = stream[i] /\ cmds'[stream[i].cmd].at = cmds[stream[i].cmd].at /\ i \in DOMAIN stream'
    BY <1>2, <1>6, <1>7
  <2> QED BY <2>1 DEF positionQueryUpdatedAt, positionQueryStaleCutoff, IssuedAt, PositionPages
<1>14. RowsInv'
  <2> SUFFICES ASSUME NEW s \in Symbols, positions'[s] # NoRow
               PROVE  \/ positions'[s].at = 0
                      \/ \E i \in PositionPages' :
                           /\ s \in stream'[i].items /\ positions'[s].seen = stream'[i].seen
                           /\ positions'[s].at = positionQueryUpdatedAt(stream[i])'
    BY DEF RowsInv
  <2>1. CASE positions[s].at = 0
    BY <1>1, <2>1
  <2>2. CASE \E i \in PositionPages : /\ s \in stream[i].items /\ positions[s].seen = stream[i].seen
                                      /\ positions[s].at = positionQueryUpdatedAt(stream[i])
    <3>1. PICK i \in PositionPages : /\ s \in stream[i].items /\ positions[s].seen = stream[i].seen
                                     /\ positions[s].at = positionQueryUpdatedAt(stream[i])
      BY <2>2
    <3>2. i \in DOMAIN stream
      BY DEF PositionPages
    <3>3. /\ i \in PositionPages' /\ stream'[i] = stream[i]
          /\ positionQueryUpdatedAt(stream[i])' = positionQueryUpdatedAt(stream[i])
      BY <1>6, <1>13, <3>2
    <3> QED BY <1>1, <3>1, <3>3
  <2> QED BY <1>0, <1>1, <2>1, <2>2 DEF RowsInv
<1>15. \A i \in Nat : Done(i)' <=> Done(i)
  BY <1>1 DEF Done, Busy
<1>16. \A i \in Nat, s \in Symbols : Applied(i, s)' => Applied(i, s)
  BY <1>1 DEF Done, Busy, Applied
<1>17. \A i \in Nat, s \in Symbols : Applied(i, s) => i <= Len(stream)
  <2>1. worker.hi \in Nat /\ worker.idx \in Nat
    BY <1>0 DEF Programs
  <2> QED BY <1>0, <1>4, <2>1 DEF Applied, Done, WorkerInv, Busy
<1>18. LastInv'
  <2> SUFFICES ASSUME ~ skipped', NEW q \in PositionPages', LastQuery(q)', NEW s \in Symbols
               PROVE  /\ \A i \in PositionPages' :
                           stream'[i].cmd = stream'[q].cmd /\ s \in stream'[i].items /\ Applied(i, s)' =>
                             positions'[s] # NoRow /\ positions'[s].at >= IssuedAt(q)'
                      /\ Done(q)' /\ positions'[s] # NoRow => positions'[s].at >= IssuedAt(q)'
    BY DEF LastInv
  <2>0. /\ q \in DOMAIN stream' /\ q \in Nat /\ PositionPages' \subseteq DOMAIN stream'
        /\ PositionPages' \subseteq Nat
    BY <1>3 DEF PositionPages
  <2>1. CASE q \in DOMAIN stream
    <3>1. q \in PositionPages /\ stream'[q] = stream[q] /\ IssuedAt(q)' = IssuedAt(q)
      BY <2>1, <1>6, <1>13
    <3>2. LastQuery(q)
      <4>1. stream[q].status = "completed"
        BY <3>1 DEF LastQuery
      <4>2. ASSUME NEW i \in PositionPages, stream[i].cmd # stream[q].cmd
            PROVE  positionQueryUpdatedAt(stream[i]) < IssuedAt(q)
        <5>1. i \in DOMAIN stream
          BY DEF PositionPages
        <5>2. /\ i \in PositionPages' /\ stream'[i] = stream[i]
              /\ positionQueryUpdatedAt(stream[i])' = positionQueryUpdatedAt(stream[i])
          BY <1>6, <1>13, <5>1
        <5> QED BY <3>1, <4>2, <5>2 DEF LastQuery
      <4> QED BY <3>1, <4>1, <4>2 DEF LastQuery
    <3>3. ASSUME NEW i \in PositionPages', stream'[i].cmd = stream'[q].cmd, s \in stream'[i].items, Applied(i, s)'
          PROVE  positions'[s] # NoRow /\ positions'[s].at >= IssuedAt(q)'
      <4>1. Applied(i, s) /\ i \in DOMAIN stream
        BY <1>3, <1>4, <1>16, <1>17, <2>0, <3>3
      <4>2. i \in PositionPages /\ stream'[i] = stream[i]
        BY <1>6, <1>13, <4>1
      <4> QED BY <1>0, <1>1, <3>1, <3>2, <3>3, <4>1, <4>2 DEF LastInv
    <3>4. Done(q)' /\ positions'[s] # NoRow => positions'[s].at >= IssuedAt(q)'
      BY <1>0, <1>1, <1>15, <2>0, <3>1, <3>2 DEF LastInv
    <3> QED BY <3>3, <3>4
  <2>2. CASE q \notin DOMAIN stream
    <3>1. stream'[q].cmd = c /\ q > Len(stream)
      BY <1>3, <1>4, <1>5, <2>0, <2>2
    <3>2. ASSUME NEW i \in PositionPages', stream'[i].cmd = stream'[q].cmd, Applied(i, s)'
          PROVE  FALSE
      <4>1. Applied(i, s) /\ i \in DOMAIN stream
        BY <1>3, <1>4, <1>16, <1>17, <2>0, <3>2
      <4>2. stream'[i] = stream[i] /\ stream[i].cmd < c /\ stream[i].cmd \in Nat
        BY <1>4, <1>6, <1>7, <1>8, <4>1
      <4> QED BY <3>1, <3>2, <4>2
    <3>3. ~ Done(q)'
      BY <1>4, <1>15, <1>17, <2>0, <3>1 DEF Applied
    <3> QED BY <3>2, <3>3
  <2> QED BY <2>1, <2>2
<1>19. JobInv'
  <2>1. \A s \in Steps : Answered(s) => Answered(s)'
    <3> SUFFICES ASSUME NEW s \in Steps, Answered(s) PROVE Answered(s)'
      OBVIOUS
    <3>1. PICK i \in Range(archive) : stream[i].cmd = job.refresh[s] /\ stream[i].status = "completed"
      BY DEF Answered
    <3>2. i \in DOMAIN stream
      <4>1. archive \in Seq(DOMAIN stream)
        BY <1>0 DEF Tables
      <4> QED BY <4>1, RangeOfSeq
    <3> QED BY <1>1, <1>6, <3>1, <3>2 DEF Answered
  <2> QED BY <1>0, <1>1, <2>1 DEF JobInv
<1>20. AssetInv'
  <2>1. Cut' = Cut /\ Cut \in Int /\ Asset' = Asset /\ asset.at \in Int /\ crashes \in Nat
    <3>1. Cut' = Cut /\ Asset' = Asset
      BY <1>1 DEF Cut, Asset, Seen
    <3>2. job.start \in Nat /\ FreshSlack \in Nat
      BY <1>0, CaptureAssumption DEF Programs, JobIn
    <3>3. asset \in Asset /\ crashes \in Nat
      BY <1>0 DEF Tables
    <3> QED BY <3>1, <3>2, <3>3 DEF Cut, Asset
  <2>2. asset'.at = 0 \/ asset'.at < clock' + skew'
    BY <1>0, <1>1, <1>4, <2>1 DEF AssetInv
  <2>3. job.pc # "idle" => \A i \in DOMAIN stream' : stream'[i].produced >= Cut => stream'[i].seen = version
    BY <1>0, <1>3, <1>5, <1>6 DEF AssetInv
  <2>4. ASSUME job.pc # "idle", crashes = 0, asset.at >= Cut, NEW i \in DOMAIN stream', ~ Done(i)'
        PROVE  stream'[i].produced >= Cut
    <3>1. CASE i \in DOMAIN stream
      <4>1. ~ Done(i)
        BY <3>1, <2>4, <1>4, <1>15
      <4> QED BY <3>1, <4>1, <2>4, <1>0, <1>6 DEF AssetInv
    <3>2. CASE i \in Len(stream) + 1 .. Len(stream')
      <4>1. Cut > 0 /\ asset.at < clock + skew
        BY <2>1, <2>4, <1>0 DEF AssetInv
      <4> QED BY <3>2, <4>1, <2>1, <2>4, <1>3, <1>4
    <3> QED BY <1>5, <3>1, <3>2
  <2>5. /\ api'.pc \in {"positions", "write_asset"} /\ ~ api'.err => Held(api.asset)'
        /\ api'.pc = "write_positions" /\ ~ api'.err => Held(close.asset)'
        /\ CapturedAssetFinal'
    BY <1>0, <1>1, <2>1 DEF AssetInv, Held, CapturedAssetFinal
  <2>6. /\ close'.asset.at = 0 \/ api'.pc = "write_positions" \/ job'.pc = "ended"
        /\ job'.fresh => job'.pc \in {"positions", "status", "decide"}
        /\ job'.pc # "idle" => Cut' > 0 /\ (asset'.at >= Cut' => asset'.seen = version')
        /\ crashes' = 0 /\ (job'.fresh \/ api'.pc = "asset") => asset'.at >= Cut'
    BY <1>0, <1>1, <2>1 DEF AssetInv
  <2> QED BY <1>1, <2>1, <2>2, <2>3, <2>4, <2>5, <2>6 DEF AssetInv
<1>21. WholeInv'
  <2>1. api' = api /\ close' = close /\ job' = job
    BY <1>1, ZenonT(40)
  <2> QED BY <1>0, <2>1, WholeFrame
<1> QED BY <1>9, <1>10, <1>11, <1>12, <1>14, <1>18, <1>19, <1>20, <1>21 DEF IndInv

(* Lemma: time passes, and with it a query may be issued.                  *)
Issued ==
  \/ cmds' = cmds
  \/ \E by \in {"job", "other"} : \E step : cmds' = Published(by, step)

LEMMA Later ==
  ASSUME IndInv, Issued, clock' \in Nat, clock' > clock, errors' \in Nat,
         UNCHANGED <<held, version, skew, stream, archive, positions, asset, ckpt, close, worker>>,
         UNCHANGED <<crashes, skipped>>
  PROVE  /\ Tables' /\ StreamInv' /\ WorkerInv' /\ RowsInv' /\ LastInv'
         /\ Len(cmds) \in Nat /\ Len(cmds') \in Nat /\ Len(cmds) <= Len(cmds')
         /\ \A by, step : cmds' = Published(by, step) => Len(cmds') = Len(cmds) + 1
         /\ \A i \in Nat : Done(i)' <=> Done(i)
<1>0. /\ Tables /\ Programs /\ StreamInv /\ WorkerInv /\ RowsInv /\ LastInv
  BY DEF IndInv
<1>1. /\ Len(stream) \in Nat /\ DOMAIN stream = 1 .. Len(stream) /\ Len(cmds) \in Nat
      /\ DOMAIN cmds = 1 .. Len(cmds) /\ clock \in Nat /\ skew \in Int /\ PositionPages \subseteq DOMAIN stream
      /\ cmds \in Seq(Range(cmds))
  BY <1>0, StreamLength, CaptureAssumption DEF Tables, PositionPages
<1>2. \A by, step : cmds' = Published(by, step) =>
        /\ cmds' \in Seq(Range(cmds')) /\ DOMAIN cmds' = 1 .. Len(cmds) + 1 /\ Len(cmds') = Len(cmds) + 1
        /\ \A d \in DOMAIN cmds : cmds'[d] = cmds[d]
        /\ cmds'[Len(cmds) + 1] = [by |-> by, step |-> step, at |-> clock, answered |-> FALSE]
  <2> SUFFICES ASSUME NEW by, NEW step, cmds' = Published(by, step)
               PROVE  /\ cmds' \in Seq(Range(cmds')) /\ DOMAIN cmds' = 1 .. Len(cmds) + 1
                      /\ Len(cmds') = Len(cmds) + 1
                      /\ \A d \in DOMAIN cmds : cmds'[d] = cmds[d]
                      /\ cmds'[Len(cmds) + 1] = [by |-> by, step |-> step, at |-> clock, answered |-> FALSE]
    OBVIOUS
  <2>1. PICK x : x = [by |-> by, step |-> step, at |-> clock, answered |-> FALSE]
    OBVIOUS
  <2>2. cmds' = Append(cmds, x)
    BY <2>1 DEF Published
  <2>3. cmds' \in Seq(Range(cmds')) /\ DOMAIN cmds' = 1 .. Len(cmds) + 1 /\ Len(cmds') = Len(cmds) + 1
    BY <1>1, <2>2, Appended
  <2>4. cmds'[Len(cmds) + 1] = x
    BY <1>1, <2>2, Appended
  <2>5. \A d \in 1 .. Len(cmds) : cmds'[d] = cmds[d]
    BY <1>1, <2>2, Appended
  <2> QED BY <1>1, <2>1, <2>3, <2>4, <2>5
<1>3. /\ cmds' \in Seq(Range(cmds')) /\ Len(cmds') \in Nat /\ Len(cmds) <= Len(cmds') /\ DOMAIN cmds' = 1 .. Len(cmds')
      /\ \A d \in DOMAIN cmds : d \in DOMAIN cmds' /\ cmds'[d] = cmds[d]
      /\ \A d \in DOMAIN cmds' \ DOMAIN cmds :
           /\ \A e \in DOMAIN cmds : e < d
           /\ cmds'[d].at = clock /\ cmds'[d].answered = FALSE
           /\ cmds'[d] \in [by : {"job", "other"}, step : {cmds'[d].step}, at : Nat, answered : BOOLEAN]
      /\ \A d, e \in DOMAIN cmds' \ DOMAIN cmds : d = e
  <2>1. CASE cmds' = cmds
    BY <1>1, <2>1
  <2>2. CASE \E by \in {"job", "other"} : \E step : cmds' = Published(by, step)
    <3>0a. PICK by \in {"job", "other"} : \E step : cmds' = Published(by, step)
      BY <2>2
    <3>0. PICK step : cmds' = Published(by, step)
      BY <3>0a
    <3>1. /\ cmds' \in Seq(Range(cmds')) /\ DOMAIN cmds' = 1 .. Len(cmds) + 1 /\ Len(cmds') = Len(cmds) + 1
          /\ \A d \in DOMAIN cmds : cmds'[d] = cmds[d]
          /\ cmds'[Len(cmds) + 1] = [by |-> by, step |-> step, at |-> clock, answered |-> FALSE]
      BY <1>2, <3>0
    <3>2. \A d \in DOMAIN cmds' \ DOMAIN cmds : d = Len(cmds) + 1
      BY <1>1, <3>1
    <3>3. PICK x : x = cmds'[Len(cmds) + 1]
      OBVIOUS
    <3>4. /\ x.at = clock /\ x.answered = FALSE
          /\ x \in [by : {"job", "other"}, step : {x.step}, at : Nat, answered : BOOLEAN]
      BY <1>1, <3>1, <3>3
    <3>5. /\ Len(cmds') \in Nat /\ Len(cmds) <= Len(cmds') /\ DOMAIN cmds' = 1 .. Len(cmds')
          /\ \A d \in DOMAIN cmds : d \in DOMAIN cmds' /\ cmds'[d] = cmds[d]
      BY <1>1, <3>1
    <3>6. ASSUME NEW d \in DOMAIN cmds' \ DOMAIN cmds
          PROVE  /\ \A e \in DOMAIN cmds : e < d
                 /\ cmds'[d].at = clock /\ cmds'[d].answered = FALSE
                 /\ cmds'[d] \in [by : {"job", "other"}, step : {cmds'[d].step}, at : Nat, answered : BOOLEAN]
      <4>1. d = Len(cmds) + 1 /\ cmds'[d] = x
        BY <3>2, <3>3
      <4> QED BY <1>1, <3>4, <4>1
    <3>7. \A d, e \in DOMAIN cmds' \ DOMAIN cmds : d = e
      BY <3>2
    <3> QED BY <3>1, <3>5, <3>6, <3>7
  <2> QED BY <2>1, <2>2 DEF Issued
<1>4. Seen' = Seen /\ Asset' = Asset /\ Position' = Position
  BY DEF Seen, Asset, Position
<1>5. Tables'
  <2>1. \A d \in DOMAIN cmds' :
          cmds'[d] \in [by : {"job", "other"}, step : {cmds'[d].step}, at : Nat, answered : BOOLEAN]
    BY <1>0, <1>3 DEF Tables
  <2>2. \A i \in DOMAIN stream : stream[i].cmd \in DOMAIN cmds'
    BY <1>0, <1>3 DEF Tables
  <2>3. clock' >= 2
    BY <1>0, <1>1 DEF Tables
  <2> QED BY <1>0, <1>1, <1>3, <1>4, <2>1, <2>2, <2>3 DEF Tables
<1>6. \A i \in DOMAIN stream : stream[i].cmd \in DOMAIN cmds /\ cmds'[stream[i].cmd] = cmds[stream[i].cmd]
  BY <1>0, <1>3 DEF Tables
<1>7. StreamInv'
  <2>1. \A d \in DOMAIN cmds' : cmds'[d].at > 0 /\ cmds'[d].at < clock'
    <3>1. \A d \in DOMAIN cmds : cmds[d].at > 0 /\ cmds[d].at < clock /\ cmds[d].at \in Nat
      BY <1>0 DEF StreamInv, Tables
    <3>2. clock > 0
      BY <1>0, <1>1 DEF Tables
    <3> QED BY <1>1, <1>3, <3>1, <3>2
  <2>2. \A d, e \in DOMAIN cmds' : d < e => /\ cmds'[d].at < cmds'[e].at
                                            /\ cmds'[e].answered => cmds'[d].answered
    <3> SUFFICES ASSUME NEW d \in DOMAIN cmds', NEW e \in DOMAIN cmds', d < e
                 PROVE  /\ cmds'[d].at < cmds'[e].at
                        /\ cmds'[e].answered => cmds'[d].answered
      OBVIOUS
    <3>1. CASE d \in DOMAIN cmds /\ e \in DOMAIN cmds
      BY <3>1, <1>0, <1>3 DEF StreamInv
    <3>2. CASE d \in DOMAIN cmds /\ e \notin DOMAIN cmds
      BY <3>2, <1>0, <1>3 DEF StreamInv
    <3>3. CASE d \notin DOMAIN cmds
      <4>1. e \in DOMAIN cmds
        BY <1>3, <3>3
      <4> QED BY <4>1, <1>1, <1>3, <3>3
    <3> QED BY <3>1, <3>2, <3>3
  <2>3. \A i \in DOMAIN stream : cmds'[stream[i].cmd].answered /\ stream[i].produced < clock' + skew
    <3> SUFFICES ASSUME NEW i \in DOMAIN stream
                 PROVE  cmds'[stream[i].cmd].answered /\ stream[i].produced < clock' + skew
      OBVIOUS
    <3>1. cmds[stream[i].cmd].answered /\ stream[i].produced < clock + skew /\ stream[i].produced \in Int
      BY <1>0 DEF StreamInv, Tables
    <3> QED BY <1>1, <1>6, <3>1
  <2> QED BY <1>0, <2>1, <2>2, <2>3 DEF StreamInv
<1>8. /\ PositionPages' = PositionPages
      /\ \A i \in DOMAIN stream : /\ positionQueryUpdatedAt(stream[i])' = positionQueryUpdatedAt(stream[i])
                                  /\ IssuedAt(i)' = IssuedAt(i)
  BY <1>6 DEF PositionPages, positionQueryUpdatedAt, positionQueryStaleCutoff, IssuedAt
<1>9. RowsInv'
  BY <1>0, <1>1, <1>8 DEF RowsInv
<1>10. (\A i \in Nat : Done(i)' <=> Done(i)) /\ (\A i, s : Applied(i, s)' <=> Applied(i, s))
  BY DEF Done, Applied, Busy
<1>11. WorkerInv'
  BY <1>0 DEF WorkerInv, Busy, Entry
<1>12. LastInv'
  <2>1. \A q \in PositionPages : LastQuery(q)' => LastQuery(q)
    BY <1>1, <1>8 DEF LastQuery
  <2>2. \A q \in PositionPages : IssuedAt(q)' = IssuedAt(q) /\ (Done(q)' <=> Done(q))
    BY <1>1, <1>8, <1>10
  <2> QED BY <1>0, <1>8, <1>10, <2>1, <2>2 DEF LastInv
<1> QED BY <1>1, <1>2, <1>3, <1>5, <1>7, <1>9, <1>10, <1>11, <1>12

(* Lemma: steps of the job and of the handler leave the worker's side.     *)
LEMMA Aside ==
  ASSUME IndInv, UNCHANGED <<held, version, clock, skew, cmds, stream, archive, positions, asset, ckpt>>,
         UNCHANGED <<worker, skipped>>,
         close' \in [asset : Asset, positions : [Symbols -> Seen \cup {NoRow}]],
         crashes' \in Nat, errors' \in Nat
  PROVE  /\ Tables' /\ StreamInv' /\ WorkerInv' /\ RowsInv' /\ LastInv'
         /\ \A i \in Nat : Done(i)' <=> Done(i)
<1>0. /\ Tables /\ StreamInv /\ WorkerInv /\ RowsInv /\ LastInv
  BY DEF IndInv
<1>1. Tables'
  BY <1>0, TablesFrame DEF Tables
<1>2. (\A i \in Nat : Done(i)' <=> Done(i)) /\ (\A i, s : Applied(i, s)' <=> Applied(i, s))
  BY DEF Done, Applied, Busy
<1>3. WorkerInv'
  BY <1>0 DEF WorkerInv, Busy, Entry
<1>4. LastInv'
  <2>1. PositionPages \subseteq Nat
    BY <1>0, StreamLength
  <2> QED BY <1>0, <1>2, <2>1, LastFrame
<1>5. StreamInv' /\ RowsInv'
  BY <1>0, StreamFrame, RowsFrame
<1> QED BY <1>1, <1>2, <1>3, <1>4, <1>5

(* Lemma: the asset while only the job moves.                              *)
LEMMA AssetJob ==
  ASSUME Tables, Programs, AssetInv, UNCHANGED <<asset, close, api, crashes, version, skew, stream>>,
         \A i \in Nat : Done(i)' <=> Done(i), clock' \in Nat, clock' >= clock,
         job'.start = job.start, job.pc # "idle", job'.pc # "idle", job.pc # "ended",
         job'.result # "ready",
         job'.fresh => job'.pc \in {"positions", "status", "decide"},
         crashes = 0 /\ job'.fresh => asset.at >= Cut
  PROVE  AssetInv'
<1>1. /\ Cut' = Cut /\ Asset' = Asset /\ asset.at \in Int /\ clock \in Nat /\ skew \in Int
      /\ DOMAIN stream \subseteq Nat
  <2>1. Cut' = Cut /\ Asset' = Asset
    BY DEF Cut, Asset, Seen
  <2>2. asset \in Asset /\ clock \in Nat /\ skew \in Int
    BY CaptureAssumption DEF Tables
  <2>3. DOMAIN stream \subseteq Nat
    BY StreamLength
  <2>4. asset.at \in Int
    BY <2>2 DEF Asset
  <2> QED BY <2>1, <2>2, <2>3, <2>4
<1>2. asset'.at = 0 \/ asset'.at < clock' + skew'
  BY <1>1 DEF AssetInv
<1>3. /\ api'.pc \in {"positions", "write_asset"} /\ ~ api'.err => Held(api.asset)'
      /\ api'.pc = "write_positions" /\ ~ api'.err => Held(close.asset)'
      /\ CapturedAssetFinal'
  BY <1>1 DEF AssetInv, Held, CapturedAssetFinal
<1>4. /\ close'.asset.at = 0 \/ api'.pc = "write_positions" \/ job'.pc = "ended"
      /\ job'.fresh => job'.pc \in {"positions", "status", "decide"}
      /\ crashes' = 0 /\ (job'.fresh \/ api'.pc = "asset") => asset'.at >= Cut'
  BY <1>1 DEF AssetInv
<1>5. /\ Cut' > 0
      /\ \A i \in DOMAIN stream' : stream'[i].produced >= Cut' => stream'[i].seen = version'
      /\ asset'.at >= Cut' => asset'.seen = version'
      /\ crashes' = 0 /\ asset'.at >= Cut' =>
           \A i \in DOMAIN stream' : ~ Done(i)' => stream'[i].produced >= Cut'
  BY <1>1 DEF AssetInv
<1> QED BY <1>2, <1>3, <1>4, <1>5 DEF AssetInv

-----------------------------------------------------------------------------
(* The gateway and the clients beside the job.                             *)
LEMMA OtherQueryInv ==
  ASSUME IndInv, NEW step \in OtherSteps, OtherQuery(step)
  PROVE  IndInv'
<1>0. /\ Tables /\ Programs /\ JobInv /\ WholeInv /\ AssetInv
  BY DEF IndInv
<1>1. /\ UNCHANGED <<held, version, skew, stream, archive, positions, asset, ckpt, close, worker, job, api>>
      /\ UNCHANGED <<crashes, errors, skipped>> /\ clock' = clock + 2 /\ cmds' = Published("other", step)
  BY DEF OtherQuery, gateway, ledger, faults
<1>2. clock \in Nat /\ errors \in Nat /\ crashes \in Nat
  BY <1>0 DEF Tables
<1>3. Issued
  BY <1>1 DEF Issued
<1>4. /\ Tables' /\ StreamInv' /\ WorkerInv' /\ RowsInv' /\ LastInv'
      /\ Len(cmds) \in Nat /\ Len(cmds') \in Nat /\ Len(cmds) <= Len(cmds')
      /\ \A i \in Nat : Done(i)' <=> Done(i)
  BY <1>1, <1>2, <1>3, Later
<1>5. Programs'
  <2>1. JobIn(job, Len(cmds))
    BY <1>0 DEF Programs
  <2>2. JobIn(job, Len(cmds'))
    <3>1. [Steps -> 0 .. Len(cmds)] \subseteq [Steps -> 0 .. Len(cmds')]
      BY <1>4
    <3> QED BY <2>1, <3>1 DEF JobIn
  <2> QED BY <1>0, <1>1, <2>2 DEF Programs, Asset, Seen
<1>6. AssetInv'
  <2>1. Cut' = Cut /\ Asset' = Asset
    BY <1>1 DEF Cut, Asset, Seen
  <2>2. asset.at \in Int /\ skew \in Int /\ DOMAIN stream \subseteq Nat
    BY <1>0, StreamLength, CaptureAssumption DEF Tables, Asset
  <2>3. asset'.at = 0 \/ asset'.at < clock' + skew'
    BY <1>0, <1>1, <1>2, <2>2 DEF AssetInv
  <2>4. /\ api'.pc \in {"positions", "write_asset"} /\ ~ api'.err => Held(api.asset)'
        /\ api'.pc = "write_positions" /\ ~ api'.err => Held(close.asset)'
        /\ CapturedAssetFinal'
    BY <1>0, <1>1, <2>1 DEF AssetInv, Held, CapturedAssetFinal
  <2>5. /\ close'.asset.at = 0 \/ api'.pc = "write_positions" \/ job'.pc = "ended"
        /\ job'.fresh => job'.pc \in {"positions", "status", "decide"}
        /\ crashes' = 0 /\ (job'.fresh \/ api'.pc = "asset") => asset'.at >= Cut'
    BY <1>0, <1>1, <2>1 DEF AssetInv
  <2>6. job'.pc # "idle" =>
          /\ Cut' > 0
          /\ \A i \in DOMAIN stream' : stream'[i].produced >= Cut' => stream'[i].seen = version'
          /\ asset'.at >= Cut' => asset'.seen = version'
          /\ crashes' = 0 /\ asset'.at >= Cut' =>
               \A i \in DOMAIN stream' : ~ Done(i)' => stream'[i].produced >= Cut'
    BY <1>0, <1>1, <1>4, <2>1, <2>2 DEF AssetInv
  <2> QED BY <2>3, <2>4, <2>5, <2>6 DEF AssetInv
<1>7. JobInv' /\ WholeInv'
  BY <1>0, <1>1, JobFrame, WholeFrame
<1> QED BY <1>4, <1>5, <1>6, <1>7 DEF IndInv

LEMMA TradeInv ==
  ASSUME IndInv, NEW s \in Symbols, Trade(s)
  PROVE  IndInv'
<1>0. /\ Tables /\ Programs /\ StreamInv /\ WorkerInv /\ RowsInv /\ LastInv /\ JobInv /\ WholeInv /\ AssetInv
  BY DEF IndInv
<1>1. /\ UNCHANGED <<clock, skew, stream, cmds, archive, positions, asset, ckpt, close, worker, job, api>>
      /\ UNCHANGED <<crashes, errors, skipped>> /\ version' = version + 1 /\ version < MaxTrades
      /\ job.pc = "idle"
      /\ held' \in IF s \in held THEN {held, held \ {s}} ELSE {held \cup {s}}
  BY DEF Trade, ledger, faults
<1>2. held' \subseteq Symbols
  BY <1>0, <1>1 DEF Tables
<1>3. version \in Nat /\ version' \in 0 .. MaxTrades
  BY <1>0, <1>1, CaptureAssumption DEF Tables
<1>4. Seen \subseteq Seen' /\ Asset \subseteq Asset' /\ Position \subseteq Position'
  BY <1>1, <1>3 DEF Seen, Asset, Position
<1>5. Tables'
  <2>1. asset \in Asset' /\ positions \in [Symbols -> Position' \cup {NoRow}]
    BY <1>0, <1>4 DEF Tables
  <2>2. close \in [asset : Asset', positions : [Symbols -> Seen' \cup {NoRow}]]
    <3>1. close \in [asset : Asset, positions : [Symbols -> Seen \cup {NoRow}]]
      BY <1>0 DEF Tables
    <3>2. [Symbols -> Seen \cup {NoRow}] \subseteq [Symbols -> Seen' \cup {NoRow}]
      BY <1>4
    <3> QED BY <1>4, <3>1, <3>2
  <2>3. \A i \in DOMAIN stream : stream[i].seen \in Seen'
    BY <1>0, <1>4 DEF Tables
  <2> QED BY <1>0, <1>1, <1>2, <1>3, <2>1, <2>2, <2>3 DEF Tables
<1>6. Programs'
  <2>1. api \in [pc : {"idle", "asset", "positions", "write_asset", "write_positions"}, at : Nat,
                 asset : Asset \cup {NoRow}, positions : [Symbols -> Seen \cup {NoRow}],
                 todo : SUBSET Symbols, err : BOOLEAN]
    BY <1>0 DEF Programs
  <2>2. /\ [Symbols -> Seen \cup {NoRow}] \subseteq [Symbols -> Seen' \cup {NoRow}]
        /\ Asset \cup {NoRow} \subseteq Asset' \cup {NoRow}
    BY <1>4
  <2>3. api \in [pc : {"idle", "asset", "positions", "write_asset", "write_positions"}, at : Nat,
                 asset : Asset' \cup {NoRow}, positions : [Symbols -> Seen' \cup {NoRow}],
                 todo : SUBSET Symbols, err : BOOLEAN]
    BY <2>1, <2>2
  <2> QED BY <1>0, <1>1, <2>3 DEF Programs
<1>7. (\A i \in Nat : Done(i)' <=> Done(i)) /\ (\A i, r : Applied(i, r)' <=> Applied(i, r))
  BY <1>1 DEF Done, Applied, Busy
<1>8. WorkerInv'
  BY <1>0, <1>1 DEF WorkerInv, Busy, Entry
<1>9. LastInv'
  <2>1. PositionPages \subseteq Nat
    BY <1>0, StreamLength
  <2> QED BY <1>0, <1>1, <1>7, <2>1, LastFrame
<1>10. AssetInv'
  <2>1. api.pc = "idle" /\ ~ job.fresh /\ job.result = "none"
    BY <1>0, <1>1 DEF JobInv, AssetInv, Programs, JobIn
  <2> QED BY <1>0, <1>1, <2>1 DEF AssetInv, CapturedAssetFinal
<1>11. JobInv' /\ WholeInv' /\ StreamInv' /\ RowsInv'
  BY <1>0, <1>1, JobFrame, WholeFrame, StreamFrame, RowsFrame
<1> QED BY <1>5, <1>6, <1>8, <1>9, <1>10, <1>11 DEF IndInv

LEMMA StartJobInv ==
  ASSUME IndInv, StartJob
  PROVE  IndInv'
<1>0. /\ Tables /\ Programs /\ StreamInv /\ JobInv /\ WholeInv /\ AssetInv
  BY DEF IndInv
<1>1. /\ UNCHANGED <<held, version, skew, stream, archive, positions, asset, ckpt, close, worker, api, cmds>>
      /\ UNCHANGED <<crashes, errors, skipped>> /\ clock' = clock + CloseGap /\ job.pc = "idle"
      /\ job' = [pc |-> "publish", start |-> clock', todo |-> RefreshSteps, again |-> FALSE,
                 lost |-> FALSE, refresh |-> [s \in Steps |-> 0], fresh |-> FALSE,
                 verdict |-> [s \in Steps |-> "pending"], result |-> "none"]
  BY DEF StartJob, gateway, ledger, faults
<1>2. /\ clock \in Nat /\ errors \in Nat /\ CloseGap \in Nat /\ FreshSlack \in Nat /\ CloseGap > FreshSlack
      /\ skew \in Int /\ CloseGap > skew + FreshSlack /\ clock >= 2
  BY <1>0, CaptureAssumption DEF Tables
<1>3. /\ Tables' /\ StreamInv' /\ WorkerInv' /\ RowsInv' /\ LastInv' /\ Len(cmds) \in Nat
  <2>1. Issued
    BY <1>1 DEF Issued
  <2>2. clock' \in Nat /\ clock' > clock
    BY <1>1, <1>2
  <2> QED BY <1>1, <1>2, <2>1, <2>2, Later
<1>4. /\ job'.pc = "publish" /\ job'.start = clock + CloseGap /\ job'.fresh = FALSE /\ job'.result = "none"
      /\ \A s \in Steps : job'.verdict[s] = "pending"
  BY <1>1
<1>5. Programs'
  <2>1. JobIn(job', Len(cmds))
    <3>1. [s \in Steps |-> 0] \in [Steps -> 0 .. Len(cmds)] /\ [s \in Steps |-> "pending"] \in [Steps -> Verdicts]
      BY <1>3 DEF Verdicts
    <3>2. clock' \in Nat
      BY <1>1, <1>2
    <3> QED BY <1>1, <3>1, <3>2 DEF JobIn
  <2> QED BY <1>0, <1>1, <2>1 DEF Programs, Asset, Seen
<1>6. api.pc = "idle"
  BY <1>0, <1>1 DEF JobInv
<1>7. JobInv'
  BY <1>1, <1>4, <1>6 DEF JobInv
<1>8. WholeInv'
  BY <1>0, <1>1, <1>4, <1>6 DEF WholeInv, CaptureIsWhole
<1>9. AssetInv'
  <2>1. Cut' = clock + CloseGap - FreshSlack
    <3>1. Cut' = job'.start - FreshSlack
      BY DEF Cut
    <3>2. job'.start = clock + CloseGap
      BY <1>4
    <3> QED BY <1>2, <3>1, <3>2
  <2>2. asset.at \in Int /\ \A i \in DOMAIN stream : stream[i].produced \in Int /\ stream[i].produced < clock + skew
    BY <1>0 DEF Tables, Asset, StreamInv
  <2>3. ~ (asset.at >= Cut') /\ \A i \in DOMAIN stream : ~ (stream[i].produced >= Cut')
    BY <1>0, <1>2, <2>1, <2>2 DEF AssetInv
  <2>4. Cut' > 0
    BY <1>2, <2>1
  <2>5. asset.at = 0 \/ asset.at < clock' + skew
    BY <1>0, <1>1, <1>2, <2>2 DEF AssetInv
  <2>6. close.asset.at = 0
    BY <1>0, <1>1, <1>6 DEF AssetInv
  <2> QED BY <1>1, <1>4, <1>6, <2>3, <2>4, <2>5, <2>6 DEF AssetInv, CapturedAssetFinal
<1> QED BY <1>3, <1>5, <1>7, <1>8, <1>9 DEF IndInv

-----------------------------------------------------------------------------
(* The job.  Lemma: a step of which only the job knows.                    *)
LEMMA JobMoves ==
  ASSUME IndInv, UNCHANGED <<held, version, clock, skew, cmds, stream, archive, positions, asset, ckpt>>,
         UNCHANGED <<close, worker, api, crashes, skipped>>, errors' \in Nat,
         JobIn(job', Len(cmds)), job'.start = job.start, job'.refresh = job.refresh,
         job.pc \notin {"idle", "wait", "ended"}, job'.pc \notin {"idle", "wait"},
         job'.result \in {"none", "blocked"}, job'.result # "none" => job'.pc = "ended",
         \A s \in Steps : job'.verdict[s] = "completed" => job'.pc \in {"status", "decide"} /\ Answered(s),
         job'.fresh => job'.pc \in {"positions", "status", "decide"},
         crashes = 0 /\ job'.fresh => asset.at >= Cut
  PROVE  IndInv'
<1>0. /\ Tables /\ Programs /\ JobInv /\ WholeInv /\ AssetInv
  BY DEF IndInv
<1>1. /\ close \in [asset : Asset, positions : [Symbols -> Seen \cup {NoRow}]] /\ crashes \in Nat /\ clock \in Nat
  BY <1>0 DEF Tables
<1>2. /\ Tables' /\ StreamInv' /\ WorkerInv' /\ RowsInv' /\ LastInv'
      /\ \A i \in Nat : Done(i)' <=> Done(i)
  BY <1>1, Aside
<1>3. Programs'
  BY <1>0 DEF Programs, Asset, Seen
<1>4. AssetInv'
  BY <1>0, <1>1, <1>2, AssetJob
<1>5. JobInv'
  <2>1. \A s \in Steps : Answered(s)' <=> Answered(s)
    BY DEF Answered
  <2> QED BY <1>0, <2>1 DEF JobInv
<1>6. WholeInv'
  BY <1>0 DEF WholeInv, CaptureIsWhole
<1> QED BY <1>2, <1>3, <1>4, <1>5, <1>6 DEF IndInv

(* Lemma: a query is completed only by a completed reply in the archive.   *)
LEMMA CompletedWasAnswered ==
  ASSUME NEW s \in Steps, Verdict(s) = "completed"
  PROVE  Answered(s)
<1> DEFINE c == job.refresh[s]
           rs == RepliesOf(c)
<1>1. Replied(rs, {"completed"}) # {}
  <2> SUFFICES ASSUME Replied(rs, {"completed"}) = {} PROVE FALSE
    OBVIOUS
  <2>1. summarizeCommandStatus(s, rs) = "completed"
    BY DEF Verdict
  <2> HIDE DEF rs
  <2>2. {k \in Replied(rs, {"completed"}) : rs[k].last /\ expectedCommandResultType(s) \in {"", rs[k].type}} = {}
    OBVIOUS
  <2>3. Cardinality({}) # 1
    BY FS_EmptySet
  <2> QED BY <2>1, <2>2, <2>3 DEF summarizeCommandStatus
<1>2. PICK k \in DOMAIN rs : rs[k].status = "completed"
  BY <1>1 DEF Replied
<1>3. k \in DOMAIN archive /\ stream[archive[k]].cmd = c /\ rs[k] = stream[archive[k]]
  BY DEF RepliesOf
<1> QED BY <1>2, <1>3 DEF Answered, Range

LEMMA VerdictValues ==
  ASSUME NEW s
  PROVE  Verdict(s) \in Verdicts
<1>1. \A rs : summarizeCommandStatus(s, rs) \in Verdicts
  BY DEF summarizeCommandStatus, Verdicts
<1> QED BY <1>1 DEF Verdict, Verdicts

LEMMA NotedInv ==
  ASSUME IndInv, job.pc = "status", NEW v \in Verdicts, Noted(v),
         Head(job.todo) \in Steps /\ v = "completed" => Answered(Head(job.todo)),
         UNCHANGED <<held, version, clock, skew, cmds, stream, archive, positions, asset, ckpt>>,
         UNCHANGED <<close, worker, api, crashes, skipped>>, errors' \in Nat
  PROVE  IndInv'
<1>0. JobIn(job, Len(cmds)) /\ JobInv /\ AssetInv
  BY DEF IndInv, Programs
<1>1. PICK x, y, p : /\ x = Head(job.todo) /\ y = Tail(job.todo)
                     /\ p = (IF Len(job.todo) = 1 THEN "decide" ELSE "status")
  OBVIOUS
<1>2. PICK w : w = [job.verdict EXCEPT ![x] = v]
  OBVIOUS
<1>3. job' = [job EXCEPT !.verdict = w, !.todo = y, !.pc = p]
  BY <1>1, <1>2 DEF Noted
<1>4. p \in {"status", "decide"}
  BY <1>1
<1>5. w \in [Steps -> Verdicts] /\ \A s \in Steps : w[s] = IF s = x THEN v ELSE job.verdict[s]
  BY <1>0, <1>2 DEF JobIn
<1>6. /\ JobIn(job', Len(cmds)) /\ job'.start = job.start /\ job'.refresh = job.refresh /\ job'.pc = p
      /\ job'.result = job.result /\ job'.verdict = w /\ job'.fresh = job.fresh
  BY <1>0, <1>3, <1>4, <1>5 DEF JobIn
<1>7. \A s \in Steps : w[s] = "completed" => Answered(s)
  BY <1>0, <1>1, <1>5 DEF JobInv
<1>8. job.result = "none" /\ (crashes = 0 /\ job.fresh => asset.at >= Cut)
  BY <1>0 DEF JobInv, AssetInv
<1> QED BY <1>4, <1>6, <1>7, <1>8, JobMoves

LEMMA PollStatusInv ==
  ASSUME IndInv, PollStatus
  PROVE  IndInv'
<1>1. /\ job.pc = "status" /\ Noted(Verdict(Head(job.todo)))
      /\ UNCHANGED <<held, version, clock, skew, cmds, stream, archive, positions, asset, ckpt>>
      /\ UNCHANGED <<close, worker, api, crashes, errors, skipped>>
  BY DEF PollStatus, gateway, ledger, faults
<1>2. errors \in Nat
  BY DEF IndInv, Tables
<1> QED BY <1>1, <1>2, CompletedWasAnswered, VerdictValues, NotedInv

(* Lemma: the asset is fresh only if the intraday row is.                  *)
LEMMA FreshIsIntraday ==
  ASSUME IndInv, job.pc \notin {"idle", "wait", "ended"} \/ api.pc = "asset"
  PROVE  /\ AssetFresh => asset.at >= Cut
         /\ asset.at >= Cut => GetLatestAsset = asset
<1>1. asset \in Asset /\ close.asset \in Asset /\ job.start \in Nat /\ FreshSlack \in Nat
  BY CaptureAssumption DEF IndInv, Tables, Programs, JobIn
<1>2. close.asset.at = 0 /\ Cut > 0
  BY DEF IndInv, AssetInv, JobInv
<1>3. asset # NoRow /\ close.asset # NoRow /\ asset.at \in Int /\ Cut \in Int
  BY <1>1, CaptureAssumption DEF Asset, Seen, Cut
<1> QED BY <1>2, <1>3 DEF AssetFresh, Fresh, GetLatestAsset, Cut

LEMMA PollInv ==
  ASSUME IndInv, PollAsset \/ PollPositions
  PROVE  IndInv'
<1>0. JobIn(job, Len(cmds)) /\ JobInv /\ AssetInv /\ errors \in Nat
  BY DEF IndInv, Programs, Tables
<1>1. CASE PollAsset
  <2>1. /\ job.pc = "asset" /\ job' = [job EXCEPT !.pc = "positions", !.fresh = AssetFresh]
        /\ UNCHANGED <<held, version, clock, skew, cmds, stream, archive, positions, asset, ckpt>>
        /\ UNCHANGED <<close, worker, api, crashes, errors, skipped>>
    BY <1>1 DEF PollAsset, gateway, ledger, faults
  <2>2. PICK f \in BOOLEAN : f = AssetFresh
    BY DEF AssetFresh, Fresh
  <2>3. job' = [job EXCEPT !.pc = "positions", !.fresh = f]
    BY <2>1, <2>2
  <2>4. /\ JobIn(job', Len(cmds)) /\ job'.start = job.start /\ job'.refresh = job.refresh /\ job'.pc = "positions"
        /\ job'.result = job.result /\ job'.verdict = job.verdict /\ job'.fresh = f
    BY <1>0, <2>3 DEF JobIn
  <2>5. f => asset.at >= Cut
    BY <2>1, <2>2, FreshIsIntraday
  <2>6. job.result = "none" /\ \A s \in Steps : job.verdict[s] # "completed"
    BY <1>0, <2>1 DEF JobInv
  <2> QED BY <1>0, <2>1, <2>4, <2>5, <2>6, JobMoves
<1>2. CASE PollPositions
  <2>1. /\ job.pc = "positions"
        /\ job' = [job EXCEPT !.pc = "status", !.todo = RefreshSteps, !.fresh = @ /\ PositionsFresh]
        /\ UNCHANGED <<held, version, clock, skew, cmds, stream, archive, positions, asset, ckpt>>
        /\ UNCHANGED <<close, worker, api, crashes, errors, skipped>>
    BY <1>2 DEF PollPositions, gateway, ledger, faults
  <2>2. PICK f : f = (job.fresh /\ PositionsFresh)
    OBVIOUS
  <2>3. f \in BOOLEAN /\ (f => job.fresh)
    BY <2>2
  <2>4. job' = [job EXCEPT !.pc = "status", !.todo = RefreshSteps, !.fresh = f]
    BY <2>1, <2>2
  <2>5. /\ JobIn(job', Len(cmds)) /\ job'.start = job.start /\ job'.refresh = job.refresh /\ job'.pc = "status"
        /\ job'.result = job.result /\ job'.verdict = job.verdict /\ job'.fresh = f
    BY <1>0, <2>3, <2>4 DEF JobIn
  <2>6. crashes = 0 /\ f => asset.at >= Cut
    BY <1>0, <2>3 DEF AssetInv
  <2>7. job.result = "none" /\ \A s \in Steps : job.verdict[s] # "completed"
    BY <1>0, <2>1 DEF JobInv
  <2> QED BY <1>0, <2>1, <2>5, <2>6, <2>7, JobMoves
<1> QED BY <1>1, <1>2

LEMMA LookupFailsInv ==
  ASSUME IndInv, LookupFails
  PROVE  IndInv'
<1>0. JobIn(job, Len(cmds)) /\ JobInv /\ AssetInv /\ errors \in Nat
  BY DEF IndInv, Programs, Tables
<1>1. /\ UNCHANGED <<held, version, clock, skew, cmds, stream, archive, positions, asset, ckpt>>
      /\ UNCHANGED <<close, worker, api, crashes, skipped>> /\ errors' = errors + 1
  BY DEF LookupFails, gateway, ledger, faults
<1>2. errors' \in Nat
  BY <1>0, <1>1
<1>3. CASE job.pc = "asset" /\ job' = [job EXCEPT !.pc = "positions", !.fresh = FALSE]
  <2>1. /\ JobIn(job', Len(cmds)) /\ job'.start = job.start /\ job'.refresh = job.refresh /\ job'.pc = "positions"
        /\ job'.result = job.result /\ job'.verdict = job.verdict /\ job'.fresh = FALSE
    BY <1>0, <1>3 DEF JobIn
  <2>2. job.result = "none" /\ \A s \in Steps : job.verdict[s] # "completed"
    BY <1>0, <1>3 DEF JobInv
  <2> QED BY <1>1, <1>2, <1>3, <2>1, <2>2, JobMoves
<1>4. CASE job.pc = "positions" /\ job' = [job EXCEPT !.pc = "status", !.todo = RefreshSteps, !.fresh = FALSE]
  <2>1. /\ JobIn(job', Len(cmds)) /\ job'.start = job.start /\ job'.refresh = job.refresh /\ job'.pc = "status"
        /\ job'.result = job.result /\ job'.verdict = job.verdict /\ job'.fresh = FALSE
    BY <1>0, <1>4 DEF JobIn
  <2>2. job.result = "none" /\ \A s \in Steps : job.verdict[s] # "completed"
    BY <1>0, <1>4 DEF JobInv
  <2> QED BY <1>1, <1>2, <1>4, <2>1, <2>2, JobMoves
<1>5. CASE job.pc = "status" /\ Noted("pending")
  <2>1. "pending" \in Verdicts
    BY DEF Verdicts
  <2> QED BY <1>1, <1>2, <1>5, <2>1, NotedInv
<1> QED BY <1>3, <1>4, <1>5 DEF LookupFails

(* Lemma: a query of the job, whether or not the call reports success.     *)
LEMMA RefreshedInv ==
  ASSUME IndInv, job.pc = "publish", Issued, clock' = clock + 2, errors' \in Nat,
         UNCHANGED <<held, version, skew, stream, archive, positions, asset, ckpt, close, worker>>,
         UNCHANGED <<api, crashes, skipped>>,
         NEW r \in Nat, r <= Len(cmds'), Refreshed(r)
  PROVE  IndInv'
<1>0. /\ Tables /\ Programs /\ JobIn(job, Len(cmds)) /\ JobInv /\ WholeInv /\ AssetInv
  BY DEF IndInv, Programs
<1>1. clock \in Nat /\ clock' \in Nat /\ clock' > clock /\ clock' >= clock
  BY <1>0 DEF Tables
<1>2. /\ Tables' /\ StreamInv' /\ WorkerInv' /\ RowsInv' /\ LastInv'
      /\ Len(cmds) \in Nat /\ Len(cmds') \in Nat /\ Len(cmds) <= Len(cmds')
      /\ \A i \in Nat : Done(i)' <=> Done(i)
  BY <1>1, Later
<1>3. PICK x, y : x = Head(job.todo) /\ y = Tail(job.todo)
  OBVIOUS
<1>4. PICK lost \in BOOLEAN, last \in BOOLEAN :
        /\ lost = (job.lost \/ (r = 0 /\ ~ job.again /\ x \in {"asset", "positions"}))
        /\ last = (Len(job.todo) = 1)
  OBVIOUS
<1>5. PICK p \in {"publish", "ended", "asset"}, res \in {"none", "blocked", "failed", "ready"} :
        /\ p = (IF ~ last THEN "publish" ELSE IF lost THEN "ended" ELSE "asset")
        /\ res = (IF last /\ lost THEN "blocked" ELSE job.result)
  BY <1>0 DEF JobIn
<1>6. PICK f : f = [job.refresh EXCEPT ![x] = r]
  OBVIOUS
<1>7. job' = [job EXCEPT !.todo = y, !.refresh = f, !.lost = lost, !.pc = p, !.result = res]
  BY <1>3, <1>4, <1>5, <1>6 DEF Refreshed
<1>8. f \in [Steps -> 0 .. Len(cmds')]
  <2>1. job.refresh \in [Steps -> 0 .. Len(cmds)]
    BY <1>0 DEF JobIn
  <2>2. job.refresh \in [Steps -> 0 .. Len(cmds')] /\ r \in 0 .. Len(cmds')
    BY <1>2, <2>1
  <2> QED BY <1>6, <2>2
<1>9. /\ JobIn(job', Len(cmds')) /\ job'.start = job.start /\ job'.pc = p /\ job'.result = res
      /\ job'.verdict = job.verdict /\ job'.fresh = job.fresh
  BY <1>0, <1>7, <1>8 DEF JobIn
<1>10. /\ job.result = "none" /\ job.fresh = FALSE /\ api.pc = "idle"
       /\ \A s \in Steps : job.verdict[s] # "completed"
  BY <1>0 DEF JobInv, AssetInv, JobIn
<1>11. res \in {"none", "blocked"} /\ (res # "none" => p = "ended")
  BY <1>5, <1>10
<1>12. Programs'
  BY <1>0, <1>9 DEF Programs, Asset, Seen
<1>13. AssetInv'
  BY <1>0, <1>1, <1>2, <1>9, <1>10, <1>11, AssetJob
<1>14. JobInv'
  BY <1>9, <1>10, <1>11 DEF JobInv
<1>15. WholeInv'
  BY <1>0, <1>9, <1>11 DEF WholeInv, CaptureIsWhole
<1> QED BY <1>2, <1>12, <1>13, <1>14, <1>15 DEF IndInv

LEMMA RefreshInv ==
  ASSUME IndInv, Refresh \/ RefreshFails
  PROVE  IndInv'
<1>0. Tables /\ errors \in Nat /\ clock \in Nat /\ Len(cmds) \in Nat
  BY StreamLength DEF IndInv, Tables
<1>1. CASE Refresh
  <2>1. /\ job.pc = "publish" /\ cmds' = Published("job", Head(job.todo)) /\ clock' = clock + 2
        /\ Refreshed(Len(cmds) + 1)
        /\ UNCHANGED <<held, version, skew, stream, archive, positions, asset, ckpt, close, worker>>
        /\ UNCHANGED <<api, crashes, errors, skipped>>
    BY <1>1 DEF Refresh, gateway, ledger, faults
  <2>2. Issued
    BY <2>1 DEF Issued
  <2>3. clock' \in Nat /\ clock' > clock
    BY <1>0, <2>1
  <2>4. \A by, step : cmds' = Published(by, step) => Len(cmds') = Len(cmds) + 1
    BY <1>0, <2>1, <2>2, <2>3, Later
  <2>5. Len(cmds) + 1 \in Nat /\ Len(cmds) + 1 <= Len(cmds')
    BY <1>0, <2>1, <2>4
  <2> QED BY <1>0, <2>1, <2>2, <2>5, RefreshedInv
<1>2. CASE RefreshFails
  <2>1. /\ job.pc = "publish" /\ cmds' \in {cmds, Published("job", Head(job.todo))} /\ clock' = clock + 2
        /\ Refreshed(0) /\ errors' = errors + 1
        /\ UNCHANGED <<held, version, skew, stream, archive, positions, asset, ckpt, close, worker>>
        /\ UNCHANGED <<api, crashes, skipped>>
    BY <1>2 DEF RefreshFails, gateway, ledger
  <2>2. Issued
    BY <2>1 DEF Issued
  <2>3. clock' \in Nat /\ clock' > clock /\ errors' \in Nat
    BY <1>0, <2>1
  <2>4. Len(cmds') \in Nat
    BY <2>1, <2>2, <2>3, Later
  <2>5. 0 <= Len(cmds')
    BY <2>4
  <2> QED BY <2>1, <2>2, <2>3, <2>5, RefreshedInv
<1> QED BY <1>1, <1>2

(* Lemma: a round that does not satisfy the job.                           *)
LEMMA NewRoundFields ==
  ASSUME NEW n, JobIn(job, n)
  PROVE  /\ JobIn(NewRound, n) /\ NewRound.start = job.start /\ NewRound.refresh = job.refresh
         /\ NewRound.pc = job.pc /\ NewRound.result = job.result
         /\ NewRound.fresh = FALSE /\ \A s \in Steps : NewRound.verdict[s] = "pending"
BY DEF JobIn, NewRound, Verdicts

LEMMA UnsatisfiedInv ==
  ASSUME IndInv, PollAgain \/ RetryQueries \/ BlockSnapshot \/ DeadlinePasses
  PROVE  IndInv'
<1>0. JobIn(job, Len(cmds)) /\ JobInv /\ errors \in Nat /\ job.pc = "decide" /\ job.result = "none"
  BY DEF IndInv, Programs, Tables, JobInv, PollAgain, RetryQueries, BlockSnapshot, DeadlinePasses
<1>1. /\ UNCHANGED <<held, version, clock, skew, cmds, stream, archive, positions, asset, ckpt>>
      /\ UNCHANGED <<close, worker, api, crashes, errors, skipped>>
  BY DEF PollAgain, RetryQueries, BlockSnapshot, DeadlinePasses, gateway, ledger, faults
<1>2. PICK j : j = NewRound
  OBVIOUS
<1>3. /\ JobIn(j, Len(cmds)) /\ j.start = job.start /\ j.refresh = job.refresh /\ j.pc = "decide"
      /\ j.result = "none" /\ j.fresh = FALSE /\ \A s \in Steps : j.verdict[s] = "pending"
  BY <1>0, <1>2, NewRoundFields
<1>4. /\ JobIn(job', Len(cmds)) /\ job'.start = job.start /\ job'.refresh = job.refresh
      /\ job'.pc \in {"asset", "publish", "ended"} /\ job'.result \in {"none", "blocked"}
      /\ job'.result # "none" => job'.pc = "ended"
      /\ job'.verdict = j.verdict /\ job'.fresh = FALSE
  <2>1. CASE PollAgain
    <3>1. job' = [j EXCEPT !.pc = "asset"]
      BY <1>2, <2>1 DEF PollAgain
    <3> QED BY <1>3, <3>1 DEF JobIn
  <2>2. CASE RetryQueries
    <3>1. PICK t : job' = [j EXCEPT !.pc = "publish", !.again = TRUE, !.todo = t]
      BY <1>2, <2>2 DEF RetryQueries
    <3> QED BY <1>3, <3>1 DEF JobIn
  <2>3. CASE BlockSnapshot \/ DeadlinePasses
    <3>1. job' = [j EXCEPT !.pc = "ended", !.result = "blocked"]
      BY <1>2, <2>3 DEF BlockSnapshot, DeadlinePasses, Decided
    <3> QED BY <1>3, <3>1 DEF JobIn
  <2> QED BY <2>1, <2>2, <2>3
<1>5. \A s \in Steps : job'.verdict[s] # "completed"
  BY <1>3, <1>4
<1> QED BY <1>0, <1>1, <1>4, <1>5, JobMoves

LEMMA RequestSnapshotInv ==
  ASSUME IndInv, RequestSnapshot
  PROVE  IndInv'
<1>0. /\ Tables /\ Programs /\ JobIn(job, Len(cmds)) /\ JobInv /\ WholeInv /\ AssetInv
  BY DEF IndInv, Programs
<1>1. /\ UNCHANGED <<held, version, clock, skew, cmds, stream, archive, positions, asset, ckpt>>
      /\ UNCHANGED <<close, worker, crashes, errors, skipped>> /\ job.pc = "decide" /\ Satisfied
      /\ api' = [pc |-> "asset", at |-> clock, asset |-> NoRow,
                 positions |-> [s \in Symbols |-> NoRow], todo |-> {}, err |-> FALSE]
      /\ job' = [NewRound EXCEPT !.pc = "wait", !.result = "none"]
  BY DEF RequestSnapshot, Decided, gateway, ledger, faults
<1>2. PICK j : j = NewRound
  OBVIOUS
<1>3. /\ JobIn(j, Len(cmds)) /\ j.start = job.start /\ j.refresh = job.refresh
      /\ j.fresh = FALSE /\ \A s \in Steps : j.verdict[s] = "pending"
  BY <1>0, <1>2, NewRoundFields
<1>4. /\ JobIn(job', Len(cmds)) /\ job'.start = job.start /\ job'.refresh = job.refresh /\ job'.pc = "wait"
      /\ job'.result = "none" /\ job'.verdict = j.verdict /\ job'.fresh = FALSE
  <2>1. job' = [j EXCEPT !.pc = "wait", !.result = "none"]
    BY <1>1, <1>2
  <2> QED BY <1>3, <2>1 DEF JobIn
<1>5. /\ clock \in Nat /\ errors \in Nat /\ crashes \in Nat
      /\ close \in [asset : Asset, positions : [Symbols -> Seen \cup {NoRow}]]
  BY <1>0 DEF Tables
<1>6. /\ Tables' /\ StreamInv' /\ WorkerInv' /\ RowsInv' /\ LastInv'
      /\ \A i \in Nat : Done(i)' <=> Done(i)
  BY <1>1, <1>5, Aside
<1>7. /\ api'.pc = "asset" /\ api'.err = FALSE
      /\ api' \in [pc : {"idle", "asset", "positions", "write_asset", "write_positions"}, at : Nat,
                   asset : Asset \cup {NoRow}, positions : [Symbols -> Seen \cup {NoRow}],
                   todo : SUBSET Symbols, err : BOOLEAN]
  BY <1>1, <1>5
<1>8. Programs'
  BY <1>0, <1>1, <1>4, <1>7 DEF Programs, Asset, Seen
<1>9. JobInv'
  <2>1. \A s \in Steps : Answered(s)
    BY <1>0, <1>1 DEF JobInv, Satisfied
  <2>2. \A s \in Steps : Answered(s)'
    BY <1>1, <1>4, <2>1 DEF Answered
  <2> QED BY <1>3, <1>4, <1>7, <2>2 DEF JobInv
<1>10. WholeInv'
  BY <1>4, <1>7 DEF WholeInv, CaptureIsWhole
<1>11. AssetInv'
  <2>1. /\ Cut' = Cut /\ DOMAIN stream \subseteq Nat /\ api.pc = "idle" /\ close.asset.at = 0
    BY <1>0, <1>1, <1>4, StreamLength DEF Cut, JobInv, AssetInv
  <2>2. crashes = 0 => asset.at >= Cut
    BY <1>0, <1>1 DEF AssetInv, Satisfied
  <2>3. /\ Cut' > 0
        /\ \A i \in DOMAIN stream' : stream'[i].produced >= Cut' => stream'[i].seen = version'
        /\ asset'.at >= Cut' => asset'.seen = version'
        /\ crashes' = 0 /\ asset'.at >= Cut' =>
             \A i \in DOMAIN stream' : ~ Done(i)' => stream'[i].produced >= Cut'
    BY <1>0, <1>1, <1>6, <2>1 DEF AssetInv
  <2>4. asset'.at = 0 \/ asset'.at < clock' + skew'
    BY <1>0, <1>1 DEF AssetInv
  <2> QED BY <1>1, <1>4, <1>7, <2>1, <2>2, <2>3, <2>4 DEF AssetInv, CapturedAssetFinal
<1> QED BY <1>6, <1>8, <1>9, <1>10, <1>11 DEF IndInv

-----------------------------------------------------------------------------
(* The handler.  Lemma: a step of its own, while the job waits.            *)
LEMMA ApiMoves ==
  ASSUME IndInv, UNCHANGED <<held, version, clock, skew, cmds, stream, archive, positions, asset, ckpt>>,
         UNCHANGED <<job, worker, crashes, skipped>>, errors' \in Nat,
         api.pc # "idle", api'.pc \notin {"idle", "asset"},
         api' \in [pc : {"idle", "asset", "positions", "write_asset", "write_positions"}, at : Nat,
                   asset : Asset \cup {NoRow}, positions : [Symbols -> Seen \cup {NoRow}],
                   todo : SUBSET Symbols, err : BOOLEAN],
         close' \in [asset : Asset, positions : [Symbols -> Seen \cup {NoRow}]],
         close'.asset.at = 0 \/ api'.pc = "write_positions",
         api'.pc = "write_asset" => ~ api'.err,
         api'.pc \in {"write_asset", "write_positions"} /\ ~ api'.err =>
           \A s \in Symbols \ api'.todo : api'.positions[s] # NoRow =>
             api'.pc = "write_positions" /\ close'.positions[s] = api'.positions[s],
         api'.pc \in {"positions", "write_asset"} /\ ~ api'.err => Held(api'.asset),
         api'.pc = "write_positions" /\ ~ api'.err => Held(close'.asset)
  PROVE  IndInv'
<1>0. /\ Tables /\ Programs /\ JobIn(job, Len(cmds)) /\ JobInv /\ WholeInv /\ AssetInv
  BY DEF IndInv, Programs
<1>1. crashes \in Nat /\ DOMAIN stream \subseteq Nat
  BY <1>0, StreamLength DEF Tables
<1>2. /\ Tables' /\ StreamInv' /\ WorkerInv' /\ RowsInv' /\ LastInv'
      /\ \A i \in Nat : Done(i)' <=> Done(i)
  BY <1>1, Aside
<1>3. job.pc = "wait" /\ job.result = "none"
  BY <1>0 DEF JobInv, JobIn
<1>4. Programs'
  BY <1>0 DEF Programs, Asset, Seen
<1>5. JobInv'
  <2>1. \A s \in Steps : Answered(s)' <=> Answered(s)
    BY DEF Answered
  <2> QED BY <1>0, <1>3, <2>1 DEF JobInv
<1>6. WholeInv'
  BY <1>3 DEF WholeInv, CaptureIsWhole
<1>7. AssetInv'
  <2>1. Cut' = Cut /\ Asset' = Asset
    BY DEF Cut, Asset, Seen
  <2>2. /\ Cut' > 0
        /\ \A i \in DOMAIN stream' : stream'[i].produced >= Cut' => stream'[i].seen = version'
        /\ asset'.at >= Cut' => asset'.seen = version'
        /\ crashes' = 0 /\ asset'.at >= Cut' =>
             \A i \in DOMAIN stream' : ~ Done(i)' => stream'[i].produced >= Cut'
    BY <1>0, <1>1, <1>2, <1>3, <2>1 DEF AssetInv
  <2>3. /\ api'.pc \in {"positions", "write_asset"} /\ ~ api'.err => Held(api.asset)'
        /\ api'.pc = "write_positions" /\ ~ api'.err => Held(close.asset)'
    BY <2>1 DEF Held
  <2>4. /\ asset'.at = 0 \/ asset'.at < clock' + skew'
        /\ ~ job.fresh
    BY <1>0, <1>3 DEF AssetInv
  <2> QED BY <1>3, <2>1, <2>2, <2>3, <2>4 DEF AssetInv, CapturedAssetFinal
<1> QED BY <1>2, <1>4, <1>5, <1>6, <1>7 DEF IndInv

(* Lemma: the handler responds, or the job gives up the request.           *)
LEMMA RespondInv ==
  ASSUME IndInv, UNCHANGED <<held, version, clock, skew, cmds, stream, archive, positions, asset, ckpt>>,
         UNCHANGED <<worker, skipped>>, errors' \in Nat, crashes' \in Nat, crashes' >= crashes,
         job.pc = "wait", NEW e \in BOOLEAN, Respond(e),
         close' \in [asset : Asset, positions : [Symbols -> Seen \cup {NoRow}]],
         ~ e => close'.positions = api.positions /\ Held(close'.asset)
  PROVE  IndInv'
<1>0. /\ Tables /\ Programs /\ JobIn(job, Len(cmds)) /\ JobInv /\ WholeInv /\ AssetInv
  BY DEF IndInv, Programs
<1>1. crashes \in Nat /\ DOMAIN stream \subseteq Nat
  BY <1>0, StreamLength DEF Tables
<1>2. /\ Tables' /\ StreamInv' /\ WorkerInv' /\ RowsInv' /\ LastInv'
      /\ \A i \in Nat : Done(i)' <=> Done(i)
  BY <1>1, Aside
<1>3. PICK j, res : j = NewRound /\ res = (IF e THEN "failed" ELSE "ready")
  OBVIOUS
<1>3a. /\ job' = [j EXCEPT !.pc = "ended", !.result = res]
       /\ res \in {"failed", "ready"} /\ (res = "ready" => ~ e)
  BY <1>3 DEF Respond, Decided
<1>4. /\ JobIn(j, Len(cmds)) /\ j.start = job.start /\ j.refresh = job.refresh
      /\ j.fresh = FALSE /\ \A s \in Steps : j.verdict[s] = "pending"
  BY <1>0, <1>3, NewRoundFields
<1>5. /\ JobIn(job', Len(cmds)) /\ job'.start = job.start /\ job'.refresh = job.refresh /\ job'.pc = "ended"
      /\ job'.result = res /\ job'.verdict = j.verdict /\ job'.fresh = FALSE
  BY <1>3a, <1>4 DEF JobIn
<1>6. /\ api'.pc = "idle" /\ api'.positions = api.positions
      /\ api' \in [pc : {"idle", "asset", "positions", "write_asset", "write_positions"}, at : Nat,
                   asset : Asset \cup {NoRow}, positions : [Symbols -> Seen \cup {NoRow}],
                   todo : SUBSET Symbols, err : BOOLEAN]
  BY <1>0 DEF Programs, Respond
<1>7. Programs'
  BY <1>0, <1>5, <1>6 DEF Programs, Asset, Seen
<1>8. JobInv'
  <2>1. \A s \in Steps : Answered(s)
    BY <1>0 DEF JobInv
  <2>2. \A s \in Steps : Answered(s)'
    BY <1>5, <2>1 DEF Answered
  <2> QED BY <1>4, <1>5, <1>6, <2>2 DEF JobInv
<1>9. WholeInv'
  BY <1>3a, <1>5, <1>6 DEF WholeInv, CaptureIsWhole
<1>10. AssetInv'
  <2>1. Cut' = Cut /\ (crashes' = 0 => crashes = 0)
    BY <1>1, <1>5 DEF Cut
  <2>2. /\ Cut' > 0
        /\ \A i \in DOMAIN stream' : stream'[i].produced >= Cut' => stream'[i].seen = version'
        /\ asset'.at >= Cut' => asset'.seen = version'
        /\ crashes' = 0 /\ asset'.at >= Cut' =>
             \A i \in DOMAIN stream' : ~ Done(i)' => stream'[i].produced >= Cut'
    BY <1>0, <1>1, <1>2, <2>1 DEF AssetInv
  <2>3. CapturedAssetFinal'
    BY <1>3a, <1>5, <2>1 DEF CapturedAssetFinal, Held
  <2>4. asset'.at = 0 \/ asset'.at < clock' + skew'
    BY <1>0 DEF AssetInv
  <2> QED BY <1>5, <1>6, <2>2, <2>3, <2>4 DEF AssetInv
<1> QED BY <1>2, <1>7, <1>8, <1>9, <1>10 DEF IndInv

LEMMA ReadAssetInv ==
  ASSUME IndInv, ReadAsset
  PROVE  IndInv'
<1>0. /\ Tables /\ Programs /\ JobInv /\ AssetInv
  BY DEF IndInv
<1>1. /\ UNCHANGED <<held, version, clock, skew, cmds, stream, archive, positions, asset, ckpt>>
      /\ UNCHANGED <<close, job, worker, crashes, errors, skipped>> /\ api.pc = "asset"
      /\ api' = [api EXCEPT !.pc = "positions", !.asset = GetLatestAsset, !.err = GetLatestAsset = NoRow]
  BY DEF ReadAsset, gateway, ledger, faults
<1>2. /\ asset \in Asset /\ close \in [asset : Asset, positions : [Symbols -> Seen \cup {NoRow}]] /\ errors \in Nat
  BY <1>0 DEF Tables
<1>3. PICK row : row = GetLatestAsset
  OBVIOUS
<1>4. row \in Asset
  BY <1>2, <1>3 DEF GetLatestAsset
<1>5. Held(row)
  <2>1. crashes = 0 => asset.at >= Cut
    BY <1>0, <1>1 DEF AssetInv
  <2>2. asset.at >= Cut => row = asset
    BY <1>1, <1>3, FreshIsIntraday
  <2>3. job.pc # "idle"
    BY <1>0, <1>1 DEF JobInv
  <2>4. asset.at >= Cut => asset.seen = version
    BY <1>0, <2>3 DEF AssetInv
  <2> QED BY <1>4, <2>1, <2>2, <2>4 DEF Held
<1>6. PICK e \in BOOLEAN : e = (row = NoRow)
  OBVIOUS
<1>7. api' = [api EXCEPT !.pc = "positions", !.asset = row, !.err = e]
  BY <1>1, <1>3, <1>6
<1>8. /\ api'.pc = "positions" /\ api'.asset = row
      /\ api' \in [pc : {"idle", "asset", "positions", "write_asset", "write_positions"}, at : Nat,
                   asset : Asset \cup {NoRow}, positions : [Symbols -> Seen \cup {NoRow}],
                   todo : SUBSET Symbols, err : BOOLEAN]
  BY <1>0, <1>4, <1>7 DEF Programs
<1>9. close.asset.at = 0
  BY <1>0, <1>1 DEF JobInv, AssetInv
<1> QED BY <1>1, <1>2, <1>5, <1>8, <1>9, ApiMoves

LEMMA ReadPositionsInv ==
  ASSUME IndInv, ReadPositions
  PROVE  IndInv'
<1>0. /\ Tables /\ Programs /\ JobInv /\ AssetInv
  BY DEF IndInv
<1>1. /\ UNCHANGED <<held, version, clock, skew, cmds, stream, archive, positions, asset, ckpt>>
      /\ UNCHANGED <<close, job, worker, crashes, errors, skipped>> /\ api.pc = "positions" /\ ~ api.err
      /\ api' = [api EXCEPT !.pc = "write_asset", !.positions = ListPositions,
                            !.todo = {s \in Symbols : positions[s] # NoRow}]
  BY DEF ReadPositions, gateway, ledger, faults
<1>2. /\ close \in [asset : Asset, positions : [Symbols -> Seen \cup {NoRow}]] /\ errors \in Nat
      /\ positions \in [Symbols -> Position \cup {NoRow}]
  BY <1>0 DEF Tables
<1>3. PICK rows, todo : rows = ListPositions /\ todo = {s \in Symbols : positions[s] # NoRow}
  OBVIOUS
<1>4. rows \in [Symbols -> Seen \cup {NoRow}] /\ \A s \in Symbols \ todo : rows[s] = NoRow
  BY <1>2, <1>3 DEF ListPositions, Position
<1>5. api' = [api EXCEPT !.pc = "write_asset", !.positions = rows, !.todo = todo]
  BY <1>1, <1>3
<1>6. /\ api'.pc = "write_asset" /\ api'.asset = api.asset /\ api'.positions = rows /\ api'.todo = todo
      /\ api'.err = api.err
      /\ api' \in [pc : {"idle", "asset", "positions", "write_asset", "write_positions"}, at : Nat,
                   asset : Asset \cup {NoRow}, positions : [Symbols -> Seen \cup {NoRow}],
                   todo : SUBSET Symbols, err : BOOLEAN]
  BY <1>0, <1>3, <1>4, <1>5 DEF Programs
<1>7. close.asset.at = 0 /\ Held(api.asset)
  BY <1>0, <1>1 DEF JobInv, AssetInv
<1> QED BY <1>1, <1>2, <1>4, <1>6, <1>7, ApiMoves

LEMMA UpsertAssetSnapshotForDateInv ==
  ASSUME IndInv, UpsertAssetSnapshotForDate
  PROVE  IndInv'
<1>0. /\ Tables /\ Programs /\ JobInv /\ WholeInv /\ AssetInv
  BY DEF IndInv
<1>1. /\ UNCHANGED <<held, version, clock, skew, cmds, stream, archive, positions, asset, ckpt>>
      /\ UNCHANGED <<job, worker, crashes, errors, skipped>> /\ api.pc = "write_asset"
      /\ api' = [api EXCEPT !.pc = "write_positions"]
      /\ close' = [close EXCEPT !.asset = [seen |-> api.asset.seen, at |-> api.at]]
  BY DEF UpsertAssetSnapshotForDate, upsertAssetSnapshotSQL, gateway, ledger, faults
<1>2. /\ close \in [asset : Asset, positions : [Symbols -> Seen \cup {NoRow}]] /\ errors \in Nat
  BY <1>0 DEF Tables
<1>3. ~ api.err /\ Held(api.asset) /\ api.at \in Nat
  BY <1>0, <1>1 DEF WholeInv, AssetInv, Programs
<1>4. PICK row : row = [seen |-> api.asset.seen, at |-> api.at]
  OBVIOUS
<1>5. row \in Asset /\ Held(row)
  BY <1>3, <1>4 DEF Held, Asset
<1>6. /\ close' \in [asset : Asset, positions : [Symbols -> Seen \cup {NoRow}]]
      /\ close'.asset = row /\ close'.positions = close.positions
  BY <1>1, <1>2, <1>4, <1>5
<1>7. /\ api'.pc = "write_positions" /\ api'.positions = api.positions /\ api'.todo = api.todo
      /\ api' \in [pc : {"idle", "asset", "positions", "write_asset", "write_positions"}, at : Nat,
                   asset : Asset \cup {NoRow}, positions : [Symbols -> Seen \cup {NoRow}],
                   todo : SUBSET Symbols, err : BOOLEAN]
  BY <1>0, <1>1 DEF Programs
<1>8. \A s \in Symbols \ api.todo : api.positions[s] = NoRow
  BY <1>0, <1>1, <1>3 DEF WholeInv
<1> QED BY <1>1, <1>2, <1>5, <1>6, <1>7, <1>8, ApiMoves

LEMMA UpsertPositionSnapshotInv ==
  ASSUME IndInv, NEW s \in Symbols, UpsertPositionSnapshot(s)
  PROVE  IndInv'
<1>0. /\ Tables /\ Programs /\ JobInv /\ WholeInv /\ AssetInv
  BY DEF IndInv
<1>1. /\ UNCHANGED <<held, version, clock, skew, cmds, stream, archive, positions, asset, ckpt>>
      /\ UNCHANGED <<job, worker, crashes, errors, skipped>> /\ api.pc = "write_positions" /\ s \in api.todo
      /\ api' = [api EXCEPT !.todo = api.todo \ {s}]
      /\ close' = [close EXCEPT !.positions = [close.positions EXCEPT ![s] = api.positions[s]]]
  BY DEF UpsertPositionSnapshot, upsertPositionSnapshotSQL, gateway, ledger, faults
<1>2. /\ close \in [asset : Asset, positions : [Symbols -> Seen \cup {NoRow}]] /\ errors \in Nat
  BY <1>0 DEF Tables
<1>3. api.positions \in [Symbols -> Seen \cup {NoRow}]
  BY <1>0 DEF Programs
<1>4. PICK f : f = [close.positions EXCEPT ![s] = api.positions[s]]
  OBVIOUS
<1>5. /\ f \in [Symbols -> Seen \cup {NoRow}] /\ f[s] = api.positions[s]
      /\ \A r \in Symbols \ {s} : f[r] = close.positions[r]
  BY <1>2, <1>3, <1>4
<1>6. /\ close' \in [asset : Asset, positions : [Symbols -> Seen \cup {NoRow}]]
      /\ close'.asset = close.asset /\ close'.positions = f
  BY <1>1, <1>2, <1>4, <1>5
<1>7. /\ api'.pc = "write_positions" /\ api'.positions = api.positions /\ api'.todo = api.todo \ {s}
      /\ api'.err = api.err
      /\ api' \in [pc : {"idle", "asset", "positions", "write_asset", "write_positions"}, at : Nat,
                   asset : Asset \cup {NoRow}, positions : [Symbols -> Seen \cup {NoRow}],
                   todo : SUBSET Symbols, err : BOOLEAN]
  BY <1>0, <1>1 DEF Programs
<1>8. ~ api.err => \A r \in Symbols \ api'.todo : api.positions[r] # NoRow => f[r] = api.positions[r]
  BY <1>0, <1>1, <1>5, <1>7 DEF WholeInv
<1>9. ~ api.err => Held(close.asset)
  BY <1>0, <1>1 DEF AssetInv
<1> QED BY <1>1, <1>2, <1>6, <1>7, <1>8, <1>9, ApiMoves

LEMMA PrunePositionSnapshotsInv ==
  ASSUME IndInv, PrunePositionSnapshots
  PROVE  IndInv'
<1>0. /\ Tables /\ Programs /\ JobInv /\ WholeInv /\ AssetInv
  BY DEF IndInv
<1>1. /\ UNCHANGED <<held, version, clock, skew, cmds, stream, archive, positions, asset, ckpt>>
      /\ UNCHANGED <<worker, crashes, errors, skipped>> /\ api.pc = "write_positions" /\ api.todo = {} /\ ~ api.err
      /\ Respond(FALSE)
      /\ close' = [close EXCEPT !.positions = [s \in Symbols |->
                     IF api.positions[s] = NoRow THEN NoRow ELSE close.positions[s]]]
  BY DEF PrunePositionSnapshots, gateway, ledger, faults
<1>2. /\ close \in [asset : Asset, positions : [Symbols -> Seen \cup {NoRow}]] /\ errors \in Nat /\ crashes \in Nat
  BY <1>0 DEF Tables
<1>3. api.positions \in [Symbols -> Seen \cup {NoRow}]
  BY <1>0 DEF Programs
<1>4. PICK f : f = [s \in Symbols |-> IF api.positions[s] = NoRow THEN NoRow ELSE close.positions[s]]
  OBVIOUS
<1>5. \A s \in Symbols : f[s] = api.positions[s]
  BY <1>0, <1>1, <1>4 DEF WholeInv
<1>6. f = api.positions
  BY <1>3, <1>4, <1>5
<1>7. /\ close' \in [asset : Asset, positions : [Symbols -> Seen \cup {NoRow}]]
      /\ close'.asset = close.asset /\ close'.positions = api.positions
  BY <1>1, <1>2, <1>3, <1>4, <1>6
<1>8. Held(close.asset) /\ job.pc = "wait"
  BY <1>0, <1>1 DEF AssetInv, JobInv
<1>9. errors' \in Nat /\ crashes' \in Nat /\ crashes' >= crashes
  BY <1>1, <1>2
<1> QED BY <1>1, <1>7, <1>8, <1>9, RespondInv

LEMMA ReportErrorsInv ==
  ASSUME IndInv, ReportErrors
  PROVE  IndInv'
<1>1. /\ UNCHANGED <<held, version, clock, skew, cmds, stream, archive, positions, asset, ckpt>>
      /\ UNCHANGED <<close, worker, crashes, errors, skipped>> /\ api.pc # "idle" /\ Respond(TRUE)
  BY DEF ReportErrors, gateway, ledger, faults
<1>2. /\ close \in [asset : Asset, positions : [Symbols -> Seen \cup {NoRow}]]
      /\ errors \in Nat /\ crashes \in Nat /\ job.pc = "wait"
  BY <1>1 DEF IndInv, Tables, JobInv
<1>3. errors' \in Nat /\ crashes' \in Nat /\ crashes' >= crashes
  BY <1>1, <1>2
<1> QED BY <1>1, <1>2, <1>3, RespondInv

LEMMA RequestLostInv ==
  ASSUME IndInv, RequestLost
  PROVE  IndInv'
<1>1. /\ UNCHANGED <<held, version, clock, skew, cmds, stream, archive, positions, asset, ckpt>>
      /\ UNCHANGED <<close, worker, errors, skipped>> /\ job.pc = "wait" /\ Respond(TRUE)
      /\ crashes' = crashes + 1
  BY DEF RequestLost, gateway, ledger, faults
<1>2. /\ close \in [asset : Asset, positions : [Symbols -> Seen \cup {NoRow}]]
      /\ errors \in Nat /\ crashes \in Nat
  BY <1>1 DEF IndInv, Tables
<1>3. errors' \in Nat /\ crashes' \in Nat /\ crashes' >= crashes
  BY <1>1, <1>2
<1> QED BY <1>1, <1>2, <1>3, RespondInv

LEMMA CaptureFailsInv ==
  ASSUME IndInv, CaptureFails
  PROVE  IndInv'
<1>0. /\ Tables /\ Programs /\ JobInv /\ WholeInv /\ AssetInv
  BY DEF IndInv
<1>1. /\ UNCHANGED <<held, version, clock, skew, cmds, stream, archive, positions, asset, ckpt>>
      /\ UNCHANGED <<close, worker, crashes, skipped>> /\ errors' = errors + 1 /\ api.pc # "idle"
  BY DEF CaptureFails, gateway, ledger
<1>2. /\ close \in [asset : Asset, positions : [Symbols -> Seen \cup {NoRow}]]
      /\ errors \in Nat /\ crashes \in Nat /\ job.pc = "wait"
  BY <1>0, <1>1 DEF Tables, JobInv
<1>3. errors' \in Nat /\ crashes' \in Nat /\ crashes' >= crashes
  BY <1>1, <1>2
<1>4. api.pc # "write_positions" => close.asset.at = 0
  BY <1>0, <1>2 DEF AssetInv
<1>5. CASE Respond(TRUE)
  BY <1>1, <1>2, <1>3, <1>5, RespondInv
<1>6. ASSUME UNCHANGED job, api'.err = TRUE, api'.pc \in {"positions", "write_positions"},
             api'.pc = "positions" => api.pc = "asset",
             api' \in [pc : {"idle", "asset", "positions", "write_asset", "write_positions"}, at : Nat,
                       asset : Asset \cup {NoRow}, positions : [Symbols -> Seen \cup {NoRow}],
                       todo : SUBSET Symbols, err : BOOLEAN]
      PROVE  IndInv'
  <2>1. close'.asset.at = 0 \/ api'.pc = "write_positions"
    BY <1>1, <1>4, <1>6
  <2> QED BY <1>1, <1>2, <1>3, <1>6, <2>1, ApiMoves
<1>7. CASE api.pc = "asset" /\ api' = [api EXCEPT !.pc = "positions", !.err = TRUE] /\ UNCHANGED job
  <2>1. /\ api'.err = TRUE /\ api'.pc = "positions"
        /\ api' \in [pc : {"idle", "asset", "positions", "write_asset", "write_positions"}, at : Nat,
                     asset : Asset \cup {NoRow}, positions : [Symbols -> Seen \cup {NoRow}],
                     todo : SUBSET Symbols, err : BOOLEAN]
    BY <1>0, <1>7 DEF Programs
  <2> QED BY <1>6, <1>7, <2>1
<1>8. CASE api.pc = "write_asset" /\ api' = [api EXCEPT !.pc = "write_positions", !.err = TRUE] /\ UNCHANGED job
  <2>1. /\ api'.err = TRUE /\ api'.pc = "write_positions"
        /\ api' \in [pc : {"idle", "asset", "positions", "write_asset", "write_positions"}, at : Nat,
                     asset : Asset \cup {NoRow}, positions : [Symbols -> Seen \cup {NoRow}],
                     todo : SUBSET Symbols, err : BOOLEAN]
    BY <1>0, <1>8 DEF Programs
  <2> QED BY <1>6, <1>8, <2>1
<1>9. CASE /\ api.pc = "write_positions" /\ UNCHANGED job
           /\ \E s \in api.todo : api' = [api EXCEPT !.todo = @ \ {s}, !.err = TRUE]
  <2>1. PICK s \in api.todo : api' = [api EXCEPT !.todo = api.todo \ {s}, !.err = TRUE]
    BY <1>9
  <2>2. /\ api'.err = TRUE /\ api'.pc = "write_positions"
        /\ api' \in [pc : {"idle", "asset", "positions", "write_asset", "write_positions"}, at : Nat,
                     asset : Asset \cup {NoRow}, positions : [Symbols -> Seen \cup {NoRow}],
                     todo : SUBSET Symbols, err : BOOLEAN]
    BY <1>0, <1>9, <2>1 DEF Programs
  <2> QED BY <1>6, <1>9, <2>2
<1> QED BY <1>5, <1>7, <1>8, <1>9 DEF CaptureFails

-----------------------------------------------------------------------------
LEMMA InitInv ==
  ASSUME Init
  PROVE  IndInv
<1>1. /\ held \subseteq Symbols /\ version = 0 /\ clock = 2 /\ skew \in Skews
      /\ cmds = <<>> /\ stream = <<>> /\ archive = <<>>
      /\ positions = [s \in Symbols |-> IF s \in held THEN [seen |-> 0, at |-> 0] ELSE NoRow]
      /\ asset = [seen |-> 0, at |-> 0]
      /\ close = [asset |-> asset, positions |-> ListPositions]
      /\ ckpt = 0 /\ worker = [pc |-> "read", idx |-> 0, todo |-> {}, hi |-> 0]
      /\ job = [pc |-> "idle", start |-> 0, todo |-> <<>>, again |-> FALSE, lost |-> FALSE,
                refresh |-> [s \in Steps |-> 0], fresh |-> FALSE,
                verdict |-> [s \in Steps |-> "pending"], result |-> "none"]
      /\ api = [pc |-> "idle", at |-> 0, asset |-> NoRow,
                positions |-> [s \in Symbols |-> NoRow], todo |-> {}, err |-> FALSE]
      /\ crashes = 0 /\ errors = 0 /\ skipped = FALSE
  BY DEF Init
<1>2. Seen = {0} /\ asset \in Asset /\ asset.at = 0 /\ MaxTrades \in Nat
  BY <1>1, CaptureAssumption DEF Asset, Seen
<1>3. positions \in [Symbols -> Position \cup {NoRow}] /\ \A s \in Symbols : positions[s] # NoRow => positions[s].at = 0
  BY <1>1, <1>2 DEF Position
<1>4. ListPositions \in [Symbols -> Seen \cup {NoRow}]
  BY <1>3 DEF ListPositions, Position
<1>5. Len(stream) = 0 /\ DOMAIN stream = {} /\ Len(cmds) = 0 /\ DOMAIN cmds = {} /\ DOMAIN archive = {}
  BY <1>1
<1>6. Tables
  <2>1. cmds \in Seq(Range(cmds)) /\ stream \in Seq(Range(stream)) /\ archive \in Seq(DOMAIN stream)
    BY <1>1, EmptySeq
  <2>2. IsInjective(archive)
    BY <1>5 DEF IsInjective
  <2>3. close \in [asset : Asset, positions : [Symbols -> Seen \cup {NoRow}]]
    BY <1>1, <1>2, <1>4
  <2>4. version \in 0 .. MaxTrades /\ clock \in Nat /\ clock >= 2
    BY <1>1, <1>2
  <2>5. ckpt \in Nat /\ crashes \in Nat /\ errors \in Nat /\ skipped \in BOOLEAN
    BY <1>1
  <2>6. held \subseteq Symbols /\ skew \in Skews
    BY <1>1
  <2> QED BY <1>2, <1>3, <1>5, <2>1, <2>2, <2>3, <2>4, <2>5, <2>6 DEF Tables
<1>7. Programs
  <2>1. JobIn(job, Len(cmds))
    <3>1. [s \in Steps |-> 0] \in [Steps -> 0 .. Len(cmds)] /\ [s \in Steps |-> "pending"] \in [Steps -> Verdicts]
      BY <1>5 DEF Verdicts
    <3> QED BY <1>1, <3>1 DEF JobIn
  <2>2. api \in [pc : {"idle", "asset", "positions", "write_asset", "write_positions"}, at : Nat,
                 asset : Asset \cup {NoRow}, positions : [Symbols -> Seen \cup {NoRow}],
                 todo : SUBSET Symbols, err : BOOLEAN]
    BY <1>1
  <2> QED BY <1>1, <2>1, <2>2 DEF Programs
<1>8. StreamInv
  BY <1>5 DEF StreamInv
<1>9. WorkerInv
  BY <1>1, <1>5 DEF WorkerInv, Busy
<1>10. RowsInv /\ LastInv
  BY <1>3, <1>5 DEF RowsInv, LastInv, PositionPages
<1>11. JobInv
  BY <1>1 DEF JobInv
<1>12. WholeInv
  BY <1>1 DEF WholeInv, CaptureIsWhole
<1>13. AssetInv
  BY <1>1, <1>2 DEF AssetInv, CapturedAssetFinal
<1> QED BY <1>6, <1>7, <1>8, <1>9, <1>10, <1>11, <1>12, <1>13 DEF IndInv

LEMMA StutterInv ==
  ASSUME IndInv, UNCHANGED vars
  PROVE  IndInv'
<1>0. /\ Tables /\ Programs /\ StreamInv /\ WorkerInv /\ RowsInv /\ LastInv /\ JobInv /\ WholeInv /\ AssetInv
  BY DEF IndInv
<1>1. /\ UNCHANGED <<held, version, clock, skew, cmds, stream, archive, positions, asset, ckpt, close>>
      /\ UNCHANGED <<worker, job, api, crashes, errors, skipped>>
  BY DEF vars, gateway, ledger, faults
<1>2. /\ close \in [asset : Asset, positions : [Symbols -> Seen \cup {NoRow}]] /\ crashes \in Nat /\ errors \in Nat
  BY <1>0 DEF Tables
<1>3. /\ Tables' /\ StreamInv' /\ WorkerInv' /\ RowsInv' /\ LastInv'
  BY <1>1, <1>2, Aside
<1>4. JobInv' /\ WholeInv'
  BY <1>0, <1>1, JobFrame, WholeFrame
<1>5. AssetInv'
  <2>1. crashes' >= crashes /\ \A i \in DOMAIN stream : Done(i) => Done(i)'
    BY <1>1, <1>2 DEF Done, Busy
  <2> QED BY <1>0, <1>1, <1>2, <2>1, AssetFrame
<1>6. Programs'
  BY <1>0, <1>1 DEF Programs, Asset, Seen
<1> QED BY <1>3, <1>4, <1>5, <1>6 DEF IndInv

LEMMA NextInv ==
  ASSUME IndInv, [Next]_vars
  PROVE  IndInv'
<1>1. CASE Worker
  BY <1>1, ReadInv, ArchiveInv, UpsertAssetInv, UpsertPositionInv, PartialPageInv, DeleteStaleInv, SaveInv
     DEF Worker
<1>2. CASE Job
  BY <1>2, RefreshInv, PollInv, PollStatusInv, UnsatisfiedInv, RequestSnapshotInv DEF Job
<1>3. CASE Api
  BY <1>3, ReadAssetInv, ReadPositionsInv, UpsertAssetSnapshotForDateInv, UpsertPositionSnapshotInv,
     PrunePositionSnapshotsInv, ReportErrorsInv DEF Api
<1>4. CASE Environment
  BY <1>4, TradeInv, AnswerInv, OtherQueryInv, StartJobInv, UnsatisfiedInv DEF Environment
<1>5. CASE Faults
  BY <1>5, StatementFailsInv, CrashInv, RefreshInv, LookupFailsInv, CaptureFailsInv, RequestLostInv DEF Faults
<1>6. CASE UNCHANGED vars
  BY <1>6, StutterInv
<1> QED BY <1>1, <1>2, <1>3, <1>4, <1>5, <1>6 DEF Next

(* The inductive invariant holds in every state.                           *)
THEOREM IndInvHolds == Spec => []IndInv
<1>1. Init => IndInv
  BY InitInv
<1>2. IndInv /\ [Next]_vars => IndInv'
  BY NextInv
<1> QED BY <1>1, <1>2, PTL DEF Spec

-----------------------------------------------------------------------------
(* Lemma: the type invariant follows.                                      *)
LEMMA WellFormed ==
  ASSUME IndInv
  PROVE  TypeOK
<1>0. /\ Tables /\ Programs /\ WorkerInv
  BY DEF IndInv
<1>1. /\ held \subseteq Symbols /\ version \in 0 .. MaxTrades
      /\ \A i \in DOMAIN stream : stream[i].cmd \in DOMAIN cmds /\ stream[i].seen \in Seen
      /\ IsInjective(archive)
  BY <1>0 DEF Tables
<1>2. Range(archive) \subseteq DOMAIN stream
  <2>1. archive \in Seq(DOMAIN stream)
    BY <1>0 DEF Tables
  <2> QED BY <2>1, RangeOfSeq
<1>3. /\ {asset, close.asset} \subseteq Asset \cup {NoRow}
      /\ \A s \in Symbols : /\ positions[s] \in Position \cup {NoRow}
                            /\ close.positions[s] \in Seen \cup {NoRow}
  BY <1>0 DEF Tables
<1>4. /\ worker.hi <= Len(stream) /\ worker.todo \subseteq Symbols
      /\ worker.pc \in {"read", "archive", "asset", "positions", "save"}
  BY <1>0 DEF WorkerInv, Programs
<1>5. ckpt <= worker.hi
  <2>1. ckpt \in Nat /\ worker.idx \in Nat /\ worker.hi \in Nat
    BY <1>0 DEF Tables, Programs
  <2> QED BY <1>0, <2>1 DEF WorkerInv
<1>6. /\ \A s \in Steps : job.refresh[s] \in 0 .. Len(cmds)
      /\ job.result \in {"none", "blocked", "failed", "ready"}
  BY <1>0 DEF Programs, JobIn
<1> QED BY <1>1, <1>2, <1>3, <1>4, <1>5, <1>6 DEF TypeOK

(* Lemma: a row that is no older than such a query is of one of its pages. *)
LEMMA RowOfLastQuery ==
  ASSUME IndInv, NEW q \in PositionPages, LastQuery(q), NEW s \in Symbols, positions[s] # NoRow,
         positions[s].at >= IssuedAt(q)
  PROVE  \E i \in PositionPages : /\ stream[i].cmd = stream[q].cmd /\ s \in stream[i].items
                                  /\ positions[s].seen = stream[q].seen
<1>0. Tables /\ StreamInv /\ RowsInv
  BY DEF IndInv
<1>1. /\ q \in DOMAIN stream /\ PositionPages \subseteq DOMAIN stream /\ DOMAIN stream = 1 .. Len(stream)
      /\ Len(stream) \in Nat
  BY <1>0, StreamLength DEF PositionPages
<1>2. IssuedAt(q) \in Nat /\ IssuedAt(q) > 0
  BY <1>0, <1>1 DEF Tables, StreamInv, IssuedAt
<1>3. PICK i \in PositionPages : /\ s \in stream[i].items /\ positions[s].seen = stream[i].seen
                                 /\ positions[s].at = positionQueryUpdatedAt(stream[i])
  BY <1>0, <1>2 DEF RowsInv
<1>4. positions[s].at \in Int
  BY <1>0 DEF Tables, Position
<1>5. stream[i].cmd = stream[q].cmd
  BY <1>2, <1>3, <1>4 DEF LastQuery
<1>6. stream[i].seen = stream[q].seen
  <2>1. i < q \/ q < i \/ i = q
    BY <1>1
  <2> QED BY <1>0, <1>1, <1>5, <2>1 DEF StreamInv
<1> QED BY <1>3, <1>5, <1>6

(* After the last positions query is worked off, the positions of the      *)
(* ledger are what the gateway held, for any symbols, batches, clocks and  *)
(* repetitions (position_page in processReplyEnvelope); and the state is   *)
(* well formed.                                                            *)
THEOREM QueryLeavesExact == Spec => []LastQueryExact
<1>1. IndInv => LastQueryExact
  <2> SUFFICES ASSUME IndInv PROVE LastQueryExact
    OBVIOUS
  <2>0. Tables /\ LastInv
    BY DEF IndInv
  <2>1. TypeOK
    BY WellFormed
  <2>2. ASSUME worker.pc = "read", worker.hi = Len(stream), ~ skipped, NEW q \in PositionPages,
               LastQuery(q), NEW s \in Symbols
        PROVE  IF \E i \in PositionPages : stream[i].cmd = stream[q].cmd /\ s \in stream[i].items
               THEN positions[s] # NoRow /\ positions[s].seen = stream[q].seen
               ELSE positions[s] = NoRow
    <3>1. \A i \in PositionPages : Done(i) /\ Applied(i, s)
      <4>1. PositionPages \subseteq 1 .. Len(stream) /\ Len(stream) \in Nat
        BY <2>0, StreamLength DEF PositionPages
      <4> QED BY <2>2, <4>1 DEF Done, Applied, Busy
    <3>2. /\ \A i \in PositionPages : stream[i].cmd = stream[q].cmd /\ s \in stream[i].items =>
               positions[s] # NoRow /\ positions[s].at >= IssuedAt(q)
          /\ positions[s] # NoRow => positions[s].at >= IssuedAt(q)
      BY <2>0, <2>2, <3>1 DEF LastInv
    <3>3. positions[s] # NoRow =>
            \E i \in PositionPages : /\ stream[i].cmd = stream[q].cmd /\ s \in stream[i].items
                                     /\ positions[s].seen = stream[q].seen
      BY <2>2, <3>2, RowOfLastQuery
    <3> QED BY <3>2, <3>3
  <2>3. ASSUME NEW q \in PositionPages, stream[q].status = "completed",
               \A i \in PositionPages : stream[i].cmd # stream[q].cmd =>
                 positionQueryUpdatedAt(stream[i]) < cmds[stream[q].cmd].at
        PROVE  LastQuery(q)
    BY <2>3 DEF LastQuery, IssuedAt
  <2> QED BY <2>1, <2>2, <2>3 DEF LastQueryExact
<1> QED BY <1>1, IndInvHolds, PTL

(* A capture is ready only if the gateway completed the job's last query   *)
(* of every step, however many queries failed, were interrupted or were    *)
(* repeated (wait_for_refreshed_ledgers with summarizeCommandStatus).      *)
THEOREM ReadyIsAnswered == Spec => []ReadyWasAnswered
<1>1. IndInv => ReadyWasAnswered
  BY DEF IndInv, JobInv, Answered, ReadyWasAnswered
<1> QED BY <1>1, IndInvHolds, PTL

(* A ready capture holds the asset of after the close, for every skew of   *)
(* the gateway's clock that the start of the job outweighs (latestAssetSQL *)
(* and refreshed_ledger_status).                                           *)
THEOREM CapturedIsFinal == Spec => []CapturedAssetFinal
<1>1. IndInv => CapturedAssetFinal
  BY DEF IndInv, AssetInv
<1> QED BY <1>1, IndInvHolds, PTL

(* A ready capture holds exactly the positions the handler read            *)
(* (PrunePositionSnapshots).                                               *)
THEOREM CapturedWhole == Spec => []CaptureIsWhole
<1>1. IndInv => CaptureIsWhole
  BY DEF IndInv, WholeInv
<1> QED BY <1>1, IndInvHolds, PTL
=============================================================================
