------------------------------ MODULE CloseCapture ------------------------------
(***************************************************************************)
(* The capture of the broker's closing assets and positions: the job       *)
(* post_close_capture publishes queries, the gateway answers in pages, the *)
(* worker writes the pages into the ledger statement by statement, the job *)
(* polls the ledger and the archive until both satisfy it, and the API     *)
(* then copies the ledger into the broker_close snapshot.  None of them    *)
(* waits for another except through the tables.                            *)
(*                                                                         *)
(* One account, one trading day.  What the gateway holds is a set of       *)
(* symbols and a version, the number of trades so far: version stands for  *)
(* the cash and for the quantities.  Times are numbers; the nanosecond the *)
(* code adds is 1, and what happens at different instants is 2 apart.      *)
(***************************************************************************)
EXTENDS CommandStatus, Integers, SequencesExt

CONSTANTS Symbols,
          RefreshSteps,  \* refresh_steps of the job, in order
          Skews,         \* the gateway's clock minus Relay's
          FreshSlack,    \* the two seconds of refreshed_ledger_status
          CloseGap,      \* from the close to the start of the job
          BatchCount,    \* XREAD COUNT
          NoRow,
          OtherSteps,    \* queries of other clients
          MaxTrades, MaxOthers, MaxIncidents   \* bounds, see Incident

Steps == Range(RefreshSteps)

ASSUME CaptureAssumption ==
  /\ RefreshSteps \in Seq({"asset", "positions", "orders", "fills", "fees"})
  /\ {"asset", "positions"} \subseteq Steps
  /\ OtherSteps \subseteq {"asset", "positions"}
  /\ Skews \subseteq Int /\ FreshSlack \in Nat /\ BatchCount \in Nat \ {0}
  /\ CloseGap \in Nat /\ CloseGap > FreshSlack /\ MaxTrades \in Nat
  /\ \A d \in Skews : CloseGap > d + FreshSlack
  /\ NoRow \notin Int /\ NoRow \notin [seen : Int, at : Int]

VARIABLES
  held, version,  \* what the gateway holds
  clock, skew,    \* Relay's clock, and how far the gateway's is ahead of it
  cmds,           \* the queries published
  stream,         \* the reply stream
  archive,        \* raw_stream_messages: stream indices by received_at
  positions,      \* positions, by symbol
  asset,          \* the intraday row of asset_snapshots
  close,          \* the broker_close rows: of the asset, of the positions
  ckpt, worker,   \* the worker's checkpoint, and where it is
  job, api,       \* where the job and the handler of the snapshot are
  crashes, errors,
  skipped         \* the worker has given up an entry

gateway == <<held, version, skew, stream>>
ledger == <<archive, positions, asset, ckpt>>
faults == <<crashes, errors, skipped>>
vars == <<gateway, clock, cmds, ledger, close, worker, job, api, faults>>

(* What may disturb a run happens MaxIncidents times in all: a query of    *)
(* someone else, a failure of the gateway, a crash, a failing statement or *)
(* call.                                                                   *)
Others == Cardinality({c \in DOMAIN cmds : cmds[c].by = "other"})
Failed == Cardinality({i \in DOMAIN stream : stream[i].status = "failed"})
Incident == Others + Failed + crashes + errors < MaxIncidents

-----------------------------------------------------------------------------
(* The gateway (external).                                                 *)

(* A trade opens, changes or closes a position; the market has closed when *)
(* the job runs.                                                           *)
Trade(s) ==
  /\ job.pc = "idle" /\ version < MaxTrades
  /\ version' = version + 1
  /\ held' \in IF s \in held THEN {held, held \ {s}} ELSE {held \cup {s}}
  /\ UNCHANGED <<clock, skew, stream, cmds, ledger, close, worker, job, api, faults>>

Reply(c, status, code, type, last, items) ==
  [cmd |-> c, status |-> status, code |-> code, type |-> type, last |-> last,
   items |-> items, seen |-> version, produced |-> clock + skew]

Pages(c, first) ==
  LET type == expectedCommandResultType(cmds[c].step)
      all == IF cmds[c].step = "positions" THEN held ELSE {}
  IN  (IF first = {} THEN <<>> ELSE <<Reply(c, "partial", "", type, FALSE, first)>>)
        \o <<Reply(c, "completed", "", type, TRUE, all \ first)>>

Failure(c, code) == Reply(c, "failed", code, "error_result", TRUE, {})

(* Queries are answered one after the other: by what the gateway holds, in *)
(* one or two pages, by a failure, by an interruption that the gateway     *)
(* recovers from, or never.                                                *)
Answer(c) ==
  /\ ~cmds[c].answered /\ \A d \in 1 .. c - 1 : cmds[d].answered
  /\ \E first \in IF cmds[c].step = "positions" THEN SUBSET held ELSE {{}} :
       \/ stream' = stream \o Pages(c, first)
       \/ Incident /\ stream' = stream \o <<Failure(c, "QUERY_INTERRUPTED")>> \o Pages(c, first)
       \/ Incident /\ \E code \in {"BROKER_NOT_READY", "ERROR"} :
            stream' = Append(stream, Failure(c, code))
  /\ cmds' = [cmds EXCEPT ![c].answered = TRUE]
  /\ clock' = clock + 2
  /\ UNCHANGED <<held, version, skew, ledger, close, worker, job, api, faults>>

Published(by, step) == Append(cmds, [by |-> by, step |-> step, at |-> clock, answered |-> FALSE])

(* Queries of other clients and of the worker's own refresh.               *)
OtherQuery(step) ==
  /\ Incident /\ Others < MaxOthers
  /\ cmds' = Published("other", step)
  /\ clock' = clock + 2
  /\ UNCHANGED <<gateway, ledger, close, worker, job, api, faults>>

-----------------------------------------------------------------------------
(* The worker.                                                             *)

positionQueryStaleCutoff(e) == cmds[e.cmd].at
MutUpdatedAt(e) == e.produced   \* mutant: the gateway's clock is trusted
positionQueryUpdatedAt(e) ==
  IF e.produced < positionQueryStaleCutoff(e) THEN positionQueryStaleCutoff(e) + 1
  ELSE e.produced

Entry == stream[worker.idx]
At(pc, idx, todo) == worker' = [worker EXCEPT !.pc = pc, !.idx = idx, !.todo = todo]

(* One batch of the reply stream, entry by entry; then the checkpoint.     *)
Read ==
  /\ worker.pc = "read" /\ Len(stream) > worker.hi
  /\ worker' = [pc |-> "archive", idx |-> worker.hi + 1, todo |-> {},
                hi |-> IF Len(stream) > worker.hi + BatchCount
                       THEN worker.hi + BatchCount ELSE Len(stream)]
  /\ UNCHANGED <<gateway, clock, cmds, ledger, close, job, api, faults>>

EndEntry == IF worker.idx < worker.hi THEN At("archive", worker.idx + 1, {})
            ELSE At("save", 0, {})

(* An entry archived again is replaced, with a new received_at.            *)
Archived(i) ==
  LET others == IF i \in Range(archive)
                THEN RemoveAt(archive, CHOOSE k \in DOMAIN archive : archive[k] = i)
                ELSE archive
  IN  Append(others, i)

(* The rows of an asset page and of a position page: a position is dated   *)
(* by the query, so that nothing of it looks older than the query.         *)
assetFromReplyEnvelope(e) == [seen |-> e.seen, at |-> e.produced]
positionsFromReplyEnvelope(e) ==
  [s \in e.items |-> [seen |-> e.seen, at |-> positionQueryUpdatedAt(e)]]

(* The statements of an entry after it was archived: none of a failure or  *)
(* of a page of another ledger, the asset, or a page's positions and, if   *)
(* it completes the query, the deletion of what the query did not return.  *)
ArchiveRawStreamMessage ==
  /\ worker.pc = "archive"
  /\ archive' = Archived(worker.idx)
  /\ CASE Entry.status = "failed" -> EndEntry
       [] Entry.type = "asset_page" -> At("asset", worker.idx, {})
       [] Entry.type = "position_page" -> At("positions", worker.idx, Entry.items)
       [] OTHER -> EndEntry
  /\ UNCHANGED <<gateway, clock, cmds, positions, asset, ckpt, close, job, api, faults>>

UpsertAssetSnapshot ==
  /\ worker.pc = "asset"
  /\ asset' = assetFromReplyEnvelope(Entry)
  /\ EndEntry
  /\ UNCHANGED <<gateway, clock, cmds, archive, positions, ckpt, close, job, api, faults>>

(* A position gives way to one that is at least as recent.                 *)
upsertPositionSQL(old, new) == IF old = NoRow \/ old.at <= new.at THEN new ELSE old

UpsertPosition(s) ==
  /\ worker.pc = "positions" /\ s \in worker.todo
  /\ positions' = [positions EXCEPT ![s] = upsertPositionSQL(@, positionsFromReplyEnvelope(Entry)[s])]
  /\ At("positions", worker.idx, worker.todo \ {s})
  /\ UNCHANGED <<gateway, clock, cmds, archive, asset, ckpt, close, job, api, faults>>

PartialPageDone ==
  /\ worker.pc = "positions" /\ worker.todo = {} /\ Entry.status # "completed"
  /\ EndEntry
  /\ UNCHANGED <<gateway, clock, cmds, ledger, close, job, api, faults>>

deleteStalePositionsSQL(row, cutoff) == IF row # NoRow /\ row.at < cutoff THEN NoRow ELSE row

DeleteStalePositions ==
  /\ worker.pc = "positions" /\ worker.todo = {} /\ Entry.status = "completed"
  /\ positions' = [s \in Symbols |->
                     deleteStalePositionsSQL(positions[s], positionQueryStaleCutoff(Entry))]
  /\ EndEntry
  /\ UNCHANGED <<gateway, clock, cmds, archive, asset, ckpt, close, job, api, faults>>

(* A statement fails: the rest of its entry is skipped for good.           *)
StatementFails ==
  /\ worker.pc \in {"archive", "asset", "positions"}
  /\ Incident /\ errors' = errors + 1
  /\ skipped' = TRUE
  /\ EndEntry
  /\ UNCHANGED <<gateway, clock, cmds, ledger, close, job, api, crashes>>

SaveCheckpoint ==
  /\ worker.pc = "save"
  /\ ckpt' = worker.hi
  /\ At("read", 0, {})
  /\ UNCHANGED <<gateway, clock, cmds, archive, positions, asset, close, job, api, faults>>

(* The worker stops between two statements and starts again from its       *)
(* checkpoint.                                                             *)
WorkerCrash ==
  /\ Incident /\ crashes' = crashes + 1
  /\ worker' = [pc |-> "read", idx |-> 0, todo |-> {}, hi |-> ckpt]
  /\ UNCHANGED <<gateway, clock, cmds, ledger, close, job, api, errors, skipped>>

-----------------------------------------------------------------------------
(* The job.                                                                *)

(* Cron starts the job after the close.                                    *)
StartJob ==
  /\ job.pc = "idle"
  /\ clock' = clock + CloseGap
  /\ job' = [pc |-> "publish", start |-> clock', todo |-> RefreshSteps, again |-> FALSE,
             lost |-> FALSE, refresh |-> [s \in Steps |-> 0], fresh |-> FALSE,
             verdict |-> [s \in Steps |-> "pending"], result |-> "none"]
  /\ UNCHANGED <<gateway, cmds, ledger, close, worker, api, faults>>

(* start_account_flow, and the repetition of failed queries: one query     *)
(* after the other.  A call that fails may or may not have published.      *)
Refreshed(receipt) ==
  LET step == Head(job.todo)
      lost == job.lost \/ (receipt = 0 /\ ~job.again /\ step \in {"asset", "positions"})
      last == Len(job.todo) = 1
  IN  job' = [job EXCEPT !.todo = Tail(@), !.refresh[step] = receipt, !.lost = lost,
                         !.pc = IF ~last THEN "publish" ELSE IF lost THEN "ended" ELSE "asset",
                         !.result = IF last /\ lost THEN "blocked" ELSE @]

Refresh ==
  /\ job.pc = "publish"
  /\ cmds' = Published("job", Head(job.todo))
  /\ clock' = clock + 2
  /\ Refreshed(Len(cmds) + 1)
  /\ UNCHANGED <<gateway, ledger, close, worker, api, faults>>

RefreshFails ==
  /\ job.pc = "publish"
  /\ Incident /\ errors' = errors + 1
  /\ cmds' \in {cmds, Published("job", Head(job.todo))}
  /\ clock' = clock + 2
  /\ Refreshed(0)
  /\ UNCHANGED <<gateway, ledger, close, worker, api, crashes, skipped>>

GetLatestAsset ==
  IF close.asset # NoRow /\ (asset = NoRow \/ close.asset.at >= asset.at)
  THEN close.asset ELSE asset
ListPositions == [s \in Symbols |-> IF positions[s] = NoRow THEN NoRow ELSE positions[s].seen]

(* refreshed_ledger_status: the asset is recent, and so is some position,  *)
(* unless there is none.                                                   *)
MutFresh(row) == row # NoRow   \* mutant: any row is fresh
Fresh(row) == row # NoRow /\ row.at >= job.start - FreshSlack
AssetFresh == Fresh(GetLatestAsset)
PositionsFresh ==
  \/ \A s \in Symbols : positions[s] = NoRow
  \/ \E s \in Symbols : Fresh(positions[s])

PollAsset ==
  /\ job.pc = "asset"
  /\ job' = [job EXCEPT !.pc = "positions", !.fresh = AssetFresh]
  /\ UNCHANGED <<gateway, clock, cmds, ledger, close, worker, api, faults>>

PollPositions ==
  /\ job.pc = "positions"
  /\ job' = [job EXCEPT !.pc = "status", !.todo = RefreshSteps,
                        !.fresh = @ /\ PositionsFresh]
  /\ UNCHANGED <<gateway, clock, cmds, ledger, close, worker, api, faults>>

(* refreshed_query_terminal_status and retryable_query_failure_steps: the  *)
(* verdict on the last query of a step, by its replies in the archive.     *)
RepliesOf(c) ==
  [k \in {k \in DOMAIN archive : stream[archive[k]].cmd = c} |-> stream[archive[k]]]

Verdict(step) ==
  LET c == job.refresh[step]
      rs == RepliesOf(c)
      state == summarizeCommandStatus(step, rs)
  IN  IF c = 0 THEN "invalid"
      ELSE IF state = "failed" /\ rs[Max(DOMAIN rs)].code = "BROKER_NOT_READY" THEN "not_ready"
      ELSE state

Noted(v) == job' = [job EXCEPT !.verdict[Head(job.todo)] = v, !.todo = Tail(@),
                               !.pc = IF Len(job.todo) = 1 THEN "decide" ELSE "status"]

PollStatus ==
  /\ job.pc = "status"
  /\ Noted(Verdict(Head(job.todo)))
  /\ UNCHANGED <<gateway, clock, cmds, ledger, close, worker, api, faults>>

(* A lookup fails: what it was to show is not shown, and the job goes on.  *)
LookupFails ==
  /\ \/ job.pc = "asset" /\ job' = [job EXCEPT !.pc = "positions", !.fresh = FALSE]
     \/ job.pc = "positions" /\ job' = [job EXCEPT !.pc = "status", !.todo = RefreshSteps,
                                                   !.fresh = FALSE]
     \/ job.pc = "status" /\ job.refresh[Head(job.todo)] # 0 /\ Noted("pending")
  /\ Incident /\ errors' = errors + 1
  /\ UNCHANGED <<gateway, clock, cmds, ledger, close, worker, api, crashes, skipped>>

(* wait_for_refreshed_ledgers, at the end of a round.                      *)
Satisfied == job.fresh /\ \A s \in Steps : job.verdict[s] = "completed"
Failures == {s \in Steps : job.verdict[s] \in {"failed", "not_ready", "invalid"}}
Retryable == \A s \in Failures : job.verdict[s] = "not_ready"

(* The lookups of a round are forgotten after it.                          *)
NewRound == [job EXCEPT !.fresh = FALSE, !.verdict = [s \in Steps |-> "pending"]]

Decided(pc, result) == job' = [NewRound EXCEPT !.pc = pc, !.result = result]

PollAgain ==
  /\ job.pc = "decide" /\ ~Satisfied /\ Retryable
  /\ job' = [NewRound EXCEPT !.pc = "asset"]
  /\ UNCHANGED <<gateway, clock, cmds, ledger, close, worker, api, faults>>

RetryQueries ==
  /\ job.pc = "decide" /\ ~Satisfied /\ Failures # {} /\ Retryable
  /\ job' = [NewRound EXCEPT !.pc = "publish", !.again = TRUE,
                             !.todo = SelectSeq(RefreshSteps, LAMBDA s : s \in Failures)]
  /\ UNCHANGED <<gateway, clock, cmds, ledger, close, worker, api, faults>>

(* A failure that is not worth a retry, or the deadline.                   *)
BlockSnapshot ==
  /\ job.pc = "decide" /\ ~Satisfied /\ ~Retryable
  /\ Decided("ended", "blocked")
  /\ UNCHANGED <<gateway, clock, cmds, ledger, close, worker, api, faults>>

DeadlinePasses ==
  /\ job.pc = "decide" /\ ~Satisfied /\ Retryable
  /\ Decided("ended", "blocked")
  /\ UNCHANGED <<gateway, clock, cmds, ledger, close, worker, api, faults>>

(* record_settlement_snapshot.                                             *)
RequestSnapshot ==
  /\ job.pc = "decide" /\ Satisfied
  /\ Decided("wait", "none")
  /\ api' = [pc |-> "asset", at |-> clock, asset |-> NoRow,
             positions |-> [s \in Symbols |-> NoRow], todo |-> {}, err |-> FALSE]
  /\ UNCHANGED <<gateway, clock, cmds, ledger, close, worker, faults>>

-----------------------------------------------------------------------------
(* The API: buildAccountSettlementSnapshot of a broker_close.              *)

ReadAsset ==
  /\ api.pc = "asset"
  /\ api' = [api EXCEPT !.pc = "positions", !.asset = GetLatestAsset,
                        !.err = GetLatestAsset = NoRow]
  /\ UNCHANGED <<gateway, clock, cmds, ledger, close, worker, job, faults>>

(* An account is ready for the settlement if its capture is reported       *)
(* without errors; its errors do not fail the job, but run-post-close-     *)
(* pipeline.sh leaves the account out.                                     *)
Respond(err) == /\ api' = [api EXCEPT !.pc = "idle", !.err = err]
                /\ Decided("ended", IF err THEN "failed" ELSE "ready")

ReadPositions ==
  /\ api.pc = "positions" /\ ~api.err
  /\ api' = [api EXCEPT !.pc = "write_asset", !.positions = ListPositions,
                        !.todo = {s \in Symbols : positions[s] # NoRow}]
  /\ UNCHANGED <<gateway, clock, cmds, ledger, close, worker, job, faults>>

(* The rows of the account, the day and broker_close are replaced.         *)
upsertAssetSnapshotSQL(row) == [close EXCEPT !.asset = row]
upsertPositionSnapshotSQL(s, row) == [close EXCEPT !.positions[s] = row]

UpsertAssetSnapshotForDate ==
  /\ api.pc = "write_asset"
  /\ close' = upsertAssetSnapshotSQL([seen |-> api.asset.seen, at |-> api.at])
  /\ api' = [api EXCEPT !.pc = "write_positions"]
  /\ UNCHANGED <<gateway, clock, cmds, ledger, worker, job, faults>>

UpsertPositionSnapshot(s) ==
  /\ api.pc = "write_positions" /\ s \in api.todo
  /\ close' = upsertPositionSnapshotSQL(s, api.positions[s])
  /\ api' = [api EXCEPT !.todo = @ \ {s}]
  /\ UNCHANGED <<gateway, clock, cmds, ledger, worker, job, faults>>

(* Only what was captured without an error is pruned to what was read.     *)
MutPrune ==   \* mutant: nothing is pruned
  /\ api.pc = "write_positions" /\ api.todo = {} /\ ~api.err
  /\ Respond(FALSE)
  /\ UNCHANGED <<gateway, clock, cmds, ledger, close, worker, faults>>
PrunePositionSnapshots ==
  /\ api.pc = "write_positions" /\ api.todo = {} /\ ~api.err
  /\ close' = [close EXCEPT !.positions = [s \in Symbols |->
                 IF api.positions[s] = NoRow THEN NoRow ELSE @[s]]]
  /\ Respond(FALSE)
  /\ UNCHANGED <<gateway, clock, cmds, ledger, worker, faults>>

ReportErrors ==
  /\ api.err
  /\ \/ api.pc = "positions"
     \/ api.pc = "write_positions" /\ api.todo = {}
  /\ Respond(TRUE)
  /\ UNCHANGED <<gateway, clock, cmds, ledger, close, worker, faults>>

(* A statement of the capture fails; the handler goes on with the next.    *)
CaptureFails ==
  /\ Incident /\ errors' = errors + 1
  /\ \/ api.pc = "asset" /\ api' = [api EXCEPT !.pc = "positions", !.err = TRUE] /\ UNCHANGED job
     \/ api.pc = "positions" /\ Respond(TRUE)
     \/ api.pc = "write_asset" /\ api' = [api EXCEPT !.pc = "write_positions", !.err = TRUE]
        /\ UNCHANGED job
     \/ /\ api.pc = "write_positions" /\ UNCHANGED job
        /\ \E s \in api.todo : api' = [api EXCEPT !.todo = @ \ {s}, !.err = TRUE]
     \/ api.pc = "write_positions" /\ api.todo = {} /\ ~api.err /\ Respond(TRUE)
  /\ UNCHANGED <<gateway, clock, cmds, ledger, close, worker, crashes, skipped>>

(* The API stops, or the job's request times out and is cancelled.         *)
RequestLost ==
  /\ job.pc = "wait" /\ Incident /\ crashes' = crashes + 1
  /\ Respond(TRUE)
  /\ UNCHANGED <<gateway, clock, cmds, ledger, close, worker, errors, skipped>>

-----------------------------------------------------------------------------
Worker == \/ Read \/ ArchiveRawStreamMessage \/ UpsertAssetSnapshot
          \/ \E s \in Symbols : UpsertPosition(s)
          \/ PartialPageDone \/ DeleteStalePositions \/ SaveCheckpoint
Job == \/ Refresh \/ PollAsset \/ PollPositions \/ PollStatus
       \/ PollAgain \/ RetryQueries \/ BlockSnapshot \/ RequestSnapshot
Api == \/ ReadAsset \/ ReadPositions \/ UpsertAssetSnapshotForDate
       \/ \E s \in Symbols : UpsertPositionSnapshot(s)
       \/ PrunePositionSnapshots \/ ReportErrors
Environment == \/ \E s \in Symbols : Trade(s)
               \/ \E c \in DOMAIN cmds : Answer(c)
               \/ \E s \in OtherSteps : OtherQuery(s)
               \/ StartJob \/ DeadlinePasses
Faults == \/ StatementFails \/ WorkerCrash \/ RefreshFails \/ LookupFails
          \/ CaptureFails \/ RequestLost

(* The ledger starts with what an earlier query brought, and broker_close  *)
(* with what an earlier run of the job captured of it; a first run, with   *)
(* no such rows, has less to get wrong.                                    *)
Init ==
  /\ held \in SUBSET Symbols /\ version = 0
  /\ clock = 2 /\ skew \in Skews
  /\ cmds = <<>> /\ stream = <<>> /\ archive = <<>>
  /\ positions = [s \in Symbols |-> IF s \in held THEN [seen |-> 0, at |-> 0] ELSE NoRow]
  /\ asset = [seen |-> 0, at |-> 0]
  /\ close = [asset |-> asset, positions |-> ListPositions]
  /\ ckpt = 0 /\ worker = [pc |-> "read", idx |-> 0, todo |-> {}, hi |-> 0]
  /\ job = [pc |-> "idle", start |-> 0, todo |-> <<>>, again |-> FALSE, lost |-> FALSE,
            refresh |-> [s \in Steps |-> 0], fresh |-> FALSE,
            verdict |-> [s \in Steps |-> "pending"], result |-> "none"]
  /\ api = [pc |-> "idle", at |-> 0, asset |-> NoRow,
            positions |-> [s \in Symbols |-> NoRow], todo |-> {}, err |-> FALSE]
  /\ crashes = 0 /\ errors = 0 /\ skipped = FALSE

Next == Worker \/ Job \/ Api \/ Environment \/ Faults

Spec == Init /\ [][Next]_vars

-----------------------------------------------------------------------------
(* Rows of asset_snapshots and of positions, by the version of what the    *)
(* gateway held that they show and by their time.                          *)
Seen == 0 .. version
Asset == [seen : Seen, at : Int]
Position == [seen : Seen, at : Int]

(* The state is well formed: a row is never from the future of the         *)
(* gateway, an archived entry is in the stream and archived once, and the  *)
(* checkpoint is never past what the worker has read.                      *)
TypeOK ==
  /\ held \subseteq Symbols /\ version \in 0 .. MaxTrades
  /\ \A i \in DOMAIN stream : stream[i].cmd \in DOMAIN cmds /\ stream[i].seen \in Seen
  /\ IsInjective(archive) /\ Range(archive) \subseteq DOMAIN stream
  /\ {asset, close.asset} \subseteq Asset \cup {NoRow}
  /\ \A s \in Symbols : /\ positions[s] \in Position \cup {NoRow}
                         /\ close.positions[s] \in Seen \cup {NoRow}
  /\ ckpt <= worker.hi /\ worker.hi <= Len(stream) /\ worker.todo \subseteq Symbols
  /\ worker.pc \in {"read", "archive", "asset", "positions", "save"}
  /\ \A s \in Steps : job.refresh[s] \in 0 .. Len(cmds)
  /\ job.result \in {"none", "blocked", "failed", "ready"}

(* The ledger after a query.  The last positions query that completed,     *)
(* issued after the time on every other position page, leaves exactly what *)
(* the gateway held: pages, their repetition after a crash and the clock   *)
(* of the gateway delete nothing of the query and leave nothing of an      *)
(* earlier one (position_page in processReplyEnvelope); and TypeOK.        *)
PositionPages == {i \in DOMAIN stream : stream[i].type = "position_page"}
LastQueryExact ==
  /\ TypeOK
  /\ worker.pc = "read" /\ worker.hi = Len(stream) /\ ~skipped =>
       \A q \in PositionPages :
         /\ stream[q].status = "completed"
         /\ \A i \in PositionPages : stream[i].cmd # stream[q].cmd =>
              positionQueryUpdatedAt(stream[i]) < cmds[stream[q].cmd].at
         => LET answer == {i \in PositionPages : stream[i].cmd = stream[q].cmd}
            IN  \A s \in Symbols :
                  IF \E i \in answer : s \in stream[i].items
                  THEN positions[s] # NoRow /\ positions[s].seen = stream[q].seen
                  ELSE positions[s] = NoRow

(* A job is satisfied only if the gateway completed its last query of      *)
(* every step, whatever failed, was repeated or was interrupted before     *)
(* (wait_for_refreshed_ledgers with summarizeCommandStatus).               *)
ReadyWasAnswered ==
  job.result = "ready" => \A s \in Steps :
    \E i \in Range(archive) : stream[i].cmd = job.refresh[s] /\ stream[i].status = "completed"

(* A successful capture holds the asset of after the close, unless the     *)
(* worker repeated old pages while it ran (latestAssetSQL, the freshness   *)
(* check, and the broker_close row of an earlier run).                     *)
CapturedAssetFinal ==
  job.result = "ready" /\ crashes = 0 => close.asset.seen = version

(* A successful capture is exactly the positions the handler read: nothing *)
(* of an earlier capture that failed half-way or read other positions      *)
(* (PrunePositionSnapshots).                                               *)
CaptureIsWhole == job.result = "ready" => close.positions = api.positions
=============================================================================
