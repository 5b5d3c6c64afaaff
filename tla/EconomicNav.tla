---------------------------- MODULE EconomicNav ----------------------------
(***************************************************************************)
(* The economic NAV of one account over several days.  Trades, fund        *)
(* redemptions that are paid days later, reverse repo, deposits and income *)
(* change the broker's cash and positions, also before the open snapshot   *)
(* and after the close; operators enter the cash movements into the cash   *)
(* ledger, sometimes wrongly, twice or not at all; CalculateEconomicNAV    *)
(* can be asked for any closed day at any time and accepts the day or      *)
(* blocks it.  Nav(d, readable) is its answer in the current state, where  *)
(* the accruals of the reverse repo may not be readable; what becomes of   *)
(* the persisted answers is the subject of NavBook.  Amounts are integers. *)
(***************************************************************************)
EXTENDS Integers, Sequences, FiniteSets, FiniteSetsExt, SequencesExt

CONSTANTS D,            \* trading days
          W,            \* the warning threshold
          P,            \* principal of one reverse repo
          Cash0, Pos0,  \* the account at the start
          Gains, Deposits, Incomes,
          Redemptions,  \* [est, actual]: estimated and paid settlement
          Forms,        \* how an entry may be filled in
          MaxMoves, MaxOdd

ASSUME EconomicNavAssumption ==
  /\ D \in Nat \ {0} /\ W \in Nat /\ P \in Nat \ {0} /\ MaxMoves \in Nat /\ MaxOdd \in Nat
  /\ Gains \cup Deposits \cup Incomes \subseteq Int

VARIABLES day, phase,  \* the current day: before its open snapshot, open, closed
          cash, pos,   \* the broker's books
          book,        \* what was observed of each day
          flows,       \* what moved the cash, as a sequence
          entries,     \* the cash ledger, as a sequence
          moves, odd   \* bounds

vars == <<day, phase, cash, pos, book, flows, entries, moves, odd>>

Days == 1..D
Abs(x) == IF x < 0 THEN - x ELSE x
NewDay(c, p, seen) ==
  [openSeen |-> seen, startCash |-> c, openCash |-> c, openPos |-> p, closeCash |-> 0, closePos |-> 0,
   endCash |-> 0, gain |-> 0, est |-> 0, actual |-> 0, final |-> FALSE, lends |-> <<>>, accruals |-> {},
   priced |-> FALSE, fees |-> FALSE, basis |-> "none"]
closed == phase = "closed"
Counted == moves < MaxMoves /\ moves' = moves + 1
Ordinary(is) == IF is THEN UNCHANGED odd ELSE odd < MaxOdd /\ odd' = odd + 1
Moving == phase = "open" /\ Counted

-----------------------------------------------------------------------------
(* The day: what the contribution view attributes to it (Attribution), and *)
(* what happens to the cash.                                               *)
Trade(g) ==
  /\ Moving
  /\ pos' = pos + g /\ book' = [book EXCEPT ![day].gain = @ + g]
  /\ UNCHANGED <<day, phase, cash, flows, entries, odd>>

(* The shares are gone, the settlement is still to come: its estimate is   *)
(* the fund's part of the day's contribution.                              *)
Redeem(r) ==
  /\ Moving /\ book[day].est = 0
  /\ pos' = pos - r.est
  /\ book' = [book EXCEPT ![day].est = r.est, ![day].actual = r.actual]
  /\ UNCHANGED <<day, phase, cash, flows, entries, odd>>

(* The broker may go on showing the lent cash or take it out.              *)
Lend(mode) ==
  /\ Moving
  /\ cash' = IF mode = "separate" THEN cash - P ELSE cash
  /\ book' = [book EXCEPT ![day].lends = Append(@, mode)]
  /\ UNCHANGED <<day, phase, pos, flows, entries, odd>>

Flow(class, amount, src, part) ==
  [d |-> day, class |-> class, amount |-> amount, src |-> src, part |-> part, at |-> phase]

Move(class, amount) ==
  /\ Counted /\ Ordinary(phase = "open")
  /\ cash' = cash + amount /\ flows' = Append(flows, Flow(class, amount, 0, "all"))
  /\ UNCHANGED <<day, phase, pos, book, entries>>

(* A settlement is paid at once or in two parts, at any time of a later    *)
(* day.                                                                    *)
Paid(s) == {f \in ToSet(flows) : f.src = s}
PartAmount(s, part) == CASE part = "all" -> book[s].actual
                         [] part = "first" -> 2 [] OTHER -> book[s].actual - 2
Receive(s, part) ==
  /\ Counted
  /\ s < day /\ book[s].actual # 0
  /\ IF part = "second" THEN \E f \in Paid(s) : f.part = "first" ELSE Paid(s) = {}
  /\ \A f \in Paid(s) : f.part # part
  /\ part # "all" => book[s].est > 2
  /\ Ordinary(phase # "before")
  /\ cash' = cash + PartAmount(s, part)
  /\ flows' = Append(flows, Flow("receipt", PartAmount(s, part), s, part))
  /\ UNCHANGED <<day, phase, pos, book, entries>>

(* Prices or fees may be missing when the day is valued.                   *)
Close(priced, fees) ==
  /\ phase = "open" /\ phase' = "closed"
  /\ Ordinary(priced /\ fees)
  /\ book' = [book EXCEPT ![day].closeCash = cash, ![day].closePos = pos,
                          ![day].priced = priced, ![day].fees = fees]
  /\ UNCHANGED <<day, cash, pos, flows, entries, moves>>

(* The cash the broker shows for the lends of a day, or not.               *)
Lent(d) == P * Len(SelectSeq(book[d].lends, LAMBDA m : m = "separate"))

(* Overnight the lent cash comes back.                                     *)
NextDay ==
  /\ closed /\ day < D
  /\ cash' = cash + Lent(day)
  /\ book' = [book EXCEPT ![day].endCash = cash, ![day + 1] = NewDay(cash + Lent(day), pos, FALSE)]
  /\ day' = day + 1 /\ phase' = "before"
  /\ UNCHANGED <<pos, flows, entries, moves, odd>>

(* The open snapshot, which may be missed.                                 *)
Open(seen) ==
  /\ phase = "before" /\ phase' = "open"
  /\ Ordinary(seen)
  /\ book' = [book EXCEPT ![day].openSeen = seen, ![day].openCash = cash]
  /\ UNCHANGED <<day, cash, pos, flows, entries, moves>>

-----------------------------------------------------------------------------
(* The cash ledger: CreateCashLedgerEntry, ConfirmCashLedgerEntry,         *)
(* VoidCashLedgerEntry.  A form is [kind, stage, released, linked, timed]; *)
(* an entry without a stage is an initial receipt.                         *)
Released(f) == CASE f.part = "all" -> book[f.src].est
                 [] f.part = "first" -> 2 [] OTHER -> book[f.src].est - 2

(* What is entered describes what was paid.                                *)
Fits(f, e) ==
  f.class = "receipt" =>
    /\ IF book[f.src].est > 0 THEN e.kind \in {"refund", "final"} ELSE e.kind = "final"
    /\ e.released \/ f.part = "all"
    /\ e.stage = "supplemental" => f.part = "second" /\ e.linked
Exact(f, form) == form.timed /\ Fits(f, form)

Created(f) == {i \in DOMAIN entries : entries[i].flow = f /\ entries[i].status # "voided"}

(* Without a time an entry gets that of its creation, without a status it  *)
(* is a draft.                                                             *)
normalizeCashLedgerEntry(n, form) ==
  LET f == flows[n]
  IN [flow |-> n, kind |-> form.kind, stage |-> form.stage, released |-> form.released,
      linked |-> form.linked, status |-> "draft", rel |-> IF f.class = "receipt" THEN Released(f) ELSE 0,
      late |-> IF form.timed THEN f.at = "closed" ELSE f.d < day \/ closed]
createCashLedgerEntrySQL(entry) == entries' = Append(entries, entry)

CreateEntry(n, form) ==
  LET f == flows[n]
      odd1 == ~ Exact(f, form) \/ Created(n) # {}
  IN /\ Len(entries) < MaxMoves /\ Cardinality(Created(n)) < 2
     /\ f.class # "receipt" => form.kind = "other"
     /\ Ordinary(~ odd1)
     /\ createCashLedgerEntrySQL(normalizeCashLedgerEntry(n, form))
     /\ UNCHANGED <<day, phase, cash, pos, book, flows, moves>>

(* transitionCashLedgerEntry: one UPDATE with the statuses it may leave.   *)
transitionCashLedgerEntry(i, from, to) ==
  entries[i].status \in from /\ entries' = [entries EXCEPT ![i].status = to]
Confirm(i) ==
  /\ transitionCashLedgerEntry(i, {"draft"}, "confirmed")
  /\ UNCHANGED <<day, phase, cash, pos, book, flows, moves, odd>>
Void(i) ==
  /\ transitionCashLedgerEntry(i, {"draft", "confirmed"}, "voided")
  /\ Ordinary(FALSE)
  /\ UNCHANGED <<day, phase, cash, pos, book, flows, moves>>

(* The repo orders of a day: the fills of an order are one group, and its  *)
(* summary row counts only as long as there is no fill.                    *)
reverseRepoGroups(d) == DOMAIN book[d].lends
calculateRepoGroup(g) == [order |-> g, principal |-> P]
ReverseRepoAccrual == [order : Nat, principal : Nat]

(* reverse_repo_accruals: one row per order, replaced when it is persisted *)
(* again.                                                                  *)
upsertReverseRepoAccrualSQL(rows, new) ==
  {r \in rows : \A a \in new : a.order # r.order} \cup new
UpsertReverseRepoAccrual(d, new) ==
  book' = [book EXCEPT ![d].accruals = upsertReverseRepoAccrualSQL(@, new)]
ListReverseRepoAccruals(d) == book[d].accruals

(* CalculateReverseRepo with persist, one statement per order: if one      *)
(* fails, the orders before it are persisted.                              *)
PersistAccruals(d, done) ==
  /\ d <= day /\ done # {}
  /\ UpsertReverseRepoAccrual(d, {calculateRepoGroup(g) : g \in done})
  /\ UNCHANGED <<day, phase, cash, pos, flows, entries, moves, odd>>

(* UpsertETFSettlementFinalization, before anything was paid: the carry    *)
(* is known, and the contribution of that day with it.                     *)
Finalize(s) ==
  /\ s <= day /\ book[s].actual # 0 /\ ~ book[s].final /\ Paid(s) = {} /\ (s < day \/ closed)
  /\ book' = [book EXCEPT ![s].final = TRUE, ![s].est = book[s].actual,
                          ![s].gain = @ + book[s].actual - book[s].est]
  /\ UNCHANGED <<day, phase, cash, pos, flows, entries, moves, odd>>

(* What the broker owes of the redemptions up to a day.                    *)
Outstanding(d) ==
  MapThenSumSet(LAMBDA s : book[s].est, 1..d)
    - MapThenSumSet(Released, {f \in ToSet(flows) : f.class = "receipt" /\ f.d <= d})

(* The broker's statement of a past day is imported, once, with what it    *)
(* owes (an audit by hand), or by the tool, which enters nothing owed and  *)
(* places the deposits of a day before or after the open snapshot.  The    *)
(* entry that it makes of the deposits is one like those of an operator.   *)
Deposited(d) ==
  MapThenSumSet(LAMBDA n : flows[n].amount, {n \in DOMAIN flows : flows[n].class = "ext" /\ flows[n].d = d})
inferBrokerFundsFlow(d) ==
  Deposited(d) # 0 => book[d].openSeen /\ book[d].openCash - book[d].startCash \in {0, Deposited(d)}
ImportBasis(d, by) ==
  /\ d < day /\ book[d].basis = "none"
  /\ by = "tool" => d > 1 /\ inferBrokerFundsFlow(d)
  /\ book' = [book EXCEPT ![d].basis = by]
  /\ UNCHANGED <<day, phase, cash, pos, flows, entries, moves, odd>>

-----------------------------------------------------------------------------
ListCashLedgerEntries(d, class, status) ==
  {i \in DOMAIN entries : /\ entries[i].status = status
                          /\ flows[entries[i].flow].d = d /\ flows[entries[i].flow].class = class}
Confirmed(d, class) == ListCashLedgerEntries(d, class, "confirmed")
Amount(i) == flows[entries[i].flow].amount
SumOf(I) == MapThenSumSet(Amount, I)

(* classifyETFSettlementReceipts.  An entry that names no kind is a        *)
(* generic adjustment; one that cannot be right blocks the day.            *)
Source(i) == book[flows[entries[i].flow].src].est
ReleasedBy(i) == IF entries[i].released THEN entries[i].rel ELSE Source(i)
Supplemental(i) == entries[i].stage = "supplemental"
ValidReceipt(i) ==
  /\ Supplemental(i) => entries[i].released /\ entries[i].linked
  /\ IF entries[i].kind = "refund"
     THEN Source(i) > 0 /\ ReleasedBy(i) \in 0..Source(i) /\ Amount(i) > 0
     ELSE /\ Source(i) # 0 /\ Amount(i) # 0 /\ Abs(ReleasedBy(i)) <= Abs(Source(i))
          /\ ReleasedBy(i) = 0 \/ (ReleasedBy(i) > 0 <=> Source(i) > 0)

MutReceipts(d) ==   \* mutant: what arrived after the close is not told apart
  LET named == {i \in Confirmed(d, "receipt") : entries[i].kind # "other"}
      valid == {i \in named : ValidReceipt(i)}
  IN [adjustment |-> SumOf(Confirmed(d, "receipt") \ valid), invalid |-> named # valid,
      released |-> MapThenSumSet(ReleasedBy, valid), amount |-> SumOf(valid), late |-> 0]
MutVariance(d) ==   \* mutant: a receipt releases what was paid
  LET named == {i \in Confirmed(d, "receipt") : entries[i].kind # "other"}
      valid == {i \in named : ValidReceipt(i)}
  IN [adjustment |-> SumOf(Confirmed(d, "receipt") \ valid), invalid |-> named # valid,
      released |-> SumOf(valid), amount |-> SumOf(valid),
      late |-> SumOf({i \in valid : entries[i].late})]
Receipts(d) ==
  LET named == {i \in Confirmed(d, "receipt") : entries[i].kind # "other"}
      valid == {i \in named : ValidReceipt(i)}
  IN [adjustment |-> SumOf(Confirmed(d, "receipt") \ valid), invalid |-> named # valid,
      released |-> MapThenSumSet(ReleasedBy, valid), amount |-> SumOf(valid),
      late |-> SumOf({i \in valid : entries[i].late})]

(* confirmedBrokerAssetBasis.  The statement's outstanding settlements     *)
(* must move as the view and the receipts say.                             *)
Owed(d) == IF book[d].basis = "tool" THEN 0 ELSE Outstanding(d)
OwedBefore(d) == IF book[d].basis = "tool" \/ d = 1 THEN 0 ELSE Outstanding(d - 1)
BasisValid(d, released) == Owed(d) - OwedBefore(d) = book[d].est - released

(* GetDailyPerformance: without an open snapshot, the close before; that   *)
(* carries the lent principal whether or not the cash still shows it.      *)
NetAsset(d) == book[d].closeCash + book[d].closePos + P * Len(book[d].lends)
GetDailyPerformance(d) ==
  [openNetAsset |-> IF book[d].openSeen \/ d = 1 THEN book[d].openCash + book[d].openPos
                    ELSE NetAsset(d - 1)]
OpenEconomicNAV(d) == GetDailyPerformance(d).openNetAsset

(* The snapshots of a day: that of the open, unless it was missed, that of *)
(* the close, and the broker's statement.                                  *)
GetAssetPositionObservation(d, type) ==
  LET b == book[d]
  IN CASE type = "open" -> IF b.openSeen THEN {[cash |-> b.openCash, pos |-> b.openPos]} ELSE {}
       [] type = "close" -> {[cash |-> b.closeCash, pos |-> b.closePos]}
       [] OTHER -> IF b.basis = "none" THEN {} ELSE {[cash |-> b.endCash + Lent(d), pos |-> b.closePos]}
Total(observation) == MapThenSumSet(LAMBDA o : o.cash + o.pos, observation)

(* reverseRepoForEconomicNAV: accruals, or a preview when there are none;  *)
(* if they cannot be read, the day is valued as one without reverse repo.  *)
(* Nothing writes an accrual of the status voided.                         *)
Orders(d, readable) ==
  IF ~ readable THEN {}
  ELSE IF ListReverseRepoAccruals(d) # {} THEN ListReverseRepoAccruals(d)
  ELSE {calculateRepoGroup(g) : g \in reverseRepoGroups(d)}
Principal(d, readable) == MapThenSumSet(LAMBDA a : a.principal, Orders(d, readable))

(* resolveReverseRepoPrincipal: the better of the two sums is taken even   *)
(* when it is too close a call.                                            *)
Treatment(principal, without) ==
  LET with == without + principal
      better == IF Abs(with) < Abs(without) THEN "separate" ELSE "embedded"
      close == 4 * Abs(Abs(with) - Abs(without)) <= Max({4 * W, principal})
  IN [name |-> IF principal = 0 THEN "none" ELSE IF close THEN "ambiguous" ELSE better,
      receivable |-> IF better = "separate" THEN principal ELSE 0]

(* CalculateEconomicNAV, with the receipts r.  The statement of the        *)
(* broker, once it is found consistent, takes the place of the observed    *)
(* opening and close, and it already has what was paid after the close.    *)
Basis(d, r) == GetAssetPositionObservation(d, "reconcile") # {} /\ BasisValid(d, r.released)
OpenNAV(d, r) ==
  LET seen == GetAssetPositionObservation(d, "open")
  IN IF Basis(d, r) THEN book[d].startCash + book[d].openPos + OwedBefore(d)
     ELSE (IF seen # {} THEN Total(seen) ELSE OpenEconomicNAV(d)) + r.released
Visible(d, r) ==
  IF Basis(d, r) THEN Total(GetAssetPositionObservation(d, "reconcile")) + Owed(d)
  ELSE Total(GetAssetPositionObservation(d, "close"))
Settling(d, r) == IF Basis(d, r) THEN 0 ELSE r.late + book[d].est
External(d, r) == SumOf(Confirmed(d, "ext")) + r.adjustment
Attributed(d, r) == book[d].gain + SumOf(Confirmed(d, "income")) + r.amount - r.released

(* What blocks a day, and what keeps it from being final.                  *)
Blocked(d, r, residual) ==
  \/ r.invalid \/ (book[d].basis # "none" /\ ~ Basis(d, r)) \/ ~ book[d].priced
  \/ Abs(residual) > W /\ ~ Basis(d, r)
Pending(d, residual, readable) ==
  \/ book[d].est # 0 /\ ~ book[d].final
  \/ Orders(d, readable) # {} \/ Abs(residual) > W \/ ~ book[d].fees

Nav(d, readable) ==
  LET r == Receipts(d)
      open == OpenNAV(d, r)
      external == External(d, r)
      attributed == Attributed(d, r)
      treatment == Treatment(Principal(d, readable), Visible(d, r) - open - external - attributed)
      close == Visible(d, r) + Settling(d, r) + treatment.receivable
      pnl == close - open - external
      residual == pnl - attributed
  IN [status |-> IF Blocked(d, r, residual) \/ treatment.name = "ambiguous" \/ open <= 0 \/ close <= 0
                 THEN "blocked"
                 ELSE IF Pending(d, residual, readable) THEN "provisional" ELSE "finalized",
      pnl |-> pnl, residual |-> residual, treatment |-> treatment.name, close |-> close]

-----------------------------------------------------------------------------
Init ==
  /\ day = 1 /\ phase = "open" /\ cash = Cash0 /\ pos = Pos0
  /\ book = [d \in Days |-> NewDay(Cash0, Pos0, TRUE)]
  /\ flows = <<>> /\ entries = <<>> /\ moves = 0 /\ odd = 0

Next ==
  \/ \E g \in Gains : Trade(g)
  \/ \E r \in Redemptions : Redeem(r)
  \/ \E mode \in {"separate", "embedded"} : Lend(mode)
  \/ \E x \in Deposits : Move("ext", x)
  \/ \E x \in Incomes : Move("income", x)
  \/ \E s \in Days, part \in {"all", "first", "second"} : Receive(s, part)
  \/ \E priced, fees \in BOOLEAN : Close(priced, fees)
  \/ NextDay \/ \E seen \in BOOLEAN : Open(seen)
  \/ \E n \in DOMAIN flows, form \in Forms : CreateEntry(n, form)
  \/ \E i \in DOMAIN entries : Confirm(i) \/ Void(i)
  \/ \E d \in Days : \E done \in SUBSET reverseRepoGroups(d) : PersistAccruals(d, done)
  \/ \E s \in Days : Finalize(s) \/ \E by \in {"audit", "tool"} : ImportBasis(s, by)

Spec == Init /\ [][Next]_vars

-----------------------------------------------------------------------------
Closed == {d \in Days : d < day \/ (d = day /\ closed)}
(* A movement is entered rightly: once, confirmed, and as it happened.     *)
Right(n) ==
  \E i \in DOMAIN entries :
    /\ Created(n) = {i} /\ entries[i].status = "confirmed" /\ Fits(flows[n], entries[i])
    /\ flows[n].class = "receipt" => (entries[i].late <=> flows[n].at = "closed")
Wrong(d) == {n \in DOMAIN flows : flows[n].d = d /\ ~ Right(n)}
                \cup (IF book[d].openSeen THEN {} ELSE {0})

(* Where nothing was lent there are no accruals to read.                   *)
Reads(ds) == IF \E d \in ds : book[d].lends # <<>> THEN BOOLEAN ELSE {TRUE}

(* The snapshots of its day show it as something that happened that day.   *)
Between(n) ==
  flows[n].at = "open" \/ (flows[n].at = "before" /\ ~ book[flows[n].d].openSeen)
(* Those that do not, but for the late receipts, which the code adds.      *)
Outside(d) ==
  {n \in DOMAIN flows : flows[n].d = d /\ ~ Between(n) /\ (flows[n].class = "receipt" => flows[n].at = "before")}

CashLedgerEntry ==
  [flow : DOMAIN flows, kind : {"refund", "final", "other"}, stage : {"", "initial", "supplemental"},
   released : BOOLEAN, linked : BOOLEAN, status : {"draft", "confirmed", "voided"}, rel : Int,
   late : BOOLEAN]

(* The cash ledger and the accruals have their columns.                    *)
TypeOK ==
  /\ day \in Days /\ phase \in {"before", "open", "closed"} /\ {cash, pos} \subseteq Int
  /\ entries \in Seq(CashLedgerEntry)
  /\ \A d \in Days : book[d].accruals \subseteq ReverseRepoAccrual

(* A day's result can be relied on when it is not blocked and its residual *)
(* raises no warning, and at most one movement is entered wrongly or took  *)
(* place outside the snapshots: two of them may cancel.  On a repo day     *)
(* there is none: one of the size of the principal is taken for it.        *)
Accepted(d, n) ==
  LET wrong == Cardinality(Wrong(d) \cup Outside(d))
  IN /\ wrong <= 1 /\ n.status # "blocked" /\ Abs(n.residual) <= W
     /\ book[d].lends # <<>> => wrong = 0

(* Three errors no residual can show.  Income or a settlement that arrives *)
(* outside the two snapshots and is forgotten, or is said to, twice: both  *)
(* snapshots miss it.  A settlement entered as a general adjustment, which *)
(* is neither gain nor flow.  A part that is said to release the whole of  *)
(* the estimate.                                                           *)
Shown ==
  /\ \A n \in DOMAIN flows :
       flows[n].class # "ext" /\ (~ Between(n) \/ \E i \in Created(n) : entries[i].late) => Right(n)
  /\ \A i \in DOMAIN entries :
       entries[i].status = "confirmed" /\ flows[entries[i].flow].class = "receipt" =>
         /\ entries[i].kind # "other"
         /\ entries[i].released \/ flows[entries[i].flow].part = "all"

(* What the account gained from its first open to the end of a day, by the *)
(* broker's books: an estimate counts when the fund is redeemed and its    *)
(* error when it is paid, whatever was entered into the cash ledger.       *)
Wealth(d) == (IF d = day THEN cash ELSE book[d].endCash) + book[d].closePos + Lent(d) + Outstanding(d)
Gained(d) == Wealth(d) - Cash0 - Pos0 - MapThenSumSet(Deposited, 1..d)

(* The accepted results of a run of days add up to what the account really *)
(* gained, up to the tolerance of each day, whatever was entered late,     *)
(* twice, with a wrong form or not at all, snapshots missed, statements    *)
(* imported, estimates replaced or accruals unreadable                     *)
(* (CalculateEconomicNAV's residual gate).  Shown names the errors that it *)
(* does not see and leaves to the T+1 reconciliation (NavBook) or to       *)
(* nobody.  The tables keep their types meanwhile.                         *)
ResultsAddUp ==
  /\ TypeOK
  /\ Closed # {} /\ Shown => \A readable \in Reads(Closed) :
       LET nav == [d \in Closed |-> Nav(d, readable)]
       IN  (\A d \in Closed : Accepted(d, nav[d])) =>
             Abs(MapThenSumSet(LAMBDA d : nav[d].pnl, Closed) - Gained(Max(Closed)))
               <= W * Cardinality(Closed)

(* What the gate can judge: a day without a statement whose movements took *)
(* place between its snapshots, or one whose statement says what is owed.  *)
(* The code sums the entries of a day whatever their time, so that the     *)
(* residual of a day with a deposit outside its snapshots is that deposit. *)
Bridged(d) ==
  IF book[d].basis = "none"
  THEN Outside(d) = {}
  ELSE book[d].basis = "audit" \/ (book[d].est = 0 /\ Receipts(d).amount = 0)

(* The gate raises no false alarm: a day that was observed, priced and     *)
(* entered completely is not blocked, as far as it can be bridged.  Repo   *)
(* days without a statement are excepted when the broker treats two lends  *)
(* differently, when the accruals cannot be read or are older than the     *)
(* last lend, and when a settlement is open or was paid after the close:   *)
(* the two candidate sums leave those out.                                 *)
NoFalseAlarm ==
  \A d \in Closed : \A readable \in Reads({d}) :
    LET b == book[d]
        modes == {b.lends[i] : i \in DOMAIN b.lends}
    IN /\ b.priced /\ Bridged(d) /\ Wrong(d) = {}
       /\ modes # {} =>
            /\ Cardinality(modes) = 1 /\ Cardinality(b.accruals) \in {0, Len(b.lends)}
            /\ b.basis = "none" => /\ b.est = 0 /\ Receipts(d).late = 0
                                   /\ readable \/ modes = {"embedded"}
       => Nav(d, readable).status # "blocked"
=============================================================================
