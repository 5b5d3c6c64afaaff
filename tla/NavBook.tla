------------------------------ MODULE NavBook ------------------------------
(***************************************************************************)
(* The book of economic NAVs of one account: the tables of NAV versions    *)
(* (performance_nav_versions) and of their reconciliations (one per        *)
(* version), and the operations of internal/performance on it: the rebuild *)
(* of a day, its T+1 reconciliation, the review that confirms or blocks    *)
(* it, and relayctl's import of a broker statement.  Operations run side   *)
(* by side (the API, relayctl and the daily job share no lock) and every   *)
(* statement is a step of its own.  An operation that dies or fails takes  *)
(* no further step.                                                        *)
(*                                                                         *)
(* What the calculation finds is an input here: the status it arrives at   *)
(* before it looks for a gap, whether the cumulative NAV is positive, and  *)
(* the size of a residual; so is whether the trading calendar answers.  A  *)
(* row is identified by its place in navs, its performance_nav_pk.         *)
(***************************************************************************)
EXTENDS Naturals, Sequences, FiniteSets

CONSTANTS D,          \* trading days
          Plans,      \* what the operations may be: sequences of requests
          Formulas,   \* formula versions,
          Statement,  \* among them broker_statement_nav.v1
          None

Days == 1 .. D
Statuses == {"provisional", "finalized", "blocked"}

(* A request: kind, day; for a rebuild the status the calculation arrives  *)
(* at, its formula version, whether the cumulative NAV is positive, the    *)
(* calendar answers and the day is the confirmed inception; for a          *)
(* reconciliation the size of the residual, for a review action and force. *)
ASSUME NavBookAssumption ==
  /\ D \in Nat \ {0} /\ Statement \in Formulas
  /\ \A p \in Plans : \A o \in DOMAIN p :
       /\ p[o].kind \in {"rebuild", "statement", "reconcile", "review"} /\ p[o].day \in Days
       /\ p[o].result \in Statuses /\ p[o].formula \in Formulas
       /\ {p[o].positive, p[o].calendar, p[o].inception} \subseteq BOOLEAN
       /\ p[o].residual \in {"auto", "warning", "over"}
       /\ p[o].action \in {"confirm", "block"} /\ p[o].force \in BOOLEAN

VARIABLES
  op,       \* the operations
  navs,     \* performance_nav_versions, by pk
  recons,   \* performance_nav_reconciliations, by pk: None or the record
  pc,       \* where each operation is, and what it has read:
  nav,      \*   the pk of the current NAV, 0 if there is none
  was,      \*   the status it had,
  recon,    \*   its reconciliation,
  version,  \*   the newest version of the day,
  base,     \*   and the NAV the new one continues
  overtaken \* operations whose NAV or reconciliation was written since (ghost)

tables == <<navs, recons>>
local == <<nav, was, recon, version, base>>
vars == <<op, tables, pc, local, overtaken>>

Ops == DOMAIN op

-----------------------------------------------------------------------------
(* The tables.                                                             *)
Rows == DOMAIN navs
Current(d) == {k \in Rows : navs[k].day = d /\ navs[k].current}

(* currentEconomicNAV.                                                     *)
CurrentEconomicNAV(d) == IF Current(d) = {} THEN 0 ELSE CHOOSE k \in Current(d) : TRUE

(* performanceNAVSupportsContinuity                                        *)
SupportsContinuity(formula, current) == formula = current \/ formula = Statement

(* A row whose cumulative NAV a later day may continue.                    *)
Continues(k, formula) ==
  /\ navs[k].current /\ navs[k].positive /\ navs[k].status # "blocked"
  /\ SupportsContinuity(navs[k].formula, formula)

(* previousNAVContext: the newest earlier day that may be continued.       *)
Previous(d, formula) ==
  LET ks == {k \in Rows : navs[k].day < d /\ Continues(k, formula)}
  IN  IF ks = {} THEN 0 ELSE CHOOSE k \in ks : \A j \in ks : navs[j].day <= navs[k].day

(* sameDateVersion: of the current row, the only one that is listed.       *)
SameDateVersion(d) == IF Current(d) = {} THEN 0 ELSE navs[CurrentEconomicNAV(d)].version

(* previous_economic_nav_gap: the calendar expects the day before.  If     *)
(* there is no calendar or it does not answer, no gap is reported.         *)
Gap(o) == base[o] # 0 /\ op[o].calendar /\ navs[base[o]].day # op[o].day - 1

-----------------------------------------------------------------------------
Goto(o, l) == pc' = [pc EXCEPT ![o] = l]

(* The operations that have read what is being written to row k.           *)
Overtakes(o, k) ==
  overtaken' = overtaken \cup {q \in Ops \ {o} : pc[q] \notin {"idle", "done"} /\ nav[q] = k}
-----------------------------------------------------------------------------
(* CalculateEconomicNAV with persist: the previous NAV and the version are *)
(* read at the end of the calculation.                                     *)
RebuildContext(o) ==
  /\ pc[o] = "idle" /\ op[o].kind = "rebuild"
  /\ base' = [base EXCEPT ![o] = Previous(op[o].day, op[o].formula)]
  /\ version' = [version EXCEPT ![o] = SameDateVersion(op[o].day)]
  /\ Goto(o, "publish")
  /\ UNCHANGED <<tables, nav, was, recon, overtaken>>

(* The status the rebuild arrives at; the inception has nothing to continue. *)
Calculated(o) == IF Gap(o) /\ ~ op[o].inception THEN "blocked" ELSE op[o].result

(* Mutant: the statement numbers the row itself; only the index on the     *)
(* current rows is left, and the retirement satisfies it.                  *)
MutConflict(o) == FALSE

(* performance_nav_versions_unique: a rebuild that was overtaken fails.    *)
Conflict(o) ==
  \E k \in Rows : navs[k].day = op[o].day /\ navs[k].version = version[o] + 1

(* The row a rebuild builds: its cumulative NAV continues that of base.    *)
NewNAV(o) ==
  [day |-> op[o].day, version |-> version[o] + 1, current |-> TRUE,
   status |-> Calculated(o), formula |-> op[o].formula, positive |-> op[o].positive,
   base |-> base[o], calculated |-> Calculated(o)]

(* upsertPerformanceNAVSQL: one statement retires the current row of the   *)
(* day and inserts the new one.                                            *)
Insert(row) ==
  navs' = Append([k \in Rows |-> IF k \in Current(row.day)
                                 THEN [navs[k] EXCEPT !.current = FALSE] ELSE navs[k]], row)

UpsertPerformanceNAV(o, row) ==
  /\ Insert(row) /\ recons' = Append(recons, None)
  /\ nav' = [nav EXCEPT ![o] = Len(navs) + 1]
  /\ overtaken' = overtaken \cup
       {q \in Ops \ {o} : pc[q] \notin {"idle", "done"} /\ nav[q] \in Current(row.day)}

UpsertNAV(o) ==
  /\ pc[o] = "publish"
  /\ \/ ~ Conflict(o) /\ UpsertPerformanceNAV(o, NewNAV(o)) /\ Goto(o, "sameday")
     \/ Conflict(o) /\ Goto(o, "done") /\ UNCHANGED <<navs, recons, nav, overtaken>>
  /\ UNCHANGED <<was, recon, version, base>>

(* The row relayctl takes over from a broker statement.  The statement     *)
(* numbers it, and it continues the days of the statement, not the book.   *)
StatementNAV(o) ==
  [day |-> op[o].day, version |-> Cardinality({k \in Rows : navs[k].day = op[o].day}) + 1,
   current |-> TRUE, status |-> "finalized", formula |-> Statement, positive |-> TRUE,
   base |-> 0, calculated |-> "finalized"]

ImportStatement(o) ==
  /\ pc[o] = "idle" /\ op[o].kind = "statement"
  /\ UpsertPerformanceNAV(o, StatementNAV(o)) /\ Goto(o, "done")
  /\ UNCHANGED <<was, recon, version, base>>

(* ON CONFLICT (performance_nav_pk) the whole record is replaced.          *)
upsertNAVReconciliationSQL(k, record) == [recons EXCEPT ![k] = record]
UpsertReconciliation(o, k, record) ==
  recons' = upsertNAVReconciliationSQL(k, record) /\ Overtakes(o, k)

(* buildNAVReconciliation: the difference to the visible assets is taken   *)
(* as outstanding, so the residual of the same day is zero.                *)
SameDay(k) ==
  [status |-> IF navs[k].calculated = "blocked" THEN "blocked" ELSE "auto_completed",
   residual |-> "auto", by |-> 0]

(* The second write of the rebuild, with the status it calculated.         *)
RebuildReconciliation(o) ==
  /\ pc[o] = "sameday"
  /\ UpsertReconciliation(o, nav[o], SameDay(nav[o]))
  /\ Goto(o, "done")
  /\ UNCHANGED <<navs, local>>
-----------------------------------------------------------------------------
(* ReconcileEconomicNAV with persist: without a current NAV it fails.      *)
ReconcileRead(o) ==
  /\ pc[o] = "idle" /\ op[o].kind = "reconcile"
  /\ LET k == CurrentEconomicNAV(op[o].day)
     IN  /\ nav' = [nav EXCEPT ![o] = k]
         /\ was' = [was EXCEPT ![o] = IF k = 0 THEN None ELSE navs[k].status]
         /\ Goto(o, IF k = 0 THEN "done" ELSE "observed")
  /\ UNCHANGED <<tables, recon, version, base, overtaken>>

(* buildObservedNAVReconciliation against the opening of the next day,     *)
(* from the NAV as it was read.                                            *)
Observed(o) ==
  [status |-> CASE was[o] = "blocked" \/ op[o].residual = "over" -> "blocked"
                [] was[o] # "blocked" /\ op[o].residual = "warning" -> "review_required"
                [] OTHER -> "auto_completed",
   residual |-> op[o].residual, by |-> 0]

ReconcileWrite(o) ==
  /\ pc[o] = "observed"
  /\ UpsertReconciliation(o, nav[o], Observed(o))
  /\ Goto(o, "done")
  /\ UNCHANGED <<navs, local>>
-----------------------------------------------------------------------------
(* ReviewNAVReconciliation: it reads the current NAV, then its             *)
(* reconciliation, and decides on what it has read.                        *)
ReviewRead(o) ==
  /\ pc[o] = "idle" /\ op[o].kind = "review"
  /\ LET k == CurrentEconomicNAV(op[o].day)
     IN  /\ nav' = [nav EXCEPT ![o] = k]
         /\ was' = [was EXCEPT ![o] = IF k = 0 THEN None ELSE navs[k].status]
         /\ Goto(o, IF k = 0 THEN "done" ELSE "record")
  /\ UNCHANGED <<tables, recon, version, base, overtaken>>

(* Mutant: the status of the record is not looked at.                      *)
MutNeedsForce(status, r) == status = "blocked" \/ r.residual = "over"

(* A blocked NAV or record, or a residual over the warning threshold, is   *)
(* confirmed by force only.                                                *)
NeedsForce(status, r) == status = "blocked" \/ r.status = "blocked" \/ r.residual = "over"

ReviewDecide(o) ==
  /\ pc[o] = "record"
  /\ LET r == recons[nav[o]]
     IN  /\ recon' = [recon EXCEPT ![o] = r]
         /\ Goto(o, IF \/ r = None
                       \/ /\ op[o].action = "confirm" /\ ~ op[o].force
                          /\ NeedsForce(was[o], r)
                    THEN "done" ELSE "reviewed")
  /\ UNCHANGED <<tables, nav, was, version, base, overtaken>>

ReviewWrite(o) ==
  /\ pc[o] = "reviewed"
  /\ UpsertReconciliation(o, nav[o],
       [recon[o] EXCEPT !.by = o,
                        !.status = IF op[o].action = "confirm" THEN "confirmed" ELSE "blocked"])
  /\ Goto(o, "status")
  /\ UNCHANGED <<navs, local>>

(* Mutant: the row is looked up by its pk alone.                           *)
MutReviewable(k) == TRUE

(* UpdatePerformanceNAVStatus changes the row only while it is current.    *)
Reviewable(k) == navs[k].current

ReviewStatus(o) ==
  /\ pc[o] = "status"
  /\ IF Reviewable(nav[o])
     THEN /\ navs' = [navs EXCEPT ![nav[o]].status =
                        IF op[o].action = "confirm" THEN "finalized" ELSE "blocked"]
          /\ Overtakes(o, nav[o])
     ELSE UNCHANGED <<navs, overtaken>>
  /\ Goto(o, "done")
  /\ UNCHANGED <<recons, local>>
-----------------------------------------------------------------------------
Init ==
  /\ op \in Plans
  /\ navs = <<>> /\ recons = <<>>
  /\ pc = [o \in Ops |-> "idle"]
  /\ nav = [o \in Ops |-> 0] /\ was = [o \in Ops |-> None] /\ recon = [o \in Ops |-> None]
  /\ version = [o \in Ops |-> 0] /\ base = [o \in Ops |-> 0]
  /\ overtaken = {}

Operation(o) ==
  \/ RebuildContext(o) \/ UpsertNAV(o) \/ RebuildReconciliation(o) \/ ImportStatement(o)
  \/ ReconcileRead(o) \/ ReconcileWrite(o)
  \/ ReviewRead(o) \/ ReviewDecide(o) \/ ReviewWrite(o) \/ ReviewStatus(o)

Next == (\E o \in Ops : Operation(o)) /\ UNCHANGED op

Spec == Init /\ [][Next]_vars
-----------------------------------------------------------------------------
(* Properties.                                                             *)
PerformanceNAV == [day : Days, version : Nat \ {0}, current : BOOLEAN, status : Statuses,
                   formula : Formulas, positive : BOOLEAN,
                   base : {0} \cup Rows, calculated : Statuses]
ReconciliationStatuses == {"auto_completed", "review_required", "blocked", "confirmed"}
NAVReconciliation == [status : ReconciliationStatuses, residual : {"auto", "warning", "over"},
                      by : {0} \cup Ops]

(* The tables have their columns, and a NAV has at most one reconciliation.*)
TypeOK ==
  /\ navs \in Seq(PerformanceNAV)
  /\ recons \in Seq({None} \cup NAVReconciliation) /\ Len(recons) = Len(navs)
  /\ nav \in [Ops -> {0} \cup Rows] /\ overtaken \subseteq Ops

(* Whatever rebuilds, reconciliations and reviews run side by side, every  *)
(* day that has versions has exactly one current version, its newest, and  *)
(* the versions of a day are numbered without a hole; the tables keep      *)
(* their columns.                                                          *)
OneCurrent ==
  /\ TypeOK
  /\ \A d \in Days :
       LET ks == {k \in Rows : navs[k].day = d}
       IN  /\ {navs[k].version : k \in ks} = 1 .. Cardinality(ks)
           /\ \A k \in ks : navs[k].current <=> navs[k].version = Cardinality(ks)

(* The history of a day: the statuses of its versions.                     *)
History ==
  [d \in Days |->
     LET ks == {k \in Rows : navs[k].day = d}
     IN  [v \in 1 .. Cardinality(ks) |->
            navs[CHOOSE k \in ks : navs[k].version = v \/ \A j \in ks : navs[j].version # v].status]]

(* The book implements the versioned book: versions are only added, and a  *)
(* review that was overtaken by a rebuild changes neither the retired      *)
(* version it read nor the new one, which nobody has reviewed.             *)
Book == INSTANCE VersionedBook WITH history <- History
ImplementsBook == Book!Spec

(* A review that was not forced confirms a version only if its NAV is not  *)
(* blocked and its record neither blocked nor over the warning threshold,  *)
(* in the tables when it writes and not only when it read them, unless     *)
(* another operation wrote the version or its record in the meantime.      *)
Confirms(o) == op[o].action = "confirm" /\ ~ op[o].force
ConfirmedWithinWarning ==
  \A o \in Ops \ overtaken :
    Confirms(o) =>
      /\ pc[o] = "reviewed" => /\ navs[nav[o]].status # "blocked"
                               /\ recons[nav[o]].status # "blocked"
                               /\ recons[nav[o]].residual # "over"
      /\ pc[o] = "status" => /\ navs[nav[o]].status # "blocked"
                             /\ recons[nav[o]].by = o
                             /\ recons[nav[o]].residual # "over"
=============================================================================
