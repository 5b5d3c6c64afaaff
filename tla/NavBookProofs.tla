--------------------------- MODULE NavBookProofs ---------------------------
(***************************************************************************)
(* Proofs about the book of economic NAVs, for any plan of rebuilds,       *)
(* reconciliations and reviews that run side by side, and any number of    *)
(* trading days.                                                           *)
(***************************************************************************)
EXTENDS NavBook, FiniteSetTheorems, WellFoundedInduction, SequenceTheorems, TLAPS

Labels == {"idle", "publish", "sameday", "observed", "record", "reviewed", "status", "done"}

(* What the operations have read has its type, and names rows that exist.  *)
LocalInv ==
  /\ op \in Plans
  /\ pc \in [Ops -> Labels] /\ was \in [Ops -> Statuses \cup {None}]
  /\ recon \in [Ops -> NAVReconciliation \cup {None}]
  /\ version \in [Ops -> Nat] /\ base \in [Ops -> {0} \cup Rows]
  /\ \A o \in Ops :
       /\ pc[o] \in {"sameday", "observed", "record", "reviewed", "status"} => nav[o] \in Rows
       /\ pc[o] = "reviewed" => recon[o] \in NAVReconciliation

(* The versions of a day are numbered without a hole, the newest is        *)
(* current, and a rebuild has read a number that was given.                *)
DayRows(d) == {k \in Rows : navs[k].day = d}
Count(d) == Cardinality(DayRows(d))
Numbered(d) ==
  /\ \A k \in DayRows(d) : navs[k].version \in 1 .. Count(d)
  /\ \A v \in 1 .. Count(d) : \E k \in DayRows(d) : navs[k].version = v
  /\ \A j, k \in DayRows(d) : navs[j].version = navs[k].version => j = k
  /\ \A k \in DayRows(d) : navs[k].current <=> navs[k].version = Count(d)
NumberingInv ==
  /\ \A d \in Days : Numbered(d)
  /\ \A o \in Ops : pc[o] = "publish" => version[o] \in 0 .. Count(op[o].day)

(* A review that nobody overtook still finds the NAV and the record it     *)
(* decided on, and has confirmed nothing that force alone confirms.        *)
Relies(o) ==
  /\ pc[o] \in {"record", "reviewed", "status"} => navs[nav[o]].status = was[o]
  /\ pc[o] = "reviewed" =>
       /\ recons[nav[o]] = recon[o]
       /\ Confirms(o) => ~ NeedsForce(was[o], recon[o])
  /\ pc[o] = "status" =>
       /\ recons[nav[o]].by = o
       /\ Confirms(o) => was[o] # "blocked" /\ recons[nav[o]].residual # "over"
ReviewInv == \A o \in Ops \ overtaken : Relies(o)

IndInv == TypeOK /\ LocalInv /\ NumberingInv /\ ReviewInv

-----------------------------------------------------------------------------
(* The tables.                                                             *)
LEMMA RowFacts ==
  ASSUME TypeOK
  PROVE  /\ Len(navs) \in Nat /\ Rows = 1 .. Len(navs) /\ DOMAIN recons = Rows
         /\ \A k \in Rows : /\ navs[k] \in PerformanceNAV
                            /\ recons[k] \in {None} \cup NAVReconciliation
  BY DEF TypeOK, Rows

LEMMA PlanFacts ==
  ASSUME LocalInv, NEW o \in Ops
  PROVE  /\ op[o].day \in Days /\ op[o].result \in Statuses /\ op[o].formula \in Formulas
         /\ op[o].positive \in BOOLEAN /\ op[o].residual \in {"auto", "warning", "over"}
         /\ op[o].action \in {"confirm", "block"} /\ op[o].force \in BOOLEAN
  BY NavBookAssumption DEF LocalInv, Ops

LEMMA CountType ==
  ASSUME TypeOK, NEW d
  PROVE  IsFiniteSet(DayRows(d)) /\ Count(d) \in Nat
  <1>1. Len(navs) \in Nat /\ Rows = 1 .. Len(navs)
    BY RowFacts
  <1>2. IsFiniteSet(Rows)
    BY <1>1, FS_Interval
  <1>3. DayRows(d) \in SUBSET Rows
    BY DEF DayRows
  <1>4. IsFiniteSet(DayRows(d))
    BY <1>2, <1>3, FS_Subset
  <1> QED
    BY <1>4, FS_CardinalityType DEF Count

(* currentEconomicNAV finds the newest version of the day, if there is one.*)
LEMMA CurrentFacts ==
  ASSUME TypeOK, NEW d \in Days, Numbered(d)
  PROVE  /\ CurrentEconomicNAV(d) \in {0} \cup Rows
         /\ CurrentEconomicNAV(d) # 0 => CurrentEconomicNAV(d) \in DayRows(d)
         /\ SameDateVersion(d) \in 0 .. Count(d)
  <1>1. Count(d) \in Nat
    BY CountType
  <1>2. Current(d) \subseteq DayRows(d)
    BY DEF Current, DayRows
  <1>3. CASE Current(d) = {}
    BY <1>1, <1>3 DEF CurrentEconomicNAV, SameDateVersion
  <1>4. CASE Current(d) # {}
    <2>1. CurrentEconomicNAV(d) \in Current(d)
      BY <1>4 DEF CurrentEconomicNAV
    <2>2. SameDateVersion(d) = navs[CurrentEconomicNAV(d)].version
      BY <1>4 DEF SameDateVersion
    <2>3. navs[CurrentEconomicNAV(d)].version \in 1 .. Count(d)
      BY <1>2, <2>1 DEF Numbered
    <2> QED
      BY <1>1, <1>2, <2>1, <2>2, <2>3 DEF DayRows
  <1> QED
    BY <1>3, <1>4

(* previousNAVContext finds a row whenever there is one to continue.       *)
LEMMA PreviousType ==
  ASSUME TypeOK, NEW d, NEW f
  PROVE  Previous(d, f) \in {0} \cup Rows
  <1> DEFINE ks == {k \in Rows : navs[k].day < d /\ Continues(k, f)}
             T == {D - navs[k].day : k \in ks}
             R == OpToRel(<, Nat)
  <1>1. CASE ks = {}
    BY <1>1 DEF Previous
  <1>2. CASE ks # {}
    <2>1. \A k \in ks : navs[k].day \in 1 .. D
      BY RowFacts DEF PerformanceNAV, Days
    <2>2. T \subseteq Nat /\ T # {}
      BY <1>2, <2>1, NavBookAssumption
    <2>3. IsWellFoundedOn(R, Nat)
      BY NatLessThanWellFounded
    <2>4. PICK x \in T : \A y \in T : ~ (<<y, x>> \in R)
      <3> HIDE DEF T, R
      <3> QED
        BY <2>2, <2>3, WFMin
    <2>5. \A y \in T : x <= y
      <3>1. \A y \in Nat, z \in Nat : y < z => <<y, z>> \in R
        BY DEF OpToRel
      <3> HIDE DEF T, R
      <3> TAKE y \in T
      <3>2. x \in Nat /\ y \in Nat
        BY <2>2
      <3>3. ~ (y < x)
        BY <2>4, <3>1, <3>2
      <3> QED
        BY <3>2, <3>3
    <2>6. PICK k \in ks : x = D - navs[k].day
      BY <2>4
    <2>7. \A j \in ks : navs[j].day <= navs[k].day
      <3>1. \A j \in ks : D - navs[k].day <= D - navs[j].day
        BY <2>5, <2>6
      <3> QED
        BY <2>1, <3>1, NavBookAssumption
    <2>8. (CHOOSE i \in ks : \A j \in ks : navs[j].day <= navs[i].day) \in ks
      BY <2>7
    <2>9. Previous(d, f) = CHOOSE i \in ks : \A j \in ks : navs[j].day <= navs[i].day
      BY <1>2 DEF Previous
    <2> QED
      BY <2>8, <2>9
  <1> QED
    BY <1>1, <1>2

LEMMA InitInv == Init => IndInv
  <1> SUFFICES ASSUME Init PROVE IndInv
    OBVIOUS
  <1>1. Rows = {} /\ Len(navs) = 0 /\ Len(recons) = 0
    BY DEF Init, Rows
  <1>2. TypeOK
    BY <1>1 DEF Init, TypeOK
  <1>3. LocalInv
    BY DEF Init, LocalInv, Labels
  <1>4. \A d \in Days : DayRows(d) = {} /\ Count(d) = 0
    BY <1>1, FS_EmptySet DEF DayRows, Count
  <1>5. NumberingInv
    BY <1>4 DEF Init, NumberingInv, Numbered
  <1>6. ReviewInv
    BY DEF Init, ReviewInv, Relies
  <1> QED
    BY <1>2, <1>3, <1>5, <1>6 DEF IndInv
-----------------------------------------------------------------------------
(* Steps that leave the table of versions alone.                           *)
LEMMA SameBook ==
  ASSUME navs' = navs
  PROVE  /\ Rows' = Rows /\ PerformanceNAV' = PerformanceNAV
         /\ \A d : DayRows(d)' = DayRows(d) /\ Count(d)' = Count(d)
         /\ \A d : Numbered(d) => Numbered(d)'
  <1>1. Rows' = Rows
    BY DEF Rows
  <1>2. PerformanceNAV' = PerformanceNAV
    BY <1>1 DEF PerformanceNAV
  <1>3. \A d : DayRows(d)' = DayRows(d)
    BY <1>1 DEF DayRows
  <1>4. \A d : Count(d)' = Count(d)
    BY <1>3 DEF Count
  <1>5. \A d : Numbered(d) => Numbered(d)'
    BY <1>3, <1>4 DEF Numbered
  <1> QED
    BY <1>1, <1>2, <1>3, <1>4, <1>5

(* An operation goes on relying on what it read while its own step is not  *)
(* taken and nobody writes its NAV or its record.                          *)
LEMMA KeepsRelying ==
  ASSUME NEW q, Relies(q), op' = op, pc'[q] = pc[q], nav'[q] = nav[q], was'[q] = was[q], recon'[q] = recon[q],
         pc[q] \in {"record", "reviewed", "status"} =>
           navs'[nav[q]].status = navs[nav[q]].status /\ recons'[nav[q]] = recons[nav[q]]
  PROVE  Relies(q)'
  BY DEF Relies, Confirms, NeedsForce

(* Steps that read, and leave both tables alone.                           *)
LEMMA SameTables ==
  ASSUME TypeOK, op' = op, navs' = navs, recons' = recons, overtaken' = overtaken,
         nav' \in [Ops -> {0} \cup Rows]
  PROVE  TypeOK'
  <1>1. Rows' = Rows /\ PerformanceNAV' = PerformanceNAV
    BY SameBook
  <1>2. Ops' = Ops /\ NAVReconciliation' = NAVReconciliation
    BY DEF Ops, NAVReconciliation
  <1> QED
    BY <1>1, <1>2 DEF TypeOK

LEMMA RebuildContextStep ==
  ASSUME IndInv, NEW o \in Ops, RebuildContext(o), op' = op
  PROVE  IndInv'
  <1> USE DEF IndInv
  <1>1. /\ Rows' = Rows /\ Ops' = Ops
        /\ \A d : Count(d)' = Count(d) /\ (Numbered(d) => Numbered(d)')
    BY SameBook DEF RebuildContext, tables, Ops
  <1>2. TypeOK'
    BY SameTables DEF RebuildContext, tables, TypeOK
  <1>3. Previous(op[o].day, op[o].formula) \in {0} \cup Rows
    BY PreviousType
  <1>4. SameDateVersion(op[o].day) \in 0 .. Count(op[o].day) /\ Count(op[o].day) \in Nat
    BY CurrentFacts, PlanFacts, CountType DEF NumberingInv
  <1>5. LocalInv'
    BY <1>1, <1>3, <1>4
    DEF RebuildContext, Goto, LocalInv, Labels, NAVReconciliation, tables
  <1>6. NumberingInv'
    BY <1>1, <1>4 DEF RebuildContext, Goto, NumberingInv, LocalInv
  <1>7. ReviewInv'
    <2> SUFFICES ASSUME NEW q \in Ops \ overtaken PROVE Relies(q)'
      BY <1>1 DEF ReviewInv, RebuildContext
    <2>1. CASE q = o
      BY <2>1 DEF RebuildContext, Goto, LocalInv, Relies
    <2>2. CASE q # o
      BY <2>2, KeepsRelying DEF RebuildContext, Goto, LocalInv, ReviewInv, tables
    <2> QED
      BY <2>1, <2>2
  <1> QED
    BY <1>2, <1>5, <1>6, <1>7

(* Both reads of the current NAV.                                          *)
LEMMA ReadCurrentStep ==
  ASSUME IndInv, NEW o \in Ops, ReconcileRead(o) \/ ReviewRead(o), op' = op
  PROVE  IndInv'
  <1> USE DEF IndInv
  <1> DEFINE k == CurrentEconomicNAV(op[o].day)
  <1>0. PICK l \in {"observed", "record"} :
          /\ nav' = [nav EXCEPT ![o] = k]
          /\ was' = [was EXCEPT ![o] = IF k = 0 THEN None ELSE navs[k].status]
          /\ Goto(o, IF k = 0 THEN "done" ELSE l)
          /\ UNCHANGED <<tables, recon, version, base, overtaken>>
    BY DEF ReconcileRead, ReviewRead
  <1>1. /\ Rows' = Rows /\ Ops' = Ops
        /\ \A d : Count(d)' = Count(d) /\ (Numbered(d) => Numbered(d)')
    BY <1>0, SameBook DEF tables, Ops
  <1>2. k \in {0} \cup Rows
    BY CurrentFacts, PlanFacts DEF NumberingInv
  <1> HIDE DEF k
  <1>3. TypeOK'
    BY <1>0, <1>2, SameTables DEF tables, TypeOK
  <1>4. k # 0 => k \in Rows /\ navs[k].status \in Statuses
    BY <1>2, RowFacts DEF PerformanceNAV
  <1>5. LocalInv'
    BY <1>0, <1>1, <1>4 DEF Goto, LocalInv, Labels, NAVReconciliation, TypeOK
  <1>6. NumberingInv'
    BY <1>0, <1>1 DEF Goto, NumberingInv, LocalInv
  <1>7. ReviewInv'
    <2> SUFFICES ASSUME NEW q \in Ops \ overtaken PROVE Relies(q)'
      BY <1>0, <1>1 DEF ReviewInv
    <2>1. CASE q = o
      BY <1>0, <2>1 DEF Goto, LocalInv, TypeOK, Relies, tables
    <2>2. CASE q # o
      BY <1>0, <2>2, KeepsRelying DEF Goto, LocalInv, TypeOK, ReviewInv, tables
    <2> QED
      BY <2>1, <2>2
  <1> QED
    BY <1>3, <1>5, <1>6, <1>7

LEMMA ReviewDecideStep ==
  ASSUME IndInv, NEW o \in Ops, ReviewDecide(o), op' = op
  PROVE  IndInv'
  <1> USE DEF IndInv
  <1>1. /\ Rows' = Rows /\ Ops' = Ops
        /\ \A d : Count(d)' = Count(d) /\ (Numbered(d) => Numbered(d)')
    BY SameBook DEF ReviewDecide, tables, Ops
  <1>2. TypeOK'
    BY SameTables DEF ReviewDecide, tables, TypeOK
  <1>3. nav[o] \in Rows /\ recons[nav[o]] \in {None} \cup NAVReconciliation
    BY RowFacts DEF ReviewDecide, LocalInv
  <1>4. LocalInv'
    BY <1>1, <1>3 DEF ReviewDecide, Goto, LocalInv, Labels, NAVReconciliation, tables
  <1>5. NumberingInv'
    BY <1>1 DEF ReviewDecide, Goto, NumberingInv, LocalInv
  <1>6. ReviewInv'
    <2> SUFFICES ASSUME NEW q \in Ops \ overtaken PROVE Relies(q)'
      BY <1>1 DEF ReviewInv, ReviewDecide
    <2>1. CASE q = o
      BY <2>1 DEF ReviewDecide, Goto, LocalInv, ReviewInv, Relies, Confirms, NeedsForce, tables
    <2>2. CASE q # o
      BY <2>2, KeepsRelying DEF ReviewDecide, Goto, LocalInv, ReviewInv, tables
    <2> QED
      BY <2>1, <2>2
  <1> QED
    BY <1>2, <1>4, <1>5, <1>6

-----------------------------------------------------------------------------
(* The three writes of a record: the other reviews of its NAV are          *)
(* overtaken, so only the writer may still rely on it.                     *)
LEMMA RecordStep ==
  ASSUME IndInv, NEW o \in Ops, NEW record \in NAVReconciliation, NEW l \in {"done", "status"},
         nav[o] \in Rows, UpsertReconciliation(o, nav[o], record), Goto(o, l),
         UNCHANGED <<op, navs, local>>,
         l = "status" => /\ record.by = o
                         /\ o \notin overtaken => navs[nav[o]].status = was[o]
                         /\ o \notin overtaken /\ Confirms(o) => was[o] # "blocked" /\ record.residual # "over"
  PROVE  IndInv'
  <1> USE DEF IndInv
  <1>1. /\ Rows' = Rows /\ Ops' = Ops /\ PerformanceNAV' = PerformanceNAV
        /\ \A d : Count(d)' = Count(d) /\ (Numbered(d) => Numbered(d)')
    BY SameBook DEF Ops
  <1>2. NAVReconciliation' = NAVReconciliation
    BY DEF NAVReconciliation, Ops
  <1>3. /\ recons' \in Seq({None} \cup NAVReconciliation) /\ Len(recons') = Len(recons)
        /\ recons' = [recons EXCEPT ![nav[o]] = record]
    <2>1. recons' = [recons EXCEPT ![nav[o]] = record]
      BY DEF UpsertReconciliation, upsertNAVReconciliationSQL
    <2>2. recons \in Seq({None} \cup NAVReconciliation) /\ nav[o] \in 1 .. Len(recons)
      BY RowFacts DEF TypeOK
    <2> QED
      BY <2>1, <2>2, ExceptSeq
  <1>4. overtaken' \subseteq Ops /\ overtaken \subseteq overtaken'
    BY DEF UpsertReconciliation, Overtakes, TypeOK
  <1>5. TypeOK'
    BY <1>1, <1>2, <1>3, <1>4 DEF TypeOK, local
  <1>6. LocalInv'
    BY <1>1, <1>2 DEF Goto, LocalInv, Labels, local
  <1>7. NumberingInv'
    BY <1>1 DEF Goto, NumberingInv, LocalInv, local
  <1>8. ReviewInv'
    <2> SUFFICES ASSUME NEW q \in Ops \ overtaken' PROVE Relies(q)'
      BY <1>1 DEF ReviewInv
    <2>0. q \in Ops \ overtaken
      BY <1>4
    <2>1. DOMAIN recons = Rows /\ recons'[nav[o]] = record
      BY <1>3, RowFacts
    <2>2. CASE q = o
      BY <2>0, <2>1, <2>2 DEF Goto, LocalInv, Relies, Confirms, local
    <2>3. CASE q # o
      <3>1. pc'[q] = pc[q]
        BY <2>3 DEF Goto, LocalInv
      <3>2. pc[q] \in {"record", "reviewed", "status"} => nav[q] # nav[o]
        BY <2>3 DEF UpsertReconciliation, Overtakes
      <3>3. pc[q] \in {"record", "reviewed", "status"} => recons'[nav[q]] = recons[nav[q]]
        BY <1>3, <2>1, <3>2 DEF LocalInv
      <3> QED
        BY <2>0, <3>1, <3>3, KeepsRelying DEF ReviewInv, local
    <2> QED
      BY <2>2, <2>3
  <1> QED
    BY <1>5, <1>6, <1>7, <1>8

LEMMA RebuildReconciliationStep ==
  ASSUME IndInv, NEW o \in Ops, RebuildReconciliation(o), op' = op
  PROVE  IndInv'
  <1>1. nav[o] \in Rows
    BY DEF IndInv, LocalInv, RebuildReconciliation
  <1>2. SameDay(nav[o]) \in NAVReconciliation
    BY DEF SameDay, NAVReconciliation, ReconciliationStatuses
  <1> QED
    BY <1>1, <1>2, RecordStep DEF RebuildReconciliation

LEMMA ReconcileWriteStep ==
  ASSUME IndInv, NEW o \in Ops, ReconcileWrite(o), op' = op
  PROVE  IndInv'
  <1>1. nav[o] \in Rows /\ op[o].residual \in {"auto", "warning", "over"}
    BY PlanFacts DEF IndInv, LocalInv, ReconcileWrite
  <1>2. Observed(o) \in NAVReconciliation
    <2>1. Observed(o).status \in ReconciliationStatuses
      BY DEF Observed, ReconciliationStatuses
    <2> QED
      BY <1>1, <2>1 DEF Observed, NAVReconciliation
  <1> QED
    BY <1>1, <1>2, RecordStep DEF ReconcileWrite

LEMMA ReviewWriteStep ==
  ASSUME IndInv, NEW o \in Ops, ReviewWrite(o), op' = op
  PROVE  IndInv'
  <1> DEFINE record == [recon[o] EXCEPT !.by = o,
                          !.status = IF op[o].action = "confirm" THEN "confirmed" ELSE "blocked"]
  <1>1. nav[o] \in Rows /\ recon[o] \in NAVReconciliation
    BY DEF IndInv, LocalInv, ReviewWrite
  <1>2. record \in NAVReconciliation /\ record.by = o /\ record.residual = recon[o].residual
    BY <1>1 DEF NAVReconciliation, ReconciliationStatuses
  <1>3. /\ o \notin overtaken => navs[nav[o]].status = was[o]
        /\ o \notin overtaken /\ Confirms(o) => was[o] # "blocked" /\ record.residual # "over"
    BY <1>2 DEF IndInv, ReviewInv, Relies, ReviewWrite, NeedsForce
  <1> HIDE DEF record
  <1>4. UpsertReconciliation(o, nav[o], record) /\ Goto(o, "status") /\ UNCHANGED <<navs, local>>
    BY DEF ReviewWrite, record
  <1> QED
    BY <1>1, <1>2, <1>3, <1>4, RecordStep

(* UpdatePerformanceNAVStatus changes a status, and no number.             *)
LEMMA ReviewStatusStep ==
  ASSUME IndInv, NEW o \in Ops, ReviewStatus(o), op' = op
  PROVE  IndInv'
  <1> USE DEF IndInv
  <1>0. nav[o] \in Rows
    BY DEF ReviewStatus, LocalInv
  <1>1. PICK s \in Statuses : \/ navs' = [navs EXCEPT ![nav[o]].status = s]
                              \/ navs' = navs
    BY DEF ReviewStatus, Statuses
  <1>2. /\ Rows' = Rows /\ Ops' = Ops /\ PerformanceNAV' = PerformanceNAV
        /\ NAVReconciliation' = NAVReconciliation
    BY <1>1 DEF Rows, Ops, PerformanceNAV, NAVReconciliation
  <1>3. navs' \in Seq(PerformanceNAV) /\ Len(navs') = Len(navs)
    <2>1. [navs[nav[o]] EXCEPT !.status = s] \in PerformanceNAV
      BY <1>0, RowFacts DEF PerformanceNAV
    <2>2. navs \in Seq(PerformanceNAV) /\ nav[o] \in 1 .. Len(navs)
      BY <1>0, RowFacts DEF TypeOK
    <2>3. [navs EXCEPT ![nav[o]].status = s] = [navs EXCEPT ![nav[o]] = [navs[nav[o]] EXCEPT !.status = s]]
      BY <2>2
    <2> QED
      BY <1>1, <2>1, <2>2, <2>3, ExceptSeq
  <1>4. \A k \in Rows : /\ navs'[k].day = navs[k].day /\ navs'[k].version = navs[k].version
                        /\ navs'[k].current = navs[k].current /\ navs'[k].base = navs[k].base
                        /\ navs'[k].calculated = navs[k].calculated
    BY <1>1, RowFacts DEF PerformanceNAV, Rows
  <1>5. overtaken' \subseteq Ops /\ overtaken \subseteq overtaken'
    BY DEF ReviewStatus, Overtakes, TypeOK
  <1>6. TypeOK'
    BY <1>2, <1>3, <1>5 DEF TypeOK, local, ReviewStatus
  <1>7. LocalInv'
    BY <1>2 DEF ReviewStatus, Goto, LocalInv, Labels, local
  <1>8. \A d : DayRows(d)' = DayRows(d) /\ Count(d)' = Count(d)
    <2>1. \A d : DayRows(d)' = DayRows(d)
      BY <1>2, <1>4 DEF DayRows
    <2> QED
      BY <2>1 DEF Count
  <1>9. \A d \in Days : Numbered(d)'
    <2> SUFFICES ASSUME NEW d \in Days PROVE Numbered(d)'
      OBVIOUS
    <2>1. /\ DayRows(d)' = DayRows(d) /\ Count(d)' = Count(d) /\ DayRows(d) \subseteq Rows
          /\ Numbered(d)
      BY <1>8 DEF DayRows, NumberingInv
    <2> QED
      BY <1>4, <2>1 DEF Numbered
  <1>10. NumberingInv'
    BY <1>2, <1>8, <1>9 DEF ReviewStatus, Goto, NumberingInv, LocalInv, local
  <1>11. ReviewInv'
    <2> SUFFICES ASSUME NEW q \in Ops \ overtaken' PROVE Relies(q)'
      BY <1>2 DEF ReviewInv
    <2>0. q \in Ops \ overtaken
      BY <1>5
    <2>1. CASE q = o
      BY <2>1 DEF ReviewStatus, Goto, LocalInv, Relies
    <2>2. CASE q # o
      <3>1. pc'[q] = pc[q] /\ UNCHANGED <<recons, local>>
        BY <2>2 DEF ReviewStatus, Goto, LocalInv
      <3>2. navs' # navs /\ pc[q] \in {"record", "reviewed", "status"} => nav[q] # nav[o]
        BY <2>2 DEF ReviewStatus, Overtakes
      <3>3. pc[q] \in {"record", "reviewed", "status"} => navs'[nav[q]].status = navs[nav[q]].status
        <4>1. CASE navs' = navs
          BY <4>1
        <4>2. CASE navs' # navs
          BY <1>0, <1>1, <3>2, <4>2, RowFacts DEF LocalInv
        <4> QED
          BY <4>1, <4>2
      <3> QED
        BY <2>0, <3>1, <3>3, KeepsRelying DEF ReviewInv, local
    <2> QED
      BY <2>1, <2>2
  <1> QED
    BY <1>6, <1>7, <1>10, <1>11

-----------------------------------------------------------------------------
(* What the statement of UpsertPerformanceNAV leaves in the table: one     *)
(* more row, and the old rows but for the flag of the retired one.         *)
LEMMA InsertFacts ==
  ASSUME IndInv, NEW row \in PerformanceNAV, Insert(row)
  PROVE  /\ navs' \in Seq(PerformanceNAV) /\ Len(navs') = Len(navs) + 1
         /\ Rows' = Rows \cup {Len(navs) + 1} /\ Len(navs) + 1 \notin Rows
         /\ navs'[Len(navs) + 1] = row
         /\ \A k \in Rows :
              /\ navs'[k].day = navs[k].day /\ navs'[k].version = navs[k].version
              /\ navs'[k].status = navs[k].status /\ navs'[k].base = navs[k].base
              /\ navs'[k].calculated = navs[k].calculated
              /\ navs'[k].current = (navs[k].current /\ k \notin Current(row.day))
  <1> DEFINE old == [k \in Rows |-> IF k \in Current(row.day)
                                    THEN [navs[k] EXCEPT !.current = FALSE] ELSE navs[k]]
  <1>1. /\ Len(navs) \in Nat /\ Rows = 1 .. Len(navs)
        /\ \A k \in Rows : navs[k] \in PerformanceNAV
    BY RowFacts DEF IndInv
  <1>3. \A k \in Rows : /\ old[k] \in PerformanceNAV
                        /\ old[k].day = navs[k].day /\ old[k].version = navs[k].version
                        /\ old[k].status = navs[k].status /\ old[k].base = navs[k].base
                        /\ old[k].calculated = navs[k].calculated
                        /\ old[k].current = (navs[k].current /\ k \notin Current(row.day))
    <2> TAKE k \in Rows
    <2>1. navs[k] \in PerformanceNAV
      BY <1>1
    <2>2. CASE k \in Current(row.day)
      <3>1. old[k] = [navs[k] EXCEPT !.current = FALSE]
        BY <2>2
      <3> HIDE DEF old
      <3> QED
        BY <2>1, <2>2, <3>1 DEF PerformanceNAV
    <2>3. CASE k \notin Current(row.day)
      <3>1. old[k] = navs[k]
        BY <2>3
      <3> HIDE DEF old
      <3> QED
        BY <2>1, <2>3, <3>1 DEF PerformanceNAV
    <2> QED
      BY <2>2, <2>3
  <1>4. DOMAIN old = Rows
    OBVIOUS
  <1>5. navs' = Append(old, row)
    BY DEF Insert
  <1>6. old \in [1 .. Len(navs) -> PerformanceNAV]
    BY <1>1, <1>3
  <1> HIDE DEF old
  <1>7. old \in Seq(PerformanceNAV) /\ Len(old) = Len(navs)
    BY <1>1, <1>6
  <1>8. /\ navs' \in Seq(PerformanceNAV) /\ Len(navs') = Len(navs) + 1
        /\ navs'[Len(navs) + 1] = row
        /\ \A k \in Rows : navs'[k] = old[k]
    BY <1>1, <1>5, <1>7, AppendProperties
  <1>9. Rows' = 1 .. Len(navs) + 1
    BY <1>1, <1>8 DEF Rows
  <1> QED
    BY <1>1, <1>3, <1>8, <1>9

(* A rebuild that meets no conflict has read the newest version.           *)
LEMMA NewestRead ==
  ASSUME IndInv, NEW o \in Ops, pc[o] = "publish", ~ Conflict(o)
  PROVE  version[o] = Count(op[o].day)
  <1>1. op[o].day \in Days /\ Numbered(op[o].day) /\ Count(op[o].day) \in Nat
    BY PlanFacts, CountType DEF IndInv, NumberingInv
  <1>2. version[o] \in 0 .. Count(op[o].day)
    BY DEF IndInv, NumberingInv
  <1>3. version[o] + 1 \notin 1 .. Count(op[o].day)
    BY <1>1 DEF Conflict, Numbered, DayRows
  <1> QED
    BY <1>1, <1>2, <1>3

LEMMA InsertCounts ==
  ASSUME IndInv, NEW row \in PerformanceNAV, Insert(row), NEW d, d = row.day
  PROVE  /\ DayRows(d)' = DayRows(d) \cup {Len(navs) + 1}
         /\ Count(d)' = Count(d) + 1
         /\ \A e : e # d => DayRows(e)' = DayRows(e) /\ Count(e)' = Count(e)
  <1>2. DayRows(d)' = DayRows(d) \cup {Len(navs) + 1}
    BY InsertFacts DEF DayRows
  <1>3. \A e : e # d => DayRows(e)' = DayRows(e)
    BY InsertFacts DEF DayRows
  <1>4. Len(navs) + 1 \notin DayRows(d) /\ IsFiniteSet(DayRows(d))
    BY InsertFacts, CountType DEF DayRows, IndInv
  <1>5. Cardinality(DayRows(d) \cup {Len(navs) + 1}) = Count(d) + 1
    BY <1>4, FS_AddElement DEF Count
  <1> QED
    BY <1>2, <1>3, <1>5 DEF Count

LEMMA InsertNumbers ==
  ASSUME IndInv, NEW row \in PerformanceNAV, Insert(row), NEW e \in Days,
         row.version = Count(row.day) + 1, row.current
  PROVE  Numbered(e)'
  <1> DEFINE d == row.day
             n == Len(navs) + 1
  <1>1. Numbered(e) /\ Count(e) \in Nat
    BY CountType DEF IndInv, NumberingInv
  <1>2. DayRows(e) \subseteq Rows
    BY DEF DayRows
  <1>3. CASE e # d
    <2>1. DayRows(e)' = DayRows(e) /\ Count(e)' = Count(e)
      BY <1>3, InsertCounts
    <2>2. \A k \in DayRows(e) : /\ navs'[k].version = navs[k].version
                                /\ navs'[k].current = (navs[k].current /\ k \notin Current(d))
                                /\ k \notin Current(d)
      BY <1>2, <1>3, InsertFacts DEF Current, DayRows
    <2>3. \A k \in DayRows(e) : navs'[k].current = navs[k].current
      <3> TAKE k \in DayRows(e)
      <3>1. navs[k].current \in BOOLEAN
        BY <1>2, RowFacts DEF IndInv, PerformanceNAV
      <3> QED
        BY <2>2, <3>1
    <2> QED
      BY <1>1, <2>1, <2>2, <2>3 DEF Numbered
  <1>4. CASE e = d
    <2>1. DayRows(e)' = DayRows(e) \cup {n} /\ Count(e)' = Count(e) + 1
      BY <1>4, InsertCounts
    <2>2. navs'[n].version = Count(e) + 1 /\ navs'[n].current = TRUE
      <3>1. navs'[n] = row
        BY InsertFacts
      <3>2. row.current \in BOOLEAN
        BY DEF PerformanceNAV
      <3> QED
        BY <1>4, <3>1, <3>2
    <2>3. \A k \in DayRows(e) : navs'[k].version = navs[k].version /\ navs[k].version \in 1 .. Count(e)
      BY <1>1, <1>2, InsertFacts DEF Numbered
    <2>4. \A k \in DayRows(e) : navs'[k].current = FALSE
      BY <1>2, <1>4, InsertFacts DEF Current, DayRows
    <2>5. \A k \in DayRows(e)' : navs'[k].version \in 1 .. Count(e)'
      BY <1>1, <2>1, <2>2, <2>3
    <2>6. \A v \in 1 .. Count(e)' : \E k \in DayRows(e)' : navs'[k].version = v
      <3> TAKE v \in 1 .. Count(e)'
      <3>1. v \in 1 .. Count(e) \/ v = Count(e) + 1
        BY <1>1, <2>1
      <3>2. v \in 1 .. Count(e) => \E k \in DayRows(e) : navs[k].version = v
        BY <1>1 DEF Numbered
      <3> QED
        BY <2>1, <2>2, <2>3, <3>1, <3>2
    <2>7. \A j, k \in DayRows(e)' : navs'[j].version = navs'[k].version => j = k
      BY <1>1, <2>1, <2>2, <2>3 DEF Numbered
    <2>8. \A k \in DayRows(e)' : navs'[k].current <=> navs'[k].version = Count(e)'
      BY <1>1, <2>1, <2>2, <2>3, <2>4
    <2> QED
      BY <2>5, <2>6, <2>7, <2>8 DEF Numbered
  <1> QED
    BY <1>3, <1>4

(* UpsertPerformanceNAV with a row that has the next number of its day.    *)
LEMMA InsertStep ==
  ASSUME IndInv, NEW o \in Ops, NEW row \in PerformanceNAV, NEW l \in {"sameday", "done"},
         UpsertPerformanceNAV(o, row), Goto(o, l), row.version = Count(row.day) + 1, row.current,
         UNCHANGED <<op, was, recon, version, base>>
  PROVE  IndInv'
  <1> USE DEF IndInv
  <1> DEFINE n == Len(navs) + 1
  <1>0. Ops' = Ops /\ NAVReconciliation' = NAVReconciliation
    BY DEF Ops, NAVReconciliation
  <1>1. Insert(row) /\ recons' = Append(recons, None) /\ nav' = [nav EXCEPT ![o] = n]
    BY DEF UpsertPerformanceNAV
  <1>2. overtaken' \subseteq Ops /\ overtaken \subseteq overtaken'
    BY DEF UpsertPerformanceNAV, TypeOK
  <1>3. /\ navs' \in Seq(PerformanceNAV) /\ Len(navs') = n /\ Rows' = Rows \cup {n} /\ n \notin Rows
        /\ Rows = 1 .. Len(navs) /\ Len(navs) \in Nat /\ DOMAIN recons = Rows
        /\ \A k \in Rows : navs'[k].status = navs[k].status
    BY <1>1, InsertFacts, RowFacts
  <1>4. PerformanceNAV \subseteq PerformanceNAV'
    BY <1>3 DEF PerformanceNAV
  <1>5. /\ recons' \in Seq({None} \cup NAVReconciliation) /\ Len(recons') = n
        /\ \A k \in Rows : recons'[k] = recons[k]
    BY <1>1, <1>3, AppendProperties DEF TypeOK
  <1>6. TypeOK'
    <2>1. navs' \in Seq(PerformanceNAV')
      BY <1>3, <1>4
    <2>2. nav' \in [Ops -> {0} \cup Rows']
      BY <1>1, <1>3 DEF TypeOK
    <2> QED
      BY <1>0, <1>2, <1>3, <1>5, <2>1, <2>2 DEF TypeOK
  <1>7. LocalInv'
    <2>1. base' \in [Ops -> {0} \cup Rows']
      BY <1>3 DEF LocalInv
    <2>2. pc' \in [Ops -> Labels]
      BY DEF LocalInv, Goto, Labels
    <2>3. \A q \in Ops : pc'[q] \in {"sameday", "observed", "record", "reviewed", "status"} => nav'[q] \in Rows'
      BY <1>1, <1>3 DEF LocalInv, Goto, TypeOK
    <2>4. \A q \in Ops : pc'[q] = "reviewed" => recon[q] \in NAVReconciliation
      BY DEF LocalInv, Goto
    <2> QED
      BY <1>0, <2>1, <2>2, <2>3, <2>4 DEF LocalInv
  <1>8. NumberingInv'
    <2>1. \A d \in Days : Numbered(d)'
      BY <1>1, InsertNumbers
    <2>2. \A d \in Days : Count(d) \in Nat /\ Count(d)' \in Nat /\ Count(d) <= Count(d)'
      <3> TAKE d \in Days
      <3>1. Count(d) \in Nat
        BY CountType
      <3>2. CASE d = row.day
        BY <1>1, <3>1, <3>2, InsertCounts
      <3>3. CASE d # row.day
        BY <1>1, <3>1, <3>3, InsertCounts
      <3> QED
        BY <3>2, <3>3
    <2>3. \A q \in Ops : pc'[q] = "publish" => pc[q] = "publish" /\ op[q].day \in Days
      BY PlanFacts DEF Goto, LocalInv
    <2>4. \A q \in Ops : pc'[q] = "publish" => version[q] \in 0 .. Count(op[q].day)'
      BY <2>2, <2>3 DEF NumberingInv
    <2> QED
      BY <1>0, <2>1, <2>4 DEF NumberingInv
  <1>9. ReviewInv'
    <2> SUFFICES ASSUME NEW q \in Ops \ overtaken' PROVE Relies(q)'
      BY <1>0 DEF ReviewInv
    <2>0. q \in Ops \ overtaken /\ DOMAIN pc = Ops /\ DOMAIN nav = Ops
      BY <1>2 DEF TypeOK, LocalInv
    <2>1. CASE q = o
      <3>1. pc'[q] \in {"sameday", "done"}
        BY <2>0, <2>1 DEF Goto
      <3> QED
        BY <3>1 DEF Relies
    <2>2. CASE q # o
      <3>1. pc'[q] = pc[q] /\ nav'[q] = nav[q]
        BY <1>1, <2>0, <2>2 DEF Goto
      <3>2. pc[q] \in {"record", "reviewed", "status"} => nav[q] \in Rows
        BY DEF LocalInv
      <3>3. pc[q] \in {"record", "reviewed", "status"} =>
              navs'[nav[q]].status = navs[nav[q]].status /\ recons'[nav[q]] = recons[nav[q]]
        BY <1>3, <1>5, <3>2
      <3> QED
        BY <2>0, <3>1, <3>3, KeepsRelying DEF ReviewInv
    <2> QED
      BY <2>1, <2>2
  <1> QED
    BY <1>6, <1>7, <1>8, <1>9

(* What a rebuild and an import insert.                                    *)
LEMMA NewRow ==
  ASSUME IndInv, NEW o \in Ops, pc[o] = "publish", ~ Conflict(o)
  PROVE  /\ NewNAV(o) \in PerformanceNAV /\ NewNAV(o).day = op[o].day
         /\ NewNAV(o).version = Count(NewNAV(o).day) + 1 /\ NewNAV(o).current
  <1>1. NewNAV(o) \in PerformanceNAV
    BY PlanFacts DEF IndInv, LocalInv, NewNAV, Calculated, PerformanceNAV, Statuses
  <1>2. version[o] = Count(op[o].day)
    BY NewestRead
  <1> QED
    BY <1>1, <1>2 DEF NewNAV

LEMMA StatementRow ==
  ASSUME IndInv, NEW o \in Ops
  PROVE  /\ StatementNAV(o) \in PerformanceNAV /\ StatementNAV(o).day = op[o].day
         /\ StatementNAV(o).version = Count(StatementNAV(o).day) + 1 /\ StatementNAV(o).current
  <1>1. op[o].day \in Days /\ Count(op[o].day) \in Nat
    BY PlanFacts, CountType DEF IndInv
  <1>2. Cardinality({k \in Rows : navs[k].day = op[o].day}) = Count(op[o].day)
    BY DEF Count, DayRows
  <1>3. StatementNAV(o) \in PerformanceNAV
    BY <1>1, <1>2, NavBookAssumption DEF StatementNAV, PerformanceNAV, Statuses
  <1> QED
    BY <1>2, <1>3 DEF StatementNAV

LEMMA UpsertNAVStep ==
  ASSUME IndInv, NEW o \in Ops, UpsertNAV(o), op' = op
  PROVE  IndInv'
  <1> USE DEF IndInv
  <1>0. Ops' = Ops /\ NAVReconciliation' = NAVReconciliation
    BY DEF Ops, NAVReconciliation
  <1>1. CASE ~ Conflict(o)
    <2> DEFINE row == NewNAV(o)
    <2>1. /\ UpsertPerformanceNAV(o, row) /\ Goto(o, "sameday") /\ pc[o] = "publish"
          /\ UNCHANGED <<was, recon, version, base>>
      BY <1>1 DEF UpsertNAV
    <2>2. row \in PerformanceNAV /\ row.version = Count(row.day) + 1 /\ row.current
      BY <1>1, <2>1, NewRow
    <2> HIDE DEF row
    <2> QED
      BY <2>1, <2>2, InsertStep
  <1>2. CASE Conflict(o)
    <2>1. Goto(o, "done") /\ UNCHANGED <<navs, recons, nav, overtaken, was, recon, version, base>>
      BY <1>2 DEF UpsertNAV
    <2>2. Rows' = Rows /\ \A d : Count(d)' = Count(d) /\ (Numbered(d) => Numbered(d)')
      BY <2>1, SameBook
    <2>3. TypeOK'
      BY <2>1, SameTables DEF TypeOK
    <2>4. LocalInv'
      BY <1>0, <2>1, <2>2 DEF Goto, LocalInv, Labels
    <2>5. NumberingInv'
      BY <1>0, <2>1, <2>2 DEF Goto, NumberingInv, LocalInv
    <2>6. ReviewInv'
      <3> SUFFICES ASSUME NEW q \in Ops \ overtaken PROVE Relies(q)'
        BY <1>0, <2>1 DEF ReviewInv
      <3>1. CASE q = o
        BY <2>1, <3>1 DEF Goto, LocalInv, Relies
      <3>2. CASE q # o
        BY <2>1, <3>2, KeepsRelying DEF Goto, LocalInv, ReviewInv
      <3> QED
        BY <3>1, <3>2
    <2> QED
      BY <2>3, <2>4, <2>5, <2>6
  <1> QED
    BY <1>1, <1>2

LEMMA ImportStatementStep ==
  ASSUME IndInv, NEW o \in Ops, ImportStatement(o), op' = op
  PROVE  IndInv'
  <1> DEFINE row == StatementNAV(o)
  <1>1. UpsertPerformanceNAV(o, row) /\ Goto(o, "done") /\ UNCHANGED <<was, recon, version, base>>
    BY DEF ImportStatement
  <1>2. row \in PerformanceNAV /\ row.version = Count(row.day) + 1 /\ row.current
    BY StatementRow
  <1> HIDE DEF row
  <1> QED
    BY <1>1, <1>2, InsertStep

LEMMA NextInv == IndInv /\ [Next]_vars => IndInv'
  <1> SUFFICES ASSUME IndInv, [Next]_vars PROVE IndInv'
    OBVIOUS
  <1>1. ASSUME NEW o \in Ops, Operation(o), op' = op PROVE IndInv'
    BY <1>1, RebuildContextStep, UpsertNAVStep, ImportStatementStep, RebuildReconciliationStep, ReadCurrentStep,
       ReconcileWriteStep, ReviewDecideStep, ReviewWriteStep, ReviewStatusStep
    DEF Operation
  <1>2. CASE UNCHANGED vars
    <2> USE <1>2 DEF vars, tables, local
    <2>1. TypeOK'
      BY SameTables DEF IndInv, TypeOK
    <2>2. /\ Rows' = Rows /\ Ops' = Ops
          /\ \A d : Count(d)' = Count(d) /\ (Numbered(d) => Numbered(d)')
      BY SameBook DEF IndInv, Ops
    <2>3. LocalInv' /\ NumberingInv'
      BY <2>2 DEF IndInv, LocalInv, NumberingInv, NAVReconciliation
    <2>4. ReviewInv'
      BY <2>2, KeepsRelying DEF IndInv, ReviewInv
    <2> QED
      BY <2>1, <2>3, <2>4 DEF IndInv
  <1> QED
    BY <1>1, <1>2 DEF Next

(* Every statement of the operations, in any interleaving, keeps what the  *)
(* tables and the operations that read them rely on.                       *)
THEOREM IndInvHolds == Spec => []IndInv
  BY InitInv, NextInv, PTL DEF Spec

(* Rebuilds, reconciliations and reviews share no lock, and still every    *)
(* day keeps one current NAV, its newest version, numbered without a hole: *)
(* the unique index turns an overtaken rebuild into a failure.             *)
THEOREM OneCurrentNAV == Spec => []OneCurrent
  <1>1. IndInv => OneCurrent
    <2> SUFFICES ASSUME IndInv, NEW d \in Days
                 PROVE  /\ {navs[k].version : k \in DayRows(d)} = 1 .. Count(d)
                        /\ \A k \in DayRows(d) : navs[k].current <=> navs[k].version = Count(d)
      BY DEF OneCurrent, DayRows, Count, IndInv
    <2> QED
      BY DEF IndInv, NumberingInv, Numbered
  <1> QED
    BY <1>1, IndInvHolds, PTL

(* ReviewNAVReconciliation decides on a NAV and a record it read in        *)
(* earlier statements: unless somebody wrote them meanwhile, they are in   *)
(* the tables what it decided on when it confirms them without force.      *)
THEOREM ReviewedWithinWarning == Spec => []ConfirmedWithinWarning
  <1>1. IndInv => ConfirmedWithinWarning
    BY DEF IndInv, ReviewInv, Relies, ConfirmedWithinWarning, NeedsForce
  <1> QED
    BY <1>1, IndInvHolds, PTL
-----------------------------------------------------------------------------
(* The refinement.  The history of a day in a book b: the statuses of its  *)
(* versions, which their numbers determine.                                *)
RowsOf(b, d) == {k \in DOMAIN b : b[k].day = d}
HistoryOf(b, d) ==
  LET ks == RowsOf(b, d)
  IN  [v \in 1 .. Cardinality(ks) |->
         b[CHOOSE k \in ks : b[k].version = v \/ \A j \in ks : b[j].version # v].status]

LEMMA HistoryFacts ==
  ASSUME NEW b, NEW d, NEW n \in Nat, n = Cardinality(RowsOf(b, d)),
         \A k \in RowsOf(b, d) : b[k].version \in 1 .. n,
         \A v \in 1 .. n : \E k \in RowsOf(b, d) : b[k].version = v,
         \A j, k \in RowsOf(b, d) : b[j].version = b[k].version => j = k
  PROVE  /\ HistoryOf(b, d) = [v \in 1 .. n |-> HistoryOf(b, d)[v]]
         /\ \A k \in RowsOf(b, d) : HistoryOf(b, d)[b[k].version] = b[k].status
  <1> DEFINE ks == RowsOf(b, d)
             at(v) == CHOOSE k \in ks : b[k].version = v \/ \A j \in ks : b[j].version # v
  <1>1. HistoryOf(b, d) = [v \in 1 .. n |-> b[at(v)].status]
    BY DEF HistoryOf
  <1>2. \A k \in ks : at(b[k].version) = k
    <2> TAKE k \in ks
    <2>1. \E i \in ks : b[i].version = b[k].version \/ \A j \in ks : b[j].version # b[k].version
      OBVIOUS
    <2>2. /\ at(b[k].version) \in ks
          /\ \/ b[at(b[k].version)].version = b[k].version
             \/ \A j \in ks : b[j].version # b[k].version
      BY <2>1
    <2> QED
      BY <2>2
  <1> HIDE DEF at, ks
  <1> QED
    BY <1>1, <1>2 DEF ks

LEMMA HistoryNow ==
  ASSUME IndInv, NEW d \in Days
  PROVE  /\ History[d] = [v \in 1 .. Count(d) |-> History[d][v]] /\ Count(d) \in Nat
         /\ \A k \in DayRows(d) : History[d][navs[k].version] = navs[k].status
         /\ History[d] \in Seq(Statuses) /\ Len(History[d]) = Count(d)
  <1>1. RowsOf(navs, d) = DayRows(d) /\ Count(d) = Cardinality(RowsOf(navs, d)) /\ Count(d) \in Nat
    BY CountType DEF RowsOf, DayRows, Rows, Count, IndInv
  <1>2. History[d] = HistoryOf(navs, d)
    BY DEF History, HistoryOf, RowsOf, Rows
  <1>3. /\ History[d] = [v \in 1 .. Count(d) |-> History[d][v]]
        /\ \A k \in DayRows(d) : History[d][navs[k].version] = navs[k].status
    BY <1>1, <1>2, HistoryFacts DEF IndInv, NumberingInv, Numbered
  <1>4. \A v \in 1 .. Count(d) : History[d][v] \in Statuses
    <2> TAKE v \in 1 .. Count(d)
    <2>1. PICK k \in DayRows(d) : navs[k].version = v
      BY DEF IndInv, NumberingInv, Numbered
    <2>2. navs[k].status \in Statuses
      BY RowFacts DEF IndInv, DayRows, PerformanceNAV
    <2> QED
      BY <1>3, <2>1, <2>2
  <1>5. History[d] \in [1 .. Count(d) -> Statuses]
    BY <1>3, <1>4
  <1> QED
    BY <1>1, <1>3, <1>5

LEMMA HistoryNext ==
  ASSUME IndInv', NEW d \in Days
  PROVE  /\ History'[d] = [v \in 1 .. Count(d)' |-> History'[d][v]] /\ Count(d)' \in Nat
         /\ \A k \in DayRows(d)' : History'[d][navs'[k].version] = navs'[k].status
  <1>1. RowsOf(navs', d) = DayRows(d)' /\ Count(d)' = Cardinality(RowsOf(navs', d))
    BY DEF RowsOf, DayRows, Rows, Count
  <1>2. Count(d)' \in Nat
    <2>1. IsFiniteSet(Rows')
      BY FS_Interval DEF IndInv, TypeOK, Rows
    <2> QED
      BY <2>1, FS_Subset, FS_CardinalityType DEF Count, DayRows
  <1>3. History'[d] = HistoryOf(navs', d)
    BY DEF History, HistoryOf, RowsOf, Rows
  <1>4. Numbered(d)'
    BY DEF IndInv, NumberingInv
  <1> QED
    BY <1>1, <1>2, <1>3, <1>4, HistoryFacts DEF Numbered

(* A step that keeps the rows of a day, their numbers and their statuses,  *)
(* keeps its history.                                                      *)
LEMMA SameHistory ==
  ASSUME IndInv, IndInv', NEW d \in Days, DayRows(d)' = DayRows(d), Count(d)' = Count(d),
         \A k \in DayRows(d) : navs'[k].version = navs[k].version /\ navs'[k].status = navs[k].status
  PROVE  History'[d] = History[d]
  <1>1. \A v \in 1 .. Count(d) : History'[d][v] = History[d][v]
    <2> TAKE v \in 1 .. Count(d)
    <2>1. PICK k \in DayRows(d) : navs[k].version = v
      BY DEF IndInv, NumberingInv, Numbered
    <2>2. History[d][v] = navs[k].status
      BY <2>1, HistoryNow
    <2>3. k \in DayRows(d)' /\ navs'[k].version = v
      BY <2>1
    <2>4. History'[d][v] = navs'[k].status
      BY <2>3, HistoryNext
    <2> QED
      BY <2>2, <2>4
  <1>2. History[d] = [v \in 1 .. Count(d) |-> History[d][v]]
    BY HistoryNow
  <1>3. History'[d] = [v \in 1 .. Count(d) |-> History'[d][v]]
    BY HistoryNext
  <1> QED
    BY <1>1, <1>2, <1>3

LEMMA UnchangedMaps ==
  ASSUME navs' = navs
  PROVE  History' = History
  BY DEF History, Rows

LEMMA InsertMaps ==
  ASSUME IndInv, IndInv', NEW row \in PerformanceNAV, Insert(row), row.version = Count(row.day) + 1
  PROVE  [Book!Next]_History
  <1> DEFINE d == row.day
             n == Len(navs) + 1
             s == row.status
  <1>0. d \in Days /\ s \in Statuses
    BY DEF PerformanceNAV
  <1> QED
    <2>1. Insert(row) /\ row.version = Count(d) + 1
      OBVIOUS
    <2>2. DayRows(d)' = DayRows(d) \cup {n} /\ Count(d)' = Count(d) + 1
      BY <2>1, InsertCounts
    <2>3. \A e \in Days : e # d => History'[e] = History[e]
      <3> SUFFICES ASSUME NEW e \in Days, e # d PROVE History'[e] = History[e]
        OBVIOUS
      <3>1. DayRows(e)' = DayRows(e) /\ Count(e)' = Count(e)
        BY <2>1, InsertCounts
      <3>2. \A k \in DayRows(e) : navs'[k].version = navs[k].version /\ navs'[k].status = navs[k].status
        BY <2>1, InsertFacts DEF DayRows
      <3> QED
        BY <3>1, <3>2, SameHistory
    <2>4. navs'[n].version = Count(d) + 1 /\ navs'[n].status = s
      <3>1. navs'[n] = row
        BY <2>1, InsertFacts
      <3> QED
        BY <2>1, <3>1
    <2>5. Count(d) \in Nat /\ History[d] \in Seq(Statuses) /\ Len(History[d]) = Count(d)
      BY <1>0, HistoryNow
    <2>6. \A v \in 1 .. Count(d) : History'[d][v] = History[d][v]
      <3> TAKE v \in 1 .. Count(d)
      <3>1. PICK k \in DayRows(d) : navs[k].version = v
        BY <1>0 DEF IndInv, NumberingInv, Numbered
      <3>2. navs'[k].version = v /\ navs'[k].status = navs[k].status /\ k \in DayRows(d)'
        BY <2>1, <2>2, <3>1, InsertFacts DEF DayRows
      <3>3. History[d][v] = navs[k].status
        BY <1>0, <3>1, HistoryNow
      <3>4. History'[d][v] = navs'[k].status
        BY <1>0, <3>2, HistoryNext
      <3> QED
        BY <3>2, <3>3, <3>4
    <2>7. History'[d][Count(d) + 1] = s
      <3>1. n \in DayRows(d)'
        BY <2>2
      <3> QED
        BY <1>0, <2>4, <3>1, HistoryNext, ZenonT(60)
    <2>8. History'[d] = [v \in 1 .. Count(d) + 1 |-> History'[d][v]]
      BY <1>0, <2>2, HistoryNext
    <2> HIDE DEF d, s
    <2>9. History'[d] = Append(History[d], s)
      <3> DEFINE h == History[d]
                 hp == History'[d]
                 c == Count(d)
      <3>1. /\ h \in Seq(Statuses) /\ Len(h) = c /\ c \in Nat
            /\ hp = [v \in 1 .. c + 1 |-> hp[v]] /\ hp[c + 1] = s
            /\ \A v \in 1 .. c : hp[v] = h[v]
        BY <2>5, <2>6, <2>7, <2>8
      <3> HIDE DEF h, hp, c
      <3>2. \A v \in 1 .. c + 1 : hp[v] = Append(h, s)[v]
        BY <1>0, <3>1, AppendProperties, SMTT(30)
      <3>3. Append(h, s) = [v \in 1 .. c + 1 |-> Append(h, s)[v]]
        <4> DEFINE a == Append(h, s)
        <4>1. a \in Seq(Statuses) /\ Len(a) = c + 1
          BY <1>0, <3>1, AppendProperties
        <4> HIDE DEF a
        <4>2. a = [v \in 1 .. Len(a) |-> a[v]]
          BY <4>1
        <4> QED
          BY <4>1, <4>2 DEF a
      <3>4. hp = Append(h, s)
        BY <3>1, <3>2, <3>3
      <3> QED
        BY <3>4 DEF h, hp
    <2>10. History = [e \in Days |-> History[e]] /\ History' = [e \in Days |-> History'[e]]
      BY DEF History
    <2>11. History' = [History EXCEPT ![d] = Append(@, s)]
      <3> DEFINE h == History
                 hp == History'
      <3> HIDE DEF h, hp
      <3>1. h = [e \in Days |-> h[e]] /\ hp = [e \in Days |-> hp[e]]
        BY <2>10 DEF h, hp
      <3>2. \A e \in Days : hp[e] = IF e = d THEN Append(h[d], s) ELSE h[e]
        BY <2>3, <2>9 DEF h, hp
      <3>3. hp = [h EXCEPT ![d] = Append(@, s)]
        BY <3>1, <3>2
      <3> QED
        BY <3>3 DEF h, hp
    <2>12. Book!Publish(d, s)
      BY <2>11 DEF Book!Publish
    <2> QED
      BY <1>0, <2>12 DEF Book!Next

LEMMA UpsertNAVMaps ==
  ASSUME IndInv, IndInv', NEW o \in Ops, UpsertNAV(o) \/ ImportStatement(o), op' = op
  PROVE  [Book!Next]_History
  <1>1. CASE UpsertNAV(o) /\ Conflict(o)
    BY <1>1, UnchangedMaps DEF UpsertNAV
  <1>2. CASE UpsertNAV(o) /\ ~ Conflict(o)
    <2>1. Insert(NewNAV(o)) /\ pc[o] = "publish"
      BY <1>2 DEF UpsertNAV, UpsertPerformanceNAV
    <2> QED
      BY <1>2, <2>1, NewRow, InsertMaps
  <1>3. CASE ImportStatement(o)
    <2>1. Insert(StatementNAV(o))
      BY <1>3 DEF ImportStatement, UpsertPerformanceNAV
    <2> QED
      BY <2>1, StatementRow, InsertMaps
  <1> QED
    BY <1>1, <1>2, <1>3

(* A review changes a row only while it is current, which is the newest.   *)
LEMMA ReviewStatusMaps ==
  ASSUME IndInv, IndInv', NEW o \in Ops, ReviewStatus(o), op' = op
  PROVE  [Book!Next]_History
  <1> DEFINE k == nav[o]
             d == navs[k].day
             s == IF op[o].action = "confirm" THEN "finalized" ELSE "blocked"
             c == Count(d)
  <1>0. k \in Rows /\ navs[k] \in PerformanceNAV /\ s \in Statuses
    BY RowFacts DEF IndInv, LocalInv, ReviewStatus, Statuses
  <1>1. CASE ~ Reviewable(k)
    BY <1>1, UnchangedMaps DEF ReviewStatus
  <1>2. CASE Reviewable(k)
    <2>1. navs' = [navs EXCEPT ![k].status = s]
      BY <1>2 DEF ReviewStatus
    <2>2. d \in Days /\ k \in DayRows(d) /\ navs[k].version = c
      <3>1. d \in Days /\ k \in DayRows(d)
        BY <1>0 DEF PerformanceNAV, DayRows
      <3> QED
        BY <1>2, <3>1 DEF Reviewable, IndInv, NumberingInv, Numbered
    <2>3. Rows' = Rows
      BY <2>1 DEF Rows
    <2>4. /\ \A j \in Rows : navs'[j].day = navs[j].day /\ navs'[j].version = navs[j].version
          /\ \A j \in Rows : j # k => navs'[j].status = navs[j].status
          /\ navs'[k].status = s
      BY <1>0, <2>1, RowFacts DEF IndInv, PerformanceNAV, Rows
    <2>5. \A e : DayRows(e)' = DayRows(e) /\ Count(e)' = Count(e)
      <3>1. \A e : DayRows(e)' = DayRows(e)
        BY <2>3, <2>4 DEF DayRows
      <3> QED
        BY <3>1 DEF Count
    <2> HIDE DEF s
    <2>6. \A e \in Days : e # d => History'[e] = History[e]
      <3> SUFFICES ASSUME NEW e \in Days, e # d PROVE History'[e] = History[e]
        OBVIOUS
      <3>1. \A j \in DayRows(e) : navs'[j].version = navs[j].version /\ navs'[j].status = navs[j].status
        BY <2>4 DEF DayRows
      <3> QED
        BY <2>5, <3>1, SameHistory
    <2>7. PICK x \in Days : x = d
      BY <2>2
    <2>8. DayRows(x) = DayRows(d) /\ Count(x) = c
      BY <2>7
    <2> HIDE DEF d, c
    <2>9. /\ History[x] \in Seq(Statuses) /\ Len(History[x]) = c /\ c \in Nat /\ c \in 1 .. c
          /\ History'[x] = [v \in 1 .. c |-> History'[x][v]]
      <3>1. c \in 1 .. c
        BY <2>2, <2>7, <2>8 DEF IndInv, NumberingInv, Numbered
      <3> QED
        BY <2>5, <2>8, <3>1, HistoryNow, HistoryNext
    <2>10. \A v \in 1 .. c : History'[x][v] = IF v = c THEN s ELSE History[x][v]
      <3> TAKE v \in 1 .. c
      <3>1. PICK j \in DayRows(x) : navs[j].version = v
        BY <2>8 DEF IndInv, NumberingInv, Numbered
      <3>2. j \in Rows /\ navs'[j].version = v /\ j \in DayRows(x)'
        BY <2>4, <2>5, <3>1 DEF DayRows
      <3>3. History[x][v] = navs[j].status
        BY <3>1, HistoryNow
      <3>4. History'[x][v] = navs'[j].status
        BY <3>2, HistoryNext
      <3>5. j = k <=> v = c
        BY <2>2, <2>7, <3>1 DEF IndInv, NumberingInv, Numbered
      <3> QED
        BY <2>4, <3>2, <3>3, <3>4, <3>5
    <2>11. History = [e \in Days |-> History[e]] /\ History' = [e \in Days |-> History'[e]]
      BY DEF History
    <2>12. History' = [History EXCEPT ![x][Len(History[x])] = s] /\ History[x] # <<>>
      <3> DEFINE h == History
                 hp == History'
      <3> HIDE DEF h, hp
      <3>1. h = [e \in Days |-> h[e]] /\ hp = [e \in Days |-> hp[e]]
        BY <2>11 DEF h, hp
      <3>2. \A e \in Days : e # x => hp[e] = h[e]
        BY <2>6, <2>7 DEF h, hp
      <3>3. /\ h[x] \in Seq(Statuses) /\ Len(h[x]) = c /\ c \in Nat /\ c \in 1 .. c
            /\ hp[x] = [v \in 1 .. c |-> hp[x][v]]
            /\ \A v \in 1 .. c : hp[x][v] = IF v = c THEN s ELSE h[x][v]
        BY <2>9, <2>10 DEF h, hp
      <3>4. DOMAIN h[x] = 1 .. c /\ h[x] # <<>>
        BY <3>3
      <3>5. hp[x] = [h[x] EXCEPT ![c] = s]
        BY <3>3, <3>4
      <3>6. hp = [h EXCEPT ![x] = [h[x] EXCEPT ![c] = s]]
        BY <3>1, <3>2, <3>5
      <3>7. hp = [h EXCEPT ![x][Len(h[x])] = s]
        BY <3>3, <3>6
      <3> QED
        BY <3>4, <3>7 DEF h, hp
    <2>13. Book!Review(x, s)
      BY <2>12 DEF Book!Review
    <2> QED
      BY <1>0, <2>13 DEF Book!Next
  <1> QED
    BY <1>1, <1>2

LEMMA StepMaps == IndInv /\ IndInv' /\ [Next]_vars => [Book!Next]_History
  <1> SUFFICES ASSUME IndInv, IndInv', [Next]_vars PROVE [Book!Next]_History
    OBVIOUS
  <1>1. CASE navs' = navs
    BY <1>1, UnchangedMaps
  <1>2. ASSUME NEW o \in Ops, Operation(o), op' = op, navs' # navs
        PROVE  UpsertNAV(o) \/ ImportStatement(o) \/ ReviewStatus(o)
    BY <1>2 DEF Operation, RebuildContext, RebuildReconciliation, ReconcileRead, ReconcileWrite,
                ReviewRead, ReviewDecide, ReviewWrite, tables
  <1>3. CASE navs' # navs
    BY <1>2, <1>3, UpsertNAVMaps, ReviewStatusMaps DEF Next, vars, tables
  <1> QED
    BY <1>1, <1>3

(* The two tables, written by operations that share no lock, implement the *)
(* versioned book: UpsertPerformanceNAV adds a version, and an overtaken   *)
(* review changes neither the retired version nor the new one.             *)
THEOREM Refinement == Spec => ImplementsBook
  <1>1. Init => Book!Init
    <2> SUFFICES ASSUME Init PROVE History = [d \in Days |-> <<>>]
      BY DEF Book!Init
    <2>1. Rows = {}
      BY DEF Init, Rows
    <2>2. \A d \in Days : HistoryOf(navs, d) = <<>>
      <3> TAKE d \in Days
      <3>1. RowsOf(navs, d) = {} /\ Cardinality(RowsOf(navs, d)) = 0
        BY <2>1, FS_EmptySet DEF RowsOf, Rows
      <3> QED
        BY <3>1 DEF HistoryOf
    <2>3. History = [d \in Days |-> HistoryOf(navs, d)]
      BY DEF History, HistoryOf, RowsOf, Rows
    <2> HIDE DEF History
    <2> QED
      BY <2>2, <2>3
  <1> QED
    BY <1>1, StepMaps, IndInvHolds, PTL DEF Spec, ImplementsBook, Book!Spec
=============================================================================
