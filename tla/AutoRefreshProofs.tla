------------------------- MODULE AutoRefreshProofs -------------------------
(***************************************************************************)
(* The load bound of the refresh scheduler, for any number of accounts and *)
(* requests and any two delays of which the debounce is the shorter.       *)
(***************************************************************************)
EXTENDS AutoRefresh, FiniteSetTheorems, TLAPS

(* A timer is live until it runs.  An orphan is live without the entry of  *)
(* its account: it had fired when Request replaced it, or the run of such  *)
(* a timer removed its entry.                                              *)
Live(t) == t.at \in {"armed", "waiting"}
Owner(t) == t.id = entry[t.account]
Orphan(t) == Live(t) /\ ~ Owner(t)

(* Every timer has a number of its own, and runs once.                     *)
Numbered ==
  /\ \A t, u \in timers : t.id = u.id => t = u
  /\ \A t \in timers : t.at = "waiting" => t.left = 0
  /\ \A a \in Accounts : \A r \in runs[a] :
       /\ \A t \in timers : Live(t) => t.id # r.id
       /\ \A s \in runs[a] : r.id = s.id => r = s

(* The account's own timer respects the cooldown; an orphan is overdue or  *)
(* fires within it, and there is at most one.                              *)
TimersInv ==
  ~ stopped =>
    /\ \A t \in timers : Live(t) =>
         /\ t.left <= Debounce \/ t.left <= cooling[t.account]
         /\ Owner(t) => t.left >= cooling[t.account]
         /\ ~ Owner(t) => t.at = "waiting" \/ t.left < cooling[t.account]
         /\ t.left = 0 => cooling[t.account] < Cooldown
    /\ \A t, u \in timers : t.account = u.account /\ Orphan(t) =>
         /\ Orphan(u) => t = u
         /\ Live(u) /\ Owner(u) => u.left >= 1

(* A run starts a cooldown, and after two runs every timer waits until the *)
(* first of them has left it.                                              *)
RunsInv ==
  \A a \in Accounts :
    /\ \A r \in runs[a] : r.age + cooling[a] >= Cooldown
    /\ \A r, s, x \in runs[a] : r = s \/ s = x \/ r = x
    /\ ~ stopped =>
         \A r, s \in runs[a], t \in timers :
           r # s /\ t.account = a /\ Live(t) => t.left + r.age >= Cooldown \/ t.left + s.age >= Cooldown

IndInv == TypeOK /\ Numbered /\ TimersInv /\ RunsInv

-----------------------------------------------------------------------------
(* Lemma: Max picks the larger of two numbers, as the delay of Request.    *)
LEMMA MaxOfTwo ==
  ASSUME NEW x \in Nat, NEW y \in Nat
  PROVE  /\ Max({x, y}) \in {x, y}
         /\ Max({x, y}) >= x /\ Max({x, y}) >= y
<1>1. \E z \in {x, y} : \A w \in {x, y} : z >= w
  <2>1. CASE x >= y
    BY <2>1
  <2>2. CASE ~ (x >= y)
    BY <2>2
  <2>3. QED BY <2>1, <2>2
<1>2. QED BY <1>1 DEF Max

(* Lemma: the delay of Request reaches over debounce and cooldown.         *)
LEMMA DelayType ==
  ASSUME TypeOK, NEW a \in Accounts
  PROVE  /\ Delay(a) \in 0 .. Max({Debounce, Cooldown})
         /\ Delay(a) \in {Debounce, cooling[a]}
         /\ Delay(a) >= Debounce /\ Delay(a) >= cooling[a] /\ Delay(a) >= 1
<1>1. Debounce \in Nat /\ Cooldown \in Nat /\ Debounce >= 1 /\ cooling[a] \in 0 .. Cooldown
  BY RefreshAssumption DEF TypeOK
<1>2. /\ Delay(a) \in {Debounce, cooling[a]}
      /\ Delay(a) >= Debounce /\ Delay(a) >= cooling[a]
  BY <1>1, MaxOfTwo DEF Delay
<1>3. Max({Debounce, Cooldown}) \in Nat /\ Max({Debounce, Cooldown}) >= Debounce /\ Max({Debounce, Cooldown}) >= Cooldown
  BY <1>1, MaxOfTwo
<1>4. QED BY <1>1, <1>2, <1>3

(* Lemma: initially there is no timer and no run.                          *)
LEMMA InitInv == Init => IndInv
<1> SUFFICES ASSUME Init PROVE IndInv
  OBVIOUS
<1>1. TypeOK
  <2>1. runs \in [Accounts -> SUBSET [id : 1 .. MaxTimers, age : 0 .. Cooldown - 1]]
    BY DEF Init
  <2>2. entry \in [Accounts -> 0 .. MaxTimers] /\ cooling \in [Accounts -> 0 .. Cooldown]
    <3>1. 0 \in 0 .. MaxTimers /\ 0 \in 0 .. Cooldown
      BY RefreshAssumption
    <3>2. QED BY <3>1 DEF Init
  <2>3. stopped \in BOOLEAN
    BY DEF Init
  <2>4. timers = {} /\ pending = {}
    BY DEF Init
  <2>5. QED BY <2>1, <2>2, <2>3, <2>4 DEF TypeOK
<1>2. Numbered /\ TimersInv /\ RunsInv
  BY RefreshAssumption DEF Init, Numbered, TimersInv, RunsInv
<1>3. QED BY <1>1, <1>2 DEF IndInv

-----------------------------------------------------------------------------
(* Lemma: Request keeps the invariant: the timer that it replaces becomes  *)
(* the orphan only if it had fired, and then there was none.               *)
LEMMA RequestInv ==
  ASSUME IndInv, Debounce < Cooldown, NEW a \in Accounts, Request(a)
  PROVE  IndInv'
<1> DEFINE n == Timer(a)
<1>0. TypeOK /\ Numbered /\ TimersInv /\ RunsInv
  BY DEF IndInv
<1>1. /\ timers' = (timers \ Stopped(entry[a])) \cup {n}
      /\ entry' = [entry EXCEPT ![a] = Fresh]
      /\ Fresh \in Free
      /\ pending' = pending \cup {a} /\ ~ stopped
      /\ UNCHANGED <<cooling, stopped, runs>>
  BY DEF Request, Replace, Fresh
<1>13. /\ Fresh \in 1 .. MaxTimers
       /\ \A t \in timers : t.id # Fresh
       /\ \A b \in Accounts : \A r \in runs[b] : r.id # Fresh
  BY <1>1 DEF Free
<1>2. /\ Delay(a) \in 0 .. Max({Debounce, Cooldown})
      /\ Delay(a) \in {Debounce, cooling[a]}
      /\ Delay(a) >= Debounce /\ Delay(a) >= cooling[a] /\ Delay(a) >= 1
  BY <1>0, DelayType
<1>3. /\ n.id = Fresh /\ n.account = a /\ n.left = Delay(a) /\ n.at = "armed"
      /\ n \in [id : 1 .. MaxTimers, account : Accounts,
                left : 0 .. Max({Debounce, Cooldown}),
                at : {"armed", "waiting", "asset", "positions"}]
  BY <1>2, <1>13 DEF Timer
<1> HIDE DEF n
<1>4. TypeOK'
  <2>1. timers' \subseteq [id : 1 .. MaxTimers, account : Accounts,
                           left : 0 .. Max({Debounce, Cooldown}),
                           at : {"armed", "waiting", "asset", "positions"}]
    BY <1>0, <1>1, <1>3 DEF TypeOK
  <2>2. entry' \in [Accounts -> 0 .. MaxTimers]
    BY <1>0, <1>1, <1>13, RefreshAssumption DEF TypeOK
  <2>3. pending' \subseteq Accounts
    BY <1>0, <1>1 DEF TypeOK
  <2>4. QED BY <1>0, <1>1, <2>1, <2>2, <2>3 DEF TypeOK
<1>5. ASSUME NEW t \in timers
      PROVE  /\ t.id \in Nat /\ t.left \in Nat /\ t.account \in Accounts
             /\ t.id # Fresh
             /\ entry[t.account] \in Nat /\ cooling[t.account] \in Nat
  BY <1>0, <1>13, RefreshAssumption DEF TypeOK, Numbered
<1>6. ASSUME NEW t \in timers'
      PROVE  t = n \/ (t \in timers /\ ~ (t.id = entry[a] /\ t.at = "armed"))
  BY <1>1 DEF Stopped
<1>7. Numbered'
  <2>1. \A t, u \in timers' : t.id = u.id => t = u
    BY <1>0, <1>3, <1>5, <1>6 DEF Numbered
  <2>2. \A t \in timers' : t.at = "waiting" => t.left = 0
    BY <1>0, <1>1, <1>3, <1>5, <1>6 DEF Numbered, TypeOK
  <2>4. \A b \in Accounts : \A r \in runs'[b] :
          /\ \A t \in timers' : Live(t) => t.id # r.id
          /\ \A s \in runs'[b] : r.id = s.id => r = s
    BY <1>0, <1>1, <1>3, <1>6, <1>13 DEF Numbered, TypeOK
  <2>5. QED BY <2>1, <2>2, <2>4 DEF Numbered, Live
<1>8. ASSUME NEW t \in timers, t \in timers', Live(t)
      PROVE  /\ ~ (t.id = entry'[t.account])
                \/ (t.account # a /\ Owner(t))
             /\ t.account # a => (t.id = entry'[t.account] <=> Owner(t))
             /\ t.account = a /\ Owner(t) => t.at = "waiting" /\ t.left = 0
  <2>1. entry'[t.account] = IF t.account = a THEN Fresh ELSE entry[t.account]
    BY <1>0, <1>1, <1>5 DEF TypeOK
  <2>2. t # n /\ ~ (t.id = entry[a] /\ t.at = "armed")
    BY <1>3, <1>5, <1>6, <1>8
  <2>3. t.at = "waiting" => t.left = 0
    BY <1>0 DEF Numbered
  <2>4. t.at \in {"armed", "waiting"}
    BY <1>8 DEF Live
  <2>5. QED BY <2>1, <2>2, <2>3, <2>4, <1>5 DEF Owner
<1>9. n.id = entry'[n.account]
  BY <1>0, <1>1, <1>3 DEF TypeOK
<1>10. TimersInv'
  <2>1. ASSUME NEW t \in timers', Live(t)
        PROVE  /\ t.left <= Debounce \/ t.left <= cooling'[t.account]
               /\ t.id = entry'[t.account] => t.left >= cooling'[t.account]
               /\ ~ (t.id = entry'[t.account]) => t.at = "waiting" \/ t.left < cooling'[t.account]
               /\ t.left = 0 => cooling'[t.account] < Cooldown
    <3>1. CASE t = n
      BY <3>1, <1>0, <1>1, <1>2, <1>3, <1>9, RefreshAssumption DEF TypeOK
    <3>2. CASE t # n
      BY <3>2, <2>1, <1>0, <1>1, <1>6, <1>8 DEF TimersInv
    <3>3. QED BY <3>1, <3>2
  <2>2. ASSUME NEW t \in timers', NEW u \in timers', t.account = u.account,
               Live(t), ~ (t.id = entry'[t.account])
        PROVE  /\ Live(u) /\ ~ (u.id = entry'[u.account]) => t = u
               /\ Live(u) /\ u.id = entry'[u.account] => u.left >= 1
    <3>1. t # n /\ t \in timers
      BY <2>2, <1>6, <1>9
    <3>2. CASE u = n
      BY <3>2, <1>2, <1>3, <1>9
    <3>3. CASE u # n
      <4>1. u \in timers
        BY <3>3, <1>6
      <4>2. CASE t.account # a
        BY <4>1, <4>2, <3>1, <2>2, <1>0, <1>1, <1>8 DEF TimersInv, Orphan, Owner
      <4>3. CASE t.account = a
        <5> SUFFICES ASSUME Live(u) PROVE t = u
          BY <4>1, <4>3, <1>8, <2>2
        <5>1. CASE Owner(t)
          BY <5>1, <4>1, <4>3, <3>1, <2>2, <1>0, <1>1, <1>5, <1>8 DEF TimersInv, Orphan, Owner, Numbered
        <5>2. CASE ~ Owner(t)
          BY <5>2, <4>1, <4>3, <3>1, <2>2, <1>0, <1>1, <1>5, <1>8 DEF TimersInv, Orphan, Numbered
        <5>3. QED BY <5>1, <5>2
      <4>4. QED BY <4>2, <4>3
    <3>4. QED BY <3>2, <3>3
  <2>3. QED BY <2>1, <2>2 DEF TimersInv, Orphan, Owner, Live
<1>11. RunsInv'
  <2>1. ASSUME NEW b \in Accounts, NEW r \in runs[b], NEW s \in runs[b], NEW t \in timers',
               r # s, t.account = b, Live(t)
        PROVE  t.left + r.age >= Cooldown \/ t.left + s.age >= Cooldown
    <3>1. CASE t = n
      <4>1. r.age + cooling[b] >= Cooldown /\ r.age \in Nat /\ cooling[b] \in Nat
        BY <1>0, <2>1 DEF RunsInv, TypeOK
      <4>2. n.left \in Nat /\ n.left >= cooling[b]
        BY <2>1, <3>1, <1>2, <1>3
      <4>3. QED BY <4>1, <4>2, <3>1, RefreshAssumption
    <3>2. CASE t # n
      BY <3>2, <2>1, <1>0, <1>1, <1>6 DEF RunsInv
    <3>3. QED BY <3>1, <3>2
  <2>2. QED BY <2>1, <1>0, <1>1 DEF RunsInv, Live
<1>12. QED BY <1>4, <1>7, <1>10, <1>11 DEF IndInv

(* Lemma: Stop keeps the invariant: it only removes timers.                *)
LEMMA StopInv ==
  ASSUME IndInv, Stop
  PROVE  IndInv'
<1>0. TypeOK /\ Numbered /\ RunsInv /\ stopped'
  BY DEF IndInv, Stop
<1>1. timers' \subseteq timers /\ entry' = [a \in Accounts |-> 0] /\ stopped' = TRUE
      /\ UNCHANGED <<cooling, runs, pending>>
  BY DEF Stop
<1>2. TypeOK'
  <2>1. entry' \in [Accounts -> 0 .. MaxTimers]
    BY <1>1, RefreshAssumption
  <2>2. QED BY <1>0, <1>1, <2>1 DEF TypeOK
<1>3. Numbered'
  BY <1>0, <1>1 DEF Numbered, Live
<1>4. TimersInv' /\ RunsInv'
  BY <1>0, <1>1 DEF TimersInv, RunsInv
<1>5. QED BY <1>2, <1>3, <1>4 DEF IndInv

-----------------------------------------------------------------------------
(* Lemma: a timer that only moves on, and does not begin to live again,    *)
(* keeps the invariant: Fire, Publish and the run after Stop.              *)
LEMMA MoveInv ==
  ASSUME IndInv, NEW t \in timers, NEW m,
         timers' \subseteq (timers \ {t}) \cup {m},
         m = [t EXCEPT !.at = m.at], m.at \in {"armed", "waiting", "asset", "positions"},
         Live(m) => Live(t) /\ m.at = "waiting" /\ m.left = 0,
         UNCHANGED <<entry, cooling, stopped, runs, pending>>
  PROVE  IndInv'
<1>0. TypeOK /\ Numbered /\ TimersInv /\ RunsInv
  BY DEF IndInv
<1>1. /\ m.id = t.id /\ m.account = t.account /\ m.left = t.left
      /\ m \in [id : 1 .. MaxTimers, account : Accounts,
                left : 0 .. Max({Debounce, Cooldown}),
                at : {"armed", "waiting", "asset", "positions"}]
  BY <1>0 DEF TypeOK
<1>2. TypeOK'
  BY <1>0, <1>1 DEF TypeOK
<1>3. ASSUME NEW u \in timers'
      PROVE  u = m \/ (u \in timers /\ u # t)
  OBVIOUS
<1>4. Numbered'
  <2>1. \A u, v \in timers' : u.id = v.id => u = v
    BY <1>0, <1>1, <1>3, ZenonT(60) DEF Numbered
  <2>2. \A u \in timers' : u.at = "waiting" => u.left = 0
    BY <1>0, <1>1, <1>3 DEF Numbered, Live
  <2>3. \A b \in Accounts : \A r \in runs'[b] :
          /\ \A u \in timers' : Live(u) => u.id # r.id
          /\ \A s \in runs'[b] : r.id = s.id => r = s
    BY <1>0, <1>1, <1>3, ZenonT(60) DEF Numbered
  <2>4. QED BY <2>1, <2>2, <2>3 DEF Numbered, Live
<1>5. TimersInv'
  <2> SUFFICES ASSUME ~ stopped PROVE TimersInv'
    BY DEF TimersInv
  <2>1. ASSUME NEW u \in timers', Live(u)
        PROVE  /\ u.left <= Debounce \/ u.left <= cooling[u.account]
               /\ Owner(u) => u.left >= cooling[u.account]
               /\ ~ Owner(u) => u.at = "waiting" \/ u.left < cooling[u.account]
               /\ u.left = 0 => cooling[u.account] < Cooldown
    BY <2>1, <1>0, <1>1, <1>3 DEF TimersInv, Owner
  <2>2. ASSUME NEW u \in timers', NEW v \in timers', u.account = v.account, Orphan(u)
        PROVE  /\ Orphan(v) => u = v
               /\ Live(v) /\ Owner(v) => v.left >= 1
    <3>1. Orphan(m) => Orphan(t)
      BY <1>1 DEF Orphan, Owner
    <3>2. Live(m) /\ Owner(m) => Live(t) /\ Owner(t)
      BY <1>1 DEF Owner
    <3>3. QED BY <2>2, <3>1, <3>2, <1>0, <1>1, <1>3 DEF TimersInv
  <2>3. QED BY <2>1, <2>2 DEF TimersInv, Orphan, Owner, Live
<1>6. RunsInv'
  <2>1. ASSUME ~ stopped, NEW b \in Accounts, NEW r \in runs[b], NEW s \in runs[b], NEW u \in timers',
               r # s, u.account = b, Live(u)
        PROVE  u.left + r.age >= Cooldown \/ u.left + s.age >= Cooldown
    <3>1. PICK w \in timers : w.account = b /\ w.left = u.left /\ Live(w)
      BY <2>1, <1>1, <1>3
    <3>2. QED BY <3>1, <2>1, <1>0 DEF RunsInv
  <2>2. QED BY <2>1, <1>0 DEF RunsInv, Live
<1>7. QED BY <1>2, <1>4, <1>5, <1>6 DEF IndInv

(* Lemma: Fire keeps the invariant.                                        *)
LEMMA FireInv ==
  ASSUME IndInv, NEW t \in timers, Fire(t)
  PROVE  IndInv'
<1>1. t = [id |-> t.id, account |-> t.account, left |-> t.left, at |-> t.at]
  BY DEF IndInv, TypeOK
<1>2. PICK m : m = [t EXCEPT !.at = "waiting"]
  OBVIOUS
<1>3. m.at = "waiting" /\ m.left = 0 /\ m = [t EXCEPT !.at = m.at] /\ Live(t)
  BY <1>1, <1>2 DEF Fire, Live
<1>4. timers' \subseteq (timers \ {t}) \cup {m}
  BY <1>2 DEF Fire, Move
<1>5. UNCHANGED <<entry, cooling, stopped, runs, pending>>
  BY DEF Fire
<1>6. QED BY <1>3, <1>4, <1>5, MoveInv

(* Lemma: Publish keeps the invariant.                                     *)
LEMMA PublishInv ==
  ASSUME IndInv, NEW t \in timers, Publish(t)
  PROVE  IndInv'
<1>1. t = [id |-> t.id, account |-> t.account, left |-> t.left, at |-> t.at]
  BY DEF IndInv, TypeOK
<1>2. PICK m : m = [t EXCEPT !.at = "positions"]
  OBVIOUS
<1>3. m.at = "positions" /\ m = [t EXCEPT !.at = m.at] /\ ~ Live(m)
  BY <1>1, <1>2 DEF Live
<1>4. timers' \subseteq (timers \ {t}) \cup {m}
  BY <1>2 DEF Publish, Move
<1>5. UNCHANGED <<entry, cooling, stopped, runs, pending>>
  BY DEF Publish
<1>6. QED BY <1>3, <1>4, <1>5, MoveInv

(* Lemma: Run keeps the invariant: the run of an orphan makes an orphan of *)
(* the account's own timer, which waits less than the new cooldown and     *)
(* until the earlier run has left it; when the account's own timer runs,   *)
(* no other is live.                                                       *)
LEMMA RunInv ==
  ASSUME IndInv, Debounce < Cooldown, NEW t \in timers, Run(t)
  PROVE  IndInv'
<1>0. TypeOK /\ Numbered /\ TimersInv /\ RunsInv
  BY DEF IndInv
<1>1. t = [id |-> t.id, account |-> t.account, left |-> t.left, at |-> t.at]
  BY <1>0 DEF TypeOK
<1>2. PICK m : m = [t EXCEPT !.at = "asset"]
  OBVIOUS
<1>3. /\ m.at = "asset" /\ m = [t EXCEPT !.at = m.at] /\ ~ Live(m)
      /\ m.id = t.id /\ m.account = t.account /\ m.left = t.left
  BY <1>1, <1>2 DEF Live
<1>4. CASE stopped
  <2>1. timers' \subseteq (timers \ {t}) \cup {m}
    BY <1>4 DEF Run
  <2>2. UNCHANGED <<entry, cooling, stopped, runs, pending>>
    BY <1>4 DEF Run
  <2>3. QED BY <2>1, <2>2, <1>3, MoveInv
<1>5. CASE ~ stopped
  <2> DEFINE a == t.account
             new == [id |-> t.id, age |-> 0]
  <2>1. /\ timers' = (timers \ {t}) \cup {m}
        /\ entry' = [entry EXCEPT ![a] = 0]
        /\ cooling' = [cooling EXCEPT ![a] = Cooldown]
        /\ runs' = [runs EXCEPT ![a] = @ \cup {new}]
        /\ pending' = pending \ {a}
        /\ UNCHANGED stopped
        /\ t.at = "waiting"
    BY <1>2, <1>5 DEF Run, Move
  <2>2. /\ a \in Accounts /\ t.id \in 1 .. MaxTimers /\ t.left = 0 /\ Live(t)
        /\ cooling[a] \in Nat /\ cooling[a] < Cooldown
        /\ Cooldown \in Nat /\ Debounce \in Nat /\ Cooldown >= 1
    BY <1>0, <1>5, <2>1, RefreshAssumption DEF TypeOK, Numbered, TimersInv, Live
  <2>3. new.id = t.id /\ new.age = 0 /\ new \in [id : 1 .. MaxTimers, age : 0 .. Cooldown - 1]
    BY <2>2
  <2>4. m \in [id : 1 .. MaxTimers, account : Accounts,
               left : 0 .. Max({Debounce, Cooldown}),
               at : {"armed", "waiting", "asset", "positions"}]
    BY <1>0, <1>2 DEF TypeOK
  <2> HIDE DEF new
  <2>5. /\ \A b \in Accounts : b # a => runs'[b] = runs[b] /\ cooling'[b] = cooling[b] /\ entry'[b] = entry[b]
        /\ runs'[a] = runs[a] \cup {new} /\ cooling'[a] = Cooldown /\ entry'[a] = 0
    BY <1>0, <2>1, <2>2 DEF TypeOK
  <2>6. TypeOK'
    <3>1. timers' \subseteq [id : 1 .. MaxTimers, account : Accounts,
                             left : 0 .. Max({Debounce, Cooldown}),
                             at : {"armed", "waiting", "asset", "positions"}]
      BY <1>0, <2>1, <2>4 DEF TypeOK
    <3>2. entry' \in [Accounts -> 0 .. MaxTimers]
      BY <1>0, <2>1, RefreshAssumption DEF TypeOK
    <3>3. cooling' \in [Accounts -> 0 .. Cooldown]
      BY <1>0, <2>1, RefreshAssumption DEF TypeOK
    <3>4. runs' \in [Accounts -> SUBSET [id : 1 .. MaxTimers, age : 0 .. Cooldown - 1]]
      BY <1>0, <2>1, <2>2, <2>3 DEF TypeOK
    <3>5. QED BY <1>0, <2>1, <3>1, <3>2, <3>3, <3>4 DEF TypeOK
  <2>7. ASSUME NEW u \in timers'
        PROVE  /\ u = m \/ (u \in timers /\ u # t)
               /\ Live(u) => u \in timers /\ u # t /\ u.id # t.id
               /\ u.account \in Accounts /\ u.id \in Nat /\ u.id # 0 /\ u.left \in Nat
    BY <1>0, <1>3, <2>1, <2>2 DEF TypeOK, Numbered
  \* Of the account's other live timers none is due, and at most one is left.
  <2>8. ASSUME NEW u \in timers', Live(u), u.account = a
        PROVE  /\ u.left >= 1 /\ u.left < Cooldown /\ u.left >= cooling[a]
               /\ Owner(u) /\ Orphan(t)
    <3>1. u \in timers /\ u # t /\ u.id # t.id /\ u.left \in Nat
      BY <2>7, <2>8
    <3>2. Orphan(t)
      BY <3>1, <2>2, <2>8, <1>0, <1>5 DEF TimersInv, Orphan, Owner
    <3>3. Owner(u)
      BY <3>1, <3>2, <2>2, <2>8, <1>0, <1>5 DEF TimersInv, Orphan
    <3>4. u.left >= 1 /\ u.left >= cooling[a] /\ (u.left <= Debounce \/ u.left <= cooling[a])
      BY <3>1, <3>2, <3>3, <2>2, <2>8, <1>0, <1>5 DEF TimersInv
    <3>5. QED BY <3>1, <3>2, <3>3, <3>4, <2>2
  <2>9. \A r, s \in runs[a] : r = s
    <3> SUFFICES ASSUME NEW r \in runs[a], NEW s \in runs[a], r # s PROVE FALSE
      OBVIOUS
    <3>1. r.age \in 0 .. Cooldown - 1 /\ s.age \in 0 .. Cooldown - 1
      BY <1>0, <2>2 DEF TypeOK
    <3>2. t.left + r.age >= Cooldown \/ t.left + s.age >= Cooldown
      BY <1>0, <1>5, <2>2 DEF RunsInv
    <3>3. QED BY <3>1, <3>2, <2>2
  <2>10. Numbered'
    <3>1. \A u, v \in timers' : u.id = v.id => u = v
      BY <1>0, <1>3, <2>7 DEF Numbered
    <3>2. \A u \in timers' : u.at = "waiting" => u.left = 0
      BY <1>0, <1>3, <2>1, <2>7 DEF Numbered
    <3>3. ASSUME NEW b \in Accounts, NEW r \in runs'[b]
          PROVE  /\ \A u \in timers' : Live(u) => u.id # r.id
                 /\ \A s \in runs'[b] : r.id = s.id => r = s
      <4>1. \A s \in runs'[b] : s \in runs[b] \/ (b = a /\ s = new)
        BY <2>5
      <4>2. \A s \in runs[b] : s.id # t.id
        BY <1>0, <2>2 DEF Numbered
      <4>5. ASSUME NEW u \in timers', Live(u)
            PROVE  u.id # r.id
        BY <4>1, <4>5, <2>3, <2>7, <3>3, <1>0 DEF Numbered
      <4>6. ASSUME NEW s \in runs'[b], r.id = s.id
            PROVE  r = s
        BY <4>1, <4>2, <4>6, <2>3, <3>3, <1>0 DEF Numbered
      <4>7. QED BY <4>5, <4>6
    <3>4. QED BY <3>1, <3>2, <3>3 DEF Numbered, Live
  <2>11. TimersInv'
    <3>1. ASSUME NEW u \in timers', Live(u)
          PROVE  /\ u.left <= Debounce \/ u.left <= cooling'[u.account]
                 /\ u.id = entry'[u.account] => u.left >= cooling'[u.account]
                 /\ ~ (u.id = entry'[u.account]) => u.at = "waiting" \/ u.left < cooling'[u.account]
                 /\ u.left = 0 => cooling'[u.account] < Cooldown
      <4>1. CASE u.account = a
        <5>1. cooling'[u.account] = Cooldown /\ u.id # entry'[u.account]
          BY <4>1, <2>5, <2>7
        <5>2. u.left >= 1 /\ u.left < Cooldown /\ u.left \in Nat
          BY <4>1, <3>1, <2>7, <2>8
        <5>3. QED BY <5>1, <5>2, <2>2
      <4>2. CASE u.account # a
        <5>1. cooling'[u.account] = cooling[u.account] /\ entry'[u.account] = entry[u.account]
          BY <4>2, <2>5, <2>7
        <5>2. QED BY <5>1, <3>1, <2>7, <1>0, <1>5 DEF TimersInv, Owner
      <4>3. QED BY <4>1, <4>2
    <3>2. ASSUME NEW u \in timers', NEW v \in timers', u.account = v.account,
                 Live(u), ~ (u.id = entry'[u.account])
          PROVE  /\ Live(v) /\ ~ (v.id = entry'[v.account]) => u = v
                 /\ Live(v) /\ v.id = entry'[v.account] => v.left >= 1
      <4> SUFFICES ASSUME Live(v)
                   PROVE  /\ ~ (v.id = entry'[v.account]) => u = v
                          /\ v.id = entry'[v.account] => v.left >= 1
        OBVIOUS
      <4>1. CASE u.account = a
        <5>1. Owner(u) /\ Owner(v) /\ v.left >= 1
          BY <4>1, <3>2, <2>8
        <5>2. u = v
          BY <5>1, <3>2, <2>7, <1>0 DEF Owner, Numbered
        <5>3. QED BY <5>1, <5>2
      <4>2. CASE u.account # a
        <5>1. entry'[u.account] = entry[u.account] /\ u \in timers /\ v \in timers
          BY <4>2, <3>2, <2>5, <2>7
        <5>2. QED BY <5>1, <3>2, <1>0, <1>5 DEF TimersInv, Orphan, Owner
      <4>3. QED BY <4>1, <4>2
    <3>3. QED BY <3>1, <3>2 DEF TimersInv, Orphan, Owner, Live
  <2>12. RunsInv'
    <3>1. ASSUME NEW b \in Accounts, NEW r \in runs'[b]
          PROVE  r.age + cooling'[b] >= Cooldown
      <4>1. CASE b = a
        <5>1. r.age \in Nat /\ cooling'[b] = Cooldown
          BY <4>1, <3>1, <2>2, <2>5, <2>6 DEF TypeOK
        <5>2. QED BY <5>1, <2>2
      <4>2. CASE b # a
        BY <4>2, <3>1, <2>5, <1>0 DEF RunsInv
      <4>3. QED BY <4>1, <4>2
    <3>2. ASSUME NEW b \in Accounts, NEW r \in runs'[b], NEW s \in runs'[b], NEW x \in runs'[b]
          PROVE  r = s \/ s = x \/ r = x
      <4>1. CASE b = a
        BY <4>1, <3>2, <2>5, <2>9
      <4>2. CASE b # a
        BY <4>2, <3>2, <2>5, <1>0 DEF RunsInv
      <4>3. QED BY <4>1, <4>2
    <3>3. ASSUME NEW b \in Accounts, NEW r \in runs'[b], NEW s \in runs'[b], NEW u \in timers',
                 r # s, u.account = b, Live(u)
          PROVE  u.left + r.age >= Cooldown \/ u.left + s.age >= Cooldown
      <4>1. CASE b = a
        <5>1. \A x \in runs[a] : x.age \in Nat /\ x.age + cooling[a] >= Cooldown
          BY <1>0, <2>2 DEF TypeOK, RunsInv
        <5>2. r \in runs[a] \/ s \in runs[a]
          BY <4>1, <3>3, <2>5
        <5>3. u.left \in Nat /\ u.left >= cooling[a]
          BY <4>1, <3>3, <2>7, <2>8
        <5>4. QED BY <5>1, <5>2, <5>3, <2>2
      <4>2. CASE b # a
        BY <4>2, <3>3, <2>5, <2>7, <1>0, <1>5 DEF RunsInv
      <4>3. QED BY <4>1, <4>2
    <3>4. QED BY <3>1, <3>2, <3>3 DEF RunsInv, Live
  <2>13. QED BY <2>6, <2>10, <2>11, <2>12 DEF IndInv
<1>6. QED BY <1>4, <1>5

(* Lemma: Tick keeps the invariant: no timer is due, so that every live    *)
(* timer, every cooldown and every run grows older by the same tick.       *)
LEMMA TickInv ==
  ASSUME IndInv, Tick
  PROVE  IndInv'
<1>0. TypeOK /\ Numbered /\ TimersInv /\ RunsInv
  BY DEF IndInv
<1>1. /\ \A t \in timers : ~ Due(t)
      /\ timers' = {[t EXCEPT !.left = Less(@)] : t \in timers}
      /\ cooling' = [a \in Accounts |-> Less(cooling[a])]
      /\ runs' = [a \in Accounts |->
                    {[r EXCEPT !.age = @ + 1] : r \in {x \in runs[a] : x.age + 1 < Cooldown}}]
      /\ UNCHANGED <<entry, stopped, pending>>
  BY DEF Tick
<1>2. Cooldown \in Nat /\ Debounce \in Nat /\ Cooldown >= 1 /\ Max({Debounce, Cooldown}) \in Nat
  BY RefreshAssumption, MaxOfTwo
<1>3. ASSUME NEW u \in timers'
      PROVE  \E t \in timers :
               /\ u.id = t.id /\ u.account = t.account /\ u.at = t.at /\ u.left = Less(t.left)
               /\ u = [t EXCEPT !.left = Less(@)]
               /\ u \in [id : 1 .. MaxTimers, account : Accounts,
                         left : 0 .. Max({Debounce, Cooldown}),
                         at : {"armed", "waiting", "asset", "positions"}]
  <2>1. PICK t \in timers : u = [t EXCEPT !.left = Less(@)]
    BY <1>1
  <2>2. t \in [id : 1 .. MaxTimers, account : Accounts, left : 0 .. Max({Debounce, Cooldown}),
               at : {"armed", "waiting", "asset", "positions"}]
    BY <1>0 DEF TypeOK
  <2>3. Less(t.left) \in 0 .. Max({Debounce, Cooldown})
    BY <2>2, <1>2 DEF Less
  <2>4. QED BY <2>1, <2>2, <2>3
<1>4. ASSUME NEW a \in Accounts, NEW q \in runs'[a]
      PROVE  \E r \in runs[a] :
               /\ q.id = r.id /\ q.age = r.age + 1 /\ q = [r EXCEPT !.age = @ + 1]
               /\ q \in [id : 1 .. MaxTimers, age : 0 .. Cooldown - 1]
  <2>1. PICK r \in runs[a] : r.age + 1 < Cooldown /\ q = [r EXCEPT !.age = @ + 1]
    BY <1>1, <1>4
  <2>2. r \in [id : 1 .. MaxTimers, age : 0 .. Cooldown - 1]
    BY <1>0 DEF TypeOK
  <2>3. r.age + 1 \in 0 .. Cooldown - 1
    BY <2>1, <2>2, <1>2
  <2>4. QED BY <2>1, <2>2, <2>3
<1>5. ASSUME NEW a \in Accounts
      PROVE  cooling'[a] = Less(cooling[a]) /\ cooling[a] \in 0 .. Cooldown /\ Less(cooling[a]) \in 0 .. Cooldown
  BY <1>0, <1>1, <1>2 DEF TypeOK, Less
<1>6. TypeOK'
  <2>1. timers' \subseteq [id : 1 .. MaxTimers, account : Accounts,
                           left : 0 .. Max({Debounce, Cooldown}),
                           at : {"armed", "waiting", "asset", "positions"}]
    BY <1>3
  <2>2. cooling' \in [Accounts -> 0 .. Cooldown]
    BY <1>1, <1>5
  <2>3. runs' \in [Accounts -> SUBSET [id : 1 .. MaxTimers, age : 0 .. Cooldown - 1]]
    <3>1. \A a \in Accounts : runs'[a] \subseteq [id : 1 .. MaxTimers, age : 0 .. Cooldown - 1]
      BY <1>4
    <3>2. runs' = [a \in Accounts |-> runs'[a]]
      BY <1>1
    <3>3. QED BY <3>1, <3>2
  <2>4. QED BY <1>0, <1>1, <2>1, <2>2, <2>3 DEF TypeOK
\* What a live timer was one tick ago.
<1>7. ASSUME NEW u \in timers', Live(u)
      PROVE  \E t \in timers :
               /\ u.id = t.id /\ u.account = t.account /\ u.at = t.at /\ Live(t)
               /\ t.at = "armed" /\ t.left \in Nat /\ t.left >= 1 /\ u.left = t.left - 1
               /\ u = [t EXCEPT !.left = Less(@)] /\ t.account \in Accounts
  <2>1. PICK t \in timers :
          /\ u.id = t.id /\ u.account = t.account /\ u.at = t.at /\ u.left = Less(t.left)
          /\ u = [t EXCEPT !.left = Less(@)]
    BY <1>3
  <2>2. t.left \in Nat /\ t.account \in Accounts /\ ~ Due(t) /\ t.at \in {"armed", "waiting"}
    BY <1>0, <1>1, <2>1, <1>7, <1>2 DEF TypeOK, Live
  <2>3. t.at = "armed" /\ t.left >= 1
    BY <2>2 DEF Due
  <2>4. QED BY <2>1, <2>2, <2>3 DEF Less, Live
<1>8. Numbered'
  <2>1. ASSUME NEW u \in timers', NEW v \in timers', u.id = v.id
        PROVE  u = v
    <3>1. PICK t \in timers : u.id = t.id /\ u = [t EXCEPT !.left = Less(@)]
      BY <1>3
    <3>2. PICK w \in timers : v.id = w.id /\ v = [w EXCEPT !.left = Less(@)]
      BY <1>3
    <3>3. t = w
      BY <3>1, <3>2, <2>1, <1>0 DEF Numbered
    <3>4. QED BY <3>1, <3>2, <3>3
  <2>2. ASSUME NEW u \in timers'
        PROVE  u.at = "waiting" => u.left = 0
    <3>1. PICK t \in timers : u.id = t.id /\ u.at = t.at
      BY <1>3
    <3>2. t.at # "waiting"
      BY <1>1 DEF Due
    <3>3. QED BY <3>1, <3>2, <1>0, <1>1 DEF Numbered
  <2>3. ASSUME NEW a \in Accounts, NEW q \in runs'[a]
        PROVE  /\ \A u \in timers' : Live(u) => u.id # q.id
               /\ \A s \in runs'[a] : q.id = s.id => q = s
    <3>1. PICK r \in runs[a] : q.id = r.id /\ q = [r EXCEPT !.age = @ + 1]
      BY <1>4, <2>3
    <3>3. ASSUME NEW u \in timers', Live(u)
          PROVE  u.id # q.id
      <4>1. PICK t \in timers : u.id = t.id /\ Live(t)
        BY <1>7, <3>3
      <4>2. QED BY <4>1, <3>1, <1>0 DEF Numbered
    <3>4. ASSUME NEW s \in runs'[a], q.id = s.id
          PROVE  q = s
      <4>1. PICK x \in runs[a] : s.id = x.id /\ s = [x EXCEPT !.age = @ + 1]
        BY <1>4, <3>4
      <4>2. r = x
        BY <4>1, <3>1, <3>4, <1>0 DEF Numbered
      <4>3. QED BY <4>1, <4>2, <3>1
    <3>5. QED BY <3>3, <3>4
  <2>4. QED BY <2>1, <2>2, <2>3 DEF Numbered, Live
<1>9. TimersInv'
  <2> SUFFICES ASSUME ~ stopped PROVE TimersInv'
    BY <1>1 DEF TimersInv
  <2>1. ASSUME NEW u \in timers', Live(u)
        PROVE  /\ u.left <= Debounce \/ u.left <= cooling'[u.account]
               /\ Owner(u) => u.left >= cooling'[u.account]
               /\ ~ Owner(u) => u.at = "waiting" \/ u.left < cooling'[u.account]
               /\ u.left = 0 => cooling'[u.account] < Cooldown
    <3>1. PICK t \in timers :
            /\ u.id = t.id /\ u.account = t.account /\ u.at = t.at /\ Live(t)
            /\ t.at = "armed" /\ t.left \in Nat /\ t.left >= 1 /\ u.left = t.left - 1
            /\ t.account \in Accounts
      BY <1>7, <2>1
    <3>2. /\ t.left <= Debounce \/ t.left <= cooling[t.account]
          /\ Owner(u) => t.left >= cooling[t.account]
          /\ ~ Owner(u) => t.left < cooling[t.account]
      BY <3>1, <1>0 DEF TimersInv, Owner
    <3>3. cooling'[u.account] = Less(cooling[t.account]) /\ cooling[t.account] \in 0 .. Cooldown
      BY <3>1, <1>5
    <3>4. QED BY <3>1, <3>2, <3>3, <1>2 DEF Less
  <2>2. ASSUME NEW u \in timers', NEW v \in timers', u.account = v.account, Orphan(u), Live(v)
        PROVE  /\ ~ Owner(v) => u = v
               /\ Owner(v) => v.left >= 1
    <3>1. PICK t \in timers :
            /\ u.id = t.id /\ u.account = t.account /\ Live(t) /\ t.at = "armed"
            /\ t.left \in Nat /\ t.left >= 1 /\ u = [t EXCEPT !.left = Less(@)]
            /\ t.account \in Accounts
      BY <1>7, <2>2 DEF Orphan
    <3>2. PICK w \in timers :
            /\ v.id = w.id /\ v.account = w.account /\ Live(w) /\ w.left \in Nat
            /\ v.left = w.left - 1 /\ v = [w EXCEPT !.left = Less(@)]
      BY <1>7, <2>2
    <3>3. Orphan(t) /\ (Owner(v) <=> Owner(w)) /\ t.account = w.account
      BY <3>1, <3>2, <2>2 DEF Orphan, Owner
    <3>4. CASE ~ Owner(v)
      <4>1. t = w
        BY <3>1, <3>2, <3>3, <3>4, <1>0 DEF TimersInv, Orphan
      <4>2. QED BY <4>1, <3>1, <3>2, <3>4
    <3>5. CASE Owner(v)
      <4>1. t.left < cooling[t.account] /\ w.left >= cooling[t.account]
        BY <3>1, <3>2, <3>3, <3>5, <1>0 DEF TimersInv, Orphan
      <4>2. cooling[t.account] \in Nat
        BY <3>1, <1>5, <1>2
      <4>3. QED BY <4>1, <4>2, <3>1, <3>2, <3>5
    <3>6. QED BY <3>4, <3>5
  <2>3. QED BY <2>1, <2>2, <1>1 DEF TimersInv, Orphan, Owner, Live
<1>10. RunsInv'
  <2>1. ASSUME NEW a \in Accounts, NEW q \in runs'[a]
        PROVE  q.age + cooling'[a] >= Cooldown
    <3>1. PICK r \in runs[a] : q.age = r.age + 1
      BY <1>4, <2>1
    <3>2. r.age + cooling[a] >= Cooldown /\ r.age \in 0 .. Cooldown - 1
      BY <1>0 DEF RunsInv, TypeOK
    <3>3. QED BY <3>1, <3>2, <1>5, <1>2 DEF Less
  <2>2. ASSUME NEW a \in Accounts, NEW p \in runs'[a], NEW q \in runs'[a], NEW z \in runs'[a]
        PROVE  p = q \/ q = z \/ p = z
    <3>1. PICK r \in runs[a] : p = [r EXCEPT !.age = @ + 1]
      BY <1>4, <2>2
    <3>2. PICK s \in runs[a] : q = [s EXCEPT !.age = @ + 1]
      BY <1>4, <2>2
    <3>3. PICK x \in runs[a] : z = [x EXCEPT !.age = @ + 1]
      BY <1>4, <2>2
    <3>4. r = s \/ s = x \/ r = x
      BY <1>0 DEF RunsInv
    <3>5. QED BY <3>1, <3>2, <3>3, <3>4
  <2>3. ASSUME ~ stopped, NEW a \in Accounts, NEW p \in runs'[a], NEW q \in runs'[a], NEW u \in timers',
               p # q, u.account = a, Live(u)
        PROVE  u.left + p.age >= Cooldown \/ u.left + q.age >= Cooldown
    <3>1. PICK r \in runs[a] : p = [r EXCEPT !.age = @ + 1] /\ p.age = r.age + 1
      BY <1>4, <2>3
    <3>2. PICK s \in runs[a] : q = [s EXCEPT !.age = @ + 1] /\ q.age = s.age + 1
      BY <1>4, <2>3
    <3>3. PICK t \in timers : u.account = t.account /\ Live(t) /\ t.left \in Nat /\ u.left = t.left - 1
      BY <1>7, <2>3
    <3>4. r # s
      BY <3>1, <3>2, <2>3
    <3>5. t.left + r.age >= Cooldown \/ t.left + s.age >= Cooldown
      BY <3>3, <3>4, <2>3, <1>0 DEF RunsInv
    <3>6. r.age \in Nat /\ s.age \in Nat
      BY <1>0 DEF TypeOK
    <3>7. QED BY <3>1, <3>2, <3>3, <3>5, <3>6, <1>2
  <2>4. QED BY <2>1, <2>2, <2>3, <1>1, SMTT(30) DEF RunsInv, Live
<1>11. QED BY <1>6, <1>8, <1>9, <1>10 DEF IndInv

-----------------------------------------------------------------------------
(* Lemma: every step keeps the invariant.                                  *)
LEMMA NextInv ==
  ASSUME IndInv, Debounce < Cooldown, [Next]_vars
  PROVE  IndInv'
<1>1. CASE UNCHANGED vars
  <2>1. TypeOK'
    BY <1>1 DEF vars, IndInv, TypeOK
  <2>2. Numbered'
    BY <1>1 DEF vars, IndInv, Numbered, Live
  <2>3. TimersInv'
    BY <1>1 DEF vars, IndInv, TimersInv, Live, Owner, Orphan
  <2>4. RunsInv'
    BY <1>1 DEF vars, IndInv, RunsInv, Live
  <2>5. QED BY <2>1, <2>2, <2>3, <2>4 DEF IndInv
<1>2. CASE \E a \in Accounts : Request(a)
  BY <1>2, RequestInv
<1>3. CASE Stop
  BY <1>3, StopInv
<1>4. CASE TimerStep
  BY <1>4, FireInv, RunInv, PublishInv DEF TimerStep
<1>5. CASE Tick
  BY <1>5, TickInv
<1>6. QED BY <1>1, <1>2, <1>3, <1>4, <1>5 DEF Next

(* Lemma: a set without three different members has at most two.           *)
LEMMA TwoMembers ==
  ASSUME NEW S, \A r, s, x \in S : r = s \/ s = x \/ r = x
  PROVE  Cardinality(S) <= 2
<1>1. CASE S = {}
  BY <1>1, FS_EmptySet
<1>2. CASE S # {}
  <2>1. PICK r : r \in S
    BY <1>2
  <2>2. PICK s : s \in S /\ (S # {r} => s # r)
    BY <2>1
  <2>3. S = {r} \cup {s}
    BY <2>1, <2>2
  <2>4. IsFiniteSet({r}) /\ Cardinality({r}) = 1
    BY FS_Singleton
  <2>5. Cardinality({r} \cup {s}) \in {1, 2}
    BY <2>4, FS_AddElement
  <2>6. QED BY <2>3, <2>5
<1>3. QED BY <1>1, <1>2

(* The inductive invariant holds in every state, when a burst of requests  *)
(* is collected for less time than a cooldown takes.                       *)
THEOREM IndInvHolds == Debounce < Cooldown => (Spec => []IndInv)
<1>1. CASE Debounce < Cooldown
  <2>1. Init => IndInv
    BY InitInv
  <2>2. IndInv /\ [Next]_vars => IndInv'
    BY <1>1, NextInv
  <2>3. QED BY <2>1, <2>2, PTL DEF Spec
<1>2. QED BY <1>1

(* The load bound: whatever the number of accounts, the times of the       *)
(* requests and the order in which timers fire, are replaced and get the   *)
(* mutex, an account is queried at most twice in a cooldown and no timer   *)
(* waits longer than the longer delay.                                     *)
THEOREM LoadBound == Debounce < Cooldown => (Spec => []AtMostTwoPerCooldown)
<1>1. IndInv => AtMostTwoPerCooldown
  BY TwoMembers DEF IndInv, RunsInv, AtMostTwoPerCooldown
<1>2. CASE Debounce < Cooldown
  BY <1>1, <1>2, IndInvHolds, PTL
<1>3. QED BY <1>2
=============================================================================
