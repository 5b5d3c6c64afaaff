---------------------------- MODULE AutoRefresh ----------------------------
(***************************************************************************)
(* The scheduler that asks the gateway for assets and positions after      *)
(* trades: Request, Stop and run, which the worker's ledger loop, its exit *)
(* and the timers call.  Times are remaining ticks.  A timer that is due   *)
(* starts its goroutine within the tick, and the goroutine has the mutex   *)
(* within the tick; in between, Request may replace the timer, whose Stop  *)
(* is then too late.                                                       *)
(***************************************************************************)
EXTENDS Naturals, FiniteSets, FiniteSetsExt

CONSTANTS Accounts, Debounce, Cooldown,
          MaxTimers             \* bound: timers and runs that are told apart

ASSUME RefreshAssumption ==
  Debounce \in Nat \ {0} /\ Cooldown \in Nat \ {0} /\ MaxTimers \in Nat

VARIABLES
  timers,    \* goroutines and timers: [id, account, left, at]
  entry,     \* scheduler.timers: the id of the account's timer, 0 if none
  cooling,   \* nextAllowed, as what is left of it
  stopped,
  runs,      \* ghost: the runs within the last cooldown: [id, age]
  pending    \* ghost: accounts with a request that no run has followed

vars == <<timers, entry, cooling, stopped, runs, pending>>

-----------------------------------------------------------------------------
(* Request, called for every account of a ledger change with orders or     *)
(* fills.  Stop of the old timer works only while it has not fired.        *)
MutDelay(a) == Debounce               \* mutant: the cooldown is not looked at
Delay(a) == Max({Debounce, cooling[a]})
Stopped(id) == {t \in timers : t.id = id /\ t.at = "armed"}

(* The number of a new timer is one that no timer and no recent run has.   *)
Free == {i \in 1 .. MaxTimers : /\ \A t \in timers : t.id # i
                                /\ \A a \in Accounts : \A r \in runs[a] : r.id # i}
Fresh == CHOOSE i \in Free : TRUE
Timer(a) == [id |-> Fresh, account |-> a, left |-> Delay(a), at |-> "armed"]

(* Mutant: a stopped timer is not armed again.                             *)
MutReplace(a) ==
  IF entry[a] # 0 THEN timers' = timers \ Stopped(entry[a]) /\ UNCHANGED entry
  ELSE timers' = timers \cup {Timer(a)} /\ entry' = [entry EXCEPT ![a] = Fresh]

Replace(a) ==
  /\ timers' = (timers \ Stopped(entry[a])) \cup {Timer(a)}
  /\ entry' = [entry EXCEPT ![a] = Fresh]

Request(a) ==
  /\ Free # {} /\ ~ stopped
  /\ Replace(a)
  /\ pending' = pending \cup {a}
  /\ UNCHANGED <<cooling, stopped, runs>>

(* Stop, when the worker ends.                                             *)
Stop ==
  /\ ~ stopped /\ stopped' = TRUE
  /\ timers' = timers \ UNION {Stopped(entry[a]) : a \in Accounts}
  /\ entry' = [a \in Accounts |-> 0]
  /\ UNCHANGED <<cooling, runs, pending>>

-----------------------------------------------------------------------------
(* The timers.                                                             *)
Move(t, l) == timers' = (timers \ {t}) \cup {[t EXCEPT !.at = l]}

Fire(t) ==
  /\ t.at = "armed" /\ t.left = 0
  /\ Move(t, "waiting")
  /\ UNCHANGED <<entry, cooling, stopped, runs, pending>>

(* run, under the mutex.  It removes the entry of the account, which may   *)
(* by now be that of a younger timer.                                      *)
Run(t) ==
  /\ t.at = "waiting"
  /\ IF stopped
     THEN timers' = timers \ {t} /\ UNCHANGED <<entry, cooling, runs, pending>>
     ELSE /\ Move(t, "asset")
          /\ entry' = [entry EXCEPT ![t.account] = 0]
          /\ cooling' = [cooling EXCEPT ![t.account] = Cooldown]
          /\ runs' = [runs EXCEPT ![t.account] = @ \cup {[id |-> t.id, age |-> 0]}]
          /\ pending' = pending \ {t.account}
  /\ UNCHANGED stopped

(* run, after the mutex: both queries, the second whatever became of the   *)
(* first; a failed query is logged and not repeated.                       *)
Publish(t) ==
  /\ t.at \in {"asset", "positions"}
  /\ IF t.at = "asset" THEN Move(t, "positions") ELSE timers' = timers \ {t}
  /\ UNCHANGED <<entry, cooling, stopped, runs, pending>>

Due(t) == t.at = "waiting" \/ (t.at = "armed" /\ t.left = 0)
Less(n) == IF n = 0 THEN 0 ELSE n - 1

Tick ==
  /\ \A t \in timers : ~ Due(t)
  /\ timers' = {[t EXCEPT !.left = Less(@)] : t \in timers}
  /\ cooling' = [a \in Accounts |-> Less(cooling[a])]
  /\ runs' = [a \in Accounts |->
                {[r EXCEPT !.age = @ + 1] : r \in {x \in runs[a] : x.age + 1 < Cooldown}}]
  /\ UNCHANGED <<entry, stopped, pending>>

-----------------------------------------------------------------------------
Init ==
  /\ timers = {} /\ entry = [a \in Accounts |-> 0]
  /\ cooling = [a \in Accounts |-> 0] /\ stopped = FALSE
  /\ runs = [a \in Accounts |-> {}] /\ pending = {}

TimerStep == \E t \in timers : Fire(t) \/ Run(t) \/ Publish(t)

Next == (\E a \in Accounts : Request(a)) \/ Stop \/ TimerStep \/ Tick

(* The runtime starts due timers, schedules goroutines, and time passes.   *)
Spec == Init /\ [][Next]_vars /\ WF_vars(TimerStep) /\ WF_vars(Tick)

-----------------------------------------------------------------------------
(* A timer waits no longer than the debounce or the cooldown, never both.  *)
TypeOK ==
  /\ timers \subseteq [id : 1 .. MaxTimers, account : Accounts,
                       left : 0 .. Max({Debounce, Cooldown}),
                       at : {"armed", "waiting", "asset", "positions"}]
  /\ entry \in [Accounts -> 0 .. MaxTimers] /\ cooling \in [Accounts -> 0 .. Cooldown]
  /\ stopped \in BOOLEAN /\ pending \subseteq Accounts
  /\ runs \in [Accounts -> SUBSET [id : 1 .. MaxTimers, age : 0 .. Cooldown - 1]]

(* The cooldown bounds the load on the gateway: the timer that fired while *)
(* it was replaced, and its replacement, are the most that run in one, and *)
(* no timer waits longer than the longer of the two delays (TypeOK).       *)
AtMostTwoPerCooldown ==
  /\ TypeOK
  /\ \A a \in Accounts : Cardinality(runs[a]) <= 2

(* A request that stops a timer puts the refresh off by a whole debounce.  *)
(* Nothing limits how often: requests that keep coming closer together     *)
(* than the debounce put it off for ever.  That is the only way: else      *)
(* every request, however timers fire, are replaced and wait for the       *)
(* mutex, is followed by a run, or the worker stops.                       *)
PutOff(a) == Request(a) /\ Stopped(entry[a]) # {}
EveryRequestServed ==
  \A a \in Accounts :
    (a \in pending ~> (a \notin pending \/ stopped)) \/ []<><<PutOff(a)>>_vars
=============================================================================
