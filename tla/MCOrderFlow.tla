------------------------------ MODULE MCOrderFlow ------------------------------
(***************************************************************************)
(* Small instances of OrderFlow.  The request sets are chosen so that      *)
(* every clash can happen: same gateway id under two keys, same key for    *)
(* two gateway ids, same key for two payloads, same client id, a child of  *)
(* a batch that is also sent alone, an absent key and an absent date.      *)
(***************************************************************************)
EXTENDS OrderFlow, TLC

Symmetry == Permutations(Callers)

OneProcess == [c \in Callers |-> CHOOSE p \in Procs : TRUE]

Strings == {"order", "a1", "a2", "g1", "g2", "k1", "k2", "B", "c1", "x1"}

Req(gw, key, client, date, body) ==
  [acct |-> "a1", gw |-> gw, client |-> client, key |-> key, date |-> date,
   body |-> body]

(* Clashing single submissions.                                            *)
ClashingOrders ==
  {Req("g1", <<"k1">>, <<>>, 1, "b1"), Req("g1", <<"k1">>, <<>>, 1, "b2"),
   Req("g1", <<>>, <<>>, 0, "b1"), Req("g2", <<"k1">>, <<>>, 1, "b1")}

(* A batch, one of its children alone, and a single order whose client id  *)
(* equals that of the other child.                                         *)
BatchOrders ==
  {Req("g2", <<"B", "g2">>, <<>>, 1, "b1"), Req("g2", <<"k2">>, <<"g1">>, 1, "b1")}

Batch(key, os) == [acct |-> "a1", key |-> key, orders |-> os]

Batches ==
  {Batch(<<"B">>, <<Req("g1", <<>>, <<>>, 1, "b1"), Req("g2", <<>>, <<>>, 1, "b1")>>),
   Batch(<<"B">>, <<Req("g1", <<"k2">>, <<>>, 1, "b1"),
                    Req("g2", <<"k2">>, <<>>, 1, "b1")>>)}

(* One that is refused for its account.                                    *)
Unrouted == [Req("g1", <<"k1">>, <<>>, 1, "b1") EXCEPT !.acct = "a2"]

SubmittedOrders == ClashingOrders \cup BatchOrders \cup {Unrouted}

(* Three clashing single submissions, or three batches, children of theirs *)
(* and orders with a child's client id; or two single submissions and a    *)
(* change of the day; or a call that is refused.                           *)
Started == ({call[c] : c \in Callers} \ {NoCall}) \cup {x.call : x \in receipts}
OneGroup ==
  \/ /\ today = 1 \/ calls <= 2
     /\ \A x \in Started : /\ x.action = "order.submit" /\ x.acct = "a1"
                            /\ x.orders[1].key[1] \in {"k1", "order"}
  \/ /\ today = 1
     /\ \A x \in Started : x.key[1] \in {"B", "k2"}
  \/ \A x \in Started : x.acct = "a2"

(* The Redis client repeats at most one command, of at most two requests.  *)
OneCopy == \/ Len(stream) = Cardinality(Sent)
           \/ calls <= 2 /\ Len(stream) = Cardinality(Sent) + 1

OneOrder == {Req("g1", <<"k1">>, <<>>, 1, "b1")}

(* The same order, and one that is refused for its account.                *)
RoutedAndNot == OneOrder \cup {Unrouted}

Cancel(gw, key, x) == [acct |-> "a1", key |-> key, gw |-> gw, cancel |-> x]

(* One cancel key used for two cancel ids.                                 *)
Cancels == {Cancel("g1", <<"x1">>, "x1"), Cancel("g1", <<"x1">>, "c1")}

None == {}
================================================================================
