----------------------------- MODULE MCEventStream -----------------------------
(***************************************************************************)
(* Small instances of EventStream: a channel and a replay window small     *)
(* enough to overflow, a lost LISTEN session, an API restart, and clients  *)
(* that start fresh, with a cursor of an earlier process or with garbage.  *)
(***************************************************************************)
EXTENDS EventStream

FirstAccount == [c \in Clients |-> "a1"]

(* A change of another account between changes of the client's.            *)
MixedChanges == <<{"a1"}, {"a2"}, {"a1"}>>
TwoChanges == <<{"a1"}, {"a1"}>>

EarlierProcess == [epoch |-> 0, seq |-> 2]
AllStarts == {NoCursor, Garbage, EarlierProcess}
FreshStart == {NoCursor}
================================================================================
