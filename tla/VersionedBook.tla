--------------------------- MODULE VersionedBook ---------------------------
(***************************************************************************)
(* What the table of economic NAVs promises to its readers: every day has  *)
(* a history of versions that only grows, and only the newest version of a *)
(* day, the current one, may still change its status.                      *)
(***************************************************************************)
EXTENDS Naturals, Sequences

CONSTANTS Days, Statuses

VARIABLE history    \* of every day, the statuses of its versions

Init == history = [d \in Days |-> <<>>]

(* A new version becomes the current one.                                  *)
Publish(d, s) == history' = [history EXCEPT ![d] = Append(@, s)]

(* A review changes the status of the current version.                     *)
Review(d, s) ==
  /\ history[d] # <<>>
  /\ history' = [history EXCEPT ![d][Len(history[d])] = s]

Next == \E d \in Days, s \in Statuses : Publish(d, s) \/ Review(d, s)

Spec == Init /\ [][Next]_history
=============================================================================
