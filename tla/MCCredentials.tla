--------------------------- MODULE MCCredentials ---------------------------
(***************************************************************************)
(* A small instance of Credentials: four operations, among them a disable  *)
(* and a rotation with another key of the same id, in several orders, and  *)
(* one that is refused.                                                    *)
(***************************************************************************)
EXTENDS Credentials

Key == <<"k1", "b1">>
Rotate == [kind |-> "rotate", key |-> Key, valid |-> TRUE]
OtherKey == [Rotate EXCEPT !.key = <<"k1", "b2">>]
Disable == [Rotate EXCEPT !.kind = "disable"]
Invalid == [Rotate EXCEPT !.valid = FALSE]

Orders == {<<Rotate, OtherKey, Disable, Rotate>>, <<Disable, Rotate, Rotate, Invalid>>}
=============================================================================
