----------------------------- MODULE CommandStatus -----------------------------
(***************************************************************************)
(* GetCommandStatus: the verdict on a published command from the replies   *)
(* of the gateway that were archived for it, by their place in the order   *)
(* of received_at.  A reply is a record                                    *)
(*     [status, code, type (result_type), last (chunk.is_last)].           *)
(***************************************************************************)
EXTENDS Naturals, Sequences, FiniteSets

expectedCommandResultType(action) ==
  CASE action = "asset" -> "asset_page"
    [] action = "positions" -> "position_page"
    [] action = "orders" -> "order_page"
    [] action = "fills" -> "fill_page"
    [] action = "fees" -> "fee_page"
    [] action \in {"submit", "batch", "cancel"} -> "order_action_receipt"
    [] OTHER -> ""

Replied(rs, S) == {k \in DOMAIN rs : rs[k].status \in S}

MutSummarize(action, rs) ==   \* mutant: a page decides, the last one or not
  IF \E k \in DOMAIN rs : rs[k].type = expectedCommandResultType(action) THEN "completed"
  ELSE IF Replied(rs, {"failed", "rejected"}) # {} THEN "failed" ELSE "pending"

(* The state of the command; its success is state \in {"completed",        *)
(* "accepted"}.  One terminal reply decides; several are a contradiction,  *)
(* except that a query may complete after it was interrupted.              *)
summarizeCommandStatus(action, rs) ==
  LET expected == expectedCommandResultType(action)
      trade == expected = "order_action_receipt"
      accepted == IF trade THEN Replied(rs, {"accepted"}) ELSE {}
      completed == Replied(rs, {"completed"})
      failed == Replied(rs, {"failed", "rejected"})
      terminal == accepted \cup completed \cup failed
      valid == {k \in completed : rs[k].last /\ expected \in {"", rs[k].type}}
      interrupted == {k \in failed : rs[k].code = "QUERY_INTERRUPTED"}
      recovered == /\ expected # "" /\ ~trade
                   /\ completed = valid /\ Cardinality(valid) = 1
                   /\ failed # {} /\ failed = interrupted
                   /\ \A c \in valid, f \in failed : c > f
  IN  IF recovered THEN "completed"
      ELSE IF Cardinality(terminal) > 1 THEN "invalid"
      ELSE IF terminal = {} THEN "pending"
      ELSE IF failed # {} THEN "failed"
      ELSE IF valid # {} THEN "completed"
      ELSE IF \E k \in accepted : rs[k].type = expected THEN "accepted"
      ELSE "invalid"
================================================================================
