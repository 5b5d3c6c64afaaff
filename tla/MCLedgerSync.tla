---------------------------- MODULE MCLedgerSync ----------------------------
(***************************************************************************)
(* Small instances of LedgerSync: for each way in which an order and its   *)
(* events may look, the messages that can meet them, and one to three      *)
(* faults.                                                                 *)
(***************************************************************************)
EXTENDS LedgerSync

Scenario(full, etf, drafted, topics, n, f) ==
  [full |-> full, etf |-> etf, drafted |-> drafted, topics |-> topics, pages |-> n, faults |-> f]

MCScenarios ==
  { Scenario(TRUE,  FALSE, TRUE,  {}, 0, 3),
    Scenario(TRUE,  FALSE, TRUE,  {"fill"}, 1, 2),
    Scenario(TRUE,  FALSE, TRUE,  {"order", "fill"}, 1, 1),
    Scenario(TRUE,  FALSE, TRUE,  {"fee"}, 2, 1),
    Scenario(TRUE,  FALSE, TRUE,  {"cancel", "note"}, 1, 1),
    Scenario(FALSE, FALSE, TRUE,  {"order", "fill"}, 1, 1),
    Scenario(TRUE,  FALSE, FALSE, {"fill", "fee"}, 1, 1),
    Scenario(FALSE, FALSE, FALSE, {}, 0, 3),
    Scenario(TRUE,  TRUE,  TRUE,  {"fill"}, 1, 1) }
=============================================================================
