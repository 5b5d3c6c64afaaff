---------------------------- MODULE MCCloseCapture ----------------------------
(***************************************************************************)
(* Small instances of CloseCapture: one symbol, or two for an answer in    *)
(* two pages; a job with the two queries whose answers it captures; a      *)
(* gateway whose clock is right, or behind by more than the time between   *)
(* two queries.                                                            *)
(***************************************************************************)
EXTENDS CloseCapture

TwoSteps == <<"asset", "positions">>
Behind == {-5}
NoSkew == {0}
================================================================================
