--------------------------- MODULE MCEconomicNav ---------------------------
EXTENDS EconomicNav

MCRedemptions == {[est |-> 4, actual |-> 7], [est |-> -3, actual |-> -3]}
Form(kind, stage, released, linked, timed) ==
  [kind |-> kind, stage |-> stage, released |-> released, linked |-> linked, timed |-> timed]
MCForms ==
  {Form("refund", "", TRUE, FALSE, TRUE), Form("refund", "supplemental", TRUE, TRUE, TRUE),
   Form("refund", "supplemental", TRUE, FALSE, TRUE), Form("refund", "initial", FALSE, FALSE, TRUE),
   Form("refund", "", TRUE, FALSE, FALSE), Form("final", "", TRUE, FALSE, TRUE),
   Form("other", "", FALSE, FALSE, TRUE)}
=============================================================================
