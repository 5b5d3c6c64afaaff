--------------------------- MODULE MCAutoRefresh ---------------------------
(***************************************************************************)
(* A small instance of AutoRefresh.                                        *)
(***************************************************************************)
EXTENDS AutoRefresh
=============================================================================
