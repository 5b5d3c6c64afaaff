----------------------------- MODULE MCOrderRow -----------------------------
(***************************************************************************)
(* An instance of OrderRow.  AllReports is every combination of the        *)
(* gateway's words and of quantities that do not exceed the order, those   *)
(* that contradict themselves included.                                    *)
(***************************************************************************)
EXTENDS OrderRow

MCWords == {"", "queued", "created", "accepted", "working", "partially_filled", "filled",
            "cancelled", "rejected"}

AllReports ==
  {p \in [st : MCWords, gw : MCWords, qty : {0, Qty}, cum : 0 .. Qty, leaves : 0 .. Qty,
          canc : 0 .. Qty, term : {FALSE}, rej : {"", "E1"}, full : BOOLEAN] :
     p.cum + p.leaves + p.canc <= Qty /\ (~p.full => p.qty = 0 \/ p.st = "filled")}
=============================================================================
