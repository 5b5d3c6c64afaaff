------------------------------- MODULE SubmitOnce -------------------------------
(***************************************************************************)
(* What the relay promises about submissions, without handlers, retries or *)
(* failures: an order identity is reserved by one message for good, and    *)
(* the message is sent at most once, closing the set of orders it carries. *)
(***************************************************************************)
EXTENDS Integers

VARIABLES
  reserved,   \* set of [id, msg]: the identity, and the message it goes with
  sent        \* messages on the command stream

(* Two identities clash when the broker could not tell the orders apart,   *)
(* or when they answer to the same idempotency key.                        *)
Clash(x, y) == /\ x.acct = y.acct
               /\ \/ x.date = y.date /\ x.gw = y.gw
                  \/ x.key = y.key

Init == reserved = {} /\ sent = {}

Reserve(id, m) == /\ m \notin sent
                  /\ \A r \in reserved : ~Clash(r.id, id)
                  /\ reserved' = reserved \cup {[id |-> id, msg |-> m]}
                  /\ UNCHANGED sent

(* The message carries the orders reserved with it (none for a cancel).    *)
Send(m) == /\ m \notin sent
           /\ sent' = sent \cup {m}
           /\ UNCHANGED reserved

(* The one order that joins the reservations, and the one message that     *)
(* joins the stream, in a step.                                            *)
Next == \/ \E r \in reserved' : Reserve(r.id, r.msg)
        \/ \E m \in sent' : Send(m)

Spec == Init /\ [][Next]_<<reserved, sent>>
================================================================================
