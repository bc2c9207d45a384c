----------------------------- MODULE MailDelivery -----------------------------
(***************************************************************************)
(* What a mail spool promises its callers, whatever its directories and    *)
(* daemons do: a mail handed over is owed to its recipient until the mail  *)
(* server has taken it or the spool has set it aside for an operator, who  *)
(* may have it tried again; and it is not owed for ever.                   *)
(***************************************************************************)
CONSTANT Mails

VARIABLE status

Status == {"new", "owed", "delivered", "aside"}

Init == status = [m \in Mails |-> "new"]

Moves(m, from, to) == /\ status[m] = from
                      /\ status' = [status EXCEPT ![m] = to]

Post(m)     == Moves(m, "new", "owed")
Deliver(m)  == Moves(m, "owed", "delivered")
SetAside(m) == Moves(m, "owed", "aside")
TryAgain(m) == Moves(m, "aside", "owed")

Settle(m) == Deliver(m) \/ SetAside(m)

Next == \E m \in Mails : Post(m) \/ Settle(m) \/ TryAgain(m)

\* The promise about every moment, and with it the one about the end.
Safety == Init /\ [][Next]_status
Spec == Safety /\ \A m \in Mails : WF_status(Settle(m))
===============================================================================
