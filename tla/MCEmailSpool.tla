----------------------------- MODULE MCEmailSpool -----------------------------
(* Small instances of EmailSpool for TLC. *)
EXTENDS EmailSpool

CONSTANTS w1, w2

OneMail == {1}
TwoMails == {1, 2}
BandsOf(S) == [m \in S |-> IF m = 1 THEN 9 ELSE 1]
OneBand == BandsOf(OneMail)
TwoBands == BandsOf(TwoMails)
===============================================================================
