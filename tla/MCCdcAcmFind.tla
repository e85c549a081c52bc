--------------------------- MODULE MCCdcAcmFind ----------------------------
(* Nine sysfs entries, one per way CDCACM::Find keeps or drops an entry. *)
(* The inductive invariant of the proofs is checked on the same runs.    *)
EXTENDS CdcAcmFindProofs, Integers

CONSTANTS a, b, c, d, e, f, g, h, i

\* A profile: USB link?, tty directory, uevent lines, PID, ':' in the name,
\* tty number (-1: the tty name has no digit, so stoul throws).
P(usb, ttys, lines, pid, colon, n) ==
    [usb |-> usb, ttys |-> ttys, uevent |-> lines, pid |-> pid,
     colon |-> colon, digits |-> n >= 0, ttyNum |-> IF n >= 0 THEN n ELSE 0]

MCEntries == {a, b, c, d, e, f, g, h, i}

MCProfile ==
    [x \in MCEntries |->
       CASE x = a -> P(TRUE,  "one",  <<"other", "ours">>,  1, TRUE,  0)
         [] x = b -> P(TRUE,  "one",  <<"vendor">>,         2, TRUE,  1)
         [] x = c -> P(TRUE,  "many", <<"ours">>,           1, TRUE,  2)
         [] x = d -> P(TRUE,  "one",  <<"offset", "ours">>, 1, TRUE,  3)
         [] x = e -> P(TRUE,  "one",  <<"other">>,          1, TRUE,  4)
         [] x = f -> P(FALSE, "one",  <<"ours">>,           1, TRUE,  5)
         [] x = g -> P(TRUE,  "one",  <<"ours">>,           1, FALSE, 6)
         [] x = h -> P(TRUE,  "one",  <<"ours">>,           3, TRUE,  -1)
         [] x = i -> P(TRUE,  "none", <<"ours">>,           2, TRUE,  7)]
=============================================================================
