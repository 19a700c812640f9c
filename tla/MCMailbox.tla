----------------------------- MODULE MCMailbox -----------------------------
(* Mailbox.tla for TLC. *)
EXTENDS Mailbox, TLC

CONSTANTS t1, t2, t3

ThreeThreads == {t1, t2, t3}
TwoAskers == {t1, t2}
=============================================================================
