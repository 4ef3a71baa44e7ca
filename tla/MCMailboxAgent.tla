---------------------------- MODULE MCMailboxAgent ----------------------------
(* Instances of MailboxAgent for TLC. Pages of two messages: the first folder  *)
(* has a full page and one message more, or exactly one page; mx is oversize.  *)
EXTENDS MailboxAgent, TLC

CONSTANTS f1, f2, m1, m2, m3, m4, mx

ThreeInOne == (f1 :> <<m1, m2, m3>>)
TwoInOne == (f1 :> <<m1, m2>>)
=============================================================================
