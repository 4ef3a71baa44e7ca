------------------------------ MODULE MCSession ------------------------------
(* Instances of Session for TLC. Three attempts do not fit in the margin, as   *)
(* 30 + 1.5 + 30 + 3 seconds do not fit in 60.                                 *)
EXTENDS Session, TLC

ASSUME 2 * Timeout + 3 * Backoff > Margin
=============================================================================
