----------------------------- MODULE MCSyncAgent -----------------------------
(* Instances of SyncAgent for TLC: u1 holds two items, u2 none; or one each.   *)
EXTENDS SyncAgent, TLC

CONSTANTS u1, u2, i1, i2

TwoAndNone == (i1 :> u1 @@ i2 :> u1)
OneEach == (i1 :> u1 @@ i2 :> u2)
=============================================================================
