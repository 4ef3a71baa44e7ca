---------------------------- MODULE MCProvisioning ----------------------------
(* Instances of Provisioning for TLC: two users, one of whom may have an       *)
(* account already, and one e-mail to rename a user to.                        *)
EXTENDS Provisioning, TLC

CONSTANTS u1, u2, e1, e2, e3

TwoUsers == (u1 :> e1 @@ u2 :> e2)
=============================================================================
