---------------------------- MODULE MCBulkImporter ----------------------------
(* Instances of BulkImporter for TLC. Two archives are of one mailbox and hold *)
(* the same message; the third is alone in its mailbox.                        *)
EXTENDS BulkImporter, TLC

CONSTANTS a1, a2, a3, u1, u2, m1

Shared == (a1 :> u1 @@ a2 :> u1 @@ a3 :> u2)
Entries == (a1 :> <<m1>> @@ a2 :> <<m1>> @@ a3 :> <<m1>>)
=============================================================================
