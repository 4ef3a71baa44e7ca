---------------------------- MODULE MCMigrationUI ----------------------------
(* Instances of MigrationUI for TLC: one or two requests at a time, one or two *)
(* organisations, two or three runs.                                           *)
EXTENDS MigrationUI

CONSTANTS h1, h2, o1, o2

AnySkip == {{}, {"CALENDAR"}, {"MAILBOX"}}
=============================================================================
