------------------------------ MODULE MCPipeline ------------------------------
(* Instances of Pipeline for TLC: u1 has an event and a folder of two pages,   *)
(* u2 no mailbox.                                                              *)
EXTENDS Pipeline, TLC

CONSTANTS u1, u2, cal, inbox, e1, m1, m2

EventAndMail == (cal :> <<e1>> @@ inbox :> <<m1, m2>>)
TheirStage == (cal :> "calendar" @@ inbox :> "mailbox")
AllOfU1 == [f \in Folders |-> u1]
=============================================================================
