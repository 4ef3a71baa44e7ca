------------------------------ MODULE MCWorkflow ------------------------------
(* Instances of Workflow for TLC. The organisation's endpoint shows everybody, *)
(* the endpoint that needs no id the administrator and one user more; u4 is    *)
(* hired during the run, u3 has no mailbox, ux no address.                     *)
EXTENDS Workflow, TLC

CONSTANTS u1, u2, u3, u4, ux, byOrg, byAccount

ThreeUsers == <<u1, u2, ux, u3>>
SomeStorage == [u \in Users |-> IF u = u3 THEN 250 ELSE 0]
SomeMail == [u \in Users |-> IF u = u1 THEN 2 ELSE 1]
OrgEndpoints == <<byOrg>>
PlainEndpoints == <<byAccount>>
ShowsAll == (byOrg :> Users @@ byAccount :> {u1, u2})

Options(us, f, p, y, d) == [users |-> us, file |-> f, pilot |-> p, yes |-> y, dry |-> d]
Interactive == {Options(NotGiven, NotGiven, 0, FALSE, FALSE)}
Flags == {Options({u2, u4}, NotGiven, 0, TRUE, FALSE), Options(NotGiven, {u4}, 1, FALSE, TRUE)}
UnknownNames == {Options({u4}, NotGiven, 0, TRUE, FALSE)}
AllLines == Interactive \union Flags
UnmetLines == Interactive \union UnknownNames
=============================================================================
