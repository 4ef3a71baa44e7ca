------------------------------ MODULE ItemLedger ------------------------------
(***************************************************************************)
(* What the agents and the CheckpointStore promise together about one      *)
(* migrated item (a message, an event, a contact): the destination holds   *)
(* some copies of it, the items table holds its last status, a SYNCED item *)
(* has been delivered, and is never delivered or touched again.            *)
(***************************************************************************)
EXTENDS Naturals

CONSTANTS Items

VARIABLES
  copies,   \* copies of each item in Google Workspace
  status    \* its row in the items table, "none" when there is no row

vars == <<copies, status>>

Status == {"none", "SYNCED", "FAILED"}

TypeOK ==
  /\ copies \in [Items -> Nat]
  /\ status \in [Items -> Status]

Init ==
  /\ copies = [i \in Items |-> 0]
  /\ status = [i \in Items |-> "none"]

\* The destination accepts the item, whether the sender learns of it or not.
Deliver(i) ==
  /\ status[i] # "SYNCED"
  /\ copies' = [copies EXCEPT ![i] = @ + 1]
  /\ UNCHANGED status

Confirm(i) ==
  /\ status[i] # "SYNCED"
  /\ copies[i] > 0
  /\ status' = [status EXCEPT ![i] = "SYNCED"]
  /\ UNCHANGED copies

\* A failure leaves the item to a later run.
Reject(i) ==
  /\ status[i] # "SYNCED"
  /\ status' = [status EXCEPT ![i] = "FAILED"]
  /\ UNCHANGED copies

Next == \E i \in Items : Deliver(i) \/ Confirm(i) \/ Reject(i)

Spec == Init /\ [][Next]_vars

\* What a re-run skips has really been delivered.
SyncedIsDelivered == \A i \in Items : status[i] = "SYNCED" => copies[i] > 0

\* No later run delivers a synced item again or forgets that it is synced.
SyncedIsFinal ==
  [][\A i \in Items : status[i] = "SYNCED"
       => status'[i] = "SYNCED" /\ copies'[i] = copies[i]]_vars
=============================================================================
