------------------------------- MODULE SyncAgent -------------------------------
(***************************************************************************)
(* atomic_agents/calendar_agent.py and contacts_agent.py (the same loop    *)
(* over another entity), run by the MigrationSupervisor through            *)
(* AtomicAgent.run: the loop over users and items, retry_with_backoff      *)
(* around the insertion, the requests of GoogleWorkspaceAdminClient with   *)
(* their own retries, and the items table of the CheckpointStore. A run    *)
(* may be paused, cancelled or killed, and the migration run again.        *)
(*                                                                         *)
(* The order of the users and of a user's items has no effect on the       *)
(* state: both loops are modelled by the set of what is left.              *)
(***************************************************************************)
EXTENDS Naturals, FiniteSets

CONSTANTS
  Users,
  Items,          \* events or contacts, of all the users
  Owner,          \* Owner[i]: the user whose address book or calendar holds i
  MaxRetries,     \* max_retries of the agent's retry_with_backoff
  MaxRequests,    \* max_retries of GoogleWorkspaceAdminClient._request
  MaxFaults,      \* bound: requests accepted whose answer never came
  MaxRuns         \* bound: how often the migration is started

ASSUME OwnerAssumption == Owner \in [Items -> Users] /\ IsFiniteSet(Items)
ASSUME RetriesAssumption == MaxRetries \in Nat \ {0} /\ MaxRequests \in Nat \ {0}
ASSUME BoundsAssumption == MaxFaults \in Nat /\ MaxRuns \in Nat

VARIABLES
  status,    \* the items table: status of each item, "none" when it has no row
  copies,    \* what Google Workspace holds
  ctl,       \* the PauseController, as wait_if_paused sees it
  pc,        \* where the agent is; "idle" when no process runs
  dry,       \* dry_run of this run
  users,     \* the users left, the current one included
  user,      \* the current user
  todo,      \* the items left of the current user, the current one included
  item,      \* the current item
  attempt,   \* attempt of the agent's retry_with_backoff
  request,   \* attempt of the _request under it
  tally,     \* synced, skipped, failed
  unheard,   \* history: accepted insertions of each item the run forgot
  lapses,    \* history: users whose items were not listed, in this run
  faults, runs

store == <<status, copies>>
loop == <<dry, users, user, todo, item>>
tries == <<attempt, request>>
bounds == <<faults, runs>>
vars == <<status, copies, ctl, pc, dry, users, user, todo, item, attempt, request,
          tally, unheard, lapses, faults, runs>>

NoTally == [synced |-> 0, skipped |-> 0, failed |-> 0]
Count(f) == tally' = [tally EXCEPT ![f] = @ + 1]
At == {"idle", "user", "fetch", "item", "check", "retry", "post", "record", "fail",
       "done", "aborted"}

TypeOK ==
  /\ status \in [Items -> {"none", "SYNCED", "FAILED"}]
  /\ copies \in [Items -> Nat]
  /\ ctl \in {"RUNNING", "PAUSED", "CANCELLED"}
  /\ pc \in At
  /\ dry \in BOOLEAN
  /\ users \subseteq Users
  /\ user \in Users
  /\ todo \subseteq Items
  /\ item \in Items
  /\ attempt \in 0 .. MaxRetries
  /\ request \in 0 .. MaxRequests
  /\ tally \in [synced : Nat, skipped : Nat, failed : Nat]
  /\ unheard \in [Items -> Nat]
  /\ lapses \subseteq Users
  /\ faults \in Nat
  /\ runs \in Nat

Init ==
  /\ status = [i \in Items |-> "none"]
  /\ copies = [i \in Items |-> 0]
  /\ ctl = "RUNNING"
  /\ pc = "idle"
  /\ dry = FALSE
  /\ users = {}
  /\ user \in Users
  /\ todo = {}
  /\ item \in Items
  /\ attempt = 0
  /\ request = 0
  /\ tally = NoTally
  /\ unheard = [i \in Items |-> 0]
  /\ lapses = {}
  /\ faults = 0
  /\ runs = 0

-----------------------------------------------------------------------------
(* The run: supervisor.run_stage_calendar / run_stage_contacts              *)

\* Every run has a PauseController of its own.
Start ==
  /\ pc \in {"idle", "done", "aborted"}
  /\ runs < MaxRuns
  /\ runs' = runs + 1
  /\ dry' \in BOOLEAN
  /\ pc' = "user"
  /\ ctl' = "RUNNING"
  /\ users' = Users
  /\ todo' = {}
  /\ tally' = NoTally
  /\ lapses' = {}
  /\ UNCHANGED <<store, user, item, tries, unheard, faults>>

Running == pc \notin {"idle", "done", "aborted"}

\* The process dies; only the store and Google Workspace are left. An item
\* inserted and not yet recorded is forgotten.
Forget == unheard' = IF pc = "record" THEN [unheard EXCEPT ![item] = @ + 1] ELSE unheard

Crash ==
  /\ Running
  /\ pc' = "idle"
  /\ Forget
  /\ UNCHANGED <<store, ctl, loop, tries, tally, lapses, bounds>>

\* pause, resume, network loss and recovery, cancel: see PauseController.
Steer ==
  /\ Running
  /\ ctl # "CANCELLED"
  /\ ctl' \in {"RUNNING", "PAUSED", "CANCELLED"} \ {ctl}
  /\ UNCHANGED <<store, pc, loop, tries, tally, unheard, lapses, bounds>>

-----------------------------------------------------------------------------
(* The loops of execute *)

\* wait_if_paused, outside any try: a cancelled run leaves execute, and
\* AtomicAgent.run and the supervisor turn that into an error.
WaitThen(l) ==
  /\ ctl # "PAUSED"
  /\ pc' = IF ctl = "CANCELLED" THEN "aborted" ELSE l

NextUser ==
  /\ pc = "user"
  /\ users # {}
  /\ WaitThen("fetch")
  /\ user' \in users
  /\ UNCHANGED <<store, ctl, dry, users, todo, item, tries, tally, unheard, lapses, bounds>>

\* list_calendar_events / list_contacts answer.
Fetch ==
  /\ pc = "fetch"
  /\ todo' = {i \in Items : Owner[i] = user}
  /\ pc' = "item"
  /\ UNCHANGED <<store, ctl, dry, users, user, item, tries, tally, unheard, lapses, bounds>>

\* The client turns a ZohoClientError into an empty list.
FetchNothing ==
  /\ pc = "fetch"
  /\ todo' = {}
  /\ lapses' = lapses \union {user}
  /\ pc' = "item"
  /\ UNCHANGED <<store, ctl, dry, users, user, item, tries, tally, unheard, bounds>>

\* Any other exception costs one failure, whatever the user holds.
FetchRaises ==
  /\ pc = "fetch"
  /\ Count("failed")
  /\ lapses' = lapses \union {user}
  /\ users' = users \ {user}
  /\ pc' = "user"
  /\ UNCHANGED <<store, ctl, dry, user, todo, item, tries, unheard, bounds>>

\* ZohoEndpointUnsupportedError: zero results for all the users left.
FetchUnsupported ==
  /\ pc = "fetch"
  /\ lapses' = lapses \union users
  /\ users' = {}
  /\ pc' = "user"
  /\ UNCHANGED <<store, ctl, dry, user, todo, item, tries, tally, unheard, bounds>>

NextItem ==
  /\ pc = "item"
  /\ todo # {}
  /\ WaitThen("check")
  /\ item' \in todo
  /\ UNCHANGED <<store, ctl, dry, users, user, todo, tries, tally, unheard, lapses, bounds>>

UserDone ==
  /\ pc = "item"
  /\ todo = {}
  /\ users' = users \ {user}
  /\ pc' = "user"
  /\ UNCHANGED <<store, ctl, dry, user, todo, item, tries, tally, unheard, lapses, bounds>>

Finish ==
  /\ pc = "user"
  /\ users = {}
  /\ pc' = "done"
  /\ UNCHANGED <<store, ctl, loop, tries, tally, unheard, lapses, bounds>>

\* Mutant: the item is settled and not counted.
SettleUncounted(f) == todo' = todo \ {item} /\ pc' = "item" /\ UNCHANGED tally

\* The item is settled, in the tally field f.
Settle(f) ==
  /\ Count(f)
  /\ todo' = todo \ {item}
  /\ pc' = "item"

\* Mutants: the items table is not asked; dry_run is not asked.
SkipsNothing == FALSE
SettlesSyncedOnly == status[item] = "SYNCED"

\* is_item_synced, then dry_run
Skips == status[item] = "SYNCED"
SettlesAtOnce == Skips \/ dry

Check ==
  /\ pc = "check"
  /\ IF SettlesAtOnce
       THEN /\ Settle(IF Skips THEN "skipped" ELSE "synced")
            /\ UNCHANGED attempt
       ELSE pc' = "retry" /\ attempt' = 0 /\ UNCHANGED <<todo, tally>>
  /\ UNCHANGED <<store, ctl, dry, users, user, item, request, unheard, lapses, bounds>>

-----------------------------------------------------------------------------
(* retry_with_backoff(insert, pause_controller): head of its loop. Its      *)
(* InterruptedError is caught by the agent like any other exception.        *)

\* Mutant: the wait in the retry loop does not look at the cancellation.
NeverInterrupted == FALSE

Interrupted == ctl = "CANCELLED"

Retry ==
  /\ pc = "retry"
  /\ ctl # "PAUSED"
  /\ IF Interrupted
       THEN pc' = "fail" /\ UNCHANGED request
       ELSE pc' = "post" /\ request' = 0
  /\ UNCHANGED <<store, ctl, loop, attempt, tally, unheard, lapses, bounds>>

\* The request is accepted and its answer arrives.
PostAnswered ==
  /\ pc = "post"
  /\ copies' = [copies EXCEPT ![item] = @ + 1]
  /\ pc' = "record"
  /\ UNCHANGED <<status, ctl, loop, tries, tally, unheard, lapses, bounds>>

\* Mutant: attempts are not counted.
UncountedAttempt == attempt

Exhausted(n) == n >= MaxRetries
NextAttempt == attempt + 1

\* An exception of one request. _request tries again; what it raises in the end
\* is a network error, which pauses the run and is not counted, or another one.
PostRaises ==
  IF request + 1 < MaxRequests
    THEN request' = request + 1 /\ UNCHANGED <<pc, ctl, attempt>>
    ELSE /\ UNCHANGED request
         /\ \/ /\ pc' = "retry"
               /\ ctl' = IF ctl = "RUNNING" THEN "PAUSED" ELSE ctl
               /\ UNCHANGED attempt
            \/ /\ attempt' = NextAttempt
               /\ pc' = IF Exhausted(NextAttempt) THEN "fail" ELSE "retry"
               /\ UNCHANGED ctl

PostRefused ==
  /\ pc = "post"
  /\ PostRaises
  /\ UNCHANGED <<store, loop, tally, unheard, lapses, bounds>>

\* The request is accepted, its answer is lost.
PostUnheard ==
  /\ pc = "post"
  /\ faults < MaxFaults
  /\ faults' = faults + 1
  /\ PostRaises
  /\ copies' = [copies EXCEPT ![item] = @ + 1]
  /\ unheard' = [unheard EXCEPT ![item] = @ + 1]
  /\ UNCHANGED <<status, loop, tally, lapses, runs>>

-----------------------------------------------------------------------------
(* record_item_sync: INSERT OR REPLACE, in a transaction of its own         *)

Record ==
  /\ pc = "record"
  /\ status' = [status EXCEPT ![item] = "SYNCED"]
  /\ Settle("synced")
  /\ UNCHANGED <<copies, ctl, dry, users, user, item, tries, unheard, lapses, bounds>>

\* The store raises (a locked database): the item counts as failed.
RecordRaises ==
  /\ pc = "record"
  /\ pc' = "fail"
  /\ Forget
  /\ UNCHANGED <<store, ctl, loop, tries, tally, lapses, bounds>>

\* except Exception: the item is counted, then recorded FAILED.
Fail ==
  /\ pc = "fail"
  /\ status' = [status EXCEPT ![item] = "FAILED"]
  /\ Settle("failed")
  /\ UNCHANGED <<copies, ctl, dry, users, user, item, tries, unheard, lapses, bounds>>

\* The store raises inside the handler: nothing catches it before AtomicAgent.run.
FailRaises ==
  /\ pc = "fail"
  /\ Count("failed")
  /\ pc' = "aborted"
  /\ UNCHANGED <<store, ctl, loop, tries, unheard, lapses, bounds>>

Terminated == pc \in {"idle", "done", "aborted"} /\ runs = MaxRuns /\ UNCHANGED vars

AgentStep ==
  \/ NextUser \/ Fetch \/ FetchNothing \/ FetchRaises \/ FetchUnsupported
  \/ NextItem \/ UserDone \/ Finish \/ Check
  \/ Retry \/ PostAnswered \/ PostRefused \/ PostUnheard
  \/ Record \/ RecordRaises \/ Fail \/ FailRaises

Next == Start \/ Crash \/ Steer \/ AgentStep \/ Terminated

Spec == Init /\ [][Next]_vars

\* The agent's thread runs, and its requests have timeouts.
FairSpec == Spec /\ WF_vars(AgentStep)

-----------------------------------------------------------------------------
(* Properties *)

\* The agent implements the ledger: it records SYNCED only what it delivered,
\* and it never delivers again, or marks FAILED, an item recorded SYNCED,
\* whatever crashes, losses and retries came between.
Ledger == INSTANCE ItemLedger
ImplementsLedger == Ledger!Spec

\* Every copy in Google Workspace is accounted for: it is recorded, or it is
\* about to be recorded, or its insertion is one the run has forgotten. Nothing
\* else in the loops, the retries or a re-run makes a duplicate.
Accounted(i) == status[i] = "SYNCED" \/ (pc = "record" /\ item = i)
CopiesExplained ==
  \A i \in Items : copies[i] = unheard[i] + (IF Accounted(i) THEN 1 ELSE 0)

\* The summary of a live run that listed every user tells the truth: each item
\* is counted once, and the failures it reports are the rows that are not SYNCED.
SummaryIsTrue ==
  pc = "done" /\ ~dry /\ lapses = {} =>
    /\ tally.synced + tally.skipped + tally.failed = Cardinality(Items)
    /\ tally.failed = Cardinality({i \in Items : status[i] # "SYNCED"})

\* A dry run writes nothing, neither in Google Workspace nor in the store.
DryRunWritesNothing == [][dry /\ Running => UNCHANGED store]_vars

\* A cancelled run ends, from inside a retry as well as from a pause.
CancelEndsRun == ctl = "CANCELLED" /\ Running ~> ~Running

\* A run ends when the network errors and the pauses do: a network error is not
\* counted as an attempt, everything else is.
RunEnds == <>[](ctl = "RUNNING") => (Running ~> ~Running)

\* "skips already synced users, emails, contacts, and calendar events": no item
\* is inserted twice.
NoDuplicates == \A i \in Items : copies[i] <= 1
=============================================================================
