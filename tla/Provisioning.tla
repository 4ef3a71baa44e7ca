----------------------------- MODULE Provisioning -----------------------------
(***************************************************************************)
(* The first stage of a migration: atomic_agents/provisioning_agent.py     *)
(* over provision_user and get_user of connectors/google_client.py and the *)
(* users table of the CheckpointStore, and what the workflow and the Web   *)
(* UI do with it, the choice of the users whose data is migrated.          *)
(*                                                                         *)
(* Temporary passwords live in the results of the running agent until the  *)
(* last user is done; only then are they written to the credentials CSV.   *)
(***************************************************************************)
EXTENDS Naturals, FiniteSets

CONSTANTS
  Users,        \* Zoho users, by zuid
  Emails,
  Email0,       \* the e-mail of each user when the first run begins
  Existing,     \* e-mails that have an account before the migration
  Aliased,      \* users with aliases, which are added once the account is created
  NoRow,
  MaxFaults,    \* bound: accepted creations whose answer never came
  MaxTroubles,  \* bound: refused requests, failing stores and files
  MaxRenames,   \* bound: users renamed at Zoho between two runs
  MaxRuns       \* bound: how often the migration is started

ASSUME UsersAssumption == IsFiniteSet(Users)
ASSUME EmailAssumption ==
  /\ Email0 \in [Users -> Emails]
  /\ \A u, v \in Users : Email0[u] = Email0[v] => u = v
  /\ Existing \subseteq Emails /\ Aliased \subseteq Users
ASSUME BoundsAssumption ==
  MaxFaults \in Nat /\ MaxTroubles \in Nat /\ MaxRenames \in Nat /\ MaxRuns \in Nat

VARIABLES
  email,      \* the directory of Zoho
  account,    \* the directory of Google Workspace
  rows,       \* the users table: per zuid, an e-mail and a status
  csv,        \* e-mails whose password is in a credentials CSV
  ctl,        \* the PauseController, as wait_if_paused sees it
  pc, dry,
  todo, user, \* the users left, the current one included
  results,    \* status reported for each user handled in this run
  tally,      \* created, existing, failed
  active,     \* the users whose data is migrated
  forgot,     \* history: e-mails whose password a run has lost, and why it may
  mistaken,   \* history: e-mails this run took for existing accounts by an error's text
  uncounted,  \* history: a store failed in this run, after the count
  faults, troubles, renames, runs

world == <<email, account>>
store == <<rows, csv>>
loop == <<dry, todo, user>>
outcome == <<results, tally, active>>
histories == <<forgot, mistaken, uncounted>>
bounds == <<faults, troubles, renames, runs>>
vars == <<email, account, rows, csv, ctl, pc, dry, todo, user, results, tally, active,
          forgot, mistaken, uncounted, faults, troubles, renames, runs>>

Statuses == {"PENDING", "CREATED", "EXISTING", "FAILED", "SIMULATED_CREATED"}
At == {"idle", "user", "register", "simulate", "provision", "aliases", "created", "existing",
       "recheck", "confirm", "failed", "filter", "recover", "done", "aborted"}
NoTally == [created |-> 0, existing |-> 0, failed |-> 0]
Count(f) == tally' = [tally EXCEPT ![f] = @ + 1]
mail == email[user]

TypeOK ==
  /\ email \in [Users -> Emails]
  /\ account \in [Emails -> {"absent", "theirs", "ours"}]
  /\ rows \in [Users -> {NoRow} \union [email : Emails, status : Statuses]]
  /\ csv \subseteq Emails
  /\ ctl \in {"RUNNING", "PAUSED", "CANCELLED"}
  /\ pc \in At
  /\ dry \in BOOLEAN
  /\ todo \subseteq Users /\ user \in Users
  /\ results \in [Users -> Statuses \union {"none"}]
  /\ tally \in [created : Nat, existing : Nat, failed : Nat]
  /\ active \subseteq Users
  /\ forgot \subseteq Emails /\ mistaken \subseteq Emails
  /\ uncounted \in BOOLEAN
  /\ faults \in 0 .. MaxFaults /\ troubles \in 0 .. MaxTroubles
  /\ renames \in 0 .. MaxRenames /\ runs \in 0 .. MaxRuns

Init ==
  /\ email = Email0
  /\ account = [e \in Emails |-> IF e \in Existing THEN "theirs" ELSE "absent"]
  /\ rows = [u \in Users |-> NoRow]
  /\ csv = {}
  /\ ctl = "RUNNING" /\ pc = "idle" /\ dry = FALSE
  /\ todo = {} /\ user \in Users
  /\ results = [u \in Users |-> "none"] /\ tally = NoTally /\ active = {}
  /\ forgot = {} /\ mistaken = {} /\ uncounted = FALSE
  /\ faults = 0 /\ troubles = 0 /\ renames = 0 /\ runs = 0

-----------------------------------------------------------------------------
Running == pc \notin {"idle", "done", "aborted"}

\* The passwords in the memory of the run that no CSV holds.
Held ==
  {email[u] : u \in {v \in Users : results[v] = "CREATED"}}
    \union (IF pc \in {"aliases", "created"} THEN {mail} ELSE {})
Lose(es) == forgot' = forgot \union (es \ csv)

Trouble == troubles < MaxTroubles /\ troubles' = troubles + 1

Start ==
  /\ ~Running
  /\ runs < MaxRuns
  /\ runs' = runs + 1
  /\ dry' \in BOOLEAN
  /\ todo' = Users
  /\ results' = [u \in Users |-> "none"] /\ tally' = NoTally /\ active' = {}
  /\ mistaken' = {} /\ uncounted' = FALSE
  /\ pc' = "user" /\ ctl' = "RUNNING"
  /\ UNCHANGED <<world, store, user, forgot, faults, troubles, renames>>

Crash ==
  /\ Running
  /\ Lose(Held)
  /\ results' = [u \in Users |-> "none"] /\ pc' = "idle"
  /\ UNCHANGED <<world, store, ctl, loop, tally, active, mistaken, uncounted, bounds>>

Steer ==
  /\ Running
  /\ ctl # "CANCELLED"
  /\ ctl' \in {"RUNNING", "PAUSED", "CANCELLED"} \ {ctl}
  /\ UNCHANGED <<world, store, pc, loop, outcome, histories, bounds>>

\* A user gets another e-mail at Zoho, between two runs.
Rename ==
  /\ ~Running
  /\ renames < MaxRenames
  /\ renames' = renames + 1
  /\ \E u \in Users, e \in Emails \ {email[v] : v \in Users} : email' = [email EXCEPT ![u] = e]
  /\ results' = [u \in Users |-> "none"]
  /\ active' = {} /\ pc' = "idle"
  /\ UNCHANGED <<account, store, ctl, loop, tally, histories, faults, troubles, runs>>

-----------------------------------------------------------------------------
(* UserProvisioningAgent.execute *)

\* An exception that leaves execute: the results are gone.
Abort ==
  /\ pc' = "aborted"
  /\ Lose(Held)
  /\ results' = [u \in Users |-> "none"]

\* wait_if_paused, outside any try
NextUser ==
  /\ pc = "user"
  /\ todo # {}
  /\ ctl # "PAUSED"
  /\ IF ctl = "CANCELLED"
       THEN Abort /\ UNCHANGED user
       ELSE user' \in todo /\ pc' = "register" /\ UNCHANGED <<results, forgot>>
  /\ UNCHANGED <<world, store, ctl, dry, todo, tally, active, mistaken, uncounted, bounds>>

\* register_user: INSERT OR IGNORE, zuid being the key and e-mails unique.
Registered == rows[user] # NoRow \/ \E v \in Users : rows[v] # NoRow /\ rows[v].email = mail

\* Mutant: dry_run is not asked.
AlwaysProvisions == "provision"

AfterRegister == IF dry THEN "simulate" ELSE "provision"

Register ==
  /\ pc = "register"
  /\ rows' = IF Registered
               THEN rows
               ELSE [rows EXCEPT ![user] = [email |-> mail, status |-> "PENDING"]]
  /\ pc' = AfterRegister
  /\ UNCHANGED <<world, csv, ctl, loop, outcome, histories, bounds>>

\* update_user_status: UPDATE ... WHERE email
Updated(s) ==
  [u \in Users |-> IF rows[u] # NoRow /\ rows[u].email = mail
                     THEN [rows[u] EXCEPT !.status = s]
                     ELSE rows[u]]

\* The user is handled, with result r.
Handle(r) ==
  /\ results' = [results EXCEPT ![user] = r]
  /\ todo' = todo \ {user}
  /\ pc' = "user"

Simulate ==
  /\ pc = "simulate"
  /\ Count("created")
  /\ rows' = Updated("SIMULATED_CREATED")
  /\ Handle("SIMULATED_CREATED")
  /\ UNCHANGED <<world, csv, ctl, dry, user, active, histories, bounds>>

\* register_user and the update of a simulation are outside any try.
StoreRaises ==
  /\ pc \in {"register", "simulate"}
  /\ Trouble
  /\ Abort
  /\ UNCHANGED <<world, store, ctl, loop, tally, active, mistaken, uncounted, faults, renames, runs>>

-----------------------------------------------------------------------------
(* provision_user *)

ProvisionCreates ==
  /\ pc = "provision"
  /\ account[mail] = "absent"
  /\ account' = [account EXCEPT ![mail] = "ours"]
  /\ pc' = IF user \in Aliased THEN "aliases" ELSE "created"
  /\ UNCHANGED <<email, store, ctl, loop, outcome, histories, bounds>>

\* add_user_alias: what Google answers is at most logged.
AliasesAdded ==
  /\ pc = "aliases"
  /\ pc' = "created"
  /\ UNCHANGED <<world, store, ctl, loop, outcome, histories, bounds>>

\* A request for an alias, or for its token, fails otherwise than with a
\* GoogleClientError: provision_user is left without the answer it had.
AliasRaises ==
  /\ pc = "aliases"
  /\ Trouble
  /\ Lose({mail})
  /\ pc' = "recheck"
  /\ UNCHANGED <<world, store, ctl, loop, outcome, mistaken, uncounted, faults, renames, runs>>

\* The account is created, its answer is lost: _request sends the same body again.
ProvisionUnheard ==
  /\ pc = "provision"
  /\ account[mail] = "absent"
  /\ faults < MaxFaults
  /\ faults' = faults + 1
  /\ account' = [account EXCEPT ![mail] = "ours"]
  /\ Lose({mail})
  /\ UNCHANGED <<email, store, ctl, pc, loop, outcome, mistaken, uncounted, troubles, renames, runs>>

\* 409, or an error after which get_user finds the account.
ProvisionFinds ==
  /\ pc = "provision"
  /\ account[mail] # "absent"
  /\ pc' = "existing"
  /\ UNCHANGED <<world, store, ctl, loop, outcome, histories, bounds>>

\* The text of an error sounds like an existing account, and nobody looks: a failed
\* precondition, an address that a group or an alias has.
ProvisionMistakes ==
  /\ pc = "provision"
  /\ account[mail] = "absent"
  /\ Trouble
  /\ mistaken' = mistaken \union {mail}
  /\ pc' = "existing"
  /\ UNCHANGED <<world, store, ctl, loop, outcome, forgot, uncounted, faults, renames, runs>>

\* Any other error, and get_user finds nothing or fails as well.
ProvisionRaises ==
  /\ pc = "provision"
  /\ Trouble
  /\ pc' = "recheck"
  /\ UNCHANGED <<world, store, ctl, loop, outcome, histories, faults, renames, runs>>

-----------------------------------------------------------------------------
(* What execute makes of it *)

\* Mutant: the answer for a created user is not told from an existing one.
CreatedIsExists == "EXISTS"

CreatedResult == "CREATED"

Created ==
  /\ pc = "created"
  /\ Count("created")
  /\ rows' = Updated("CREATED")
  /\ Handle(CreatedResult)
  /\ UNCHANGED <<world, csv, ctl, dry, user, active, histories, bounds>>

ExistingFound ==
  /\ pc = "existing"
  /\ Count("existing")
  /\ rows' = Updated("EXISTING")
  /\ Handle("EXISTING")
  /\ UNCHANGED <<world, csv, ctl, dry, user, active, histories, bounds>>

\* The update raises after the count: the handler looks the account up, and the
\* answer of provision_user, with its password, is dropped.
UpdateRaises ==
  /\ pc \in {"created", "existing"}
  /\ Trouble
  /\ Count(pc)
  /\ uncounted' = TRUE
  /\ Lose(IF pc = "created" THEN {mail} ELSE {})
  /\ pc' = "recheck"
  /\ UNCHANGED <<world, store, ctl, loop, results, active, mistaken, faults, renames, runs>>

\* get_user in the handler: None also when its request fails.
Recheck ==
  /\ pc = "recheck"
  /\ pc' \in IF account[mail] # "absent" THEN {"confirm", "failed"} ELSE {"failed"}
  /\ UNCHANGED <<world, store, ctl, loop, outcome, histories, bounds>>

\* Mutant: the handler does not continue with the next user.
ConfirmFallsThrough ==
  /\ pc = "confirm"
  /\ Count("existing")
  /\ rows' = Updated("EXISTING")
  /\ pc' = "failed"
  /\ UNCHANGED <<world, csv, ctl, loop, results, active, histories, bounds>>

Confirm ==
  /\ pc = "confirm"
  /\ Count("existing")
  /\ rows' = Updated("EXISTING")
  /\ Handle("EXISTING")
  /\ UNCHANGED <<world, csv, ctl, dry, user, active, histories, bounds>>

\* except Exception: pass, after the count
ConfirmRaises ==
  /\ pc = "confirm"
  /\ Trouble
  /\ Count("existing")
  /\ uncounted' = TRUE
  /\ pc' = "failed"
  /\ UNCHANGED <<world, store, ctl, loop, results, active, forgot, mistaken, faults, renames, runs>>

Failed ==
  /\ pc = "failed"
  /\ Count("failed")
  /\ rows' = Updated("FAILED")
  /\ Handle("FAILED")
  /\ UNCHANGED <<world, csv, ctl, dry, user, active, histories, bounds>>

FailedRaises ==
  /\ pc = "failed"
  /\ Trouble
  /\ Count("failed")
  /\ Abort
  /\ UNCHANGED <<world, store, ctl, loop, active, mistaken, uncounted, faults, renames, runs>>

\* The credentials CSV, when every user is done.
Export ==
  /\ pc = "user"
  /\ todo = {}
  /\ csv' = IF dry \/ Held = {} THEN csv ELSE csv \union Held
  /\ pc' = "filter"
  /\ UNCHANGED <<world, rows, ctl, loop, outcome, histories, bounds>>

ExportRaises ==
  /\ pc = "user"
  /\ todo = {} /\ Held # {} /\ ~dry
  /\ Trouble
  /\ Abort
  /\ UNCHANGED <<world, store, ctl, loop, tally, active, mistaken, uncounted, faults, renames, runs>>

-----------------------------------------------------------------------------
(* The workflow and the Web UI *)

\* Mutant: a registered user counts as provisioned.
AnyStatus == Statuses

Provisioned == {"CREATED", "EXISTING", "SIMULATED_CREATED"}

\* user_status_map, by e-mail
Listed == {u \in Users : \E v \in Users : /\ rows[v] # NoRow
                                          /\ rows[v].email = email[u]
                                          /\ rows[v].status \in Provisioned}

Filter ==
  /\ pc = "filter"
  /\ active' = IF dry THEN Users ELSE Listed
  /\ pc' = IF active' = {} THEN "recover" ELSE "done"
  /\ UNCHANGED <<world, store, ctl, loop, results, tally, histories, bounds>>

\* The Web UI looks every user up when none is left; a lookup may fail.
Recover ==
  /\ pc = "recover"
  /\ active' \in SUBSET {u \in Users : account[email[u]] # "absent"}
  /\ rows' = [u \in Users |-> IF rows[u] # NoRow /\ \E v \in active' : email[v] = rows[u].email
                                THEN [rows[u] EXCEPT !.status = "EXISTING"]
                                ELSE rows[u]]
  /\ pc' = "done"
  /\ UNCHANGED <<world, csv, ctl, loop, results, tally, histories, bounds>>

Terminated == ~Running /\ runs = MaxRuns /\ UNCHANGED vars

StageStep ==
  \/ NextUser \/ Register \/ Simulate \/ StoreRaises
  \/ ProvisionCreates \/ AliasesAdded \/ AliasRaises \/ ProvisionUnheard
  \/ ProvisionFinds \/ ProvisionMistakes \/ ProvisionRaises
  \/ Created \/ ExistingFound \/ UpdateRaises \/ Recheck \/ Confirm \/ ConfirmRaises
  \/ Failed \/ FailedRaises \/ Export \/ ExportRaises \/ Filter \/ Recover

Next == Start \/ Crash \/ Steer \/ Rename \/ StageStep \/ Terminated

Spec == Init /\ [][Next]_vars

-----------------------------------------------------------------------------
(* Properties *)

\* The password of an account the migration created is in a CSV, or still in the
\* memory of the run, unless a crash, a cancellation, a lost answer, a failing store
\* or a broken request for an alias took it: nothing else loses one, in particular no
\* later run and no error that Google answers.
PasswordsExplained ==
  \A e \in Emails : account[e] = "ours" => e \in csv \union Held \union forgot

\* A live run migrates data only into accounts that exist, whatever status an
\* earlier run, a dry run or a renamed user left in the table, unless the creation
\* in this very run failed with a text that sounds like an existing account.
ActiveHaveAccounts ==
  pc = "done" /\ ~dry =>
    \A u \in active : account[email[u]] # "absent" \/ email[u] \in mistaken

\* The summary counts every user once, unless a store failed after a count.
SummaryCounts ==
  pc = "done" /\ ~uncounted =>
    tally.created + tally.existing + tally.failed = Cardinality(Users)

\* A simulation touches neither Google Workspace nor the credentials.
SimulationIsHarmless == [][dry /\ Running => UNCHANGED <<account, csv>>]_vars

\* "produces a one-time admin credential export": when a run is over, every
\* account the migration created has its password in a CSV.
CredentialsExported ==
  pc \in {"done", "aborted"} => \A e \in Emails : account[e] = "ours" => e \in csv

\* "user(s) skipped due to missing Google Workspace account/licenses": who is left
\* out has no account.
SkippedHaveNoAccount ==
  pc = "done" /\ ~dry => \A u \in Users \ active : account[email[u]] = "absent"

\* What "already exists in Google Workspace" says: the data goes into accounts.
ExistingIsConfirmed ==
  pc = "done" /\ ~dry => \A u \in active : account[email[u]] # "absent"
=============================================================================
