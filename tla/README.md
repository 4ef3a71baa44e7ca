# A TLA+ development of the Zoho → Google Workspace migration agent

This directory models the program that copies users, mailboxes, calendars and
contacts of a Zoho organisation into Google Workspace. The modules are translated
from the Python source; TLC checks them on small instances, and TLAPS proves part of
what is checked for every value of the constants. `PROJECT.json` links every
definition to the lines it models, every run to its properties, every property to a
plausible bug (a *mutant*) that breaks it, and lists hazards, findings and theorems.

    tlc -config sync.cfg MCSyncAgent      # a run
    tlapm SyncAgentProofs.tla             # a module of proofs

## 1. Inventory: the parts of the system

| Part | State it keeps | Operations | Talks to |
|---|---|---|---|
| `engine/pause_controller.py` `PauseController`, `NetworkWatchdog` | state, resume event, callback; monitor thread, `_monitoring_active` | pause, resume, cancel, wait_if_paused, handle_network_disconnect, start_monitoring_recovery, the recovery loop | agents (they wait in it), Web UI (callback, control requests) |
| `engine/rate_limiter.py` `TokenBucket`, `retry_with_backoff` | tokens, last update; attempts | acquire; call, classify the exception, wait, call again | every client; the pause controller |
| `engine/checkpoint.py` `CheckpointStore` (SQLite) | tables users, folders, items | register_user, update_user_status, save/get_folder_mapping, is_item_synced, record_item_sync | all agents, across runs |
| `atomic_agents/calendar_agent.py`, `contacts_agent.py` | counters of one run | loop over users and items | Zoho client, Google client, store |
| `atomic_agents/mailbox_agent.py` | label map, page position, counters | folders → labels, pages, messages | the same |
| `atomic_agents/provisioning_agent.py` | passwords of new accounts, results | provision each user, export the CSV | Google client, store |
| `atomic_agents/supervisor.py`, `base.py` | the agents, one pause controller | one method per stage; `run` catches what a stage raises | workflow, Web UI |
| `engine/bulk_importer.py` | per archive counters, results | import archives by a pool of threads | Google client, store |
| `connectors/google_client.py` | token cache, bucket | `_request` with retries; create users, labels, messages, events, contacts | Google |
| `connectors/zoho_client.py` | access token and when it expires, bucket | listings and bodies, retries; a failure becomes an empty answer or a placeholder | Zoho, vault |
| `security/vault.py` `EphemeralVault` | encrypted credentials, time of creation, purged or not | store, retrieve (both end an old session), purge | Web UI, every client |
| `ui/server.py` | class attributes: progress, report, caches, supervisor, vault | discover, migrate, bulk import, pause/resume/cancel, reset | browser; one worker thread per run |
| `agent/workflow.py`, `main.py`, `interactive.py` | the selection of users | pre-flight, discovery, menu, confirmation, the stages in order | supervisor |
| `engine/discovery.py`, `discovery_agent.py` | one report | list, sample, extrapolate | Zoho client |
| `engine/pipeline.py` `MigrationPipeline` | counters | the four stages in one thread, without retries or pauses of their own | clients, store |
| `security/validator.py`, `sanitizer.py`, `diagnose_user.py`, `ui/static/*` | none | checks, redaction, rendering | – |

**What is hard.** Threads share a pause controller, a bucket, the store and the
class attributes of the Web UI. The answer of a request can be lost after Google did
the work, and two layers of retries (`_request`, `retry_with_backoff`) repeat it. The
process can die between an effect at Google and the row that records it, and the
migration is then run again. A run can be paused and cancelled anywhere, by people
and by the watchdog. Mailboxes, and the organisation, change while they are read by
position. Errors are turned into values (an empty listing, a placeholder body, the label
INBOX). Credentials expire and are purged while clients read them one by one, and a
token may end between two attempts of a request that carries it.

**What makes each part correct.**

* Pause controller: a pause holds until someone resumes; a cancellation is final and
  reaches every waiting thread; a network loss is healed when the network is back.
* Token bucket: no window of time admits more than a full bucket and its refill.
* Agents with the store: SYNCED means delivered, SYNCED is final, every copy at Google
  is accounted for, the summary tells the truth, a dry run has no effect, a run ends.
* Mailbox: paging overlooks no message; a folder keeps its label.
* Provisioning: no password is lost for an unexplained reason; data is migrated only
  into accounts that exist.
* Command line: a listing is whole; the numbers of the menu mean what was shown; the
  totals of the report are the sums of its lines; only chosen users are migrated.
* Vault and tokens: a request carries a live token; a session that is over gives nobody
  a token; every request ends.
* Pipeline: the agents' promises about the store; a clean run delivers everything.
* Web UI: `is_running` tells the truth, one run at a time, the controls reach the run.

## 2. Modules

| Module | Models | Extended by |
|---|---|---|
| `PauseController` | `pause_controller.py`, and workers in `retry_with_backoff` | `MCPauseController`, `PauseControllerProofs` |
| `TokenBucket` | `TokenBucket.acquire` under a lock, sleeps outside it | `MCTokenBucket`; instance `B` of `PauseControllerProofs` |
| `ItemLedger` | abstract: what agent and store promise about an item | instantiated by the next two and `Pipeline` |
| `SyncAgent` | calendar and contacts agents, retries, items table | `MCSyncAgent`, `SyncAgentProofs` |
| `MailboxAgent` | folders, pages, messages of one mailbox that is in use | `MCMailboxAgent`, `MailboxAgentProofs` |
| `FolderLabels` | folder → label, `ensure_label`, folders table, two agents | `MCFolderLabels`; instance `L` of `MailboxAgentProofs` |
| `Provisioning` | provisioning stage, users table, filter of active users | `MCProvisioning`, `ProvisioningProofs` |
| `BulkImporter` | the pool that imports archives | `MCBulkImporter`, `BulkImporterProofs` |
| `MigrationUI` | the life of runs in the Web UI server | `MCMigrationUI`; instance `U` of `SessionProofs` |
| `Workflow` | a run of the command line: discovery, paged listings, choice of users, stages | `MCWorkflow`, `WorkflowProofs` |
| `Session` | the vault, its purge and expiry, and the token cache of the Zoho client | `MCSession`, `SessionProofs` |
| `Pipeline` | `engine/pipeline.py`: the four stages over the store | `MCPipeline`, `PipelineProofs` |

Each `MC` module only gives names to the values of an instance.

### How state and actions correspond to the code

**PauseController.** `state`/`event` are `_state`/`_resume_event`; `monitor`/`active`
are the watchdog's thread and flag. A step is one critical section of `_lock`, or one
read or write of an `Event`; the callback is a step of its own, after the lock is
released (`owed`, `shown`). A worker goes through `wait_if_paused` (`Test`, `Wait`,
`Poll`, `Final`), the call (`CallReturns`, `CallFails`, `CallLosesNetwork`), and after
a network error through `handle_network_disconnect` (`Disconnect` …) and
`start_monitoring_recovery` (`StartMonitoring`, `SetActive`, `Spawn`). `Wait` may
return for a timeout, as `Event.wait(0.5)` does. A recovery thread is `LoopHead`,
`LoopLook`, `Probe`, `ClearActive`, `AutoResume`, `AutoResumeReport`, `Exit`. `held`
is a history variable: the worker saw the run paused and nobody has resumed since.

**TokenBucket.** `Take` and `Sleep` are the two ends of the critical section of
`acquire`. Time is in ticks and `Rate` tokens are added per tick, so that the
fractions of the code are integers here; a wait is rounded up to a whole tick.
`mark`/`spent` are an observer's window, `due` remembers an undisturbed sleep.

**SyncAgent.** `status` is the items table, `copies` what Google holds. `NextUser`,
`Fetch*`, `NextItem`, `Check` are the loops with their `wait_if_paused`,
`is_item_synced` and `dry_run`; `Retry` is the head of `retry_with_backoff`,
`PostAnswered`/`PostRefused`/`PostUnheard` the outcomes of one HTTP request under
`_request`: done and heard, not done, done and not heard. `Record`, `RecordRaises`,
`Fail`, `FailRaises` are the writes of the row, and the exceptions they may raise. An
exception outside the loop's `try` aborts the run, as `AtomicAgent.run` does. `Crash`
kills the process anywhere, and `Start` runs the migration again on the same store.
Pause, resume and cancel are one action, `Steer`, on the value that
`wait_if_paused` reads: their details are those of `PauseController`. `unheard` counts
the insertions the program could not know of or forgot.

**MailboxAgent.** The same skeleton around folders (`NextFolder`) and pages
(`NextPage`, `List`, `TurnPage`): `start` is the position of `list_folder_messages`,
`full` the test that decides whether another page follows. `Arrive` puts a new message
at the top of a folder, `Vanish` removes one: both move what the next position means.
`ListNothing` is the client's empty list after its requests failed, `ListPartly` a page of
which the client has dropped an entry without an id, so that it is too short to be followed
by another; `Stream` is the body or the placeholder container. An import goes first to `messages.import`, and after a
refusal to `messages.insert` (`route`). `fits` says whether the client takes the
keyword `is_unread`: the clients of the tests do, the client of this repository does
not (section 6), so that both are modelled.

**FolderLabels.** `List`, `Create`, `CreateConflicts`, `RequestFails` are
`ensure_label`; `Save` is `INSERT OR REPLACE` into the folders table; `Map` chooses
between a system label, a recorded label and a request; `Applied` is the choice of
`label_ids` for a message. `excused` remembers the folders that met an error or
another agent.

**Provisioning.** Per user: `Register`, `Simulate`, the creation with its lost answers
and conflicts, the status written, and the `except` branches that count again. The aliases
of an account are asked for after its creation was answered: what Google refuses is logged
(`AliasesAdded`), but any other error leaves `provision_user`, and drops the answer with the
password in it (`AliasRaises`). `ProvisionMistakes` is the answer EXISTING that rests on the
text of an error alone; `mistaken` remembers its e-mails.
`Export` writes the CSV after the last user. `Filter` and `Recover` are the selection
of active users by workflow and Web UI. `Rename` changes a Zoho e-mail between runs.

**BulkImporter.** One thread per archive, at most `Pool` at work: `Take`, `Entry` (the
look at the items table), `Simulate` or the import, the requests of `import_message` counted by `request`
(first those of the import, then those of the insert), `Record`, `Fail`, `Report`. The
write is a step of its own and replaces whatever the row has become (`Put`): several
archives may be of one mailbox (`x.zip` and `x_1.zip`), and their threads meet there. A
dry run writes rows whose destination is `dryrun_msg`: the status SIMULATED here, which
`is_item_synced` cannot tell from SYNCED (`Skips`).

**MigrationUI.** `Request` reads `is_running`; `Flag` sets it after the body is read
and the users are found; `Launch` starts the worker. A worker passes its stages
(`NextStage`, `MailboxDone`), writes report, completion and summary in separate steps
(`WriteReport`, `Complete`, `Summarise`), or fails (`Fail`, `NoteError`). `Control` is
a pause, resume or cancel request, which looks at the class attribute `supervisor`.

**Workflow.** `dir` is the organisation's directory, in the order in which Zoho lists
it; `Join` and `Leave` change it at any time. A listing is `FindOrg`
(`get_organization_id`, which decides on the candidates `eps`), `Page`, `PageError` (the
next candidate) and `NoEndpointLeft`. The run makes three: `stage` says for whom. What an
endpoint shows is a constant (`Shows`): `/api/accounts` lists only the accounts of the
administrator. `AssessUser` is one turn of the loop of `run_assessment`, with any figure
that the folders of a sampled mailbox may yield, `Extrapolate` its end, with the printed
table (`shown`). `SelectByFlags`, `SelectByMenu`, `SelectByNumber` are the branches of
`select_target_users`; `Discover` is all that until the choice. `Provision` and `RunStage` pass users on, their
work is in the modules of the agents. `Fail` is any error that reaches `main`, or Ctrl-C. `owed` and
`steady` are histories: who must be in the listing, and whether anything changed.

**Session.** A vault is numbered by the reset that made it. `StoreKey` is one
`vault.store` of the credentials form, `Read` one of the three `vault.retrieve` of
`_get_access_token`; both meet `_check_ttl` (`Refuses`, `Checked`). `purge` of a reset is
three steps (key zeroed, dictionary cleared, flag set), because threads look at a vault
meanwhile: what was stored before the key was zeroed cannot be read any more
(`Undecipherable`). The purge of an expiry is one step, since each of its effects is
hidden behind the same expiry. `Fresh`, `Post`, `Granted` are the cached token and the
request for another, `Send` to `Wake` the attempts of `_api_request`. `late` is a history: the session was over when the refresh
began (`Over`), whether or not anybody has noticed. The token's end is
kept twice: `until` as the client counts it, from before its request, and `dead` as Zoho
does.

**Pipeline.** The skeleton of `MailboxAgent` without retries and pauses, for all
stages: `Stage[f]` says which stage migrates a collection. A calendar or an address book
is one page; `List` may yield nothing, or a page without one entry. `NextFolder` writes the folders table, with a label that exists or, in a
dry run, with one that does not (`NewLabel`). `Break` is a crash or an exception outside
every `try`.

### Composition

The interfaces between modules are the variables they share in the code. `SyncAgent`
and `MailboxAgent` see the pause controller through the value `wait_if_paused` decides
on. `ItemLedger` is the interface between a run and the next one. `MigrationUI`
assumes of a stage only that it ends or raises. `FolderLabels` gets its two agents from
the two runs that `MigrationUI` can start (`ui_overlap.cfg`). `Workflow` knows of a stage
only the users it hands on, which `Provisioning` (`Filter`) decides. `Session` and
`MigrationUI` see the same vault from two sides: one its keys, the other whose it is.
That the pipeline and the agents implement one ledger, on the same variables, is what
lets them take turns on one store.

## 3. Runs

| Run | Question | Properties | Instance |
|---|---|---|---|
| `pause` | Can any interleaving run through a pause or undo a cancellation? Is a cancelled worker always released, a watched loss healed, and does one worker keep one monitor? | `TypeOK` `EventMatchesState` `PauseHolds` `AtMostOneMonitor` `CancelIsFinal` `CancelStopsWorkers` `WatchedLossHeals` | 1 worker, 2 administrators, 2 recovery threads, 2 attempts |
| `pause_selfheal` | Is every network loss healed? **No.** | `SelfHealing` | 1 worker, no administrator |
| `sync` | Do the agents keep their promises over crashes, lost answers and a second run? | `CopiesExplained` `SummaryIsTrue` `ImplementsLedger` `DryRunWritesNothing` `CancelEndsRun` `RunEnds` | 2 users (two items, and none), 2×2 attempts, 1 lost answer, 2 runs |
| `mail` | Does paging by position miss a message while the mailbox changes? Do two routes, retries and a second run add copies? | `NothingOverlooked` `CopiesExplained` `ImplementsLedger` `RunEnds` | 1 folder: 2 messages, one oversize, and one arriving; pages of 1; 1 mishap (a lost answer, a crash and second run, a removal); 2 attempts; both clients |
| `bucket` | How much can one window admit, and is one sleep enough? | `WindowBounded` `NapSuffices` | 3 threads, rate 2, capacity 7, cost 3, 9 ticks, symmetry |
| `provisioning` | Which passwords can be lost, who is let through the filter? | `PasswordsExplained` `ActiveHaveAccounts` `SummaryCounts` `SimulationIsHarmless` | 2 users, 3 e-mails, one account that exists, one user with aliases, 1 lost answer, 2 other errors (of the store, a request for an alias, or a creation), 1 rename, 3 runs |
| `bulk` | Do threads, also two in one mailbox, crashes and dry runs keep rows, copies and results in step, and does an import end? | `CopiesExplained` `SuccessIsComplete` `OnlySiblingsTakeBack` `ImportEnds` | two archives of one mailbox with the same message, a third alone in its mailbox; pool of 2, 2 requests per route, 1 lost answer, 2 runs |
| `labels` | When does a folder lose its label, and does a mapping last? | `InboxExplained` `MappingIsFinal` | 2 agents, inbox, starred and two folders of one name, 1 error, 2 runs |
| `ui` | Does `is_running` say what the threads do? | `FlagIsHonest` | 1 handler, 2 organisations, 2 runs, 2 sessions, with and without skipped stages |
| `workflow` | Is a listing whole, do totals and numbers agree with what was shown, does discovery end? | `ListingWhole` `TotalsAgree` `NumbersMeanWhatWasShown` `DiscoveryEnds` | 4 users and an entry without address, pages of 2, 2 candidate endpoints, 1 who joins or leaves, 3 command lines |
| `session` | Can a token end under a request, or be granted after a purge or the end of its vault? Does every request end? | `FreshForTwoAttempts` `NoTokenAfterEnd` `CallsEnd` | 1 client, 1 form, 2 vaults, 3 attempts, 5 ticks: vault 2, token 4, margin 3, each request and the first sleep 1 |
| `pipeline` | Does the pipeline deliver what it went through, and keep the ledger, over two runs? | `CleanRunDelivers` `ImplementsLedger` | 2 users, one without a mailbox; an event and a folder of two pages; 1 lost answer, 2 runs |

`TypeOK` of `PauseController`, `SyncAgent`, `TokenBucket`, `Session` and `Workflow` is
proved (`TypeCorrect` and `BucketTypes`, section 4), that of `Provisioning` as part of the
inductive invariant, and that of `MailboxAgent` checked by `mail_paging`. `INVARIANT
TypeOK`, added to the configuration of its run, checks it for any module.

**Why these bounds.** They are the smallest at which every branch is taken and its
effects meet a later step. Two threads are needed for each race and two recovery
threads for a late one; two attempts separate "one more" from "the last"; one lost
answer per layer is what creates a copy, and a second run is what meets it. A page of
two with three messages has a full and a short page, and an arrival shifts the border
between them. A third run of provisioning meets what a rename left after a second. The
bucket's capacity is not a multiple of its cost and the cost not of the rate, so that
remainders occur. The margin of `session` is one tick more than a timeout and a sleep,
as 60 seconds are more than 31.5, and less than two of each, as they are less than 64.5;
its clock runs long enough for a vault to expire, for the token it gave to end, and for a
second vault. Pages of two with three users have a full and a short page, and a user who
joins shifts what the second begins with; two endpoints that show different users make a
mixture visible. In `mail` one mishap suffices for each cause of a copy or of a shifted
page; `mail_paging` has a larger mailbox and more pages. `pause` has two administrators, so
that a resume can cross a pause. The pool of two is smaller than the number of archives; two archives that hold one message
are what a race needs, and a third shows what a mailbox with one archive is promised. Every action,
and every disjunct of every `Next`, is taken in some passing run. Bounds stand in
guards (`MaxRuns`, `MaxFaults`, `MaxTroubles`, `MaxRenames`, `MaxRemovals`,
`MaxSessions`, `MaxMishaps`, `MaxChanges`, `MaxVaults`, `MaxClock`); loops without a bound in the code (waiting, network errors)
have none in the models.

**Fairness.** `PauseController`: every worker and recovery thread is scheduled, calls
and probes have timeouts, callbacks return; nobody has to pause, resume or cancel, and
the network need not come back. `SyncAgent`, `MailboxAgent`: the agent's thread runs
(`WF` of its steps, one thread, one program counter); crashes and pauses need not
happen, and pauses need not end, which is why `RunEnds` has the premise that they do.
`BulkImporter`: each thread of the pool runs. `MigrationUI` (`FairSpec`): handler and
worker threads run. `Workflow`: the one thread runs until the users are chosen, and its requests end (`WF` of
`Discover`); nothing is assumed of the stages, which may wait for ever in a pause
(`pause_selfheal`), and people need not join, leave or answer a prompt. `Session`: the thread of a client runs,
its requests and sleeps end; nothing is assumed of forms, resets or the clock, which
cannot pass the end of a request (`Tick`). `Pipeline` states no liveness. No strong
fairness is used anywhere.

Deadlock is checked in every run: a `Terminated` step marks the states in which the
program has nothing left to do. (`TokenBucket`, `MigrationUI`
and `Session` never stop.)

### Further configurations

Beside the runs of `PROJECT.json` there are configurations for statements of the
documents that the code does not keep. TLC finds the behaviour that breaks each property.
Some (`*_claims`, `workflow_fallback`, `session_orgs`) list several, all of which fail: TLC
stops at the first, and finds the others when that is taken out.

| Configuration | Module | Property it refutes | What happens |
|---|---|---|---|
| `pause_claims` | `MCPauseController` | `ManualPauseKept` | the watchdog resumes a run that was paused by hand after its last look (README.md:218) |
| `pause_claims` | `MCPauseController` | `AtMostOneMonitor` | two workers lose the network together, and each starts a monitor (pause_controller.py:200) |
| `pause_claims` | `MCPauseController` | `PauseIsShown` | two callbacks are delivered in the other order (README.md:218) |
| `sync_duplicates` | `MCSyncAgent` | `NoDuplicates` | a lost answer, or a crash before the row, makes the insertion be repeated (README.md:218) |
| `mail_keyword` | `MCMailboxAgent` | `CleanRunDelivers` | a run without any failure delivers nothing with the client of this repository (section 6) |
| `mail_claims` | `MCMailboxAgent` | `NoSilentLoss` | a listing that fails is taken for the end of the folder (README.md:225) |
| `mail_claims` | `MCMailboxAgent` | `NoCorruptEntry` | a placeholder body is recorded SYNCED (README.md:225) |
| `provisioning_claims` | `MCProvisioning` | `CredentialsExported` | a cancelled run never exports the passwords it set (README.md:49) |
| `provisioning_claims` | `MCProvisioning` | `SkippedHaveNoAccount` | a renamed user gets an account and is left out (ui/server.py:432) |
| `provisioning_claims` | `MCProvisioning` | `ExistingIsConfirmed` | the text of an error is taken for an existing account, which nobody looks up (google_client.py:302) |
| `bulk_claims` | `MCBulkImporter` | `SyncedIsFinal` | the thread of a second archive of the mailbox records FAILED over SYNCED, or imports again (bulk_importer.py:7) |
| `bulk_claims` | `MCBulkImporter` | `SuccessIsForAll` | a mailbox has one result, that of its last archive, or of a sibling whose row was taken back (bulk_importer.py:7) |
| `bulk_claims` | `MCBulkImporter` | `NoDuplicates` | two archives of one mailbox import the same message (bulk_importer.py:7) |
| `bulk_claims` | `MCBulkImporter` | `SkippedIsImported` | the import after a dry run skips everything (bulk_importer.py:7) |
| `labels_race` | `MCFolderLabels` | `GoodLabelKept` | the loser of a race records INBOX over the label (checkpoint.py:7) |
| `labels_lost` | `MCFolderLabels` | `FoldersKeepTheirLabel` | Gmail's ids do not begin with `LABEL_` (README.md:61) |
| `ui_overlap` | `MCMigrationUI` | `OneRunAtATime` | two requests pass the test of `is_running` (ui/server.py:305) |
| `ui_claims` | `MCMigrationUI` | `ControlHeard` | pause, resume and cancel never find the supervisor (README.md:218) |
| `ui_claims` | `MCMigrationUI` | `RunsMatchOrg` | after a reset, users of the former organisation (ui/server.py:610) |
| `ui_claims` | `MCMigrationUI` | `SkippingIsHarmless` | the skip branch imports a class that does not exist (ui/server.py:465) |
| `workflow_fallback` | `MCWorkflow` | `NobodyElse` | nobody matches `--users`, and everybody is selected (main.py:84) |
| `workflow_fallback` | `MCWorkflow` | `NumbersStillMean` | the numbers are looked up in a listing made after the table was printed (workflow.py:122) |
| `session_orgs` | `MCSession` | `ZeroedOnTime` | a vault that is too old keeps its credentials until somebody looks, and a cached token outlives it (README.md:75) |
| `session_orgs` | `MCSession` | `KeepsItsOrg` | new credentials are stored during a run, which goes on in their organisation |
| `pipeline_dryrun` | `MCPipeline` | `RehearsalIsHarmless` | a dry run saves made-up label ids, which Gmail refuses in the live run (engine/pipeline.py:15) |

Two pass, on other instances: `mail_paging` (four messages, pages of two:
`CleanRunSyncsAll`, `DryRunWritesNothing`, `CancelEndsRun`, `TypeOK`) and `ui_live`
(`FlagClears` with two handlers and resets in the middle of a run).

## 4. Proofs

The proofs hold for all sets of threads, users and items and all bounds. They assume
the named `ASSUME`s of the modules only; TLC evaluates these on each instance.

**PauseControllerProofs.** `TypedInv` strengthens `TypeOK` by `CountBelowTwo`: a
recovery thread that still loops has fewer than two successes, without which `Probe`
could leave the range. `TypedInvariant` takes `Next` action by action. `PauseInv` joins
`EventMatchesState` with what `PauseHolds` needs: a worker that has been held, and has
not been let go, stands inside the loop of `wait_if_paused`, and the run is still paused.
`EventMatches`, `PauseHeld` and `CancelFinal` follow. `OneMonitor` is for one worker:
its invariant says that a live recovery thread is the one in
`monitor`, and that none is alive while the worker is about to start one.

**SyncAgentProofs.** `IInv` is `TypeOK`, `WorkInv` (the item being worked on is not
SYNCED from the check to the record, no dry run gets there, and an attempt is left) and
`CopiesExplained`. Three lemmas, for the loop, the requests and the store, show that
each action preserves it; `Inductive` combines them. `LedgerStep` maps every step to a
step of `ItemLedger` or to a stutter, and `Refinement` concludes. `RowsAreDelivered`
and `RowsAreFinal` carry two properties of the ledger over to the agent. `DryRunSafe`
needs `WorkInv`: a dry run never reaches the actions that write.

The rest of the module is about the summary. `Place` says where the loops are; `Gone` are
the items the run has gone through, `Failures` those of them whose row is not SYNCED; and
`Sums` says that the tallies are the cardinalities of the two while the run has listed
every user it came to. `SettleSums` is the step that matters: the settled item was not
in `Gone`, and is counted where its row says. `Skipped` and `SYNCED` agree because
`WorkInv` lets nothing else change a row. When the loops are done, `Gone` is `Items`,
which gives `SummaryHolds`. `Items` is assumed to be finite.

**MailboxAgentProofs, PipelineProofs.** The same argument about copies and ledger, with
less of the types: which message is at hand does not matter to the accounts, so that
nothing need be known of the pages, and the proofs hold for every way in which a mailbox
may change (`OneMore` covers a message that is none). `MailboxAgentProofs` covers both
routes of an import and both clients.

*What the pages cover.* `NothingOverlooked` speaks of the end of a run only. Its
invariant `Covers(S)` says where the messages are meanwhile: those of the folders that
are done are in `S`; of the folder at hand, those before the position of the page are,
and every message is in `S`, in the rest of the page, or behind a page that is full. An
arrival shifts all positions by one, which only moves messages that are in `S` already
into the next page; a removal would move one past it, and a listing that failed, or lost
an entry (`PartlyListed`), would end the folder, which is what `Sound` excludes. `CoversStep` proves this once for any
growing set `S`. With `Seen` (arrived during the run, or with a row) it gives
`NothingIsOverlooked`, with `Settled` (arrived, too large, or recorded SYNCED) and a run
without trouble it gives `CleanRuns`. The removal is by position, so that one mailbox may
hold a message twice.

*A clean run of the pipeline.* `FoldersDone` says which collections of which users are
delivered, by the stages passed, the users left and the folders left; `PageDelivered`
does it for the collection at hand, up to the page and within it; `Unrehearsed` that
without a dry run no label is one that Gmail refuses. `StageNames` and `StageAfter`
unfold the order of the stages, `Listed` says what a page holds. All of it assumes
`Clean`, which the first trouble ends; `CleanRuns` is the invariant at the end.

*Labels.* The theorems about `FolderLabels` have its assumption `NamesAssumption` as
a hypothesis, since the module is an instance here. `Excused` follows an agent from
the listing to the row: where it is about to record INBOX, or asks for a label that it
has made itself, the folder met an error or another agent. `Unrecorded` says that an
agent that is alone asks only for labels of folders without a row, which is why none is
recorded twice.

**BulkImporterProofs.** Any archives of any mailboxes: several threads may be at one
message. `Position` says that a thread goes through its archive entry by entry, and
`Through` what it has been through. `WorkInv` is the point: from the look at the items
table to the row, a message is not one to skip, unless a thread of the same mailbox has
been through it meanwhile (`Overtaken`); a thread that makes such a row has just been
through the entry, so that whoever stands at it is overtaken (`ThroughKept`, `OwnRow`).
`TakenBack` reads `ImportedStays` off it. `Idle` says that a dead process has no thread at
work. The accounts of `CopiesExplained` are kept by counting the threads about to record a
message (`RecordersCounted`): a row that is overwritten makes them an inequality, and in a
mailbox with one archive there is no such row (`AccountStep`); a crash moves what was not
recorded to `unheard`. `Progress` is the invariant of `SuccessMeansComplete`, for
archives without siblings: what was handled has a row to skip unless the tally counts a
failure, which nobody else takes away (`AloneKeeps`).

**ProvisioningProofs.** `PasswordsExplained` is not inductive: that the CSV was written
depends on what the run remembers of the users it has gone through. `Order` relates
`results` to the users left, `Exported` says that when the users are done no password is
in memory only, `Found` that an account exists where the agent says so, or the e-mail is in `mistaken`, `Truthful` that
a row with a good status, of a user of this run, belongs to an account or to such an e-mail, and `Counted`
that the counts add up to the users handled, up to the one being counted. `HasPassword`
speaks of e-mails instead of users, because a rename separates the two. `Users` is
assumed to be finite.

**SessionProofs.** `ClientInv` has three parts: `Covered`, Zoho does not end a token before the
client counts it as ended; `Refreshing`, what a refresh has
read, and that a late one reads nothing; `Attempting`, how much of the margin the attempts so far
have used. With `Behind` (nothing is later than the clock) they are inductive, for all
times with `Timeout + Backoff < Margin` and `Margin + PostTime ≤ Life`.
`TokenOutlivesTwoAttempts` and `EndIsFinal` follow.

The last part of the module is about `MigrationUI`, the runs of the same server, as the
instance `U`; its assumptions are hypotheses there. The theorems assume `Alone`: one
request at a time, and no reset during a run; `ui_overlap` shows that they fail
otherwise. The invariant says that runs are numbered as they are requested, what the run
being started and the flag are between the request and the launch (`Starting`), and that
at most one run is live. `FlagHonest` is `U!FlagIsHonest`, `OneRun` says that no two runs
are ever at work together.

**The token bucket, in PauseControllerProofs.** The last part of that module is about
`TokenBucket`, the other half of the waiting in `rate_limiter.py`, as the instance `B`,
whose assumptions are hypotheses there. `RefillBounds` and `WaitLongEnough` are facts of
integer arithmetic about `Refilled` and `WaitTime`, from `Distribute` and `Monotone`. The
invariant of `RateEnforced` is the budget `spent + tokens ≤ Capacity + (last - mark) ·
Rate` once the bucket was updated inside the window, and `spent = 0` before: the tokens
saved before the window opened do not come on top, because the refill is capped. That
of `OneNap` says that during a sleep nobody disturbed, tokens and time left suffice.

**WorkflowProofs.** A page is filtered by `Kept` and the total is `MessagesOf`, both
recursive functions, so what they compute takes an induction. The library's theorems of
induction take an operator and cannot be cited; `Induction` and `SeqInduction` are about
sets instead, of numbers and of sequences, and rest on `WFMin` and
`NatLessThanWellFounded`. `Recursion` shows that a function that is defined step by step
exists. From these come `KeptAppend`, `KeptSet`, `KeptConcat`, `KeptInsert` and
`SumAppend`.

* `TotalsCorrect`: `FilledTotal` says that filling the silent lines with an average adds
  it once for each of them, as `Added` does.
* `ListingsWhole`: `Turning` is the invariant while pages are turned. Who was there when
  the listing began, is shown by the endpoint and has an address, was read or is still at
  a place not yet turned to. Whoever joins moves others to later places only
  (`KeptInsert`); a full page moves `start` on by as much as was read; a page that is not
  full is the last. An endpoint that fails starts the next one from nothing (`Begun`).
* `NumbersMean`: two listings of an organisation that stays as it was, without a failed
  request, end alike. `Passed` and `SoFar` say where a listing is, `IsAnswer` what it ends
  with, and `OneAnswer` that there is only one such list. So the users in whose list a
  number is looked up (`users`) are those of the printed table (`shown`).

They hold for every organisation, endpoints, page size, sizes of mailboxes and number of
changes. The assumptions are those on the constants of `Workflow`: sequences of users and
endpoints, sizes that are numbers, a page of one entry at least, and `--pilot` a number.

Model-checked only: every liveness property, which is out of the prover's reach (it
would need `ENABLED`). The theorems about instances (`L!InboxExplained`,
`L!MappingIsFinal`, `U!FlagIsHonest`, `B!WindowBounded`, `B!NapSuffices`) are about the
same definitions the runs check, under the assumptions they list.

## 5. What the models leave out

Formats, headers, wording, logging; storage figures of discovery, which follow the
arithmetic of the message figures, and its recommended pilot cohort, which is only
printed; Google's tokens and signatures (a token that expired is a refused request);
which aliases an account has got (nothing reads it; that their requests may fail is in
`Provisioning`); the order of users
and items within a loop, where it has no effect; queries that only read
(`get_summary_stats`, the progress stream, downloads). Items whose outcome depends on
their content are represented by a set (`Oversize`). SQLite is taken to be atomic per
method, as `with conn` makes it, and any write may raise. Ids of Gmail labels are
represented by their names, with `IdsFit` for the spelling the code tests. The cipher of
the vault is represented by what it leaves legible. A label deleted by its owner is not
modelled. At most one entry of a page has no id. A thread that cannot be started, after
`is_running` is set (server.py:503), is a lack of resources and left out. Out of scope: the security checks and the sanitizer (no state), the page in
the browser, the diagnosis script.

`Session` makes three assumptions about time. It passes in requests and sleeps only,
the computing between them takes none. The timeout of `urlopen`, which bounds each
operation on the socket, bounds the attempt. A server asks for one reset at a time.

## 6. Findings

* **A network loss can last for ever** (`pause_selfheal`). `start_monitoring_recovery`
  starts no thread while the former one is alive. Between the end of its loop and the
  end of the thread, the former one is alive and will not look again: a second loss in
  that window is watched by nobody, and the run stays PAUSED_NETWORK_LOST until a
  person resumes it. `WatchedLossHeals` is what does hold.
* **No message is delivered by this client** (`mail_keyword.cfg`). The mailbox agent passes
  `is_unread`, which `import_message` does not accept. Every message costs its attempts
  and is recorded FAILED; the tests use clients that accept any keyword.

* **A session does not end as promised** (`ZeroedOnTime` in `session_orgs.cfg`). README.md:75
  says that at a "2-hour TTL expiration, all sensitive memory buffers are explicitly zeroed
  out". The vault is given 86400 seconds (vault.py:39, main.py:116); its age is looked at
  only when somebody stores or reads a credential (vault.py:60), so that a vault nobody
  uses is never zeroed; and the access token of a client is kept outside the vault, until
  its own end. The instance takes TTL as the code's own, and the statement still fails.
  `NoTokenAfterEnd` is what does hold: no new token is granted once the vault is too old.

The refuted statements of section 3 are the other disagreements of code and documents.

## 7. Plan

Done: the modules of section 2, in the order pause controller, ledger and sync agent,
mailbox, bucket, provisioning, bulk import, labels, Web UI, session, workflow, pipeline;
proofs about all of them. Open:

1. Compositions: an abstract controller (running, paused, cancelled) implemented by
   `PauseController`, so that what the agents assume of `wait_if_paused` is shown.
2. A label deleted between two runs; Google's token cache, which the threads of the bulk
   import share; the choice of users in the Web UI.
3. Pure algorithms against definitions: the parsing of storage figures, the translation
   of system folders.
