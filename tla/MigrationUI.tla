------------------------------ MODULE MigrationUI ------------------------------
(***************************************************************************)
(* The life of a run in the Web UI: ui/server.py.  Every request has a     *)
(* handler thread and a handler object of its own; what the requests share *)
(* are attributes of the class MigrationUIHandler: the progress dictionary,*)
(* the vault and the cache of discovered users.  A run is a worker thread  *)
(* that writes into whatever dictionary the class holds at that moment.    *)
(*                                                                         *)
(* What a stage does is abstracted to "it ends, or it raises"; the agents  *)
(* have modules of their own.  A user list is named by the organisation it *)
(* was read from, a vault by the organisation whose credentials it holds.  *)
(***************************************************************************)
EXTENDS Naturals, FiniteSets

CONSTANTS
  Handlers,     \* requests that are served at the same time
  Orgs,
  None,
  Skips,        \* the sets of stages that a request may skip
  ResetsInRun,  \* is the session reset while a run is in progress
  MaxRuns,      \* bound: how many runs are requested
  MaxSessions   \* bound: how often credentials are stored

ASSUME SkipsAssumption == {} \in Skips /\ UNION Skips \subseteq {"CALENDAR", "CONTACTS", "MAILBOX"}
ASSUME ResetsAssumption == ResetsInRun \in BOOLEAN
ASSUME BoundsAssumption == MaxRuns \in Nat \ {0} /\ MaxSessions \in Nat

VARIABLES
  pc,        \* what each handler is doing
  mine,      \* the run that each handler is starting
  seen,      \* the organisation of the vault a discovery began with
  run,       \* the runs: [at, kind, skips, org, users, raised]
  requested, \* how many runs have been requested
  progress,  \* last_progress_state
  vault, cache, sessions,
  report,    \* latest_audit_report_json
  unheard    \* history: has a pause or a cancel been refused to a run in progress

vars == <<pc, mine, seen, run, requested, progress, vault, cache, sessions, report, unheard>>

Runs == 1 .. MaxRuns
Stages == {"PROVISIONING", "CALENDAR", "CONTACTS", "MAILBOX"}

After == [PROVISIONING |-> "CALENDAR", CALENDAR |-> "CONTACTS", CONTACTS |-> "MAILBOX",
          MAILBOX |-> "report"]

Busy == Stages \union {"report", "complete", "bulk", "bulk_done"}
Live == Busy \union {"flagged"}
At == Live \union {"none", "prepared", "refused", "completed", "failed", "done"}

TypeOK ==
  /\ pc \in [Handlers -> {"idle", "prepare", "launch", "discover"}]
  /\ mine \in [Handlers -> Runs]
  /\ seen \in [Handlers -> Orgs \union {None}]
  /\ run \in [Runs -> [at : At, kind : {"migrate", "bulk"}, skips : Skips,
                       org : Orgs \union {None}, users : Orgs \union {None}, raised : BOOLEAN]]
  /\ requested \in 0 .. MaxRuns
  /\ progress \in [stage : Stages \union {"IDLE", "STARTING", "BULK_IMPORT", "COMPLETED", "FAILED"},
                   is_running : BOOLEAN, is_completed : BOOLEAN, error : BOOLEAN]
  /\ vault \in Orgs \union {None} /\ cache \in Orgs \union {None}
  /\ sessions \in 0 .. MaxSessions
  /\ report \in Runs \union {None}
  /\ unheard \in BOOLEAN

\* last_progress_state as it is written at the start of a run, and by a reset.
Fresh(stage, running) ==
  [stage |-> stage, is_running |-> running, is_completed |-> FALSE, error |-> FALSE]

Init ==
  /\ pc = [h \in Handlers |-> "idle"]
  /\ mine = [h \in Handlers |-> 1]
  /\ seen = [h \in Handlers |-> None]
  /\ run = [r \in Runs |-> [at |-> "none", kind |-> "migrate", skips |-> {},
                            org |-> None, users |-> None, raised |-> FALSE]]
  /\ requested = 0
  /\ progress = Fresh("IDLE", FALSE)
  /\ vault = None /\ cache = None /\ sessions = 0
  /\ report = None
  /\ unheard = FALSE

-----------------------------------------------------------------------------
(* The session *)

\* _handle_vault_store
Store ==
  /\ sessions < MaxSessions
  /\ sessions' = sessions + 1
  /\ \E o \in Orgs : vault' = o
  /\ UNCHANGED <<pc, mine, seen, run, requested, progress, cache, report, unheard>>

\* _handle_reset: the vault and the progress, but not the cache
Reset ==
  /\ ResetsInRun \/ ~progress.is_running
  /\ vault' = None
  /\ progress' = Fresh("IDLE", FALSE)
  /\ UNCHANGED <<pc, mine, seen, run, requested, cache, sessions, report, unheard>>

\* _handle_discover reads the tenant of the vault it finds, and fills the cache
\* when it has the answer.
Discover(h) ==
  /\ pc[h] = "idle"
  /\ vault # None
  /\ seen' = [seen EXCEPT ![h] = vault]
  /\ pc' = [pc EXCEPT ![h] = "discover"]
  /\ UNCHANGED <<mine, run, requested, progress, vault, cache, sessions, report, unheard>>

Discovered(h) ==
  /\ pc[h] = "discover"
  /\ \/ cache' = seen[h]
     \/ UNCHANGED cache          \* the discovery failed
  /\ pc' = [pc EXCEPT ![h] = "idle"]
  /\ UNCHANGED <<mine, seen, run, requested, progress, vault, sessions, report, unheard>>

\* _handle_pause, _handle_resume and _handle_cancel ask the class for its supervisor.
\* "self.supervisor = ..." has set the attribute of one handler object, gone with its
\* request, so that the class has none: 400.
Control ==
  /\ progress.is_running
  /\ \E r \in Runs : run[r].at \in Busy
  /\ unheard' = TRUE
  /\ UNCHANGED <<pc, mine, seen, run, requested, progress, vault, cache, sessions, report>>

-----------------------------------------------------------------------------
(* Starting a run: _handle_migrate and _handle_bulk_import *)

Goto(h, l) == pc' = [pc EXCEPT ![h] = l]
Move(r, l) == run' = [run EXCEPT ![r].at = l]

\* The first thing a start does is to look at is_running.
Request(h) ==
  /\ pc[h] = "idle"
  /\ requested < MaxRuns
  /\ ~progress.is_running
  /\ requested' = requested + 1
  /\ mine' = [mine EXCEPT ![h] = requested']
  /\ Goto(h, "prepare")
  /\ \E k \in {"migrate", "bulk"} : \E s \in Skips :
       /\ k = "bulk" => s = {}
       /\ run' = [run EXCEPT ![requested'] =
                    [@ EXCEPT !.at = "prepared", !.kind = k, !.skips = s, !.org = vault]]
  /\ UNCHANGED <<seen, progress, vault, cache, sessions, report, unheard>>

\* The users, from the cache or from Zoho; then the progress is set anew.
Flag(h) ==
  LET r == mine[h]
      users == IF cache = None THEN run[r].org ELSE cache
  IN
  /\ pc[h] = "prepare"
  /\ Goto(h, "launch")
  /\ \/ /\ run[r].kind = "bulk"
        /\ progress' = Fresh("BULK_IMPORT", TRUE)
        /\ Move(r, "flagged")
        /\ UNCHANGED cache
     \/ /\ run[r].kind = "migrate"
        /\ users # None
        /\ progress' = Fresh("STARTING", TRUE)
        /\ cache' = users
        /\ run' = [run EXCEPT ![r] = [@ EXCEPT !.at = "flagged", !.users = users]]
  /\ UNCHANGED <<mine, seen, requested, vault, sessions, report, unheard>>

\* No users, no credentials, or a request that is not complete.
Refuse(h) ==
  /\ pc[h] = "prepare"
  /\ Goto(h, "idle")
  /\ Move(mine[h], "refused")
  /\ UNCHANGED <<mine, seen, requested, progress, vault, cache, sessions, report, unheard>>

\* thread.start()
Launch(h) ==
  /\ pc[h] = "launch"
  /\ Goto(h, "idle")
  /\ IF run[mine[h]].kind = "bulk"
       THEN Move(mine[h], "bulk") /\ UNCHANGED progress
       ELSE /\ Move(mine[h], "PROVISIONING")
            /\ progress' = [progress EXCEPT !.stage = "PROVISIONING"]
  /\ UNCHANGED <<mine, seen, requested, vault, cache, sessions, report, unheard>>

-----------------------------------------------------------------------------
(* run_migration_worker *)

worker == <<pc, mine, seen, requested, vault, cache, sessions, unheard>>

\* The next stage is entered and announced, or skipped without a word.
NextStage(r) ==
  LET s == After[run[r].at] IN
  /\ run[r].at \in Stages \ {"MAILBOX"}
  /\ s \notin {"MAILBOX"} \intersect run[r].skips
  /\ Move(r, s)
  /\ progress' = IF s \in run[r].skips THEN progress ELSE [progress EXCEPT !.stage = s]
  /\ UNCHANGED <<report, worker>>

MailboxDone(r) ==
  /\ run[r].at = "MAILBOX"
  /\ Move(r, "report")
  /\ UNCHANGED <<progress, report, worker>>

WriteReport(r) ==
  /\ run[r].at = "report"
  /\ Move(r, "complete")
  /\ report' = r
  /\ UNCHANGED <<progress, worker>>

\* is_running is cleared before is_completed and the summary are set.
Complete(r) ==
  /\ run[r].at = "complete"
  /\ Move(r, "completed")
  /\ progress' = [progress EXCEPT !.stage = "COMPLETED", !.is_running = FALSE]
  /\ UNCHANGED <<report, worker>>

Summarise(r) ==
  /\ run[r].at = "completed"
  /\ Move(r, "done")
  /\ progress' = [progress EXCEPT !.is_completed = TRUE]
  /\ UNCHANGED <<report, worker>>

\* Mutant: the handler of the exception leaves is_running as it is.
FailedRunning(p) == [p EXCEPT !.stage = "FAILED"]

Failed(p) == [p EXCEPT !.stage = "FAILED", !.is_running = FALSE]

\* A stage or the report raises.
Fail(r) ==
  /\ run[r].at \in Stages \union {"report"}
  /\ run' = [run EXCEPT ![r] = [@ EXCEPT !.at = "failed", !.raised = TRUE]]
  /\ progress' = Failed(progress)
  /\ UNCHANGED <<report, worker>>

\* Skipping the mailbox stage imports a class that does not exist.
SkipMailbox(r) ==
  /\ run[r].at = "CONTACTS"
  /\ "MAILBOX" \in run[r].skips
  /\ Move(r, "failed")
  /\ progress' = Failed(progress)
  /\ UNCHANGED <<report, worker>>

NoteError(r) ==
  /\ run[r].at = "failed"
  /\ Move(r, "done")
  /\ progress' = [progress EXCEPT !.error = TRUE]
  /\ UNCHANGED <<report, worker>>

(* run_bulk_worker: is_running is cleared last *)

BulkDone(r) ==
  /\ run[r].at = "bulk"
  /\ Move(r, "bulk_done")
  /\ \/ progress' = [progress EXCEPT !.stage = "COMPLETED", !.is_completed = TRUE]
     \/ progress' = [progress EXCEPT !.stage = "FAILED", !.error = TRUE]
  /\ UNCHANGED <<report, worker>>

BulkEnd(r) ==
  /\ run[r].at = "bulk_done"
  /\ Move(r, "done")
  /\ progress' = [progress EXCEPT !.is_running = FALSE]
  /\ UNCHANGED <<report, worker>>

Work(r) ==
  \/ NextStage(r) \/ MailboxDone(r) \/ WriteReport(r) \/ Complete(r) \/ Summarise(r)
  \/ Fail(r) \/ SkipMailbox(r) \/ NoteError(r) \/ BulkDone(r) \/ BulkEnd(r)

Serve(h) == Request(h) \/ Flag(h) \/ Refuse(h) \/ Launch(h) \/ Discover(h) \/ Discovered(h)

Next == Store \/ Reset \/ Control \/ (\E h \in Handlers : Serve(h)) \/ (\E r \in Runs : Work(r))

Spec == Init /\ [][Next]_vars

\* Threads are scheduled; a stage ends or raises (SyncAgent, MailboxAgent: RunEnds).
FairSpec ==
  /\ Spec
  /\ \A h \in Handlers : WF_vars(Launch(h))
  /\ \A r \in Runs : WF_vars(Work(r))

-----------------------------------------------------------------------------
(* Properties *)

\* is_running, which every handler trusts, says what the threads do: it is set exactly
\* while a started run has not ended.
FlagIsHonest == progress.is_running <=> \E r \in Runs : run[r].at \in Live

\* However a run ends, and whatever is reset meanwhile, a new run can be started later.
FlagClears == progress.is_running ~> ~progress.is_running

\* "A migration run is already currently in progress": two runs never work at once.
OneRunAtATime == Cardinality({r \in Runs : run[r].at \in Busy}) <= 1

\* "Click the Pause Migration button at any time": a request to pause, resume or cancel
\* is heard by the run in progress.
ControlHeard == ~unheard

\* "Resets migration state and vault": a run migrates users of the organisation whose
\* credentials it uses.
RunsMatchOrg == \A r \in Runs : run[r].users # None => run[r].users = run[r].org

\* "Mailbox migration skipped by configuration": a run fails only when a stage raises.
SkippingIsHarmless == \A r \in Runs : run[r].at = "failed" => run[r].raised
=============================================================================
