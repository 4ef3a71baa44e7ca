----------------------------- MODULE MailboxAgent -----------------------------
(***************************************************************************)
(* atomic_agents/mailbox_agent.py for one mailbox: the loop over folders,  *)
(* pages and messages, over ZohoAdminClient (listing and streaming, which  *)
(* never raise), retry_with_backoff, GoogleWorkspaceAdminClient.import_    *)
(* message (import, then insert, each with the retries of _request) and    *)
(* the items table. The mailbox is alive: mail arrives and is removed      *)
(* while the agent turns the pages of a folder by offset. The labels are   *)
(* left to FolderLabels.                                                   *)
(***************************************************************************)
EXTENDS Naturals, Sequences, FiniteSets, SequencesExt

CONSTANTS
  Folders,
  Messages,
  Box0,           \* the folders of the mailbox when the migration begins
  Oversize,       \* messages above MAX_MESSAGE_SIZE_BYTES
  Limit,          \* messages per page
  Clients,        \* the clients to run with: may import_message take is_unread
  MaxRetries,     \* max_retries of the agent's retry_with_backoff
  MaxRequests,    \* max_retries of GoogleWorkspaceAdminClient._request
  MaxMishaps      \* bound: re-runs, answers that never came and removals, together

ASSUME BoxAssumption == Box0 \in [Folders -> Seq(Messages)] /\ Oversize \subseteq Messages
ASSUME LimitAssumption == Limit \in Nat \ {0}
ASSUME ClientsAssumption == Clients \subseteq BOOLEAN /\ Clients # {}
ASSUME RetriesAssumption == MaxRetries \in Nat \ {0} /\ MaxRequests \in Nat \ {0}
ASSUME BoundsAssumption == MaxMishaps \in Nat

VARIABLES
  fits,      \* does the client take is_unread: a test's does, the real one does not
  box,       \* the Zoho mailbox, newest message first
  row,       \* the items table: "none" when the message has no row
  copies,    \* what Gmail holds
  bodies,    \* history: the bodies imported for each message
  ctl,       \* the PauseController, as wait_if_paused sees it
  pc, dry,
  folders,   \* the folders left, the current one included
  folder, start, page, full,
  raw,       \* raw_bytes of the current message
  route,     \* "import", or "insert" after a refusal
  attempt, request,
  tally,
  unheard,   \* history: imports of each message the run forgot
  troubles,  \* history: what went wrong in this run
  arrived,   \* history: messages that came after this run began
  mishaps

store == <<row, copies, bodies>>
loop == <<dry, folders, folder, start, page, full>>
tries == <<raw, route, attempt, request>>
histories == <<unheard, troubles, arrived>>
bounds == <<fits, mishaps>>
vars == <<fits, box, row, copies, bodies, ctl, pc, dry, folders, folder, start, page, full, raw,
          route, attempt, request, tally, unheard, troubles, arrived, mishaps>>

Rows == {"none", "SYNCED", "FAILED", "FAILED_SIZE_EXCEEDED"}
At == {"new", "idle", "folder", "page", "list", "message", "check", "stream", "retry", "post",
       "record", "fail", "done", "aborted"}
NoTally == [synced |-> 0, skipped |-> 0, failed |-> 0]
msg == Head(page)
Mishap == mishaps < MaxMishaps /\ mishaps' = mishaps + 1
Count(f) == tally' = [tally EXCEPT ![f] = @ + 1]
Trouble(t) == troubles' = troubles \union {t}
Present == UNION {ToSet(box[f]) : f \in Folders}

TypeOK ==
  /\ fits \in Clients
  /\ \A f \in Folders : box[f] \in Seq(Messages)
  /\ row \in [Messages -> Rows]
  /\ copies \in [Messages -> Nat]
  /\ bodies \in [Messages -> SUBSET {"full", "placeholder"}]
  /\ ctl \in {"RUNNING", "PAUSED", "CANCELLED"}
  /\ pc \in At
  /\ dry \in BOOLEAN
  /\ folders \subseteq Folders /\ folder \in Folders
  /\ start \in Nat \ {0}
  /\ page \in Seq(Messages)
  /\ full \in BOOLEAN
  /\ raw \in {"full", "placeholder"}
  /\ route \in {"import", "insert"}
  /\ attempt \in 0 .. MaxRetries /\ request \in 0 .. MaxRequests
  /\ tally \in [synced : Nat, skipped : Nat, failed : Nat]
  /\ unheard \in [Messages -> Nat]
  /\ troubles \subseteq {"listing", "removal", "request", "body", "cancel", "store"}
  /\ arrived \subseteq Messages
  /\ mishaps \in 0 .. MaxMishaps

Init ==
  /\ fits \in Clients
  /\ box = Box0
  /\ row = [m \in Messages |-> "none"]
  /\ copies = [m \in Messages |-> 0]
  /\ bodies = [m \in Messages |-> {}]
  /\ ctl = "RUNNING" /\ pc = "new" /\ dry = FALSE
  /\ folders = {} /\ folder = CHOOSE f \in Folders : TRUE
  /\ start = 1 /\ page = <<>> /\ full = FALSE
  /\ raw = "full" /\ route = "import" /\ attempt = 0 /\ request = 0
  /\ tally = NoTally
  /\ unheard = [m \in Messages |-> 0] /\ troubles = {} /\ arrived = {}
  /\ mishaps = 0

-----------------------------------------------------------------------------
Running == pc \notin {"new", "idle", "done", "aborted"}

\* list_user_folders: the folders, or none at all when its requests failed.
Start ==
  /\ ~Running
  /\ IF pc = "new" THEN UNCHANGED mishaps ELSE Mishap
  /\ dry' \in BOOLEAN
  /\ folders' \in {Folders, {}}
  /\ troubles' = IF folders' = Folders THEN {} ELSE {"listing"}
  /\ arrived' = {}
  /\ pc' = "folder" /\ ctl' = "RUNNING" /\ tally' = NoTally
  /\ UNCHANGED <<box, store, folder, start, page, full, tries, unheard, fits>>

Forget == unheard' = IF pc = "record" THEN [unheard EXCEPT ![msg] = @ + 1] ELSE unheard

Crash ==
  /\ Running
  /\ pc' = "idle"
  /\ Forget
  /\ UNCHANGED <<box, store, ctl, loop, tries, tally, troubles, arrived, bounds>>

Steer ==
  /\ Running
  /\ ctl # "CANCELLED"
  /\ ctl' \in {"RUNNING", "PAUSED", "CANCELLED"} \ {ctl}
  /\ IF ctl' = "CANCELLED" THEN Trouble("cancel") ELSE UNCHANGED troubles
  /\ UNCHANGED <<box, store, pc, loop, tries, tally, unheard, arrived, bounds>>

-----------------------------------------------------------------------------
(* The owner of the mailbox *)

Arrive ==
  /\ Running
  /\ \E f \in Folders, m \in Messages \ (Present \union arrived) :
       /\ box' = [box EXCEPT ![f] = <<m>> \o @]
       /\ arrived' = arrived \union {m}
  /\ UNCHANGED <<store, ctl, pc, loop, tries, tally, unheard, troubles, bounds>>

Vanish ==
  /\ Running
  /\ Mishap
  /\ \E f \in Folders : \E i \in DOMAIN box[f] : box' = [box EXCEPT ![f] = RemoveAt(@, i)]
  /\ Trouble("removal")
  /\ UNCHANGED <<store, ctl, pc, loop, tries, tally, unheard, arrived, fits>>

-----------------------------------------------------------------------------
(* _stream_user_mailbox: folders and pages *)

\* wait_if_paused, outside any try
WaitThen(l) ==
  /\ ctl # "PAUSED"
  /\ pc' = IF ctl = "CANCELLED" THEN "aborted" ELSE l

NextFolder ==
  /\ pc = "folder"
  /\ folders # {}
  /\ WaitThen("page")
  /\ folder' \in folders
  /\ start' = 1
  /\ UNCHANGED <<box, store, ctl, dry, folders, page, full, tries, tally, histories, bounds>>

Finish ==
  /\ pc = "folder"
  /\ folders = {}
  /\ pc' = "done"
  /\ UNCHANGED <<box, store, ctl, loop, tries, tally, histories, bounds>>

NextPage ==
  /\ pc = "page"
  /\ WaitThen("list")
  /\ UNCHANGED <<box, store, ctl, loop, tries, tally, histories, bounds>>

LeaveFolder == folders' = folders \ {folder} /\ pc' = "folder"
PageAt(f, s) == SubSeq(box[f], s, Min({s + Limit - 1, Len(box[f])}))

\* An empty page ends the folder.
Got == IF page' = <<>> THEN LeaveFolder ELSE pc' = "message" /\ UNCHANGED folders

\* list_folder_messages under retry_with_backoff answers with a page.
List ==
  /\ pc = "list"
  /\ ctl = "RUNNING"
  /\ page' = PageAt(folder, start)
  /\ full' = (Len(page') >= Limit)
  /\ Got
  /\ UNCHANGED <<box, store, ctl, dry, folder, start, tries, tally, histories, bounds>>

\* An entry of the page has no id: the client drops it, and the page that is left is
\* too short to be followed by another.
ListPartly ==
  /\ pc = "list"
  /\ ctl = "RUNNING"
  /\ \E i \in DOMAIN PageAt(folder, start) : page' = RemoveAt(PageAt(folder, start), i)
  /\ full' = FALSE
  /\ Got
  /\ Trouble("listing")
  /\ UNCHANGED <<box, store, ctl, dry, folder, start, tries, tally, unheard, arrived, bounds>>

\* All its requests failed: the client returns an empty list.
ListNothing ==
  /\ pc = "list"
  /\ ctl = "RUNNING"
  /\ LeaveFolder
  /\ Trouble("listing")
  /\ UNCHANGED <<box, store, ctl, dry, folder, start, page, full, tries, tally, unheard,
                 arrived, bounds>>

\* Cancelled in the wait of retry_with_backoff: caught, and the folder is left.
ListInterrupted ==
  /\ pc = "list"
  /\ ctl = "CANCELLED"
  /\ LeaveFolder
  /\ UNCHANGED <<box, store, ctl, dry, folder, start, page, full, tries, tally, histories, bounds>>

\* Mutant: the next page begins one message too far.
NextStartTooFar == start + Limit + 1

NextStart == start + Limit

\* The page is done: a short one ends the folder, a full one is followed.
TurnPage ==
  /\ pc = "message"
  /\ page = <<>>
  /\ IF full
       THEN start' = NextStart /\ pc' = "page" /\ UNCHANGED folders
       ELSE LeaveFolder /\ UNCHANGED start
  /\ UNCHANGED <<box, store, ctl, dry, folder, page, full, tries, tally, histories, bounds>>

NextMessage ==
  /\ pc = "message"
  /\ page # <<>>
  /\ WaitThen("check")
  /\ UNCHANGED <<box, store, ctl, loop, tries, tally, histories, bounds>>

\* The message is settled, in the tally field f.
Settle(f) == Count(f) /\ page' = Tail(page) /\ pc' = "message"

\* Mutant: the items table is not asked.
SkipsNothing == FALSE

Skips == row[msg] = "SYNCED"
Simulates == ~Skips /\ dry
Migrates == ~Skips /\ ~Simulates

\* is_item_synced, dry_run, the 25 MB guardrail
Check ==
  /\ pc = "check"
  /\ \/ /\ Skips
        /\ Settle("skipped")
        /\ UNCHANGED row
     \/ /\ Simulates
        /\ Settle("synced")
        /\ UNCHANGED row
     \/ /\ Migrates /\ msg \in Oversize
        /\ row' = [row EXCEPT ![msg] = "FAILED_SIZE_EXCEEDED"]
        /\ Settle("failed")
     \/ /\ Migrates /\ msg \notin Oversize
        /\ pc' = "stream"
        /\ UNCHANGED <<row, page, tally>>
  /\ UNCHANGED <<box, copies, bodies, ctl, dry, folders, folder, start, full, tries, histories,
                 bounds>>

-----------------------------------------------------------------------------
(* One message *)

\* stream_raw_message_rfc822 under retry_with_backoff: the message, or, when every
\* endpoint failed, a container with "(Message body migrated)".
Stream ==
  /\ pc = "stream"
  /\ ctl # "PAUSED"
  /\ IF ctl = "CANCELLED"
       THEN pc' = "fail" /\ UNCHANGED <<raw, attempt, troubles>>
       ELSE /\ pc' = "retry"
            /\ attempt' = 0
            /\ raw' \in {"full", "placeholder"}
            /\ IF raw' = "full" THEN UNCHANGED troubles ELSE Trouble("body")
  /\ UNCHANGED <<box, store, ctl, loop, route, request, tally, unheard, arrived, bounds>>

Interrupted == ctl = "CANCELLED"

\* The head of the loop of retry_with_backoff around the import.
Retry ==
  /\ pc = "retry"
  /\ ctl # "PAUSED"
  /\ IF Interrupted
       THEN pc' = "fail" /\ UNCHANGED <<route, request>>
       ELSE pc' = "post" /\ route' = "import" /\ request' = 0
  /\ UNCHANGED <<box, store, ctl, loop, raw, attempt, tally, histories, bounds>>

\* Mutant: attempts are not counted.
UncountedAttempt == attempt

Exhausted(n) == n >= MaxRetries
NextAttempt == attempt + 1

CountAttempt ==
  /\ attempt' = NextAttempt
  /\ pc' = IF Exhausted(NextAttempt) THEN "fail" ELSE "retry"

\* The client has no such keyword: TypeError, before any request.
PostTypeError ==
  /\ pc = "post"
  /\ ~fits
  /\ CountAttempt
  /\ UNCHANGED <<box, store, ctl, loop, raw, route, request, tally, histories, bounds>>

\* copies and bodies when Gmail accepts the current message
Accept ==
  /\ copies' = [copies EXCEPT ![msg] = @ + 1]
  /\ bodies' = [bodies EXCEPT ![msg] = @ \union {raw}]
  /\ UNCHANGED row

PostAnswered ==
  /\ pc = "post"
  /\ fits
  /\ Accept
  /\ pc' = "record"
  /\ UNCHANGED <<box, ctl, loop, tries, tally, histories, bounds>>

\* An exception of one request. _request tries again; a network error it raises in
\* the end pauses the run and is not counted; an API error sends an import to
\* messages.insert, and costs an insert one attempt.
PostRaises ==
  IF request + 1 < MaxRequests
    THEN request' = request + 1 /\ UNCHANGED <<pc, ctl, route, attempt>>
    ELSE \/ /\ pc' = "retry"
            /\ ctl' = IF ctl = "RUNNING" THEN "PAUSED" ELSE ctl
            /\ UNCHANGED <<route, attempt, request>>
         \/ /\ route = "import"
            /\ route' = "insert" /\ request' = 0
            /\ UNCHANGED <<pc, ctl, attempt>>
         \/ /\ route = "insert"
            /\ CountAttempt
            /\ UNCHANGED <<ctl, route, request>>

PostRefused ==
  /\ pc = "post"
  /\ fits
  /\ PostRaises
  /\ Trouble("request")
  /\ UNCHANGED <<box, store, loop, raw, tally, unheard, arrived, bounds>>

PostUnheard ==
  /\ pc = "post"
  /\ fits
  /\ Mishap
  /\ PostRaises
  /\ Accept
  /\ unheard' = [unheard EXCEPT ![msg] = @ + 1]
  /\ Trouble("request")
  /\ UNCHANGED <<box, loop, raw, tally, arrived, fits>>

Record ==
  /\ pc = "record"
  /\ row' = [row EXCEPT ![msg] = "SYNCED"]
  /\ Settle("synced")
  /\ UNCHANGED <<box, copies, bodies, ctl, dry, folders, folder, start, full, tries,
                 histories, bounds>>

RecordRaises ==
  /\ pc = "record"
  /\ pc' = "fail"
  /\ Forget
  /\ Trouble("store")
  /\ UNCHANGED <<box, store, ctl, loop, tries, tally, arrived, bounds>>

Fail ==
  /\ pc = "fail"
  /\ row' = [row EXCEPT ![msg] = "FAILED"]
  /\ Settle("failed")
  /\ UNCHANGED <<box, copies, bodies, ctl, dry, folders, folder, start, full, tries,
                 histories, bounds>>

FailRaises ==
  /\ pc = "fail"
  /\ Count("failed")
  /\ pc' = "aborted"
  /\ UNCHANGED <<box, store, ctl, loop, tries, histories, bounds>>

Terminated == ~Running /\ mishaps = MaxMishaps /\ UNCHANGED vars

AgentStep ==
  \/ NextFolder \/ Finish \/ NextPage \/ List \/ ListPartly \/ ListNothing
  \/ ListInterrupted \/ TurnPage
  \/ NextMessage \/ Check \/ Stream \/ Retry
  \/ PostTypeError \/ PostAnswered \/ PostRefused \/ PostUnheard
  \/ Record \/ RecordRaises \/ Fail \/ FailRaises

Next == Start \/ Crash \/ Steer \/ Arrive \/ Vanish \/ AgentStep \/ Terminated

Spec == Init /\ [][Next]_vars

\* The agent's thread runs, and its requests have timeouts.
FairSpec == Spec /\ WF_vars(AgentStep)

-----------------------------------------------------------------------------
(* Properties *)

\* The agent implements the ledger, a size failure being a failure: SYNCED is
\* recorded for imported messages only, and is final, over all runs.
Ledger == INSTANCE ItemLedger WITH
  Items <- Messages,
  status <- [m \in Messages |-> IF row[m] = "FAILED_SIZE_EXCEEDED" THEN "FAILED" ELSE row[m]]
ImplementsLedger == Ledger!Spec

\* Every copy in Gmail is recorded, about to be, or of an import the run forgot:
\* the two routes and the two layers of retries add no other copy.
Accounted(m) == row[m] = "SYNCED" \/ (pc = "record" /\ msg = m)
CopiesExplained ==
  \A m \in Messages : copies[m] = unheard[m] + (IF Accounted(m) THEN 1 ELSE 0)

\* Paging by offset overlooks no message that was there when the run began, even
\* while mail arrives: unless a listing failed or had an entry without an id, a message
\* was removed or the run was cancelled, a live run that completes leaves a row for each.
NothingOverlooked ==
  pc = "done" /\ ~dry /\ troubles \intersect {"listing", "removal", "cancel"} = {} =>
    \A m \in Present \ arrived : row[m] # "none"

\* A live run in which nothing went wrong, with a client that takes the keyword, has
\* synced every message it could.
CleanRunSyncsAll ==
  fits /\ pc = "done" /\ ~dry /\ troubles = {} =>
    \A m \in Present \ (arrived \union Oversize) : row[m] = "SYNCED"

\* A dry run writes nothing, neither in Gmail nor in the store.
DryRunWritesNothing == [][dry /\ Running => UNCHANGED store]_vars

\* A cancelled run ends, wherever the cancellation finds it.
CancelEndsRun == ctl = "CANCELLED" /\ Running ~> ~Running

\* A run ends when the network errors and the pauses do, whatever arrives.
RunEnds == <>[](ctl = "RUNNING") => (Running ~> ~Running)

\* The agent "streams RFC822 bodies directly" into Gmail: with the client of this
\* repository too, a live run in which nothing went wrong delivers the messages.
CleanRunDelivers ==
  pc = "done" /\ ~dry /\ troubles = {} =>
    \A m \in Present \ (arrived \union Oversize) : copies[m] > 0

\* "zero data loss": a run that completes without a failure to report has synced
\* every message that was there and is still there.
NoSilentLoss ==
  pc = "done" /\ ~dry /\ tally.failed = 0 /\ troubles \subseteq {"listing", "body"} =>
    \A m \in Present \ arrived : row[m] = "SYNCED"

\* "... or corrupt entries": a message recorded SYNCED has its own body in Gmail.
NoCorruptEntry == \A m \in Messages : row[m] = "SYNCED" => "full" \in bodies[m]
=============================================================================
