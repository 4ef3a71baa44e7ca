------------------------------- MODULE Pipeline -------------------------------
(***************************************************************************)
(* engine/pipeline.py: the four stages, one after the other in one thread, *)
(* with no retries of their own and no pauses, over the checkpoint store,  *)
(* which outlives the runs. A calendar and an address book are listed at   *)
(* once, a mailbox folder by folder and page by page; a mail folder needs  *)
(* a Gmail label first. The mailbox does not change here: see MailboxAgent.*)
(***************************************************************************)
EXTENDS Naturals, Sequences, FiniteSets, SequencesExt

CONSTANTS
  Users,
  Mailboxes,   \* the users with a mailbox_account_id
  Folders,     \* mail folders, calendars and address books
  Items,
  Stage,       \* Stage[f]: the stage that migrates f
  Owner,       \* Owner[f]: whose it is
  Box,         \* Box[f]: the items of f
  Limit,       \* batch_size
  MaxFaults,   \* bound: items accepted whose answer never came
  MaxRuns      \* bound: how often the pipeline is run

Stages == <<"provision", "calendar", "contacts", "mailbox", "done">>

ASSUME OwnersAssumption ==
  /\ Mailboxes \subseteq Users
  /\ Owner \in [Folders -> Users]
  /\ Stage \in [Folders -> {"calendar", "contacts", "mailbox"}]
ASSUME BoxAssumption == Box \in [Folders -> Seq(Items)]
ASSUME BoundsAssumption == Limit \in Nat \ {0} /\ MaxFaults \in Nat /\ MaxRuns \in Nat

VARIABLES
  ustatus,   \* the users table
  row,       \* the items table
  copies,    \* what Google Workspace holds
  label,     \* the folders table: "none", a "real" label, or the "fake" one of a dry run
  pc, dry, stage,
  left,      \* the users left in this stage, the current one included
  user,
  folders,   \* the folders left of this user, the current one included
  folder, start, page, full,
  unheard,   \* history: copies of each item the run does not know of
  troubles,  \* history: something failed in this run
  rehearsed, \* history: there was a dry run before
  faults, runs

store == <<ustatus, row, copies, label>>
place == <<stage, left, user, folders, folder, start, page, full>>
histories == <<unheard, troubles, rehearsed>>
bounds == <<faults, runs>>
vars == <<ustatus, row, copies, label, pc, dry, stage, left, user, folders, folder, start, page,
          full, unheard, troubles, rehearsed, faults, runs>>

item == Head(page)
Labels == {"none", "real", "fake"}
Running == pc \notin {"idle", "done", "aborted"}

TypeOK ==
  /\ ustatus \in [Users -> {"none", "PENDING", "CREATED", "EXISTS", "FAILED"}]
  /\ row \in [Items -> {"none", "SYNCED", "FAILED"}]
  /\ copies \in [Items -> Nat]
  /\ label \in [Folders -> Labels]
  /\ pc \in {"idle", "user", "folder", "page", "item", "insert", "record", "fail", "done",
             "aborted"}
  /\ dry \in BOOLEAN
  /\ stage \in ToSet(Stages)
  /\ left \subseteq Users /\ user \in Users
  /\ folders \subseteq Folders /\ folder \in Folders
  /\ start \in Nat \ {0} /\ page \in Seq(Items) /\ full \in BOOLEAN
  /\ unheard \in [Items -> Nat]
  /\ troubles \in BOOLEAN /\ rehearsed \in BOOLEAN
  /\ faults \in 0 .. MaxFaults /\ runs \in 0 .. MaxRuns

Init ==
  /\ ustatus = [u \in Users |-> "none"]
  /\ row = [i \in Items |-> "none"]
  /\ copies = [i \in Items |-> 0]
  /\ label = [f \in Folders |-> "none"]
  /\ pc = "idle" /\ dry = FALSE /\ stage = "provision"
  /\ left = {} /\ user = CHOOSE u \in Users : TRUE
  /\ folders = {} /\ folder = CHOOSE f \in Folders : TRUE
  /\ start = 1 /\ page = <<>> /\ full = FALSE
  /\ unheard = [i \in Items |-> 0] /\ troubles = FALSE /\ rehearsed = FALSE
  /\ faults = 0 /\ runs = 0

-----------------------------------------------------------------------------
(* The run *)

Start ==
  /\ ~Running
  /\ runs < MaxRuns
  /\ runs' = runs + 1
  /\ dry' \in BOOLEAN
  /\ rehearsed' = (rehearsed \/ dry')
  /\ troubles' = FALSE
  /\ pc' = "user" /\ stage' = "provision" /\ left' = Users
  /\ UNCHANGED <<store, user, folders, folder, start, page, full, unheard, faults>>

\* The process dies, or a call outside every try raises: the store, a listing,
\* ensure_label.
Forgotten == IF pc = "record" THEN [unheard EXCEPT ![item] = @ + 1] ELSE unheard
Break ==
  /\ Running
  /\ pc' = "aborted"
  /\ unheard' = Forgotten
  /\ left' = {} /\ folders' = {} /\ page' = <<>>
  /\ UNCHANGED <<store, dry, stage, user, folder, start, full, troubles, rehearsed, bounds>>

\* A stage is over: the caller runs the next.
NextStage ==
  /\ pc = "user" /\ left = {}
  /\ stage' = Stages[CHOOSE i \in 2 .. Len(Stages) : Stages[i - 1] = stage]
  /\ pc' = IF stage' = "done" THEN "done" ELSE "user"
  /\ left' = IF stage' = "done" THEN {} ELSE Users
  /\ UNCHANGED <<store, dry, user, folders, folder, start, page, full, histories, bounds>>

-----------------------------------------------------------------------------
(* run_user_provisioning *)

\* register_user, and in a live run provision_user and update_user_status. A user
\* whose account could not be made is not left out of the next stages.
Provision ==
  /\ pc = "user" /\ stage = "provision"
  /\ \E u \in left :
       /\ left' = left \ {u}
       /\ IF dry
            THEN /\ ustatus' = [ustatus EXCEPT ![u] = IF @ = "none" THEN "PENDING" ELSE @]
                 /\ UNCHANGED troubles
            ELSE \E s \in {"CREATED", "EXISTS", "FAILED"} :
                   /\ ustatus' = [ustatus EXCEPT ![u] = s]
                   /\ troubles' = (troubles \/ s = "FAILED")
  /\ UNCHANGED <<row, copies, label, pc, dry, stage, user, folders, folder, start, page, full,
                 unheard, rehearsed, bounds>>

-----------------------------------------------------------------------------
(* The other stages: users, folders and pages *)

FoldersOf(u) == {f \in Folders : Owner[f] = u /\ Stage[f] = stage}

\* A user without a mailbox is passed over; a listing whose requests failed is empty.
NextUser ==
  /\ pc = "user" /\ stage # "provision"
  /\ \E u \in left :
       /\ user' = u
       /\ IF u \in Mailboxes
            THEN /\ folders' \in {FoldersOf(u), {}}
                 /\ troubles' = (troubles \/ folders' # FoldersOf(u))
                 /\ pc' = "folder" /\ UNCHANGED left
            ELSE /\ left' = left \ {u}
                 /\ UNCHANGED <<folders, troubles, pc>>
  /\ UNCHANGED <<store, dry, stage, folder, start, page, full, unheard, rehearsed, bounds>>

UserDone ==
  /\ pc = "folder" /\ folders = {}
  /\ pc' = "user" /\ left' = left \ {user}
  /\ UNCHANGED <<store, dry, stage, user, folders, folder, start, page, full, histories, bounds>>

NewLabel == IF dry THEN "fake" ELSE "real"

\* get_google_label_id; failing that ensure_label, or in a dry run a name made up, and
\* save_folder_mapping either way.
NextFolder ==
  /\ pc = "folder"
  /\ folder' \in folders
  /\ start' = 1
  /\ label' = IF stage = "mailbox" /\ label[folder'] = "none"
                THEN [label EXCEPT ![folder'] = NewLabel]
                ELSE label
  /\ pc' = "page"
  /\ UNCHANGED <<ustatus, row, copies, dry, stage, left, user, folders, page, full, histories,
                 bounds>>

FolderDone == pc' = "folder" /\ folders' = folders \ {folder}

\* A page of messages, or all the events or contacts
Whole ==
  SubSeq(Box[folder], start, IF stage = "mailbox" THEN Min({start + Limit - 1, Len(Box[folder])})
                                                  ELSE Len(Box[folder]))

\* ... or nothing, when the requests for a page failed; or a page without the message
\* whose entry has no id, which the client drops.
List ==
  /\ pc = "page"
  /\ page' \in {Whole, <<>>} \union
              {RemoveAt(Whole, i) : i \in {j \in DOMAIN Whole : stage = "mailbox"}}
  /\ full' = (stage = "mailbox" /\ Len(page') = Limit)
  /\ troubles' = (troubles \/ page' # Whole)
  /\ IF page' = <<>> THEN FolderDone ELSE pc' = "item" /\ UNCHANGED folders
  /\ UNCHANGED <<store, dry, stage, left, user, folder, start, unheard, rehearsed, bounds>>

\* Mutant: the page number goes up by one too many.
NextStartTooFar == start + Limit + 1

NextStart == start + Limit

PageDone ==
  /\ pc = "item" /\ page = <<>>
  /\ IF full
       THEN start' = NextStart /\ pc' = "page" /\ UNCHANGED folders
       ELSE FolderDone /\ UNCHANGED start
  /\ UNCHANGED <<store, dry, stage, left, user, folder, page, full, histories, bounds>>

-----------------------------------------------------------------------------
(* One item *)

\* Mutant: the items table is not asked.
SkipsNothing == FALSE

Skips == row[item] = "SYNCED"

\* is_item_synced, dry_run
Look ==
  /\ pc = "item" /\ page # <<>>
  /\ IF Skips \/ dry
       THEN page' = Tail(page) /\ UNCHANGED pc
       ELSE pc' = "insert" /\ UNCHANGED page
  /\ UNCHANGED <<store, dry, stage, left, user, folders, folder, start, full, histories, bounds>>

\* Google takes the item; Gmail none with a label it does not have.
Takes == label[folder] # "fake"

Insert ==
  /\ pc = "insert" /\ Takes
  /\ copies' = [copies EXCEPT ![item] = @ + 1]
  /\ pc' = "record"
  /\ UNCHANGED <<ustatus, row, label, dry, place, histories, bounds>>

\* ... but the answer is lost: the client's _request repeats it, or gives up.
InsertUnheard ==
  /\ pc = "insert" /\ Takes
  /\ faults < MaxFaults
  /\ faults' = faults + 1
  /\ copies' = [copies EXCEPT ![item] = @ + 1]
  /\ unheard' = [unheard EXCEPT ![item] = @ + 1]
  /\ troubles' = TRUE
  /\ pc' \in {"insert", "fail"}
  /\ UNCHANGED <<ustatus, row, label, dry, place, rehearsed, runs>>

InsertRefused ==
  /\ pc = "insert"
  /\ troubles' = (troubles \/ Takes)
  /\ pc' = "fail"
  /\ UNCHANGED <<store, dry, place, unheard, rehearsed, bounds>>

Settle(s) ==
  /\ row' = [row EXCEPT ![item] = s]
  /\ page' = Tail(page) /\ pc' = "item"

Record ==
  /\ pc = "record"
  /\ Settle("SYNCED")
  /\ UNCHANGED <<ustatus, copies, label, dry, stage, left, user, folders, folder, start, full,
                 histories, bounds>>

\* record_item_sync raises inside the try: the item counts as failed.
RecordRaises ==
  /\ pc = "record"
  /\ pc' = "fail"
  /\ unheard' = Forgotten
  /\ troubles' = TRUE
  /\ UNCHANGED <<store, dry, place, rehearsed, bounds>>

Fail ==
  /\ pc = "fail"
  /\ Settle("FAILED")
  /\ UNCHANGED <<ustatus, copies, label, dry, stage, left, user, folders, folder, start, full,
                 histories, bounds>>

Terminated == ~Running /\ runs = MaxRuns /\ UNCHANGED vars

Next ==
  \/ Start \/ Break \/ NextStage \/ Provision
  \/ NextUser \/ UserDone \/ NextFolder \/ List \/ PageDone
  \/ Look \/ Insert \/ InsertUnheard \/ InsertRefused \/ Record \/ RecordRaises \/ Fail
  \/ Terminated

Spec == Init /\ [][Next]_vars

-----------------------------------------------------------------------------
(* Properties *)

\* The pipeline implements the ledger of the agents, which may run on the same store.
Ledger == INSTANCE ItemLedger WITH status <- row
ImplementsLedger == Ledger!Spec

\* "Idempotent checkpointing": every copy is recorded, about to be, or one that a lost
\* answer, a store error or a crash made the pipeline forget.
Accounted(i) == row[i] = "SYNCED" \/ (pc = "record" /\ item = i)
CopiesExplained ==
  \A i \in Items : copies[i] = unheard[i] + (IF Accounted(i) THEN 1 ELSE 0)

\* The users of this stage whose items have been gone through
Through == {u \in Mailboxes : stage = "done" \/ (pc = "user" /\ u \notin left)}
ItemsOf(u) == UNION {ToSet(Box[f]) : f \in {g \in Folders : Owner[g] = u /\ stage \in {Stage[g], "done"}}}

\* On a store that never saw a dry run, a live run in which nothing fails delivers
\* every item of the users it has gone through, whatever earlier runs left undone.
CleanRunDelivers ==
  ~rehearsed /\ ~troubles /\ pc \in {"user", "done"} =>
    \A u \in Through : \A i \in ItemsOf(u) : row[i] = "SYNCED"

\* "Full Dry-Run simulation support": the same after a dry run, on the same store.
RehearsalIsHarmless ==
  ~dry /\ ~troubles /\ pc = "done" =>
    \A u \in Through : \A i \in ItemsOf(u) : row[i] = "SYNCED"
=============================================================================
