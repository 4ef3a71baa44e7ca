----------------------------- MODULE BulkImporter -----------------------------
(***************************************************************************)
(* engine/bulk_importer.py: a pool of threads that stream the export       *)
(* archives of a directory into Gmail, each archive through import_user_   *)
(* zip, over import_message of connectors/google_client.py (import, then   *)
(* insert, each with the retries of _request) and the items table. The     *)
(* importer has no PauseController: it runs to its end or is killed, and   *)
(* may be run again. The labels are left to FolderLabels.                  *)
(***************************************************************************)
EXTENDS Naturals, Sequences, FiniteSets, SequencesExt

CONSTANTS
  Archives,
  Mailboxes,
  Mailbox,        \* the mailbox that the name of each archive stands for
  Messages,       \* folder and Message-ID
  Contents,       \* the entries of each archive
  Pool,           \* max_workers
  MaxRequests,    \* max_retries of GoogleWorkspaceAdminClient._request
  MaxFaults,      \* bound: imports accepted whose answer never came
  MaxRuns,        \* bound: how often the import is started
  DryRuns         \* which runs are tried: a subset of BOOLEAN

ASSUME ArchiveAssumption ==
  /\ IsFiniteSet(Archives)
  /\ Mailbox \in [Archives -> Mailboxes]
  /\ Contents \in [Archives -> Seq(Messages)]
ASSUME NumberAssumption ==
  /\ Pool \in Nat \ {0} /\ MaxRequests \in Nat \ {0}
  /\ MaxFaults \in Nat /\ MaxRuns \in Nat
  /\ DryRuns \subseteq BOOLEAN

VARIABLES
  row,        \* the items table, per mailbox and message
  copies,     \* what Gmail holds
  dry,        \* self.dry_run of this run
  alive,      \* does a process run
  pc,         \* per archive: where its thread is
  left,       \* per archive: the entries not yet handled
  request,    \* per archive: requests that failed for the current entry
  tally,      \* per archive: synced, skipped, failed
  results,    \* results[uemail]: the status reported for a mailbox
  unheard,    \* history: imports of each message that no row accounts for
  faults, runs

store == <<row, copies>>
vars == <<row, copies, dry, alive, pc, left, request, tally, results, unheard, faults, runs>>

\* "SIMULATED" is a row with status SYNCED whose destination is "dryrun_msg".
Rows == {"none", "SYNCED", "SIMULATED", "FAILED"}
At == {"queued", "entry", "simulate", "post", "record", "fail", "ended", "broken", "reported"}
NoTally == [synced |-> 0, skipped |-> 0, failed |-> 0]
Keys == Mailboxes \X Messages
key(a) == <<Mailbox[a], Head(left[a])>>
Goto(a, l) == pc' = [pc EXCEPT ![a] = l]

TypeOK ==
  /\ row \in [Keys -> Rows]
  /\ copies \in [Keys -> Nat]
  /\ dry \in BOOLEAN /\ alive \in BOOLEAN
  /\ pc \in [Archives -> At]
  /\ \A a \in Archives : left[a] \in Seq(Messages)
  /\ request \in [Archives -> 0 .. 2 * MaxRequests - 1]
  /\ tally \in [Archives -> [synced : Nat, skipped : Nat, failed : Nat]]
  /\ results \in [Mailboxes -> {"none", "SUCCESS", "PARTIAL", "FAILED"}]
  /\ unheard \in [Keys -> Nat]
  /\ faults \in 0 .. MaxFaults /\ runs \in 0 .. MaxRuns

Init ==
  /\ row = [k \in Keys |-> "none"]
  /\ copies = [k \in Keys |-> 0]
  /\ dry = FALSE /\ alive = FALSE
  /\ pc = [a \in Archives |-> "queued"]
  /\ left = [a \in Archives |-> <<>>]
  /\ request = [a \in Archives |-> 0]
  /\ tally = [a \in Archives |-> NoTally]
  /\ results = [u \in Mailboxes |-> "none"]
  /\ unheard = [k \in Keys |-> 0]
  /\ faults = 0 /\ runs = 0

-----------------------------------------------------------------------------
(* import_directory *)

Start ==
  /\ ~alive
  /\ runs < MaxRuns
  /\ runs' = runs + 1
  /\ dry' \in DryRuns
  /\ alive' = TRUE
  /\ pc' = [a \in Archives |-> "queued"]
  /\ left' = Contents
  /\ tally' = [a \in Archives |-> NoTally]
  /\ results' = [u \in Mailboxes |-> "none"]
  /\ UNCHANGED <<store, request, unheard, faults>>

Recording(k) == {a \in Archives : pc[a] = "record" /\ key(a) = k}

\* The process is killed, and what it held in memory is gone: an import that is not
\* yet recorded is forgotten.
Crash ==
  /\ alive
  /\ alive' = FALSE
  /\ pc' = [a \in Archives |-> "queued"]
  /\ left' = [a \in Archives |-> <<>>]
  /\ request' = [a \in Archives |-> 0]
  /\ tally' = [a \in Archives |-> NoTally]
  /\ results' = [u \in Mailboxes |-> "none"]
  /\ unheard' = [k \in Keys |-> unheard[k] + Cardinality(Recording(k))]
  /\ UNCHANGED <<store, dry, faults, runs>>

\* Where a thread is once it has asked the items table for the entry at hand
Past == {"simulate", "post", "record", "fail"}

Busy == {a \in Archives : pc[a] \in {"entry"} \union Past}

\* A thread of the pool takes an archive.
Take(a) ==
  /\ alive
  /\ pc[a] = "queued"
  /\ Cardinality(Busy) < Pool
  /\ Goto(a, "entry")
  /\ UNCHANGED <<store, dry, alive, left, request, tally, results, unheard, faults, runs>>

\* Mutant: what was handled is all that counts.
StatusOfHandled(t) == IF t.synced + t.skipped + t.failed > 0 THEN "SUCCESS" ELSE "PARTIAL"

Status(t) == IF t.failed = 0 THEN "SUCCESS" ELSE "PARTIAL"

\* as_completed: one result per mailbox, the last one stays.
Report(a) ==
  /\ pc[a] \in {"ended", "broken"}
  /\ results' = [results EXCEPT ![Mailbox[a]] =
                   IF pc[a] = "broken" THEN "FAILED" ELSE Status(tally[a])]
  /\ Goto(a, "reported")
  /\ UNCHANGED <<store, dry, alive, left, request, tally, unheard, faults, runs>>

Finish ==
  /\ alive
  /\ \A a \in Archives : pc[a] = "reported"
  /\ alive' = FALSE
  /\ UNCHANGED <<store, dry, pc, left, request, tally, results, unheard, faults, runs>>

-----------------------------------------------------------------------------
(* import_user_zip *)

\* The entry is settled, in the tally field f.
Settle(a, f) ==
  /\ tally' = [tally EXCEPT ![a][f] = @ + 1]
  /\ left' = [left EXCEPT ![a] = Tail(@)]
  /\ Goto(a, "entry")

End(a) ==
  /\ pc[a] = "entry"
  /\ left[a] = <<>>
  /\ Goto(a, "ended")
  /\ UNCHANGED <<store, dry, alive, left, request, tally, results, unheard, faults, runs>>

\* A broken archive, or a store that raises outside the try of an import.
Break(a) ==
  /\ pc[a] \in {"entry", "simulate", "fail"}
  /\ Goto(a, "broken")
  /\ UNCHANGED <<store, dry, alive, left, request, tally, results, unheard, faults, runs>>

\* Mutant: the items table is not asked.
SkipsNothing(k) == FALSE

\* is_item_synced: the status, whatever the destination.
Skips(k) == row[k] \in {"SYNCED", "SIMULATED"}

\* What a thread sees here may be out of date when it writes: with two archives of
\* one mailbox another thread can be at the same message.
Entry(a) ==
  /\ pc[a] = "entry"
  /\ left[a] # <<>>
  /\ IF Skips(key(a))
       THEN Settle(a, "skipped")
       ELSE Goto(a, IF dry THEN "simulate" ELSE "post") /\ UNCHANGED <<left, tally>>
  /\ UNCHANGED <<store, dry, alive, request, results, unheard, faults, runs>>

\* record_item_sync: INSERT OR REPLACE, whatever the row has become
Put(a, s) == row' = [row EXCEPT ![key(a)] = s]

Simulate(a) ==
  /\ pc[a] = "simulate"
  /\ Put(a, "SIMULATED")
  /\ Settle(a, "synced")
  /\ UNCHANGED <<copies, dry, alive, request, results, unheard, faults, runs>>

\* import_message is left, and with it the count of its requests.
Leave(a, l) == Goto(a, l) /\ request' = [request EXCEPT ![a] = 0]

PostAnswered(a) ==
  /\ pc[a] = "post"
  /\ copies' = [copies EXCEPT ![key(a)] = @ + 1]
  /\ Leave(a, "record")
  /\ UNCHANGED <<row, dry, alive, left, tally, results, unheard, faults, runs>>

\* Mutant: the insert is tried for ever.
EndlessRequest(n) == IF n + 1 = 2 * MaxRequests THEN {MaxRequests} ELSE {n + 1}

\* The requests that may follow the n-th failure, none when the exception is raised:
\* those of the import, then, unless the network failed, those of the insert.
NextRequest(n) == IF n + 1 = 2 * MaxRequests THEN {} ELSE {n + 1}
MayRaise(n) == n + 1 \in {MaxRequests, 2 * MaxRequests}

PostRaises(a) ==
  \/ /\ request' \in {[request EXCEPT ![a] = n] : n \in NextRequest(request[a])}
     /\ UNCHANGED pc
  \/ /\ MayRaise(request[a])
     /\ Leave(a, "fail")

PostRefused(a) ==
  /\ pc[a] = "post"
  /\ PostRaises(a)
  /\ UNCHANGED <<store, dry, alive, left, tally, results, unheard, faults, runs>>

PostUnheard(a) ==
  /\ pc[a] = "post"
  /\ faults < MaxFaults
  /\ faults' = faults + 1
  /\ PostRaises(a)
  /\ copies' = [copies EXCEPT ![key(a)] = @ + 1]
  /\ unheard' = [unheard EXCEPT ![key(a)] = @ + 1]
  /\ UNCHANGED <<row, dry, alive, left, tally, results, runs>>

Record(a) ==
  /\ pc[a] = "record"
  /\ Put(a, "SYNCED")
  /\ Settle(a, "synced")
  /\ UNCHANGED <<copies, dry, alive, request, results, unheard, faults, runs>>

\* The store raises inside the try of the import: the entry counts as failed.
RecordRaises(a) ==
  /\ pc[a] = "record"
  /\ Goto(a, "fail")
  /\ unheard' = [unheard EXCEPT ![key(a)] = @ + 1]
  /\ UNCHANGED <<store, dry, alive, left, request, tally, results, faults, runs>>

Fail(a) ==
  /\ pc[a] = "fail"
  /\ Put(a, "FAILED")
  /\ Settle(a, "failed")
  /\ UNCHANGED <<copies, dry, alive, request, results, unheard, faults, runs>>

ArchiveStep(a) ==
  \/ Take(a) \/ Report(a) \/ End(a) \/ Break(a) \/ Entry(a) \/ Simulate(a)
  \/ PostAnswered(a) \/ PostRefused(a) \/ PostUnheard(a)
  \/ Record(a) \/ RecordRaises(a) \/ Fail(a)

Terminated == ~alive /\ runs = MaxRuns /\ UNCHANGED vars

Next ==
  \/ Start \/ Crash \/ Finish \/ Terminated
  \/ \E a \in Archives : ArchiveStep(a)

Spec == Init /\ [][Next]_vars

\* The threads of the pool run, and requests have timeouts; archives wait for a
\* thread of the pool, and are taken when one is free.
FairSpec ==
  /\ Spec
  /\ \A a \in Archives : WF_vars(ArchiveStep(a))
  /\ WF_vars(Finish)

-----------------------------------------------------------------------------
(* Properties *)

Siblings(a) == {b \in Archives \ {a} : Mailbox[b] = Mailbox[a]}

\* One archive of a mailbox, as the export makes them
Alone(u) == \A a \in Archives : Mailbox[a] = u => Siblings(a) = {}

\* Of the archive a this run has been through an entry of message m.
Through(a, m) == \E j \in 1 .. Len(Contents[a]) - Len(left[a]) : Contents[a][j] = m

Accounted(k) == unheard[k] + Cardinality(Recording(k)) + (IF row[k] = "SYNCED" THEN 1 ELSE 0)

\* What is recorded as imported, about to be, or of an import that was forgotten, is
\* in Gmail, over all runs and whatever the other threads do; and nothing else is in
\* a mailbox that has one archive.
CopiesExplained ==
  \A k \in Keys : copies[k] >= Accounted(k) /\ (Alone(k[1]) => copies[k] = Accounted(k))

\* SUCCESS is reported for a mailbox of one archive only when everything in it is
\* recorded, in this run or an earlier one.
SuccessIsComplete ==
  \A a \in Archives :
    Siblings(a) = {} /\ results[Mailbox[a]] = "SUCCESS" /\ pc[a] = "reported" =>
      \A m \in ToSet(Contents[a]) : Skips(<<Mailbox[a], m>>)

\* Who can make an imported message a failed one, or import it again: a thread that
\* looked at the items table before, while the thread of another archive of the same
\* mailbox went through the message. No failure, retry, crash or later run does it.
OnlySiblingsTakeBack ==
  [][\A k \in Keys :
       row[k] = "SYNCED" /\ (row'[k] # "SYNCED" \/ copies'[k] # copies[k]) =>
         \E a \in Archives : /\ pc[a] \in Past /\ key(a) = k
                             /\ \E b \in Siblings(a) : Through(b, k[2])]_vars

\* Every import ends, and every mailbox gets its result, or the process is killed.
ImportEnds == alive ~> ~alive

\* "Idempotent and resumable ... (SHA-256 / Message-ID deduplication)": no message
\* is in a mailbox twice when every import was answered and recorded.
NoDuplicates == \A k \in Keys : copies[k] <= 1 + unheard[k]

\* What a synced row says: the message is not taken back by anybody.
SyncedIsFinal ==
  [][\A k \in Keys : row[k] = "SYNCED" => row'[k] = "SYNCED" /\ copies'[k] = copies[k]]_vars

\* "status": "SUCCESS" of a mailbox: everything in all its archives is recorded.
SuccessIsForAll ==
  \A a \in Archives : results[Mailbox[a]] = "SUCCESS" /\ pc[a] = "reported" =>
    \A m \in ToSet(Contents[a]) : Skips(<<Mailbox[a], m>>)

\* The same line: what a later run skips has been imported.
SkippedIsImported == \A k \in Keys : Skips(k) => copies[k] > 0
=============================================================================
