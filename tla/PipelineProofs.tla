----------------------------- MODULE PipelineProofs -----------------------------
(***************************************************************************)
(* Proofs about Pipeline, for any users, folders, page size and number of  *)
(* runs: the accounting of the copies, and the implementation of the same  *)
(* ledger that the agents implement, so that the two may take turns on one *)
(* store; and that a run in which nothing fails delivers everything.       *)
(***************************************************************************)
EXTENDS Pipeline, TLAPS, SequenceTheorems

StoreTyped ==
  /\ row \in [Items -> {"none", "SYNCED", "FAILED"}]
  /\ copies \in [Items -> Nat]
  /\ unheard \in [Items -> Nat]

\* From is_item_synced to its row an item is not recorded SYNCED.
WorkInv == pc \in {"insert", "record", "fail"} => row[item] # "SYNCED"

IInv == StoreTyped /\ WorkInv /\ CopiesExplained

\* One more of an item is a count again.
LEMMA OneMore ==
  ASSUME NEW counts \in [Items -> Nat]
  PROVE  [counts EXCEPT ![item] = @ + 1] \in [Items -> Nat]
<1>1. CASE item \in Items
  BY <1>1
<1>2. CASE item \notin Items
  <2>1. [counts EXCEPT ![item] = @ + 1] = counts
    BY <1>2
  <2> QED
    BY <2>1
<1> QED
  BY <1>1, <1>2

\* Between items the accounts are left alone.
LEMMA LoopSteps ==
  ASSUME IInv,
         Start \/ NextStage \/ Provision \/ NextUser \/ UserDone \/ NextFolder \/ List \/ PageDone \/ Look
  PROVE  IInv'
<1>1. UNCHANGED <<row, copies, unheard>>
  BY DEF Start, NextStage, Provision, NextUser, UserDone, NextFolder, List, PageDone, Look, store, histories
<1>2. pc # "record" /\ pc' # "record"
  BY DEF Start, Running, NextStage, Provision, NextUser, UserDone, NextFolder, List, PageDone, Look, FolderDone
<1>3. pc' \in {"insert", "fail"} => row[item] # "SYNCED" /\ item' = item
  BY DEF Start, Running, NextStage, Provision, NextUser, UserDone, NextFolder, List, PageDone, Look,
    FolderDone, Skips, item
<1> QED
  BY <1>1, <1>2, <1>3 DEF IInv, StoreTyped, WorkInv, CopiesExplained, Accounted

\* The item at hand: its copy is recorded, or remembered as forgotten.
LEMMA ItemSteps ==
  ASSUME IInv, Break \/ Insert \/ InsertUnheard \/ InsertRefused \/ Record \/ RecordRaises \/ Fail
  PROVE  IInv'
<1> USE DEF IInv, StoreTyped, WorkInv, CopiesExplained, Accounted, store, place
<1>0. page' = page => item' = item
  BY DEF item
<1>1. CASE Insert
  <2>1. /\ pc = "insert" /\ pc' = "record" /\ item' = item /\ UNCHANGED <<row, unheard>>
        /\ copies' = [copies EXCEPT ![item] = @ + 1]
    BY <1>0, <1>1 DEF Insert, histories
  <2>2. StoreTyped' /\ WorkInv'
    BY <2>1, OneMore
  <2>3. ASSUME NEW i \in Items
        PROVE  copies'[i] = unheard'[i] + (IF Accounted(i)' THEN 1 ELSE 0)
    <3>1. CASE i = item
      BY <2>1, <3>1
    <3>2. CASE i # item
      BY <2>1, <3>2
    <3> QED
      BY <3>1, <3>2
  <2> QED
    BY <2>2, <2>3
<1>2. CASE InsertUnheard
  <2>1. /\ pc = "insert" /\ pc' \in {"insert", "fail"} /\ item' = item /\ UNCHANGED row
        /\ copies' = [copies EXCEPT ![item] = @ + 1] /\ unheard' = [unheard EXCEPT ![item] = @ + 1]
    BY <1>0, <1>2 DEF InsertUnheard
  <2>2. StoreTyped' /\ WorkInv'
    BY <2>1, OneMore
  <2>3. ASSUME NEW i \in Items
        PROVE  copies'[i] = unheard'[i] + (IF Accounted(i)' THEN 1 ELSE 0)
    <3>1. CASE i = item
      BY <2>1, <3>1
    <3>2. CASE i # item
      BY <2>1, <3>2
    <3> QED
      BY <3>1, <3>2
  <2> QED
    BY <2>2, <2>3
<1>3. CASE Break \/ RecordRaises
  <2>1. /\ pc' \in {"aborted", "fail"} /\ UNCHANGED <<row, copies>> /\ (pc' = "fail" => pc = "record" /\ item' = item)
        /\ unheard' = IF pc = "record" THEN [unheard EXCEPT ![item] = @ + 1] ELSE unheard
    BY <1>0, <1>3 DEF Break, RecordRaises, Forgotten
  <2>2. StoreTyped' /\ WorkInv'
    BY <2>1, OneMore
  <2>3. ASSUME NEW i \in Items
        PROVE  copies'[i] = unheard'[i] + (IF Accounted(i)' THEN 1 ELSE 0)
    <3>1. CASE i = item
      BY <2>1, <3>1
    <3>2. CASE i # item
      BY <2>1, <3>2
    <3> QED
      BY <3>1, <3>2
  <2> QED
    BY <2>2, <2>3
<1>4. CASE InsertRefused
  BY <1>0, <1>4 DEF InsertRefused
<1>5. CASE Record
  BY <1>5 DEF Record, Settle, histories
<1>6. CASE Fail
  BY <1>6 DEF Fail, Settle, histories
<1> QED
  BY <1>1, <1>2, <1>3, <1>4, <1>5, <1>6

\* The inductive invariant holds in every reachable state.
THEOREM Inductive == Spec => []IInv
<1>1. Init => IInv
  BY DEF Init, IInv, StoreTyped, WorkInv, CopiesExplained, Accounted
<1>2. IInv /\ [Next]_vars => IInv'
  <2> SUFFICES ASSUME IInv, [Next]_vars PROVE IInv'
    OBVIOUS
  <2>1. CASE UNCHANGED vars
    BY <2>1 DEF vars, IInv, StoreTyped, WorkInv, CopiesExplained, Accounted, item
  <2>2. CASE Next
    BY <2>1, <2>2, LoopSteps, ItemSteps DEF Next, Terminated
  <2> QED
    BY <2>1, <2>2
<1> QED
  BY <1>1, <1>2, PTL DEF Spec

\* Every copy is recorded, about to be, or one the pipeline forgot.
THEOREM CopiesAccounted == Spec => []CopiesExplained
<1>1. IInv => CopiesExplained
  BY DEF IInv
<1> QED
  BY <1>1, Inductive, PTL

-----------------------------------------------------------------------------
\* Each step is a step of the ledger or leaves it alone.
LEMMA LedgerStep ==
  ASSUME IInv, [Next]_vars
  PROVE  [Ledger!Next]_(Ledger!vars)
<1> USE DEF Ledger!vars
<1>1. CASE item \notin Items
  <2>1. UNCHANGED <<row, copies>>
    BY <1>1 DEF IInv, StoreTyped, Next, Terminated, Start, Break, NextStage, Provision, NextUser, UserDone, NextFolder,
      List, PageDone, Look, Insert, InsertUnheard, InsertRefused, Record, RecordRaises, Fail, Settle, store, vars
  <2> QED
    BY <2>1
<1>2. CASE item \in Items /\ (Insert \/ InsertUnheard)
  <2>1. Ledger!Deliver(item)
    BY <1>2 DEF IInv, WorkInv, Insert, InsertUnheard, Ledger!Deliver
  <2> QED
    BY <1>2, <2>1 DEF Ledger!Next
<1>3. CASE item \in Items /\ Record
  <2>1. copies[item] > 0
    BY <1>3 DEF Record, IInv, StoreTyped, CopiesExplained, Accounted
  <2>2. Ledger!Confirm(item)
    BY <1>3, <2>1 DEF IInv, WorkInv, Record, Settle, Ledger!Confirm
  <2> QED
    BY <1>3, <2>2 DEF Ledger!Next
<1>4. CASE item \in Items /\ Fail
  <2>1. Ledger!Reject(item)
    BY <1>4 DEF IInv, WorkInv, Fail, Settle, Ledger!Reject
  <2> QED
    BY <1>4, <2>1 DEF Ledger!Next
<1>5. CASE ~(Insert \/ InsertUnheard \/ Record \/ Fail)
  BY <1>5 DEF Next, Terminated, Start, Break, NextStage, Provision, NextUser, UserDone, NextFolder, List,
    PageDone, Look, InsertRefused, RecordRaises, store, vars
<1> QED
  BY <1>1, <1>2, <1>3, <1>4, <1>5

\* The pipeline implements the ledger of the agents.
THEOREM Refinement == Spec => ImplementsLedger
<1>1. Init => Ledger!Init
  BY DEF Init, Ledger!Init
<1> QED
  BY <1>1, LedgerStep, Inductive, PTL DEF Spec, ImplementsLedger, Ledger!Spec

\* What a later run of either skips has been delivered.
THEOREM RowsAreDelivered == Spec => []Ledger!SyncedIsDelivered
<1>1. IInv => Ledger!SyncedIsDelivered
  BY DEF IInv, StoreTyped, CopiesExplained, Accounted, Ledger!SyncedIsDelivered
<1> QED
  BY <1>1, Inductive, PTL

-----------------------------------------------------------------------------
(* What a clean run has delivered *)

Clean == ~rehearsed /\ ~troubles
Synced(i) == row[i] = "SYNCED"
\* The first n items of a folder are recorded
Upto(f, n) == \A k \in 1 .. n : Synced(Box[f][k])
Delivered(f) == Upto(f, Len(Box[f]))

\* The stages a run has left behind
Passed ==
  CASE stage = "contacts" -> {"calendar"}
    [] stage = "mailbox" -> {"calendar", "contacts"}
    [] stage = "done" -> {"calendar", "contacts", "mailbox"}
    [] OTHER -> {}

\* Where the page at hand ends
PageEnd ==
  IF stage = "mailbox" /\ start + Limit - 1 < Len(Box[folder]) THEN start + Limit - 1
                                                              ELSE Len(Box[folder])

InUser == {"folder", "page", "item", "insert", "record", "fail"}
InPage == {"item", "insert", "record", "fail"}

PlaceTyped ==
  /\ stage \in ToSet(Stages) /\ (pc = "done" => stage = "done")
  /\ pc \in {"user"} \union InUser => stage # "done"
  /\ pc \in InUser => stage # "provision"
  /\ start \in Nat \ {0} /\ page \in Seq(Items)
  /\ folders \subseteq Folders /\ (pc \in InUser \ {"folder"} => folder \in Folders)
  /\ pc \in {"insert", "record", "fail"} => page # <<>>

\* A run that never met a dry run takes real labels.
Unrehearsed ==
  /\ label \in [Folders -> Labels]
  /\ ~rehearsed => ~dry /\ \A f \in Folders : label[f] # "fake"

\* The folders that are done: those of the stages passed, of the users passed, and
\* of this user those not left.
FoldersDone ==
  Clean /\ pc \in {"user", "done"} \union InUser =>
    /\ \A f \in Folders : Owner[f] \in Mailboxes /\ Stage[f] \in Passed => Delivered(f)
    /\ \A f \in Folders : Owner[f] \in Mailboxes \ left /\ Stage[f] = stage => Delivered(f)
    /\ pc \in InUser =>
         user \in left /\ \A f \in FoldersOf(user) \ folders : Delivered(f)

\* Of the folder at hand, everything before the page, and of the page what is not in
\* the rest of it; an item that failed was a trouble.
PageDelivered ==
  Clean =>
    /\ pc = "page" => Upto(folder, IF start <= Len(Box[folder]) THEN start - 1 ELSE Len(Box[folder]))
    /\ pc \in InPage =>
         /\ Len(page) <= PageEnd
         /\ Upto(folder, PageEnd - Len(page))
         /\ \A k \in 1 .. Len(page) : page[k] = Box[folder][PageEnd - Len(page) + k]
         /\ PageEnd < Len(Box[folder]) => full /\ PageEnd = start + Limit - 1
         /\ full => stage = "mailbox" /\ start + Limit - 1 <= Len(Box[folder])
    /\ pc # "fail"

DInv == PlaceTyped /\ Unrehearsed /\ FoldersDone /\ PageDelivered

\* The stages by name
LEMMA StageNames ==
  ASSUME NEW s
  PROVE  s \in ToSet(Stages) <=> s \in {"provision", "calendar", "contacts", "mailbox", "done"}
<1>1. Len(Stages) = 5 /\ DOMAIN Stages = 1 .. 5
  BY DEF Stages
<1>2. \A i \in 1 .. 5 : i = 1 \/ i = 2 \/ i = 3 \/ i = 4 \/ i = 5
  OBVIOUS
<1>3. /\ Stages[1] = "provision" /\ Stages[2] = "calendar" /\ Stages[3] = "contacts"
      /\ Stages[4] = "mailbox" /\ Stages[5] = "done"
  BY DEF Stages
<1> QED
  BY <1>1, <1>2, <1>3 DEF ToSet

\* The stage after a stage, and what a run that gets there has passed
LEMMA StageAfter ==
  ASSUME NextStage, stage \in ToSet(Stages), stage # "done"
  PROVE  /\ stage = "provision" => stage' = "calendar"
         /\ stage = "calendar" => stage' = "contacts"
         /\ stage = "contacts" => stage' = "mailbox"
         /\ stage = "mailbox" => stage' = "done"
<1> DEFINE after(i) == i \in 2 .. Len(Stages) /\ Stages[i - 1] = stage
<1>1. Len(Stages) = 5
  BY DEF Stages
<1>2. \A i \in 2 .. 5 : i = 2 \/ i = 3 \/ i = 4 \/ i = 5
  OBVIOUS
<1>3. /\ Stages[1] = "provision" /\ Stages[2] = "calendar" /\ Stages[3] = "contacts"
      /\ Stages[4] = "mailbox" /\ Stages[5] = "done"
  BY DEF Stages
<1>4. PICK i \in 2 .. 5 : Stages[i - 1] = stage
  <2>1. Stages[2 - 1] = "provision" /\ Stages[3 - 1] = "calendar" /\ Stages[4 - 1] = "contacts" /\ Stages[5 - 1] = "mailbox"
    BY <1>3
  <2> QED
    BY <2>1, StageNames
<1>5. PICK n \in 2 .. 5 : Stages[n - 1] = stage /\ stage' = Stages[n]
  BY <1>1, <1>4 DEF NextStage
<1> QED
  BY <1>2, <1>3, <1>5

\* A page begins and ends within its folder.
LEMMA Numbers ==
  ASSUME PlaceTyped, folder \in Folders
  PROVE  /\ Box[folder] \in Seq(Items) /\ Len(Box[folder]) \in Nat
         /\ start \in Nat \ {0} /\ Limit \in Nat \ {0} /\ Len(page) \in Nat
         /\ PageEnd \in Nat /\ PageEnd <= Len(Box[folder])
  BY BoxAssumption, BoundsAssumption DEF PlaceTyped, PageEnd

\* A sequence of items without one of them
LEMMA Removed ==
  ASSUME NEW s \in Seq(Items), NEW i \in DOMAIN s
  PROVE  RemoveAt(s, i) \in Seq(Items)
<1>1. Len(s) \in Nat /\ i \in 1 .. Len(s)
  BY LenProperties
<1>2. \A k \in 1 .. Len(s) : s[k] \in Items
  BY ElementOfSeq
<1>3. SubSeq(s, 1, i - 1) \in Seq(Items) /\ SubSeq(s, i + 1, Len(s)) \in Seq(Items)
  BY <1>1, <1>2, SubSeqProperties
<1> QED
  BY <1>3, ConcatProperties DEF RemoveAt

\* A page that was listed without trouble runs from its start to where it ends; it is
\* empty behind the last item only.
LEMMA Listed ==
  ASSUME PlaceTyped, List
  PROVE  /\ page' \in Seq(Items)
         /\ ~troubles' /\ page' = <<>> => start > Len(Box[folder])
         /\ ~troubles' /\ page' # <<>> =>
              /\ Len(page') = PageEnd - start + 1 /\ start <= PageEnd
              /\ \A k \in 1 .. Len(page') : page'[k] = Box[folder][start - 1 + k]
<1> DEFINE all == Box[folder]
<1>1. folder \in Folders /\ pc = "page"
  BY DEF PlaceTyped, List, InUser
<1>2. all \in Seq(Items) /\ Len(all) \in Nat /\ start \in Nat \ {0} /\ PageEnd \in Nat /\ PageEnd <= Len(all)
  BY <1>1, Numbers
<1>3. Whole = SubSeq(all, start, PageEnd)
  <2>1. CASE stage = "mailbox"
    <3>1. start + Limit - 1 \in Nat
      BY <1>1, Numbers
    <3>2. Min({start + Limit - 1, Len(all)}) = PageEnd
      BY <1>2, <2>1, <3>1 DEF Min, PageEnd
    <3> QED
      BY <2>1, <3>2 DEF Whole
  <2>2. CASE stage # "mailbox"
    BY <2>2 DEF Whole, PageEnd
  <2> QED
    BY <2>1, <2>2
<1>4. \A k \in start .. PageEnd : all[k] \in Items
  BY <1>2, ElementOfSeq
<1>5. start <= PageEnd \/ start > Len(all)
  BY <1>1, <1>2, Numbers DEF PageEnd
<1> HIDE DEF all
<1>6. /\ Whole \in Seq(Items)
      /\ Len(Whole) = IF start <= PageEnd THEN PageEnd - start + 1 ELSE 0
      /\ \A k \in 1 .. PageEnd - start + 1 : Whole[k] = all[start + k - 1]
  BY <1>2, <1>3, <1>4, SubSeqProperties
<1>7. page' \in Seq(Items)
  <2>1. \/ page' = Whole
        \/ page' = <<>>
        \/ \E i \in DOMAIN Whole : page' = RemoveAt(Whole, i)
    BY Zenon DEF List
  <2> QED
    BY <1>6, <2>1, Removed, EmptySeq
<1>8. ~troubles' => page' = Whole
  BY Zenon DEF List
<1>9. ASSUME ~troubles', page' = <<>>
      PROVE  start > Len(all)
  <2>1. Len(Whole) = 0
    BY <1>8, <1>9, EmptySeq
  <2> QED
    BY <1>2, <1>5, <1>6, <2>1
<1>10. ASSUME ~troubles', page' # <<>>
       PROVE  Len(page') = PageEnd - start + 1 /\ start <= PageEnd
  BY <1>2, <1>6, <1>8, <1>10, EmptySeq
<1>11. ASSUME ~troubles', page' # <<>>, NEW k \in 1 .. Len(page')
       PROVE  page'[k] = all[start - 1 + k]
  <2>1. page' = Whole /\ k \in 1 .. PageEnd - start + 1
    BY <1>8, <1>10, <1>11
  <2>2. start + k - 1 = start - 1 + k
    BY <1>2, <2>1
  <2> QED
    BY <1>6, <2>1, <2>2
<1> QED
  BY <1>7, <1>9, <1>10, <1>11 DEF all

\* A run keeps to its stages, and the page at hand is of items.
LEMMA PlaceStep ==
  ASSUME PlaceTyped, [Next]_vars
  PROVE  PlaceTyped'
<1> USE DEF PlaceTyped, InUser, store, place, histories
<1>1. CASE Start
  BY <1>1, StageNames DEF Start, Running
<1>2. CASE NextStage
  <2>1. stage' \in {"calendar", "contacts", "mailbox", "done"} /\ stage' \in ToSet(Stages)
    BY <1>2, StageAfter, StageNames DEF NextStage
  <2> QED
    BY <1>2, <2>1 DEF NextStage
<1>3. CASE Break \/ Provision
  BY <1>3, EmptySeq DEF Break, Running, Provision
<1>0. CASE NextUser \/ UserDone
  BY <1>0 DEF NextUser, FoldersOf, UserDone
<1>4. CASE NextFolder
  <2>1. folder' \in Folders
    BY <1>4 DEF NextFolder
  <2> QED
    BY <1>4, <2>1 DEF NextFolder
<1>5. CASE List
  BY <1>5, Listed DEF List, FolderDone
<1>6. CASE PageDone
  BY <1>6, BoundsAssumption DEF PageDone, FolderDone, NextStart
<1>7. CASE Look \/ Insert \/ InsertUnheard \/ InsertRefused \/ Record \/ RecordRaises \/ Fail
  <2>1. page' = page \/ (page # <<>> /\ page' = Tail(page))
    <3>1. CASE Look
      BY <3>1 DEF Look
    <3>2. CASE Record \/ Fail
      BY <3>2 DEF Record, Fail, Settle
    <3>3. CASE Insert \/ InsertUnheard \/ InsertRefused \/ RecordRaises
      BY <3>3 DEF Insert, InsertUnheard, InsertRefused, RecordRaises
    <3> QED
      BY <1>7, <3>1, <3>2, <3>3
  <2>2. page' \in Seq(Items)
    BY <2>1, HeadTailProperties
  <2>3. pc \in {"item", "insert", "record", "fail"} /\ pc' \in {"item", "insert", "record", "fail"}
    BY <1>7 DEF Look, Insert, InsertUnheard, InsertRefused, Record, RecordRaises, Fail, Settle
  <2>4. pc' # "item" => page # <<>> /\ page' = page
    BY <1>7 DEF Look, Insert, InsertUnheard, InsertRefused, Record, RecordRaises, Fail, Settle
  <2>5. UNCHANGED <<stage, folder, folders, start>>
    BY <1>7 DEF Look, Insert, InsertUnheard, InsertRefused, Record, RecordRaises, Fail, Settle
  <2> QED
    BY <2>2, <2>3, <2>4, <2>5
<1>8. CASE UNCHANGED vars
  BY <1>8 DEF vars
<1> QED
  BY <1>0, <1>1, <1>2, <1>3, <1>4, <1>5, <1>6, <1>7, <1>8 DEF Next, Terminated

\* A store that never saw a dry run holds no made-up label.
LEMMA LabelStep ==
  ASSUME Unrehearsed, [Next]_vars
  PROVE  Unrehearsed'
<1>1. CASE NextFolder
  <2>1. /\ UNCHANGED <<dry, rehearsed>>
        /\ label' = label \/ label' = [label EXCEPT ![folder'] = NewLabel]
    BY <1>1 DEF NextFolder, histories
  <2>2. NewLabel \in Labels /\ (~dry => NewLabel # "fake")
    BY DEF NewLabel, Labels
  <2> QED
    BY <2>1, <2>2 DEF Unrehearsed
<1>2. CASE Start
  BY <1>2 DEF Start, store, Unrehearsed
<1>3. CASE ~NextFolder /\ ~Start
  <2>1. UNCHANGED <<label, dry, rehearsed>>
    BY <1>3 DEF Next, Terminated, Break, NextStage, Provision, NextUser, UserDone, List, PageDone,
      Look, Insert, InsertUnheard, InsertRefused, Record, RecordRaises, Fail, store, histories, vars
  <2> QED
    BY <2>1 DEF Unrehearsed
<1> QED
  BY <1>1, <1>2, <1>3

\* Troubles are forgotten at the start of a run only, and dry runs never.
LEMMA CleanStep ==
  ASSUME [Next]_vars, ~Start, Clean'
  PROVE  Clean
<1> USE DEF Clean, store, histories
<1>1. rehearsed' = rehearsed
  BY DEF Next, Terminated, vars, Break, NextStage, Provision, NextUser, UserDone, NextFolder, List,
    PageDone, Look, Insert, InsertUnheard, InsertRefused, Record, RecordRaises, Fail
<1>2. troubles => troubles'
  <2>1. CASE Provision \/ NextUser \/ List \/ InsertRefused
    BY <2>1, Zenon DEF Provision, NextUser, List, InsertRefused
  <2>2. CASE InsertUnheard \/ RecordRaises
    BY <2>2, Zenon DEF InsertUnheard, RecordRaises
  <2>3. CASE ~(Provision \/ NextUser \/ List \/ InsertRefused \/ InsertUnheard \/ RecordRaises)
    BY <2>3 DEF Next, Terminated, vars, Break, NextStage, UserDone, NextFolder, PageDone, Look,
      Insert, Record, Fail
  <2> QED
    BY <2>1, <2>2, <2>3
<1> QED
  BY <1>1, <1>2, Zenon

\* What is recorded SYNCED stays so: only the row of an item that failed is set to
\* something else.
LEMMA RowsKept ==
  ASSUME StoreTyped, [Next]_vars, pc # "fail", NEW f \in Folders, NEW n \in 0 .. Len(Box[f]), Upto(f, n)
  PROVE  Upto(f, n)'
<1>1. ASSUME NEW i \in Items, Synced(i)
      PROVE  Synced(i)'
  <2>1. row' = row \/ row' = [row EXCEPT ![item] = "SYNCED"]
    BY DEF Next, Terminated, vars, store, Start, Break, NextStage, Provision, NextUser, UserDone, NextFolder, List,
      PageDone, Look, Insert, InsertUnheard, InsertRefused, Record, RecordRaises, Fail, Settle
  <2> QED
    BY <1>1, <2>1 DEF Synced, StoreTyped
<1>2. \A k \in 1 .. n : Box[f][k] \in Items
  BY BoxAssumption, ElementOfSeq
<1> QED
  BY <1>1, <1>2 DEF Upto

\* A folder is left when its last page has been gone through.
LEMMA FolderThrough ==
  ASSUME PlaceTyped, PageDelivered, Clean, Clean', (List /\ page' = <<>>) \/ (PageDone /\ ~full)
  PROVE  folder \in Folders /\ Delivered(folder)
<1>1. folder \in Folders
  BY DEF PlaceTyped, InUser, List, PageDone
<1>2. CASE List /\ page' = <<>>
  <2>1. start > Len(Box[folder])
    BY <1>2, Listed DEF Clean
  <2> QED
    BY <1>1, <1>2, <2>1, Numbers DEF PageDelivered, Delivered, List
<1>3. CASE PageDone /\ ~full
  <2>1. /\ Upto(folder, PageEnd - Len(page)) /\ (PageEnd < Len(Box[folder]) => full)
        /\ page = <<>> /\ ~full
    BY <1>3 DEF PageDelivered, InPage, PageDone
  <2>2. PageEnd - Len(page) = Len(Box[folder])
    BY <1>1, <2>1, Numbers, EmptySeq
  <2> QED
    BY <1>1, <2>1, <2>2 DEF Delivered
<1> QED
  BY <1>2, <1>3

\* The folders that are done stay done, and the one just left is done.
LEMMA FoldersStep ==
  ASSUME StoreTyped, PlaceTyped, FoldersDone, PageDelivered, [Next]_vars
  PROVE  FoldersDone'
<1> USE DEF store, place, histories
<1>1. CASE Start
  <2>1. pc' = "user" /\ stage' = "provision"
    BY <1>1 DEF Start
  <2>2. \A f \in Folders : Stage[f] \notin {"provision"}
    BY OwnersAssumption
  <2> QED
    BY <2>1, <2>2 DEF FoldersDone, Passed, InUser
<1>2. CASE ~Start
  <2> SUFFICES ASSUME Clean', pc' \in {"user", "done"} \union InUser
               PROVE  /\ \A f \in Folders : Owner[f] \in Mailboxes /\ Stage[f] \in Passed' => Delivered(f)'
                      /\ \A f \in Folders : Owner[f] \in Mailboxes \ left' /\ Stage[f] = stage' => Delivered(f)'
                      /\ pc' \in InUser =>
                           user' \in left' /\ \A f \in FoldersOf(user)' \ folders' : Delivered(f)'
    BY DEF FoldersDone
  <2>1. Clean
    BY <1>2, CleanStep
  <2>2. pc \in {"user", "done"} \union InUser
    BY <1>2 DEF InUser, Next, Terminated, vars, Break, NextStage, Provision, NextUser, UserDone, NextFolder, List,
      PageDone, FolderDone, Look, Insert, InsertUnheard, InsertRefused, Record, RecordRaises, Fail, Settle
  <2>3. /\ \A f \in Folders : Owner[f] \in Mailboxes /\ Stage[f] \in Passed => Delivered(f)
        /\ \A f \in Folders : Owner[f] \in Mailboxes \ left /\ Stage[f] = stage => Delivered(f)
        /\ pc \in InUser =>
             user \in left /\ \A f \in FoldersOf(user) \ folders : Delivered(f)
    BY <2>1, <2>2 DEF FoldersDone
  <2>4. ASSUME NEW f \in Folders, Delivered(f)
        PROVE  Delivered(f)'
    <3>1. pc # "fail" /\ Len(Box[f]) \in 0 .. Len(Box[f])
      BY <2>1, BoxAssumption DEF PageDelivered
    <3> QED
      BY <2>4, <3>1, RowsKept DEF Delivered
  <2>5. CASE NextStage
    <3>1. pc = "user" /\ left = {} /\ pc' \in {"user", "done"} /\ (left' = Users \/ stage' = "done")
      BY <2>5 DEF NextStage
    <3>2. stage \in ToSet(Stages) /\ stage # "done"
      BY <3>1 DEF PlaceTyped
    <3>3. Passed' \subseteq Passed \union {stage}
      BY <2>5, <3>2, StageAfter, StageNames DEF Passed
    <3>4. \A f \in Folders : Stage[f] # "done" /\ Owner[f] \in Users
      BY OwnersAssumption
    <3> QED
      BY <2>3, <2>4, <3>1, <3>3, <3>4 DEF InUser
  <2>6. CASE Provision
    <3>1. pc' = "user" /\ stage' = stage /\ stage = "provision" /\ Passed' = Passed
      BY <2>6 DEF Provision, Passed
    <3>2. \A f \in Folders : Stage[f] # "provision"
      BY OwnersAssumption
    <3> QED
      BY <2>3, <2>4, <3>1, <3>2 DEF InUser
  <2>7. CASE NextUser
    <3>1. stage' = stage /\ Passed' = Passed /\ pc = "user"
      BY <2>7 DEF NextUser, Passed
    <3>2. PICK u \in left : /\ user' = u
                            /\ \/ u \in Mailboxes /\ left' = left /\ folders' = FoldersOf(u)
                               \/ u \notin Mailboxes /\ left' = left \ {u} /\ pc' = "user"
      <4>1. ~troubles'
        BY DEF Clean
      <4> QED
        BY <2>7, <3>1, <4>1, Zenon DEF NextUser
    <3>3. CASE user' \in Mailboxes
      <4>1. left' = left /\ user' \in left' /\ folders' = FoldersOf(user)'
        BY <3>1, <3>2, <3>3 DEF FoldersOf
      <4> QED
        BY <2>3, <2>4, <3>1, <4>1
    <3>4. CASE user' \notin Mailboxes
      BY <2>3, <2>4, <3>1, <3>2, <3>4 DEF InUser
    <3> QED
      BY <3>3, <3>4
  <2>8. CASE UserDone
    <3>1. /\ stage' = stage /\ Passed' = Passed /\ pc = "folder" /\ folders = {}
          /\ pc' = "user" /\ left' = left \ {user}
      BY <2>8 DEF UserDone, Passed
    <3>2. \A f \in Folders : Owner[f] = user /\ Stage[f] = stage => Delivered(f)
      BY <2>3, <3>1 DEF InUser, FoldersOf
    <3> QED
      BY <2>3, <2>4, <3>1, <3>2 DEF InUser
  <2>9. CASE (List /\ page' = <<>>) \/ (PageDone /\ ~full)
    <3>1. /\ UNCHANGED <<stage, left, user>> /\ Passed' = Passed /\ FoldersOf(user)' = FoldersOf(user)
          /\ pc \in InUser /\ folders' = folders \ {folder}
      BY <2>9 DEF List, PageDone, FolderDone, Passed, FoldersOf, InUser
    <3>2. Delivered(folder) /\ folder \in Folders
      BY <2>1, <2>9, FolderThrough
    <3> QED
      BY <2>3, <2>4, <3>1, <3>2 DEF FoldersOf
  <2>10. CASE ~(NextStage \/ Provision \/ NextUser \/ UserDone) /\ ~((List /\ page' = <<>>) \/ (PageDone /\ ~full))
    <3>1. ~Break
      BY DEF Break, InUser
    <3>2. UNCHANGED <<stage, left, user, folders>> /\ (pc' \in InUser => pc \in InUser)
      BY <1>2, <2>10, <3>1 DEF Next, Terminated, vars, NextFolder, List, PageDone, FolderDone,
        Look, Insert, InsertUnheard, InsertRefused, Record, RecordRaises, Fail, Settle, InUser
    <3>3. Passed' = Passed /\ FoldersOf(user)' = FoldersOf(user) /\ FoldersOf(user) \subseteq Folders
      BY <3>2 DEF Passed, FoldersOf
    <3> QED
      BY <2>3, <2>4, <3>2, <3>3
  <2> QED
    BY <2>5, <2>6, <2>7, <2>8, <2>9, <2>10
<1> QED
  BY <1>1, <1>2

\* The page at hand is gone through item by item, and none is left out between pages.
LEMMA PageStep ==
  ASSUME StoreTyped, PlaceTyped, Unrehearsed, PageDelivered, [Next]_vars
  PROVE  PageDelivered'
<1> USE DEF store, place, histories
<1> SUFFICES ASSUME Clean', pc' \in {"page"} \union InPage
             PROVE  /\ pc' = "page" => Upto(folder, IF start <= Len(Box[folder]) THEN start - 1 ELSE Len(Box[folder]))'
                    /\ pc' \in InPage =>
                         /\ Len(page') <= PageEnd'
                         /\ Upto(folder, PageEnd - Len(page))'
                         /\ \A k \in 1 .. Len(page') : page'[k] = Box[folder'][PageEnd' - Len(page') + k]
                         /\ PageEnd' < Len(Box[folder']) => full' /\ PageEnd' = start' + Limit - 1
                         /\ full' => stage' = "mailbox" /\ start' + Limit - 1 <= Len(Box[folder'])
                    /\ pc' # "fail"
  BY DEF PageDelivered, InPage
<1>1. ~Start /\ ~Break
  BY DEF Start, Break, InPage
<1>2. Clean
  BY <1>1, CleanStep
<1>3. /\ pc = "page" => Upto(folder, IF start <= Len(Box[folder]) THEN start - 1 ELSE Len(Box[folder]))
      /\ pc \in InPage =>
           /\ Len(page) <= PageEnd
           /\ Upto(folder, PageEnd - Len(page))
           /\ \A k \in 1 .. Len(page) : page[k] = Box[folder][PageEnd - Len(page) + k]
           /\ PageEnd < Len(Box[folder]) => full /\ PageEnd = start + Limit - 1
           /\ full => stage = "mailbox" /\ start + Limit - 1 <= Len(Box[folder])
      /\ pc # "fail"
  BY <1>2 DEF PageDelivered
<1>4. PlaceTyped'
  BY PlaceStep
<1>5. pc' # "fail"
  <2>1. CASE InsertUnheard \/ RecordRaises
    BY <2>1 DEF InsertUnheard, RecordRaises, Clean
  <2>2. CASE InsertRefused
    <3>1. folder \in Folders
      BY <2>2 DEF InsertRefused, PlaceTyped, InUser
    <3>2. Takes
      BY <1>2, <3>1 DEF Unrehearsed, Clean, Takes
    <3> QED
      BY <2>2, <3>2, Zenon DEF InsertRefused, Clean
  <2>3. CASE ~(InsertUnheard \/ RecordRaises \/ InsertRefused)
    BY <1>1, <1>3, <2>3 DEF Next, Terminated, vars, NextStage, Provision, NextUser, UserDone, NextFolder, List,
      PageDone, FolderDone, Look, Insert, Record, Fail, Settle
  <2> QED
    BY <2>1, <2>2, <2>3
<1>6. CASE NextFolder
  <2>1. pc' = "page" /\ start' = 1 /\ folder' \in Folders
    BY <1>4, <1>6 DEF NextFolder, PlaceTyped, InUser
  <2>2. Len(Box[folder']) \in Nat
    BY <2>1, BoxAssumption
  <2> QED
    BY <2>1, <2>2 DEF Upto, InPage
<1>7. CASE List
  <2>1. /\ pc = "page" /\ folder \in Folders /\ UNCHANGED <<stage, start, folder, row>>
        /\ page' # <<>> /\ pc' = "item"
    BY <1>7 DEF List, PlaceTyped, InUser, FolderDone, InPage
  <2>0. /\ stage = "mailbox" /\ Len(page') = Limit => full'
        /\ full' => stage = "mailbox" /\ Len(page') = Limit
    BY <1>7, Zenon DEF List
  <2>2. PageEnd' = PageEnd /\ Len(page') = PageEnd - start + 1 /\ start <= PageEnd
    BY <1>7, <2>1, Listed DEF PageEnd, Clean
  <2>3. \A k \in 1 .. Len(page') : page'[k] = Box[folder][start - 1 + k]
    BY <1>7, <2>1, Listed DEF Clean
  <2>4. /\ PageEnd \in Nat /\ PageEnd <= Len(Box[folder]) /\ Len(Box[folder]) \in Nat
        /\ start \in Nat \ {0} /\ Limit \in Nat \ {0}
    BY <2>1, Numbers
  <2>5. PageEnd - Len(page') = start - 1 /\ Len(page') <= PageEnd
    BY <2>2, <2>4
  <2>6. Upto(folder, PageEnd - Len(page))'
    BY <1>3, <2>1, <2>2, <2>4, <2>5 DEF Upto, Synced
  <2>7. \A k \in 1 .. Len(page') : page'[k] = Box[folder'][PageEnd' - Len(page') + k]
    BY <2>1, <2>2, <2>3, <2>5
  <2>8. PageEnd' < Len(Box[folder']) => full' /\ PageEnd' = start' + Limit - 1
    BY <2>0, <2>1, <2>2, <2>4 DEF PageEnd
  <2>9. full' => stage' = "mailbox" /\ start' + Limit - 1 <= Len(Box[folder'])
    BY <2>0, <2>1, <2>2, <2>4
  <2> QED
    BY <1>5, <2>1, <2>2, <2>5, <2>6, <2>7, <2>8, <2>9
<1>8. CASE PageDone
  <2>1. /\ pc = "item" /\ page = <<>> /\ full /\ folder \in Folders /\ pc' = "page"
        /\ start' = start + Limit /\ UNCHANGED <<stage, folder, row>>
    BY <1>8 DEF PageDone, NextStart, FolderDone, PlaceTyped, InUser, InPage
  <2>2. /\ PageEnd \in Nat /\ PageEnd <= Len(Box[folder]) /\ Len(Box[folder]) \in Nat
        /\ start \in Nat \ {0} /\ Limit \in Nat \ {0} /\ Len(page) = 0
    BY <2>1, Numbers, EmptySeq
  <2>3. stage = "mailbox" /\ start + Limit - 1 <= Len(Box[folder]) /\ Upto(folder, PageEnd)
    BY <1>3, <2>1, <2>2 DEF InPage
  <2>4. PageEnd = start + Limit - 1
    BY <2>2, <2>3 DEF PageEnd
  <2> QED
    BY <2>1, <2>2, <2>3, <2>4 DEF Upto, Synced, InPage
<1>9. ASSUME pc \in InPage, pc' \in InPage, UNCHANGED <<stage, start, folder, full>>,
             page' = page \/ (page # <<>> /\ page' = Tail(page) /\ row'[item] = "SYNCED")
      PROVE  /\ Len(page') <= PageEnd'
             /\ Upto(folder, PageEnd - Len(page))'
             /\ \A k \in 1 .. Len(page') : page'[k] = Box[folder'][PageEnd' - Len(page') + k]
  <2>1. folder \in Folders /\ PageEnd' = PageEnd
    BY <1>9 DEF PlaceTyped, InUser, InPage, PageEnd
  <2>2. /\ PageEnd \in Nat /\ PageEnd <= Len(Box[folder]) /\ Len(Box[folder]) \in Nat
        /\ Len(page) \in Nat /\ page \in Seq(Items)
    BY <2>1, Numbers DEF PlaceTyped
  <2>3. PICK f \in Folders, n \in 0 .. Len(Box[folder]) : f = folder /\ n = PageEnd - Len(page)
    BY <1>3, <1>9, <2>1, <2>2
  <2>4. \A k \in 1 .. n : Synced(Box[f][k])'
    <3>1. Upto(f, n) /\ n \in 0 .. Len(Box[f])
      BY <1>3, <1>9, <2>3
    <3>2. Upto(f, n)'
      BY <1>3, <3>1, RowsKept
    <3> QED
      BY <3>2 DEF Upto
  <2>5. CASE page' = page
    BY <1>3, <1>9, <2>1, <2>3, <2>4, <2>5 DEF Upto
  <2>6. CASE page # <<>> /\ page' = Tail(page) /\ row'[item] = "SYNCED"
    <3>1. /\ Len(page') = Len(page) - 1 /\ Len(page) \in Nat \ {0}
          /\ \A k \in 1 .. Len(page') : page'[k] = page[k + 1]
      BY <2>2, <2>6, HeadTailProperties, EmptySeq
    <3>2. item = page[1]
      BY <2>2, <2>6 DEF item
    <3>3. item = Box[f][n + 1]
      BY <1>3, <1>9, <2>3, <3>1, <3>2
    <3>4. /\ Len(page') <= PageEnd' /\ PageEnd' - Len(page') = n + 1
          /\ \A k \in 1 .. Len(page') : page'[k] = Box[f][n + 1 + k]
      <4>1. \A k \in 1 .. Len(page') : k + 1 \in 1 .. Len(page)
        BY <3>1
      <4>2. \A k \in 1 .. Len(page) : page[k] = Box[f][n + k]
        BY <1>3, <1>9, <2>3
      <4>3. Len(page') <= PageEnd' /\ PageEnd' - Len(page') = n + 1
        BY <1>3, <1>9, <2>1, <2>2, <2>3, <3>1
      <4>4. ASSUME NEW k \in 1 .. Len(page')
            PROVE  page'[k] = Box[f][n + 1 + k]
        <5>1. page'[k] = page[k + 1] /\ k + 1 \in 1 .. Len(page)
          BY <3>1, <4>1
        <5>2. page[k + 1] = Box[f][n + (k + 1)]
          BY <4>2, <5>1
        <5>3. n + (k + 1) = n + 1 + k
          BY <3>1
        <5> QED
          BY <5>1, <5>2, <5>3
      <4> QED
        BY <4>3, <4>4
    <3>5. \A k \in 1 .. n + 1 : Synced(Box[f][k])'
      <4>1. \A k \in 1 .. n + 1 : k \in 1 .. n \/ k = n + 1
        OBVIOUS
      <4>2. row'[Box[f][n + 1]] = "SYNCED"
        BY <2>6, <3>3
      <4> QED
        BY <2>4, <4>1, <4>2 DEF Synced
    <3> QED
      BY <1>9, <2>3, <3>4, <3>5 DEF Upto
  <2> QED
    BY <1>9, <2>5, <2>6
<1>10. CASE Look \/ Insert \/ Record
  <2>1. pc \in InPage /\ pc' \in InPage /\ UNCHANGED <<stage, start, folder, full>>
    BY <1>10 DEF Look, Insert, Record, Settle, InPage
  <2>2. page' = page \/ (page # <<>> /\ page' = Tail(page) /\ row'[item] = "SYNCED")
    <3>1. CASE Look
      <4>1. ~dry
        BY <1>2 DEF Unrehearsed, Clean
      <4> QED
        BY <3>1, <4>1 DEF Look, Skips, Synced
    <3>2. CASE Insert
      BY <3>2 DEF Insert
    <3>3. CASE Record
      <4>1. page # <<>> /\ item \in Items
        BY <3>3, HeadTailProperties DEF Record, PlaceTyped, item
      <4> QED
        BY <3>3, <4>1 DEF Record, Settle, StoreTyped
    <3> QED
      BY <1>10, <3>1, <3>2, <3>3
  <2> QED
    BY <1>3, <1>5, <1>9, <2>1, <2>2 DEF PageEnd, InPage
<1>11. CASE UNCHANGED vars
  BY <1>3, <1>11 DEF vars, PageEnd, Upto, Synced, InPage
<1> QED
  <2>1. pc' \in {"page"} \union InPage
    OBVIOUS
  <2>2. ~(NextStage \/ Provision \/ NextUser \/ UserDone \/ Fail)
    BY <1>3, <2>1 DEF NextStage, Provision, NextUser, UserDone, Fail, InPage
  <2>3. ~(InsertUnheard \/ InsertRefused \/ RecordRaises)
    <3>1. ~(InsertRefused \/ RecordRaises)
      BY <1>5 DEF InsertRefused, RecordRaises
    <3>2. ~InsertUnheard
      BY DEF InsertUnheard, Clean
    <3> QED
      BY <3>1, <3>2
  <2> QED
    BY <1>1, <1>6, <1>7, <1>8, <1>10, <1>11, <2>2, <2>3 DEF Next, Terminated

\* What a run has delivered, as an invariant of the specification
THEOREM Deliveries == Spec => []DInv
<1>1. Init => DInv
  <2> SUFFICES ASSUME Init PROVE DInv
    OBVIOUS
  <2>1. PlaceTyped
    BY StageNames, EmptySeq DEF Init, PlaceTyped, InUser
  <2>2. Unrehearsed
    BY DEF Init, Unrehearsed, Labels
  <2>3. FoldersDone /\ PageDelivered
    BY DEF Init, FoldersDone, PageDelivered, InUser, InPage
  <2> QED
    BY <2>1, <2>2, <2>3 DEF DInv
<1>2. IInv /\ DInv /\ [Next]_vars => DInv'
  BY PlaceStep, LabelStep, FoldersStep, PageStep DEF DInv, IInv
<1> QED
  BY <1>1, <1>2, Inductive, PTL DEF Spec

\* On a store that never saw a dry run, a run in which nothing fails has every item of
\* the users it has gone through recorded, whatever earlier runs left undone.
THEOREM CleanRuns == Spec => []CleanRunDelivers
<1>1. DInv => CleanRunDelivers
  <2> SUFFICES ASSUME DInv, ~rehearsed, ~troubles, pc \in {"user", "done"},
                      NEW u \in Through, NEW i \in ItemsOf(u)
               PROVE  row[i] = "SYNCED"
    BY DEF CleanRunDelivers
  <2>1. PICK f \in Folders : Owner[f] = u /\ stage \in {Stage[f], "done"} /\ i \in ToSet(Box[f])
    BY DEF ItemsOf
  <2>2. u \in Mailboxes /\ (stage = "done" \/ u \notin left)
    BY DEF Through
  <2>3. Delivered(f)
    <3>1. /\ \A g \in Folders : Owner[g] \in Mailboxes /\ Stage[g] \in Passed => Delivered(g)
          /\ \A g \in Folders : Owner[g] \in Mailboxes \ left /\ Stage[g] = stage => Delivered(g)
      BY DEF DInv, FoldersDone, Clean
    <3>2. stage = "done" => Stage[f] \in Passed
      BY OwnersAssumption DEF Passed
    <3> QED
      BY <2>1, <2>2, <3>1, <3>2
  <2>4. PICK k \in 1 .. Len(Box[f]) : i = Box[f][k]
    BY <2>1, BoxAssumption, LenProperties DEF ToSet
  <2> QED
    BY <2>3, <2>4 DEF Delivered, Upto, Synced
<1> QED
  BY <1>1, Deliveries, PTL
=============================================================================
