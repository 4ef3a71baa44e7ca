--------------------------- MODULE MailboxAgentProofs ---------------------------
(***************************************************************************)
(* Proofs about MailboxAgent, for any mailbox, any page size and any       *)
(* numbers of retries, lost answers and re-runs. First the accounting of   *)
(* the copies, and the implementation of ItemLedger: which message is at   *)
(* hand does not matter to them, so that nothing need be known of the      *)
(* pages. Then what the pages cover while mail arrives. The last part is   *)
(* about FolderLabels, the labels of the folders of the same mailbox.      *)
(***************************************************************************)
EXTENDS MailboxAgent, TLAPS, SequenceTheorems, FiniteSetTheorems

StoreTyped ==
  /\ row \in [Messages -> Rows]
  /\ copies \in [Messages -> Nat]
  /\ unheard \in [Messages -> Nat]

\* From the check of a message to its row it is not recorded SYNCED, and the run is live.
WorkInv == pc \in {"stream", "retry", "post", "record", "fail"} => row[msg] # "SYNCED" /\ ~dry

IInv == StoreTyped /\ WorkInv /\ CopiesExplained

Quiet == UNCHANGED <<row, copies, unheard>>

\* Steps between messages, and those of other people, leave the accounts alone.
LEMMA LoopSteps ==
  ASSUME IInv,
         Start \/ Steer \/ Arrive \/ Vanish \/ NextFolder \/ Finish \/ NextPage \/ List
           \/ ListPartly \/ ListNothing \/ ListInterrupted \/ TurnPage \/ NextMessage
  PROVE  IInv'
<1>1. Quiet
  BY DEF Quiet, Start, Steer, Arrive, Vanish, NextFolder, Finish, NextPage, List, ListPartly,
    ListNothing, ListInterrupted, TurnPage, NextMessage, store, histories
<1>2. CASE Steer \/ Arrive \/ Vanish
  <2>1. UNCHANGED <<pc, page, dry>>
    BY <1>2 DEF Steer, Arrive, Vanish, loop
  <2> QED
    BY <1>1, <2>1 DEF Quiet, IInv, StoreTyped, WorkInv, CopiesExplained, Accounted, msg
<1>3. CASE Start \/ NextFolder \/ Finish \/ NextPage \/ List \/ ListPartly \/ ListNothing \/ ListInterrupted
             \/ TurnPage \/ NextMessage
  <2>1. pc # "record" /\ pc' \notin {"stream", "retry", "post", "record", "fail"}
    BY <1>3 DEF Start, Running, NextFolder, Finish, NextPage, List, ListPartly, Got, ListNothing, ListInterrupted,
      TurnPage, NextMessage, WaitThen, LeaveFolder
  <2> QED
    BY <1>1, <2>1 DEF Quiet, IInv, StoreTyped, WorkInv, CopiesExplained, Accounted, msg
<1> QED
  BY <1>2, <1>3

\* One more of a message is a count again.
LEMMA OneMore ==
  ASSUME NEW counts \in [Messages -> Nat]
  PROVE  [counts EXCEPT ![msg] = @ + 1] \in [Messages -> Nat]
<1>1. CASE msg \in Messages
  BY <1>1
<1>2. CASE msg \notin Messages
  <2>1. [counts EXCEPT ![msg] = @ + 1] = counts
    BY <1>2
  <2> QED
    BY <2>1
<1> QED
  BY <1>1, <1>2

\* The message at hand: what a request adds to the copies, it adds to the accounts.
LEMMA MessageSteps ==
  ASSUME IInv, Check \/ Stream \/ Retry \/ PostTypeError \/ PostAnswered \/ PostRefused \/ PostUnheard
  PROVE  IInv'
<1> USE DEF IInv, StoreTyped, WorkInv, CopiesExplained, Accounted, store, loop, tries, histories
<1>0. page' = page => msg' = msg
  BY DEF msg
<1>1. CASE Check
  <2>1. CASE UNCHANGED row
    BY <1>0, <1>1, <2>1 DEF Check, Settle, Skips, Simulates, Migrates
  <2>2. CASE row' = [row EXCEPT ![msg] = "FAILED_SIZE_EXCEEDED"] /\ Migrates
    BY <1>0, <1>1, <2>2 DEF Check, Settle, Skips, Simulates, Migrates, Rows
  <2> QED
    BY <1>1, <2>1, <2>2 DEF Check
<1>2. CASE Stream \/ Retry
  BY <1>0, <1>2 DEF Stream, Retry
<1>3. CASE PostTypeError
  BY <1>0, <1>3 DEF PostTypeError, CountAttempt
<1>4. CASE PostAnswered
  <2>1. /\ pc = "post" /\ pc' = "record" /\ msg' = msg /\ UNCHANGED <<row, dry, unheard>>
        /\ copies' = [copies EXCEPT ![msg] = @ + 1]
    BY <1>0, <1>4 DEF PostAnswered, Accept
  <2>2. StoreTyped' /\ WorkInv'
    BY <2>1, OneMore
  <2>3. ASSUME NEW m \in Messages
        PROVE  copies'[m] = unheard'[m] + (IF Accounted(m)' THEN 1 ELSE 0)
    <3>1. CASE m = msg
      BY <2>1, <3>1
    <3>2. CASE m # msg
      BY <2>1, <3>2
    <3> QED
      BY <3>1, <3>2
  <2> QED
    BY <2>2, <2>3
<1>5. ASSUME pc = "post", PostRaises PROVE pc' \in {"post", "retry", "fail"}
  BY <1>5 DEF PostRaises, CountAttempt
<1>6. CASE PostRefused
  BY <1>0, <1>5, <1>6 DEF PostRefused
<1>7. CASE PostUnheard
  <2>1. /\ pc = "post" /\ pc' \in {"post", "retry", "fail"} /\ msg' = msg /\ UNCHANGED <<row, dry>>
        /\ copies' = [copies EXCEPT ![msg] = @ + 1] /\ unheard' = [unheard EXCEPT ![msg] = @ + 1]
    BY <1>0, <1>5, <1>7 DEF PostUnheard, Accept
  <2>2. StoreTyped' /\ WorkInv'
    BY <2>1, OneMore
  <2>3. ASSUME NEW m \in Messages
        PROVE  copies'[m] = unheard'[m] + (IF Accounted(m)' THEN 1 ELSE 0)
    <3>1. CASE m = msg
      BY <2>1, <3>1
    <3>2. CASE m # msg
      BY <2>1, <3>2
    <3> QED
      BY <3>1, <3>2
  <2> QED
    BY <2>2, <2>3
<1> QED
  BY <1>1, <1>2, <1>3, <1>4, <1>6, <1>7

\* The store, and the crash: an import becomes a row or is forgotten.
LEMMA StoreSteps ==
  ASSUME IInv, Crash \/ Record \/ RecordRaises \/ Fail \/ FailRaises
  PROVE  IInv'
<1> USE DEF IInv, StoreTyped, WorkInv, CopiesExplained, Accounted, store, loop
<1>0. page' = page => msg' = msg
  BY DEF msg
<1>1. CASE Crash
  <2>1. /\ pc' = "idle" /\ UNCHANGED <<row, copies>>
        /\ unheard' = IF pc = "record" THEN [unheard EXCEPT ![msg] = @ + 1] ELSE unheard
    BY <1>1 DEF Crash, Forget
  <2>2. StoreTyped' /\ WorkInv'
    BY <2>1, OneMore
  <2>3. ASSUME NEW m \in Messages
        PROVE  copies'[m] = unheard'[m] + (IF Accounted(m)' THEN 1 ELSE 0)
    <3>1. CASE m = msg
      BY <2>1, <3>1
    <3>2. CASE m # msg
      BY <2>1, <3>2
    <3> QED
      BY <3>1, <3>2
  <2> QED
    BY <2>2, <2>3
<1>2. CASE Record
  BY <1>0, <1>2 DEF Record, Settle, Rows, histories
<1>3. CASE RecordRaises
  <2>1. /\ pc = "record" /\ pc' = "fail" /\ msg' = msg /\ UNCHANGED <<row, copies, dry>>
        /\ unheard' = [unheard EXCEPT ![msg] = @ + 1]
    BY <1>0, <1>3 DEF RecordRaises, Forget
  <2>2. StoreTyped' /\ WorkInv'
    BY <2>1, OneMore
  <2>3. ASSUME NEW m \in Messages
        PROVE  copies'[m] = unheard'[m] + (IF Accounted(m)' THEN 1 ELSE 0)
    <3>1. CASE m = msg
      BY <2>1, <3>1
    <3>2. CASE m # msg
      BY <2>1, <3>2
    <3> QED
      BY <3>1, <3>2
  <2> QED
    BY <2>2, <2>3
<1>4. CASE Fail
  BY <1>0, <1>4 DEF Fail, Settle, Rows, histories
<1>5. CASE FailRaises
  BY <1>0, <1>5 DEF FailRaises, histories
<1> QED
  BY <1>1, <1>2, <1>3, <1>4, <1>5

\* The inductive invariant holds in every reachable state.
THEOREM Inductive == Spec => []IInv
<1>1. Init => IInv
  BY DEF Init, IInv, StoreTyped, WorkInv, CopiesExplained, Accounted, msg, Rows
<1>2. IInv /\ [Next]_vars => IInv'
  <2> SUFFICES ASSUME IInv, [Next]_vars PROVE IInv'
    OBVIOUS
  <2>1. CASE UNCHANGED vars
    BY <2>1 DEF vars, IInv, StoreTyped, WorkInv, CopiesExplained, Accounted, msg
  <2>2. CASE Next
    BY <2>1, <2>2, LoopSteps, MessageSteps, StoreSteps DEF Next, AgentStep, Terminated
  <2> QED
    BY <2>1, <2>2
<1> QED
  BY <1>1, <1>2, PTL DEF Spec

\* Every copy in Gmail is recorded, about to be, or of an import the run forgot.
THEOREM CopiesAccounted == Spec => []CopiesExplained
<1>1. IInv => CopiesExplained
  BY DEF IInv
<1> QED
  BY <1>1, Inductive, PTL

-----------------------------------------------------------------------------
\* Each step is a step of the ledger or leaves it alone; a size failure is a failure.
LEMMA LedgerStep ==
  ASSUME IInv, [Next]_vars
  PROVE  [Ledger!Next]_(Ledger!vars)
<1> USE DEF Ledger!vars
<1>1. CASE PostAnswered \/ PostUnheard
  <2>1. UNCHANGED row /\ copies' = [copies EXCEPT ![msg] = @ + 1] /\ row[msg] # "SYNCED"
    BY <1>1 DEF IInv, WorkInv, PostAnswered, PostUnheard, Accept
  <2>2. CASE msg \in Messages
    BY <2>1, <2>2 DEF Ledger!Next, Ledger!Deliver
  <2>3. CASE msg \notin Messages
    BY <2>1, <2>3 DEF IInv, StoreTyped
  <2> QED
    BY <2>2, <2>3
<1>2. CASE Record
  <2>1. UNCHANGED copies /\ row' = [row EXCEPT ![msg] = "SYNCED"] /\ row[msg] # "SYNCED"
    BY <1>2 DEF IInv, WorkInv, Record
  <2>2. CASE msg \in Messages
    <3>1. copies[msg] > 0
      BY <1>2, <2>2 DEF Record, IInv, StoreTyped, CopiesExplained, Accounted, msg
    <3>2. Ledger!Confirm(msg)
      BY <2>1, <2>2, <3>1 DEF IInv, StoreTyped, Ledger!Confirm
    <3> QED
      BY <2>2, <3>2 DEF Ledger!Next, Ledger!Confirm
  <2>3. CASE msg \notin Messages
    BY <2>1, <2>3 DEF IInv, StoreTyped
  <2> QED
    BY <2>2, <2>3
<1>3. ASSUME NEW s \in {"FAILED", "FAILED_SIZE_EXCEEDED"}, UNCHANGED copies,
             row' = [row EXCEPT ![msg] = s], row[msg] # "SYNCED"
      PROVE  [Ledger!Next]_(Ledger!vars)
  <2>1. CASE msg \in Messages
    <3>1. Ledger!Reject(msg)
      BY <1>3, <2>1 DEF IInv, StoreTyped, Ledger!Reject
    <3> QED
      BY <2>1, <3>1 DEF Ledger!Next, Ledger!Reject
  <2>2. CASE msg \notin Messages
    BY <1>3, <2>2 DEF IInv, StoreTyped
  <2> QED
    BY <2>1, <2>2
<1>4. CASE Fail
  BY <1>3, <1>4 DEF Fail, IInv, WorkInv
<1>5. CASE Check
  <2>1. UNCHANGED copies /\ (UNCHANGED row \/ (Migrates /\ row' = [row EXCEPT ![msg] = "FAILED_SIZE_EXCEEDED"]))
    BY <1>5 DEF Check
  <2> QED
    BY <1>3, <2>1 DEF Migrates, Skips
<1>6. CASE ~(PostAnswered \/ PostUnheard \/ Record \/ Fail \/ Check)
  BY <1>6 DEF Next, AgentStep, Terminated, Start, Crash, Steer, Arrive, Vanish, NextFolder, Finish,
    NextPage, List, ListPartly, Got, ListNothing, ListInterrupted, TurnPage, NextMessage, Stream, Retry, PostTypeError,
    PostRefused, RecordRaises, FailRaises, store, vars
<1> QED
  BY <1>1, <1>2, <1>4, <1>5, <1>6

\* The mailbox agent implements the ledger, whatever happens to the mailbox meanwhile.
THEOREM Refinement == Spec => ImplementsLedger
<1>1. Init => Ledger!Init
  BY DEF Init, Ledger!Init
<1> QED
  BY <1>1, LedgerStep, Inductive, PTL DEF Spec, ImplementsLedger, Ledger!Spec

\* A dry run of the mailbox agent writes nothing.
THEOREM DryRunSafe == Spec => DryRunWritesNothing
<1>1. IInv /\ [Next]_vars => [dry /\ Running => UNCHANGED store]_vars
  <2> SUFFICES ASSUME IInv, Next, dry, Running PROVE UNCHANGED store
    OBVIOUS
  <2>1. ~(PostAnswered \/ PostUnheard \/ Record \/ Fail)
    BY DEF IInv, WorkInv, PostAnswered, PostUnheard, Record, Fail
  <2>2. Check => UNCHANGED store
    BY DEF Check, Migrates, Simulates, store
  <2> QED
    BY <2>1, <2>2 DEF Next, AgentStep, Terminated, Start, Crash, Steer, Arrive, Vanish, NextFolder,
      Finish, NextPage, List, ListPartly, Got, ListNothing, ListInterrupted, TurnPage, NextMessage, Stream, Retry,
      PostTypeError, PostRefused, RecordRaises, FailRaises, store, vars
<1> QED
  BY <1>1, Inductive, PTL DEF Spec, DryRunWritesNothing

-----------------------------------------------------------------------------
(* What the turning of the pages has seen *)

InMessage == {"check", "stream", "retry", "post", "record", "fail"}
InPage == {"message"} \union InMessage
InFolder == {"page", "list"} \union InPage

PlaceTyped ==
  /\ box \in [Folders -> Seq(Messages)]
  /\ start \in Nat \ {0} /\ page \in Seq(Messages)
  /\ folders \subseteq Folders /\ (pc \in InFolder => folder \in Folders)
  /\ pc \in InMessage => page # <<>>
  /\ pc = "done" => folders = {}
  /\ pc \in InFolder \union {"folder"} /\ ctl = "CANCELLED" => "cancel" \in troubles

\* The folders that are not left have all their messages in S; of the folder at hand,
\* those before the page, and those the rest of the page and the pages after it do not
\* hold.
Covers(S) ==
  /\ pc \in InFolder \union {"folder", "done"} =>
       \A f \in Folders \ folders : \A k \in 1 .. Len(box[f]) : box[f][k] \in S
  /\ pc \in {"page", "list"} =>
       \A k \in 1 .. Len(box[folder]) : k < start => box[folder][k] \in S
  /\ pc \in InPage =>
       \A k \in 1 .. Len(box[folder]) :
         \/ box[folder][k] \in S \union ToSet(page)
         \/ full /\ k >= start + Limit

\* A live run that saw whole listings of a mailbox nothing is taken from
Sound == ~dry /\ troubles \intersect {"listing", "removal", "cancel"} = {}
Seen == {m \in Messages : m \in arrived \/ row[m] # "none"}

\* ... and one with no troubles at all
Clean == fits /\ ~dry /\ troubles = {}
Settled == {m \in Messages : m \in arrived \union Oversize \/ row[m] = "SYNCED"}

DInv == PlaceTyped /\ (Sound => Covers(Seen)) /\ (Clean => pc # "fail" /\ Covers(Settled))

\* A mailbox that loses a message is a mailbox.
LEMMA Removed ==
  ASSUME NEW s \in Seq(Messages), NEW i \in DOMAIN s
  PROVE  RemoveAt(s, i) \in Seq(Messages)
<1>1. Len(s) \in Nat /\ i \in 1 .. Len(s)
  BY LenProperties
<1>2. \A k \in 1 .. Len(s) : s[k] \in Messages
  BY ElementOfSeq
<1>3. SubSeq(s, 1, i - 1) \in Seq(Messages)
  BY <1>1, <1>2, SubSeqProperties
<1>4. SubSeq(s, i + 1, Len(s)) \in Seq(Messages)
  BY <1>1, <1>2, SubSeqProperties
<1> QED
  BY <1>3, <1>4, ConcatProperties DEF RemoveAt

\* A message that arrives moves the others down by one.
LEMMA Arrived ==
  ASSUME NEW s \in Seq(Messages), NEW m \in Messages
  PROVE  /\ <<m>> \o s \in Seq(Messages) /\ Len(<<m>> \o s) = Len(s) + 1
         /\ \A k \in 1 .. Len(<<m>> \o s) :
              IF k = 1 THEN (<<m>> \o s)[k] = m ELSE k - 1 \in 1 .. Len(s) /\ (<<m>> \o s)[k] = s[k - 1]
<1>1. <<m>> \in Seq(Messages) /\ Len(<<m>>) = 1 /\ <<m>>[1] = m /\ Len(s) \in Nat
  OBVIOUS
<1>2. /\ <<m>> \o s \in Seq(Messages)
      /\ Len(<<m>> \o s) = 1 + Len(s)
      /\ \A k \in 1 .. 1 + Len(s) : (<<m>> \o s)[k] = IF k <= 1 THEN <<m>>[k] ELSE s[k - 1]
  BY <1>1, ConcatProperties
<1>3. ASSUME NEW k \in 1 .. Len(<<m>> \o s)
      PROVE  IF k = 1 THEN (<<m>> \o s)[k] = m ELSE k - 1 \in 1 .. Len(s) /\ (<<m>> \o s)[k] = s[k - 1]
  BY <1>1, <1>2, <1>3
<1> QED
  BY <1>1, <1>2, <1>3

\* A page holds the messages of its places, and is full unless the folder ends there.
LEMMA Listed ==
  ASSUME PlaceTyped, List
  PROVE  /\ folder \in Folders /\ page' \in Seq(Messages)
         /\ page' = <<>> => Len(box[folder]) < start
         /\ \A k \in 1 .. Len(box[folder]) :
              \/ k < start
              \/ box[folder][k] \in ToSet(page')
              \/ full' /\ k >= start + Limit
<1> DEFINE last == Min({start + Limit - 1, Len(box[folder])})
<1>1. folder \in Folders /\ box[folder] \in Seq(Messages)
  BY DEF PlaceTyped, List, InFolder
<1>2. Len(box[folder]) \in Nat /\ start \in Nat \ {0} /\ Limit \in Nat \ {0}
  BY <1>1, LimitAssumption DEF PlaceTyped
<1>3. last = IF start + Limit - 1 <= Len(box[folder]) THEN start + Limit - 1 ELSE Len(box[folder])
  BY <1>2 DEF Min
<1> HIDE DEF last
<1>4. last \in Nat /\ last <= Len(box[folder])
  BY <1>2, <1>3
<1>5. page' = SubSeq(box[folder], start, last)
  BY DEF List, PageAt, last
<1>6. \A k \in start .. last : box[folder][k] \in Messages
  BY <1>1, <1>2, <1>4, ElementOfSeq
<1>7. /\ page' \in Seq(Messages)
      /\ Len(page') = IF start <= last THEN last - start + 1 ELSE 0
      /\ \A k \in 1 .. last - start + 1 : page'[k] = box[folder][start + k - 1]
  BY <1>2, <1>4, <1>5, <1>6, SubSeqProperties
<1>8. ASSUME NEW k \in 1 .. Len(box[folder]), k >= start
      PROVE  box[folder][k] \in ToSet(page') \/ (full' /\ k >= start + Limit)
  <2>1. CASE k <= last
    <3>1. k - start + 1 \in 1 .. Len(page') /\ start + (k - start + 1) - 1 = k
      BY <1>2, <1>4, <1>7, <1>8, <2>1
    <3>2. page'[k - start + 1] = box[folder][k]
      BY <1>2, <1>4, <1>7, <1>8, <2>1, <3>1
    <3> QED
      BY <1>7, <3>1, <3>2, LenProperties DEF ToSet
  <2>2. CASE ~(k <= last)
    <3>1. last = start + Limit - 1 /\ k >= start + Limit /\ Len(page') = Limit
      BY <1>2, <1>3, <1>4, <1>7, <1>8, <2>2
    <3>2. Len(page') >= Limit
      BY <1>2, <3>1
    <3>3. full'
      BY <3>2, Zenon DEF List
    <3> QED
      BY <3>1, <3>3
  <2> QED
    BY <2>1, <2>2
<1>9. page' = <<>> => Len(box[folder]) < start
  BY <1>2, <1>3, <1>4, <1>7
<1> QED
  BY <1>1, <1>2, <1>7, <1>8, <1>9

\* A page with an entry less is still one of messages.
LEMMA PartlyListed ==
  ASSUME PlaceTyped, ListPartly
  PROVE  folder \in Folders /\ page' \in Seq(Messages)
<1>1. folder \in Folders /\ box[folder] \in Seq(Messages)
  BY DEF PlaceTyped, ListPartly, InFolder
<1> DEFINE last == Min({start + Limit - 1, Len(box[folder])})
           answer == PageAt(folder, start)
<1>2. Len(box[folder]) \in Nat /\ start \in Nat \ {0} /\ Limit \in Nat \ {0}
  BY <1>1, LimitAssumption DEF PlaceTyped
<1>3. last = IF start + Limit - 1 <= Len(box[folder]) THEN start + Limit - 1 ELSE Len(box[folder])
  BY <1>2 DEF Min
<1>4. answer = SubSeq(box[folder], start, last)
  BY DEF PageAt
<1> HIDE DEF last
<1>5. last \in Nat /\ last <= Len(box[folder])
  BY <1>2, <1>3
<1>6. \A k \in start .. last : box[folder][k] \in Messages
  BY <1>1, <1>2, <1>5, ElementOfSeq
<1>7. answer \in Seq(Messages)
  BY <1>2, <1>4, <1>5, <1>6, SubSeqProperties
<1>8. PICK i \in DOMAIN answer : page' = RemoveAt(answer, i)
  BY DEF ListPartly
<1> HIDE DEF answer
<1>9. page' \in Seq(Messages)
  BY <1>7, <1>8, Removed
<1> QED
  BY <1>1, <1>9

\* Within a run troubles are not forgotten, and a cancellation is one.
LEMMA TroublesStay ==
  ASSUME [Next]_vars, ~Start
  PROVE  /\ troubles \subseteq troubles' /\ dry' = dry /\ fits' = fits
         /\ pc' \in InFolder \union {"folder"} => pc \in InFolder \union {"folder"}
         /\ ctl' = "CANCELLED" => ctl = "CANCELLED" \/ "cancel" \in troubles'
<1> USE DEF store, loop, tries, histories, bounds, InFolder, InPage, InMessage
<1>1. CASE Crash \/ Steer \/ Arrive \/ Vanish
  BY <1>1 DEF Crash, Steer, Arrive, Vanish, Trouble, Running
<1>2. CASE NextFolder \/ Finish \/ NextPage \/ List \/ ListPartly \/ ListNothing \/ ListInterrupted \/ TurnPage \/ NextMessage
  BY <1>2 DEF NextFolder, Finish, NextPage, List, ListPartly, Got, ListNothing, ListInterrupted, TurnPage, NextMessage,
    WaitThen, LeaveFolder, Trouble
<1>3. CASE Check \/ Stream \/ Retry \/ PostTypeError \/ PostAnswered \/ Record \/ RecordRaises \/ Fail \/ FailRaises
  BY <1>3 DEF Check, Stream, Retry, PostTypeError, CountAttempt, PostAnswered, Accept, Record, RecordRaises, Fail,
    FailRaises, Settle, Trouble
<1>4. CASE PostRefused \/ PostUnheard
  BY <1>4 DEF PostRefused, PostUnheard, PostRaises, CountAttempt, Accept, Trouble
<1>5. CASE UNCHANGED vars
  BY <1>5 DEF vars
<1> QED
  BY <1>1, <1>2, <1>3, <1>4, <1>5 DEF Next, AgentStep, Terminated

\* The steps at a message keep the page or settle its first message.
LEMMA AtMessage ==
  ASSUME PlaceTyped,
         Check \/ Stream \/ Retry \/ PostTypeError \/ PostAnswered \/ PostRefused \/ PostUnheard
           \/ Record \/ RecordRaises \/ Fail \/ FailRaises
  PROVE  /\ pc \in InMessage /\ pc' \in InPage \union {"aborted"} /\ page # <<>>
         /\ UNCHANGED <<box, arrived, folders, folder, start, full>>
         /\ \/ page' = page /\ pc' # "message"
            \/ page' = Tail(page) /\ pc' = "message" /\ (Check \/ Record \/ Fail)
<1> USE DEF store, loop, tries, histories, bounds, InPage, InMessage
<1>1. page # <<>>
  BY DEF PlaceTyped, Check, Stream, Retry, PostTypeError, PostAnswered, PostRefused, PostUnheard, Record,
    RecordRaises, Fail, FailRaises
<1>2. CASE Check
  BY <1>1, <1>2 DEF Check, Settle
<1>3. CASE Record \/ Fail
  BY <1>1, <1>3 DEF Record, Fail, Settle
<1>4. CASE Stream \/ Retry \/ PostTypeError \/ PostAnswered \/ RecordRaises \/ FailRaises
  BY <1>1, <1>4 DEF Stream, Retry, PostTypeError, CountAttempt, PostAnswered, Accept, RecordRaises, FailRaises
<1>5. CASE PostRefused \/ PostUnheard
  BY <1>1, <1>5 DEF PostRefused, PostUnheard, PostRaises, CountAttempt, Accept
<1> QED
  BY <1>2, <1>3, <1>4, <1>5

\* The agent is somewhere in the mailbox.
LEMMA PlaceStep ==
  ASSUME PlaceTyped, [Next]_vars
  PROVE  PlaceTyped'
<1> USE DEF store, loop, tries, histories, bounds
<1>0. ~Start => (pc' \in InFolder \union {"folder"} /\ ctl' = "CANCELLED" => "cancel" \in troubles')
  BY TroublesStay DEF PlaceTyped
<1>1. CASE Start
  BY <1>1 DEF Start, PlaceTyped, InFolder, InPage, InMessage
<1>2. CASE Arrive
  <2>1. PICK f \in Folders, m \in Messages : box' = [box EXCEPT ![f] = <<m>> \o @]
    BY <1>2 DEF Arrive
  <2>2. box' \in [Folders -> Seq(Messages)]
    BY <2>1, Arrived DEF PlaceTyped
  <2> QED
    BY <1>0, <1>2, <2>2 DEF Arrive, Start, PlaceTyped, Running
<1>3. CASE Vanish
  <2>1. PICK f \in Folders : \E i \in DOMAIN box[f] : box' = [box EXCEPT ![f] = RemoveAt(@, i)]
    BY <1>3 DEF Vanish
  <2>2. PICK i \in DOMAIN box[f] : box' = [box EXCEPT ![f] = RemoveAt(@, i)]
    BY <2>1
  <2>3. box' \in [Folders -> Seq(Messages)]
    BY <2>2, Removed DEF PlaceTyped
  <2> QED
    BY <1>0, <1>3, <2>3 DEF Vanish, Start, PlaceTyped, Running
<1>4. CASE Crash \/ Steer
  BY <1>0, <1>4 DEF Crash, Steer, Start, PlaceTyped, Running, InFolder, InPage, InMessage
<1>5. CASE NextFolder \/ Finish \/ NextPage \/ NextMessage \/ ListNothing \/ ListInterrupted
  BY <1>0, <1>5 DEF NextFolder, Finish, NextPage, NextMessage, ListNothing, ListInterrupted, WaitThen, LeaveFolder,
    Start, Running, PlaceTyped, InFolder, InPage, InMessage
<1>6. CASE List
  BY <1>0, <1>6, Listed DEF List, Got, LeaveFolder, Start, Running, PlaceTyped, InFolder, InPage, InMessage
<1>10. CASE ListPartly
  <2>1. folder \in Folders /\ page' \in Seq(Messages)
    BY <1>10, PartlyListed
  <2> QED
    BY <1>0, <1>10, <2>1 DEF ListPartly, Got, LeaveFolder, Start, Running, PlaceTyped, InFolder, InPage, InMessage
<1>7. CASE TurnPage
  BY <1>0, <1>7, LimitAssumption DEF TurnPage, LeaveFolder, NextStart, Start, Running, PlaceTyped, InFolder, InPage,
    InMessage
<1>8. CASE Check \/ Stream \/ Retry \/ PostTypeError \/ PostAnswered \/ PostRefused \/ PostUnheard
             \/ Record \/ RecordRaises \/ Fail \/ FailRaises
  <2>1. /\ pc \in InMessage /\ pc' \in InPage \union {"aborted"} /\ page # <<>>
        /\ UNCHANGED <<box, folders, folder, start>>
        /\ (page' = page /\ pc' # "message") \/ (page' = Tail(page) /\ pc' = "message")
    BY <1>8, AtMessage
  <2>2. page' \in Seq(Messages)
    BY <2>1, HeadTailProperties DEF PlaceTyped
  <2>3. ~Start
    BY <2>1 DEF Start, Running, InMessage
  <2> QED
    BY <1>0, <2>1, <2>2, <2>3 DEF PlaceTyped, InFolder, InPage, InMessage
<1>9. CASE UNCHANGED vars
  BY <1>9 DEF vars, PlaceTyped
<1> QED
  BY <1>1, <1>2, <1>3, <1>4, <1>5, <1>6, <1>7, <1>8, <1>9, <1>10 DEF Next, AgentStep, Terminated

\* While nothing is removed and no listing fails, a set that takes in what arrives and
\* what is settled goes on covering what the agent has passed.
LEMMA CoversStep ==
  ASSUME PlaceTyped, [Next]_vars, NEW S, NEW T, Covers(S), S \subseteq T,
         ~(Start \/ Vanish \/ ListPartly \/ ListNothing \/ ListInterrupted),
         arrived' \ arrived \subseteq T,
         (Check \/ Record \/ Fail) /\ pc' = "message" => msg \in T
  PROVE  Covers(T)'
<1> USE DEF store, loop, tries, histories, bounds
<1>1. CASE Arrive
  <2>1. PICK f \in Folders, m \in Messages : /\ box' = [box EXCEPT ![f] = <<m>> \o @]
                                            /\ arrived' = arrived \union {m} /\ m \notin arrived
    BY <1>1 DEF Arrive
  <2>2. m \in T
    BY <2>1
  <2>3. box \in [Folders -> Seq(Messages)] /\ UNCHANGED <<pc, folders, folder, start, page, full>>
    BY <1>1 DEF Arrive, PlaceTyped
  <2>4. ASSUME NEW g \in Folders, NEW k \in 1 .. Len(box'[g])
        PROVE  \/ box'[g][k] \in T
               \/ k \in 1 .. Len(box[g]) /\ box'[g][k] = box[g][k]
               \/ k - 1 \in 1 .. Len(box[g]) /\ box'[g][k] = box[g][k - 1]
    <3>1. CASE g # f
      BY <2>1, <2>3, <2>4, <3>1
    <3>2. CASE g = f
      <4>1. box'[g] = <<m>> \o box[g] /\ box[g] \in Seq(Messages)
        BY <2>1, <2>3, <3>2
      <4> QED
        BY <2>2, <2>4, <4>1, Arrived
    <3> QED
      BY <3>1, <3>2
  <2>5. pc \in InFolder => folder \in Folders /\ start \in Nat \ {0} /\ start + Limit \in Nat
    BY LimitAssumption DEF PlaceTyped
  <2>6. \A g \in Folders : Len(box[g]) \in Nat /\ Len(box'[g]) \in Nat
    BY <2>3, PlaceStep DEF PlaceTyped
  <2>7. ASSUME pc' \in InFolder \union {"folder", "done"}, NEW g \in Folders \ folders',
               NEW k \in 1 .. Len(box'[g])
        PROVE  box'[g][k] \in T
    <3>1. \A j \in 1 .. Len(box[g]) : box[g][j] \in T
      BY <2>3, <2>7 DEF Covers
    <3> QED
      BY <2>4, <2>7, <3>1
  <2>8. ASSUME pc' \in {"page", "list"}, NEW k \in 1 .. Len(box'[folder']), k < start'
        PROVE  box'[folder'][k] \in T
    <3>1. \A j \in 1 .. Len(box[folder]) : j < start => box[folder][j] \in T
      BY <2>3, <2>8 DEF Covers
    <3>2. folder' = folder /\ folder \in Folders /\ start' = start /\ start \in Nat /\ k \in Int /\ k - 1 < start
      BY <2>3, <2>5, <2>6, <2>8 DEF InFolder
    <3> QED
      BY <2>4, <2>8, <3>1, <3>2
  <2>9. ASSUME pc' \in InPage, NEW k \in 1 .. Len(box'[folder'])
        PROVE  \/ box'[folder'][k] \in T \union ToSet(page')
               \/ full' /\ k >= start' + Limit
    <3>1. \A j \in 1 .. Len(box[folder]) :
           \/ box[folder][j] \in T \union ToSet(page)
           \/ full /\ j >= start + Limit
      <4>1. pc \in InPage
        BY <2>3, <2>9
      <4>2. \A j \in 1 .. Len(box[folder]) :
             \/ box[folder][j] \in S \union ToSet(page)
             \/ full /\ j >= start + Limit
        BY <4>1 DEF Covers
      <4> QED
        BY <4>2
    <3>2. folder' = folder /\ folder \in Folders /\ start' = start /\ start + Limit \in Nat /\ k \in Int
      BY <2>3, <2>5, <2>6, <2>9 DEF InFolder
    <3>3. k - 1 >= start + Limit => k >= start + Limit
      BY <3>2
    <3>4. \/ box'[folder][k] \in T
          \/ k \in 1 .. Len(box[folder]) /\ box'[folder][k] = box[folder][k]
          \/ k - 1 \in 1 .. Len(box[folder]) /\ box'[folder][k] = box[folder][k - 1]
      BY <2>4, <2>9, <3>2
    <3> QED
      BY <2>3, <3>1, <3>2, <3>3, <3>4
  <2> QED
    BY <2>7, <2>8, <2>9 DEF Covers
<1>2. CASE Crash
  BY <1>2 DEF Crash, Covers, InFolder, InPage, InMessage
<1>3. CASE Steer \/ UNCHANGED vars
  BY <1>3 DEF Steer, vars, Covers
<1>4. CASE NextFolder
  <2>1. pc' \in {"page", "aborted"} /\ pc = "folder" /\ start' = 1 /\ UNCHANGED <<box, folders>>
    BY <1>4 DEF NextFolder, WaitThen
  <2>2. \A k \in 1 .. Len(box'[folder']) : ~(k < 1)
    OBVIOUS
  <2> QED
    BY <2>1, <2>2 DEF Covers, InFolder, InPage, InMessage
<1>5. CASE Finish \/ NextPage \/ NextMessage
  BY <1>5 DEF Finish, NextPage, NextMessage, WaitThen, Covers, InFolder, InPage, InMessage
<1>6. CASE List
  <2>1. pc = "list" /\ UNCHANGED <<box, folder, start>>
        /\ (IF page' = <<>> THEN folders' = folders \ {folder} /\ pc' = "folder" ELSE pc' = "message" /\ folders' = folders)
    BY <1>6 DEF List, Got, LeaveFolder
  <2>2. \A f \in Folders \ folders : \A k \in 1 .. Len(box[f]) : box[f][k] \in T
    BY <2>1 DEF Covers, InFolder
  <2>3. \A k \in 1 .. Len(box[folder]) : k < start => box[folder][k] \in T
    BY <2>1 DEF Covers
  <2>4. CASE page' = <<>>
    <3>1. Len(box[folder]) < start /\ Len(box[folder]) \in Nat /\ start \in Nat
      BY <1>6, <2>4, Listed DEF PlaceTyped
    <3>2. \A k \in 1 .. Len(box[folder]) : box[folder][k] \in T
      BY <2>3, <3>1
    <3> QED
      BY <2>1, <2>2, <2>4, <3>2 DEF Covers, InFolder, InPage, InMessage
  <2>5. CASE page' # <<>>
    <3>1. \A k \in 1 .. Len(box[folder]) :
            \/ box[folder][k] \in T \union ToSet(page')
            \/ full' /\ k >= start + Limit
      BY <1>6, <2>3, Listed
    <3> QED
      BY <2>1, <2>2, <2>5, <3>1 DEF Covers, InFolder, InPage, InMessage
  <2> QED
    BY <2>4, <2>5
<1>7. CASE TurnPage
  <2>1. /\ pc = "message" /\ page = <<>> /\ UNCHANGED <<box, folder>>
        /\ IF full THEN start' = start + Limit /\ pc' = "page" /\ folders' = folders
                   ELSE folders' = folders \ {folder} /\ pc' = "folder"
    BY <1>7 DEF TurnPage, LeaveFolder, NextStart
  <2>2. \A f \in Folders \ folders : \A k \in 1 .. Len(box[f]) : box[f][k] \in T
    BY <2>1 DEF Covers, InFolder, InPage
  <2>3. ToSet(page) = {}
    BY <2>1 DEF ToSet
  <2>4. \A k \in 1 .. Len(box[folder]) : box[folder][k] \in T \/ (full /\ k >= start + Limit)
    BY <2>1, <2>3 DEF Covers, InPage
  <2>5. \A k \in 1 .. Len(box[folder]) : k < start + Limit => ~(k >= start + Limit)
    BY LimitAssumption DEF PlaceTyped
  <2> QED
    BY <2>1, <2>2, <2>4, <2>5 DEF Covers, InFolder, InPage, InMessage
<1>8. CASE Check \/ Stream \/ Retry \/ PostTypeError \/ PostAnswered \/ PostRefused \/ PostUnheard
             \/ Record \/ RecordRaises \/ Fail \/ FailRaises
  <2>1. /\ pc \in InMessage /\ pc' \in InPage \union {"aborted"} /\ page # <<>>
        /\ UNCHANGED <<box, folders, folder, start, full>>
        /\ page' = page \/ (page' = Tail(page) /\ msg \in T)
    BY <1>8, AtMessage
  <2>2. ToSet(page) \subseteq T \union ToSet(page')
    <3>1. CASE page' = page
      BY <3>1
    <3>2. CASE page' = Tail(page) /\ msg \in T
      <4>1. page \in Seq(Messages) /\ Len(page) \in Nat /\ DOMAIN page = 1 .. Len(page)
        BY DEF PlaceTyped
      <4>2. /\ page' \in Seq(Messages) /\ Len(page') = Len(page) - 1
            /\ \A k \in 1 .. Len(page') : page'[k] = page[k + 1]
        BY <2>1, <3>2, <4>1, HeadTailProperties
      <4>3. ASSUME NEW k \in 1 .. Len(page)
            PROVE  page[k] \in T \union ToSet(page')
        <5>1. CASE k = 1
          <6>1. msg = page[1]
            BY <2>1, <4>1 DEF msg
          <6> QED
            BY <3>2, <5>1, <6>1
        <5>2. CASE k # 1
          <6>1. k - 1 \in 1 .. Len(page') /\ (k - 1) + 1 = k
            BY <4>1, <4>2, <5>2
          <6>2. page'[k - 1] = page[k] /\ k - 1 \in DOMAIN page'
            BY <4>2, <6>1
          <6> QED
            BY <6>2 DEF ToSet
        <5> QED
          BY <5>1, <5>2
      <4> QED
        BY <4>1, <4>3 DEF ToSet
    <3> QED
      BY <2>1, <3>1, <3>2
  <2> QED
    BY <2>1, <2>2 DEF Covers, InFolder, InPage, InMessage
<1> QED
  BY <1>1, <1>2, <1>3, <1>4, <1>5, <1>6, <1>7, <1>8 DEF Next, AgentStep, Terminated

\* The agent covers what it has seen; in a clean run it has settled that too.
THEOREM Coverage == Spec => []DInv
<1>1. Init => DInv
  BY BoxAssumption DEF Init, DInv, PlaceTyped, Covers, Sound, Clean, InFolder, InPage, InMessage
<1>2. IInv /\ DInv /\ [Next]_vars => DInv'
  <2> SUFFICES ASSUME IInv, DInv, [Next]_vars PROVE DInv'
    OBVIOUS
  <2> USE DEF store, loop, tries, histories, bounds
  <2>1. PlaceTyped'
    BY PlaceStep DEF DInv
  <2>2. CASE Start
    <3>1. pc' = "folder" /\ (folders' = Folders \/ "listing" \in troubles')
      BY <2>2 DEF Start
    <3>2. "listing" \notin troubles' => \A S : Covers(S)'
      BY <3>1 DEF Covers, InFolder, InPage, InMessage
    <3> QED
      BY <2>1, <3>1, <3>2 DEF DInv, Sound, Clean
  <2>3. CASE ~Start
    <3>1. troubles \subseteq troubles' /\ dry' = dry /\ fits' = fits
      BY <2>3, TroublesStay
    <3>2. Sound' => Sound /\ ~(Vanish \/ ListPartly \/ ListNothing \/ ListInterrupted)
      <4>1. Vanish => "removal" \in troubles'
        BY DEF Vanish, Trouble
      <4>2. ListPartly \/ ListNothing => "listing" \in troubles'
        BY DEF ListPartly, ListNothing, Trouble
      <4>3. ListInterrupted => "cancel" \in troubles'
        BY <3>1 DEF ListInterrupted, DInv, PlaceTyped, InFolder
      <4> QED
        BY <3>1, <4>1, <4>2, <4>3 DEF Sound
    <3>3. msg \in Messages \/ ~(Check \/ Record \/ Fail)
      BY HeadTailProperties DEF DInv, PlaceTyped, msg, Check, Record, Fail, InMessage
    <3>4. arrived \subseteq arrived'
      BY <2>3 DEF Next, AgentStep, Terminated, vars, Crash, Steer, Arrive, Vanish, NextFolder, Finish, NextPage,
        List, ListPartly, Got, ListNothing, ListInterrupted, TurnPage, NextMessage, Check, Stream, Retry, PostTypeError,
        PostAnswered, PostRefused, PostUnheard, Record, RecordRaises, Fail, FailRaises
    <3>5. row \in [Messages -> Rows] /\ (row' = row \/ \E s \in Rows \ {"none"} : row' = [row EXCEPT ![msg] = s])
      BY DEF IInv, StoreTyped, Rows, Next, AgentStep, Terminated, vars, Start, Crash, Steer, Arrive, Vanish, NextFolder,
        Finish, NextPage, List, ListPartly, Got, ListNothing, ListInterrupted, TurnPage, NextMessage, Check, Stream, Retry,
        PostTypeError, PostAnswered, PostRefused, PostUnheard, Accept, Record, RecordRaises, Fail, FailRaises
    <3>6. arrived' \ arrived \subseteq Messages
      BY <2>3 DEF Next, AgentStep, Terminated, vars, Crash, Steer, Arrive, Vanish, NextFolder, Finish, NextPage,
        List, ListPartly, Got, ListNothing, ListInterrupted, TurnPage, NextMessage, Check, Stream, Retry, PostTypeError,
        PostAnswered, PostRefused, PostUnheard, Record, RecordRaises, Fail, FailRaises
    <3>7. ASSUME Sound'
          PROVE  Covers(Seen)'
      <4>1. PICK S, T : S = Seen /\ T = Seen'
        OBVIOUS
      <4>2. Covers(S)
        BY <3>2, <3>7, <4>1 DEF DInv
      <4>3. S \subseteq T
        BY <3>4, <3>5, <4>1 DEF Seen
      <4>4. (Check \/ Record \/ Fail) /\ pc' = "message" => msg \in T
        <5>1. ASSUME Check \/ Record \/ Fail, pc' = "message"
              PROVE  msg \in Messages /\ row'[msg] # "none"
          BY <3>1, <3>3, <3>5, <3>7, <5>1 DEF Sound, Check, Skips, Simulates, Migrates, Record, Fail
        <5> QED
          BY <4>1, <5>1 DEF Seen
      <4>5. arrived' \ arrived \subseteq T
        BY <3>6, <4>1 DEF Seen
      <4> QED
        BY <2>3, <3>2, <3>7, <4>1, <4>2, <4>3, <4>4, <4>5, CoversStep DEF DInv
    <3>8. ASSUME Clean'
          PROVE  pc' # "fail" /\ Covers(Settled)'
      <4>1. PICK S, T : S = Settled /\ T = Settled'
        OBVIOUS
      <4>2. Clean /\ Sound'
        BY <3>1, <3>8 DEF Clean, Sound
      <4>3. Covers(S) /\ pc # "fail"
        BY <4>1, <4>2 DEF DInv
      <4>4. pc' # "fail"
        <5>1. ~(Stream /\ ctl = "CANCELLED") /\ ~(Retry /\ Interrupted)
          BY <4>2 DEF DInv, PlaceTyped, Stream, Retry, Interrupted, InFolder, InPage, InMessage, Clean
        <5>2. ~PostTypeError /\ ~PostRefused /\ ~PostUnheard /\ ~RecordRaises
          BY <3>8, <4>2 DEF PostTypeError, PostRefused, PostUnheard, RecordRaises, Trouble, Clean
        <5> QED
          BY <2>3, <4>3, <5>1, <5>2 DEF Next, AgentStep, Terminated, vars, Crash, Steer, Arrive, Vanish, NextFolder,
            Finish, NextPage, List, ListPartly, Got, ListNothing, ListInterrupted, LeaveFolder, WaitThen, TurnPage, NextMessage,
            Check, Settle, Stream, Retry, PostAnswered, Record, Fail, FailRaises
      <4>5. S \subseteq T
        <5>1. ASSUME NEW m \in Messages, row[m] = "SYNCED"
              PROVE  row'[m] = "SYNCED"
          <6>1. row' = row \/ row' = [row EXCEPT ![msg] = "SYNCED"] \/ row[msg] # "SYNCED"
            BY <4>3 DEF Next, AgentStep, Terminated, vars, Start, Crash, Steer, Arrive, Vanish, NextFolder,
              Finish, NextPage, List, ListPartly, Got, ListNothing, ListInterrupted, TurnPage, NextMessage, Check, Skips, Simulates,
              Migrates, Stream, Retry, PostTypeError, PostAnswered, PostRefused, PostUnheard, Accept, Record,
              RecordRaises, Fail, FailRaises
          <6> QED
            BY <3>5, <5>1, <6>1
        <5> QED
          BY <3>4, <4>1, <5>1 DEF Settled
      <4>6. (Check \/ Record \/ Fail) /\ pc' = "message" => msg \in T
        <5>1. ASSUME Check \/ Record \/ Fail, pc' = "message"
              PROVE  msg \in Messages /\ (row'[msg] = "SYNCED" \/ msg \in Oversize)
          BY <3>3, <3>5, <4>2, <4>3, <5>1 DEF Clean, Check, Skips, Simulates, Migrates, Record, Fail
        <5> QED
          BY <4>1, <5>1 DEF Settled
      <4>7. arrived' \ arrived \subseteq T
        BY <3>6, <4>1 DEF Settled
      <4> QED
        BY <2>3, <3>2, <4>1, <4>2, <4>3, <4>4, <4>5, <4>6, <4>7, CoversStep DEF DInv
    <3> QED
      BY <2>1, <3>7, <3>8 DEF DInv
  <2> QED
    BY <2>2, <2>3
<1> QED
  BY <1>1, <1>2, Inductive, PTL DEF Spec

\* Paging by offset overlooks no message that was there when the run began, even while
\* mail arrives.
THEOREM NothingIsOverlooked == Spec => []NothingOverlooked
<1>1. DInv => NothingOverlooked
  <2> SUFFICES ASSUME DInv, pc = "done", Sound, NEW m \in Present \ arrived
               PROVE  row[m] # "none"
    BY DEF NothingOverlooked, Sound
  <2>1. PICK f \in Folders : m \in ToSet(box[f])
    BY DEF Present
  <2>2. PICK k \in 1 .. Len(box[f]) : m = box[f][k]
    BY <2>1 DEF ToSet, DInv, PlaceTyped
  <2>3. m \in Seen
    BY <2>2 DEF DInv, PlaceTyped, Covers, InFolder
  <2> QED
    BY <2>3 DEF Seen
<1> QED
  BY <1>1, Coverage, PTL

\* A live run in which nothing went wrong has synced every message it could.
THEOREM CleanRuns == Spec => []CleanRunSyncsAll
<1>1. DInv => CleanRunSyncsAll
  <2> SUFFICES ASSUME DInv, pc = "done", Clean, NEW m \in Present \ (arrived \union Oversize)
               PROVE  row[m] = "SYNCED"
    BY DEF CleanRunSyncsAll, Clean
  <2>1. PICK f \in Folders : m \in ToSet(box[f])
    BY DEF Present
  <2>2. PICK k \in 1 .. Len(box[f]) : m = box[f][k]
    BY <2>1 DEF ToSet, DInv, PlaceTyped
  <2>3. m \in Settled
    BY <2>2 DEF DInv, PlaceTyped, Covers, InFolder
  <2> QED
    BY <2>3 DEF Settled
<1> QED
  BY <1>1, Coverage, PTL

-----------------------------------------------------------------------------
(* The labels of the same mailbox: FolderLabels, for any agents and folders *)

CONSTANTS Agents, Name, System, IdsFit, None, MaxTroubles, MaxRuns
VARIABLES gmail, labelRow, placed, at, simulated, todo, current, label, map, excused, started, errors, starts

L == INSTANCE FolderLabels WITH
  row <- labelRow, pc <- at, dry <- simulated, folder <- current, troubles <- errors, runs <- starts

Ensuring == {"list", "create", "save"}
LabelTyped ==
  /\ gmail \in [L!Names -> Agents \union {None}]
  /\ DOMAIN labelRow = Folders /\ DOMAIN label = Agents
  /\ DOMAIN at = Agents /\ DOMAIN current = Agents

\* INBOX is returned for a folder, or about to be, when it is excused only: an agent
\* finds a label of its own making where there was none after a lost answer.
Excused ==
  /\ L!InboxExplained
  /\ \A a \in Agents :
       /\ at[a] \in Ensuring => current[a] \in L!Custom
       /\ at[a] = "create" /\ gmail[L!name(a)] = a => current[a] \in excused
       /\ at[a] = "save" /\ label[a] = "INBOX" => current[a] \in excused

\* An agent alone asks for the labels of folders without a row.
Alone == \A a, b \in started : a = b
Unrecorded ==
  /\ IsFiniteSet(started)
  /\ \A a \in Agents : at[a] # "idle" => a \in started
  /\ Alone => \A a \in Agents : at[a] \in Ensuring => labelRow[current[a]] = None

LInv == LabelTyped /\ Excused /\ Unrecorded

\* What an agent does to itself, and leaves alone of the others
LEMMA OneAgent ==
  ASSUME LabelTyped, NEW a \in Agents, L!AgentStep(a)
  PROVE  /\ LabelTyped'
         /\ \A b \in Agents \ {a} : at'[b] = at[b] /\ current'[b] = current[b] /\ label'[b] = label[b]
         /\ excused \subseteq excused'
<1> USE DEF LabelTyped, L!Goto, L!Return, L!Assign, L!Excuse
<1>1. CASE L!Start(a) \/ L!Stop(a) \/ L!Mapped(a) \/ L!Stream(a) \/ L!SaveRaises(a)
  BY <1>1 DEF L!Start, L!Stop, L!Mapped, L!Stream, L!SaveRaises
<1>2. CASE L!Map(a)
  BY <1>2 DEF L!Map
<1>3. CASE L!List(a) \/ L!RequestFails(a)
  BY <1>3 DEF L!List, L!RequestFails
<1>4. CASE L!Create(a) \/ L!CreateUnheard(a) \/ L!CreateConflicts(a)
  BY <1>4 DEF L!Create, L!CreateUnheard, L!CreateConflicts
<1>5. CASE L!Save(a)
  BY <1>5 DEF L!Save
<1> QED
  BY <1>1, <1>2, <1>3, <1>4, <1>5 DEF L!AgentStep

\* INBOX stays excused.
LEMMA ExcusedStep ==
  ASSUME L!NamesAssumption, LabelTyped, Excused, NEW a \in Agents, L!AgentStep(a)
  PROVE  Excused'
<1> USE DEF LabelTyped, L!Goto, L!Return, L!Assign, L!Excuse
<1>0. /\ LabelTyped' /\ excused \subseteq excused'
      /\ \A b \in Agents \ {a} : at'[b] = at[b] /\ current'[b] = current[b] /\ label'[b] = label[b]
  BY OneAgent
<1> SUFFICES /\ L!InboxExplained'
             /\ \A b \in Agents \ {a} :
                  at[b] = "create" /\ gmail'[L!name(b)] = b => current[b] \in excused
             /\ at'[a] \in Ensuring => current'[a] \in L!Custom
             /\ at'[a] = "create" /\ gmail'[L!name(a)'] = a => current'[a] \in excused'
             /\ at'[a] = "save" /\ label'[a] = "INBOX" => current'[a] \in excused'
  BY <1>0 DEF Excused, L!name, Ensuring
<1>1. CASE L!Start(a) \/ L!Stop(a) \/ L!Mapped(a) \/ L!Stream(a) \/ L!SaveRaises(a)
  BY <1>1 DEF L!Start, L!Stop, L!Mapped, L!Stream, L!SaveRaises, Excused, Ensuring, L!InboxExplained
<1>2. CASE L!Map(a)
  BY <1>2 DEF L!Map, Excused, Ensuring, L!InboxExplained
<1>L. at[a] \in Ensuring => /\ current[a] \in L!Custom /\ L!name(a) \in L!Names
                           /\ L!name(a) # "INBOX" /\ None # a
  BY DEF Excused, Ensuring, L!name, L!Names, L!Custom, L!NamesAssumption
<1>3. CASE L!List(a)
  <2>1. /\ at[a] = "list" /\ UNCHANGED <<gmail, labelRow, current, excused>>
        /\ \/ label'[a] = L!name(a) /\ at'[a] = "save"
           \/ gmail[L!name(a)] = None /\ at'[a] = "create"
    BY <1>3 DEF L!List, L!Found, L!Exists
  <2>2. L!name(a)' = L!name(a)
    BY <2>1 DEF L!name
  <2> QED
    BY <1>L, <2>1, <2>2 DEF Excused, Ensuring, L!InboxExplained
<1>7. CASE L!RequestFails(a)
  BY <1>7, <1>L DEF L!RequestFails, Excused, Ensuring, L!InboxExplained
<1>4. CASE L!Create(a) \/ L!CreateUnheard(a)
  <2>1. /\ at[a] = "create" /\ UNCHANGED <<labelRow, current>>
        /\ gmail' = [gmail EXCEPT ![L!name(a)] = a]
        /\ \/ label'[a] = L!name(a) /\ at'[a] = "save"
           \/ at'[a] = "create" /\ excused' = excused \union {current[a]}
    BY <1>4 DEF L!Create, L!CreateUnheard
  <2>2. \A b \in Agents \ {a} : gmail'[L!name(b)] = b => gmail[L!name(b)] = b
    BY <1>L, <2>1 DEF Ensuring
  <2> QED
    BY <1>0, <1>L, <2>1, <2>2 DEF Excused, Ensuring, L!InboxExplained
<1>5. CASE L!CreateConflicts(a)
  BY <1>5 DEF L!CreateConflicts, Excused, Ensuring, L!InboxExplained
<1>6. CASE L!Save(a)
  BY <1>6 DEF L!Save, Excused, Ensuring, L!InboxExplained
<1> QED
  BY <1>1, <1>2, <1>3, <1>4, <1>5, <1>6, <1>7 DEF L!AgentStep

\* The cardinality of FolderLabels is that of the theorems on finite sets.
LEMMA SameCardinality ==
  ASSUME NEW S
  PROVE  L!Cardinality(S) = Cardinality(S)
BY DEF L!Cardinality, Cardinality

\* An agent alone finds no row where it looked for none.
LEMMA UnrecordedStep ==
  ASSUME LabelTyped, Unrecorded, NEW a \in Agents, L!AgentStep(a)
  PROVE  /\ Unrecorded'
         /\ Cardinality(started') <= 1 => \A f \in Folders : labelRow[f] # None => labelRow'[f] = labelRow[f]
<1> USE DEF LabelTyped, L!Goto, L!Return, L!Assign, L!ran
<1>0. /\ LabelTyped'
      /\ \A b \in Agents \ {a} : at'[b] = at[b] /\ current'[b] = current[b]
  BY OneAgent
<1>1. started' = started \union {a} \/ (started' = started /\ at[a] # "idle")
  BY DEF L!AgentStep, L!Start, L!Stop, L!Map, L!Mapped, L!List, L!Create, L!CreateUnheard, L!CreateConflicts,
    L!RequestFails, L!Save, L!SaveRaises, L!Stream
<1>2. IsFiniteSet(started') /\ a \in started' /\ started \subseteq started'
  BY <1>1, FS_AddElement DEF Unrecorded
<1>3. \A b \in Agents : at'[b] # "idle" => b \in started'
  BY <1>0, <1>2 DEF Unrecorded
<1>4. Alone' => Alone /\ \A b \in Agents \ {a} : at'[b] = "idle"
  BY <1>2, <1>3 DEF Alone
<1>5. at'[a] \in Ensuring =>
        \/ at[a] = "map" /\ labelRow'[current'[a]] = None
        \/ at[a] \in Ensuring /\ current'[a] = current[a] /\ labelRow' = labelRow
  <2>1. CASE L!Start(a) \/ L!Stop(a) \/ L!Mapped(a) \/ L!Stream(a) \/ L!SaveRaises(a) \/ L!Save(a)
    BY <2>1 DEF L!Start, L!Stop, L!Mapped, L!Stream, L!SaveRaises, L!Save, Ensuring
  <2>2. CASE L!Map(a)
    BY <2>2 DEF L!Map, L!Cached, Ensuring
  <2>3. CASE L!List(a) \/ L!Create(a) \/ L!CreateUnheard(a) \/ L!CreateConflicts(a) \/ L!RequestFails(a)
    BY <2>3 DEF L!List, L!Create, L!CreateUnheard, L!CreateConflicts, L!RequestFails, Ensuring
  <2> QED
    BY <2>1, <2>2, <2>3 DEF L!AgentStep
<1>6. Unrecorded'
  BY <1>1, <1>2, <1>3, <1>4, <1>5 DEF Unrecorded, Ensuring
<1>7. labelRow' = labelRow \/ (at[a] = "save" /\ labelRow' = [labelRow EXCEPT ![current[a]] = label[a]])
  BY DEF L!AgentStep, L!Start, L!Stop, L!Map, L!Mapped, L!List, L!Create, L!CreateUnheard, L!CreateConflicts,
    L!RequestFails, L!Save, L!SaveRaises, L!Stream
<1>8. Cardinality(started') <= 1 => Alone'
  <2> SUFFICES ASSUME Cardinality(started') <= 1, NEW x \in started', NEW y \in started', x # y
               PROVE  FALSE
    BY DEF Alone
  <2>1. {x} \union {y} \subseteq started' /\ Cardinality({x} \union {y}) = 2
    <3>1. IsFiniteSet({x}) /\ Cardinality({x}) = 1 /\ y \notin {x}
      BY FS_Singleton
    <3>2. Cardinality({x} \union {y}) = Cardinality({x}) + 1
      BY <3>1, FS_AddElement, Zenon
    <3>3. {x} \union {y} \subseteq started'
      OBVIOUS
    <3> QED
      BY <3>1, <3>2, <3>3
  <2>2. Cardinality(started') \in Nat
    BY <1>2, FS_CardinalityType
  <2>3. Cardinality({x} \union {y}) <= Cardinality(started')
    BY <1>2, <2>1, FS_Subset
  <2> QED
    BY <2>1, <2>2, <2>3
<1>9. Cardinality(started') <= 1 => \A f \in Folders : labelRow[f] # None => labelRow'[f] = labelRow[f]
  BY <1>4, <1>7, <1>8 DEF Unrecorded, Ensuring
<1> QED
  BY <1>6, <1>9

\* What is known of the labels, as an invariant of their specification
THEOREM Labels ==
  ASSUME L!NamesAssumption
  PROVE  L!Spec => []LInv
<1>1. L!Init => LInv
  <2> SUFFICES ASSUME L!Init PROVE LInv
    OBVIOUS
  <2>1. LabelTyped
    BY DEF L!Init, LabelTyped
  <2>2. Excused
    BY DEF L!Init, Excused, L!InboxExplained, Ensuring, L!NamesAssumption, L!Custom, L!Accepted
  <2>3. Unrecorded
    BY FS_EmptySet DEF L!Init, Unrecorded, Ensuring
  <2> QED
    BY <2>1, <2>2, <2>3 DEF LInv
<1>2. LInv /\ [L!Next]_(L!vars) => LInv'
  <2> SUFFICES ASSUME LInv, [L!Next]_(L!vars) PROVE LInv'
    OBVIOUS
  <2>1. ASSUME NEW a \in Agents, L!AgentStep(a)
        PROVE  LInv'
    BY <2>1, OneAgent, ExcusedStep, UnrecordedStep DEF LInv
  <2>2. CASE UNCHANGED L!vars
    BY <2>2 DEF L!vars, LInv, LabelTyped, Excused, L!InboxExplained, Ensuring, Unrecorded, Alone, L!name
  <2> QED
    BY <2>1, <2>2 DEF L!Next, L!Terminated
<1> QED
  BY <1>1, <1>2, PTL DEF L!Spec

\* A custom folder is recorded as INBOX only after an error, or when another agent made
\* the label.
THEOREM InboxIsExplained ==
  ASSUME L!NamesAssumption
  PROVE  L!Spec => []L!InboxExplained
<1>1. LInv => L!InboxExplained
  BY DEF LInv, Excused
<1> QED
  BY <1>1, Labels, PTL

\* As long as one agent alone works on the mailbox, a recorded label is not recorded again.
THEOREM RecordedLabelsStay ==
  ASSUME L!NamesAssumption
  PROVE  L!Spec => L!MappingIsFinal
<1>1. LInv /\ [L!Next]_(L!vars) =>
        [L!Cardinality(started') <= 1 => \A f \in Folders : labelRow[f] # None => labelRow'[f] = labelRow[f]]_(L!vars)
  BY SameCardinality, UnrecordedStep DEF LInv, L!Next, L!Terminated
<1> QED
  BY <1>1, Labels, PTL DEF L!Spec, L!MappingIsFinal
=============================================================================
