---------------------------- MODULE SyncAgentProofs ----------------------------
(***************************************************************************)
(* Proofs about SyncAgent, for any sets of users and items, any numbers of *)
(* retries and any bounds: the accounting of the copies, the               *)
(* implementation of ItemLedger, the harmlessness of a dry run, and the    *)
(* truth of the summary.                                                   *)
(***************************************************************************)
EXTENDS SyncAgent, FiniteSetTheorems, TLAPS

\* An item the agent is working on is not recorded SYNCED, and the run is live:
\* what is_item_synced and dry_run have established before the first request. It
\* has an attempt left.
WorkInv ==
  /\ pc \in {"retry", "post", "record", "fail"} => status[item] # "SYNCED" /\ ~dry
  /\ pc \in {"retry", "post"} => attempt < MaxRetries

IInv == TypeOK /\ WorkInv /\ CopiesExplained

\* What the loops of execute do not touch, as far as IInv is concerned.
LEMMA LoopSteps ==
  ASSUME IInv,
         Start \/ Steer \/ NextUser \/ Fetch \/ FetchNothing \/ FetchRaises
           \/ FetchUnsupported \/ UserDone \/ Finish \/ NextItem \/ Check \/ FailRaises
  PROVE  IInv'
<1> USE BoundsAssumption, RetriesAssumption DEF IInv, TypeOK, WorkInv, CopiesExplained, Accounted, store, loop,
      tries, bounds, At, Running, NoTally, Count, WaitThen, Settle, Skips, SettlesAtOnce
<1>1. CASE Start
  BY <1>1 DEF Start
<1>2. CASE Steer
  BY <1>2 DEF Steer
<1>3. CASE NextUser \/ Fetch \/ FetchNothing
  BY <1>3 DEF NextUser, Fetch, FetchNothing
<1>4. CASE FetchRaises \/ FetchUnsupported
  BY <1>4 DEF FetchRaises, FetchUnsupported
<1>5. CASE UserDone \/ Finish \/ NextItem
  BY <1>5 DEF UserDone, Finish, NextItem
<1>6. CASE Check
  BY <1>6 DEF Check
<1>7. CASE FailRaises
  BY <1>7 DEF FailRaises
<1> QED
  BY <1>1, <1>2, <1>3, <1>4, <1>5, <1>6, <1>7

\* The requests: what they add to the copies, they add to the accounts.
LEMMA RequestSteps ==
  ASSUME IInv, Retry \/ PostAnswered \/ PostRefused \/ PostUnheard
  PROVE  IInv'
<1> USE BoundsAssumption, RetriesAssumption DEF IInv, TypeOK, WorkInv, CopiesExplained, Accounted, store, loop,
      tries, bounds, At
<1>1. CASE Retry
  BY <1>1 DEF Retry, Interrupted
<1>2. CASE PostAnswered
  BY <1>2 DEF PostAnswered
<1>3. CASE PostRefused
  BY <1>3 DEF PostRefused, PostRaises, Exhausted, NextAttempt
<1>4. CASE PostUnheard
  BY <1>4 DEF PostUnheard, PostRaises, Exhausted, NextAttempt
<1> QED
  BY <1>1, <1>2, <1>3, <1>4

\* The store, and the crash: an insertion becomes a row or is forgotten.
LEMMA StoreSteps ==
  ASSUME IInv, Crash \/ Record \/ RecordRaises \/ Fail
  PROVE  IInv'
<1> USE BoundsAssumption, RetriesAssumption DEF IInv, TypeOK, WorkInv, CopiesExplained, Accounted, store, loop,
      tries, bounds, At, Running, Count, Settle, Forget
<1>1. CASE Crash
  BY <1>1 DEF Crash
<1>2. CASE Record
  BY <1>2 DEF Record
<1>3. CASE RecordRaises
  BY <1>3 DEF RecordRaises
<1>4. CASE Fail
  BY <1>4 DEF Fail
<1> QED
  BY <1>1, <1>2, <1>3, <1>4

\* The inductive invariant holds in every reachable state.
THEOREM Inductive == Spec => []IInv
<1>1. Init => IInv
  <2>1. Init => TypeOK
    <3>1. NoTally \in [synced : Nat, skipped : Nat, failed : Nat]
      BY DEF NoTally
    <3>2. [i \in Items |-> 0] \in [Items -> Nat]
      OBVIOUS
    <3>3. [i \in Items |-> "none"] \in [Items -> {"none", "SYNCED", "FAILED"}]
      OBVIOUS
    <3>4. 0 \in 0 .. MaxRetries /\ 0 \in 0 .. MaxRequests /\ 0 \in Nat
      BY RetriesAssumption
    <3> QED
      BY <3>1, <3>2, <3>3, <3>4 DEF Init, TypeOK, At
  <2>2. Init => WorkInv /\ CopiesExplained
    BY DEF Init, WorkInv, CopiesExplained, Accounted
  <2> QED
    BY <2>1, <2>2 DEF IInv
<1>2. IInv /\ [Next]_vars => IInv'
  <2> SUFFICES ASSUME IInv, [Next]_vars PROVE IInv'
    OBVIOUS
  <2>1. CASE Start \/ Steer
    BY <2>1, LoopSteps
  <2>2. CASE Crash
    BY <2>2, StoreSteps
  <2>3. CASE AgentStep
    BY <2>3, LoopSteps, RequestSteps, StoreSteps DEF AgentStep
  <2>4. CASE UNCHANGED vars
    BY <2>4 DEF vars, IInv, TypeOK, WorkInv, CopiesExplained, Accounted
  <2> QED
    BY <2>1, <2>2, <2>3, <2>4 DEF Next, Terminated
<1> QED
  BY <1>1, <1>2, PTL DEF Spec

\* Every variable keeps its type.
THEOREM TypeCorrect == Spec => []TypeOK
<1>1. IInv => TypeOK
  BY DEF IInv
<1> QED
  BY <1>1, Inductive, PTL

\* A copy in Google Workspace is recorded, about to be recorded, or one that a
\* crash, a lost answer or a failing store made the run forget.
THEOREM CopiesAccounted == Spec => []CopiesExplained
<1>1. IInv => CopiesExplained
  BY DEF IInv
<1> QED
  BY <1>1, Inductive, PTL

-----------------------------------------------------------------------------
\* Each step of the agent is a step of the ledger or leaves it alone.
LEMMA LedgerStep ==
  ASSUME IInv, [Next]_vars
  PROVE  [Ledger!Next]_(Ledger!vars)
<1> USE DEF IInv, TypeOK, Ledger!vars
<1>1. CASE PostAnswered \/ PostUnheard
  <2>1. Ledger!Deliver(item)
    BY <1>1 DEF PostAnswered, PostUnheard, WorkInv, Ledger!Deliver
  <2> QED
    BY <2>1 DEF Ledger!Next
<1>2. CASE Record
  <2>1. copies[item] > 0
    BY <1>2 DEF Record, CopiesExplained, Accounted
  <2>2. Ledger!Confirm(item)
    BY <1>2, <2>1 DEF Record, WorkInv, Ledger!Confirm
  <2> QED
    BY <2>2 DEF Ledger!Next
<1>3. CASE Fail
  <2>1. Ledger!Reject(item)
    BY <1>3 DEF Fail, WorkInv, Ledger!Reject
  <2> QED
    BY <2>1 DEF Ledger!Next
<1>4. CASE ~(PostAnswered \/ PostUnheard \/ Record \/ Fail)
  BY <1>4 DEF Next, AgentStep, Terminated, Start, Crash, Steer, NextUser, Fetch, FetchNothing,
    FetchRaises, FetchUnsupported, NextItem, UserDone, Finish, Check, SettlesAtOnce, Skips, Retry, PostRefused,
    RecordRaises, FailRaises, store, vars
<1> QED
  BY <1>1, <1>2, <1>3, <1>4

\* The agents implement the ledger: recorded SYNCED means delivered, for good.
THEOREM Refinement == Spec => ImplementsLedger
<1>1. Init => Ledger!Init
  BY DEF Init, Ledger!Init
<1> QED
  BY <1>1, LedgerStep, Inductive, PTL DEF Spec, ImplementsLedger, Ledger!Spec

\* What a re-run skips because of its row has been inserted.
THEOREM RowsAreDelivered == Spec => []Ledger!SyncedIsDelivered
<1>1. IInv => Ledger!SyncedIsDelivered
  BY DEF IInv, TypeOK, CopiesExplained, Accounted, Ledger!SyncedIsDelivered
<1> QED
  BY <1>1, Inductive, PTL

\* No crash, retry or later run inserts a SYNCED item again or forgets its row.
THEOREM RowsAreFinal == Spec => Ledger!SyncedIsFinal
<1>1. IInv /\ [Next]_vars
        => [\A i \in Items : status[i] = "SYNCED"
              => status'[i] = "SYNCED" /\ copies'[i] = copies[i]]_(Ledger!vars)
  <2> SUFFICES ASSUME IInv, [Next]_vars, NEW i \in Items, status[i] = "SYNCED",
                      ~UNCHANGED Ledger!vars
               PROVE  status'[i] = "SYNCED" /\ copies'[i] = copies[i]
    BY DEF Ledger!vars
  <2>1. Ledger!Next
    BY LedgerStep
  <2> QED
    BY <2>1 DEF IInv, TypeOK, Ledger!Next, Ledger!Deliver, Ledger!Confirm, Ledger!Reject
<1> QED
  BY <1>1, Inductive, PTL DEF Spec, Ledger!SyncedIsFinal

\* A dry run writes nothing.
THEOREM DryRunSafe == Spec => DryRunWritesNothing
<1>1. IInv /\ [Next]_vars => [dry /\ Running => UNCHANGED store]_vars
  <2> SUFFICES ASSUME IInv, Next, dry, Running PROVE UNCHANGED store
    OBVIOUS
  <2>1. ~(PostAnswered \/ PostUnheard \/ Record \/ Fail)
    BY DEF IInv, WorkInv, PostAnswered, PostUnheard, Record, Fail
  <2> QED
    BY <2>1 DEF Next, AgentStep, Terminated, Start, Running, Crash, Steer, NextUser, Fetch,
      FetchNothing, FetchRaises, FetchUnsupported, NextItem, UserDone, Finish, Check, SettlesAtOnce, Skips, Retry,
      PostRefused, RecordRaises, FailRaises, store, vars
<1> QED
  BY <1>1, Inductive, PTL DEF Spec, DryRunWritesNothing

-----------------------------------------------------------------------------
(* The summary *)

AtItem == {"check", "retry", "post", "record", "fail"}
AtItems == AtItem \union {"item"}

\* Where the loops are
Place ==
  /\ pc \in AtItems \union {"fetch"} => user \in users
  /\ pc \in AtItems => \A i \in todo : Owner[i] = user
  /\ pc \in AtItem => item \in todo
  /\ pc = "done" => users = {}

\* The items that the run has gone through, and those it reports as failures
Pending(i) ==
  \/ Owner[i] \in users /\ (pc \in {"user", "fetch"} \/ Owner[i] # user)
  \/ pc \in AtItems /\ i \in todo
Gone == {i \in Items : ~Pending(i)}
Failures == {i \in Gone : status[i] # "SYNCED"}

Sums ==
  ~dry /\ lapses = {} /\ pc \notin {"idle", "aborted"} =>
    /\ tally.synced + tally.skipped + tally.failed = Cardinality(Gone)
    /\ tally.failed = Cardinality(Failures)

\* Items, and so what is counted of them, are finite.
LEMMA FiniteGone ==
  ASSUME NEW S \in SUBSET Items
  PROVE  IsFiniteSet(S) /\ Cardinality(S) \in Nat
BY OwnerAssumption, FS_Subset, FS_CardinalityType

\* An item that is settled has been pending, and is counted where its row says.
LEMMA SettleSums ==
  ASSUME IInv, IInv', Place, Sums, NEW f \in {"synced", "skipped", "failed"},
         pc \in AtItem, Settle(f), UNCHANGED <<dry, users, user, lapses>>,
         \A i \in Items : i # item => status'[i] = status[i],
         ~dry => (f = "failed" <=> status'[item] # "SYNCED")
  PROVE  Place' /\ Sums'
<1>1. /\ pc' = "item" /\ todo' = todo \ {item} /\ item \in todo /\ item \in Items
      /\ \A i \in todo : Owner[i] = user
  BY DEF Settle, Place, AtItems, IInv, TypeOK
<1>2. Place'
  BY <1>1 DEF Place, AtItem, AtItems
<1>3. Gone' = Gone \union {item} /\ item \notin Gone
  BY <1>1, OwnerAssumption DEF Gone, Pending, AtItem, AtItems
<1>4. Failures' = IF status'[item] # "SYNCED" THEN Failures \union {item} ELSE Failures
  BY <1>1, <1>3 DEF Failures, Gone
<1>5. ASSUME ~dry, lapses = {}
      PROVE  /\ tally'.synced + tally'.skipped + tally'.failed = Cardinality(Gone')
             /\ tally'.failed = Cardinality(Failures')
  <2>1. /\ Gone \in SUBSET Items /\ Failures \in SUBSET Items /\ item \notin Failures
    BY <1>3 DEF Gone, Failures
  <2>2. /\ Cardinality(Gone \union {item}) = Cardinality(Gone) + 1
        /\ Cardinality(Failures \union {item}) = Cardinality(Failures) + 1
        /\ Cardinality(Gone) \in Nat /\ Cardinality(Failures) \in Nat
    BY <1>3, <2>1, FiniteGone, FS_AddElement
  <2>3. /\ tally.synced + tally.skipped + tally.failed = Cardinality(Gone)
        /\ tally.failed = Cardinality(Failures)
    BY <1>5 DEF Sums, AtItem
  <2>4. tally \in [synced : Nat, skipped : Nat, failed : Nat] /\ tally' = [tally EXCEPT ![f] = @ + 1]
    BY DEF Settle, Count, IInv, TypeOK
  <2>5. /\ tally'.synced + tally'.skipped + tally'.failed = tally.synced + tally.skipped + tally.failed + 1
        /\ tally'.failed = IF f = "failed" THEN tally.failed + 1 ELSE tally.failed
    BY <2>4
  <2> QED
    BY <1>3, <1>4, <1>5, <2>2, <2>3, <2>5
<1> QED
  BY <1>1, <1>2, <1>5 DEF Sums

\* Steps that settle nothing leave what is pending as it is.
LEMMA OtherSums ==
  ASSUME IInv, Place, Sums, UNCHANGED <<status, tally, lapses, dry>>,
         Crash \/ Steer \/ NextUser \/ Fetch \/ NextItem \/ UserDone \/ Finish \/ Check
           \/ Retry \/ RecordRaises
  PROVE  Place' /\ Sums'
<1> USE DEF AtItem, AtItems, store, loop, tries
<1>1. CASE Crash
  BY <1>1 DEF Crash, Place, Sums
<1>2. ASSUME ~Crash, pc' # "aborted"
      PROVE  Place' /\ \A i \in Items : Pending(i)' <=> Pending(i)
  <2>1. CASE Steer \/ RecordRaises
    BY <2>1 DEF Steer, RecordRaises, Place, Pending
  <2>2. CASE NextUser
    BY <1>2, <2>2 DEF NextUser, WaitThen, Place, Pending
  <2>3. CASE Fetch
    BY <2>3 DEF Fetch, Place, Pending
  <2>4. CASE NextItem
    BY <1>2, <2>4 DEF NextItem, WaitThen, Place, Pending
  <2>5. CASE UserDone
    BY <2>5 DEF UserDone, Place, Pending
  <2>6. CASE Finish
    BY <2>6 DEF Finish, Place, Pending
  <2>7. CASE Check
    <3>1. pc = "check" /\ pc' = "retry" /\ UNCHANGED <<users, user, item, todo>>
      BY <2>7 DEF Check, Settle, Count, IInv, TypeOK
    <3> QED
      BY <3>1 DEF Place, Pending
  <2>8. CASE Retry
    BY <2>8 DEF Retry, Place, Pending
  <2> QED
    BY <1>2, <2>1, <2>2, <2>3, <2>4, <2>5, <2>6, <2>7, <2>8
<1>3. CASE ~Crash /\ pc' # "aborted"
  <2>1. Gone' = Gone /\ Failures' = Failures
    BY <1>2, <1>3 DEF Gone, Failures
  <2>2. pc \notin {"idle", "aborted"}
    BY <1>3 DEF Steer, Running, NextUser, Fetch, NextItem, UserDone, Finish, Check, Retry, RecordRaises
  <2> QED
    BY <1>2, <1>3, <2>1, <2>2 DEF Sums
<1>4. CASE pc' = "aborted"
  BY <1>4 DEF Place, Sums
<1> QED
  BY <1>1, <1>3, <1>4

\* The requests leave the items where they are; what is raised while an item is
\* current sends it to its handler.
LEMMA RequestSums ==
  ASSUME IInv, Place, Sums, PostAnswered \/ PostRefused \/ PostUnheard
  PROVE  Place' /\ Sums'
<1>1. /\ pc = "post" /\ pc' \in AtItem
      /\ UNCHANGED <<status, tally, lapses, dry, users, user, todo, item>>
  BY DEF PostAnswered, PostRefused, PostUnheard, PostRaises, store, loop, AtItem
<1>2. Place'
  BY <1>1 DEF Place, AtItem, AtItems
<1>3. \A i \in Items : Pending(i)' <=> Pending(i)
  BY <1>1 DEF Pending, AtItem, AtItems
<1>4. Gone' = Gone /\ Failures' = Failures
  BY <1>1, <1>3 DEF Gone, Failures
<1> QED
  BY <1>1, <1>2, <1>4 DEF Sums, AtItem

\* A run starts with every item pending; one that could not list a user, or that
\* an exception ends, promises nothing more.
LEMMA EdgeSums ==
  ASSUME IInv, Place, Sums,
         Start \/ FetchNothing \/ FetchRaises \/ FetchUnsupported \/ FailRaises
  PROVE  Place' /\ Sums'
<1> USE DEF AtItem, AtItems
<1>1. CASE Start
  <2>1. pc' = "user" /\ users' = Users /\ tally' = NoTally
    BY <1>1 DEF Start
  <2>2. Gone' = {} /\ Failures' = {}
    BY <2>1, OwnerAssumption DEF Gone, Failures, Pending
  <2> QED
    BY <2>1, <2>2, FS_EmptySet DEF Place, Sums, NoTally
<1>2. CASE FetchNothing
  <2>1. lapses' # {} /\ pc' = "item" /\ todo' = {} /\ user \in users
        /\ UNCHANGED <<users, user>>
    BY <1>2 DEF FetchNothing, Place
  <2> QED
    BY <2>1 DEF Place, Sums
<1>3. CASE FetchRaises \/ FetchUnsupported
  <2>1. lapses' # {} /\ pc' = "user"
    BY <1>3 DEF FetchRaises, FetchUnsupported, Place
  <2> QED
    BY <2>1 DEF Place, Sums
<1>4. CASE FailRaises
  BY <1>4 DEF FailRaises, Place, Sums
<1> QED
  BY <1>1, <1>2, <1>3, <1>4

\* The three ways an item is settled: by Check, by Record, by Fail.
LEMMA SettlingSums ==
  ASSUME IInv, IInv', Place, Sums, ~UNCHANGED tally, Check \/ Record \/ Fail
  PROVE  Place' /\ Sums'
<1> USE DEF AtItem, store
<1>1. CASE Check
  <2>1. CASE Skips
    BY <1>1, <2>1, SettleSums DEF Check, SettlesAtOnce, Skips
  <2>2. CASE ~Skips
    BY <1>1, <2>2, SettleSums DEF Check, SettlesAtOnce
  <2> QED
    BY <2>1, <2>2
<1>2. CASE Record
  <2>1. status'[item] = "SYNCED" /\ \A i \in Items : i # item => status'[i] = status[i]
    BY <1>2 DEF Record, IInv, TypeOK
  <2> QED
    BY <1>2, <2>1, SettleSums DEF Record
<1>3. CASE Fail
  <2>1. status'[item] # "SYNCED" /\ \A i \in Items : i # item => status'[i] = status[i]
    BY <1>3 DEF Fail, IInv, TypeOK
  <2> QED
    BY <1>3, <2>1, SettleSums DEF Fail
<1> QED
  BY <1>1, <1>2, <1>3

\* A live run that listed every user counts each item once, and reports as
\* failures exactly the rows that are not SYNCED, whatever the network, the
\* store and earlier runs did.
THEOREM SummaryHolds == Spec => []SummaryIsTrue
<1>1. Init => Place /\ Sums
  BY DEF Init, Place, Sums, AtItem, AtItems
<1>2. IInv /\ IInv' /\ Place /\ Sums /\ [Next]_vars => Place' /\ Sums'
  <2> SUFFICES ASSUME IInv, IInv', Place, Sums, [Next]_vars PROVE Place' /\ Sums'
    OBVIOUS
  <2>1. CASE Start \/ FetchNothing \/ FetchRaises \/ FetchUnsupported \/ FailRaises
    BY <2>1, EdgeSums
  <2>2. CASE PostAnswered \/ PostRefused \/ PostUnheard
    BY <2>2, RequestSums
  <2>3. CASE (Check /\ ~UNCHANGED tally) \/ Record \/ Fail
    <3>1. ~UNCHANGED tally
      BY <2>3 DEF Record, Fail, Settle, Count, IInv, TypeOK
    <3> QED
      BY <2>3, <3>1, SettlingSums
  <2>4. CASE \/ Crash \/ Steer \/ NextUser \/ Fetch \/ NextItem \/ UserDone \/ Finish
             \/ (Check /\ UNCHANGED tally) \/ Retry \/ RecordRaises
    <3>1. UNCHANGED <<status, tally, lapses, dry>>
      BY <2>4 DEF Crash, Steer, NextUser, Fetch, NextItem, UserDone, Finish, Check, Retry,
        RecordRaises, store, loop
    <3> QED
      BY <2>4, <3>1, OtherSums
  <2>5. CASE UNCHANGED vars
    BY <2>5 DEF vars, Place, Sums, Gone, Failures, Pending, AtItem, AtItems
  <2> QED
    BY <2>1, <2>2, <2>3, <2>4, <2>5 DEF Next, AgentStep, Terminated
<1>3. IInv /\ Place /\ Sums => SummaryIsTrue
  <2> SUFFICES ASSUME Place, Sums, pc = "done" PROVE SummaryIsTrue
    BY DEF SummaryIsTrue
  <2>1. Gone = Items
    BY DEF Gone, Pending, Place, AtItem, AtItems
  <2> QED
    BY <2>1 DEF Sums, Failures, SummaryIsTrue
<1> QED
  BY <1>1, <1>2, <1>3, Inductive, PTL DEF Spec
=============================================================================
