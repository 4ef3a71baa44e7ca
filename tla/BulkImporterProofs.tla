--------------------------- MODULE BulkImporterProofs ---------------------------
(***************************************************************************)
(* Proofs about BulkImporter, for any archives and mailboxes, any pool and *)
(* any number of lost answers, crashes and runs: what the items table says *)
(* of Gmail, what SUCCESS means, and who can take an imported message back *)
(* when several archives belong to one mailbox.                            *)
(***************************************************************************)
EXTENDS BulkImporter, TLAPS, FiniteSetTheorems, SequenceTheorems

Typed ==
  /\ row \in [Keys -> Rows]
  /\ copies \in [Keys -> Nat] /\ unheard \in [Keys -> Nat]
  /\ DOMAIN pc = Archives /\ DOMAIN left = Archives /\ DOMAIN results = Mailboxes
  /\ \A a \in Archives : left[a] \in Seq(Messages)
  /\ tally \in [Archives -> [synced : Nat, skipped : Nat, failed : Nat]]

\* What of its archive a thread has been through
Handled(a) == Len(Contents[a]) - Len(left[a])

\* A thread goes through its archive entry by entry.
Position ==
  \A a \in Archives : alive \/ pc[a] # "queued" =>
    /\ Handled(a) \in 0 .. Len(Contents[a])
    /\ \A j \in 1 .. Len(left[a]) : left[a][j] = Contents[a][Handled(a) + j]

\* Another thread of the mailbox has been through the message at hand.
Overtaken(a) == \E b \in Siblings(a) : Through(b, Head(left[a]))

\* From the look at the items table to the row a message is not one to skip, unless a
\* thread of the same mailbox has been through it.
WorkInv == \A a \in Archives : pc[a] \in Past => left[a] # <<>> /\ (Skips(key(a)) => Overtaken(a))

\* Between two runs no thread is at work.
Idle == alive \/ \A a \in Archives : pc[a] \in {"queued", "reported"}

IInv == Typed /\ Position /\ WorkInv /\ Idle /\ CopiesExplained

\* What the only thread of a mailbox has been through is recorded unless it counts a
\* failure; SUCCESS means that it was through.
Progress ==
  \A a \in Archives :
    /\ pc[a] = "ended" => left[a] = <<>>
    /\ Siblings(a) = {} =>
         /\ (alive \/ pc[a] # "queued") /\ tally[a].failed = 0 =>
              \A j \in 1 .. Handled(a) : Skips(<<Mailbox[a], Contents[a][j]>>)
         /\ pc[a] = "reported" /\ results[Mailbox[a]] = "SUCCESS" => left[a] = <<>> /\ tally[a].failed = 0

\* The entry at hand belongs to the mailbox of the archive.
LEMMA OwnKey ==
  ASSUME Typed, NEW a \in Archives, left[a] # <<>>
  PROVE  key(a) \in Keys
<1>1. left[a] \in Seq(Messages) /\ Mailbox[a] \in Mailboxes
  BY ArchiveAssumption DEF Typed
<1>2. Head(left[a]) \in Messages
  BY <1>1, HeadTailProperties, EmptySeq
<1> QED
  BY <1>1, <1>2 DEF Keys, key

\* A thread leaves the others alone, and the results of other mailboxes.
LEMMA OneThread ==
  ASSUME Typed, NEW a \in Archives, ArchiveStep(a)
  PROVE  /\ \A b \in Archives \ {a} : pc'[b] = pc[b] /\ left'[b] = left[b] /\ tally'[b] = tally[b]
         /\ \A u \in Mailboxes \ {Mailbox[a]} : results'[u] = results[u]
         /\ alive' = alive /\ (Idle => alive)
<1> USE DEF Typed, Goto, Settle, Leave, store, Idle, Past
<1>1. CASE Take(a) \/ End(a) \/ Break(a) \/ RecordRaises(a) \/ PostAnswered(a)
  BY <1>1 DEF Take, End, Break, RecordRaises, PostAnswered
<1>2. CASE Report(a)
  BY <1>2 DEF Report
<1>3. CASE Entry(a) \/ Simulate(a)
  BY <1>3 DEF Entry, Simulate
<1>4. CASE PostRefused(a) \/ PostUnheard(a)
  BY <1>4 DEF PostRefused, PostUnheard, PostRaises
<1>5. CASE Record(a) \/ Fail(a)
  BY <1>5 DEF Record, Fail
<1> QED
  BY <1>1, <1>2, <1>3, <1>4, <1>5 DEF ArchiveStep

\* A thread keeps the entry at hand, or is done with it.
LEMMA OneEntry ==
  ASSUME Typed, WorkInv, NEW a \in Archives, ArchiveStep(a)
  PROVE  \/ left' = left
         \/ left[a] # <<>> /\ left' = [left EXCEPT ![a] = Tail(@)] /\ pc'[a] = "entry"
<1> USE DEF Typed, Goto, Settle, store, Past
<1>1. CASE Simulate(a) \/ Record(a) \/ Fail(a)
  BY <1>1 DEF Simulate, Record, Fail, WorkInv
<1>2. CASE Entry(a)
  BY <1>2 DEF Entry
<1>3. CASE ~(Simulate(a) \/ Record(a) \/ Fail(a) \/ Entry(a))
  BY <1>3 DEF ArchiveStep, Take, Report, End, Break, PostAnswered, PostRefused, PostUnheard, RecordRaises
<1> QED
  BY <1>1, <1>2, <1>3

\* One more of a message is a count again.
LEMMA OneMore ==
  ASSUME NEW counts \in [Keys -> Nat], NEW k \in Keys
  PROVE  [counts EXCEPT ![k] = @ + 1] \in [Keys -> Nat]
OBVIOUS

\* ... and a tally a tally
LEMMA OneMoreTallied ==
  ASSUME NEW tallies \in [Archives -> [synced : Nat, skipped : Nat, failed : Nat]], NEW a \in Archives,
         NEW f \in {"synced", "skipped", "failed"}
  PROVE  [tallies EXCEPT ![a][f] = @ + 1] \in [Archives -> [synced : Nat, skipped : Nat, failed : Nat]]
<1> DEFINE Tally == [synced : Nat, skipped : Nat, failed : Nat]
           t == tallies[a]
<1>1. t \in Tally
  OBVIOUS
<1>2. [t EXCEPT ![f] = @ + 1] \in Tally
  <2>1. CASE f = "synced"
    <3>1. t.synced + 1 \in Nat
      BY <1>1
    <3> QED
      BY <1>1, <2>1, <3>1
  <2>2. CASE f = "skipped"
    <3>1. t.skipped + 1 \in Nat
      BY <1>1
    <3> QED
      BY <1>1, <2>2, <3>1
  <2>3. CASE f = "failed"
    <3>1. t.failed + 1 \in Nat
      BY <1>1
    <3> QED
      BY <1>1, <2>3, <3>1
  <2> QED
    BY <2>1, <2>2, <2>3
<1> QED
  BY <1>2

\* An entry that has been handled, and what is left then
LEMMA OneHandled ==
  ASSUME NEW a \in Archives, left[a] \in Seq(Messages), left[a] # <<>>,
         DOMAIN left = Archives, left' = [left EXCEPT ![a] = Tail(@)],
         Handled(a) \in 0 .. Len(Contents[a]),
         \A j \in 1 .. Len(left[a]) : left[a][j] = Contents[a][Handled(a) + j]
  PROVE  /\ Handled(a)' = Handled(a) + 1
         /\ Handled(a)' \in 0 .. Len(Contents[a])
         /\ \A j \in 1 .. Len(left'[a]) : left'[a][j] = Contents[a][Handled(a)' + j]
         /\ Head(left[a]) = Contents[a][Handled(a)']
<1>1. /\ left'[a] \in Seq(Messages) /\ Len(left[a]) \in Nat \ {0} /\ Len(left'[a]) = Len(left[a]) - 1
      /\ \A j \in 1 .. Len(left'[a]) : left'[a][j] = left[a][j + 1]
      /\ Head(left[a]) = left[a][1]
  BY HeadTailProperties, EmptySeq
<1>2. Len(Contents[a]) \in Nat
  BY ArchiveAssumption
<1>3. Handled(a)' = Handled(a) + 1
  BY <1>1, <1>2 DEF Handled
<1>4. Handled(a)' \in 0 .. Len(Contents[a])
  BY <1>1, <1>2 DEF Handled
<1>5. ASSUME NEW j \in 1 .. Len(left'[a])
      PROVE  left'[a][j] = Contents[a][Handled(a)' + j]
  <2>1. j + 1 \in 1 .. Len(left[a]) /\ Handled(a)' + j = Handled(a) + (j + 1)
    BY <1>1, <1>2, <1>3
  <2> QED
    BY <1>1, <2>1
<1>6. Head(left[a]) = Contents[a][Handled(a)']
  BY <1>1, <1>3
<1> QED
  BY <1>3, <1>4, <1>5, <1>6

\* A step of a thread takes it on through its own archive.
LEMMA PositionStep ==
  ASSUME Typed, Position, WorkInv, Idle, NEW a \in Archives, ArchiveStep(a)
  PROVE  /\ Position'
         /\ \A b \in Archives : Handled(b) \in 0 .. Len(Contents[b])
         /\ \A b \in Archives : left'[b] = left[b] => Handled(b)' = Handled(b)
         /\ left' # left => Handled(a)' = Handled(a) + 1 /\ Head(left[a]) = Contents[a][Handled(a)']
<1>1. \A b \in Archives \ {a} : pc'[b] = pc[b] /\ left'[b] = left[b]
  BY OneThread
<1>2. alive /\ alive'
  BY OneThread
<1>3. \A b \in Archives : left'[b] = left[b] => Handled(b)' = Handled(b)
  BY DEF Handled
<1>4. \A b \in Archives : /\ Handled(b) \in 0 .. Len(Contents[b])
                          /\ \A j \in 1 .. Len(left[b]) : left[b][j] = Contents[b][Handled(b) + j]
  BY <1>2 DEF Position
<1>5. CASE left' = left
  BY <1>3, <1>4, <1>5 DEF Position
<1>6. CASE left' # left
  <2>1. left[a] # <<>> /\ left' = [left EXCEPT ![a] = Tail(@)] /\ DOMAIN left = Archives
        /\ left[a] \in Seq(Messages)
    BY <1>6, OneEntry DEF Typed
  <2>2. /\ Handled(a)' = Handled(a) + 1
        /\ Handled(a)' \in 0 .. Len(Contents[a])
        /\ \A j \in 1 .. Len(left'[a]) : left'[a][j] = Contents[a][Handled(a)' + j]
        /\ Head(left[a]) = Contents[a][Handled(a)']
    BY <1>4, <2>1, OneHandled
  <2>3. ASSUME NEW b \in Archives
        PROVE  /\ Handled(b)' \in 0 .. Len(Contents[b])
               /\ \A j \in 1 .. Len(left'[b]) : left'[b][j] = Contents[b][Handled(b)' + j]
    <3>1. CASE b = a
      BY <2>2, <3>1
    <3>2. CASE b # a
      <4>1. left'[b] = left[b] /\ Handled(b)' = Handled(b)
        BY <1>1, <1>3, <3>2
      <4> QED
        BY <1>4, <4>1
    <3> QED
      BY <3>1, <3>2
  <2>4. Position'
    BY <2>3 DEF Position
  <2> QED
    BY <1>3, <1>4, <2>2, <2>4
<1> QED
  BY <1>5, <1>6

\* What is left is not what there was.
LEMMA OneFewer ==
  ASSUME NEW entries \in Seq(Messages), entries # <<>>
  PROVE  Tail(entries) # entries
<1>1. PICK rest : rest = Tail(entries)
  OBVIOUS
<1>2. PICK n \in Nat : n = Len(entries)
  OBVIOUS
<1>3. Len(rest) = n - 1
  BY <1>1, <1>2, HeadTailProperties
<1> QED
  BY <1>1, <1>2, <1>3

\* What a thread has been through it stays through, to the end of the run.
LEMMA ThroughKept ==
  ASSUME Typed, Position, WorkInv, Idle, NEW a \in Archives, ArchiveStep(a)
  PROVE  /\ \A b \in Archives, m \in Messages : Through(b, m) => Through(b, m)'
         /\ \A m : m = Head(left[a]) /\ left' # left => Through(a, m)'
<1>1. \A b \in Archives : Len(Contents[b]) \in Nat
  BY ArchiveAssumption
<1>2. \A b \in Archives : Handled(b) \in 0 .. Len(Contents[b]) /\ Handled(b)' \in 0 .. Len(Contents[b])
                          /\ Handled(b)' \in {Handled(b), Handled(b) + 1}
  <2>1. \A b \in Archives : Handled(b)' \in 0 .. Len(Contents[b])
    BY PositionStep, OneThread DEF Position
  <2>2. ASSUME NEW b \in Archives
        PROVE  Handled(b)' \in {Handled(b), Handled(b) + 1}
    <3>1. CASE left'[b] = left[b]
      BY <3>1, PositionStep
    <3>2. CASE left'[b] # left[b]
      BY <3>2, PositionStep, OneThread
    <3> QED
      BY <3>1, <3>2
  <2> QED
    BY <2>1, <2>2, PositionStep
<1>3. ASSUME NEW b \in Archives, NEW m \in Messages, Through(b, m)
      PROVE  Through(b, m)'
  <2>1. PICK j \in 1 .. Handled(b) : Contents[b][j] = m
    BY <1>3 DEF Through, Handled
  <2>2. j \in 1 .. Handled(b)'
    BY <1>1, <1>2
  <2> QED
    BY <2>1, <2>2 DEF Through, Handled
<1>4. ASSUME left' # left, NEW m, m = Head(left[a])
      PROVE  Through(a, m)'
  <2>1. Handled(a)' = Handled(a) + 1 /\ m = Contents[a][Handled(a)']
    BY <1>4, PositionStep
  <2>2. Handled(a)' \in 1 .. Handled(a)'
    BY <1>1, <1>2, <2>1
  <2> QED
    BY <2>1, <2>2 DEF Through, Handled
<1> QED
  BY <1>3, <1>4

\* Rows and copies change for the entry at hand only, once the table has been asked.
LEMMA OwnRow ==
  ASSUME Typed, NEW a \in Archives, ArchiveStep(a)
  PROVE  /\ \A k \in Keys \ {key(a)} : row'[k] = row[k] /\ copies'[k] = copies[k] /\ unheard'[k] = unheard[k]
         /\ row' # row \/ copies' # copies \/ unheard' # unheard => pc[a] \in Past
         /\ row' # row => left' = [left EXCEPT ![a] = Tail(@)] /\ pc'[a] = "entry"
<1> USE DEF Typed, Goto, Settle, Put, store, Past
<1>1. CASE Simulate(a) \/ Record(a) \/ Fail(a)
  BY <1>1 DEF Simulate, Record, Fail
<1>2. CASE PostAnswered(a) \/ PostUnheard(a) \/ RecordRaises(a)
  BY <1>2 DEF PostAnswered, PostUnheard, RecordRaises
<1>3. CASE ~(Simulate(a) \/ Record(a) \/ Fail(a) \/ PostAnswered(a) \/ PostUnheard(a) \/ RecordRaises(a))
  BY <1>3 DEF ArchiveStep, Take, Report, End, Break, Entry, PostRefused
<1> QED
  BY <1>1, <1>2, <1>3

\* The types are kept.
LEMMA TypedStep ==
  ASSUME Typed, WorkInv, NEW a \in Archives, ArchiveStep(a)
  PROVE  Typed'
<1> USE DEF Goto, Settle, Leave, Put, store, Past
<1>1. DOMAIN pc' = Archives /\ DOMAIN results' = Mailboxes
  BY DEF Typed, ArchiveStep, Take, Report, End, Break, Entry, Simulate, PostAnswered, PostRefused, PostUnheard,
    PostRaises, Record, RecordRaises, Fail
<1>2. DOMAIN left' = Archives /\ \A b \in Archives : left'[b] \in Seq(Messages)
  <2>1. CASE left' = left
    BY <2>1 DEF Typed
  <2>2. CASE left[a] # <<>> /\ left' = [left EXCEPT ![a] = Tail(@)]
    <3>1. Tail(left[a]) \in Seq(Messages)
      BY <2>2, HeadTailProperties DEF Typed
    <3> QED
      BY <2>2, <3>1 DEF Typed
  <2> QED
    BY <2>1, <2>2, OneEntry
<1>3. tally' \in [Archives -> [synced : Nat, skipped : Nat, failed : Nat]]
  <2>1. \/ tally' = tally
        \/ \E f \in {"synced", "skipped", "failed"} : tally' = [tally EXCEPT ![a][f] = @ + 1]
    BY DEF ArchiveStep, Take, Report, End, Break, Entry, Simulate, PostAnswered, PostRefused, PostUnheard,
      Record, RecordRaises, Fail
  <2>2. CASE tally' # tally
    <3>1. PICK f \in {"synced", "skipped", "failed"} : tally' = [tally EXCEPT ![a][f] = @ + 1]
      BY <2>1, <2>2
    <3> QED
      BY <3>1, OneMoreTallied DEF Typed
  <2> QED
    BY <2>2 DEF Typed
<1>4. row' \in [Keys -> Rows]
  <2>1. row' = row \/ \E s \in Rows : row' = [row EXCEPT ![key(a)] = s]
    BY DEF Rows, ArchiveStep, Take, Report, End, Break, Entry, Simulate, PostAnswered, PostRefused, PostUnheard,
      Record, RecordRaises, Fail
  <2> QED
    BY <2>1 DEF Typed
<1>5. copies' \in [Keys -> Nat] /\ unheard' \in [Keys -> Nat]
  <2>1. CASE pc[a] \in Past
    <3>1. PICK k \in Keys : k = key(a)
      BY <2>1, OwnKey DEF WorkInv
    <3>2. /\ copies' \in {copies, [copies EXCEPT ![k] = @ + 1]}
          /\ unheard' \in {unheard, [unheard EXCEPT ![k] = @ + 1]}
      BY <3>1 DEF ArchiveStep, Take, Report, End, Break, Entry, Simulate, PostAnswered, PostRefused, PostUnheard,
        Record, RecordRaises, Fail
    <3>3. copies \in [Keys -> Nat] /\ unheard \in [Keys -> Nat]
      BY DEF Typed
    <3>4. [copies EXCEPT ![k] = @ + 1] \in [Keys -> Nat] /\ [unheard EXCEPT ![k] = @ + 1] \in [Keys -> Nat]
      BY <3>3, OneMore
    <3> QED
      BY <3>2, <3>3, <3>4
  <2>2. CASE pc[a] \notin Past
    <3>1. copies' = copies /\ unheard' = unheard
      BY <2>2, OwnRow
    <3> QED
      BY <3>1 DEF Typed
  <2> QED
    BY <2>1, <2>2
<1> QED
  BY <1>1, <1>2, <1>3, <1>4, <1>5 DEF Typed

\* The look at the table and what comes after it: a message that has been recorded
\* since has been through the hands of another thread.
LEMMA WorkStep ==
  ASSUME Typed, Position, WorkInv, Idle, NEW a \in Archives, ArchiveStep(a)
  PROVE  WorkInv'
<1>1. \A b \in Archives \ {a} : pc'[b] = pc[b] /\ left'[b] = left[b]
  BY OneThread
<1>2. ASSUME NEW b \in Archives, left'[b] = left[b], left[b] # <<>>, Overtaken(b)
      PROVE  Overtaken(b)'
  <2>1. PICK m \in Messages : m = Head(left[b])
    BY <1>2, HeadTailProperties, EmptySeq DEF Typed
  <2>2. PICK c \in Siblings(b) : Through(c, m)
    BY <1>2, <2>1 DEF Overtaken
  <2>3. Through(c, m)'
    BY <2>2, ThroughKept DEF Siblings
  <2> QED
    BY <1>2, <2>1, <2>2, <2>3 DEF Overtaken
<1>3. ASSUME NEW b \in Archives, pc'[b] \in Past
      PROVE  left'[b] # <<>> /\ (Skips(key(b))' => Overtaken(b)')
  <2>1. left'[b] = left[b] /\ left[b] # <<>> /\ (Skips(key(b)) => Overtaken(b))
    <3>1. CASE b = a
      <4>1. CASE pc[a] \in Past
        BY <1>3, <3>1, <4>1, OneEntry DEF WorkInv, Past
      <4>2. CASE pc[a] \notin Past
        BY <1>3, <3>1, <4>2 DEF ArchiveStep, Take, Report, End, Break, Entry, Settle, Simulate, PostAnswered,
          PostRefused, PostUnheard, Record, RecordRaises, Fail, Goto, Past, Typed
      <4> QED
        BY <4>1, <4>2
    <3>2. CASE b # a
      BY <1>1, <1>3, <3>2 DEF WorkInv
    <3> QED
      BY <3>1, <3>2
  <2>2. PICK k \in Keys : k = key(b)
    BY <2>1, OwnKey
  <2>3. k = key(b)'
    BY <2>1, <2>2 DEF key
  <2>4. ASSUME row'[k] # row[k]
        PROVE  Overtaken(b)'
    <3>1. k = key(a) /\ left' # left /\ b # a
      <4>1. k = key(a) /\ pc[a] \in Past /\ pc'[a] = "entry" /\ left' = [left EXCEPT ![a] = Tail(@)]
        BY <2>4, OwnRow
      <4>2. left[a] # <<>> /\ left[a] \in Seq(Messages)
        BY <4>1 DEF WorkInv, Typed
      <4>3. Tail(left[a]) # left[a]
        BY <4>2, OneFewer
      <4> QED
        BY <1>3, <4>1, <4>3 DEF Past, Typed
    <3>2. PICK m : m = Head(left[b])
      OBVIOUS
    <3>3. m = Head(left[a]) /\ Mailbox[a] = Mailbox[b]
      BY <2>2, <3>1, <3>2 DEF key
    <3>4. Through(a, m)'
      BY <3>1, <3>3, ThroughKept
    <3> QED
      BY <2>1, <3>1, <3>2, <3>3, <3>4 DEF Overtaken, Siblings
  <2>5. CASE row'[k] = row[k]
    <3>1. Skips(key(b))' => Skips(key(b))
      BY <2>2, <2>3, <2>5 DEF Skips
    <3> QED
      BY <1>2, <2>1, <3>1
  <2> QED
    BY <2>1, <2>4, <2>5
<1> QED
  BY <1>3 DEF WorkInv

\* Who records a message is one thread more, or one less.
LEMMA Recorders ==
  ASSUME Typed, WorkInv, NEW a \in Archives, ArchiveStep(a), NEW k \in Keys
  PROVE  /\ k # key(a) => Recording(k)' = Recording(k)
         /\ k = key(a) => Recording(k)' = IF pc'[a] = "record" THEN Recording(k) \union {a}
                                                              ELSE Recording(k) \ {a}
<1>1. \A b \in Archives \ {a} : pc'[b] = pc[b] /\ left'[b] = left[b]
  BY OneThread
<1>2. pc'[a] = "record" => left'[a] = left[a]
  BY OneEntry
<1>3. \A b \in Archives \ {a} : key(b)' = key(b)
  BY <1>1 DEF key
<1>4. pc'[a] = "record" => key(a)' = key(a)
  BY <1>2 DEF key
<1>5. pc'[a] = "record" \/ pc[a] # "record" \/ k = key(a) \/ a \notin Recording(k)
  BY DEF Recording
<1> QED
  BY <1>1, <1>3, <1>4, <1>5 DEF Recording

\* There are finitely many threads.
LEMMA FiniteRecorders ==
  ASSUME NEW k
  PROVE  /\ IsFiniteSet(Recording(k)) /\ Cardinality(Recording(k)) \in Nat
<1>1. Recording(k) \subseteq Archives
  BY DEF Recording
<1> QED
  BY <1>1, ArchiveAssumption, FS_Subset, FS_CardinalityType

\* ... which the number of them shows.
LEMMA RecordersCounted ==
  ASSUME Typed, WorkInv, NEW a \in Archives, ArchiveStep(a), NEW k \in Keys, k = key(a)
  PROVE  /\ pc[a] # "record" /\ pc'[a] # "record" =>
              Cardinality(Recording(k)') = Cardinality(Recording(k))
         /\ pc[a] # "record" /\ pc'[a] = "record" =>
              Cardinality(Recording(k)') = Cardinality(Recording(k)) + 1
         /\ pc[a] = "record" /\ pc'[a] # "record" =>
              Cardinality(Recording(k)') = Cardinality(Recording(k)) - 1
<1>1. IsFiniteSet(Recording(k))
  BY FiniteRecorders
<1>2. a \in Recording(k) <=> pc[a] = "record"
  BY DEF Recording
<1>3. Recording(k)' = IF pc'[a] = "record" THEN Recording(k) \union {a} ELSE Recording(k) \ {a}
  BY Recorders
<1>4. CASE pc'[a] = "record"
  <2>1. Cardinality(Recording(k)') = IF a \in Recording(k) THEN Cardinality(Recording(k))
                                     ELSE Cardinality(Recording(k)) + 1
    BY <1>1, <1>3, <1>4, FS_AddElement
  <2> QED
    BY <1>2, <1>4, <2>1
<1>5. CASE pc'[a] # "record"
  <2>1. Cardinality(Recording(k)') = IF a \in Recording(k) THEN Cardinality(Recording(k)) - 1
                                     ELSE Cardinality(Recording(k))
    <3>1. Recording(k)' = Recording(k) \ {a}
      BY <1>3, <1>5
    <3>2. Cardinality(Recording(k) \ {a}) = IF a \in Recording(k) THEN Cardinality(Recording(k)) - 1
                                            ELSE Cardinality(Recording(k))
      BY <1>1, FS_RemoveElement
    <3> QED
      BY <3>1, <3>2
  <2> QED
    BY <1>2, <1>5, <2>1
<1> QED
  BY <1>4, <1>5

\* A step of a thread keeps the accounts.
LEMMA AccountStep ==
  ASSUME IInv, NEW a \in Archives, ArchiveStep(a)
  PROVE  CopiesExplained'
<1> USE DEF IInv
<1>1. ASSUME NEW l \in Keys, l # key(a)
      PROVE  copies'[l] = copies[l] /\ Accounted(l)' = Accounted(l)
  BY <1>1, OwnRow, Recorders DEF Accounted
<1>2. ASSUME NEW k \in Keys, k = key(a)
      PROVE  copies'[k] >= Accounted(k)' /\ (Alone(k[1]) => copies'[k] = Accounted(k)')
  <2>1. PICK c \in Nat : c = copies[k]
    BY DEF Typed
  <2>2. PICK u \in Nat : u = unheard[k]
    BY DEF Typed
  <2>3. PICK n \in Nat : n = Cardinality(Recording(k))
    BY FiniteRecorders
  <2>4. PICK p : p = Cardinality(Recording(k)')
    OBVIOUS
  <2>5. /\ pc[a] # "record" /\ pc'[a] # "record" => p = n
        /\ pc[a] # "record" /\ pc'[a] = "record" => p = n + 1
        /\ pc[a] = "record" /\ pc'[a] # "record" => p = n - 1
    BY <1>2, <2>3, <2>4, RecordersCounted
  <2>6. c >= u + n + (IF row[k] = "SYNCED" THEN 1 ELSE 0)
    BY <2>1, <2>2, <2>3 DEF CopiesExplained, Accounted
  <2>7. Alone(k[1]) => c = u + n + (IF row[k] = "SYNCED" THEN 1 ELSE 0)
    BY <2>1, <2>2, <2>3 DEF CopiesExplained, Accounted
  <2>8. pc[a] \in Past /\ Alone(k[1]) => row[k] # "SYNCED"
    BY <1>2 DEF WorkInv, Overtaken, Alone, key, Skips
  <2>9. /\ copies'[k] >= unheard'[k] + p + (IF row'[k] = "SYNCED" THEN 1 ELSE 0)
        /\ Alone(k[1]) => copies'[k] = unheard'[k] + p + (IF row'[k] = "SYNCED" THEN 1 ELSE 0)
    <3>1. CASE Take(a) \/ Report(a) \/ End(a) \/ Break(a) \/ PostRefused(a) \/ Entry(a)
      <4>1. pc[a] # "record" /\ pc'[a] # "record" /\ UNCHANGED <<row, copies, unheard>>
        BY <3>1 DEF Take, Report, End, Break, PostRefused, PostRaises, Entry, Settle, Leave, Goto, store, Typed
      <4> QED
        BY <2>1, <2>2, <2>5, <2>6, <2>7, <4>1
    <3>2. CASE Simulate(a) \/ Fail(a)
      <4>1. /\ pc[a] # "record" /\ pc'[a] # "record" /\ pc[a] \in Past /\ row'[k] # "SYNCED"
            /\ UNCHANGED <<copies, unheard>>
        BY <1>2, <3>2 DEF Simulate, Fail, Put, Settle, Goto, Typed, Past
      <4> QED
        BY <2>1, <2>2, <2>5, <2>6, <2>7, <2>8, <4>1
    <3>3. CASE Record(a)
      <4>1. /\ pc[a] = "record" /\ pc'[a] # "record" /\ pc[a] \in Past /\ row'[k] = "SYNCED"
            /\ UNCHANGED <<copies, unheard>>
        BY <1>2, <3>3 DEF Record, Put, Settle, Goto, Typed, Past
      <4> QED
        BY <2>1, <2>2, <2>5, <2>6, <2>7, <2>8, <4>1
    <3>4. CASE RecordRaises(a)
      <4>1. /\ pc[a] = "record" /\ pc'[a] # "record"
            /\ UNCHANGED <<row, copies>> /\ unheard'[k] = u + 1
        BY <1>2, <2>2, <3>4 DEF RecordRaises, Goto, Typed, store
      <4> QED
        BY <2>1, <2>5, <2>6, <2>7, <4>1
    <3>5. CASE PostAnswered(a)
      <4>1. /\ pc[a] # "record" /\ pc'[a] = "record"
            /\ UNCHANGED <<row, unheard>> /\ copies'[k] = c + 1
        BY <1>2, <2>1, <3>5 DEF PostAnswered, Leave, Goto, Typed
      <4> QED
        BY <2>2, <2>5, <2>6, <2>7, <4>1
    <3>6. CASE PostUnheard(a)
      <4>1. /\ pc[a] # "record" /\ pc'[a] # "record" /\ UNCHANGED row
            /\ unheard'[k] = u + 1 /\ copies'[k] = c + 1
        BY <1>2, <2>1, <2>2, <3>6 DEF PostUnheard, PostRaises, Leave, Goto, Typed
      <4> QED
        BY <2>5, <2>6, <2>7, <4>1
    <3> QED
      BY <3>1, <3>2, <3>3, <3>4, <3>5, <3>6 DEF ArchiveStep
  <2>10. Accounted(k)' = unheard'[k] + p + (IF row'[k] = "SYNCED" THEN 1 ELSE 0)
    BY <2>4 DEF Accounted
  <2> QED
    BY <2>9, <2>10
<1>3. \A l \in Keys : l # key(a) =>
        copies'[l] >= Accounted(l)' /\ (Alone(l[1]) => copies'[l] = Accounted(l)')
  BY <1>1 DEF CopiesExplained
<1> QED
  BY <1>2, <1>3 DEF CopiesExplained

\* Before the first run nothing is imported, and nothing is to account for.
LEMMA InitInv == Init => IInv /\ Progress
<1> SUFFICES ASSUME Init PROVE IInv /\ Progress
  OBVIOUS
<1>1. Typed
  <2>1. NoTally \in [synced : Nat, skipped : Nat, failed : Nat]
    BY DEF NoTally
  <2>2. <<>> \in Seq(Messages)
    OBVIOUS
  <2> QED
    BY <2>1, <2>2 DEF Init, Typed, Rows
<1>2. Position /\ WorkInv /\ Idle
  BY DEF Init, Position, WorkInv, Idle, Past
<1>3. \A k \in Keys : Cardinality(Recording(k)) = 0
  <2>1. \A k \in Keys : Recording(k) = {}
    BY DEF Init, Recording
  <2> QED
    BY <2>1, FS_EmptySet
<1>4. CopiesExplained
  BY <1>3 DEF Init, CopiesExplained, Accounted
<1>5. Progress
  BY DEF Init, Progress
<1> QED
  BY <1>1, <1>2, <1>4, <1>5 DEF IInv

\* Every step keeps the invariant: what a killed process has imported and not recorded
\* is counted as forgotten.
LEMMA NextInv ==
  ASSUME IInv, [Next]_vars
  PROVE  IInv'
<1> USE DEF IInv
<1>1. <<>> \in Seq(Messages) /\ NoTally \in [synced : Nat, skipped : Nat, failed : Nat]
  BY DEF NoTally
<1>2. CASE Start
  <2>1. Typed'
    BY <1>1, <1>2, ArchiveAssumption DEF Start, Typed, store
  <2>2. WorkInv' /\ Idle'
    BY <1>2 DEF Start, WorkInv, Idle, Past
  <2>3. Position'
    <3>1. \A a \in Archives : left'[a] = Contents[a] /\ Len(Contents[a]) \in Nat
      BY <1>2, ArchiveAssumption DEF Start
    <3>2. \A a \in Archives : Handled(a)' = 0
      BY <3>1 DEF Handled
    <3> QED
      BY <3>1, <3>2 DEF Position
  <2>4. \A k \in Keys : Recording(k) = {} /\ Recording(k)' = {}
    BY <1>2 DEF Start, Recording, Idle
  <2>5. CopiesExplained'
    BY <1>2, <2>4 DEF Start, CopiesExplained, Accounted, store
  <2> QED
    BY <2>1, <2>2, <2>3, <2>5
<1>3. CASE Crash
  <2>1. \A k \in Keys : Recording(k)' = {} /\ Cardinality(Recording(k)) \in Nat
    BY <1>3, FiniteRecorders DEF Crash, Recording
  <2>2. Typed'
    BY <1>1, <1>3, <2>1 DEF Crash, Typed, store
  <2>3. WorkInv' /\ Idle' /\ Position'
    BY <1>3 DEF Crash, WorkInv, Idle, Position, Past
  <2>4. CopiesExplained'
    <3>1. \A k \in Keys : Cardinality(Recording(k)') = 0
      BY <2>1, FS_EmptySet
    <3>2. \A k \in Keys : /\ copies'[k] = copies[k] /\ row'[k] = row[k]
                           /\ unheard'[k] = unheard[k] + Cardinality(Recording(k))
                           /\ unheard'[k] \in Nat /\ unheard[k] \in Nat
      BY <1>3, <2>2 DEF Crash, store, Typed
    <3>3. \A k \in Keys : Accounted(k)' = Accounted(k)
      BY <2>1, <3>1, <3>2 DEF Accounted
    <3> QED
      BY <3>2, <3>3 DEF CopiesExplained
  <2> QED
    BY <2>2, <2>3, <2>4
<1>4. CASE Finish \/ UNCHANGED vars
  <2>1. UNCHANGED <<row, copies, pc, left, tally, results, unheard>>
    BY <1>4 DEF Finish, vars, store
  <2>2. Typed' /\ WorkInv'
    BY <2>1 DEF Typed, WorkInv, Overtaken, Through, key, Skips
  <2>3. CopiesExplained'
    BY <2>1 DEF CopiesExplained, Accounted, Recording, key
  <2>4. Idle'
    BY <1>4, <2>1 DEF Idle, Finish, vars
  <2>5. Position'
    <3>1. \A a \in Archives : alive' \/ pc'[a] # "queued" => alive \/ pc[a] # "queued"
      BY <1>4, <2>1 DEF Finish, vars
    <3> QED
      BY <2>1, <3>1 DEF Position, Handled
  <2> QED
    BY <2>2, <2>3, <2>4, <2>5
<1>5. CASE \E a \in Archives : ArchiveStep(a)
  <2>1. PICK a \in Archives : ArchiveStep(a)
    BY <1>5
  <2>2. alive /\ alive' = alive
    BY <2>1, OneThread
  <2>3. Idle'
    BY <2>2 DEF Idle
  <2> QED
    BY <2>1, <2>3, TypedStep, PositionStep, WorkStep, AccountStep
<1> QED
  BY <1>2, <1>3, <1>4, <1>5 DEF Next, Terminated

\* A change of an imported message is the work of a thread that was overtaken.
LEMMA TakenBack ==
  ASSUME IInv, [Next]_vars, NEW k \in Keys, Skips(k), row'[k] # row[k] \/ copies'[k] # copies[k]
  PROVE  \E a \in Archives : ArchiveStep(a) /\ pc[a] \in Past /\ key(a) = k /\ Overtaken(a)
<1>1. CASE UNCHANGED store
  BY <1>1 DEF store
<1>2. CASE \E a \in Archives : ArchiveStep(a)
  <2>1. PICK a \in Archives : ArchiveStep(a)
    BY <1>2
  <2>2. key(a) = k /\ pc[a] \in Past
    BY <2>1, OwnRow DEF IInv
  <2> QED
    BY <2>1, <2>2 DEF IInv, WorkInv
<1> QED
  BY <1>1, <1>2 DEF Next, Start, Crash, Finish, Terminated, vars, store

\* Alone in its mailbox, a thread finds what it has been through as it left it.
LEMMA AloneKeeps ==
  ASSUME IInv, [Next]_vars, NEW a \in Archives, Siblings(a) = {}, NEW k \in Keys, k[1] = Mailbox[a], Skips(k)
  PROVE  Skips(k)'
<1>1. ASSUME row'[k] # row[k]
      PROVE  FALSE
  <2>1. PICK b \in Archives : key(b) = k /\ Overtaken(b)
    BY <1>1, TakenBack
  <2>2. Mailbox[b] = Mailbox[a] /\ Siblings(b) # {}
    BY <2>1 DEF key, Overtaken
  <2> QED
    BY <2>2 DEF Siblings
<1> QED
  BY <1>1 DEF Skips

\* What is through and not a failure is recorded.
LEMMA ProgressStep ==
  ASSUME IInv, Progress, NEW a \in Archives, ArchiveStep(a)
  PROVE  Progress'
<1> USE DEF IInv
<1>1. alive /\ alive' = alive
  BY OneThread
<1>2. ASSUME NEW b \in Archives, NEW j \in 1 .. Len(Contents[b])
      PROVE  <<Mailbox[b], Contents[b][j]>> \in Keys
  BY ArchiveAssumption DEF Keys
<1>3. \A b \in Archives \ {a} : pc'[b] = pc[b] /\ left'[b] = left[b] /\ tally'[b] = tally[b]
  BY OneThread
<1>4. ASSUME NEW b \in Archives, left'[b] = left[b], tally'[b] = tally[b], Siblings(b) = {}, tally[b].failed = 0,
             NEW j \in 1 .. Handled(b)'
      PROVE  Skips(<<Mailbox[b], Contents[b][j]>>)'
  <2>1. Handled(b)' = Handled(b) /\ Handled(b) \in 0 .. Len(Contents[b]) /\ Len(Contents[b]) \in Nat
    BY <1>4, PositionStep, ArchiveAssumption
  <2>2. PICK k \in Keys : k = <<Mailbox[b], Contents[b][j]>>
    <3>1. j \in 1 .. Len(Contents[b])
      BY <2>1
    <3> QED
      BY <1>2, <3>1
  <2>3. Skips(k)
    BY <1>1, <1>4, <2>1, <2>2 DEF Progress
  <2>4. k[1] = Mailbox[b]
    BY <2>2
  <2>5. Skips(k)'
    BY <1>4, <2>3, <2>4, AloneKeeps DEF Next
  <2> QED
    BY <2>2, <2>5
<1>5. ASSUME NEW b \in Archives \ {a}
      PROVE  /\ pc'[b] = "ended" => left'[b] = <<>>
             /\ Siblings(b) = {} =>
                  /\ tally'[b].failed = 0 => \A j \in 1 .. Handled(b)' : Skips(<<Mailbox[b], Contents[b][j]>>)'
                  /\ pc'[b] = "reported" /\ results'[Mailbox[b]] = "SUCCESS" =>
                       left'[b] = <<>> /\ tally'[b].failed = 0
  <2>1. Siblings(b) = {} => results'[Mailbox[b]] = results[Mailbox[b]]
    BY OneThread, ArchiveAssumption DEF Siblings
  <2> QED
    BY <1>3, <1>4, <2>1 DEF Progress
<1>6. /\ pc'[a] = "ended" => left'[a] = <<>>
      /\ Siblings(a) = {} =>
           /\ tally'[a].failed = 0 => \A j \in 1 .. Handled(a)' : Skips(<<Mailbox[a], Contents[a][j]>>)'
           /\ pc'[a] = "reported" /\ results'[Mailbox[a]] = "SUCCESS" => left'[a] = <<>> /\ tally'[a].failed = 0
  <2> USE DEF Goto, Settle, Leave, Put, Past
  <2>1. CASE left' = left /\ tally' = tally /\ pc'[a] \notin {"ended", "reported"}
    BY <1>4, <2>1
  <2>2. CASE Report(a)
    <3>1. left' = left /\ tally' = tally /\ pc'[a] = "reported"
      BY <2>2 DEF Report, Typed
    <3>2. results'[Mailbox[a]] = "SUCCESS" => pc[a] = "ended" /\ tally[a].failed = 0
      BY <2>2, ArchiveAssumption DEF Report, Status, Typed
    <3> QED
      BY <1>4, <3>1, <3>2 DEF Progress
  <2>3. CASE End(a)
    BY <1>4, <2>3 DEF End, Typed
  <2>4. ASSUME left' # left, Siblings(a) = {}, pc'[a] = "entry",
               \/ tally'[a].failed = tally[a].failed /\ row'[key(a)] \in {"SYNCED", "SIMULATED"}
               \/ tally'[a].failed # 0,
               tally'[a].failed = 0, NEW j \in 1 .. Handled(a)'
        PROVE  Skips(<<Mailbox[a], Contents[a][j]>>)'
    <3>1. /\ Handled(a)' = Handled(a) + 1 /\ Handled(a) \in 0 .. Len(Contents[a]) /\ Len(Contents[a]) \in Nat
          /\ Head(left[a]) = Contents[a][Handled(a)']
      BY <2>4, PositionStep, ArchiveAssumption
    <3>2. CASE j = Handled(a)'
      <4>1. row'[key(a)] \in {"SYNCED", "SIMULATED"}
        BY <2>4
      <4>2. key(a) = <<Mailbox[a], Contents[a][j]>>
        BY <3>1, <3>2 DEF key
      <4> QED
        BY <4>1, <4>2 DEF Skips
    <3>3. CASE j # Handled(a)'
      <4>1. j \in 1 .. Handled(a) /\ j \in 1 .. Len(Contents[a]) /\ tally[a].failed = 0
        BY <2>4, <3>1, <3>3
      <4>2. PICK k \in Keys : k = <<Mailbox[a], Contents[a][j]>>
        BY <1>2, <4>1
      <4>3. Skips(k) /\ k[1] = Mailbox[a]
        BY <1>1, <2>4, <4>1, <4>2 DEF Progress
      <4>4. Skips(k)'
        BY <2>4, <4>3, AloneKeeps DEF Next
      <4> QED
        BY <4>2, <4>4
    <3> QED
      BY <3>2, <3>3
  <2>5. CASE (Entry(a) /\ pc'[a] = "entry") \/ Simulate(a) \/ Record(a) \/ Fail(a)
    <3>1. left[a] # <<>> /\ left' = [left EXCEPT ![a] = Tail(@)] /\ pc'[a] = "entry"
      BY <2>5 DEF Entry, Simulate, Record, Fail, WorkInv, Typed
    <3>2. left' # left
      <4>1. left[a] \in Seq(Messages) /\ DOMAIN left = Archives
        BY DEF Typed
      <4>2. Tail(left[a]) # left[a]
        BY <3>1, <4>1, OneFewer
      <4> QED
        BY <3>1, <4>1, <4>2
    <3>3. key(a) \in Keys
      BY <3>1, OwnKey
    <3>4. \/ tally'[a].failed = tally[a].failed /\ row'[key(a)] \in {"SYNCED", "SIMULATED"}
          \/ tally'[a].failed # 0
      <4>1. CASE Fail(a)
        BY <4>1 DEF Fail, Typed
      <4>2. CASE Simulate(a) \/ Record(a)
        BY <3>3, <4>2 DEF Simulate, Record, Typed
      <4>3. CASE Entry(a) /\ pc'[a] = "entry"
        BY <3>3, <4>3 DEF Entry, Skips, store, Typed
      <4> QED
        BY <2>5, <4>1, <4>2, <4>3
    <3> QED
      BY <2>4, <3>1, <3>2, <3>4
  <2>6. CASE ~(Report(a) \/ End(a) \/ Simulate(a) \/ Record(a) \/ Fail(a) \/ (Entry(a) /\ pc'[a] = "entry"))
    BY <2>1, <2>6 DEF ArchiveStep, Take, Break, Entry, PostAnswered, PostRefused, PostUnheard, PostRaises,
      RecordRaises, Typed
  <2> QED
    BY <2>2, <2>3, <2>5, <2>6
<1> QED
  BY <1>5, <1>6 DEF Progress

\* Every step does, and a new run begins at the beginning.
LEMMA NextProgress ==
  ASSUME IInv, Progress, [Next]_vars
  PROVE  Progress'
<1> USE DEF IInv
<1>1. CASE Start
  <2>1. \A a \in Archives : left'[a] = Contents[a] /\ Len(Contents[a]) \in Nat
    BY <1>1, ArchiveAssumption DEF Start
  <2>2. \A a \in Archives : Handled(a)' = 0
    BY <2>1 DEF Handled
  <2>3. \A a \in Archives : pc'[a] = "queued" /\ results'[Mailbox[a]] = "none"
    BY <1>1, ArchiveAssumption DEF Start
  <2> QED
    BY <2>1, <2>2, <2>3 DEF Progress
<1>2. CASE Crash
  <2>1. \A a \in Archives : pc'[a] = "queued" /\ ~alive'
    BY <1>2 DEF Crash
  <2> QED
    BY <2>1 DEF Progress
<1>3. CASE Finish \/ UNCHANGED vars
  <2>1. UNCHANGED <<row, pc, left, tally, results>>
    BY <1>3 DEF Finish, vars, store
  <2>2. \A a \in Archives : alive' \/ pc'[a] # "queued" => alive \/ pc[a] # "queued"
    BY <1>3, <2>1 DEF Finish, vars
  <2>3. \A a \in Archives : Handled(a)' = Handled(a)
    BY <2>1 DEF Handled
  <2> QED
    BY <2>1, <2>2, <2>3 DEF Progress, Skips
<1>4. CASE \E a \in Archives : ArchiveStep(a)
  BY <1>4, ProgressStep
<1> QED
  BY <1>1, <1>2, <1>3, <1>4 DEF Next, Terminated

\* IInv and Progress hold in every state of every run.
THEOREM Import == Spec => [](IInv /\ Progress)
<1>1. IInv /\ Progress /\ [Next]_vars => (IInv /\ Progress)'
  BY NextInv, NextProgress
<1> QED
  BY <1>1, InitInv, PTL DEF Spec

\* Whatever is accounted for is in Gmail, and in a mailbox of one archive nothing else.
THEOREM CopiesAccounted == Spec => []CopiesExplained
<1>1. IInv => CopiesExplained
  BY DEF IInv
<1> QED
  BY <1>1, Import, PTL

\* What is reported as a success has been recorded to the last entry, when the mailbox
\* has one archive.
THEOREM SuccessMeansComplete == Spec => []SuccessIsComplete
<1>1. IInv /\ Progress => SuccessIsComplete
  <2> SUFFICES ASSUME IInv, Progress, NEW a \in Archives, Siblings(a) = {},
                      results[Mailbox[a]] = "SUCCESS", pc[a] = "reported",
                      NEW m \in ToSet(Contents[a])
               PROVE  Skips(<<Mailbox[a], m>>)
    BY DEF SuccessIsComplete
  <2>1. left[a] = <<>> /\ tally[a].failed = 0
    BY DEF Progress
  <2>2. Handled(a) = Len(Contents[a])
    BY <2>1, ArchiveAssumption DEF Handled
  <2>3. PICK j \in 1 .. Len(Contents[a]) : m = Contents[a][j]
    BY ArchiveAssumption DEF ToSet
  <2> QED
    BY <2>1, <2>2, <2>3 DEF Progress
<1> QED
  BY <1>1, Import, PTL

\* An imported message is made a failed one, or imported again, only by a thread that
\* had looked before, when a thread of another archive of the mailbox has been through
\* the message; in a mailbox of one archive, by nobody.
THEOREM ImportedStays == Spec => OnlySiblingsTakeBack
<1>1. ASSUME IInv, [Next]_vars, NEW k \in Keys, row[k] = "SYNCED", row'[k] # "SYNCED" \/ copies'[k] # copies[k]
      PROVE  \E a \in Archives : pc[a] \in Past /\ key(a) = k /\ \E b \in Siblings(a) : Through(b, k[2])
  <2>1. PICK a \in Archives : pc[a] \in Past /\ key(a) = k /\ Overtaken(a)
    BY <1>1, TakenBack DEF Skips
  <2>2. k[2] = Head(left[a])
    BY <2>1 DEF key
  <2> QED
    BY <2>1, <2>2 DEF Overtaken
<1>2. IInv /\ [Next]_vars =>
        [\A k \in Keys :
           row[k] = "SYNCED" /\ (row'[k] # "SYNCED" \/ copies'[k] # copies[k]) =>
             \E a \in Archives : /\ pc[a] \in Past /\ key(a) = k
                                 /\ \E b \in Siblings(a) : Through(b, k[2])]_vars
  BY <1>1
<1> QED
  BY <1>2, Import, PTL DEF Spec, OnlySiblingsTakeBack
=============================================================================
