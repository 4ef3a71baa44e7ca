------------------------ MODULE PauseControllerProofs ------------------------
(***************************************************************************)
(* Proofs about PauseController, for any number of migration threads,      *)
(* administrators and recovery threads; then about TokenBucket, in which   *)
(* the same threads wait for their turn.                                   *)
(***************************************************************************)
EXTENDS PauseController, Integers, TLAPS

\* A recovery thread that is still looping has not seen two successes in a row:
\* without this the successes of a thread would not be bounded by 2.
CountBelowTwo ==
  \A p \in Probes : ppc[p] \in {"head", "look", "probe"} => successes[p] \in {0, 1}

TypedInv == TypeOK /\ CountBelowTwo

\* Types and counts are preserved by every step.
LEMMA TypedInvariant == Spec => []TypedInv
<1> USE NoneAssumption, MaxRetriesAssumption
<1> USE DEF PauseState, Paused, WorkerAt, ProbeAt
<1>1. Init => TypedInv
  <2>1. 0 \in 0 .. MaxRetries /\ 0 \in 0 .. 2
    BY SMT
  <2>2. Init => CountBelowTwo
    BY <2>1 DEF Init, CountBelowTwo
  <2>3. Init => TypeOK
    <3>1. Init => attempt \in [Workers -> 0 .. MaxRetries] /\ successes \in [Probes -> 0 .. 2]
      BY <2>1 DEF Init
    <3> QED
      BY <3>1 DEF Init, TypeOK
  <2> QED
    BY <2>2, <2>3 DEF TypedInv
<1>2. TypedInv /\ [Next]_vars => TypedInv'
  <2> SUFFICES ASSUME TypedInv, [Next]_vars PROVE TypedInv'
    OBVIOUS
  <2> USE DEF TypedInv, TypeOK, Goto, ProbeGoto, ReleaseAll, controllerVars, watchdogVars,
    workerVars
  <2>1. ASSUME NEW a \in Admins, Pause(a) PROVE TypedInv'
    BY <2>1 DEF Pause, CountBelowTwo
  <2>2. ASSUME NEW a \in Admins, Resume(a) PROVE TypedInv'
    BY <2>2 DEF Resume, CountBelowTwo
  <2>3. ASSUME NEW a \in Admins, Cancel(a) PROVE TypedInv'
    BY <2>3 DEF Cancel, CountBelowTwo
  <2>4. ASSUME NEW a \in Admins, Report(a) PROVE TypedInv'
    BY <2>4 DEF Report, CountBelowTwo
  <2>5. ASSUME NEW w \in Workers, Test(w) PROVE TypedInv'
    BY <2>5 DEF Test, CountBelowTwo
  <2>6. ASSUME NEW w \in Workers, Wait(w) PROVE TypedInv'
    BY <2>6 DEF Wait, CountBelowTwo
  <2>7. ASSUME NEW w \in Workers, Poll(w) PROVE TypedInv'
    BY <2>7 DEF Poll, CountBelowTwo
  <2>8. ASSUME NEW w \in Workers, Final(w) PROVE TypedInv'
    BY <2>8 DEF Final, AfterWait, Onward, CountBelowTwo
  <2>9. ASSUME NEW w \in Workers, CallReturns(w) PROVE TypedInv'
    BY <2>9 DEF CallReturns, CountBelowTwo
  <2>10. ASSUME NEW w \in Workers, CallFails(w) PROVE TypedInv'
    <3>1. \A n \in 0 .. MaxRetries : NextAttempt(n) \in 0 .. MaxRetries
      BY DEF NextAttempt
    <3> QED
      BY <2>10, <3>1 DEF CallFails, CountBelowTwo
  <2>11. ASSUME NEW w \in Workers, CallLosesNetwork(w) PROVE TypedInv'
    BY <2>11 DEF CallLosesNetwork, CountBelowTwo
  <2>12. ASSUME NEW w \in Workers, Disconnect(w) PROVE TypedInv'
    BY <2>12 DEF Disconnect, HeldAlready, CountBelowTwo
  <2>13. ASSUME NEW w \in Workers, DisconnectReport(w) PROVE TypedInv'
    BY <2>13 DEF DisconnectReport, CountBelowTwo
  <2>14. ASSUME NEW w \in Workers, StartMonitoring(w) PROVE TypedInv'
    BY <2>14 DEF StartMonitoring, MonitorAlive, CountBelowTwo
  <2>15. ASSUME NEW w \in Workers, SetActive(w) PROVE TypedInv'
    BY <2>15 DEF SetActive, CountBelowTwo
  <2>16. ASSUME NEW w \in Workers, NEW p \in Probes, Spawn(w, p) PROVE TypedInv'
    BY <2>16 DEF Spawn, CountBelowTwo
  <2>17. ASSUME NEW p \in Probes, LoopHead(p) PROVE TypedInv'
    BY <2>17 DEF LoopHead, CountBelowTwo
  <2>18. ASSUME NEW p \in Probes, LoopLook(p) PROVE TypedInv'
    BY <2>18 DEF LoopLook, CountBelowTwo
  <2>19. ASSUME NEW p \in Probes, Probe(p) PROVE TypedInv'
    <3>1. successes' \in [Probes -> 0 .. 2] /\ CountBelowTwo'
      <4>1. successes[p] \in {0, 1}
        BY <2>19 DEF Probe, CountBelowTwo
      <4>2. CASE net = "up"
        BY <4>1, <4>2, <2>19 DEF Probe, Streak, CountBelowTwo
      <4>3. CASE net # "up"
        BY <4>1, <4>3, <2>19 DEF Probe, Streak, CountBelowTwo
      <4> QED
        BY <4>2, <4>3
    <3> QED
      BY <2>19, <3>1 DEF Probe
  <2>20. ASSUME NEW p \in Probes, ClearActive(p) PROVE TypedInv'
    BY <2>20 DEF ClearActive, CountBelowTwo
  <2>21. ASSUME NEW p \in Probes, AutoResume(p) PROVE TypedInv'
    <3>1. UNCHANGED <<monitor, active, successes, net, pc, attempt, recheck, owed, shown>>
      BY <2>21 DEF AutoResume
    <3>2. CASE state = "CANCELLED"
      <4>1. UNCHANGED <<state, event, held>> /\ ppc' = [ppc EXCEPT ![p] = "exit"]
        BY <2>21, <3>2 DEF AutoResume
      <4> QED
        BY <3>1, <4>1 DEF CountBelowTwo
    <3>3. CASE state # "CANCELLED"
      <4>1. /\ state' = "RUNNING" /\ event' = TRUE /\ held' = [w \in Workers |-> FALSE]
            /\ ppc' = [ppc EXCEPT ![p] = "notify"]
        BY <2>21, <3>3 DEF AutoResume
      <4> QED
        BY <3>1, <4>1 DEF CountBelowTwo
    <3> QED
      BY <3>2, <3>3
  <2>22. ASSUME NEW p \in Probes, AutoResumeReport(p) PROVE TypedInv'
    BY <2>22 DEF AutoResumeReport, CountBelowTwo
  <2>23. ASSUME NEW p \in Probes, Exit(p) PROVE TypedInv'
    <3>1. 0 \in 0 .. 2
      BY SMT
    <3> QED
      BY <2>23, <3>1 DEF Exit, CountBelowTwo
  <2>24. CASE NetworkChange
    BY <2>24 DEF NetworkChange, CountBelowTwo
  <2>25. CASE UNCHANGED vars
    BY <2>25 DEF vars, CountBelowTwo
  <2> QED
    BY <2>1, <2>2, <2>3, <2>4, <2>5, <2>6, <2>7, <2>8, <2>9, <2>10, <2>11, <2>12,
       <2>13, <2>14, <2>15, <2>16, <2>17, <2>18, <2>19, <2>20, <2>21, <2>22, <2>23,
       <2>24, <2>25
    DEF Next, AdminStep, WorkerStep, ProbeStep, Terminated
<1> QED
  BY <1>1, <1>2, PTL DEF Spec

\* Every variable keeps its type, however many threads there are.
THEOREM TypeCorrect == Spec => []TypeOK
<1>1. TypedInv => TypeOK
  BY DEF TypedInv
<1> QED
  BY <1>1, TypedInvariant, PTL

-----------------------------------------------------------------------------
\* A worker that found the run paused, and was not released since, is still
\* inside the loop of wait_if_paused, and the run is still paused: what makes
\* PauseHolds inductive, with the agreement of _state and _resume_event.
HeldInside ==
  \A w \in Workers : held[w] => state \in Paused /\ pc[w] \in {"test", "wait", "poll"}

PauseInv == EventMatchesState /\ HeldInside

\* Types and pauses together are inductive.
LEMMA PauseInvariant == Spec => [](TypeOK /\ PauseInv)
<1> USE DEF PauseInv, EventMatchesState, HeldInside, Paused
<1>1. Init => PauseInv
  BY DEF Init
<1>2. TypeOK /\ PauseInv /\ [Next]_vars => PauseInv'
  <2> SUFFICES ASSUME TypeOK, PauseInv, [Next]_vars PROVE PauseInv'
    OBVIOUS
  <2> USE DEF TypeOK, Goto, ProbeGoto, ReleaseAll, controllerVars, watchdogVars, workerVars
  <2>1. ASSUME NEW a \in Admins, AdminStep(a) \/ Report(a) PROVE PauseInv'
    BY <2>1 DEF AdminStep, Pause, Resume, Cancel, Report
  <2>2. ASSUME NEW w \in Workers, Test(w) PROVE PauseInv'
    BY <2>2 DEF Test
  <2>3. ASSUME NEW w \in Workers, Wait(w) \/ Poll(w) \/ Final(w) PROVE PauseInv'
    BY <2>3 DEF Wait, Poll, Final, AfterWait, Onward
  <2>4. ASSUME NEW w \in Workers, CallReturns(w) \/ CallFails(w) \/ CallLosesNetwork(w)
        PROVE PauseInv'
    BY <2>4 DEF CallReturns, CallFails, CallLosesNetwork
  <2>5. ASSUME NEW w \in Workers, Disconnect(w) PROVE PauseInv'
    BY <2>5 DEF Disconnect, HeldAlready
  <2>6. ASSUME NEW w \in Workers,
               DisconnectReport(w) \/ StartMonitoring(w) \/ SetActive(w)
                 \/ \E p \in Probes : Spawn(w, p)
        PROVE PauseInv'
    BY <2>6 DEF DisconnectReport, StartMonitoring, MonitorAlive, SetActive, Spawn
  <2>7. ASSUME NEW p \in Probes, AutoResume(p) PROVE PauseInv'
    BY <2>7 DEF AutoResume
  <2>8. ASSUME NEW p \in Probes,
               LoopHead(p) \/ LoopLook(p) \/ Probe(p) \/ ClearActive(p)
                 \/ AutoResumeReport(p) \/ Exit(p)
        PROVE PauseInv'
    BY <2>8 DEF LoopHead, LoopLook, Probe, ClearActive, AutoResumeReport, Exit
  <2>9. CASE NetworkChange \/ UNCHANGED vars
    BY <2>9 DEF NetworkChange, vars
  <2> QED
    BY <2>1, <2>2, <2>3, <2>4, <2>5, <2>6, <2>7, <2>8, <2>9
    DEF Next, WorkerStep, ProbeStep, Terminated
<1> QED
  BY <1>1, <1>2, TypeCorrect, PTL DEF Spec

\* _resume_event and _state never disagree, for any number of threads.
THEOREM EventMatches == Spec => []EventMatchesState
<1>1. PauseInv => EventMatchesState
  BY DEF PauseInv
<1> QED
  BY <1>1, PauseInvariant, PTL

\* No worker that found the run paused calls a server before it is released.
THEOREM PauseHeld == Spec => []PauseHolds
<1>1. PauseInv => PauseHolds
  BY DEF PauseInv, HeldInside, PauseHolds
<1> QED
  BY <1>1, PauseInvariant, PTL

\* CANCELLED is absorbing: every write of _state but the one of cancel looks at
\* it first, under the lock.
THEOREM CancelFinal == Spec => CancelIsFinal
<1>1. [Next]_vars => [state = "CANCELLED" => state' = "CANCELLED"]_vars
  <2> SUFFICES ASSUME Next, state = "CANCELLED" PROVE state' = "CANCELLED"
    OBVIOUS
  <2> USE DEF controllerVars
  <2>1. ASSUME NEW a \in Admins, AdminStep(a) \/ Report(a) PROVE state' = "CANCELLED"
    BY <2>1 DEF AdminStep, Pause, Resume, Cancel, Report
  <2>2. ASSUME NEW w \in Workers, WorkerStep(w) PROVE state' = "CANCELLED"
    BY <2>2 DEF WorkerStep, Test, Wait, Poll, Final, CallReturns, CallFails,
      CallLosesNetwork, Disconnect, HeldAlready, DisconnectReport, StartMonitoring, SetActive,
      Spawn
  <2>3. ASSUME NEW p \in Probes, ProbeStep(p) PROVE state' = "CANCELLED"
    BY <2>3 DEF ProbeStep, LoopHead, LoopLook, Probe, ClearActive, AutoResume,
      AutoResumeReport, Exit
  <2>4. CASE NetworkChange \/ Terminated
    BY <2>4 DEF NetworkChange, Terminated, vars
  <2> QED
    BY <2>1, <2>2, <2>3, <2>4 DEF Next
<1> QED
  BY <1>1, PTL DEF Spec, CancelIsFinal

-----------------------------------------------------------------------------
\* With one worker, a thread that is alive is the one _monitor_thread names, and
\* while the worker is between the test of is_alive() and the start of a new
\* thread none is alive.
MonitorInv ==
  /\ \A p \in Probes : ppc[p] # "dead" => monitor = p
  /\ \A w \in Workers : pc[w] \in {"launch", "spawn"} => \A p \in Probes : ppc[p] = "dead"

\* is_alive() suffices when one thread runs the agents, as in the CLI and in
\* each run of the Web UI: two recovery threads are never alive together.
THEOREM OneMonitor ==
  ASSUME \A v, w \in Workers : v = w
  PROVE  Spec => []AtMostOneMonitor
<1> USE DEF MonitorInv
<1>1. Init => MonitorInv
  BY DEF Init
<1>2. TypeOK /\ MonitorInv /\ [Next]_vars => MonitorInv'
  <2> SUFFICES ASSUME TypeOK, MonitorInv, [Next]_vars PROVE MonitorInv'
    OBVIOUS
  <2> USE NoneAssumption DEF TypeOK, Goto, ProbeGoto, ReleaseAll, controllerVars, watchdogVars,
    workerVars
  <2>1. ASSUME NEW a \in Admins, AdminStep(a) \/ Report(a) PROVE MonitorInv'
    BY <2>1 DEF AdminStep, Pause, Resume, Cancel, Report
  <2>2. ASSUME NEW w \in Workers,
               Test(w) \/ Wait(w) \/ Poll(w) \/ Final(w) \/ CallReturns(w) \/ CallFails(w)
                 \/ CallLosesNetwork(w) \/ Disconnect(w) \/ DisconnectReport(w)
        PROVE MonitorInv'
    BY <2>2 DEF Test, Wait, Poll, Final, AfterWait, Onward, CallReturns, CallFails,
      CallLosesNetwork, Disconnect, HeldAlready, DisconnectReport
  <2>3. ASSUME NEW w \in Workers, StartMonitoring(w) PROVE MonitorInv'
    BY <2>3 DEF StartMonitoring, MonitorAlive
  <2>4. ASSUME NEW w \in Workers, SetActive(w) PROVE MonitorInv'
    BY <2>4 DEF SetActive
  <2>5. ASSUME NEW w \in Workers, NEW p \in Probes, Spawn(w, p) PROVE MonitorInv'
    BY <2>5 DEF Spawn
  <2>6. ASSUME NEW p \in Probes, ProbeStep(p) PROVE MonitorInv'
    BY <2>6 DEF ProbeStep, LoopHead, LoopLook, Probe, ClearActive, AutoResume,
      AutoResumeReport, Exit
  <2>7. CASE NetworkChange \/ UNCHANGED vars
    BY <2>7 DEF NetworkChange, vars
  <2> QED
    BY <2>1, <2>2, <2>3, <2>4, <2>5, <2>6, <2>7 DEF Next, WorkerStep, Terminated
<1>3. MonitorInv => AtMostOneMonitor
  BY DEF AtMostOneMonitor
<1> QED
  BY <1>1, <1>2, <1>3, TypeCorrect, PTL DEF Spec

-----------------------------------------------------------------------------
(***************************************************************************)
(* The other half of rate_limiter.py: TokenBucket, for any number of       *)
(* threads, any rate, capacity and cost, and any length of time. What that *)
(* module assumes of its constants is a hypothesis of each theorem.        *)
(***************************************************************************)
CONSTANTS Threads, Rate, Capacity, Cost, MaxClock

VARIABLES tokens, last, clock, at, nap, due, mark, spent

B == INSTANCE TokenBucket WITH pc <- at

\* Elapsed ticks can be added up or compared before they are turned into tokens.
LEMMA Distribute ==
  ASSUME B!RateAssumption,
         NEW a \in Int, NEW b \in Int
  PROVE  (a + b) * Rate = a * Rate + b * Rate /\ a * Rate \in Int
BY DEF B!RateAssumption

\* More ticks give no fewer tokens.
LEMMA Monotone ==
  ASSUME B!RateAssumption,
         NEW a \in Nat, NEW b \in Nat, a <= b
  PROVE  a * Rate <= b * Rate /\ a * Rate \in Nat
<1>1. PICK d \in Nat : b = a + d
  BY b - a \in Nat
<1>2. b * Rate = a * Rate + d * Rate
  BY <1>1, Distribute
<1>3. d * Rate \in Nat /\ a * Rate \in Nat
  BY DEF B!RateAssumption
<1> QED
  BY <1>2, <1>3

\* What a refill does: it is capped, it never takes tokens away and it adds no
\* more than the rate.
LEMMA RefillBounds ==
  ASSUME B!RateAssumption, B!CapacityAssumption,
         B!TypeOK
  PROVE  /\ B!Refilled \in tokens .. Capacity
         /\ B!Refilled <= tokens + (clock - last) * Rate
         /\ B!Refilled # Capacity => B!Refilled = tokens + (clock - last) * Rate
<1>1. clock - last \in Nat
  BY DEF B!TypeOK
<1>2. (clock - last) * Rate \in Nat
  BY <1>1 DEF B!RateAssumption
<1> QED
  BY <1>2 DEF B!CapacityAssumption, B!TypeOK, B!Refilled

\* The wait is long enough for the rate to add what is missing.
LEMMA WaitLongEnough ==
  ASSUME B!RateAssumption, B!CapacityAssumption,
         B!TypeOK, B!Refilled < Cost
  PROVE  B!WaitTime \in Nat /\ B!Refilled + B!WaitTime * Rate >= Cost
<1> DEFINE missing == Cost - B!Refilled
<1>1. missing \in Nat \ {0}
  BY RefillBounds DEF B!CapacityAssumption, B!TypeOK
<1>2. \A n \in Nat : n \div Rate \in Nat /\ (n \div Rate) * Rate + Rate > n
  BY Z3T(30) DEF B!RateAssumption
<1>3. missing + Rate - 1 \in Nat
  BY <1>1 DEF B!RateAssumption
<1>4. B!WaitTime = (missing + Rate - 1) \div Rate
  BY DEF B!WaitTime
<1>5. B!WaitTime \in Nat /\ B!WaitTime * Rate + Rate > missing + Rate - 1
  BY <1>2, <1>3, <1>4
<1>6. B!Refilled \in Int /\ B!WaitTime * Rate \in Int
  BY <1>5, RefillBounds DEF B!RateAssumption, B!CapacityAssumption, B!TypeOK
<1> QED
  BY <1>1, <1>5, <1>6 DEF B!RateAssumption, B!CapacityAssumption

-----------------------------------------------------------------------------
\* The types hold.
THEOREM BucketTypes ==
  ASSUME B!RateAssumption, B!CapacityAssumption, B!ClockAssumption
  PROVE  B!Spec => []B!TypeOK
<1>1. B!Init => B!TypeOK
  BY DEF B!CapacityAssumption, B!ClockAssumption, B!Init, B!TypeOK
<1>2. B!TypeOK /\ [B!Next]_B!vars => B!TypeOK'
  <2> SUFFICES ASSUME B!TypeOK, [B!Next]_B!vars PROVE B!TypeOK'
    OBVIOUS
  <2> USE DEF B!CapacityAssumption, B!TypeOK
  <2>1. ASSUME NEW t \in Threads, B!Ask(t) \/ B!Wake(t) PROVE B!TypeOK'
    BY <2>1 DEF B!Ask, B!Wake
  <2>2. ASSUME NEW t \in Threads, B!Take(t) PROVE B!TypeOK'
    BY <2>2, RefillBounds DEF B!Take
  <2>3. ASSUME NEW t \in Threads, B!Sleep(t) PROVE B!TypeOK'
    BY <2>3, RefillBounds, WaitLongEnough DEF B!Sleep
  <2>4. CASE B!Tick
    BY <2>4 DEF B!ClockAssumption, B!Tick
  <2>5. CASE B!Observe \/ UNCHANGED B!vars
    BY <2>5 DEF B!Observe, B!vars
  <2> QED
    BY <2>1, <2>2, <2>3, <2>4, <2>5 DEF B!Next
<1> QED
  BY <1>1, <1>2, PTL DEF B!Spec

-----------------------------------------------------------------------------
\* What is spent in the window, with what is left in the bucket, is one bucket and
\* what the rate has added since the window opened. Nothing is spent before the
\* first refill in the window, and that refill is capped: the tokens saved before
\* the window opened do not come on top.
BudgetInv ==
  /\ last < mark => spent = 0
  /\ last >= mark => spent + tokens <= Capacity + (last - mark) * Rate

\* In every window, at most one bucket and the rate.
THEOREM RateEnforced ==
  ASSUME B!RateAssumption, B!CapacityAssumption, B!ClockAssumption
  PROVE  B!Spec => []B!WindowBounded
<1>1. B!Init => BudgetInv
  BY DEF B!RateAssumption, B!CapacityAssumption, B!Init, BudgetInv
<1>2. B!TypeOK /\ BudgetInv /\ [B!Next]_B!vars => BudgetInv'
  <2> SUFFICES ASSUME B!TypeOK, BudgetInv, [B!Next]_B!vars PROVE BudgetInv'
    OBVIOUS
  <2>1. ASSUME last' = clock, mark' = mark, spent' \in Nat, tokens' \in Nat,
               spent' + tokens' = spent + B!Refilled
        PROVE  BudgetInv'
    <3>1. mark <= clock /\ (clock - mark) * Rate \in Nat
      BY DEF B!RateAssumption, B!TypeOK
    <3>2. ASSUME spent' + tokens' <= Capacity + (clock - mark) * Rate PROVE BudgetInv'
      <4>1. ~(clock < mark)
        BY <3>1 DEF B!TypeOK
      <4>2. last' = clock /\ mark' = mark
        BY <2>1
      <4> QED
        BY <3>2, <4>1, <4>2 DEF BudgetInv
    <3>3. B!Refilled \in Nat /\ B!Refilled <= Capacity /\ spent \in Nat
      BY RefillBounds DEF B!CapacityAssumption, B!TypeOK
    <3>4. CASE last < mark
      <4>1. spent = 0
        BY <3>4 DEF BudgetInv
      <4>2. Capacity \in Nat
        BY DEF B!CapacityAssumption
      <4>3. spent' + tokens' = B!Refilled
        <5>1. spent' + tokens' = spent + B!Refilled
          BY <2>1
        <5>2. spent + B!Refilled = B!Refilled
          BY <3>3, <4>1
        <5> QED
          BY <5>1, <5>2
      <4>4. PICK r \in Nat : r = (clock - mark) * Rate
        BY <3>1
      <4>5. B!Refilled <= Capacity + r
        BY <3>3, <4>2, <4>4
      <4> QED
        BY <3>2, <4>3, <4>4, <4>5
    <3>5. CASE last >= mark
      <4>1. (clock - mark) * Rate = (clock - last) * Rate + (last - mark) * Rate
        <5>1. clock - mark = (clock - last) + (last - mark)
          BY DEF B!TypeOK
        <5> QED
          BY <5>1, Distribute DEF B!TypeOK
      <4>2. (clock - last) * Rate \in Int /\ (last - mark) * Rate \in Int
        BY DEF B!RateAssumption, B!TypeOK
      <4>3. spent + B!Refilled <= Capacity + (clock - mark) * Rate
        BY <3>5, <4>1, <4>2, RefillBounds DEF B!CapacityAssumption, BudgetInv, B!TypeOK
      <4> QED
        BY <2>1, <3>2, <4>3
    <3> QED
      BY <3>4, <3>5 DEF B!TypeOK
  <2>2. ASSUME NEW t \in Threads, B!Take(t) PROVE BudgetInv'
    BY <2>1, <2>2, RefillBounds DEF B!CapacityAssumption, B!Take, B!TypeOK
  <2>3. ASSUME NEW t \in Threads, B!Sleep(t) PROVE BudgetInv'
    BY <2>1, <2>3, RefillBounds DEF B!CapacityAssumption, B!Sleep, B!TypeOK
  <2>4. CASE B!Observe
    <3>1. last >= clock => (last - clock) * Rate = 0
      BY DEF B!RateAssumption, B!TypeOK
    <3> QED
      BY <2>4, <3>1 DEF B!CapacityAssumption, B!Observe, BudgetInv, B!TypeOK
  <2>5. ASSUME NEW t \in Threads, B!Ask(t) \/ B!Wake(t) PROVE BudgetInv'
    BY <2>5 DEF B!Ask, B!Wake, BudgetInv
  <2>6. CASE B!Tick \/ UNCHANGED B!vars
    BY <2>6 DEF B!Tick, B!vars, BudgetInv
  <2> QED
    BY <2>2, <2>3, <2>4, <2>5, <2>6 DEF B!Next
<1>3. B!TypeOK /\ BudgetInv => B!WindowBounded
  <2> SUFFICES ASSUME B!TypeOK, BudgetInv PROVE B!WindowBounded
    OBVIOUS
  <2>1. (clock - mark) * Rate \in Nat
    BY DEF B!RateAssumption, B!TypeOK
  <2>2. last >= mark => (last - mark) * Rate <= (clock - mark) * Rate
    BY Monotone DEF B!TypeOK
  <2>3. (last - mark) * Rate \in Int
    BY Distribute DEF B!TypeOK
  <2> QED
    BY <2>1, <2>2, <2>3 DEF B!CapacityAssumption, B!TypeOK, BudgetInv, B!WindowBounded
<1>4. B!Spec => []B!TypeOK
  BY BucketTypes
<1> QED
  BY <1>1, <1>2, <1>3, <1>4, PTL DEF B!Spec

-----------------------------------------------------------------------------
\* A sleeping thread that nobody has robbed will have its tokens when its sleep
\* is over; a thread that is not asleep has slept enough.
NapInv ==
  \A t \in Threads :
    /\ at[t] = "idle" => ~due[t]
    /\ at[t] # "nap" => nap[t] = 0
    /\ due[t] => B!Refilled + nap[t] * Rate >= Cost

\* One sleep is enough for a thread, as long as no other thread takes tokens.
THEOREM OneNap ==
  ASSUME B!RateAssumption, B!CapacityAssumption, B!ClockAssumption
  PROVE  B!Spec => []B!NapSuffices
<1>1. B!Init => NapInv
  BY DEF B!Init, NapInv
<1>2. B!TypeOK /\ B!TypeOK' /\ NapInv /\ [B!Next]_B!vars => NapInv'
  <2> SUFFICES ASSUME B!TypeOK, B!TypeOK', NapInv, [B!Next]_B!vars PROVE NapInv'
    OBVIOUS
  <2>1. ASSUME NEW t \in Threads, B!Ask(t) \/ B!Wake(t) PROVE NapInv'
    <3>1. B!Refilled' = B!Refilled
      BY <2>1 DEF B!Ask, B!Wake, B!Refilled
    <3> QED
      BY <2>1, <3>1 DEF B!Ask, B!Wake, NapInv, B!TypeOK
  <2>2. ASSUME NEW t \in Threads, B!Take(t) PROVE NapInv'
    BY <2>2 DEF B!Take, NapInv, B!TypeOK
  <2>3. ASSUME NEW t \in Threads, B!Sleep(t) PROVE NapInv'
    <3>1. B!Refilled' = B!Refilled
      <4>1. (clock - clock) * Rate = 0
        BY DEF B!RateAssumption, B!TypeOK
      <4> QED
        BY <2>3, <4>1, RefillBounds DEF B!RateAssumption, B!CapacityAssumption, B!Sleep,
          B!Refilled, B!TypeOK
    <3>2. B!Refilled + B!WaitTime * Rate >= Cost
      BY <2>3, WaitLongEnough DEF B!Sleep
    <3> QED
      BY <2>3, <3>1, <3>2 DEF B!Sleep, NapInv, B!TypeOK
  <2>4. CASE B!Tick
    <3> SUFFICES ASSUME NEW t \in Threads, due[t] PROVE (B!Refilled + nap[t] * Rate >= Cost)'
      BY <2>4 DEF B!Tick, NapInv, B!TypeOK
    <3>1. B!Refilled' = Capacity \/ B!Refilled' = B!Refilled + Rate
      <4>1. (clock + 1 - last) * Rate = (clock - last) * Rate + Rate
        <5>1. clock + 1 - last = (clock - last) + 1 /\ 1 * Rate = Rate
          BY DEF B!RateAssumption, B!TypeOK
        <5> QED
          BY <5>1, Distribute DEF B!TypeOK
      <4>2. (clock - last) * Rate \in Nat
        BY DEF B!RateAssumption, B!TypeOK
      <4> QED
        BY <2>4, <4>1, <4>2 DEF B!RateAssumption, B!CapacityAssumption, B!Tick, B!Refilled,
          B!TypeOK
    <3>2. nap'[t] * Rate \in Nat
      BY DEF B!RateAssumption, B!TypeOK
    <3>3. nap[t] = 0 => nap'[t] * Rate = 0 /\ nap[t] * Rate = 0
      BY <2>4 DEF B!RateAssumption, B!Tick, B!TypeOK
    <3>4. nap[t] > 0 => nap[t] * Rate = nap'[t] * Rate + Rate
      <4>1. nap[t] > 0 => nap[t] = nap'[t] + 1
        BY <2>4 DEF B!Tick, B!TypeOK
      <4>2. (nap'[t] + 1) * Rate = nap'[t] * Rate + Rate
        <5>1. 1 * Rate = Rate
          BY DEF B!RateAssumption
        <5>2. nap'[t] \in Int
          BY DEF B!TypeOK
        <5>3. \A n \in Int : (n + 1) * Rate = n * Rate + 1 * Rate
          BY Distribute
        <5> QED
          BY <5>1, <5>2, <5>3
      <4> QED
        BY <4>1, <4>2
    <3>5. B!Refilled + nap[t] * Rate >= Cost /\ nap[t] \in Nat /\ B!Refilled \in Nat
      BY RefillBounds DEF B!CapacityAssumption, NapInv, B!TypeOK
    <3> QED
      BY <3>1, <3>2, <3>3, <3>4, <3>5 DEF B!RateAssumption, B!CapacityAssumption
  <2>5. CASE B!Observe \/ UNCHANGED B!vars
    BY <2>5 DEF B!Observe, B!vars, NapInv, B!Refilled
  <2> QED
    BY <2>1, <2>2, <2>3, <2>4, <2>5 DEF B!Next
<1>3. B!TypeOK /\ NapInv => B!NapSuffices
  <2> SUFFICES ASSUME B!TypeOK, NapInv, NEW t \in Threads, at[t] = "try", due[t]
               PROVE  B!Refilled >= Cost
    BY DEF B!NapSuffices
  <2>1. nap[t] * Rate = 0
    BY DEF B!RateAssumption, NapInv, B!TypeOK
  <2> QED
    BY <2>1, RefillBounds DEF B!CapacityAssumption, NapInv, B!TypeOK
<1>4. B!Spec => []B!TypeOK
  BY BucketTypes
<1> QED
  BY <1>1, <1>2, <1>3, <1>4, PTL DEF B!Spec
=============================================================================
