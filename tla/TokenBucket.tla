----------------------------- MODULE TokenBucket -----------------------------
(***************************************************************************)
(* TokenBucket of engine/rate_limiter.py: threads that share one bucket    *)
(* (the one of a client in the bulk importer and the Web UI, or of one     *)
(* mailbox in the mailbox agent) and sleep outside its lock. Time is       *)
(* counted in ticks and tokens in fractions, so that Rate is an integer.   *)
(***************************************************************************)
EXTENDS Integers

CONSTANTS
  Threads,
  Rate,       \* tokens added per tick
  Capacity,
  Cost,       \* tokens of one acquire()
  MaxClock    \* bound: ticks

ASSUME RateAssumption == Rate \in Nat \ {0}
ASSUME CapacityAssumption == Capacity \in Nat /\ Cost \in 1 .. Capacity
ASSUME ClockAssumption == MaxClock \in Nat

VARIABLES
  tokens,    \* self.tokens
  last,      \* self.last_update
  clock,     \* time.time()
  pc,        \* where each thread is
  nap,       \* ticks left of the thread's sleep
  due,       \* history: nobody took a token since the thread went to sleep
  mark,      \* history: when the observed window opened
  spent      \* history: tokens spent in that window

vars == <<tokens, last, clock, pc, nap, due, mark, spent>>

TypeOK ==
  /\ tokens \in 0 .. Capacity
  /\ clock \in 0 .. MaxClock /\ last \in 0 .. clock /\ mark \in 0 .. clock
  /\ pc \in [Threads -> {"idle", "try", "nap"}]
  /\ nap \in [Threads -> Nat]
  /\ due \in [Threads -> BOOLEAN]
  /\ spent \in Nat

Init ==
  /\ tokens = Capacity
  /\ last = 0 /\ clock = 0
  /\ pc = [t \in Threads |-> "idle"]
  /\ nap = [t \in Threads |-> 0]
  /\ due = [t \in Threads |-> FALSE]
  /\ mark = 0 /\ spent = 0

Ask(t) ==
  /\ pc[t] = "idle"
  /\ pc' = [pc EXCEPT ![t] = "try"]
  /\ UNCHANGED <<tokens, last, clock, nap, due, mark, spent>>

\* Mutant: the bucket overflows.
Uncapped == tokens + (clock - last) * Rate

\* min(capacity, tokens + elapsed * rate)
Refilled ==
  IF tokens + (clock - last) * Rate > Capacity
    THEN Capacity
    ELSE tokens + (clock - last) * Rate

\* Mutant: the wait is rounded down.
ShortWait == (Cost - Refilled) \div Rate

\* wait_time = (tokens - self.tokens) / rate, at least one tick
WaitTime == (Cost - Refilled + Rate - 1) \div Rate

\* The critical section, when the bucket holds enough.
Take(t) ==
  /\ pc[t] = "try"
  /\ Refilled >= Cost
  /\ tokens' = Refilled - Cost
  /\ last' = clock
  /\ pc' = [pc EXCEPT ![t] = "idle"]
  /\ due' = [s \in Threads |-> FALSE]
  /\ spent' = spent + Cost
  /\ UNCHANGED <<clock, nap, mark>>

\* ... and when it does not.
Sleep(t) ==
  /\ pc[t] = "try"
  /\ Refilled < Cost
  /\ tokens' = Refilled
  /\ last' = clock
  /\ pc' = [pc EXCEPT ![t] = "nap"]
  /\ nap' = [nap EXCEPT ![t] = WaitTime]
  /\ due' = [due EXCEPT ![t] = TRUE]
  /\ UNCHANGED <<clock, mark, spent>>

\* A sleep may last longer than asked for, never less.
Wake(t) ==
  /\ pc[t] = "nap"
  /\ nap[t] = 0
  /\ pc' = [pc EXCEPT ![t] = "try"]
  /\ UNCHANGED <<tokens, last, clock, nap, due, mark, spent>>

Tick ==
  /\ clock < MaxClock
  /\ clock' = clock + 1
  /\ nap' = [t \in Threads |-> IF nap[t] > 0 THEN nap[t] - 1 ELSE 0]
  /\ UNCHANGED <<tokens, last, pc, due, mark, spent>>

\* An observer opens a window, at any time.
Observe ==
  /\ mark' = clock
  /\ spent' = 0
  /\ UNCHANGED <<tokens, last, clock, pc, nap, due>>

Next ==
  \/ \E t \in Threads : Ask(t) \/ Take(t) \/ Sleep(t) \/ Wake(t)
  \/ Tick
  \/ Observe

Spec == Init /\ [][Next]_vars

-----------------------------------------------------------------------------
(* Properties *)

\* In any window of time, whenever it opens and however the threads share the
\* bucket, no more is spent than one full bucket and what the rate adds.
WindowBounded == spent <= Capacity + (clock - mark) * Rate

\* A thread that has slept its wait_time finds its tokens, unless another thread
\* took some: it never sleeps a second time for nothing.
NapSuffices == \A t \in Threads : pc[t] = "try" /\ due[t] => Refilled >= Cost
=============================================================================
