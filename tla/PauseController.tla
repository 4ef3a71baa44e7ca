--------------------------- MODULE PauseController ---------------------------
(***************************************************************************)
(* engine/pause_controller.py and retry_with_backoff of                    *)
(* engine/rate_limiter.py: the PauseController object, its NetworkWatchdog *)
(* with the recovery threads it starts, the migration threads that call    *)
(* retry_with_backoff(..., pause_controller=...), and the administrators   *)
(* who pause, resume and cancel from other threads.                        *)
(*                                                                         *)
(* A step is what a thread does under one acquisition of _lock, or one     *)
(* read or write of an Event: everything between two of those is           *)
(* interleaved with the other threads.                                     *)
(***************************************************************************)
EXTENDS Naturals, FiniteSets

CONSTANTS
  Workers,      \* threads running the agents' loops
  Admins,       \* concurrent calls of pause / resume / cancel
  Probes,       \* recovery threads: an identity is free again once it is dead
  None,         \* "no recovery thread yet", "no notification owed"
  MaxRetries    \* max_retries of retry_with_backoff

ASSUME NoneAssumption == None \notin Probes
ASSUME MaxRetriesAssumption == MaxRetries \in Nat \ {0}

VARIABLES
  state,        \* PauseController._state
  event,        \* _resume_event.is_set()
  monitor,      \* NetworkWatchdog._monitor_thread
  active,       \* NetworkWatchdog._monitoring_active.is_set()
  net,          \* can the machine reach the Internet
  pc,           \* where each worker is
  attempt,      \* attempt of retry_with_backoff, per worker
  recheck,      \* is this the wait_if_paused after a disconnect (line 87)
  ppc,          \* where each recovery thread is
  successes,    \* consecutive_successes, per recovery thread
  owed,         \* the state an administrator's call has still to report
  shown,        \* the last state given to _on_state_change
  held          \* history: the worker found the run paused, nobody let it go

controllerVars == <<state, event>>
watchdogVars == <<monitor, active, ppc, successes>>
workerVars == <<pc, attempt, recheck>>
vars == <<state, event, monitor, active, net, pc, attempt, recheck, ppc,
          successes, owed, shown, held>>

Paused == {"PAUSED_MANUAL", "PAUSED_NETWORK_LOST"}
PauseState == {"RUNNING", "CANCELLED"} \union Paused

WorkerAt == {"test", "wait", "poll", "final", "call", "disconnect", "notify",
             "start", "launch", "spawn", "interrupted", "finished"}
ProbeAt == {"dead", "head", "look", "probe", "clear", "resume", "notify", "exit"}

TypeOK ==
  /\ state \in PauseState
  /\ event \in BOOLEAN
  /\ monitor \in Probes \union {None}
  /\ active \in BOOLEAN
  /\ net \in {"up", "down"}
  /\ pc \in [Workers -> WorkerAt]
  /\ attempt \in [Workers -> 0 .. MaxRetries]
  /\ recheck \in [Workers -> BOOLEAN]
  /\ ppc \in [Probes -> ProbeAt]
  /\ successes \in [Probes -> 0 .. 2]
  /\ owed \in [Admins -> PauseState \union {None}]
  /\ shown \in PauseState
  /\ held \in [Workers -> BOOLEAN]

Init ==
  /\ state = "RUNNING"
  /\ event = TRUE
  /\ monitor = None
  /\ active = FALSE
  /\ net = "up"
  /\ pc = [w \in Workers |-> "test"]
  /\ attempt = [w \in Workers |-> 0]
  /\ recheck = [w \in Workers |-> FALSE]
  /\ ppc = [p \in Probes |-> "dead"]
  /\ successes = [p \in Probes |-> 0]
  /\ owed = [a \in Admins |-> None]
  /\ shown = "RUNNING"
  /\ held = [w \in Workers |-> FALSE]

\* Every worker that found the run paused is free to go on.
ReleaseAll == held' = [w \in Workers |-> FALSE]
Goto(w, l) == pc' = [pc EXCEPT ![w] = l]
ProbeGoto(p, l) == ppc' = [ppc EXCEPT ![p] = l]

-----------------------------------------------------------------------------
(* pause, resume, cancel: the state changes under _lock, the callback runs  *)
(* after the lock is released.                                              *)

\* Mutant: pause() forgets _resume_event.clear().
PauseWithoutClear(a) ==
  /\ owed[a] = None
  /\ state # "CANCELLED"
  /\ state' = "PAUSED_MANUAL"
  /\ owed' = [owed EXCEPT ![a] = "PAUSED_MANUAL"]
  /\ UNCHANGED <<event, watchdogVars, net, workerVars, shown, held>>

Pause(a) ==
  /\ owed[a] = None
  /\ state # "CANCELLED"
  /\ state' = "PAUSED_MANUAL"
  /\ event' = FALSE
  /\ owed' = [owed EXCEPT ![a] = "PAUSED_MANUAL"]
  /\ UNCHANGED <<watchdogVars, net, workerVars, shown, held>>

Resume(a) ==
  /\ owed[a] = None
  /\ state # "CANCELLED"
  /\ state' = "RUNNING"
  /\ event' = TRUE
  /\ owed' = [owed EXCEPT ![a] = "RUNNING"]
  /\ ReleaseAll
  /\ UNCHANGED <<watchdogVars, net, workerVars, shown>>

Cancel(a) ==
  /\ owed[a] = None
  /\ state' = "CANCELLED"
  /\ event' = TRUE
  /\ owed' = [owed EXCEPT ![a] = "CANCELLED"]
  /\ ReleaseAll
  /\ UNCHANGED <<watchdogVars, net, workerVars, shown>>

\* _on_state_change of the call a made.
Report(a) ==
  /\ owed[a] # None
  /\ shown' = owed[a]
  /\ owed' = [owed EXCEPT ![a] = None]
  /\ UNCHANGED <<controllerVars, watchdogVars, net, workerVars, held>>

-----------------------------------------------------------------------------
(* wait_if_paused *)

\* while self.is_paused
Test(w) ==
  /\ pc[w] = "test"
  /\ Goto(w, IF state \in Paused THEN "wait" ELSE "final")
  /\ held' = [held EXCEPT ![w] = state \in Paused]
  /\ UNCHANGED <<controllerVars, watchdogVars, net, attempt, recheck, owed, shown>>

\* _resume_event.wait(timeout): the event is set, or the timeout expires.
Wait(w) ==
  /\ pc[w] = "wait"
  /\ Goto(w, IF event THEN "final" ELSE "poll")
  /\ UNCHANGED <<controllerVars, watchdogVars, net, attempt, recheck, owed, shown, held>>

\* if self.is_cancelled: raise InterruptedError, inside the loop
Poll(w) ==
  /\ pc[w] = "poll"
  /\ Goto(w, IF state = "CANCELLED" THEN "interrupted" ELSE "test")
  /\ UNCHANGED <<controllerVars, watchdogVars, net, attempt, recheck, owed, shown, held>>

\* Where the wait leads when the run is not cancelled: the wait that follows a
\* disconnect is followed by the one at the head of the retry loop.
Onward(w) == IF recheck[w] THEN "test" ELSE "call"

\* if self.is_cancelled: raise InterruptedError, after the loop
AfterWait(w) == IF state = "CANCELLED" THEN "interrupted" ELSE Onward(w)

Final(w) ==
  /\ pc[w] = "final"
  /\ Goto(w, AfterWait(w))
  /\ recheck' = [recheck EXCEPT ![w] = FALSE]
  /\ UNCHANGED <<controllerVars, watchdogVars, net, attempt, owed, shown, held>>

-----------------------------------------------------------------------------
(* retry_with_backoff *)

\* func() returns: the worker goes on to its next call, or its job is over.
CallReturns(w) ==
  /\ pc[w] = "call"
  /\ net = "up"
  /\ \E l \in {"test", "finished"} : Goto(w, l)
  /\ attempt' = [attempt EXCEPT ![w] = 0]
  /\ UNCHANGED <<controllerVars, watchdogVars, net, recheck, owed, shown, held>>

\* Mutant: the attempts are counted and never run out.
NextAttemptForever(n) == n + 1

NextAttempt(n) == IF n + 1 >= MaxRetries THEN 0 ELSE n + 1

\* An exception that is no network error: counted, and raised to the agent,
\* which goes on to its next item, when the attempts are used up.
CallFails(w) ==
  /\ pc[w] = "call"
  /\ Goto(w, "test")
  /\ attempt' = [attempt EXCEPT ![w] = NextAttempt(@)]
  /\ UNCHANGED <<controllerVars, watchdogVars, net, recheck, owed, shown, held>>

\* is_network_error(exc): also a reset or a timeout while the network is up.
CallLosesNetwork(w) ==
  /\ pc[w] = "call"
  /\ Goto(w, "disconnect")
  /\ UNCHANGED <<controllerVars, watchdogVars, net, attempt, recheck, owed, shown, held>>

-----------------------------------------------------------------------------
(* handle_network_disconnect *)

\* Mutant: a late network error may pause a cancelled run.
OnlyManualHolds == {"PAUSED_MANUAL"}

\* The states of the two early returns.
HeldAlready == {"CANCELLED", "PAUSED_MANUAL"}

\* The critical section.
Disconnect(w) ==
  /\ pc[w] = "disconnect"
  /\ IF state \in HeldAlready
       THEN /\ Goto(w, "test")
            /\ recheck' = [recheck EXCEPT ![w] = TRUE]
            /\ UNCHANGED controllerVars
       ELSE /\ state' = "PAUSED_NETWORK_LOST"
            /\ event' = FALSE
            /\ Goto(w, "notify")
            /\ UNCHANGED recheck
  /\ UNCHANGED <<watchdogVars, net, attempt, owed, shown, held>>

DisconnectReport(w) ==
  /\ pc[w] = "notify"
  /\ shown' = "PAUSED_NETWORK_LOST"
  /\ Goto(w, "start")
  /\ UNCHANGED <<controllerVars, watchdogVars, net, attempt, recheck, owed, held>>

\* Mutant: the watchdog looks at _monitoring_active and not at the thread.
MonitorActive == active

MonitorAlive == monitor # None /\ ppc[monitor] # "dead"

\* start_monitoring_recovery returns while the previous thread is alive.
StartMonitoring(w) ==
  /\ pc[w] = "start"
  /\ Goto(w, IF MonitorAlive THEN "test" ELSE "launch")
  /\ recheck' = [recheck EXCEPT ![w] = MonitorAlive]
  /\ UNCHANGED <<controllerVars, watchdogVars, net, attempt, owed, shown, held>>

\* _monitoring_active.set()
SetActive(w) ==
  /\ pc[w] = "launch"
  /\ active' = TRUE
  /\ Goto(w, "spawn")
  /\ UNCHANGED <<controllerVars, monitor, ppc, successes, net, attempt, recheck,
                 owed, shown, held>>

\* threading.Thread(target=_recovery_loop).start()
Spawn(w, p) ==
  /\ pc[w] = "spawn"
  /\ ppc[p] = "dead"
  /\ monitor' = p
  /\ ProbeGoto(p, "head")
  /\ successes' = [successes EXCEPT ![p] = 0]
  /\ Goto(w, "test")
  /\ recheck' = [recheck EXCEPT ![w] = TRUE]
  /\ UNCHANGED <<controllerVars, active, net, attempt, owed, shown, held>>

-----------------------------------------------------------------------------
(* _recovery_loop *)

\* while self._monitoring_active.is_set() ...
LoopHead(p) ==
  /\ ppc[p] = "head"
  /\ ProbeGoto(p, IF active THEN "look" ELSE "exit")
  /\ UNCHANGED <<controllerVars, monitor, active, successes, net, workerVars,
                 owed, shown, held>>

\* ... and self.controller.state == PAUSED_NETWORK_LOST
LoopLook(p) ==
  /\ ppc[p] = "look"
  /\ ProbeGoto(p, IF state = "PAUSED_NETWORK_LOST" THEN "probe" ELSE "exit")
  /\ UNCHANGED <<controllerVars, monitor, active, successes, net, workerVars,
                 owed, shown, held>>

\* Mutant: a success is remembered, the successes are not added up.
StreakOfOne(n) == IF net = "up" THEN 1 ELSE 0

Streak(n) == IF net = "up" THEN n + 1 ELSE 0

\* time.sleep(poll_interval), check_connectivity: two successes in a row.
Probe(p) ==
  /\ ppc[p] = "probe"
  /\ successes' = [successes EXCEPT ![p] = Streak(@)]
  /\ ProbeGoto(p, IF successes'[p] >= 2 THEN "clear" ELSE "head")
  /\ UNCHANGED <<controllerVars, monitor, active, net, workerVars, owed, shown, held>>

\* _monitoring_active.clear() before the resume
ClearActive(p) ==
  /\ ppc[p] = "clear"
  /\ active' = FALSE
  /\ ProbeGoto(p, "resume")
  /\ UNCHANGED <<controllerVars, monitor, successes, net, workerVars, owed, shown, held>>

\* controller.resume(): it looks at CANCELLED and at nothing else.
AutoResume(p) ==
  /\ ppc[p] = "resume"
  /\ IF state = "CANCELLED"
       THEN ProbeGoto(p, "exit") /\ UNCHANGED <<controllerVars, held>>
       ELSE /\ state' = "RUNNING"
            /\ event' = TRUE
            /\ ReleaseAll
            /\ ProbeGoto(p, "notify")
  /\ UNCHANGED <<monitor, active, successes, net, workerVars, owed, shown>>

AutoResumeReport(p) ==
  /\ ppc[p] = "notify"
  /\ shown' = "RUNNING"
  /\ ProbeGoto(p, "exit")
  /\ UNCHANGED <<controllerVars, monitor, active, successes, net, workerVars, owed, held>>

\* _monitoring_active.clear(), and the thread ends.
Exit(p) ==
  /\ ppc[p] = "exit"
  /\ active' = FALSE
  /\ ProbeGoto(p, "dead")
  /\ successes' = [successes EXCEPT ![p] = 0]
  /\ UNCHANGED <<controllerVars, monitor, net, workerVars, owed, shown, held>>

-----------------------------------------------------------------------------
NetworkChange ==
  /\ net' = IF net = "up" THEN "down" ELSE "up"
  /\ UNCHANGED <<controllerVars, watchdogVars, workerVars, owed, shown, held>>

AdminStep(a) == Pause(a) \/ Resume(a) \/ Cancel(a)

WorkerStep(w) ==
  \/ Test(w) \/ Wait(w) \/ Poll(w) \/ Final(w)
  \/ CallReturns(w) \/ CallFails(w) \/ CallLosesNetwork(w)
  \/ Disconnect(w) \/ DisconnectReport(w) \/ StartMonitoring(w) \/ SetActive(w)
  \/ \E p \in Probes : Spawn(w, p)

ProbeStep(p) ==
  \/ LoopHead(p) \/ LoopLook(p) \/ Probe(p) \/ ClearActive(p)
  \/ AutoResume(p) \/ AutoResumeReport(p) \/ Exit(p)

\* The job is over, or the run was cancelled and every thread has noticed.
Terminated ==
  /\ \A w \in Workers : pc[w] \in {"finished", "interrupted"}
  /\ UNCHANGED vars

Next ==
  \/ \E a \in Admins : AdminStep(a) \/ Report(a)
  \/ \E w \in Workers : WorkerStep(w)
  \/ \E p \in Probes : ProbeStep(p)
  \/ NetworkChange
  \/ Terminated

Spec == Init /\ [][Next]_vars

\* Threads are scheduled, calls and probes have timeouts, a callback returns.
\* Nobody is obliged to pause, resume or cancel, nor the network to change.
Fairness ==
  /\ \A w \in Workers : WF_vars(WorkerStep(w))
  /\ \A p \in Probes : WF_vars(ProbeStep(p))
  /\ \A a \in Admins : WF_vars(Report(a))

FairSpec == Spec /\ Fairness

-----------------------------------------------------------------------------
(* Properties *)

\* _resume_event is set exactly when nobody is asked to wait: state and event
\* are two objects and wait_if_paused decides on both.
EventMatchesState == event <=> state \notin Paused

\* A worker that found the run paused makes no call to a server before
\* somebody resumed or cancelled the run, whatever the timeouts of its waits
\* and the other threads did meanwhile.
PauseHolds == \A w \in Workers : pc[w] = "call" => ~held[w]

\* Nothing leaves CANCELLED: no late resume, network loss or watchdog.
CancelIsFinal == [][state = "CANCELLED" => state' = "CANCELLED"]_vars

\* At most one recovery thread is alive, so that none clears the _monitoring_active of
\* another: what is_alive() guards. One worker never starts a second; two workers that
\* lose the network at once may each find none (pause_claims.cfg).
AtMostOneMonitor ==
  \A p, q \in Probes : ppc[p] # "dead" /\ ppc[q] # "dead" => p = q

\* A cancelled run stops: every worker leaves its waits and its retries.
CancelStopsWorkers ==
  \A w \in Workers :
    state = "CANCELLED" ~> pc[w] \in {"interrupted", "finished"}

\* The network loss that a recovery thread is watching is healed when the
\* network stays up.
Watched == monitor # None /\ ppc[monitor] \in {"head", "look", "probe"}
WatchedLossHeals ==
  <>[](net = "up") =>
    (state = "PAUSED_NETWORK_LOST" /\ Watched ~> state # "PAUSED_NETWORK_LOST")

\* "Watchdog is monitoring connection and will auto-resume once restored":
\* every network loss is healed when the network stays up.
SelfHealing ==
  <>[](net = "up") =>
    (state = "PAUSED_NETWORK_LOST" ~> state # "PAUSED_NETWORK_LOST")

\* "Click Resume once settled to continue": what an administrator paused, only
\* an administrator resumes.
ManualPauseKept ==
  [][state = "PAUSED_MANUAL" /\ state' = "RUNNING"
       => \E a \in Admins : Resume(a)]_vars

\* "The progress bar transitions to a paused striped state": when every callback
\* of a pause has been delivered, the last one shows it.
Delivered ==
  /\ \A a \in Admins : owed[a] = None
  /\ \A w \in Workers : pc[w] # "notify"
  /\ \A p \in Probes : ppc[p] # "notify"
PauseIsShown == Delivered /\ state = "PAUSED_MANUAL" => shown = "PAUSED_MANUAL"
=============================================================================
