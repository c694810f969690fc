------------------------------- MODULE Retention -------------------------------
(***************************************************************************)
(* The life cycle of the retention manager (internal/metrics/retention.go): *)
(* Start, Stop and UpdateConfig, called by several goroutines, and the       *)
(* goroutine that waits for the ticker and for the stop channel.  What      *)
(* happens under runningMu without blocking is one step; Stop and           *)
(* UpdateConfig hold it while they wait for the goroutine to end, and       *)
(* UpdateConfig lets go of it before it calls Start.                       *)
(*                                                                         *)
(* The prunings are goroutines that nobody waits for: `go r.runPruning()`    *)
(* changes nothing here, and Metrics has what they do.                     *)
(***************************************************************************)
EXTENDS Naturals

CONSTANTS
  Callers,   \* the goroutines that call the manager
  NoCaller

ASSUME CallersAssumption == NoCaller \notin Callers

VARIABLES
  enabled,   \* r.config.Enabled
  running,   \* r.running
  stopCh,    \* r.stopCh
  ticking,   \* r.ticker has been started and not stopped
  tick,      \* a tick is in its channel, which holds one
  loops,     \* goroutines started and not done: the counter of r.wg
  holder,    \* the caller that has runningMu across steps
  pc,        \* where each caller is
  wanted,    \* config.Enabled in the call of UpdateConfig
  panicked,  \* a closed channel was closed: the process is gone
  stopped,   \* history: Stop has ended the loop, and no UpdateConfig came since
  revived    \* history: Start has been called in that state

manager == <<enabled, running, stopCh, ticking>>
calls   == <<holder, pc, wanted>>
history == <<stopped, revived>>
retentionVars == <<manager, tick, loops, calls, panicked, history>>

RetentionTypeOK ==
  /\ enabled \in BOOLEAN /\ running \in BOOLEAN /\ ticking \in BOOLEAN
  /\ stopCh \in {"open", "closed"}
  /\ tick \in BOOLEAN /\ loops \in 0 .. 1
  /\ holder \in Callers \union {NoCaller}
  /\ pc \in [Callers -> {"idle", "stopping", "updating", "restart"}]
  /\ wanted \in [Callers -> BOOLEAN]
  /\ panicked \in BOOLEAN /\ stopped \in BOOLEAN /\ revived \in BOOLEAN

\* NewRetentionManager.
RetentionInit ==
  /\ enabled \in BOOLEAN /\ running = FALSE /\ stopCh = "open" /\ ticking = FALSE
  /\ tick = FALSE /\ loops = 0
  /\ holder = NoCaller
  /\ pc = [c \in Callers |-> "idle"] /\ wanted = [c \in Callers |-> FALSE]
  /\ panicked = FALSE /\ stopped = FALSE /\ revived = FALSE

-----------------------------------------------------------------------------
\* Slip: UpdateConfig decides, and Start does not look at the configuration.
AsDecided(c) == IF pc[c] = "restart" THEN wanted[c] ELSE enabled

MayStart(c) == enabled

\* The body of Start: nothing but an error when the manager runs, nothing when
\* pruning is disabled; else a new ticker, and a goroutine that waits for it.
StartLoop(c) ==
  IF running \/ ~MayStart(c) THEN UNCHANGED <<running, ticking, tick, loops, revived>>
  ELSE /\ running' = TRUE /\ ticking' = TRUE /\ tick' = FALSE
       /\ loops' = loops + 1
       /\ revived' = (revived \/ stopped)

Start(c) ==
  /\ pc[c] = "idle" /\ holder = NoCaller
  /\ StartLoop(c)
  /\ UNCHANGED <<enabled, stopCh, calls, panicked, stopped>>

\* ticker.Stop() and close(stopCh), which panics when the channel is closed; the
\* caller keeps the lock and waits.
StopLoop(c, place) ==
  /\ ticking' = FALSE /\ stopCh' = "closed"
  /\ panicked' = (stopCh = "closed")
  /\ holder' = c /\ pc' = [pc EXCEPT ![c] = place]

Stop(c) ==
  /\ pc[c] = "idle" /\ holder = NoCaller /\ running
  /\ StopLoop(c, "stopping")
  /\ UNCHANGED <<enabled, running, tick, loops, wanted, history>>

\* Slip: nobody waits for the goroutine.
NotAwaited == TRUE

\* wg.Wait() returns.
LoopIsDone == loops = 0

StopReturns(c) ==
  /\ pc[c] = "stopping" /\ LoopIsDone
  /\ running' = FALSE /\ stopped' = TRUE
  /\ holder' = NoCaller /\ pc' = [pc EXCEPT ![c] = "idle"]
  /\ UNCHANGED <<enabled, stopCh, ticking, tick, loops, wanted, panicked, revived>>

\* Slip: the channel is not renewed.
SameChannel == stopCh

NewChannel == "open"

\* Slip: the lock is kept for the call of Start.
KeptLock(c) == IF wanted'[c] THEN c ELSE NoCaller

ReleasedLock(c) == NoCaller

\* The new configuration, a new channel, and the release of the lock; Start
\* comes later when it is to be called.
Apply(c) ==
  /\ enabled' = wanted'[c] /\ stopCh' = NewChannel /\ running' = FALSE
  /\ holder' = ReleasedLock(c)
  /\ pc' = [pc EXCEPT ![c] = IF wanted'[c] THEN "restart" ELSE "idle"]
  /\ stopped' = FALSE
  /\ UNCHANGED <<tick, loops, revived>>

UpdateConfig(c) ==
  /\ pc[c] = "idle" /\ holder = NoCaller
  /\ \E e \in BOOLEAN : wanted' = [wanted EXCEPT ![c] = e]
  /\ IF running
     THEN StopLoop(c, "updating")
          /\ UNCHANGED <<enabled, running, tick, loops, history>>
     ELSE Apply(c) /\ UNCHANGED <<ticking, panicked>>

ApplyStopped(c) ==
  /\ pc[c] = "updating" /\ LoopIsDone
  /\ UNCHANGED <<wanted, ticking, panicked>>
  /\ Apply(c)

\* UpdateConfig calls Start, without the lock until Start takes it.
Restart(c) ==
  /\ pc[c] = "restart" /\ holder = NoCaller
  /\ StartLoop(c)
  /\ pc' = [pc EXCEPT ![c] = "idle"]
  /\ UNCHANGED <<enabled, stopCh, holder, wanted, panicked, stopped>>

\* RunPruningNow needs no lock, and leaves the manager as it is.
RunPruningNow(c) == pc[c] = "idle" /\ UNCHANGED retentionVars

-----------------------------------------------------------------------------
\* The ticker drops ticks that nobody takes.
TickerFires ==
  /\ ticking /\ ~tick /\ tick' = TRUE
  /\ UNCHANGED <<manager, loops, calls, panicked, history>>

\* The select: a tick starts a pruning, a closed channel ends the goroutine.
LoopTicks ==
  /\ loops > 0 /\ tick /\ tick' = FALSE
  /\ UNCHANGED <<manager, loops, calls, panicked, history>>

LoopEnds ==
  /\ loops > 0 /\ stopCh = "closed" /\ loops' = loops - 1
  /\ UNCHANGED <<manager, tick, calls, panicked, history>>

Step ==
  /\ ~panicked
  /\ \/ \E c \in Callers :
          \/ Start(c) \/ Stop(c) \/ StopReturns(c)
          \/ UpdateConfig(c) \/ ApplyStopped(c) \/ Restart(c)
          \/ RunPruningNow(c)
     \/ TickerFires \/ LoopTicks \/ LoopEnds

Panicked == panicked /\ UNCHANGED retentionVars

RetentionNext == Step \/ Panicked

\* The goroutine runs on, and so does a caller whose wait is over.  A mutex of Go
\* is handed to the goroutine that has waited longest after a millisecond, so
\* a caller that waits for it while others come and go gets it: strong fairness.
Fairness ==
  /\ WF_retentionVars(~panicked /\ LoopEnds)
  /\ \A c \in Callers : /\ WF_retentionVars(~panicked /\ StopReturns(c))
                        /\ WF_retentionVars(~panicked /\ ApplyStopped(c))
                        /\ SF_retentionVars(~panicked /\ Restart(c))

RetentionSpec == RetentionInit /\ [][RetentionNext]_retentionVars /\ Fairness

-----------------------------------------------------------------------------
(***************************************************************************)
(* Properties.                                                             *)
(***************************************************************************)
\* The stop channel is closed twice, which is a panic, only after somebody has
\* called Start when Stop had ended the loop: UpdateConfig renews the channel,
\* Stop does not.
ClosesOnce == panicked => revived

\* Whenever nobody holds the lock, a manager that says it runs has one goroutine
\* that waits for a live ticker and an open channel (again unless it was
\* started after Stop), and one that does not say so has none left.
RunningIsTrue ==
  holder = NoCaller =>
    IF running THEN revived \/ (loops = 1 /\ ticking /\ stopCh = "open")
    ELSE loops = 0 /\ ~ticking

\* A manager whose last configuration disables pruning does not run, whoever
\* gets between the release of the lock and the Start of UpdateConfig.
RunsOnlyEnabled == running /\ holder = NoCaller => enabled

\* "Start outside the lock to avoid deadlock": every call returns, though Stop
\* and UpdateConfig wait for the goroutine with the lock in their hands.
CallsReturn == \A c \in Callers : pc[c] # "idle" ~> pc[c] = "idle" \/ panicked
================================================================================
