-------------------------- MODULE DebouncingQueue --------------------------
(***************************************************************************)
(* src/utils/debouncing-queue.ts: a sequential task queue that coalesces   *)
(* bursts of push() into one batch, runs it after a debounce delay that    *)
(* grows while events continue, and runs it at once on flush().  It is the *)
(* refresh queue of every JjRepository.                                    *)
(*                                                                         *)
(* JavaScript runs each method to its next await, so a method is one       *)
(* action and the await of the task in _runCycle splits a cycle in three:  *)
(* the cycle starts, the task settles, the finally block runs.  Any other  *)
(* call may come between them, the task's own re-entrant calls included.   *)
(*                                                                         *)
(* A request is one call of push, with its own payload.  Payloads merge by *)
(* union, as the one user of the queue merges them (src/core/              *)
(* jj-repository.ts), so a payload is the set of requests it stands for.   *)
(***************************************************************************)
EXTENDS Naturals, FiniteSets

CONSTANTS Requests,        \* the calls of push
          Bare,            \* those that pass no payload
          MaxMultiplier,   \* getMaxMultiplier()
          Undefined        \* a field that is undefined

Batch == [payload : SUBSET Requests, callers : SUBSET Requests, immediate : BOOLEAN]
Execution == [payload : SUBSET Requests, callers : SUBSET Requests,
              cancelled : BOOLEAN, task : {"running", "ok", "error"}]
PromiseState == {"unasked", "pending", "ran", "failed", "dropped"}

ASSUME QueueAssumption == /\ Bare \subseteq Requests
                          /\ MaxMultiplier \in Nat \ {0}
                          /\ Undefined \notin Batch \cup Execution

VARIABLES pending,         \* _pending: the batch being collected, or Undefined
          active,          \* _activeExecution and its batch, or Undefined
          timer,           \* _timer: the delay factor it was armed with, 0 if unset
          multiplier,      \* _multiplier
          disposed,        \* _disposed
          promise,         \* what the promise returned to each call says
          executed         \* the payloads a finished task was run with

queueVars == <<pending, active, timer, multiplier, disposed, promise, executed>>

Idle == active = Undefined

-----------------------------------------------------------------------------
PayloadOf(r) == {r} \ Bare

GetOrCreatePendingOverwriting(r) ==
    IF pending = Undefined
    THEN [payload |-> PayloadOf(r), callers |-> {r}, immediate |-> FALSE]
    ELSE [pending EXCEPT !.payload = PayloadOf(r), !.callers = @ \cup {r}]

\* _getOrCreatePending: join the batch being collected, or open one.
GetOrCreatePending(r) ==
    IF pending = Undefined
    THEN [payload |-> PayloadOf(r), callers |-> {r}, immediate |-> FALSE]
    ELSE [pending EXCEPT !.payload = @ \cup PayloadOf(r), !.callers = @ \cup {r}]

\* _scheduleDebounce's delay, in units of the base debounce.
EffectiveMultiplier(m) == IF m < MaxMultiplier THEN m ELSE MaxMultiplier

Settle(S, state) == [r \in Requests |-> IF r \in S THEN state ELSE promise[r]]

RunCycleKeepingPending(batch) ==
    /\ pending' = pending
    /\ active' = [payload |-> batch.payload, callers |-> batch.callers,
                  cancelled |-> FALSE, task |-> "running"]

\* _runCycle up to its await, entered with nothing in flight and no timer.
RunCycle(batch) ==
    /\ pending' = Undefined
    /\ active' = [payload |-> batch.payload, callers |-> batch.callers,
                  cancelled |-> FALSE, task |-> "running"]

-----------------------------------------------------------------------------
QueueInit == /\ pending = Undefined
             /\ active = Undefined
             /\ timer = 0
             /\ multiplier = 1
             /\ disposed = FALSE
             /\ promise = [r \in Requests |-> "unasked"]
             /\ executed = {}

\* push() on a live queue.
Push(r) ==
    /\ promise[r] = "unasked"
    /\ ~disposed
    /\ pending' = GetOrCreatePending(r)
    /\ promise' = [promise EXCEPT ![r] = "pending"]
    /\ timer' = IF timer = 0 /\ Idle THEN EffectiveMultiplier(multiplier) ELSE timer
    /\ UNCHANGED <<active, multiplier, disposed, executed>>

\* push() after dispose(): a resolved promise, nothing queued.
PushDisposed(r) ==
    /\ promise[r] = "unasked"
    /\ disposed
    /\ promise' = [promise EXCEPT ![r] = "dropped"]
    /\ UNCHANGED <<pending, active, timer, multiplier, disposed, executed>>

\* flush(): the timer goes even when there is nothing to run.
Flush ==
    /\ ~disposed
    /\ timer' = 0
    /\ \/ pending = Undefined /\ UNCHANGED <<pending, active>>
       \/ pending # Undefined /\ Idle /\ RunCycle(pending)
       \/ /\ pending # Undefined /\ ~Idle
          /\ pending' = [pending EXCEPT !.immediate = TRUE]
          /\ UNCHANGED active
    /\ UNCHANGED <<multiplier, disposed, promise, executed>>

DropPending == /\ pending' = Undefined
               /\ promise' = IF pending = Undefined THEN promise
                             ELSE Settle(pending.callers, "dropped")

\* cancel(): drops what waits and marks the run in flight, which goes on.
Cancel ==
    /\ multiplier' = 1
    /\ timer' = 0
    /\ active' = IF Idle THEN Undefined ELSE [active EXCEPT !.cancelled = TRUE]
    /\ DropPending
    /\ UNCHANGED <<disposed, executed>>

\* dispose(): the run in flight goes on here too.
Dispose ==
    /\ disposed' = TRUE
    /\ multiplier' = 1
    /\ timer' = 0
    /\ DropPending
    /\ UNCHANGED <<active, executed>>

\* The debounce timer fires; with nothing collected the burst is over.
TimerFires ==
    /\ timer # 0
    /\ timer' = 0
    /\ IF disposed \/ pending = Undefined
       THEN multiplier' = 1 /\ UNCHANGED <<pending, active>>
       ELSE RunCycle(pending) /\ UNCHANGED multiplier
    /\ UNCHANGED <<disposed, promise, executed>>

\* The task's own promise settles.
TaskSettles(outcome) ==
    /\ ~Idle
    /\ active.task = "running"
    /\ active' = [active EXCEPT !.task = outcome]
    /\ executed' = executed \cup active.payload
    /\ UNCHANGED <<pending, timer, multiplier, disposed, promise>>

FinishCycleForgetsCancelled ==
    /\ ~Idle
    /\ active.task # "running"
    /\ promise' = Settle(active.callers, IF active.task = "ok" THEN "ran" ELSE "failed")
    /\ LET rerun == ~disposed /\ pending # Undefined /\ pending.immediate
           rearm == ~disposed /\ ~rerun /\ ~active.cancelled
           next  == IF disposed \/ active.cancelled THEN 1
                    ELSE IF rerun THEN multiplier ELSE multiplier + 1
       IN  /\ multiplier' = next
           /\ IF rerun THEN RunCycle(pending) ELSE active' = Undefined /\ UNCHANGED pending
           /\ timer' = IF rearm THEN EffectiveMultiplier(next) ELSE timer
    /\ UNCHANGED <<disposed, executed>>

\* The finally block of _runCycle.
FinishCycle ==
    /\ ~Idle
    /\ active.task # "running"
    /\ promise' = Settle(active.callers, IF active.task = "ok" THEN "ran" ELSE "failed")
    /\ LET rerun == ~disposed /\ pending # Undefined /\ pending.immediate
           rearm == ~disposed /\ ~rerun /\ (pending # Undefined \/ ~active.cancelled)
           next  == IF disposed \/ active.cancelled THEN 1
                    ELSE IF rerun THEN multiplier ELSE multiplier + 1
       IN  /\ multiplier' = next
           /\ IF rerun THEN RunCycle(pending) ELSE active' = Undefined /\ UNCHANGED pending
           /\ timer' = IF rearm /\ timer = 0 THEN EffectiveMultiplier(next) ELSE timer
    /\ UNCHANGED <<disposed, executed>>

QueueNext == \/ \E r \in Requests : Push(r) \/ PushDisposed(r)
             \/ Flush \/ Cancel \/ Dispose
             \/ TimerFires
             \/ \E o \in {"ok", "error"} : TaskSettles(o)
             \/ FinishCycle

QueueSpec == QueueInit /\ [][QueueNext]_queueVars

\* Timers fire, the microtask after an await runs, and the task settles: every
\* jj process execTracked starts is abandoned when its timeout fires.
QueueFairness == /\ WF_queueVars(TimerFires)
                 /\ WF_queueVars(\E o \in {"ok", "error"} : TaskSettles(o))
                 /\ WF_queueVars(FinishCycle)

FairQueueSpec == QueueSpec /\ QueueFairness

-----------------------------------------------------------------------------
\* The fields' types; the armed timer's factor is capped by maxMultiplier, though
\* the multiplier itself is not.
QueueTypeOK == /\ pending \in Batch \cup {Undefined}
               /\ active \in Execution \cup {Undefined}
               /\ timer \in 0..MaxMultiplier
               /\ multiplier \in Nat \ {0}
               /\ disposed \in BOOLEAN
               /\ promise \in [Requests -> PromiseState]
               /\ executed \subseteq Requests

\* Nothing waits without a wake-up: a collected batch belongs to a live queue and
\* has either an armed timer or a cycle in flight whose finally block will look at
\* it (push, flush, cancel, dispose and that block each keep their part of this).
NoLostWakeup == pending # Undefined => ~disposed /\ (timer # 0 \/ active # Undefined)

\* One cycle at a time, and no timer that could start a second one beside it.
NoConcurrentCycle == active # Undefined => timer = 0

\* A flushed batch never waits out a debounce delay: once flush() has marked it
\* immediate, the cycle in flight is the only thing ahead of it, and no timer is
\* armed that could start it beside that cycle.
FlushedNeverDebounced ==
    /\ NoConcurrentCycle
    /\ pending # Undefined /\ pending.immediate => active # Undefined

\* A push() whose promise is answered by a run had its own payload in a task
\* that has ended: coalescing and re-entrance never answer a call with a run
\* that started before it.
AnsweredWereExecuted ==
    \A r \in Requests \ Bare : promise[r] \in {"ran", "failed"} => r \in executed

\* Every push() is answered: by timer, flush, cancel, dispose or error.
EveryPushAnswered ==
    \A r \in Requests : promise[r] = "pending" ~> promise[r] # "pending"

CallersOf(b) == IF b = Undefined THEN {} ELSE b.callers

\* The queue implements the coalescer: the batch being collected waits, the
\* one in flight runs, and the answers are the promises.
Coalescer == INSTANCE SerialCoalescer WITH
                waiting <- CallersOf(pending),
                running <- CallersOf(active),
                answer  <- promise
CoalescerSpec == Coalescer!Spec

\* A batch being collected has something that will start it, and what will start
\* a flushed one is the end of the cycle in flight, never a timer.
BatchesMoveOn == QueueTypeOK /\ NoLostWakeup /\ FlushedNeverDebounced
=============================================================================
