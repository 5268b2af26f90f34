---------------------------- MODULE UtilsProofs -----------------------------
(***************************************************************************)
(* Theorems about the two utilities everything else is built from, for     *)
(* every value of their constants: the debouncing queue and the cache of   *)
(* values that are fetched.                                                *)
(***************************************************************************)
EXTENDS DebouncingQueue, AsyncCache, FiniteSetTheorems, SequenceTheorems, TLAPS

(***************************************************************************)
(* The debouncing queue, for any calls and any maximum multiplier.         *)
(***************************************************************************)

\* The wake-up invariant.  FlushedNeverDebounced and NoLostWakeup rest on each
\* other through NoConcurrentCycle: a timer that could be armed beside a cycle
\* in flight would let that cycle's end find its wake-up already spent.
WakeInv == /\ QueueTypeOK
           /\ NoLostWakeup
           /\ FlushedNeverDebounced
           /\ NoConcurrentCycle

-----------------------------------------------------------------------------
\* The delay factor handed to setTimeout is a positive one, capped by the option.
LEMMA EffectiveMultiplierBounds ==
    ASSUME NEW m \in Nat \ {0}
    PROVE  EffectiveMultiplier(m) \in 1..MaxMultiplier
  BY QueueAssumption DEF EffectiveMultiplier

LEMMA BatchIsDefined == \A b \in Batch : b # Undefined
  BY QueueAssumption

LEMMA ExecutionIsDefined == \A x \in Execution : x # Undefined
  BY QueueAssumption

\* What _runCycle puts in flight is an execution, and nothing is left pending.
LEMMA RunCycleStarts ==
    ASSUME NEW b \in Batch, RunCycle(b)
    PROVE  /\ active' \in Execution
           /\ active' # Undefined
           /\ pending' = Undefined
  BY ExecutionIsDefined DEF RunCycle, Execution, Batch

LEMMA SettleType ==
    ASSUME promise \in [Requests -> PromiseState], NEW S, NEW a \in PromiseState
    PROVE  Settle(S, a) \in [Requests -> PromiseState]
  BY DEF Settle

LEMMA WakeInvInit == QueueInit => WakeInv
  <1> SUFFICES ASSUME QueueInit PROVE WakeInv
    OBVIOUS
  <1>1. promise \in [Requests -> PromiseState]
    BY DEF QueueInit, PromiseState
  <1>2. timer \in 0..MaxMultiplier /\ multiplier \in Nat \ {0}
    BY QueueAssumption DEF QueueInit
  <1> QED
    BY <1>1, <1>2 DEF QueueInit, WakeInv, QueueTypeOK, NoLostWakeup, FlushedNeverDebounced,
       NoConcurrentCycle

LEMMA WakeInvStep == WakeInv /\ [QueueNext]_queueVars => WakeInv'
  <1> SUFFICES ASSUME WakeInv, [QueueNext]_queueVars PROVE WakeInv'
    OBVIOUS
  <1> USE DEF WakeInv
  <1>1. ASSUME NEW r \in Requests, Push(r) PROVE WakeInv'
    <2>1. GetOrCreatePending(r) \in Batch
      BY QueueAssumption DEF GetOrCreatePending, PayloadOf, Batch, QueueTypeOK
    <2>2. EffectiveMultiplier(multiplier) \in 1..MaxMultiplier
      BY EffectiveMultiplierBounds DEF QueueTypeOK
    <2>3. pending' \in Batch /\ pending' # Undefined
      BY <1>1, <2>1, BatchIsDefined DEF Push
    <2>4. QueueTypeOK'
      BY <1>1, <2>2, <2>3, QueueAssumption DEF Push, QueueTypeOK, PromiseState
    <2>5. pending'.immediate => active # Undefined
      BY <1>1 DEF Push, GetOrCreatePending, FlushedNeverDebounced, QueueTypeOK, Batch
    <2>6. active # Undefined => timer = 0 /\ timer' = 0 /\ active' # Undefined
      BY <1>1 DEF Push, Idle, NoConcurrentCycle
    <2>7. ~disposed' /\ (timer' # 0 \/ active' # Undefined)
      BY <1>1, <2>2 DEF Push, Idle, QueueTypeOK
    <2> QED
      BY <1>1, <2>3, <2>4, <2>5, <2>6, <2>7
      DEF Push, NoLostWakeup, FlushedNeverDebounced, NoConcurrentCycle
  <1>2. ASSUME NEW r \in Requests, PushDisposed(r) PROVE WakeInv'
    BY <1>2 DEF PushDisposed, QueueTypeOK, PromiseState, NoLostWakeup, FlushedNeverDebounced,
       NoConcurrentCycle
  <1>3. ASSUME Flush PROVE WakeInv'
    <2>1. CASE pending = Undefined
      BY <1>3, <2>1, QueueAssumption DEF Flush, QueueTypeOK, NoLostWakeup,
         FlushedNeverDebounced, NoConcurrentCycle
    <2>2. CASE pending # Undefined /\ Idle
      <3>1. pending \in Batch
        BY <2>2 DEF QueueTypeOK
      <3>2. RunCycle(pending) /\ timer' = 0
        BY <1>3, <2>2 DEF Flush
      <3> QED
        BY <1>3, <3>1, <3>2, RunCycleStarts, QueueAssumption DEF Flush, QueueTypeOK,
           NoLostWakeup, FlushedNeverDebounced, NoConcurrentCycle
    <2>3. CASE pending # Undefined /\ ~Idle
      <3>1. pending' \in Batch
        BY <1>3, <2>3 DEF Flush, QueueTypeOK, Batch
      <3> QED
        BY <1>3, <2>3, <3>1, QueueAssumption DEF Flush, Idle, QueueTypeOK, NoLostWakeup,
           FlushedNeverDebounced, NoConcurrentCycle
    <2> QED
      BY <2>1, <2>2, <2>3
  <1>4. ASSUME Cancel PROVE WakeInv'
    <2>1. active' \in Execution \cup {Undefined}
      BY <1>4 DEF Cancel, Idle, QueueTypeOK, Execution
    <2>2. promise' \in [Requests -> PromiseState]
      BY <1>4, SettleType DEF Cancel, DropPending, QueueTypeOK, PromiseState
    <2> QED
      BY <1>4, <2>1, <2>2, QueueAssumption DEF Cancel, DropPending, QueueTypeOK, NoLostWakeup,
         FlushedNeverDebounced, NoConcurrentCycle
  <1>5. ASSUME Dispose PROVE WakeInv'
    <2>1. promise' \in [Requests -> PromiseState]
      BY <1>5, SettleType DEF Dispose, DropPending, QueueTypeOK, PromiseState
    <2> QED
      BY <1>5, <2>1, QueueAssumption DEF Dispose, DropPending, QueueTypeOK, NoLostWakeup,
         FlushedNeverDebounced, NoConcurrentCycle
  <1>6. ASSUME TimerFires PROVE WakeInv'
    <2>1. active = Undefined
      BY <1>6 DEF TimerFires, NoConcurrentCycle
    <2>2. CASE disposed \/ pending = Undefined
      <3>1. pending' = pending /\ active' = active /\ timer' = 0 /\ multiplier' = 1
        BY <1>6, <2>2 DEF TimerFires
      <3>2. pending = Undefined
        BY <2>2 DEF NoLostWakeup
      <3> QED
        BY <1>6, <3>1, <3>2, QueueAssumption DEF TimerFires, QueueTypeOK, NoLostWakeup,
           FlushedNeverDebounced, NoConcurrentCycle
    <2>3. CASE ~(disposed \/ pending = Undefined)
      <3>1. pending \in Batch
        BY <2>3 DEF QueueTypeOK
      <3>2. RunCycle(pending) /\ timer' = 0
        BY <1>6, <2>3 DEF TimerFires
      <3> QED
        BY <1>6, <2>3, <3>1, <3>2, RunCycleStarts, QueueAssumption DEF TimerFires, QueueTypeOK,
           NoLostWakeup, FlushedNeverDebounced, NoConcurrentCycle
    <2> QED
      BY <2>2, <2>3
  <1>7. ASSUME NEW o \in {"ok", "error"}, TaskSettles(o) PROVE WakeInv'
    <2>1. active \in Execution
      BY <1>7 DEF TaskSettles, Idle, QueueTypeOK
    <2>2. active' \in Execution /\ active' # Undefined
      BY <1>7, <2>1, ExecutionIsDefined DEF TaskSettles, Execution
    <2>3. executed' \subseteq Requests
      BY <1>7, <2>1 DEF TaskSettles, QueueTypeOK, Execution
    <2> QED
      BY <1>7, <2>1, <2>2, <2>3 DEF TaskSettles, Idle, QueueTypeOK, NoLostWakeup,
         FlushedNeverDebounced, NoConcurrentCycle
  <1>8. ASSUME FinishCycle PROVE WakeInv'
    <2> DEFINE rerun == ~disposed /\ pending # Undefined /\ pending.immediate
               rearm == ~disposed /\ ~rerun /\ (pending # Undefined \/ ~active.cancelled)
               next  == IF disposed \/ active.cancelled THEN 1
                        ELSE IF rerun THEN multiplier ELSE multiplier + 1
    <2>1. active # Undefined /\ timer = 0
      BY <1>8 DEF FinishCycle, Idle, NoConcurrentCycle
    <2>2. next \in Nat \ {0}
      BY DEF QueueTypeOK
    <2>3. promise' \in [Requests -> PromiseState]
      BY <1>8, SettleType DEF FinishCycle, QueueTypeOK, PromiseState
    <2>4. multiplier' = next /\ disposed' = disposed /\ executed' = executed
      BY <1>8 DEF FinishCycle
    <2>5. timer' = IF rearm THEN EffectiveMultiplier(next) ELSE 0
      BY <1>8, <2>1 DEF FinishCycle
    <2>6. timer' \in 0..MaxMultiplier /\ (rearm => timer' # 0)
      BY <2>2, <2>5, EffectiveMultiplierBounds, QueueAssumption
    <2>7. CASE rerun
      <3>1. pending \in Batch
        BY <2>7 DEF QueueTypeOK
      <3>2. RunCycle(pending)
        BY <1>8, <2>7 DEF FinishCycle
      <3>3. active' \in Execution /\ active' # Undefined /\ pending' = Undefined
        BY <3>1, <3>2, RunCycleStarts
      <3> QED
        BY <2>2, <2>3, <2>4, <2>5, <2>6, <2>7, <3>3 DEF QueueTypeOK, NoLostWakeup,
           FlushedNeverDebounced, NoConcurrentCycle
    <2>8. CASE ~rerun
      <3>1. active' = Undefined /\ pending' = pending
        BY <1>8, <2>8 DEF FinishCycle
      <3>2. pending # Undefined => ~disposed
        BY DEF NoLostWakeup
      <3>3. pending # Undefined => ~pending.immediate
        BY <2>8, <3>2
      <3>4. pending # Undefined => timer' # 0
        BY <2>6, <2>8, <3>2
      <3> QED
        BY <2>2, <2>3, <2>4, <2>6, <3>1, <3>2, <3>3, <3>4 DEF QueueTypeOK, NoLostWakeup,
           FlushedNeverDebounced, NoConcurrentCycle
    <2> QED
      BY <2>7, <2>8
  <1>9. ASSUME UNCHANGED queueVars PROVE WakeInv'
    BY <1>9 DEF queueVars, QueueTypeOK, NoLostWakeup, FlushedNeverDebounced, NoConcurrentCycle
  <1> QED
    BY <1>1, <1>2, <1>3, <1>4, <1>5, <1>6, <1>7, <1>8, <1>9 DEF QueueNext

-----------------------------------------------------------------------------
\* The types of every variable of the queue, the timer's delay factor within
\* its cap among them.
THEOREM FieldsKeepTypes == QueueSpec => []QueueTypeOK
  BY WakeInvInit, WakeInvStep, PTL DEF QueueSpec, WakeInv

\* A collected batch always has a wake-up: no push() is left without one by any
\* order of push, flush, cancel, dispose, timer and task.
THEOREM WakeupNeverLost == QueueSpec => []NoLostWakeup
  BY WakeInvInit, WakeInvStep, PTL DEF QueueSpec, WakeInv

\* A batch that flush() marked immediate is only ever behind the cycle in flight.
THEOREM FlushIsImmediate == QueueSpec => []FlushedNeverDebounced
  BY WakeInvInit, WakeInvStep, PTL DEF QueueSpec, WakeInv

\* A batch being collected always has something that will start it, and a flushed one
\* is started by the end of the run it waits for.
THEOREM EveryBatchMovesOn == QueueSpec => []BatchesMoveOn
  BY FieldsKeepTypes, WakeupNeverLost, FlushIsImmediate, PTL DEF BatchesMoveOn

-----------------------------------------------------------------------------
(* What a batch carries, from the push() that opened it to its task's end.  *)

\* A batch, collected or in flight, has callers and the payload of each of them.
Laden(b) == b # Undefined => b.callers # {} /\ b.callers \ Bare \subseteq b.payload

LoadInv == /\ WakeInv
           /\ Laden(pending) /\ Laden(active)
           /\ active # Undefined /\ active.task # "running" => active.payload \subseteq executed
           /\ AnsweredWereExecuted

LEMMA RunCycleLaden ==
    ASSUME NEW b \in Batch, b # Undefined, Laden(b), RunCycle(b)
    PROVE  Laden(pending)' /\ Laden(active)' /\ active'.task = "running"
  BY DEF RunCycle, Laden

\* Steps that answer nobody with a run.
LEMMA NoRunAnswers ==
    ASSUME AnsweredWereExecuted, executed \subseteq executed',
           \A r \in Requests : promise'[r] \in {"ran", "failed"} => promise'[r] = promise[r]
    PROVE  AnsweredWereExecuted'
  BY DEF AnsweredWereExecuted

LEMMA DroppingAnswersNobody ==
    ASSUME DropPending
    PROVE  \A r \in Requests : promise'[r] \in {"ran", "failed"} => promise'[r] = promise[r]
  BY DEF DropPending, Settle

LEMMA LoadInvInit == QueueInit => LoadInv
  <1> SUFFICES ASSUME QueueInit PROVE LoadInv
    OBVIOUS
  <1>1. WakeInv
    BY WakeInvInit
  <1> QED
    BY <1>1 DEF QueueInit, LoadInv, Laden, AnsweredWereExecuted

LEMMA LoadInvStep == LoadInv /\ [QueueNext]_queueVars => LoadInv'
  <1> SUFFICES ASSUME LoadInv, [QueueNext]_queueVars PROVE LoadInv'
    OBVIOUS
  <1> USE DEF LoadInv
  <1>0. WakeInv'
    BY WakeInvStep
  <1>t. QueueTypeOK /\ NoConcurrentCycle
    BY DEF WakeInv
  <1>1. ASSUME NEW r \in Requests, Push(r) PROVE LoadInv'
    <2>1. CASE pending = Undefined
      <3>1. pending' = [payload |-> PayloadOf(r), callers |-> {r}, immediate |-> FALSE]
        BY <1>1, <2>1 DEF Push, GetOrCreatePending
      <3>2. Laden(pending)'
        BY <3>1 DEF Laden, PayloadOf
      <3> QED
        BY <1>0, <1>1, <1>t, <3>2, NoRunAnswers DEF Push, Laden, QueueTypeOK
    <2>2. CASE pending # Undefined
      <3>1. pending \in Batch
        BY <1>t, <2>2 DEF QueueTypeOK
      <3>2. /\ pending'.payload = pending.payload \cup PayloadOf(r)
            /\ pending'.callers = pending.callers \cup {r}
        BY <1>1, <2>2, <3>1 DEF Push, GetOrCreatePending, Batch
      <3>3. Laden(pending)'
        BY <2>2, <3>2 DEF Laden, PayloadOf
      <3> QED
        BY <1>0, <1>1, <1>t, <3>3, NoRunAnswers DEF Push, Laden, QueueTypeOK
    <2> QED
      BY <2>1, <2>2
  <1>2. ASSUME NEW r \in Requests, PushDisposed(r) PROVE LoadInv'
    BY <1>0, <1>2, <1>t, NoRunAnswers DEF PushDisposed, Laden, QueueTypeOK
  <1>3. ASSUME Flush PROVE LoadInv'
    <2>1. CASE pending = Undefined
      BY <1>0, <1>3, <2>1, NoRunAnswers DEF Flush, Laden
    <2>2. CASE pending # Undefined /\ Idle
      <3>1. pending \in Batch /\ RunCycle(pending) /\ UNCHANGED <<promise, executed>>
        BY <1>3, <1>t, <2>2 DEF Flush, QueueTypeOK
      <3> QED
        BY <1>0, <2>2, <3>1, RunCycleLaden, NoRunAnswers
    <2>3. CASE pending # Undefined /\ ~Idle
      <3>1. /\ pending'.payload = pending.payload /\ pending'.callers = pending.callers
            /\ UNCHANGED <<active, promise, executed>>
        BY <1>3, <1>t, <2>3 DEF Flush, QueueTypeOK, Batch
      <3> QED
        BY <1>0, <2>3, <3>1, NoRunAnswers DEF Laden
    <2> QED
      BY <2>1, <2>2, <2>3
  <1>4. ASSUME Cancel PROVE LoadInv'
    <2>1. /\ active # Undefined => /\ active'.payload = active.payload
                              /\ active'.callers = active.callers
                              /\ active'.task = active.task
          /\ active = Undefined => active' = Undefined
          /\ pending' = Undefined /\ executed' = executed /\ DropPending
      BY <1>4, <1>t DEF Cancel, DropPending, Idle, QueueTypeOK, Execution
    <2> QED
      BY <1>0, <2>1, DroppingAnswersNobody, NoRunAnswers DEF Laden
  <1>5. ASSUME Dispose PROVE LoadInv'
    <2>1. pending' = Undefined /\ active' = active /\ executed' = executed /\ DropPending
      BY <1>5 DEF Dispose, DropPending
    <2> QED
      BY <1>0, <2>1, DroppingAnswersNobody, NoRunAnswers DEF Laden
  <1>6. ASSUME TimerFires PROVE LoadInv'
    <2>1. CASE disposed \/ pending = Undefined
      BY <1>0, <1>6, <2>1, NoRunAnswers DEF TimerFires, Laden
    <2>2. CASE ~(disposed \/ pending = Undefined)
      <3>1. pending \in Batch /\ RunCycle(pending) /\ UNCHANGED <<promise, executed>>
        BY <1>6, <1>t, <2>2 DEF TimerFires, QueueTypeOK
      <3> QED
        BY <1>0, <2>2, <3>1, RunCycleLaden, NoRunAnswers
    <2> QED
      BY <2>1, <2>2
  <1>7. ASSUME NEW o \in {"ok", "error"}, TaskSettles(o) PROVE LoadInv'
    <2>1. active \in Execution /\ active # Undefined
      BY <1>7, <1>t DEF TaskSettles, Idle, QueueTypeOK
    <2>2. /\ active'.payload = active.payload /\ active'.callers = active.callers
          /\ executed' = executed \cup active.payload
          /\ UNCHANGED <<pending, promise>>
      BY <1>7, <2>1 DEF TaskSettles, Execution
    <2> QED
      BY <1>0, <2>1, <2>2, NoRunAnswers DEF Laden
  <1>8. ASSUME FinishCycle PROVE LoadInv'
    <2>1. /\ active # Undefined /\ active.task # "running"
          /\ promise' = Settle(active.callers, IF active.task = "ok" THEN "ran" ELSE "failed")
          /\ executed' = executed
      BY <1>8 DEF FinishCycle, Idle
    <2>2. active.callers \ Bare \subseteq executed
      BY <2>1 DEF Laden
    <2>3. AnsweredWereExecuted'
      BY <2>1, <2>2 DEF AnsweredWereExecuted, Settle
    <2>4. \/ pending # Undefined /\ RunCycle(pending)
          \/ active' = Undefined /\ pending' = pending
      BY <1>8 DEF FinishCycle
    <2>5. CASE pending # Undefined /\ RunCycle(pending)
      <3>1. pending \in Batch
        BY <1>t, <2>5 DEF QueueTypeOK
      <3> QED
        BY <1>0, <2>3, <2>5, <3>1, RunCycleLaden
    <2>6. CASE active' = Undefined /\ pending' = pending
      BY <1>0, <2>3, <2>6 DEF Laden
    <2> QED
      BY <2>4, <2>5, <2>6
  <1>9. ASSUME UNCHANGED queueVars PROVE LoadInv'
    BY <1>0, <1>9 DEF queueVars, Laden, AnsweredWereExecuted
  <1> QED
    BY <1>1, <1>2, <1>3, <1>4, <1>5, <1>6, <1>7, <1>8, <1>9 DEF QueueNext

LEMMA LoadInvAlways == QueueSpec => []LoadInv
  BY LoadInvInit, LoadInvStep, PTL DEF QueueSpec

\* A push() that a run answers had its own payload in a task that has ended.
THEOREM AnsweredAfterExecution == QueueSpec => []AnsweredWereExecuted
  BY LoadInvAlways, PTL DEF LoadInv

-----------------------------------------------------------------------------
(* Each step of the queue is a step of the coalescer, or none: the timer,  *)
(* the multiplier and the marks of a batch are seen by no caller.          *)

observed == <<CallersOf(pending), CallersOf(active), promise>>

LEMMA StartingIsCoalesced ==
    ASSUME LoadInv, pending # Undefined, active = Undefined, RunCycle(pending), UNCHANGED promise
    PROVE  Coalescer!Start
  <1>1. active'.callers = pending.callers /\ active' # Undefined /\ pending' = Undefined
    BY RunCycleStarts DEF RunCycle, LoadInv, WakeInv, QueueTypeOK
  <1>2. pending.callers # {}
    BY DEF LoadInv, Laden
  <1> QED
    BY <1>1, <1>2 DEF Coalescer!Start, CallersOf

LEMMA DroppingIsCoalesced ==
    ASSUME LoadInv, DropPending, CallersOf(active)' = CallersOf(active)
    PROVE  Coalescer!Drop \/ UNCHANGED observed
  <1>1. CASE pending = Undefined
    BY <1>1 DEF DropPending, observed, CallersOf
  <1>2. CASE pending # Undefined
    <2>1. pending.callers # {} /\ pending' = Undefined /\ promise' = Settle(pending.callers, "dropped")
      BY <1>2 DEF DropPending, LoadInv, Laden
    <2> QED
      BY <1>2, <2>1 DEF Coalescer!Drop, Coalescer!AnswerAll, Coalescer!Dropped, Settle, CallersOf
  <1> QED
    BY <1>1, <1>2

LEMMA StepIsCoalesced == LoadInv /\ [QueueNext]_queueVars => [Coalescer!Next]_(Coalescer!vars)
  <1> SUFFICES ASSUME LoadInv, [QueueNext]_queueVars
               PROVE  Coalescer!Next \/ UNCHANGED observed
    BY DEF Coalescer!vars, observed
  <1>t. QueueTypeOK /\ NoConcurrentCycle /\ Laden(pending) /\ Laden(active)
    BY DEF LoadInv, WakeInv
  <1>1. ASSUME NEW r \in Requests, Push(r) PROVE Coalescer!Submit(r)
    <2>1. GetOrCreatePending(r).callers = CallersOf(pending) \cup {r}
      BY <1>t DEF GetOrCreatePending, CallersOf, QueueTypeOK, Batch
    <2>2. pending' # Undefined
      <3>1. GetOrCreatePending(r) \in Batch
        BY <1>t, QueueAssumption DEF GetOrCreatePending, PayloadOf, Batch, QueueTypeOK
      <3> QED
        BY <1>1, <3>1, BatchIsDefined DEF Push
    <2> QED
      BY <1>1, <2>1, <2>2 DEF Push, CallersOf, Coalescer!Submit, Coalescer!Unasked,
         Coalescer!Pending
  <1>2. ASSUME NEW r \in Requests, PushDisposed(r) PROVE Coalescer!Refuse(r)
    BY <1>2 DEF PushDisposed, CallersOf, Coalescer!Refuse, Coalescer!Unasked, Coalescer!Dropped
  <1>3. ASSUME Flush PROVE Coalescer!Start \/ UNCHANGED observed
    <2>1. CASE pending = Undefined
      BY <1>3, <2>1 DEF Flush, observed, CallersOf
    <2>2. CASE pending # Undefined /\ Idle
      BY <1>3, <2>2, StartingIsCoalesced DEF Flush, Idle
    <2>3. CASE pending # Undefined /\ ~Idle
      <3>1. pending \in Batch
        BY <1>t, <2>3 DEF QueueTypeOK
      <3>2. pending' \in Batch /\ pending'.callers = pending.callers
            /\ UNCHANGED <<active, promise>>
        BY <1>3, <2>3, <3>1 DEF Flush, Batch
      <3> QED
        BY <2>3, <3>2, BatchIsDefined DEF observed, CallersOf
    <2> QED
      BY <2>1, <2>2, <2>3
  <1>4. ASSUME Cancel PROVE Coalescer!Drop \/ UNCHANGED observed
    <2>1. CASE Idle
      BY <1>4, <2>1, DroppingIsCoalesced DEF Cancel, Idle, CallersOf
    <2>2. CASE ~Idle
      <3>1. active \in Execution /\ active' = [active EXCEPT !.cancelled = TRUE]
        BY <1>4, <1>t, <2>2 DEF Cancel, Idle, QueueTypeOK
      <3>2. active' \in Execution /\ active'.callers = active.callers
        BY <3>1 DEF Execution
      <3> QED
        BY <1>4, <2>2, <3>2, ExecutionIsDefined, DroppingIsCoalesced DEF Cancel, Idle, CallersOf
    <2> QED
      BY <2>1, <2>2
  <1>5. ASSUME Dispose PROVE Coalescer!Drop \/ UNCHANGED observed
    BY <1>5, DroppingIsCoalesced DEF Dispose, CallersOf
  <1>6. ASSUME TimerFires PROVE Coalescer!Start \/ UNCHANGED observed
    <2>1. CASE disposed \/ pending = Undefined
      BY <1>6, <2>1 DEF TimerFires, observed, CallersOf
    <2>2. CASE ~(disposed \/ pending = Undefined)
      BY <1>6, <1>t, <2>2, StartingIsCoalesced DEF TimerFires, NoConcurrentCycle
    <2> QED
      BY <2>1, <2>2
  <1>7. ASSUME NEW o \in {"ok", "error"}, TaskSettles(o) PROVE UNCHANGED observed
    <2>1. active \in Execution /\ active # Undefined
      BY <1>7, <1>t DEF TaskSettles, Idle, QueueTypeOK
    <2>2. active' \in Execution /\ active'.callers = active.callers /\ UNCHANGED <<pending, promise>>
      BY <1>7, <2>1 DEF TaskSettles, Execution
    <2> QED
      BY <2>1, <2>2, ExecutionIsDefined DEF observed, CallersOf
  <1>8. ASSUME FinishCycle
        PROVE  \E a \in {Coalescer!Ran, Coalescer!Failed} : Coalescer!Finish(a)
    <2> DEFINE a == IF active.task = "ok" THEN "ran" ELSE "failed"
    <2>1. /\ active # Undefined /\ active.callers # {}
          /\ promise' = Settle(active.callers, a)
      BY <1>8, <1>t DEF FinishCycle, Idle, Laden
    <2>2. \/ pending # Undefined /\ RunCycle(pending)
          \/ active' = Undefined /\ pending' = pending
      BY <1>8 DEF FinishCycle
    <2>3. \/ CallersOf(active)' = {} /\ UNCHANGED CallersOf(pending)
          \/ /\ CallersOf(pending) # {} /\ CallersOf(active)' = CallersOf(pending)
             /\ CallersOf(pending)' = {}
      <3>1. CASE active' = Undefined /\ pending' = pending
        BY <3>1 DEF CallersOf
      <3>2. CASE pending # Undefined /\ RunCycle(pending)
        <4>1. pending \in Batch
          BY <1>t, <3>2 DEF QueueTypeOK
        <4>2. active'.callers = pending.callers /\ active' # Undefined /\ pending' = Undefined
          BY <3>2, <4>1, RunCycleStarts DEF RunCycle
        <4> QED
          BY <1>t, <3>2, <4>2 DEF Laden, CallersOf
      <3> QED
        BY <2>2, <3>1, <3>2
    <2>4. promise' = Coalescer!AnswerAll(CallersOf(active), a)
      BY <2>1 DEF Coalescer!AnswerAll, Settle, CallersOf
    <2>5. a \in {Coalescer!Ran, Coalescer!Failed} /\ CallersOf(active) # {}
      BY <2>1 DEF Coalescer!Ran, Coalescer!Failed, CallersOf
    <2> HIDE DEF a
    <2> QED
      BY <2>3, <2>4, <2>5 DEF Coalescer!Finish
  <1>9. ASSUME UNCHANGED queueVars PROVE UNCHANGED observed
    BY <1>9 DEF queueVars, observed, CallersOf
  <1> QED
    BY <1>1, <1>2, <1>3, <1>4, <1>5, <1>6, <1>7, <1>8, <1>9 DEF QueueNext, Coalescer!Next

LEMMA InitIsCoalesced == QueueInit => Coalescer!Init
  BY DEF QueueInit, Coalescer!Init, Coalescer!Unasked, CallersOf

\* DebouncingQueue implements the coalescer, for any number of calls and any backoff.
THEOREM ImplementsCoalescer == QueueSpec => CoalescerSpec
  BY InitIsCoalesced, StepIsCoalesced, LoadInvAlways, PTL
     DEF QueueSpec, CoalescerSpec, Coalescer!Spec

-----------------------------------------------------------------------------
(***************************************************************************)
(* The cache, for every set of keys, callers and writes, every size and    *)
(* every bound.                                                            *)
(*                                                                         *)
(* The inductive invariant Inv is a conjunction of parts, one per idea.    *)
(* What a step may do to an entry, a fetch, a key's current fetch and the  *)
(* hook's count is stated once each (EntrySteps, FetchSteps, CurrentSteps, *)
(* EvictionSteps), and the parts about what is held follow from those.     *)
(***************************************************************************)

Started(f) == fetch[f] # None

Types == /\ options \in Options
         /\ entry \in [Keys -> Entry \cup {None}]
         /\ recency \in Seq(Keys)
         /\ current \in [Keys -> Fetches \cup {None}]
         /\ epoch \in Nat
         /\ fetch \in [Fetches -> Fetch \cup {None}]
         /\ call \in [Callers -> Call]
         /\ written \subseteq Writes
         /\ evictions \in [Values -> Nat]
         /\ clock \in 0..MaxInvalidations
         /\ invalidated \in [Keys -> Nat]

\* The Map's keys, in order: each once, and no more than the cache may hold.
Distinct(s) == \A i, j \in 1..Len(s) : s[i] = s[j] => i = j
Has(s, x) == \E i \in 1..Len(s) : s[i] = x

Lru == /\ Distinct(recency)
       /\ \A k \in Keys : entry[k] # None <=> Has(recency, k)
       /\ Len(recency) <= MaxEntries

Clocks == /\ \A k \in Keys : invalidated[k] <= clock
          /\ \A f \in Fetches : Started(f) => fetch[f].born <= clock

\* A caller's attempts are numbered in order, and each one after the first
\* follows an invalidation: that is why the number of fetches is bounded.
Attempts ==
    \A c \in Callers :
        /\ call[c].attempt <= clock
        /\ \A n \in 0..MaxInvalidations :
              Started(<<c, n>>) =>
                  n <= call[c].attempt /\ (MayLook(c) => n < call[c].attempt)

\* What a caller awaits is a fetch of its key, no older than its call; once the
\* fetch has lost its key there was an invalidation the caller's attempts do
\* not count yet.
Waits ==
    \A c \in Callers :
        /\ call[c].born <= invalidated[CallerKey[c]]
        /\ call[c].at = "awaiting" =>
             /\ call[c].on \in Fetches
             /\ Started(call[c].on)
             /\ KeyOf(call[c].on) = CallerKey[c]
             /\ fetch[call[c].on].born >= call[c].born
             /\ current[CallerKey[c]] # call[c].on
                  /\ fetch[call[c].on].stage \in InFlight \cup Discarded
                => call[c].attempt < clock

\* A key's current fetch is one from after the key's last invalidation that was
\* not discarded, and every fetch in flight from after it is the current one.
Currents ==
    /\ \A k \in Keys :
          current[k] # None =>
              /\ Started(current[k])
              /\ KeyOf(current[k]) = k
              /\ fetch[current[k]].epoch = epoch
              /\ fetch[current[k]].born >= invalidated[k]
              /\ fetch[current[k]].stage \notin Discarded
    /\ \A f \in Fetches :
          /\ Started(f)
          /\ fetch[f].stage \in InFlight
          /\ fetch[f].born >= invalidated[KeyOf(f)]
          => current[KeyOf(f)] = f

\* What the cache holds was stored by a fetch or a set() of that key.
HeldInPlace ==
    \A k \in Keys :
        entry[k] # None =>
            /\ entry[k].value \in Fetches =>
                   /\ Started(entry[k].value)
                   /\ KeyOf(entry[k].value) = k
                   /\ fetch[entry[k].value].stage = "stored"
            /\ entry[k].value \in Writes =>
                   WriteKey[entry[k].value] = k /\ entry[k].value \in written

\* While nothing expires, nothing is replaced: every entry is live, and beside a
\* fetch in flight that is current stands at most what set() or a forced store left.
NothingExpires ==
    ~options.expires =>
        /\ \A k \in Keys : entry[k] # None => entry[k].fresh
        /\ \A f \in Fetches :
              Started(f) =>
                  fetch[f].replaces = None /\ fetch[f].stage \notin {"evicting", "replacing"}
        /\ \A k \in Keys :
              /\ current[k] # None
              /\ fetch[current[k]].stage \in InFlight
              /\ entry[k] # None
              /\ entry[k].value \in Fetches
              => fetch[entry[k].value].force

\* The caches of which the hook is never awaited between the test that a fetch is
\* current and its store.
Plain == ~Combined \/ ~options.expires

NothingReplaces == Plain => \A f \in Fetches : Started(f) => fetch[f].stage # "replacing"

\* What is held, and what was returned, is no older than it may be.
FreshEnough ==
    Plain =>
        /\ \A k \in Keys :
              entry[k] # None /\ entry[k].value \in Fetches =>
                  \/ fetch[entry[k].value].born >= invalidated[k]
                  \/ fetch[entry[k].value].force
        /\ \A c \in Callers :
              call[c].at = "returned" /\ call[c].on \in Fetches =>
                  /\ Started(call[c].on)
                  /\ fetch[call[c].on].stage = "stored"
                  /\ \/ fetch[call[c].on].born >= call[c].born
                     \/ fetch[call[c].on].force

\* The hook gets a value after the value's last use.
EvictedAfterUse ==
    Plain =>
        /\ \A v \in Values : evictions[v] <= 1
        /\ \A k \in Keys : entry[k] # None => evictions[entry[k].value] = 0
        /\ \A f \in Fetches :
              evictions[f] # 0 => Started(f) /\ fetch[f].stage \in {"stored"} \cup Discarded
        /\ \A w \in Writes : evictions[w] # 0 => w \in written

\* Where the stale entry is kept, a set() is beyond the reach of the key's
\* current fetch.
SetsAreSafe ==
    options.keepStale /\ ~Combined =>
        \A k \in Keys :
            current[k] # None /\ fetch[current[k]].stage \in InFlight =>
                ~(Live(k) /\ entry[k].value \in Writes)

Inv == /\ Types /\ Lru /\ Clocks /\ Attempts /\ Waits /\ Currents /\ HeldInPlace
       /\ NothingExpires /\ NothingReplaces /\ FreshEnough /\ EvictedAfterUse
       /\ SetsAreSafe /\ NoLeak

-----------------------------------------------------------------------------
(* Lists without repetition.                                               *)

\* RemoveAt takes out one position and closes the gap.
LEMMA RemoveAtShape ==
    ASSUME NEW S, NEW s \in Seq(S), NEW n \in 1..Len(s)
    PROVE  /\ RemoveAt(s, n) \in Seq(S)
           /\ Len(RemoveAt(s, n)) = Len(s) - 1
           /\ \A i \in 1..(Len(s) - 1) : RemoveAt(s, n)[i] = IF i < n THEN s[i] ELSE s[i + 1]
<1> DEFINE P == SubSeq(s, 1, n - 1)
           Q == SubSeq(s, n + 1, Len(s))
<1>1. /\ P \in Seq(S) /\ Len(P) = n - 1
      /\ \A i \in 1..(n - 1) : P[i] = s[i]
  OBVIOUS
<1>2. /\ Q \in Seq(S) /\ Len(Q) = Len(s) - n
      /\ \A i \in 1..(Len(s) - n) : Q[i] = s[n + i]
  OBVIOUS
<1>3. RemoveAt(s, n) = P \o Q
  BY DEF RemoveAt
<1> HIDE DEF P, Q
<1>4. /\ P \o Q \in Seq(S)
      /\ Len(P \o Q) = Len(P) + Len(Q)
      /\ \A i \in 1..(Len(P) + Len(Q)) :
            (P \o Q)[i] = IF i <= Len(P) THEN P[i] ELSE Q[i - Len(P)]
  BY <1>1, <1>2, ConcatProperties
<1>5. ASSUME NEW i \in 1..(Len(s) - 1)
      PROVE  (P \o Q)[i] = IF i < n THEN s[i] ELSE s[i + 1]
  <2>1. CASE i < n
    <3>1. i \in 1..(n - 1) /\ i \in 1..(Len(P) + Len(Q)) /\ i <= Len(P)
      BY <1>1, <1>2, <2>1
    <3> QED  BY <1>1, <1>4, <3>1, <2>1
  <2>2. CASE ~(i < n)
    <3>1. i - (n - 1) \in 1..(Len(s) - n) /\ i \in 1..(Len(P) + Len(Q)) /\ ~(i <= Len(P))
      BY <1>1, <1>2, <2>2
    <3>2. Q[i - (n - 1)] = s[n + (i - (n - 1))] /\ n + (i - (n - 1)) = i + 1
      BY <1>2, <3>1
    <3> QED  BY <1>1, <1>4, <3>1, <3>2, <2>2
  <2> QED  BY <2>1, <2>2
<1>6. Len(P) + Len(Q) = Len(s) - 1
  BY <1>1, <1>2
<1> QED  BY <1>3, <1>4, <1>5, <1>6

\* Where nothing stands twice, RemoveFirst takes out the one place of its element.
LEMMA RemoveFirstAt ==
    ASSUME NEW S, NEW s \in Seq(S), NEW e, NEW n \in 1..Len(s), s[n] = e, Distinct(s)
    PROVE  RemoveFirst(s, e) = RemoveAt(s, n)
<1>1. {i \in 1..Len(s) : s[i] = e} = {n}
  BY DEF Distinct
<1>2. Min({n}) = n
  BY DEF Min
<1>3. SelectInSeq(s, LAMBDA v : v = e) = n
  BY <1>1, <1>2 DEF SelectInSeq
<1> QED  BY <1>3 DEF RemoveFirst

\* RemoveFirst takes its element out of a list without repetition, and keeps the rest.
LEMMA RemoveFirstKeys ==
    ASSUME NEW S, NEW s \in Seq(S), NEW e, Distinct(s)
    PROVE  /\ RemoveFirst(s, e) \in Seq(S)
           /\ Distinct(RemoveFirst(s, e))
           /\ \A x : Has(RemoveFirst(s, e), x) <=> Has(s, x) /\ x # e
           /\ Len(RemoveFirst(s, e)) = IF Has(s, e) THEN Len(s) - 1 ELSE Len(s)
<1>1. CASE Has(s, e)
  <2>1. PICK n \in 1..Len(s) : s[n] = e
    BY <1>1 DEF Has
  <2> DEFINE r == RemoveAt(s, n)
  <2>2. RemoveFirst(s, e) = r
    BY <2>1, RemoveFirstAt
  <2>3. /\ r \in Seq(S) /\ Len(r) = Len(s) - 1
        /\ \A i \in 1..(Len(s) - 1) : r[i] = IF i < n THEN s[i] ELSE s[i + 1]
    BY RemoveAtShape
  <2> HIDE DEF r
  <2>4. Distinct(r)
    BY <2>3 DEF Distinct
  <2>5. ASSUME NEW x, Has(r, x)  PROVE  Has(s, x) /\ x # e
    BY <2>1, <2>3, <2>5 DEF Has, Distinct
  <2>6. ASSUME NEW x, Has(s, x), x # e  PROVE  Has(r, x)
    <3>1. PICK i \in 1..Len(s) : s[i] = x
      BY <2>6 DEF Has
    <3>2. CASE i < n
      BY <3>1, <3>2, <2>3 DEF Has
    <3>3. CASE i > n
      <4>1. i - 1 \in 1..(Len(s) - 1) /\ ~(i - 1 < n) /\ (i - 1) + 1 = i
        BY <3>3
      <4> QED  BY <4>1, <3>1, <2>3 DEF Has
    <3> QED  BY <3>1, <3>2, <3>3, <2>1, <2>6
  <2> QED  BY <1>1, <2>2, <2>3, <2>4, <2>5, <2>6
<1>2. CASE ~Has(s, e)
  BY <1>2 DEF RemoveFirst, Has
<1> QED  BY <1>1, <1>2

\* Append of an element the list lacks keeps it without repetition.
LEMMA AppendKeys ==
    ASSUME NEW S, NEW s \in Seq(S), NEW e \in S, Distinct(s), ~Has(s, e)
    PROVE  /\ Append(s, e) \in Seq(S)
           /\ Distinct(Append(s, e))
           /\ \A x : Has(Append(s, e), x) <=> Has(s, x) \/ x = e
           /\ Len(Append(s, e)) = Len(s) + 1
<1>1. /\ Append(s, e) \in Seq(S) /\ Len(Append(s, e)) = Len(s) + 1
      /\ \A i \in 1..Len(s) : Append(s, e)[i] = s[i]
      /\ Append(s, e)[Len(s) + 1] = e
  OBVIOUS
<1> QED  BY <1>1 DEF Distinct, Has

\* Tail takes out the head and keeps the rest.
LEMMA TailKeys ==
    ASSUME NEW S, NEW s \in Seq(S), s # <<>>, Distinct(s)
    PROVE  /\ Tail(s) \in Seq(S) /\ Head(s) \in S
           /\ Distinct(Tail(s))
           /\ \A x : Has(Tail(s), x) <=> Has(s, x) /\ x # Head(s)
           /\ Len(Tail(s)) = Len(s) - 1
<1>1. /\ Tail(s) \in Seq(S) /\ Len(Tail(s)) = Len(s) - 1
      /\ \A i \in 1..(Len(s) - 1) : Tail(s)[i] = s[i + 1]
      /\ Head(s) = s[1] /\ Head(s) \in S /\ Len(s) >= 1
  OBVIOUS
<1>2. Distinct(Tail(s))
  BY <1>1 DEF Distinct
<1>3. ASSUME NEW x, Has(Tail(s), x)  PROVE  Has(s, x) /\ x # Head(s)
  BY <1>1, <1>3 DEF Has, Distinct
<1>4. ASSUME NEW x, Has(s, x), x # Head(s)  PROVE  Has(Tail(s), x)
  <2>1. PICK i \in 1..Len(s) : s[i] = x
    BY <1>4 DEF Has
  <2>2. i - 1 \in 1..(Len(s) - 1) /\ (i - 1) + 1 = i
    BY <1>1, <1>4, <2>1
  <2> QED  BY <1>1, <2>1, <2>2 DEF Has
<1> QED  BY <1>1, <1>2, <1>3, <1>4

-----------------------------------------------------------------------------
(* What the operations of the LRU cache and the hook do.                   *)

LruTypes == entry \in [Keys -> Entry \cup {None}] /\ recency \in Seq(Keys)

\* LruCache.delete keeps the structure.
LEMMA LruDeleteEffect ==
    ASSUME LruTypes, Lru, NEW k \in Keys, LruDelete(k)
    PROVE  LruTypes' /\ Lru'
<1> DEFINE r == RemoveFirst(recency, k)
<1>0. /\ r \in Seq(Keys)
      /\ Distinct(r)
      /\ \A x : Has(r, x) <=> Has(recency, x) /\ x # k
      /\ Len(r) = IF Has(recency, k) THEN Len(recency) - 1 ELSE Len(recency)
  BY RemoveFirstKeys DEF LruTypes, Lru
<1>r. recency' = r
  BY DEF LruDelete
<1> HIDE DEF r
<1>1. LruTypes'
  BY <1>0, <1>r DEF LruTypes, LruDelete
<1>2. /\ Distinct(recency')
      /\ \A x : Has(recency', x) <=> Has(recency, x) /\ x # k
      /\ Len(recency') <= Len(recency)
  BY <1>0, <1>r DEF LruTypes
<1>3. \A x \in Keys : entry'[x] = IF x = k THEN None ELSE entry[x]
  BY DEF LruTypes, LruDelete
<1> QED  BY <1>1, <1>2, <1>3, CacheAssumption DEF Lru, LruTypes

\* LruCache.get of a key that is present keeps the structure.
LEMMA LruTouchEffect ==
    ASSUME LruTypes, Lru, NEW k \in Keys, entry[k] # None, LruTouch(k), UNCHANGED entry
    PROVE  LruTypes' /\ Lru'
<1> DEFINE r == RemoveFirst(recency, k)
<1>1. /\ r \in Seq(Keys)
      /\ Distinct(r)
      /\ \A x : Has(r, x) <=> Has(recency, x) /\ x # k
      /\ Len(r) = Len(recency) - 1
  BY RemoveFirstKeys DEF LruTypes, Lru
<1>2. recency' = Append(r, k)
  BY DEF LruTouch
<1> HIDE DEF r
<1>3. /\ recency' \in Seq(Keys)
      /\ Distinct(recency')
      /\ \A x : Has(recency', x) <=> Has(r, x) \/ x = k
      /\ Len(recency') = Len(r) + 1
  BY <1>1, <1>2, AppendKeys
<1>4. Has(recency, k) /\ Len(recency) <= MaxEntries /\ MaxEntries \in Nat
  BY CacheAssumption DEF Lru
<1>5. LruTypes' /\ Len(recency') <= MaxEntries
  BY <1>1, <1>3, <1>4 DEF LruTypes
<1>6. \A x : Has(recency', x) <=> Has(recency, x)
  BY <1>1, <1>3, <1>4
<1> QED  BY <1>3, <1>5, <1>6 DEF Lru

\* LruCache.set keeps the structure, holds the new entry, and of the others
\* drops at most the victim.
LEMMA StoreEffect ==
    ASSUME LruTypes, Lru, NEW k \in Keys, NEW v \in Values, Store(k, v)
    PROVE  /\ LruTypes' /\ Lru'
           /\ entry'[k] = [value |-> v, fresh |-> TRUE]
           /\ \A x \in Keys \ {k} :
                 IF x \in Victim(k) THEN entry[x] # None /\ entry'[x] = None /\ entry[k] = None
                                    ELSE entry'[x] = entry[x]
           /\ Evict({entry[x].value : x \in Victim(k)})
           /\ Victim(k) \subseteq Keys \ {k}
<1>0. MaxEntries \in Nat \ {0}
  BY CacheAssumption
<1>1. [value |-> v, fresh |-> TRUE] \in Entry
  BY DEF Entry
<1>2. CASE Victim(k) = {}
  <2> DEFINE r == RemoveFirst(recency, k)
  <2>1. /\ r \in Seq(Keys)
        /\ Distinct(r)
        /\ \A x : Has(r, x) <=> Has(recency, x) /\ x # k
        /\ Len(r) = IF Has(recency, k) THEN Len(recency) - 1 ELSE Len(recency)
    BY RemoveFirstKeys DEF LruTypes, Lru
  <2>2. recency' = Append(r, k)
    BY <1>2 DEF Store
  <2> HIDE DEF r
  <2>3. /\ recency' \in Seq(Keys)
        /\ Distinct(recency')
        /\ \A x : Has(recency', x) <=> Has(r, x) \/ x = k
        /\ Len(recency') = Len(r) + 1
    BY <2>1, <2>2, AppendKeys
  <2>4. entry[k] = None => Len(recency) < MaxEntries
    <3>1. Len(recency) \in Nat
      BY DEF LruTypes
    <3>2. ~(entry[k] = None /\ Len(recency) >= MaxEntries)
      BY <1>2 DEF Victim
    <3> QED  BY <1>0, <3>1, <3>2
  <2>5. \A x \in Keys : entry'[x] = IF x = k THEN [value |-> v, fresh |-> TRUE] ELSE entry[x]
    BY <1>2 DEF Store
  <2>6. LruTypes'
    BY <1>1, <1>2, <2>3 DEF LruTypes, Store
  <2>7. Len(recency') <= MaxEntries
    BY <1>0, <2>1, <2>3, <2>4 DEF Lru, LruTypes
  <2>8. [value |-> v, fresh |-> TRUE] # None
    BY <1>1, CacheAssumption
  <2>9. Lru'
    BY <2>1, <2>3, <2>5, <2>7, <2>8 DEF Lru
  <2>10. entry'[k] = [value |-> v, fresh |-> TRUE]
    BY <2>5
  <2>11. \A x \in Keys \ {k} : x \notin Victim(k) /\ entry'[x] = entry[x]
    BY <1>2, <2>5
  <2>12. Evict({entry[x].value : x \in Victim(k)})
    BY DEF Store
  <2> QED  BY <1>2, <2>6, <2>9, <2>10, <2>11, <2>12
<1>3. CASE Victim(k) # {}
  <2>1. entry[k] = None /\ Len(recency) >= MaxEntries /\ Victim(k) = {Head(recency)}
    BY <1>3 DEF Victim
  <2>2. recency # <<>>
    BY <2>1, <1>0 DEF LruTypes
  <2> DEFINE h == Head(recency)
             r == Tail(recency)
  <2>3. /\ r \in Seq(Keys) /\ h \in Keys
        /\ Distinct(r)
        /\ \A x : Has(r, x) <=> Has(recency, x) /\ x # h
        /\ Len(r) = Len(recency) - 1
        /\ Has(recency, h)
    <3>1. Has(recency, h)
      BY <2>2 DEF Has, LruTypes
    <3> QED  BY <2>2, <3>1, TailKeys DEF LruTypes, Lru
  <2>4. recency' = Append(r, k)
    BY <1>3 DEF Store
  <2>5. Victim(k) = {h}
    BY <2>1
  <2> HIDE DEF r, h
  <2>6. ~Has(recency, k) /\ entry[h] # None /\ h # k
    BY <2>1, <2>3 DEF Lru
  <2>7. /\ recency' \in Seq(Keys)
        /\ Distinct(recency')
        /\ \A x : Has(recency', x) <=> Has(r, x) \/ x = k
        /\ Len(recency') = Len(r) + 1
    BY <2>3, <2>4, <2>6, AppendKeys
  <2>8. \A x \in Keys : entry'[x] = IF x = k THEN [value |-> v, fresh |-> TRUE]
                                    ELSE IF x = h THEN None ELSE entry[x]
    BY <2>5 DEF Store
  <2>9. LruTypes'
    BY <1>1, <2>7 DEF LruTypes, Store
  <2>10. [value |-> v, fresh |-> TRUE] # None
    BY <1>1, CacheAssumption
  <2>11. Lru'
    BY <2>3, <2>6, <2>7, <2>8, <2>10 DEF Lru, LruTypes
  <2> QED  BY <2>1, <2>3, <2>5, <2>6, <2>8, <2>9, <2>11 DEF Store
<1> QED  BY <1>2, <1>3

\* The hook's count goes up by one for the values it is called with.
LEMMA EvictEffect ==
    ASSUME NEW S, evictions \in [Values -> Nat], Evict(S)
    PROVE  /\ evictions' \in [Values -> Nat]
           /\ \A v \in Values :
                 evictions'[v] = IF v \in S /\ options.hook THEN evictions[v] + 1 ELSE evictions[v]
BY DEF Evict


-----------------------------------------------------------------------------
(* Types, and the structure of the LRU cache.                              *)

\* What the names of fetches, writes and callers stand for.
LEMMA Names ==
    /\ \A f \in Fetches : f \in Values /\ f # None /\ f[1] \in Callers /\ KeyOf(f) \in Keys
    /\ \A w \in Writes : w \in Values /\ w # None /\ WriteKey[w] \in Keys /\ w \notin Fetches
    /\ \A c \in Callers : CallerKey[c] \in Keys
BY CacheAssumption DEF Fetches, Values, KeyOf

\* There is a name for every fetch a caller may start: its attempts are bounded by
\* the invalidations.
LEMMA NextFetch ==
    ASSUME Types, Attempts, NEW c \in Callers
    PROVE  /\ <<c, call[c].attempt>> \in Fetches
           /\ KeyOf(<<c, call[c].attempt>>) = CallerKey[c]
           /\ call[c].attempt \in 0..MaxInvalidations
<1>1. call[c].attempt \in Nat
  BY DEF Types, Call
<1>2. call[c].attempt \in 0..MaxInvalidations
  BY <1>1, CacheAssumption DEF Types, Attempts
<1> QED  BY <1>2 DEF Fetches, KeyOf

\* A value of the cache is a value, and not None.
LEMMA EntryValue ==
    ASSUME Types, NEW k \in Keys, entry[k] # None
    PROVE  entry[k] \in Entry /\ entry[k].value \in Values /\ entry[k].fresh \in BOOLEAN
BY DEF Types, Entry

\* The fields of a fetch that was started.
LEMMA FetchFields ==
    ASSUME Types, NEW f \in Fetches, Started(f)
    PROVE  /\ fetch[f] \in Fetch
           /\ fetch[f].stage \in InFlight \cup Discarded \cup Settled
           /\ fetch[f].born \in Nat /\ fetch[f].epoch \in Nat
           /\ fetch[f].force \in BOOLEAN
BY DEF Types, Started, Fetch

\* Move changes one fetch, and of it the stage.
LEMMA MoveEffect ==
    ASSUME Types, NEW f \in Fetches, Started(f), NEW s \in InFlight \cup Discarded \cup Settled,
           Move(f, s)
    PROVE  /\ fetch' \in [Fetches -> Fetch \cup {None}]
           /\ fetch' = [fetch EXCEPT ![f] = [fetch[f] EXCEPT !.stage = s]]
           /\ Started(f)'
           /\ fetch[f]'.stage = s
           /\ fetch[f]'.epoch = fetch[f].epoch
           /\ fetch[f]'.born = fetch[f].born
           /\ fetch[f]'.force = fetch[f].force
           /\ fetch[f]'.replaces = fetch[f].replaces
           /\ \A g \in Fetches \ {f} : fetch[g]' = fetch[g]
<1>1. fetch[f] \in Fetch
  BY FetchFields
<1>2. [fetch[f] EXCEPT !.stage = s] \in Fetch
  BY <1>1 DEF Fetch
<1>3. fetch' = [fetch EXCEPT ![f] = [fetch[f] EXCEPT !.stage = s]]
  BY DEF Move
<1>4. fetch' \in [Fetches -> Fetch \cup {None}]
  BY <1>2, <1>3 DEF Types
<1>5. fetch'[f] = [fetch[f] EXCEPT !.stage = s] /\ \A g \in Fetches \ {f} : fetch'[g] = fetch[g]
  BY <1>3 DEF Types
<1>6. fetch'[f] # None
  BY <1>2, <1>5, CacheAssumption
<1> QED  BY <1>1, <1>3, <1>4, <1>5, <1>6 DEF Started, Fetch

\* What StartFetch makes of the fetch it starts.
LEMMA StartEffect ==
    ASSUME Types, Attempts, NEW c \in Callers, StartFetch(c),
           NEW k, k = CallerKey[c], NEW f, f = <<c, call[c].attempt>>
    PROVE  /\ k \in Keys /\ f \in Fetches /\ KeyOf(f) = k
           /\ fetch' \in [Fetches -> Fetch \cup {None}]
           /\ Started(f)'
           /\ fetch'[f].stage \in {"evicting", "fetching"}
           /\ fetch'[f].epoch = epoch
           /\ fetch'[f].born = clock
           /\ fetch'[f].replaces = entry[k]
           /\ (entry[k] = None => fetch'[f].stage = "fetching")
           /\ \A g \in Fetches \ {f} : fetch'[g] = fetch[g]
<1> DEFINE drop == entry[k] # None /\ ~options.keepStale
           r == [stage |-> IF drop /\ options.hook THEN "evicting" ELSE "fetching",
                 epoch |-> epoch, replaces |-> entry[k], born |-> clock,
                 force |-> call[c].attempt >= MaxRetries]
<1>1. fetch' = [fetch EXCEPT ![f] = r]
  BY DEF StartFetch
<1>2. f \in Fetches /\ k \in Keys /\ KeyOf(f) = k
  BY NextFetch, Names
<1>3. entry[k] \in Entry \cup {None} /\ epoch \in Nat /\ clock \in Nat
  BY <1>2, CacheAssumption DEF Types
<1>4. r.stage \in {"evicting", "fetching"} /\ (entry[k] = None => r.stage = "fetching")
  OBVIOUS
<1>5. r \in Fetch
  BY <1>3 DEF Fetch, InFlight
<1>6. fetch'[f] = r /\ \A g \in Fetches \ {f} : fetch'[g] = fetch[g]
  BY <1>1, <1>2 DEF Types
<1>7. r # None
  BY <1>5, CacheAssumption
<1>8. fetch' \in [Fetches -> Fetch \cup {None}]
  BY <1>1, <1>5 DEF Types
<1>9. r.epoch = epoch /\ r.born = clock /\ r.replaces = entry[k]
  OBVIOUS
<1> HIDE DEF r
<1> QED  BY <1>2, <1>4, <1>6, <1>7, <1>8, <1>9 DEF Started

\* It touches no other fetch.
LEMMA StartLeaves ==
    ASSUME Types, NEW c \in Callers, StartFetch(c)
    PROVE  \A g \in Fetches \ {<<c, call[c].attempt>>} : fetch'[g] = fetch[g]
<1>1. \E r : fetch' = [fetch EXCEPT ![<<c, call[c].attempt>>] = r]
  BY DEF StartFetch
<1>2. fetch \in [Fetches -> Fetch \cup {None}]
  BY DEF Types
<1> QED BY <1>1, <1>2

\* What Await and Return make of a call.
LEMMA AwaitEffect ==
    ASSUME Types, NEW c \in Callers, NEW v \in Values, Await(c, v) \/ Return(c, v)
    PROVE  /\ call' \in [Callers -> Call]
           /\ call'[c].at = IF Await(c, v) THEN "awaiting" ELSE "returned"
           /\ call'[c].on = v
           /\ call'[c].attempt = call[c].attempt
           /\ call'[c].born = IF call[c].at = "idle" THEN invalidated[CallerKey[c]]
                             ELSE call[c].born
           /\ \A d \in Callers \ {c} : call'[d] = call[d]
<1> DEFINE b == IF call[c].at = "idle" THEN invalidated[CallerKey[c]] ELSE call[c].born
           a == IF Await(c, v) THEN "awaiting" ELSE "returned"
<1>1. call[c] \in Call /\ b \in Nat
  <2>1. call[c] \in Call /\ CallerKey[c] \in Keys
    BY Names DEF Types
  <2> QED  BY <2>1 DEF Types, Call
<1>2. call' = [call EXCEPT ![c] = [call[c] EXCEPT !.at = a, !.on = v, !.born = b]]
  <2>1. CASE Await(c, v)
    BY <2>1 DEF Await, Types, Call
  <2>2. CASE ~Await(c, v)
    BY <2>2 DEF Return, Types, Call
  <2> QED  BY <2>1, <2>2
<1> HIDE DEF b, a
<1>3. a \in {"awaiting", "returned"}
  BY DEF a
<1>4. [call[c] EXCEPT !.at = a, !.on = v, !.born = b] \in Call
  BY <1>1, <1>3 DEF Call
<1>5. /\ call' \in [Callers -> Call]
      /\ call'[c] = [call[c] EXCEPT !.at = a, !.on = v, !.born = b]
      /\ \A d \in Callers \ {c} : call'[d] = call[d]
  BY <1>2, <1>4 DEF Types
<1>6. /\ call'[c].at = a /\ call'[c].on = v /\ call'[c].born = b
      /\ call'[c].attempt = call[c].attempt
  BY <1>1, <1>5 DEF Call
<1> QED  BY <1>5, <1>6 DEF a, b

\* What Resume makes of a call, and of the key its fetch may hold.
LEMMA ResumeEffect ==
    ASSUME Types, NEW c \in Callers, Resume(c), call[c].on \in Fetches, Started(call[c].on)
    PROVE  /\ call' \in [Callers -> Call]
           /\ call'[c].at = IF fetch[call[c].on].stage = "stored" THEN "returned"
                              ELSE IF fetch[call[c].on].stage = "failed" THEN "threw"
                              ELSE "looking"
           /\ call'[c].on = IF fetch[call[c].on].stage \in {"stored", "failed"}
                            THEN call[c].on ELSE None
           /\ call'[c].attempt = IF fetch[call[c].on].stage \in {"stored", "failed"}
                                 THEN call[c].attempt ELSE call[c].attempt + 1
           /\ call'[c].born = call[c].born
           /\ \A d \in Callers \ {c} : call'[d] = call[d]
           /\ current' \in [Keys -> Fetches \cup {None}]
           /\ \A k \in Keys :
                 current'[k] = IF call[c].on[1] = c /\ current[k] = call[c].on
                                  /\ k = KeyOf(call[c].on)
                               THEN None ELSE current[k]
           /\ fetch[call[c].on].stage \in Settled
           /\ call[c].at = "awaiting"
<1> DEFINE f == call[c].on
<1>1. call[c] \in Call /\ f \in Fetches /\ fetch[f].stage \in Settled /\ call[c].at = "awaiting"
  BY DEF Types, Resume
<1>0. /\ current' \in [Keys -> Fetches \cup {None}]
      /\ \A k \in Keys :
            current'[k] = IF f[1] = c /\ current[k] = f /\ k = KeyOf(f) THEN None ELSE current[k]
  BY <1>1, Names DEF Types, Resume
<1> HIDE DEF f
<1>2. CASE fetch[f].stage = "stored"
  <2>1. call' = [call EXCEPT ![c] = [call[c] EXCEPT !.at = "returned"]]
    BY <1>2 DEF Resume, f
  <2> QED  BY <1>0, <1>1, <1>2, <2>1 DEF Types, Call, f
<1>3. CASE fetch[f].stage = "failed"
  <2>1. call' = [call EXCEPT ![c] = [call[c] EXCEPT !.at = "threw"]]
    BY <1>3 DEF Resume, f
  <2> QED  BY <1>0, <1>1, <1>3, <2>1 DEF Types, Call, f
<1>4. CASE fetch[f].stage \notin {"stored", "failed"}
  <2>1. call' = [call EXCEPT ![c] = [call[c] EXCEPT !.at = "looking", !.attempt = @ + 1,
                                                    !.on = None]]
    BY <1>4 DEF Resume, Types, Call, f
  <2>2. /\ call'[c].at = "looking" /\ call'[c].on = None /\ call'[c].attempt = call[c].attempt + 1
        /\ call'[c].born = call[c].born
        /\ \A d \in Callers \ {c} : call'[d] = call[d]
    BY <1>1, <2>1 DEF Types, Call
  <2>3. [call[c] EXCEPT !.at = "looking", !.attempt = @ + 1, !.on = None] \in Call
    <3>1. call[c].attempt + 1 \in Nat
      BY <1>1 DEF Call
    <3> QED  BY <1>1, <3>1 DEF Call
  <2>4. call' \in [Callers -> Call]
    <3> DEFINE r == [call[c] EXCEPT !.at = "looking", !.attempt = @ + 1, !.on = None]
    <3> HIDE DEF r
    <3>1. r \in Call /\ call' = [call EXCEPT ![c] = r]
      BY <2>1, <2>3 DEF r
    <3> QED  BY <3>1 DEF Types
  <2> QED  BY <1>0, <1>1, <1>4, <2>2, <2>4 DEF f
<1> QED  BY <1>2, <1>3, <1>4

\* An invalidation moves the clock and its keys' marks forward.
LEMMA InvalidateEffect ==
    ASSUME Types, Clocks, NEW S, Invalidate(S)
    PROVE  /\ clock' = clock + 1 /\ clock' \in 0..MaxInvalidations
           /\ invalidated' \in [Keys -> Nat]
           /\ \A k \in Keys : invalidated'[k] = IF k \in S THEN clock + 1 ELSE invalidated[k]
           /\ \A k \in Keys : invalidated'[k] >= invalidated[k] /\ invalidated'[k] <= clock'
<1>1. clock \in Nat /\ clock < MaxInvalidations /\ clock' = clock + 1 /\ MaxInvalidations \in Nat
  BY CacheAssumption DEF Types, Invalidate
<1>2. \A k \in Keys : invalidated[k] \in Nat /\ invalidated[k] <= clock
  BY DEF Types, Clocks
<1>3. \A k \in Keys : invalidated'[k] = IF k \in S THEN clock + 1 ELSE invalidated[k]
  BY DEF Invalidate
<1>4. invalidated' \in [Keys -> Nat]
  <2>1. \A k \in Keys : (IF k \in S THEN clock + 1 ELSE invalidated[k]) \in Nat
    BY <1>1, <1>2
  <2> QED  BY <2>1 DEF Invalidate
<1> QED  BY <1>1, <1>2, <1>3, <1>4

\* What every step but a change of the cache's options may count on.
Typed == Types /\ Lru /\ Clocks /\ Attempts /\ Waits

\* What a waiting call waits for.
LEMMA AwaitsFetch ==
    ASSUME Types, Waits, NEW c \in Callers, call[c].at = "awaiting"
    PROVE  /\ call[c].on \in Fetches /\ Started(call[c].on)
           /\ KeyOf(call[c].on) = CallerKey[c]
           /\ fetch[call[c].on].born >= call[c].born
BY DEF Waits

\* Every step keeps the types and the structure of the LRU cache.
LEMMA TypesStep == Typed /\ Next => Types' /\ Lru'
<1> SUFFICES ASSUME Typed, Next  PROVE  Types' /\ Lru'
  OBVIOUS
<1> USE DEF Typed
<1>t. LruTypes /\ evictions \in [Values -> Nat] /\ options \in Options
  BY DEF Types, LruTypes
<1>1. ASSUME NEW c \in Callers, CallStep(c)  PROVE  Types' /\ Lru'
  <2>0. CallerKey[c] \in Keys /\ options' = options
    BY <1>1, Names DEF CallStep
  <2>1. CASE JoinFetch(c)
    <3>1. current[CallerKey[c]] \in Values
      BY <2>0, <2>1, Names DEF JoinFetch, Types
    <3>2. call' \in [Callers -> Call]
      BY <2>1, <3>1, AwaitEffect DEF JoinFetch
    <3> QED  BY <2>0, <2>1, <3>2 DEF JoinFetch, Types, Lru, lru, history
  <2>2. CASE ReturnCached(c)
    <3>1. entry[CallerKey[c]] # None /\ entry[CallerKey[c]].value \in Values
      BY <2>0, <2>2, EntryValue DEF ReturnCached, Live
    <3>2. call' \in [Callers -> Call]
      BY <2>2, <3>1, AwaitEffect DEF ReturnCached
    <3>3. LruTypes' /\ Lru'
      BY <1>t, <2>0, <2>2, <3>1, LruTouchEffect DEF ReturnCached
    <3> QED  BY <2>0, <2>2, <3>2, <3>3 DEF ReturnCached, Types, LruTypes, history
  <2>3. CASE StartFetch(c)
    <3> DEFINE f == <<c, call[c].attempt>>
               k == CallerKey[c]
    <3>1. f \in Fetches /\ f \in Values /\ fetch' \in [Fetches -> Fetch \cup {None}]
      BY <2>3, StartEffect, Names
    <3>2. call' \in [Callers -> Call]
      BY <2>3, <3>1, AwaitEffect DEF StartFetch
    <3>3. LruTypes' /\ Lru' /\ evictions' \in [Values -> Nat]
      <4>1. CASE entry[k] # None /\ ~options.keepStale
        <5>1. LruDelete(k) /\ Evict({entry[k].value})
          BY <2>3, <4>1 DEF StartFetch
        <5> QED  BY <1>t, <2>0, <5>1, LruDeleteEffect, EvictEffect
      <4>2. CASE ~(entry[k] # None /\ ~options.keepStale)
        <5>1. UNCHANGED <<lru, evictions>>
          BY <2>3, <4>2 DEF StartFetch
        <5> QED  BY <1>t, <5>1 DEF lru, Lru, LruTypes
      <4> QED  BY <4>1, <4>2
    <3>4. current' \in [Keys -> Fetches \cup {None}]
      BY <2>3, <3>1 DEF StartFetch, Types
    <3>5. UNCHANGED <<options, epoch, written, clock, invalidated>>
      BY <2>0, <2>3 DEF StartFetch, history
    <3> QED  BY <3>1, <3>2, <3>3, <3>4, <3>5 DEF Types, LruTypes
  <2>4. CASE Resume(c)
    <3>1. call[c].on \in Fetches /\ Started(call[c].on)
      BY <2>4, AwaitsFetch DEF Resume
    <3>2. call' \in [Callers -> Call] /\ current' \in [Keys -> Fetches \cup {None}]
      BY <2>4, <3>1, ResumeEffect
    <3> QED  BY <2>0, <2>4, <3>2 DEF Resume, Types, Lru, lru, history
  <2> QED  BY <1>1, <2>1, <2>2, <2>3, <2>4 DEF CallStep
<1>2. ASSUME NEW f \in Fetches, FetchStep(f)  PROVE  Types' /\ Lru'
  <2> DEFINE Stays == UNCHANGED <<options, current, epoch, call, written, clock, invalidated>>
             Places == LruTypes' /\ Lru' /\ evictions' \in [Values -> Nat]
  <2>0. KeyOf(f) \in Keys /\ f \in Values /\ Stays
    BY <1>2, Names DEF FetchStep, ExpiredEvicted, FetchCurrent, ReplacedEvicted, FetchForced,
       FetchDiscarded, DiscardEvicted, FetchFails, history
  <2>1. /\ Started(f)
        /\ \E s \in InFlight \cup Discarded \cup Settled : Move(f, s)
    BY <1>2 DEF FetchStep, ExpiredEvicted, FetchCurrent, ReplacedEvicted, FetchForced,
       FetchDiscarded, DiscardEvicted, FetchFails, In, Started, InFlight, Discarded, Settled
  <2>2. fetch' \in [Fetches -> Fetch \cup {None}]
    BY <2>1, MoveEffect
  <2>s. Store(KeyOf(f), f) => Places
    <3>1. SUFFICES ASSUME Store(KeyOf(f), f)  PROVE  Places
      OBVIOUS
    <3> QED  BY <1>t, <2>0, <3>1, StoreEffect, EvictEffect
  <2>e. ASSUME NEW v, Evict({v}), UNCHANGED lru  PROVE  Places
    BY <1>t, <2>e, EvictEffect DEF lru, Lru, LruTypes
  <2>u. ASSUME UNCHANGED <<lru, evictions>>  PROVE  Places
    BY <1>t, <2>u DEF lru, Lru, LruTypes
  <2>3. Places
    <3>1. CASE ExpiredEvicted(f) \/ DiscardEvicted(f)
      BY <2>u, <3>1 DEF ExpiredEvicted, DiscardEvicted
    <3>2. CASE FetchCurrent(f)
      BY <2>s, <2>e, <3>2 DEF FetchCurrent
    <3>3. CASE ReplacedEvicted(f) \/ FetchForced(f)
      BY <2>s, <3>3 DEF ReplacedEvicted, FetchForced
    <3>4. CASE FetchDiscarded(f)
      BY <2>e, <3>4 DEF FetchDiscarded
    <3>5. CASE FetchFails(f)
      <4>1. UNCHANGED evictions
        BY <3>5 DEF FetchFails
      <4>2. CASE LruDelete(KeyOf(f))
        BY <1>t, <2>0, <4>1, <4>2, LruDeleteEffect
      <4>3. CASE UNCHANGED lru
        BY <2>u, <4>1, <4>3
      <4> QED  BY <3>5, <4>2, <4>3 DEF FetchFails
    <3> QED  BY <1>2, <3>1, <3>2, <3>3, <3>4, <3>5 DEF FetchStep
  <2> QED  BY <2>0, <2>2, <2>3 DEF Types, LruTypes
<1>3. ASSUME OtherStep  PROVE  Types' /\ Lru'
  <2>0. options' = options
    BY <1>3 DEF OtherStep
  <2>1. ASSUME NEW w \in Writes, Set(w)  PROVE  Types' /\ Lru'
    <3>0. WriteKey[w] \in Keys /\ w \in Values
      BY Names
    <3>1. LruTypes' /\ Lru' /\ evictions' \in [Values -> Nat]
      BY <1>t, <2>1, <3>0, StoreEffect, EvictEffect DEF Set
    <3>2. clock' \in 0..MaxInvalidations /\ invalidated' \in [Keys -> Nat]
      BY <2>1, InvalidateEffect DEF Set
    <3>3. current' \in [Keys -> Fetches \cup {None}] /\ written' \subseteq Writes
      BY <2>1 DEF Set, Types
    <3> QED  BY <2>0, <2>1, <3>1, <3>2, <3>3 DEF Types, LruTypes, Set
  <2>2. ASSUME NEW k \in Keys, Delete(k)  PROVE  Types' /\ Lru'
    <3>1. LruTypes' /\ Lru' /\ evictions' \in [Values -> Nat]
      <4>1. CASE entry[k] = None
        <5>1. UNCHANGED <<lru, evictions>>
          BY <2>2, <4>1 DEF Delete
        <5> QED  BY <1>t, <5>1 DEF lru, Lru, LruTypes
      <4>2. CASE entry[k] # None
        <5>1. LruDelete(k) /\ Evict({entry[k].value})
          BY <2>2, <4>2 DEF Delete
        <5> QED  BY <1>t, <5>1, LruDeleteEffect, EvictEffect
      <4> QED  BY <4>1, <4>2
    <3>2. clock' \in 0..MaxInvalidations /\ invalidated' \in [Keys -> Nat]
      BY <2>2, InvalidateEffect DEF Delete
    <3>3. current' \in [Keys -> Fetches \cup {None}]
      BY <2>2 DEF Delete, Types
    <3> QED  BY <2>0, <2>2, <3>1, <3>2, <3>3 DEF Types, LruTypes, Delete
  <2>3. ASSUME NEW k \in Keys, GetExpired(k)  PROVE  Types' /\ Lru'
    <3>1. LruTypes' /\ Lru'
      BY <1>t, <2>3, LruDeleteEffect DEF GetExpired
    <3> QED  BY <2>0, <2>3, <3>1 DEF Types, LruTypes, GetExpired, history
  <2>4. ASSUME NEW k \in Keys, GetLive(k)  PROVE  Types' /\ Lru'
    <3>1. LruTypes' /\ Lru'
      BY <1>t, <2>4, LruTouchEffect DEF GetLive, Live
    <3> QED  BY <2>0, <2>4, <3>1 DEF Types, LruTypes, GetLive, history
  <2>5. ASSUME NEW k \in Keys, Expire(k)  PROVE  Types' /\ Lru'
    <3>1. entry[k] \in Entry /\ entry' = [entry EXCEPT ![k] = [entry[k] EXCEPT !.fresh = FALSE]]
      BY <2>5, EntryValue DEF Expire, Live
    <3>2. [entry[k] EXCEPT !.fresh = FALSE] \in Entry
      BY <3>1 DEF Entry
    <3>3. entry' \in [Keys -> Entry \cup {None}]
      BY <3>1, <3>2 DEF Types
    <3>4. \A x \in Keys : entry'[x] # None <=> entry[x] # None
      <4>1. ASSUME NEW x \in Keys  PROVE  entry'[x] # None <=> entry[x] # None
        <5>1. CASE x = k
          <6>1. entry'[x] \in Entry
            BY <3>1, <3>2, <5>1 DEF Types
          <6> QED  BY <3>1, <5>1, <6>1, CacheAssumption
        <5>2. CASE x # k
          BY <3>1, <5>2 DEF Types
        <5> QED  BY <5>1, <5>2
      <4> QED  BY <4>1
    <3>5. UNCHANGED <<recency, current, epoch, fetch, call, written, evictions, clock, invalidated>>
      BY <2>5 DEF Expire, history
    <3>6. Types'
      BY <2>0, <3>3, <3>5 DEF Types
    <3> QED  BY <3>4, <3>5, <3>6 DEF Lru
  <2>6. CASE Clear
    <3>1. entry' \in [Keys -> Entry \cup {None}] /\ current' \in [Keys -> Fetches \cup {None}]
      BY <2>6 DEF Clear
    <3>2. evictions' \in [Values -> Nat]
      BY <1>t, <2>6, EvictEffect DEF Clear
    <3>3. clock' \in 0..MaxInvalidations /\ invalidated' \in [Keys -> Nat]
      BY <2>6, InvalidateEffect DEF Clear
    <3>4. recency' \in Seq(Keys) /\ Len(recency') = 0 /\ epoch' \in Nat
      BY <2>6 DEF Clear, Types
    <3>5. Lru'
      <4>1. ~(1 <= Len(recency')) /\ Len(recency') <= MaxEntries
        BY <3>4, CacheAssumption
      <4>2. Distinct(recency') /\ \A x : ~Has(recency', x)
        BY <3>4 DEF Distinct, Has
      <4>3. \A k \in Keys : entry'[k] = None
        BY <2>6 DEF Clear
      <4> QED  BY <4>1, <4>2, <4>3 DEF Lru
    <3> QED  BY <2>0, <2>6, <3>1, <3>2, <3>3, <3>4, <3>5 DEF Types, Clear
  <2> QED  BY <1>3, <2>1, <2>2, <2>3, <2>4, <2>5, <2>6 DEF OtherStep
<1> QED  BY <1>1, <1>2, <1>3 DEF Next

-----------------------------------------------------------------------------
(* Fetches, the calls that wait for them, and the keys they hold.          *)

\* A fetch moves on only while it is unsettled, keeps what it was started with,
\* and is discarded only when it no longer is the key's current one.
LEMMA FetchStepEffect ==
    ASSUME Types, NEW f \in Fetches, FetchStep(f)
    PROVE  /\ UNCHANGED <<options, current, epoch, call, written, clock, invalidated>>
           /\ Started(f) /\ Started(f)'
           /\ \A g \in Fetches \ {f} : fetch'[g] = fetch[g]
           /\ fetch'[f].epoch = fetch[f].epoch
           /\ fetch'[f].born = fetch[f].born
           /\ fetch'[f].force = fetch[f].force
           /\ fetch'[f].replaces = fetch[f].replaces
           /\ fetch[f].stage \in InFlight \cup {"discarding"}
           /\ fetch'[f].stage \in InFlight => fetch[f].stage \in InFlight
           /\ fetch'[f].stage \in Discarded =>
                 fetch[f].stage = "discarding" \/ ~StillCurrent(f)
<1> DEFINE Kept == UNCHANGED <<options, current, epoch, call, written, clock, invalidated>>
           Step(from, to) == In(f, from) /\ Move(f, to)
<1>1. Kept
  BY DEF FetchStep, ExpiredEvicted, FetchCurrent, ReplacedEvicted, FetchForced,
     FetchDiscarded, DiscardEvicted, FetchFails, history
<1>2. \/ Step("evicting", "fetching")
      \/ Step("fetching", "replacing")
      \/ Step("fetching", "stored")
      \/ Step("replacing", "stored")
      \/ ~StillCurrent(f) /\ (Step("fetching", "discarding") \/ Step("fetching", "unstored"))
      \/ Step("discarding", "unstored")
      \/ Step("fetching", "failed")
  <2>1. CASE ExpiredEvicted(f)
    BY <2>1 DEF ExpiredEvicted
  <2>2. CASE FetchCurrent(f)
    BY <2>2 DEF FetchCurrent
  <2>3. CASE ReplacedEvicted(f)
    BY <2>3 DEF ReplacedEvicted
  <2>4. CASE FetchForced(f)
    BY <2>4 DEF FetchForced
  <2>5. CASE FetchDiscarded(f)
    BY <2>5 DEF FetchDiscarded
  <2>6. CASE DiscardEvicted(f)
    BY <2>6 DEF DiscardEvicted
  <2>7. CASE FetchFails(f)
    BY <2>7 DEF FetchFails
  <2> QED  BY <2>1, <2>2, <2>3, <2>4, <2>5, <2>6, <2>7 DEF FetchStep
<1>3. PICK from \in InFlight \cup {"discarding"}, to \in InFlight \cup Discarded \cup Settled :
        /\ Step(from, to)
        /\ to \in InFlight => from \in InFlight
        /\ to \in Discarded => from = "discarding" \/ ~StillCurrent(f)
  BY <1>2 DEF InFlight, Discarded, Settled
<1>4. Started(f) /\ fetch[f].stage = from /\ Move(f, to)
  BY <1>3 DEF In, Started
<1>5. /\ Started(f)'
      /\ fetch'[f].stage = to
      /\ fetch'[f].epoch = fetch[f].epoch
      /\ fetch'[f].born = fetch[f].born
      /\ fetch'[f].force = fetch[f].force
      /\ fetch'[f].replaces = fetch[f].replaces
      /\ \A g \in Fetches \ {f} : fetch'[g] = fetch[g]
  BY <1>4, MoveEffect
<1> HIDE DEF Step
<1> QED  BY <1>1, <1>3, <1>4, <1>5

\* Every step keeps marks and births behind the clock.
LEMMA ClocksStep == Typed /\ Next => Clocks'
<1> SUFFICES ASSUME Typed, Next  PROVE  Clocks'
  OBVIOUS
<1> USE DEF Typed
<1>1. ASSUME NEW c \in Callers, CallStep(c)  PROVE  Clocks'
  <2>1. CASE JoinFetch(c) \/ ReturnCached(c) \/ Resume(c)
    BY <2>1 DEF JoinFetch, ReturnCached, Resume, history, Clocks, Started
  <2>2. CASE StartFetch(c)
    <3>1. UNCHANGED <<clock, invalidated>> /\ clock \in Nat
      BY <2>2, CacheAssumption DEF StartFetch, history, Types
    <3> DEFINE f == <<c, call[c].attempt>>
    <3>2. fetch'[f].born = clock /\ \A g \in Fetches \ {f} : fetch'[g] = fetch[g]
      BY <2>2, StartEffect
    <3> HIDE DEF f
    <3> QED  BY <3>1, <3>2 DEF Clocks, Started
  <2> QED  BY <1>1, <2>1, <2>2 DEF CallStep
<1>2. ASSUME NEW f \in Fetches, FetchStep(f)  PROVE  Clocks'
  BY <1>2, FetchStepEffect DEF Clocks, Started
<1>3. ASSUME OtherStep  PROVE  Clocks'
  <2>1. ASSUME NEW S, Invalidate(S), UNCHANGED fetch  PROVE  Clocks'
    <3>1. clock' = clock + 1 /\ clock \in Nat
      BY <2>1, InvalidateEffect, CacheAssumption DEF Types
    <3>2. \A f \in Fetches : Started(f) => fetch[f].born \in Nat
      BY FetchFields
    <3> QED  BY <2>1, <3>1, <3>2, InvalidateEffect DEF Clocks, Started
  <2>2. ASSUME NEW k \in Keys, GetExpired(k) \/ GetLive(k) \/ Expire(k)  PROVE  Clocks'
    BY <2>2 DEF GetExpired, GetLive, Expire, history, Clocks, Started
  <2> QED  BY <1>3, <2>1, <2>2 DEF OtherStep, Set, Delete, Clear
<1> QED  BY <1>1, <1>2, <1>3 DEF Next

\* Every step keeps the callers' attempts in order and bounded.
LEMMA AttemptsStep == Typed /\ Currents /\ Next => Attempts'
<1> SUFFICES ASSUME Typed, Currents, Next  PROVE  Attempts'
  OBVIOUS
<1> USE DEF Typed
<1>0. /\ clock \in Nat
      /\ \A c \in Callers : call[c].attempt \in Nat
      /\ \A c \in Callers, n \in 0..MaxInvalidations : <<c, n>> \in Fetches
  BY CacheAssumption DEF Types, Call, Fetches
<1>1. ASSUME NEW c \in Callers, CallStep(c)  PROVE  Attempts'
  <2>0. call[c].at # "awaiting" => MayLook(c)
    BY <1>1 DEF CallStep, JoinFetch, ReturnCached, StartFetch, Resume
  <2>1. CASE JoinFetch(c) \/ ReturnCached(c)
    <3>1. PICK v \in Values : Await(c, v) \/ Return(c, v)
      BY <2>1, Names, EntryValue DEF JoinFetch, ReturnCached, Types, Live
    <3>2. UNCHANGED <<fetch, clock>>
      BY <2>1 DEF JoinFetch, ReturnCached, history
    <3> QED  BY <3>1, <3>2, AwaitEffect DEF Attempts, Started, MayLook
  <2>2. CASE StartFetch(c)
    <3> DEFINE f == <<c, call[c].attempt>>
    <3>1. f \in Values /\ Await(c, f) /\ UNCHANGED clock
      BY <2>2, NextFetch, Names DEF StartFetch, history
    <3>2. /\ call'[c].attempt = call[c].attempt
          /\ call'[c].at = "awaiting"
          /\ \A d \in Callers \ {c} : call'[d] = call[d]
      BY <3>1, AwaitEffect
    <3>3. \A g \in Fetches \ {f} : fetch'[g] = fetch[g]
      BY <2>2, StartLeaves
    <3>4. ASSUME NEW d \in Callers, NEW n \in 0..MaxInvalidations, Started(<<d, n>>)'
          PROVE  n <= call'[d].attempt /\ (MayLook(d)' => n < call'[d].attempt)
      <4>1. CASE <<d, n>> = f
        BY <1>0, <3>2, <4>1 DEF MayLook
      <4>2. CASE <<d, n>> # f
        <5>1. Started(<<d, n>>)
          BY <1>0, <3>3, <3>4, <4>2 DEF Started
        <5>2. CASE d = c
          BY <1>0, <3>2, <5>1, <5>2 DEF Attempts, MayLook
        <5>3. CASE d # c
          BY <1>0, <3>2, <5>1, <5>3 DEF Attempts, MayLook
        <5> QED  BY <5>2, <5>3
      <4> QED  BY <4>1, <4>2
    <3>5. \A d \in Callers : call'[d].attempt <= clock'
      BY <3>1, <3>2 DEF Attempts
    <3> QED  BY <3>4, <3>5 DEF Attempts
  <2>3. CASE Resume(c)
    <3> DEFINE f == call[c].on
    <3>1. f \in Fetches /\ Started(f) /\ KeyOf(f) = CallerKey[c] /\ KeyOf(f) \in Keys
      BY <2>3, AwaitsFetch, Names DEF Resume
    <3>2. UNCHANGED <<fetch, clock>>
      BY <2>3 DEF Resume, history
    <3>3. CASE fetch[f].stage \in {"stored", "failed"}
      BY <2>3, <3>1, <3>2, <3>3, ResumeEffect DEF Attempts, Started, MayLook
    <3>4. CASE fetch[f].stage \notin {"stored", "failed"}
      <4>1. call'[c].attempt = call[c].attempt + 1 /\ \A d \in Callers \ {c} : call'[d] = call[d]
        BY <2>3, <3>1, <3>4, ResumeEffect
      <4>2. call[c].at = "awaiting" /\ fetch[f].stage = "unstored"
        BY <2>3, <3>1, <3>4, ResumeEffect DEF Settled
      <4>3. current[CallerKey[c]] # f
        BY <3>1, <4>2, Names DEF Currents, Discarded
      <4>4. call[c].attempt < clock
        BY <4>2, <4>3 DEF Waits, Discarded
      <4>5. ASSUME NEW d \in Callers  PROVE  call'[d].attempt <= clock'
        BY <1>0, <3>2, <4>1, <4>4 DEF Attempts
      <4>6. ASSUME NEW d \in Callers, NEW n \in 0..MaxInvalidations, Started(<<d, n>>)'
            PROVE  n <= call'[d].attempt /\ (MayLook(d)' => n < call'[d].attempt)
        BY <1>0, <3>2, <4>1, <4>6 DEF Attempts, Started, MayLook
      <4> QED  BY <4>5, <4>6 DEF Attempts
    <3> QED  BY <3>3, <3>4
  <2> QED  BY <1>1, <2>1, <2>2, <2>3 DEF CallStep
<1>2. ASSUME NEW f \in Fetches, FetchStep(f)  PROVE  Attempts'
  <2>1. \A g \in Fetches : Started(g)' => Started(g)
    BY <1>2, FetchStepEffect DEF Started
  <2>2. UNCHANGED <<call, clock>>
    BY <1>2, FetchStepEffect
  <2> QED  BY <1>0, <2>1, <2>2 DEF Attempts, MayLook
<1>3. ASSUME OtherStep  PROVE  Attempts'
  <2>1. UNCHANGED <<fetch, call>>
    BY <1>3 DEF OtherStep, Set, Delete, Clear, GetExpired, GetLive, Expire
  <2>2. clock' \in Nat /\ clock' >= clock
    <3>1. clock' = clock \/ clock' = clock + 1
      BY <1>3 DEF OtherStep, Set, Delete, Clear, GetExpired, GetLive, Expire, Invalidate, history
    <3> QED  BY <1>0, <3>1
  <2> QED  BY <1>0, <2>1, <2>2 DEF Attempts, Started, MayLook
<1> QED  BY <1>1, <1>2, <1>3 DEF Next

\* The fetch a caller is about to start has not been started.
LEMMA NextIsNew ==
    ASSUME Types, Attempts, NEW c \in Callers, MayLook(c)
    PROVE  ~Started(<<c, call[c].attempt>>)
<1>1. call[c].attempt \in 0..MaxInvalidations
  BY NextFetch
<1> QED  BY <1>1 DEF Attempts

\* A fetch that is discarded had lost its key.
LEMMA DiscardedLostKey ==
    ASSUME Types, Currents, NEW f \in Fetches, FetchStep(f), fetch'[f].stage \in Discarded
    PROVE  current[KeyOf(f)] # f /\ fetch[f].stage \in InFlight \cup Discarded
<1>1. KeyOf(f) \in Keys /\ f # None
  BY Names
<1>2. /\ fetch[f].stage \in InFlight \cup {"discarding"}
      /\ fetch[f].stage = "discarding" \/ ~StillCurrent(f)
  BY FetchStepEffect
<1> QED  BY <1>1, <1>2 DEF Currents, StillCurrent, Discarded

\* What an invalidation of the keys of S does to fetches and the keys they hold.
Dropped(S) == /\ Invalidate(S)
              /\ UNCHANGED <<fetch, call>>
              /\ \A k \in Keys : current'[k] = IF k \in S THEN None ELSE current[k]
              /\ epoch' = epoch \/ \A k \in Keys : current'[k] = None

\* Steps of no fetch and no call leave both alone; they may invalidate keys.
LEMMA OtherStepEffect ==
    ASSUME Types, OtherStep
    PROVE  \/ UNCHANGED <<current, epoch, fetch, call, clock, invalidated>>
           \/ \E S \in SUBSET Keys : Dropped(S)
<1>1. ASSUME NEW w \in Writes, Set(w)
      PROVE  Dropped({WriteKey[w]}) /\ {WriteKey[w]} \in SUBSET Keys
  BY <1>1, Names DEF Set, Dropped, Types
<1>2. ASSUME NEW k \in Keys, Delete(k)  PROVE  Dropped({k})
  BY <1>2 DEF Delete, Dropped, Types
<1>3. ASSUME Clear  PROVE  Dropped(Keys)
  BY <1>3 DEF Clear, Dropped
<1>4. ASSUME NEW k \in Keys, GetExpired(k) \/ GetLive(k) \/ Expire(k)
      PROVE  UNCHANGED <<current, epoch, fetch, call, clock, invalidated>>
  BY <1>4 DEF GetExpired, GetLive, Expire, history
<1> QED  BY <1>1, <1>2, <1>3, <1>4 DEF OtherStep

\* Every step keeps what callers wait for to what they may be given.
LEMMA WaitsStep == Typed /\ Currents /\ Next => Waits'
<1> SUFFICES ASSUME Typed, Currents, Next  PROVE  Waits'
  OBVIOUS
<1> USE DEF Typed
<1> DEFINE Waiting(d) ==
             /\ call[d].born <= invalidated[CallerKey[d]]
             /\ call[d].at = "awaiting" =>
                  /\ call[d].on \in Fetches
                  /\ Started(call[d].on)
                  /\ KeyOf(call[d].on) = CallerKey[d]
                  /\ fetch[call[d].on].born >= call[d].born
                  /\ current[CallerKey[d]] # call[d].on
                       /\ fetch[call[d].on].stage \in InFlight \cup Discarded
                     => call[d].attempt < clock
<1> SUFFICES ASSUME NEW d \in Callers  PROVE  Waiting(d)'
  BY DEF Waits
<1>0. /\ Waiting(d) /\ CallerKey[d] \in Keys
      /\ call[d].born \in Nat /\ invalidated[CallerKey[d]] \in Nat
      /\ clock \in Nat /\ call[d].attempt \in Nat
  BY Names, CacheAssumption DEF Waits, Types, Call
<1>1. ASSUME NEW c \in Callers, CallStep(c)  PROVE  Waiting(d)'
  <2> DEFINE k == CallerKey[c]
  <2>0. /\ k \in Keys /\ call[c].born \in Nat /\ invalidated[k] \in Nat
        /\ call[c].born <= invalidated[k]
    BY Names DEF Types, Call, Waits
  <2>1. CASE JoinFetch(c)
    <3>1. /\ current[k] \in Fetches /\ current[k] \in Values
          /\ Started(current[k]) /\ KeyOf(current[k]) = k
          /\ fetch[current[k]].born \in Nat /\ fetch[current[k]].born >= invalidated[k]
      BY <2>0, <2>1, Names, FetchFields DEF JoinFetch, Currents, Types
    <3>2. UNCHANGED <<fetch, current, clock, invalidated>>
      BY <2>1 DEF JoinFetch, history
    <3>3. /\ call'[c].on = current[k]
          /\ call'[c].born = IF call[c].at = "idle" THEN invalidated[k] ELSE call[c].born
          /\ \A x \in Callers \ {c} : call'[x] = call[x]
      BY <2>1, <3>1, AwaitEffect DEF JoinFetch
    <3>4. CASE d = c
      BY <2>0, <3>1, <3>2, <3>3, <3>4 DEF Started
    <3>5. CASE d # c
      BY <1>0, <3>2, <3>3, <3>5 DEF Started
    <3> QED  BY <3>4, <3>5
  <2>2. CASE ReturnCached(c)
    <3>1. entry[k].value \in Values /\ Return(c, entry[k].value)
      BY <2>0, <2>2, EntryValue DEF ReturnCached, Live
    <3>2. UNCHANGED <<fetch, current, clock, invalidated>>
      BY <2>2 DEF ReturnCached, history
    <3>3. ~Await(c, entry[k].value)
      BY <3>1, <2>0 DEF Await, Return, Types, Call
    <3>4. /\ call'[c].at = "returned"
          /\ call'[c].born = IF call[c].at = "idle" THEN invalidated[k] ELSE call[c].born
          /\ \A x \in Callers \ {c} : call'[x] = call[x]
      BY <3>1, <3>3, AwaitEffect
    <3>5. CASE d = c
      BY <2>0, <3>2, <3>4, <3>5
    <3>6. CASE d # c
      BY <1>0, <3>2, <3>4, <3>6 DEF Started
    <3> QED  BY <3>5, <3>6
  <2>3. CASE StartFetch(c)
    <3>1. PICK f : f = <<c, call[c].attempt>>
      OBVIOUS
    <3>2. /\ f \in Fetches /\ f \in Values /\ KeyOf(f) = k /\ ~Started(f)
          /\ Await(c, f) /\ current' = [current EXCEPT ![k] = f]
          /\ current[k] = None
      BY <2>3, <3>1, NextFetch, NextIsNew, Names DEF StartFetch
    <3>3. /\ Started(f)' /\ fetch'[f].born = clock
          /\ \A g \in Fetches \ {f} : fetch'[g] = fetch[g]
      BY <2>3, <3>1, StartEffect
    <3>4. /\ call'[c].on = f
          /\ call'[c].born = IF call[c].at = "idle" THEN invalidated[k] ELSE call[c].born
          /\ \A x \in Callers \ {c} : call'[x] = call[x]
      BY <3>2, AwaitEffect
    <3>5. UNCHANGED <<clock, invalidated>>
      BY <2>3 DEF StartFetch, history
    <3>6. CASE d = c
      <4>1. current'[k] = f
        BY <2>0, <3>2 DEF Types
      <4>2. call'[c].born <= invalidated[k] /\ call'[c].born \in Nat /\ call'[c].born <= clock
        BY <2>0, <3>4, <1>0 DEF Clocks
      <4> QED  BY <3>2, <3>3, <3>4, <3>5, <3>6, <4>1, <4>2 DEF Started
    <3>7. CASE d # c
      <4>1. CASE call[d].at # "awaiting"
        BY <1>0, <3>4, <3>5, <3>7, <4>1
      <4>2. CASE call[d].at = "awaiting"
        <5>1. call[d].on \in Fetches \ {f} /\ call'[d] = call[d]
          BY <1>0, <3>2, <3>4, <3>7, <4>2
        <5>2. fetch'[call[d].on] = fetch[call[d].on]
          BY <3>3, <5>1
        <5>3. current'[CallerKey[d]] # call[d].on => current[CallerKey[d]] # call[d].on
          BY <1>0, <3>2, <5>1, Names DEF Types
        <5> QED  BY <1>0, <3>5, <4>2, <5>1, <5>2, <5>3 DEF Started
      <4> QED  BY <4>1, <4>2
    <3> QED  BY <3>6, <3>7
  <2>4. CASE Resume(c)
    <3>1. PICK f \in Fetches : f = call[c].on /\ Started(f) /\ KeyOf(f) = k
      BY <2>4, AwaitsFetch DEF Resume
    <3>2. /\ call'[c].at # "awaiting" /\ call'[c].born = call[c].born
          /\ \A x \in Callers \ {c} : call'[x] = call[x]
          /\ \A x \in Keys :
                current'[x] = IF f[1] = c /\ current[x] = f /\ x = KeyOf(f) THEN None
                              ELSE current[x]
          /\ fetch[f].stage \in Settled
      BY <2>4, <3>1, ResumeEffect
    <3>3. UNCHANGED <<fetch, clock, invalidated>>
      BY <2>4 DEF Resume, history
    <3>4. CASE d = c
      BY <2>0, <3>2, <3>3, <3>4
    <3>5. CASE d # c
      <4>1. CASE call[d].at # "awaiting"
        BY <1>0, <3>2, <3>3, <3>5, <4>1
      <4>2. CASE call[d].at = "awaiting"
        <5>1. /\ current'[CallerKey[d]] # call[d].on
              /\ fetch[call[d].on].stage \in InFlight \cup Discarded
              => current[CallerKey[d]] # call[d].on
          <6>1. SUFFICES ASSUME current'[CallerKey[d]] # call[d].on,
                                fetch[call[d].on].stage \in InFlight \cup Discarded,
                                current[CallerKey[d]] = call[d].on
                         PROVE  FALSE
            OBVIOUS
          <6>2. call[d].on = f /\ CallerKey[d] = k
            BY <1>0, <3>1, <3>2, <6>1
          <6>3. fetch[f].stage = "unstored"
            BY <3>2, <6>1, <6>2 DEF InFlight, Discarded, Settled
          <6> QED  BY <1>0, <6>1, <6>2, <6>3, <3>1, Names DEF Currents, Discarded
        <5> QED  BY <1>0, <3>2, <3>3, <3>5, <4>2, <5>1 DEF Started
      <4> QED  BY <4>1, <4>2
    <3> QED  BY <3>4, <3>5
  <2> QED  BY <1>1, <2>1, <2>2, <2>3, <2>4 DEF CallStep
<1>2. ASSUME NEW f \in Fetches, FetchStep(f)  PROVE  Waiting(d)'
  <2>1. /\ UNCHANGED <<current, call, clock, invalidated>>
        /\ \A g \in Fetches \ {f} : fetch'[g] = fetch[g]
        /\ fetch'[f].born = fetch[f].born /\ Started(f)'
        /\ fetch'[f].stage \in InFlight => fetch[f].stage \in InFlight
    BY <1>2, FetchStepEffect
  <2>2. fetch'[f].stage \in Discarded => fetch[f].stage \in InFlight \cup Discarded
    BY <1>2, DiscardedLostKey
  <2> QED  BY <1>0, <2>1, <2>2 DEF Started
<1>3. ASSUME OtherStep  PROVE  Waiting(d)'
  <2>1. CASE UNCHANGED <<current, epoch, fetch, call, clock, invalidated>>
    BY <1>0, <2>1 DEF Started
  <2>2. ASSUME NEW S \in SUBSET Keys, Dropped(S)  PROVE  Waiting(d)'
    <3>1. clock' = clock + 1 /\ invalidated'[CallerKey[d]] >= invalidated[CallerKey[d]]
          /\ invalidated'[CallerKey[d]] \in Nat
      BY <1>0, <2>2, InvalidateEffect DEF Dropped
    <3>2. call[d].attempt < clock'
      BY <1>0, <3>1 DEF Attempts
    <3>3. UNCHANGED <<fetch, call>>
      BY <2>2 DEF Dropped
    <3> QED  BY <1>0, <3>1, <3>2, <3>3 DEF Started
  <2> QED  BY <1>3, <2>1, <2>2, OtherStepEffect
<1> QED  BY <1>1, <1>2, <1>3 DEF Next

\* Every step keeps the fetches in flight and the keys they hold together.
LEMMA CurrentsStep == Typed /\ Currents /\ Next => Currents'
<1> SUFFICES ASSUME Typed, Currents, Next  PROVE  Currents'
  OBVIOUS
<1> USE DEF Typed
<1> DEFINE Good(k) ==
             current[k] # None =>
                 /\ Started(current[k])
                 /\ KeyOf(current[k]) = k
                 /\ fetch[current[k]].epoch = epoch
                 /\ fetch[current[k]].born >= invalidated[k]
                 /\ fetch[current[k]].stage \notin Discarded
           Placed(f) ==
             Started(f) /\ fetch[f].stage \in InFlight /\ fetch[f].born >= invalidated[KeyOf(f)]
                 => current[KeyOf(f)] = f
<1>0. /\ \A k \in Keys : Good(k) /\ (current[k] # None => current[k] \in Fetches)
      /\ \A f \in Fetches : Placed(f) /\ KeyOf(f) \in Keys /\ f # None
      /\ \A k \in Keys : invalidated[k] \in Nat /\ invalidated[k] <= clock
      /\ clock \in Nat
  BY Names, CacheAssumption DEF Currents, Types, Clocks
<1> SUFFICES (\A k \in Keys : Good(k)') /\ (\A f \in Fetches : Placed(f)')
  BY DEF Currents, KeyOf
<1>1. ASSUME NEW c \in Callers, CallStep(c)
      PROVE  (\A k \in Keys : Good(k)') /\ (\A f \in Fetches : Placed(f)')
  <2>1. CASE JoinFetch(c) \/ ReturnCached(c)
    <3>1. UNCHANGED <<fetch, current, epoch, invalidated>>
      BY <2>1 DEF JoinFetch, ReturnCached, history
    <3> QED  BY <1>0, <3>1 DEF Started, KeyOf
  <2>2. CASE StartFetch(c)
    <3>1. PICK f, k : f = <<c, call[c].attempt>> /\ k = CallerKey[c]
      OBVIOUS
    <3>2. /\ f \in Fetches /\ KeyOf(f) = k /\ k \in Keys /\ ~Started(f) /\ current[k] = None
          /\ current' = [current EXCEPT ![k] = f]
          /\ UNCHANGED <<epoch, clock, invalidated>>
      BY <2>2, <3>1, NextFetch, NextIsNew, Names DEF StartFetch, history
    <3>3. /\ Started(f)' /\ fetch'[f].born = clock /\ fetch'[f].epoch = epoch
          /\ fetch'[f].stage \notin Discarded
          /\ \A g \in Fetches \ {f} : fetch'[g] = fetch[g]
      BY <2>2, <3>1, StartEffect DEF Discarded
    <3>4. \A x \in Keys : current'[x] = IF x = k THEN f ELSE current[x]
      BY <3>2 DEF Types
    <3>5. ASSUME NEW x \in Keys  PROVE  Good(x)'
      <4>1. CASE x = k
        BY <1>0, <3>2, <3>3, <3>4, <4>1 DEF Started
      <4>2. CASE x # k
        <5>1. current'[x] = current[x] /\ (current[x] # None => current[x] # f)
          BY <1>0, <3>2, <3>4, <4>2
        <5> QED  BY <1>0, <3>2, <3>3, <5>1 DEF Started
      <4> QED  BY <4>1, <4>2
    <3>6. ASSUME NEW g \in Fetches  PROVE  Placed(g)'
      <4>1. CASE g = f
        BY <3>2, <3>4, <4>1 DEF KeyOf
      <4>2. CASE g # f
        BY <1>0, <3>2, <3>3, <3>4, <4>2 DEF Started, KeyOf
      <4> QED  BY <4>1, <4>2
    <3> QED  BY <3>5, <3>6
  <2>3. CASE Resume(c)
    <3>1. PICK f \in Fetches : f = call[c].on /\ Started(f) /\ KeyOf(f) = CallerKey[c]
      BY <2>3, AwaitsFetch DEF Resume
    <3>2. /\ \A x \in Keys :
                current'[x] = IF f[1] = c /\ current[x] = f /\ x = KeyOf(f) THEN None
                              ELSE current[x]
          /\ fetch[f].stage \in Settled
      BY <2>3, <3>1, ResumeEffect
    <3>3. UNCHANGED <<fetch, epoch, invalidated>>
      BY <2>3 DEF Resume, history
    <3>4. fetch[f].stage \notin InFlight
      BY <3>2 DEF Settled, InFlight
    <3> QED  BY <1>0, <3>2, <3>3, <3>4 DEF Started, KeyOf
  <2> QED  BY <1>1, <2>1, <2>2, <2>3 DEF CallStep
<1>2. ASSUME NEW f \in Fetches, FetchStep(f)
      PROVE  (\A k \in Keys : Good(k)') /\ (\A g \in Fetches : Placed(g)')
  <2>1. /\ UNCHANGED <<current, epoch, invalidated>>
        /\ Started(f) /\ Started(f)'
        /\ \A g \in Fetches \ {f} : fetch'[g] = fetch[g]
        /\ fetch'[f].born = fetch[f].born /\ fetch'[f].epoch = fetch[f].epoch
        /\ fetch'[f].stage \in InFlight => fetch[f].stage \in InFlight
    BY <1>2, FetchStepEffect
  <2>2. fetch'[f].stage \in Discarded => current[KeyOf(f)] # f
    BY <1>2, DiscardedLostKey
  <2>3. ASSUME NEW k \in Keys  PROVE  Good(k)'
    <3>1. CASE current[k] = f
      BY <1>0, <2>1, <2>2, <3>1 DEF Started
    <3>2. CASE current[k] # f
      BY <1>0, <2>1, <3>2 DEF Started
    <3> QED  BY <3>1, <3>2
  <2>4. ASSUME NEW g \in Fetches  PROVE  Placed(g)'
    BY <1>0, <2>1 DEF Started, KeyOf
  <2> QED  BY <2>3, <2>4
<1>3. ASSUME OtherStep
      PROVE  (\A k \in Keys : Good(k)') /\ (\A f \in Fetches : Placed(f)')
  <2>1. CASE UNCHANGED <<current, epoch, fetch, call, clock, invalidated>>
    BY <1>0, <2>1 DEF Started, KeyOf
  <2>2. ASSUME NEW S \in SUBSET Keys, Dropped(S)
        PROVE  (\A k \in Keys : Good(k)') /\ (\A f \in Fetches : Placed(f)')
    <3>1. /\ UNCHANGED <<fetch, call>>
          /\ \A k \in Keys : current'[k] = IF k \in S THEN None ELSE current[k]
          /\ epoch' = epoch \/ \A k \in Keys : current'[k] = None
          /\ \A k \in Keys : invalidated'[k] = IF k \in S THEN clock + 1 ELSE invalidated[k]
      BY <2>2, InvalidateEffect DEF Dropped
    <3>2. ASSUME NEW k \in Keys  PROVE  Good(k)'
      BY <1>0, <3>1 DEF Started
    <3>3. ASSUME NEW f \in Fetches  PROVE  Placed(f)'
      <4>1. CASE KeyOf(f) \in S
        <5>1. Started(f) => fetch[f].born \in Nat /\ fetch[f].born <= clock
          BY FetchFields DEF Clocks
        <5>2. invalidated'[KeyOf(f)] = clock + 1
          BY <1>0, <3>1, <4>1
        <5> QED  BY <1>0, <3>1, <5>1, <5>2 DEF Started, KeyOf
      <4>2. CASE KeyOf(f) \notin S
        BY <1>0, <3>1, <4>2 DEF Started, KeyOf
      <4> QED  BY <4>1, <4>2
    <3> QED  BY <3>2, <3>3
  <2> QED  BY <1>3, <2>1, <2>2, OtherStepEffect
<1> QED  BY <1>1, <1>2, <1>3 DEF Next

-----------------------------------------------------------------------------
(* What a step may do to an entry, and whom it may give to the hook.       *)

EvictedEntry(k) ==
    /\ entry[k] # None /\ entry'[k] = None
    /\ options.hook => evictions'[entry[k].value] = evictions[entry[k].value] + 1
    /\ \/ clock' > clock
       \/ ~Live(k)
       \/ \E x \in Keys : entry[x] = None /\ entry'[x] # None

\* Gone without the hook.
LostEntry(k) ==
    /\ entry[k] # None /\ entry'[k] = None
    /\ ~options.keepStale
    /\ ~Live(k) \/ \E f \in Fetches : Started(f) /\ fetch[f].replaces # None

StaleEntry(k) ==
    /\ options.expires /\ Live(k)
    /\ entry'[k] = [entry[k] EXCEPT !.fresh = FALSE]

StoredEntry(k, f) ==
    /\ KeyOf(f) = k
    /\ Started(f) /\ fetch[f].stage \in InFlight /\ fetch'[f].stage = "stored"
    /\ entry'[k] = [value |-> f, fresh |-> TRUE]
    /\ \/ current[k] = f
       \/ fetch[f].stage = "replacing"
       \/ fetch[f].force /\ entry[k] = None

SetEntry(k, w) ==
    /\ WriteKey[w] = k
    /\ w \notin written /\ written' = written \cup {w}
    /\ entry'[k] = [value |-> w, fresh |-> TRUE]
    /\ current'[k] = None
    /\ clock' > clock

EntryStep(k) ==
    \/ entry'[k] = entry[k]
    \/ EvictedEntry(k)
    \/ LostEntry(k)
    \/ StaleEntry(k)
    \/ \E f \in Fetches : StoredEntry(k, f)
    \/ \E w \in Writes : SetEntry(k, w)

\* Of a Store's other keys, the victim is evicted and the rest are untouched.
LEMMA StoreOthers ==
    ASSUME Types, Lru, NEW x \in Keys, NEW v \in Values, Store(x, v), UNCHANGED options,
           NEW k \in Keys \ {x}
    PROVE  entry'[k] = entry[k] \/ EvictedEntry(k)
<1>0. LruTypes /\ evictions \in [Values -> Nat]
  BY DEF Types, LruTypes
<1>1. /\ entry'[x] = [value |-> v, fresh |-> TRUE]
      /\ IF k \in Victim(x) THEN entry[k] # None /\ entry'[k] = None /\ entry[x] = None
                            ELSE entry'[k] = entry[k]
      /\ Evict({entry[y].value : y \in Victim(x)})
  BY <1>0, StoreEffect
<1>2. CASE k \in Victim(x)
  <2>1. entry[k] # None /\ entry'[k] = None /\ entry[x] = None
    BY <1>1, <1>2
  <2>2. entry'[x] # None
    <3>1. [value |-> v, fresh |-> TRUE] \in Entry
      BY DEF Entry
    <3> QED  BY <1>1, <3>1, CacheAssumption
  <2>3. entry[k].value \in Values /\ entry[k].value \in {entry[y].value : y \in Victim(x)}
    BY <1>2, <2>1, EntryValue
  <2>4. options.hook => evictions'[entry[k].value] = evictions[entry[k].value] + 1
    BY <1>0, <1>1, <2>3, EvictEffect
  <2> QED  BY <2>1, <2>2, <2>4 DEF EvictedEntry
<1>3. CASE k \notin Victim(x)
  BY <1>1, <1>3
<1> QED  BY <1>2, <1>3

\* Every step does one of the six things of EntryStep to an entry.
LEMMA EntrySteps ==
    ASSUME Typed, Next, NEW k \in Keys
    PROVE  EntryStep(k)
<1> USE DEF Typed
<1>0. evictions \in [Values -> Nat] /\ clock \in Nat /\ LruTypes
  BY CacheAssumption DEF Types, LruTypes
<1>u. ASSUME UNCHANGED entry  PROVE  EntryStep(k)
  BY <1>u DEF EntryStep
<1>e. ASSUME entry[k] # None, entry'[k] = None, Evict({entry[k].value})
      PROVE  options.hook => evictions'[entry[k].value] = evictions[entry[k].value] + 1
  BY <1>0, <1>e, EntryValue, EvictEffect
<1>1. ASSUME NEW c \in Callers, CallStep(c)  PROVE  EntryStep(k)
  <2>1. CASE JoinFetch(c) \/ ReturnCached(c) \/ Resume(c)
    BY <1>u, <2>1 DEF JoinFetch, ReturnCached, Resume, lru
  <2>2. CASE StartFetch(c)
    <3>0. CallerKey[c] \in Keys
      BY Names
    <3>1. CASE entry[CallerKey[c]] # None /\ ~options.keepStale
      <4>1. /\ LruDelete(CallerKey[c]) /\ Evict({entry[CallerKey[c]].value})
            /\ ~Live(CallerKey[c])
        BY <2>2, <3>1 DEF StartFetch
      <4>2. CASE CallerKey[c] = k
        <5>1. entry'[k] = None
          BY <3>0, <4>1, <4>2 DEF LruDelete, Types
        <5> QED  BY <1>e, <3>1, <4>1, <4>2, <5>1 DEF EntryStep, EvictedEntry
      <4>3. CASE CallerKey[c] # k
        <5>1. entry'[k] = entry[k]
          BY <3>0, <4>1, <4>3 DEF LruDelete, Types
        <5> QED  BY <5>1 DEF EntryStep
      <4> QED  BY <4>2, <4>3
    <3>2. CASE ~(entry[CallerKey[c]] # None /\ ~options.keepStale)
      <4>1. UNCHANGED entry
        BY <2>2, <3>2 DEF StartFetch, lru
      <4> QED  BY <1>u, <4>1
    <3> QED  BY <3>1, <3>2
  <2> QED  BY <1>1, <2>1, <2>2 DEF CallStep
<1>2. ASSUME NEW f \in Fetches, FetchStep(f)  PROVE  EntryStep(k)
  <2>0. KeyOf(f) \in Keys /\ f \in Values /\ options' = options
    BY <1>2, Names DEF FetchStep
  <2>1. ASSUME Store(KeyOf(f), f), Started(f), fetch[f].stage \in InFlight, Move(f, "stored"),
               \/ current[KeyOf(f)] = f
               \/ fetch[f].stage = "replacing"
               \/ fetch[f].force /\ entry[KeyOf(f)] = None
        PROVE  EntryStep(k)
    <3>1. CASE KeyOf(f) = k
      <4>1. entry'[k] = [value |-> f, fresh |-> TRUE]
        BY <1>0, <2>0, <2>1, <3>1, StoreEffect
      <4>2. fetch'[f].stage = "stored"
        BY <2>1, MoveEffect DEF Settled
      <4> QED  BY <2>1, <3>1, <4>1, <4>2 DEF EntryStep, StoredEntry
    <3>2. CASE KeyOf(f) # k
      BY <2>0, <2>1, <3>2, StoreOthers DEF EntryStep
    <3> QED  BY <3>1, <3>2
  <2>2. CASE ExpiredEvicted(f) \/ FetchDiscarded(f) \/ DiscardEvicted(f)
    BY <1>u, <2>2 DEF ExpiredEvicted, FetchDiscarded, DiscardEvicted, lru
  <2>3. CASE FetchCurrent(f)
    <3>1. /\ Started(f) /\ fetch[f].stage \in InFlight /\ current[KeyOf(f)] = f
          /\ UNCHANGED lru \/ (Move(f, "stored") /\ Store(KeyOf(f), f))
      BY <2>3 DEF FetchCurrent, In, Started, InFlight, StillCurrent
    <3> QED  BY <1>u, <2>1, <3>1 DEF lru
  <2>4. CASE ReplacedEvicted(f) \/ FetchForced(f)
    BY <2>1, <2>4 DEF ReplacedEvicted, FetchForced, In, Started, InFlight
  <2>5. CASE FetchFails(f)
    <3>1. CASE fetch[f].replaces # None /\ ~options.keepStale
      <4>1. LruDelete(KeyOf(f)) /\ Started(f)
        BY <2>5, <3>1 DEF FetchFails, In, Started
      <4>2. entry'[k] = IF k = KeyOf(f) THEN None ELSE entry[k]
        BY <2>0, <4>1 DEF LruDelete, Types
      <4> QED  BY <3>1, <4>1, <4>2 DEF EntryStep, LostEntry
    <3>2. CASE ~(fetch[f].replaces # None /\ ~options.keepStale)
      <4>1. UNCHANGED entry
        BY <2>5, <3>2 DEF FetchFails, lru
      <4> QED  BY <1>u, <4>1
    <3> QED  BY <3>1, <3>2
  <2> QED  BY <1>2, <2>2, <2>3, <2>4, <2>5 DEF FetchStep
<1>3. ASSUME OtherStep  PROVE  EntryStep(k)
  <2>0. options' = options
    BY <1>3 DEF OtherStep
  <2>1. ASSUME NEW w \in Writes, Set(w)  PROVE  EntryStep(k)
    <3>1. /\ WriteKey[w] \in Keys /\ w \in Values /\ Store(WriteKey[w], w)
          /\ w \notin written /\ written' = written \cup {w} /\ clock' > clock
          /\ current' = [current EXCEPT ![WriteKey[w]] = None]
      BY <1>0, <2>1, Names DEF Set, Invalidate
    <3>2. CASE WriteKey[w] = k
      <4>1. entry'[k] = [value |-> w, fresh |-> TRUE]
        BY <1>0, <3>1, <3>2, StoreEffect
      <4>2. current'[k] = None
        BY <3>1, <3>2 DEF Types
      <4> QED  BY <3>1, <3>2, <4>1, <4>2 DEF EntryStep, SetEntry
    <3>3. CASE WriteKey[w] # k
      BY <2>0, <3>1, <3>3, StoreOthers DEF EntryStep
    <3> QED  BY <3>2, <3>3
  <2>2. ASSUME NEW x \in Keys, Delete(x)  PROVE  EntryStep(k)
    <3>1. CASE entry[x] = None
      BY <1>u, <2>2, <3>1 DEF Delete, lru
    <3>2. CASE entry[x] # None
      <4>1. LruDelete(x) /\ Evict({entry[x].value}) /\ clock' > clock
        BY <1>0, <2>2, <3>2 DEF Delete, Invalidate
      <4>2. entry'[k] = IF k = x THEN None ELSE entry[k]
        BY <4>1 DEF LruDelete, Types
      <4>3. CASE k = x
        BY <1>e, <3>2, <4>1, <4>2, <4>3 DEF EntryStep, EvictedEntry
      <4>4. CASE k # x
        BY <4>2, <4>4 DEF EntryStep
      <4> QED  BY <4>3, <4>4
    <3> QED  BY <3>1, <3>2
  <2>3. ASSUME NEW x \in Keys, GetExpired(x)  PROVE  EntryStep(k)
    <3>1. entry[x] # None /\ ~Live(x) /\ ~options.keepStale /\ LruDelete(x)
      BY <2>3 DEF GetExpired
    <3>2. entry'[k] = IF k = x THEN None ELSE entry[k]
      BY <3>1 DEF LruDelete, Types
    <3> QED  BY <3>1, <3>2 DEF EntryStep, LostEntry
  <2>4. ASSUME NEW x \in Keys, GetLive(x)  PROVE  EntryStep(k)
    BY <1>u, <2>4 DEF GetLive
  <2>5. ASSUME NEW x \in Keys, Expire(x)  PROVE  EntryStep(k)
    <3>1. /\ options.expires /\ Live(x)
          /\ entry' = [entry EXCEPT ![x] = [entry[x] EXCEPT !.fresh = FALSE]]
      BY <2>5, EntryValue DEF Expire, Live
    <3>2. CASE x = k
      BY <3>1, <3>2 DEF Types, EntryStep, StaleEntry
    <3>3. CASE x # k
      BY <3>1, <3>3 DEF Types, EntryStep
    <3> QED  BY <3>2, <3>3
  <2>6. CASE Clear
    <3>1. CASE entry[k] = None
      BY <2>6, <3>1 DEF Clear, EntryStep
    <3>2. CASE entry[k] # None
      <4>1. /\ entry[k].value \in {entry[x].value : x \in {y \in Keys : entry[y] # None}}
            /\ entry[k].value \in Values
        BY <3>2, EntryValue
      <4>2. entry'[k] = None /\ clock' > clock
        BY <1>0, <2>6 DEF Clear, Invalidate
      <4>3. options.hook => evictions'[entry[k].value] = evictions[entry[k].value] + 1
        BY <1>0, <2>6, <4>1, EvictEffect DEF Clear
      <4> QED  BY <3>2, <4>2, <4>3 DEF EntryStep, EvictedEntry
    <3> QED  BY <3>1, <3>2
  <2> QED  BY <1>3, <2>1, <2>2, <2>3, <2>4, <2>5, <2>6 DEF OtherStep
<1> QED  BY <1>1, <1>2, <1>3 DEF Next

\* What a step may do to a fetch that was started.
MovedFetch(f) ==
    /\ Started(f)'
    /\ fetch'[f].born = fetch[f].born /\ fetch'[f].force = fetch[f].force
    /\ fetch'[f].replaces = fetch[f].replaces
    /\ \/ fetch'[f] = fetch[f]
       \/ fetch[f].stage \in {"evicting", "fetching"} /\ fetch'[f].stage \in {"fetching", "failed"}
       \/ /\ fetch[f].stage = "fetching" /\ fetch'[f].stage = "replacing"
          /\ options.keepStale /\ options.hook
          /\ entry[KeyOf(f)] # None /\ entry[KeyOf(f)] = fetch[f].replaces
       \/ fetch[f].stage \in {"fetching", "replacing"} /\ fetch'[f].stage = "stored"
             /\ StoredEntry(KeyOf(f), f)
       \/ /\ fetch[f].stage = "fetching" /\ fetch'[f].stage \in Discarded
          /\ options.hook => evictions'[f] = evictions[f] + 1
       \/ fetch[f].stage = "discarding" /\ fetch'[f].stage = "unstored"

\* A fetch that a step starts.
NewFetch(f) ==
    /\ KeyOf(f) \in Keys
    /\ current[KeyOf(f)] = None /\ current'[KeyOf(f)] = f
    /\ fetch'[f].born = clock
    /\ fetch'[f].replaces = entry[KeyOf(f)]
    /\ fetch'[f].stage \in {"evicting", "fetching"}
    /\ entry[KeyOf(f)] = None => fetch'[f].stage = "fetching"
    /\ ~Live(KeyOf(f))
    /\ entry'[KeyOf(f)] = entry[KeyOf(f)] \/ entry'[KeyOf(f)] = None

\* Every step moves a fetch, starts it, or leaves it.
LEMMA FetchSteps ==
    ASSUME Typed, Next, NEW f \in Fetches
    PROVE  /\ Started(f) => MovedFetch(f)
           /\ ~Started(f) /\ Started(f)' => NewFetch(f)
<1> USE DEF Typed
<1>0. KeyOf(f) \in Keys /\ f \in Values /\ evictions \in [Values -> Nat] /\ LruTypes
  BY Names DEF Types, LruTypes
<1>u. ASSUME fetch'[f] = fetch[f]
      PROVE  (Started(f) => MovedFetch(f)) /\ ~(~Started(f) /\ Started(f)')
  BY <1>u DEF MovedFetch, Started
<1>1. ASSUME NEW c \in Callers, CallStep(c)
      PROVE  /\ Started(f) => MovedFetch(f)
             /\ ~Started(f) /\ Started(f)' => NewFetch(f)
  <2>1. CASE JoinFetch(c) \/ ReturnCached(c) \/ Resume(c)
    <3>1. fetch' = fetch
      BY <2>1 DEF JoinFetch, ReturnCached, Resume
    <3> QED BY <1>u, <3>1
  <2>2. CASE StartFetch(c)
    <3>1. CASE f # <<c, call[c].attempt>>
      <4>1. \A g \in Fetches \ {<<c, call[c].attempt>>} : fetch'[g] = fetch[g]
        BY <2>2, StartLeaves
      <4>2. fetch'[f] = fetch[f]
        BY <3>1, <4>1
      <4> QED  BY <1>u, <4>2
    <3>2. CASE f = <<c, call[c].attempt>>
      <4>1. KeyOf(f) = CallerKey[c] /\ ~Started(f)
        BY <2>2, <3>2, NextFetch, NextIsNew DEF StartFetch
      <4>2. /\ fetch'[f].born = clock
            /\ fetch'[f].replaces = entry[KeyOf(f)]
            /\ fetch'[f].stage \in {"evicting", "fetching"}
            /\ entry[KeyOf(f)] = None => fetch'[f].stage = "fetching"
        BY <2>2, <3>2, <4>1, StartEffect
      <4>3. current[KeyOf(f)] = None /\ current'[KeyOf(f)] = f /\ ~Live(KeyOf(f))
        BY <1>0, <2>2, <3>2, <4>1 DEF StartFetch, Types
      <4>4. entry'[KeyOf(f)] = entry[KeyOf(f)] \/ entry'[KeyOf(f)] = None
        BY <1>0, <2>2, <4>1 DEF StartFetch, LruDelete, lru, Types
      <4> QED  BY <1>0, <4>1, <4>2, <4>3, <4>4 DEF NewFetch
    <3> QED  BY <3>1, <3>2
  <2> QED  BY <1>1, <2>1, <2>2 DEF CallStep
<1>2. ASSUME NEW g \in Fetches, FetchStep(g)
      PROVE  /\ Started(f) => MovedFetch(f)
             /\ ~Started(f) /\ Started(f)' => NewFetch(f)
  <2>1. CASE f # g
    <3>1. fetch'[f] = fetch[f]
      BY <1>2, <2>1, FetchStepEffect
    <3> QED  BY <1>u, <3>1
  <2>2. CASE f = g
    <3>1. /\ Started(f) /\ Started(f)'
          /\ fetch'[f].born = fetch[f].born /\ fetch'[f].force = fetch[f].force
          /\ fetch'[f].replaces = fetch[f].replaces
      BY <1>2, <2>2, FetchStepEffect
    <3>m. ASSUME NEW to \in InFlight \cup Discarded \cup Settled, Move(f, to)
          PROVE  fetch'[f].stage = to
      BY <3>1, <3>m, MoveEffect
    <3>f. \A from : In(f, from) <=> fetch[f].stage = from
      BY <3>1 DEF In, Started
    <3>2. CASE ExpiredEvicted(f)
      BY <3>1, <3>2, <3>m, <3>f DEF ExpiredEvicted, MovedFetch, InFlight
    <3>s. ASSUME Store(KeyOf(f), f), In(f, "fetching") \/ In(f, "replacing"), Move(f, "stored"),
                 \/ current[KeyOf(f)] = f
                 \/ fetch[f].stage = "replacing"
                 \/ fetch[f].force /\ entry[KeyOf(f)] = None
          PROVE  MovedFetch(f)
      <4>1. fetch[f].stage \in {"fetching", "replacing"} /\ fetch'[f].stage = "stored"
        BY <3>s, <3>m, <3>f DEF Settled
      <4>2. entry'[KeyOf(f)] = [value |-> f, fresh |-> TRUE]
        BY <1>0, <3>s, StoreEffect
      <4>3. StoredEntry(KeyOf(f), f)
        BY <3>1, <3>s, <4>1, <4>2 DEF StoredEntry, InFlight
      <4> QED  BY <3>1, <4>1, <4>3 DEF MovedFetch
    <3>3. CASE FetchCurrent(f)
      <4>1. current[KeyOf(f)] = f /\ In(f, "fetching")
        BY <3>3 DEF FetchCurrent, StillCurrent
      <4>2. CASE options.keepStale /\ options.hook /\ entry[KeyOf(f)] # None
                    /\ entry[KeyOf(f)] = fetch[f].replaces
        <5>1. Move(f, "replacing")
          BY <3>3, <4>2 DEF FetchCurrent
        <5>2. fetch[f].stage = "fetching" /\ fetch'[f].stage = "replacing"
          BY <3>m, <3>f, <4>1, <5>1 DEF InFlight
        <5> QED  BY <3>1, <4>2, <5>2 DEF MovedFetch
      <4>3. CASE ~(options.keepStale /\ options.hook /\ entry[KeyOf(f)] # None
                    /\ entry[KeyOf(f)] = fetch[f].replaces)
        <5>1. Move(f, "stored") /\ Store(KeyOf(f), f)
          BY <3>3, <4>3 DEF FetchCurrent
        <5> QED  BY <3>1, <3>s, <4>1, <5>1
      <4> QED  BY <4>2, <4>3
    <3>4. CASE ReplacedEvicted(f) \/ FetchForced(f)
      BY <3>1, <3>s, <3>f, <3>4 DEF ReplacedEvicted, FetchForced, In
    <3>5. CASE FetchDiscarded(f)
      <4>1. Evict({f}) /\ fetch[f].stage = "fetching" /\ fetch'[f].stage \in Discarded
        BY <3>5, <3>m, <3>f DEF FetchDiscarded, Discarded
      <4>2. options.hook => evictions'[f] = evictions[f] + 1
        BY <1>0, <4>1, EvictEffect
      <4> QED  BY <3>1, <4>1, <4>2 DEF MovedFetch
    <3>6. CASE DiscardEvicted(f)
      BY <3>1, <3>6, <3>m, <3>f DEF DiscardEvicted, MovedFetch, Discarded
    <3>7. CASE FetchFails(f)
      BY <3>1, <3>7, <3>m, <3>f DEF FetchFails, MovedFetch, Settled
    <3> QED  BY <1>2, <2>2, <3>1, <3>2, <3>3, <3>4, <3>5, <3>6, <3>7 DEF FetchStep
  <2> QED  BY <2>1, <2>2
<1>3. ASSUME OtherStep
      PROVE  /\ Started(f) => MovedFetch(f)
             /\ ~Started(f) /\ Started(f)' => NewFetch(f)
  BY <1>u, <1>3 DEF OtherStep, Set, Delete, Clear, GetExpired, GetLive, Expire
<1> QED  BY <1>1, <1>2, <1>3 DEF Next

\* Whom a step may give to the hook: what the cache held and drops, a fetch it
\* discards, or what is about to be replaced.
EvictionStep(v) ==
    \/ evictions'[v] = evictions[v]
    \/ /\ evictions'[v] = evictions[v] + 1
       /\ \/ \E k \in Keys : entry[k] # None /\ entry[k].value = v /\ entry'[k] = None
          \/ /\ v \in Fetches /\ Started(v) /\ fetch[v].stage = "fetching"
             /\ fetch'[v].stage \in Discarded
          \/ \E f \in Fetches : Started(f)' /\ fetch'[f].stage = "replacing"

\* Every step gives a value to the hook only for one of the reasons of EvictionStep.
LEMMA EvictionSteps ==
    ASSUME Typed, Next, NEW v \in Values
    PROVE  EvictionStep(v)
<1> USE DEF Typed
<1>0. evictions \in [Values -> Nat] /\ LruTypes
  BY DEF Types, LruTypes
<1>u. ASSUME UNCHANGED evictions  PROVE  EvictionStep(v)
  BY <1>u DEF EvictionStep
<1>e. ASSUME NEW S, Evict(S),
             v \in S => \E k \in Keys : entry[k] # None /\ entry[k].value = v /\ entry'[k] = None
      PROVE  EvictionStep(v)
  BY <1>0, <1>e, EvictEffect DEF EvictionStep
<1>s. ASSUME NEW x \in Keys, NEW u \in Values, Store(x, u)  PROVE  EvictionStep(v)
  <2>1. /\ Evict({entry[y].value : y \in Victim(x)})
        /\ \A y \in Victim(x) : y \in Keys /\ entry[y] # None /\ entry'[y] = None
    BY <1>0, <1>s, StoreEffect
  <2> QED  BY <1>e, <2>1
<1>1. ASSUME NEW c \in Callers, CallStep(c)  PROVE  EvictionStep(v)
  <2>1. CASE JoinFetch(c) \/ ReturnCached(c) \/ Resume(c)
    BY <1>u, <2>1 DEF JoinFetch, ReturnCached, Resume
  <2>2. CASE StartFetch(c)
    <3>1. CASE entry[CallerKey[c]] # None /\ ~options.keepStale
      <4>1. LruDelete(CallerKey[c]) /\ Evict({entry[CallerKey[c]].value}) /\ CallerKey[c] \in Keys
        BY <2>2, <3>1, Names DEF StartFetch
      <4>2. entry'[CallerKey[c]] = None
        BY <4>1 DEF LruDelete, Types
      <4> QED  BY <1>e, <3>1, <4>1, <4>2
    <3>2. CASE ~(entry[CallerKey[c]] # None /\ ~options.keepStale)
      BY <1>u, <2>2, <3>2 DEF StartFetch
    <3> QED  BY <3>1, <3>2
  <2> QED  BY <1>1, <2>1, <2>2 DEF CallStep
<1>2. ASSUME NEW f \in Fetches, FetchStep(f)  PROVE  EvictionStep(v)
  <2>0. KeyOf(f) \in Keys /\ f \in Values
    BY Names
  <2>1. CASE ExpiredEvicted(f) \/ DiscardEvicted(f) \/ FetchFails(f)
    BY <1>u, <2>1 DEF ExpiredEvicted, DiscardEvicted, FetchFails
  <2>2. CASE FetchCurrent(f)
    <3>1. CASE Store(KeyOf(f), f)
      BY <1>s, <2>0, <3>1
    <3>2. CASE ~Store(KeyOf(f), f)
      <4>1. Move(f, "replacing") /\ Evict({entry[KeyOf(f)].value}) /\ Started(f)
        BY <2>2, <3>2 DEF FetchCurrent, In, Started
      <4>2. Started(f)' /\ fetch'[f].stage = "replacing"
        BY <4>1, MoveEffect DEF InFlight
      <4>3. evictions'[v] = evictions[v] \/ evictions'[v] = evictions[v] + 1
        BY <1>0, <4>1, EvictEffect
      <4> QED  BY <4>2, <4>3 DEF EvictionStep
    <3> QED  BY <3>1, <3>2
  <2>3. CASE ReplacedEvicted(f) \/ FetchForced(f)
    BY <1>s, <2>0, <2>3 DEF ReplacedEvicted, FetchForced
  <2>4. CASE FetchDiscarded(f)
    <3>1. Evict({f}) /\ Started(f) /\ fetch[f].stage = "fetching"
      BY <2>4 DEF FetchDiscarded, In, Started
    <3>2. fetch'[f].stage \in Discarded
      BY <2>4, <3>1, MoveEffect DEF FetchDiscarded, Discarded
    <3>3. evictions'[v] = IF v = f /\ options.hook THEN evictions[v] + 1 ELSE evictions[v]
      BY <1>0, <3>1, EvictEffect
    <3> QED  BY <3>1, <3>2, <3>3 DEF EvictionStep
  <2> QED  BY <1>2, <2>1, <2>2, <2>3, <2>4 DEF FetchStep
<1>3. ASSUME OtherStep  PROVE  EvictionStep(v)
  <2>1. ASSUME NEW w \in Writes, Set(w)  PROVE  EvictionStep(v)
    BY <1>s, <2>1, Names DEF Set
  <2>2. ASSUME NEW x \in Keys, Delete(x)  PROVE  EvictionStep(v)
    <3>1. CASE entry[x] = None
      BY <1>u, <2>2, <3>1 DEF Delete
    <3>2. CASE entry[x] # None
      <4>1. LruDelete(x) /\ Evict({entry[x].value})
        BY <2>2, <3>2 DEF Delete
      <4>2. entry'[x] = None
        BY <4>1 DEF LruDelete, Types
      <4> QED  BY <1>e, <3>2, <4>1, <4>2
    <3> QED  BY <3>1, <3>2
  <2>3. ASSUME NEW x \in Keys, GetExpired(x) \/ GetLive(x) \/ Expire(x)  PROVE  EvictionStep(v)
    BY <1>u, <2>3 DEF GetExpired, GetLive, Expire
  <2>4. CASE Clear
    BY <1>e, <2>4 DEF Clear
  <2> QED  BY <1>3, <2>1, <2>2, <2>3, <2>4 DEF OtherStep
<1> QED  BY <1>1, <1>2, <1>3 DEF Next

\* The options are the constructor's.
LEMMA OptionsStay == ASSUME Next  PROVE  options' = options
BY DEF Next, CallStep, FetchStep, OtherStep

\* A call of set() made stays made.
LEMMA WrittenStays == ASSUME Next  PROVE  written \subseteq written'
BY DEF Next, CallStep, FetchStep, OtherStep, JoinFetch, ReturnCached, StartFetch, Resume,
   ExpiredEvicted, FetchCurrent, ReplacedEvicted, FetchForced, FetchDiscarded, DiscardEvicted,
   FetchFails, Set, Delete, Clear, GetExpired, GetLive, Expire

\* An invalidation leaves its key with no fetch to join and no fetched value.
LEMMA InvalidationClears ==
    ASSUME Typed, Next, NEW k \in Keys
    PROVE  \/ invalidated'[k] = invalidated[k]
           \/ entry'[k] = None
           \/ entry'[k].value \in Writes
<1> USE DEF Typed
<1>1. ASSUME NEW c \in Callers, CallStep(c)  PROVE  invalidated' = invalidated
  BY <1>1 DEF CallStep, JoinFetch, ReturnCached, StartFetch, Resume, history
<1>2. ASSUME NEW f \in Fetches, FetchStep(f)  PROVE  invalidated' = invalidated
  BY <1>2, FetchStepEffect
<1>3. ASSUME NEW w \in Writes, Set(w)
      PROVE  invalidated'[k] = invalidated[k] \/ entry'[k].value \in Writes
  <2>1. WriteKey[w] \in Keys /\ w \in Values /\ LruTypes
    BY Names DEF Types, LruTypes
  <2>2. entry'[WriteKey[w]] = [value |-> w, fresh |-> TRUE]
    BY <1>3, <2>1, StoreEffect DEF Set
  <2>3. invalidated'[k] = IF k \in {WriteKey[w]} THEN clock + 1 ELSE invalidated[k]
    BY <1>3, InvalidateEffect DEF Set
  <2> QED  BY <2>2, <2>3
<1>4. ASSUME NEW x \in Keys, Delete(x)
      PROVE  invalidated'[k] = invalidated[k] \/ entry'[k] = None
  <2>1. invalidated'[k] = IF k \in {x} THEN clock + 1 ELSE invalidated[k]
    BY <1>4, InvalidateEffect DEF Delete
  <2>2. entry'[x] = None
    BY <1>4 DEF Delete, LruDelete, lru, Types
  <2> QED  BY <2>1, <2>2
<1>5. ASSUME Clear  PROVE  entry'[k] = None
  BY <1>5 DEF Clear
<1>6. ASSUME NEW x \in Keys, GetExpired(x) \/ GetLive(x) \/ Expire(x)
      PROVE  invalidated' = invalidated
  BY <1>6 DEF GetExpired, GetLive, Expire, history
<1> QED  BY <1>1, <1>2, <1>3, <1>4, <1>5, <1>6 DEF Next, OtherStep

\* A step lets a key's current fetch be, drops it, or starts one where there is none.
LEMMA CurrentSteps ==
    ASSUME Typed, Next, NEW k \in Keys
    PROVE  \/ current'[k] = current[k]
           \/ current'[k] = None
           \/ current'[k] \in Fetches /\ ~Started(current'[k]) /\ current[k] = None
<1> USE DEF Typed
<1>1. ASSUME NEW c \in Callers, StartFetch(c)
      PROVE  \/ current'[k] = current[k]
             \/ current'[k] \in Fetches /\ ~Started(current'[k]) /\ current[k] = None
  <2>1. PICK f : f = <<c, call[c].attempt>>
    OBVIOUS
  <2>2. /\ f \in Fetches /\ ~Started(f)
        /\ current' = [current EXCEPT ![CallerKey[c]] = f] /\ current[CallerKey[c]] = None
    BY <1>1, <2>1, NextFetch, NextIsNew DEF StartFetch
  <2> QED  BY <2>2 DEF Types
<1>2. ASSUME NEW c \in Callers, Resume(c)  PROVE  current'[k] = current[k] \/ current'[k] = None
  BY <1>2, AwaitsFetch, ResumeEffect DEF Resume
<1>3. ASSUME NEW c \in Callers, JoinFetch(c) \/ ReturnCached(c)  PROVE  UNCHANGED current
  BY <1>3 DEF JoinFetch, ReturnCached
<1>4. ASSUME NEW f \in Fetches, FetchStep(f)  PROVE  UNCHANGED current
  BY <1>4, FetchStepEffect
<1>5. ASSUME OtherStep  PROVE  current'[k] = current[k] \/ current'[k] = None
  BY <1>5, OtherStepEffect DEF Dropped
<1> QED  BY <1>1, <1>2, <1>3, <1>4, <1>5 DEF Next, CallStep

-----------------------------------------------------------------------------
(* The rest of the invariant.                                              *)

\* Every step keeps what is held in its place.
LEMMA HeldStep == Typed /\ HeldInPlace /\ Next => HeldInPlace'
<1> DEFINE Held(k, v) ==
             /\ v \in Fetches => Started(v) /\ KeyOf(v) = k /\ fetch[v].stage = "stored"
             /\ v \in Writes => WriteKey[v] = k /\ v \in written
<1> SUFFICES ASSUME Typed, HeldInPlace, Next, NEW k \in Keys, entry'[k] # None,
                    NEW v, v = entry'[k].value
             PROVE  Held(k, v)'
  BY DEF HeldInPlace, KeyOf, Started
<1>0. EntryStep(k)
  BY EntrySteps
<1>1. ASSUME entry[k] # None, v = entry[k].value  PROVE  Held(k, v)'
  <2>1. Held(k, v)
    BY <1>1 DEF HeldInPlace
  <2>2. v \in Fetches => Started(v)' /\ fetch'[v].stage = "stored"
    BY <2>1, FetchSteps DEF MovedFetch
  <2>3. written \subseteq written'
    BY WrittenStays
  <2> QED  BY <2>1, <2>2, <2>3 DEF KeyOf
<1>2. ASSUME NEW f \in Fetches, StoredEntry(k, f)  PROVE  Held(k, v)'
  <2>1. Started(f)'
    BY <1>2, FetchSteps DEF StoredEntry, MovedFetch
  <2>2. v = f /\ KeyOf(f) = k /\ fetch'[f].stage = "stored" /\ f \notin Writes
    BY <1>2, CacheAssumption DEF StoredEntry
  <2> QED  BY <2>1, <2>2 DEF KeyOf
<1>3. ASSUME NEW w \in Writes, SetEntry(k, w)  PROVE  Held(k, v)'
  <2>1. v = w /\ WriteKey[w] = k /\ w \in written' /\ w \notin Fetches
    BY <1>3, CacheAssumption DEF SetEntry
  <2> QED  BY <2>1
<1>4. ASSUME StaleEntry(k)  PROVE  entry[k] # None /\ v = entry[k].value
  <2>1. entry[k] \in Entry
    BY <1>4, EntryValue DEF StaleEntry, Live, Typed
  <2> QED  BY <1>4, <2>1 DEF StaleEntry, Live, Entry
<1>5. ASSUME entry'[k] = entry[k]  PROVE  entry[k] # None /\ v = entry[k].value
  BY <1>5
<1> HIDE DEF Held
<1> QED  BY <1>0, <1>1, <1>2, <1>3, <1>4, <1>5 DEF EntryStep, EvictedEntry, LostEntry

\* No step of a plain cache awaits the hook between the test and the store.
LEMMA NothingReplacesStep ==
    Typed /\ NothingExpires /\ NothingReplaces /\ Next => NothingReplaces'
<1> SUFFICES ASSUME Typed, NothingExpires, NothingReplaces, Next, Plain', NEW f \in Fetches,
                    Started(f)'
             PROVE  fetch'[f].stage # "replacing"
  BY DEF NothingReplaces
<1>0. Plain
  BY OptionsStay DEF Plain, Combined
<1>1. CASE Started(f)
  <2>1. MovedFetch(f) /\ fetch[f].stage # "replacing"
    BY <1>0, <1>1, FetchSteps DEF NothingReplaces
  <2>2. ASSUME options.keepStale, options.hook, entry[KeyOf(f)] # None,
               entry[KeyOf(f)] = fetch[f].replaces
        PROVE  FALSE
    BY <1>0, <1>1, <2>2 DEF Plain, Combined, NothingExpires
  <2> QED  BY <2>1, <2>2 DEF MovedFetch, Discarded
<1>2. CASE ~Started(f)
  BY <1>2, FetchSteps DEF NewFetch
<1> QED  BY <1>1, <1>2

\* Every step of a cache without expiry leaves every entry live.
LEMMA NothingExpiresStep ==
    Typed /\ Currents /\ HeldInPlace /\ NothingExpires /\ NothingReplaces /\ Next
        => NothingExpires'
<1> SUFFICES ASSUME Typed, Currents, HeldInPlace, NothingExpires, NothingReplaces, Next,
                    ~options'.expires
             PROVE  /\ \A k \in Keys : entry'[k] # None => entry'[k].fresh
                    /\ \A f \in Fetches :
                          Started(f)' => /\ fetch'[f].replaces = None
                                         /\ fetch'[f].stage \notin {"evicting", "replacing"}
                    /\ \A k \in Keys :
                          /\ current'[k] # None
                          /\ fetch'[current'[k]].stage \in InFlight
                          /\ entry'[k] # None
                          /\ entry'[k].value \in Fetches
                          => fetch'[entry'[k].value].force
  BY DEF NothingExpires
<1>0. ~options.expires /\ Plain
  BY OptionsStay DEF Plain
<1>1. ASSUME NEW k \in Keys, entry'[k] # None  PROVE  entry'[k].fresh
  <2>1. EntryStep(k)
    BY EntrySteps
  <2>2. entry[k] # None => entry[k].fresh
    BY <1>0 DEF NothingExpires
  <2>3. ASSUME NEW f \in Fetches, StoredEntry(k, f)  PROVE  entry'[k].fresh
    BY <2>3 DEF StoredEntry
  <2>4. ASSUME NEW w \in Writes, SetEntry(k, w)  PROVE  entry'[k].fresh
    BY <2>4 DEF SetEntry
  <2> QED  BY <1>0, <1>1, <2>1, <2>2, <2>3, <2>4
           DEF EntryStep, EvictedEntry, LostEntry, StaleEntry
<1>2. ASSUME NEW f \in Fetches, Started(f)'
      PROVE  fetch'[f].replaces = None /\ fetch'[f].stage \notin {"evicting", "replacing"}
  <2>0. KeyOf(f) \in Keys
    BY Names
  <2>1. CASE Started(f)
    <3>1. /\ MovedFetch(f) /\ fetch[f].replaces = None
          /\ fetch[f].stage \notin {"evicting", "replacing"}
      BY <1>0, <2>1, FetchSteps DEF NothingExpires
    <3> QED  BY <2>0, <3>1 DEF MovedFetch, Discarded
  <2>2. CASE ~Started(f)
    <3>1. NewFetch(f)
      BY <1>2, <2>2, FetchSteps
    <3>2. entry[KeyOf(f)] = None
      BY <1>0, <2>0, <3>1 DEF NewFetch, Live, NothingExpires
    <3> QED  BY <3>1, <3>2 DEF NewFetch
  <2> QED  BY <2>1, <2>2
<1>3. ASSUME NEW k \in Keys, current'[k] # None, fetch'[current'[k]].stage \in InFlight,
             entry'[k] # None, entry'[k].value \in Fetches
      PROVE  fetch'[entry'[k].value].force
  <2>d. PICK g, f : g = current'[k] /\ f = entry'[k].value
    OBVIOUS
  <2>0. g \in Fetches /\ Currents' /\ Started(g)' /\ KeyOf(g) = k
    <3>1. Currents' /\ current' \in [Keys -> Fetches \cup {None}]
      BY CurrentsStep, TypesStep DEF Types
    <3>2. Started(g)' /\ KeyOf(g) = k
      BY <1>3, <2>d, <3>1 DEF Currents, KeyOf, Started
    <3> QED  BY <1>3, <2>d, <3>1, <3>2
  <2>1. EntryStep(k)
    BY EntrySteps
  <2>2. CASE entry'[k] = entry[k]
    <3>1. f \in Fetches /\ Started(f) /\ f = entry[k].value
      BY <1>3, <2>d, <2>2 DEF HeldInPlace
    <3>2. CASE Started(g)
      <4>1. fetch[g].stage \in InFlight /\ fetch'[g].born = fetch[g].born
        <5>1. MovedFetch(g)
          BY <2>0, <3>2, FetchSteps
        <5> QED  BY <1>3, <2>d, <5>1 DEF MovedFetch, Discarded, InFlight
      <4>2. current[k] = g
        BY <1>3, <3>2, CurrentSteps, <2>d
      <4> QED  BY <1>0, <1>3, <2>d, <2>2, <3>1, <4>1, <4>2, FetchSteps
               DEF NothingExpires, MovedFetch
    <3>3. CASE ~Started(g)
      <4>1. NewFetch(g)
        BY <2>0, <3>3, FetchSteps
      <4> QED  BY <1>0, <1>3, <2>d, <2>0, <2>2, <4>1 DEF NewFetch, Live, NothingExpires
    <3> QED  BY <3>2, <3>3
  <2>3. ASSUME NEW h \in Fetches, StoredEntry(k, h)  PROVE  fetch'[f].force
    <3>1. f = h /\ Started(h) /\ fetch'[h].force = fetch[h].force /\ fetch'[h].stage = "stored"
      BY <2>d, <2>3, FetchSteps DEF StoredEntry, MovedFetch
    <3>2. fetch[h].stage # "replacing"
      BY <1>0, <3>1 DEF NothingReplaces
    <3>3. CASE current[k] = h
      <4>1. g = h \/ g = None
        BY <3>1, <3>3, CurrentSteps, Names, <2>d
      <4> QED  BY <1>3, <2>d, <3>1, <4>1 DEF InFlight
    <3> QED  BY <2>3, <3>1, <3>2, <3>3 DEF StoredEntry
  <2>4. ASSUME NEW w \in Writes, SetEntry(k, w)  PROVE  FALSE
    BY <1>3, <2>4 DEF SetEntry
  <2>5. ASSUME StaleEntry(k)  PROVE  FALSE
    BY <1>0, <2>5 DEF StaleEntry
  <2> QED  BY <1>3, <2>d, <2>1, <2>2, <2>3, <2>4, <2>5 DEF EntryStep, EvictedEntry, LostEntry
<1> QED  BY <1>1, <1>2, <1>3

\* Every step of a plain cache keeps what is held and returned fresh enough.
LEMMA FreshStep ==
    Typed /\ Currents /\ HeldInPlace /\ NothingReplaces /\ FreshEnough /\ Next => FreshEnough'
<1> SUFFICES ASSUME Typed, Currents, HeldInPlace, NothingReplaces, FreshEnough, Next, Plain'
             PROVE  /\ \A k \in Keys :
                          entry'[k] # None /\ entry'[k].value \in Fetches =>
                              \/ fetch'[entry'[k].value].born >= invalidated'[k]
                              \/ fetch'[entry'[k].value].force
                    /\ \A c \in Callers :
                          call'[c].at = "returned" /\ call'[c].on \in Fetches =>
                              /\ fetch'[call'[c].on] # None
                              /\ fetch'[call'[c].on].stage = "stored"
                              /\ \/ fetch'[call'[c].on].born >= call'[c].born
                                 \/ fetch'[call'[c].on].force
  BY DEF FreshEnough, Started
<1>0. Plain
  BY OptionsStay DEF Plain, Combined
<1>1. ASSUME NEW k \in Keys, NEW f \in Fetches, entry'[k] # None, f = entry'[k].value
      PROVE  fetch'[f].born >= invalidated'[k] \/ fetch'[f].force
  <2>1. EntryStep(k) /\ f \notin Writes
    BY EntrySteps, CacheAssumption
  <2>2. invalidated'[k] = invalidated[k]
    BY <1>1, <2>1, InvalidationClears
  <2>3. ASSUME entry[k] # None, f = entry[k].value
        PROVE  fetch'[f].born >= invalidated'[k] \/ fetch'[f].force
    <3>1. fetch[f].born >= invalidated[k] \/ fetch[f].force
      BY <1>0, <2>3 DEF FreshEnough
    <3>2. Started(f)
      BY <2>3 DEF HeldInPlace
    <3> QED  BY <2>2, <3>1, <3>2, FetchSteps DEF MovedFetch
  <2>4. ASSUME NEW g \in Fetches, StoredEntry(k, g)
        PROVE  fetch'[f].born >= invalidated'[k] \/ fetch'[f].force
    <3>1. f = g /\ Started(f)
      BY <1>1, <2>4 DEF StoredEntry
    <3>2. fetch[f].stage # "replacing"
      BY <1>0, <3>1 DEF NothingReplaces
    <3>3. fetch[f].born >= invalidated[k] \/ fetch[f].force
      BY <2>4, <3>1, <3>2, Names DEF StoredEntry, Currents
    <3> QED  BY <2>2, <3>1, <3>3, FetchSteps DEF MovedFetch
  <2>5. ASSUME NEW w \in Writes, SetEntry(k, w)  PROVE  FALSE
    BY <1>1, <2>1, <2>5 DEF SetEntry
  <2>6. ASSUME StaleEntry(k)  PROVE  entry[k] # None /\ f = entry[k].value
    <3>1. entry[k] \in Entry /\ entry[k] # None
      BY <2>6, EntryValue DEF StaleEntry, Live, Typed
    <3> QED  BY <1>1, <2>6, <3>1 DEF StaleEntry, Entry
  <2> QED  BY <1>1, <2>1, <2>3, <2>4, <2>5, <2>6 DEF EntryStep, EvictedEntry, LostEntry
<1>2. ASSUME NEW c \in Callers, NEW f \in Fetches, call'[c].at = "returned", call'[c].on = f
      PROVE  Started(f)' /\ fetch'[f].stage = "stored"
             /\ (fetch'[f].born >= call'[c].born \/ fetch'[f].force)
  <2>1. ASSUME call'[c] = call[c]
        PROVE  Started(f)' /\ fetch'[f].stage = "stored"
               /\ (fetch'[f].born >= call'[c].born \/ fetch'[f].force)
    <3>1. /\ Started(f) /\ fetch[f].stage = "stored"
          /\ fetch[f].born >= call[c].born \/ fetch[f].force
      BY <1>0, <1>2, <2>1 DEF FreshEnough
    <3> QED  BY <2>1, <3>1, FetchSteps DEF MovedFetch
  <2>2. ASSUME UNCHANGED fetch, Started(f), fetch[f].stage = "stored",
               fetch[f].born >= call'[c].born \/ fetch[f].force
        PROVE  Started(f)' /\ fetch'[f].stage = "stored"
               /\ (fetch'[f].born >= call'[c].born \/ fetch'[f].force)
    BY <2>2 DEF Started
  <2>3. ASSUME NEW d \in Callers, CallStep(d)
        PROVE  Started(f)' /\ fetch'[f].stage = "stored"
               /\ (fetch'[f].born >= call'[c].born \/ fetch'[f].force)
    <3>0. CallerKey[d] \in Keys /\ Types
      BY Names DEF Typed
    <3>1. CASE JoinFetch(d)
      <4>1. current[CallerKey[d]] \in Values /\ Await(d, current[CallerKey[d]])
        BY <3>0, <3>1, Names DEF JoinFetch, Types
      <4>2. call'[d].at = "awaiting" /\ \A x \in Callers \ {d} : call'[x] = call[x]
        BY <3>0, <4>1, AwaitEffect
      <4> QED  BY <1>2, <2>1, <4>2
    <3>2. CASE StartFetch(d)
      <4>1. PICK g : g = <<d, call[d].attempt>>
        OBVIOUS
      <4>2. g \in Values /\ Await(d, g)
        BY <3>0, <3>2, <4>1, NextFetch, Names DEF StartFetch, Typed
      <4>3. call'[d].at = "awaiting" /\ \A x \in Callers \ {d} : call'[x] = call[x]
        BY <3>0, <4>2, AwaitEffect
      <4> QED  BY <1>2, <2>1, <4>3
    <3>3. CASE ReturnCached(d)
      <4> DEFINE k == CallerKey[d]
      <4>1. entry[k] # None /\ entry[k].value \in Values /\ Return(d, entry[k].value)
        BY <3>0, <3>3, EntryValue DEF ReturnCached, Live
      <4>2. /\ call'[d].on = entry[k].value
            /\ call'[d].born = IF call[d].at = "idle" THEN invalidated[k] ELSE call[d].born
            /\ \A x \in Callers \ {d} : call'[x] = call[x]
        BY <3>0, <4>1, AwaitEffect
      <4>3. CASE c = d
        <5>1. f = entry[k].value /\ Started(f) /\ fetch[f].stage = "stored"
          BY <1>2, <3>0, <4>1, <4>2, <4>3 DEF HeldInPlace
        <5>2. fetch[f].born >= invalidated[k] \/ fetch[f].force
          BY <1>0, <3>0, <4>1, <5>1 DEF FreshEnough
        <5>3. call'[c].born \in Nat /\ call'[c].born <= invalidated[k] /\ invalidated[k] \in Nat
          BY <3>0, <4>2, <4>3 DEF Types, Call, Typed, Waits
        <5>4. fetch[f].born \in Nat
          BY <3>0, <5>1, FetchFields
        <5>5. UNCHANGED fetch
          BY <3>3 DEF ReturnCached
        <5> QED  BY <2>2, <5>1, <5>2, <5>3, <5>4, <5>5
      <4>4. CASE c # d
        BY <2>1, <4>2, <4>4
      <4> QED  BY <4>3, <4>4
    <3>4. CASE Resume(d)
      <4>1. /\ call[d].on \in Fetches /\ Started(call[d].on)
            /\ fetch[call[d].on].born >= call[d].born
        BY <3>0, <3>4, AwaitsFetch DEF Resume, Typed
      <4>2. /\ call'[d].at = "returned" => fetch[call[d].on].stage = "stored"
            /\ call'[d].at = "returned" => call'[d].on = call[d].on
            /\ call'[d].born = call[d].born
            /\ \A x \in Callers \ {d} : call'[x] = call[x]
            /\ UNCHANGED fetch
        <5>0. UNCHANGED fetch
          BY <3>4 DEF Resume
        <5>1. /\ call'[d].at = IF fetch[call[d].on].stage = "stored" THEN "returned"
                                 ELSE IF fetch[call[d].on].stage = "failed" THEN "threw"
                                 ELSE "looking"
              /\ call'[d].on = IF fetch[call[d].on].stage \in {"stored", "failed"}
                               THEN call[d].on ELSE None
              /\ call'[d].born = call[d].born
              /\ \A x \in Callers \ {d} : call'[x] = call[x]
          BY <3>0, <3>4, <4>1, ResumeEffect
        <5>2. CASE fetch[call[d].on].stage = "stored"
          BY <5>0, <5>1, <5>2
        <5>3. CASE fetch[call[d].on].stage # "stored"
          BY <5>0, <5>1, <5>3
        <5> QED  BY <5>2, <5>3
      <4> QED  BY <1>2, <2>1, <2>2, <4>1, <4>2
    <3> QED  BY <2>3, <3>1, <3>2, <3>3, <3>4 DEF CallStep
  <2>4. ASSUME NEW g \in Fetches, FetchStep(g)  PROVE  call'[c] = call[c]
    BY <2>4, FetchStepEffect DEF Typed
  <2>5. ASSUME OtherStep  PROVE  call'[c] = call[c]
    BY <2>5 DEF OtherStep, Set, Delete, Clear, GetExpired, GetLive, Expire
  <2> QED  BY <2>1, <2>3, <2>4, <2>5 DEF Next
<1> QED  BY <1>1, <1>2 DEF Started

\* Every step of a plain cache gives the hook only values after their last use.
LEMMA EvictedStep ==
    Typed /\ HeldInPlace /\ NothingReplaces /\ EvictedAfterUse /\ NothingReplaces' /\ Next
        => EvictedAfterUse'
<1> SUFFICES ASSUME Typed, HeldInPlace, NothingReplaces, EvictedAfterUse, NothingReplaces',
                    Next, Plain'
             PROVE  /\ \A v \in Values : evictions'[v] <= 1
                    /\ \A k \in Keys : entry'[k] # None => evictions'[entry'[k].value] = 0
                    /\ \A f \in Fetches :
                          evictions'[f] # 0 =>
                              Started(f)' /\ fetch'[f].stage \in {"stored"} \cup Discarded
                    /\ \A w \in Writes : evictions'[w] # 0 => w \in written'
  BY DEF EvictedAfterUse, Started
<1>0. /\ Plain
      /\ \A v \in Values : evictions[v] \in Nat /\ evictions[v] <= 1
      /\ \A k \in Keys : entry[k] # None => evictions[entry[k].value] = 0
      /\ \A f \in Fetches :
            evictions[f] # 0 => Started(f) /\ fetch[f].stage \in {"stored"} \cup Discarded
      /\ \A w \in Writes : evictions[w] # 0 => w \in written
  BY OptionsStay DEF Plain, Combined, EvictedAfterUse, Typed, Types
<1> DEFINE HeldBefore(v) ==
             \E k \in Keys : entry[k] # None /\ entry[k].value = v /\ entry'[k] = None
           DiscardedNow(v) == /\ v \in Fetches /\ Started(v) /\ fetch[v].stage = "fetching"
                              /\ fetch'[v].stage \in Discarded
<1>1. ASSUME NEW v \in Values
      PROVE  \/ evictions'[v] = evictions[v]
             \/ /\ evictions'[v] = evictions[v] + 1
                /\ evictions[v] = 0
                /\ HeldBefore(v) \/ DiscardedNow(v)
  <2>1. EvictionStep(v)
    BY EvictionSteps
  <2>2. \A f \in Fetches : ~(Started(f)' /\ fetch'[f].stage = "replacing")
    BY DEF NothingReplaces
  <2>3. HeldBefore(v) => evictions[v] = 0
    BY <1>0
  <2>4. DiscardedNow(v) => evictions[v] = 0
    BY <1>0 DEF Discarded
  <2> QED  BY <2>1, <2>2, <2>3, <2>4 DEF EvictionStep
<1>2. ASSUME NEW v \in Values  PROVE  evictions'[v] <= 1
  BY <1>0, <1>1
<1>3. ASSUME NEW k \in Keys, entry'[k] # None, NEW v, v = entry'[k].value
      PROVE  evictions'[v] = 0
  <2>1. EntryStep(k)
    BY EntrySteps
  <2>2. ASSUME entry[k] # None, v = entry[k].value  PROVE  evictions'[v] = 0
    <3>1. v \in Values /\ evictions[v] = 0
      BY <1>0, <2>2, EntryValue DEF Typed
    <3>2. ASSUME HeldBefore(v)  PROVE  FALSE
      <4>1. PICK x \in Keys : entry[x] # None /\ entry[x].value = v /\ entry'[x] = None
        BY <3>2
      <4>2. x = k
        BY <2>2, <3>1, <4>1 DEF HeldInPlace, Values
      <4> QED  BY <1>3, <4>1, <4>2
    <3>3. ASSUME DiscardedNow(v)  PROVE  FALSE
      BY <2>2, <3>3 DEF HeldInPlace
    <3> QED  BY <1>1, <3>1, <3>2, <3>3
  <2>3. ASSUME NEW f \in Fetches, StoredEntry(k, f)  PROVE  evictions'[v] = 0
    <3>1. v = f /\ f \in Values /\ fetch[f].stage \in InFlight /\ fetch'[f].stage = "stored"
      BY <1>3, <2>3, Names DEF StoredEntry
    <3>2. evictions[f] = 0
      BY <1>0, <3>1 DEF InFlight, Discarded
    <3>3. ASSUME HeldBefore(f)  PROVE  FALSE
      BY <3>1, <3>3 DEF HeldInPlace, InFlight
    <3>4. ~DiscardedNow(f)
      BY <3>1 DEF Discarded
    <3> QED  BY <1>1, <3>1, <3>2, <3>3, <3>4
  <2>4. ASSUME NEW w \in Writes, SetEntry(k, w)  PROVE  evictions'[v] = 0
    <3>1. v = w /\ w \in Values /\ w \notin written /\ w \notin Fetches
      BY <1>3, <2>4, Names DEF SetEntry
    <3>2. evictions[w] = 0
      BY <1>0, <3>1
    <3>3. ASSUME HeldBefore(w)  PROVE  FALSE
      BY <3>1, <3>3 DEF HeldInPlace
    <3> QED  BY <1>1, <3>1, <3>2, <3>3
  <2>5. ASSUME StaleEntry(k)  PROVE  entry[k] # None /\ v = entry[k].value
    <3>1. entry[k] \in Entry /\ entry[k] # None
      BY <2>5, EntryValue DEF StaleEntry, Live, Typed
    <3> QED  BY <1>3, <2>5, <3>1 DEF StaleEntry, Entry
  <2> QED  BY <1>3, <2>1, <2>2, <2>3, <2>4, <2>5 DEF EntryStep, EvictedEntry, LostEntry
<1>4. ASSUME NEW f \in Fetches, evictions'[f] # 0
      PROVE  Started(f)' /\ fetch'[f].stage \in {"stored"} \cup Discarded
  <2>1. Started(f) /\ (fetch[f].stage \in {"stored"} \cup Discarded \/ DiscardedNow(f))
    <3>1. CASE evictions[f] # 0
      BY <1>0, <3>1
    <3>2. CASE evictions[f] = 0
      <4>1. HeldBefore(f) \/ DiscardedNow(f)
        BY <1>1, <1>4, <3>2, Names
      <4>2. HeldBefore(f) => Started(f) /\ fetch[f].stage = "stored"
        BY DEF HeldInPlace
      <4> QED  BY <4>1, <4>2
    <3> QED  BY <3>1, <3>2
  <2>2. MovedFetch(f)
    BY <2>1, FetchSteps
  <2> QED  BY <2>1, <2>2 DEF MovedFetch, Discarded
<1>5. ASSUME NEW w \in Writes, evictions'[w] # 0  PROVE  w \in written'
  <2>1. written \subseteq written' /\ w \in Values /\ w \notin Fetches
    BY WrittenStays, Names
  <2>2. HeldBefore(w) => w \in written
    BY DEF HeldInPlace
  <2> QED  BY <1>0, <1>1, <1>5, <2>1, <2>2
<1> QED  BY <1>2, <1>3, <1>4, <1>5

\* Every step keeps a set() beyond the reach of the key's current fetch.
LEMMA SetsAreSafeStep ==
    Typed /\ Currents /\ HeldInPlace /\ SetsAreSafe /\ Next => SetsAreSafe'
<1> SUFFICES ASSUME Typed, Currents, HeldInPlace, SetsAreSafe, Next,
                    options'.keepStale, ~Combined', NEW k \in Keys,
                    NEW g, g = current'[k], g # None, fetch'[g].stage \in InFlight,
                    entry'[k] # None, entry'[k].fresh, entry'[k].value \in Writes
             PROVE  FALSE
  BY DEF SetsAreSafe, Live
<1>0. options.keepStale /\ ~Combined
  BY OptionsStay DEF Combined
<1>1. EntryStep(k)
  BY EntrySteps
<1>2. entry'[k] = entry[k] /\ Live(k) /\ entry[k].value \in Writes
  <2>1. ASSUME NEW f \in Fetches, StoredEntry(k, f)  PROVE  FALSE
    BY <2>1, CacheAssumption DEF StoredEntry
  <2>2. ASSUME NEW w \in Writes, SetEntry(k, w)  PROVE  FALSE
    BY <2>2 DEF SetEntry
  <2>3. ASSUME StaleEntry(k)  PROVE  FALSE
    <3>1. entry[k] \in Entry
      BY <2>3, EntryValue DEF StaleEntry, Live, Typed
    <3> QED  BY <2>3, <3>1 DEF StaleEntry, Entry
  <2> QED  BY <1>1, <2>1, <2>2, <2>3 DEF EntryStep, EvictedEntry, LostEntry, Live
<1>3. CASE current'[k] = current[k]
  <2>1. g \in Fetches /\ Started(g)
    BY <1>3 DEF Currents, Typed, Types
  <2>2. fetch[g].stage \in InFlight
    BY <2>1, FetchSteps DEF MovedFetch, InFlight, Discarded
  <2> QED  BY <1>0, <1>2, <1>3, <2>2 DEF SetsAreSafe
<1>4. CASE g \in Fetches /\ ~Started(g)
  <2>1. Currents' /\ Started(g)' /\ KeyOf(g) = k
    <3>1. Currents'
      BY CurrentsStep
    <3> QED  BY <3>1 DEF Currents, Started, KeyOf
  <2>2. NewFetch(g)
    BY <1>4, <2>1, FetchSteps
  <2> QED  BY <1>2, <2>1, <2>2 DEF NewFetch
<1> QED  BY <1>3, <1>4, CurrentSteps

\* Every step keeps each fetched value in the cache or counts it with the hook.
LEMMA NoLeakStep ==
    /\ Typed /\ Currents /\ HeldInPlace /\ NothingExpires /\ NothingReplaces
    /\ EvictedAfterUse /\ NoLeak /\ EvictedAfterUse' /\ Next
    => NoLeak'
<1> SUFFICES ASSUME Typed, Currents, HeldInPlace, NothingExpires, NothingReplaces,
                    EvictedAfterUse, NoLeak, EvictedAfterUse', Next,
                    options'.hook, ~options'.expires, NEW f \in Fetches,
                    Started(f)', \A w \in written' : WriteKey[w] # KeyOf(f),
                    fetch'[f].stage \in {"stored"} \cup Discarded, ~fetch'[f].force
             PROVE  evictions'[f] = 1 \/ (entry'[KeyOf(f)] # None /\ entry'[KeyOf(f)].value = f)
  BY DEF NoLeak, Holds, KeyOf, Started
<1> DEFINE k == KeyOf(f)
<1>0. /\ options.hook /\ ~options.expires /\ Plain
      /\ k \in Keys /\ f \in Values /\ written \subseteq written'
  BY OptionsStay, WrittenStays, Names DEF Plain
<1>1. /\ evictions[f] \in Nat /\ evictions[f] <= 1
      /\ evictions'[f] \in Nat /\ evictions'[f] <= 1
      /\ evictions'[f] = evictions[f] \/ evictions'[f] = evictions[f] + 1
  <2>1. evictions' \in [Values -> Nat] /\ evictions \in [Values -> Nat]
    BY TypesStep DEF Types, Typed
  <2>2. Plain'
    BY <1>0, OptionsStay DEF Plain
  <2>3. evictions[f] <= 1 /\ evictions'[f] <= 1
    BY <1>0, <2>2 DEF EvictedAfterUse
  <2>4. EvictionStep(f)
    BY <1>0, EvictionSteps
  <2> QED  BY <1>0, <2>1, <2>3, <2>4 DEF EvictionStep
<1>2. Started(f)
  <2>1. ~Started(f) => NewFetch(f)
    BY FetchSteps
  <2> QED  BY <2>1 DEF NewFetch, Discarded
<1>3. MovedFetch(f) /\ ~fetch[f].force
  BY <1>2, FetchSteps DEF MovedFetch
<1>4. ASSUME fetch[f].stage \in {"stored"} \cup Discarded
      PROVE  evictions[f] = 1 \/ (entry[k] # None /\ entry[k].value = f)
  <2>1. \A w \in written : WriteKey[w] # KeyOf(f)
    BY <1>0
  <2> QED  BY <1>0, <1>2, <1>3, <1>4, <2>1 DEF NoLeak, Holds, Started
<1>5. ASSUME entry[k] # None, entry[k].value = f, fetch[f].stage = "stored"
      PROVE  evictions'[f] = 1 \/ (entry'[k] # None /\ entry'[k].value = f)
  <2>1. EntryStep(k)
    BY <1>0, EntrySteps
  <2>2. ASSUME EvictedEntry(k)  PROVE  evictions'[f] = 1
    <3>1. evictions[f] = 0
      BY <1>0, <1>5 DEF EvictedAfterUse
    <3> QED  BY <1>0, <1>5, <2>2, <3>1 DEF EvictedEntry
  <2>3. ASSUME LostEntry(k)  PROVE  FALSE
    BY <1>0, <1>5, <2>3 DEF LostEntry, NothingExpires, Live
  <2>4. ASSUME StaleEntry(k)  PROVE  FALSE
    BY <1>0, <2>4 DEF StaleEntry
  <2>5. ASSUME NEW g \in Fetches, StoredEntry(k, g)  PROVE  FALSE
    <3>1. fetch[g].stage # "replacing" /\ current[k] = g /\ fetch[g].stage \in InFlight
      BY <1>0, <1>5, <2>5 DEF StoredEntry, NothingReplaces
    <3>2. g # None
      BY Names
    <3> QED  BY <1>0, <1>3, <1>5, <3>1, <3>2 DEF NothingExpires
  <2>6. ASSUME NEW w \in Writes, SetEntry(k, w)  PROVE  FALSE
    BY <2>6 DEF SetEntry
  <2> QED  BY <1>5, <2>1, <2>2, <2>3, <2>4, <2>5, <2>6 DEF EntryStep
<1>6. CASE fetch'[f] = fetch[f]
  <2>1. CASE evictions[f] = 1
    BY <1>1, <2>1
  <2>2. CASE entry[k] # None /\ entry[k].value = f
    <3>1. fetch[f].stage = "stored"
      BY <1>0, <2>2 DEF HeldInPlace
    <3> QED  BY <1>5, <2>2, <3>1
  <2> QED  BY <1>4, <1>6, <2>1, <2>2
<1>7. CASE StoredEntry(k, f)
  <2>1. [value |-> f, fresh |-> TRUE] \in Entry
    BY <1>0 DEF Entry
  <2>2. entry'[k] # None /\ entry'[k].value = f
    <3>1. entry'[k] = [value |-> f, fresh |-> TRUE]
      BY <1>7 DEF StoredEntry
    <3>2. None \notin Entry
      BY CacheAssumption
    <3>3. entry'[k] \in Entry
      BY <2>1, <3>1
    <3>4. entry'[k].value = f
      BY <3>1
    <3> QED  BY <3>2, <3>3, <3>4
  <2> QED  BY <2>2
<1>8. CASE fetch[f].stage = "fetching" /\ fetch'[f].stage \in Discarded
              /\ (options.hook => evictions'[f] = evictions[f] + 1)
  BY <1>0, <1>1, <1>8
<1>9. CASE fetch[f].stage = "discarding" /\ fetch'[f].stage = "unstored"
  <2>1. ~(entry[k] # None /\ entry[k].value = f)
    BY <1>0, <1>9 DEF HeldInPlace
  <2> QED  BY <1>1, <1>4, <1>9, <2>1 DEF Discarded
<1> QED  BY <1>3, <1>6, <1>7, <1>8, <1>9 DEF MovedFetch, Discarded

-----------------------------------------------------------------------------
(* The theorems.                                                           *)

\* The invariant holds at first ...
LEMMA InvInit == Init => Inv
<1> SUFFICES ASSUME Init  PROVE  Inv
  OBVIOUS
<1>1. Types
  <2>1. clock \in 0..MaxInvalidations
    BY CacheAssumption DEF Init
  <2>2. call \in [Callers -> Call]
    BY DEF Init, Call
  <2>3. recency \in Seq(Keys)
    BY DEF Init
  <2> QED  BY <2>1, <2>2, <2>3 DEF Init, Types
<1>2. Lru
  <2>1. Len(recency) = 0 /\ MaxEntries \in Nat
    BY CacheAssumption DEF Init
  <2>2. Distinct(recency) /\ (\A k : ~Has(recency, k)) /\ Len(recency) <= MaxEntries
    BY <2>1 DEF Distinct, Has
  <2> QED  BY <2>2 DEF Init, Lru
<1>3. \A f \in Fetches : ~Started(f)
  BY DEF Init, Started
<1>4. \A k \in Keys : entry[k] = None /\ current[k] = None /\ invalidated[k] = 0
  BY DEF Init
<1>5. /\ \A c \in Callers : call[c].at = "idle" /\ call[c].attempt = 0 /\ call[c].born = 0
      /\ clock = 0
  BY DEF Init
<1>6. \A c \in Callers, n \in 0..MaxInvalidations : <<c, n>> \in Fetches
  BY DEF Fetches
<1>7. Clocks /\ Attempts /\ Waits /\ Currents /\ HeldInPlace
  BY <1>3, <1>4, <1>5, <1>6, Names DEF Clocks, Attempts, Waits, Currents, HeldInPlace
<1>8. \A v \in Values : evictions[v] = 0
  BY DEF Init
<1>9. EvictedAfterUse
  BY <1>4, <1>8, Names DEF EvictedAfterUse
<1>10. NothingExpires /\ NothingReplaces /\ FreshEnough /\ SetsAreSafe /\ NoLeak
  BY <1>3, <1>4, <1>5
     DEF NothingExpires, NothingReplaces, FreshEnough, SetsAreSafe, NoLeak, Started
<1> QED  BY <1>1, <1>2, <1>7, <1>9, <1>10 DEF Inv

\* ... when nothing changes ...
LEMMA InvStutters == Inv /\ UNCHANGED vars => Inv'
<1> SUFFICES ASSUME Inv, UNCHANGED vars  PROVE  Inv'
  OBVIOUS
<1>0. UNCHANGED <<options, entry, recency, current, epoch, fetch, call, written, evictions,
                  clock, invalidated>>
  BY DEF vars
<1>1. Types' /\ Lru' /\ Clocks' /\ Attempts' /\ Waits' /\ Currents' /\ HeldInPlace'
  BY <1>0 DEF Inv, Types, Lru, Clocks, Attempts, Waits, Currents, HeldInPlace, Started, MayLook,
     KeyOf
<1>2. NothingExpires' /\ NothingReplaces' /\ FreshEnough' /\ EvictedAfterUse' /\ SetsAreSafe'
  BY <1>0 DEF Inv, NothingExpires, NothingReplaces, FreshEnough, EvictedAfterUse, SetsAreSafe,
     Started, Plain, Combined, Live
<1>3. NoLeak'
  BY <1>0 DEF Inv, NoLeak, Holds, KeyOf
<1> QED  BY <1>1, <1>2, <1>3 DEF Inv

\* ... after every step ...
LEMMA InvSteps == Inv /\ [Next]_vars => Inv'
<1>1. ASSUME Inv, Next  PROVE  Inv'
  <2>0. Typed
    BY <1>1 DEF Inv, Typed
  <2>1. Types' /\ Lru' /\ Clocks' /\ Attempts' /\ Waits' /\ Currents'
    BY <1>1, <2>0, TypesStep, ClocksStep, AttemptsStep, WaitsStep, CurrentsStep DEF Inv
  <2>2. HeldInPlace' /\ NothingExpires' /\ NothingReplaces'
    BY <1>1, <2>0, HeldStep, NothingExpiresStep, NothingReplacesStep DEF Inv
  <2>3. FreshEnough' /\ EvictedAfterUse' /\ SetsAreSafe'
    BY <1>1, <2>0, <2>2, FreshStep, EvictedStep, SetsAreSafeStep DEF Inv
  <2>4. NoLeak'
    BY <1>1, <2>0, <2>3, NoLeakStep DEF Inv
  <2> QED  BY <2>1, <2>2, <2>3, <2>4 DEF Inv
<1> QED  BY <1>1, InvStutters

\* ... and so always.
LEMMA Invariant == Spec => []Inv
BY InvInit, InvSteps, PTL DEF Spec

\* The recency list is a bijection from its positions to the keys present.
LEMMA RecencyCounts ==
    ASSUME Types, Lru
    PROVE  Len(recency) = Cardinality(Present)
<1>1. recency \in Seq(Keys) /\ Len(recency) \in Nat
  BY DEF Types
<1>2. recency \in Bijection(1..Len(recency), Present)
  <2>1. recency \in [1..Len(recency) -> Present]
    <3>1. \A i \in 1..Len(recency) : recency[i] \in Present
      BY <1>1 DEF Lru, Has, Present
    <3> QED  BY <1>1, <3>1
  <2>2. \A x \in Present : \E i \in 1..Len(recency) : recency[i] = x
    BY DEF Lru, Has, Present
  <2>3. \A i, j \in 1..Len(recency) : recency[i] = recency[j] => i = j
    BY DEF Lru, Distinct
  <2> QED  BY <2>1, <2>2, <2>3 DEF Bijection, Injection, Surjection, IsInjective
<1>3. IsFiniteSet(1..Len(recency)) /\ Cardinality(1..Len(recency)) = Len(recency)
  BY <1>1, FS_Interval
<1>4. ExistsBijection(1..Len(recency), Present)
  BY <1>2 DEF ExistsBijection
<1> QED  BY <1>3, <1>4, FS_Bijection

\* TypeOK of the run, for every cache.
LEMMA TypeCorrect == Types /\ Lru => TypeOK
<1> SUFFICES ASSUME Types, Lru  PROVE  TypeOK
  OBVIOUS
<1>1. clock \in Nat /\ DOMAIN recency = 1..Len(recency)
  BY CacheAssumption DEF Types
<1>2. {recency[i] : i \in DOMAIN recency} = Present
  <2>1. \A i \in 1..Len(recency) : recency[i] \in Keys
    BY DEF Types
  <2> QED  BY <1>1, <2>1 DEF Lru, Has, Present
<1> QED  BY <1>1, <1>2, RecencyCounts DEF Types, Lru, TypeOK

\* Lookups of a key share a fetch whenever they may, a caller is never handed a
\* value fetched before an invalidation that preceded its call, and no value
\* fetched before an invalidation is in the cache after it (getOrFetch and
\* stillCurrent, async-cache.ts:83-157), whatever the options, but for the one
\* combination of options that the properties exclude.
THEOREM LookupsShareFetches == Spec => []FetchesAreShared
<1>1. Inv => FetchesAreShared
  <2> SUFFICES ASSUME Inv  PROVE  FetchesAreShared
    OBVIOUS
  <2>0. \A f \in Fetches : fetch[f] # None => fetch[f].born \in Nat
    BY FetchFields DEF Inv, Started
  <2>1. OneFetchPerKey
    <3> SUFFICES ASSUME NEW f \in Fetches, NEW g \in Fetches,
                        f # g, KeyOf(f) = KeyOf(g), fetch[f] # None, fetch[g] # None,
                        fetch[f].stage \in InFlight, fetch[g].stage \in InFlight,
                        ~(fetch[f].born < invalidated[KeyOf(f)]),
                        ~(fetch[g].born < invalidated[KeyOf(f)])
                 PROVE  FALSE
      BY DEF OneFetchPerKey
    <3>1. invalidated[KeyOf(f)] \in Nat
      BY Names DEF Inv, Types
    <3>2. fetch[f].born >= invalidated[KeyOf(f)] /\ fetch[g].born >= invalidated[KeyOf(f)]
      BY <2>0, <3>1
    <3>3. current[KeyOf(f)] = f /\ current[KeyOf(g)] = g
      BY <3>2 DEF Inv, Currents, Started
    <3> QED  BY <3>3
  <2>2. ReturnedSinceCall
    BY DEF Inv, FreshEnough, ReturnedSinceCall, Plain
  <2>3. NoStaleResurrection
    BY DEF Inv, FreshEnough, HeldInPlace, NoStaleResurrection, Plain, Holds
  <2> QED  BY <2>1, <2>2, <2>3 DEF FetchesAreShared
<1> QED  BY <1>1, Invariant, PTL

\* The cache keeps its bound and its order, the hook runs at most once for a value
\* and never for one the cache still holds, and where the hook is all that frees a
\* value, none is lost (_fetchAndStore, LruCache.set, delete and clear).
THEOREM DropsAreCounted == Spec => []DroppedOnce
<1>1. Inv => DroppedOnce
  <2> SUFFICES ASSUME Inv  PROVE  DroppedOnce
    OBVIOUS
  <2>1. TypeOK
    BY TypeCorrect DEF Inv
  <2>2. HookOnce
    BY DEF Inv, EvictedAfterUse, HookOnce, Plain, Holds
  <2> QED  BY <2>1, <2>2 DEF DroppedOnce, Inv
<1> QED  BY <1>1, Invariant, PTL

\* A value given to set() leaves the cache by an invalidation, by expiry or for
\* another key, and not because an earlier fetch ends (async-cache.ts:137, 212-219).
THEOREM SetsOutliveFetches == Spec => SetWins
<1> DEFINE Step == options.keepStale /\ ~Combined =>
       \A k \in Keys :
          Live(k) /\ entry[k].value \in Writes /\ entry'[k] # entry[k] =>
              \/ clock' > clock
              \/ entry'[k] = [entry[k] EXCEPT !.fresh = FALSE]
              \/ entry'[k] = None /\ \E x \in Keys : entry[x] = None /\ entry'[x] # None
<1>1. Inv /\ Next => Step
  <2> SUFFICES ASSUME Inv, Next, options.keepStale, ~Combined, NEW k \in Keys,
                      Live(k), entry[k].value \in Writes, entry'[k] # entry[k]
               PROVE  \/ clock' > clock
                      \/ entry'[k] = [entry[k] EXCEPT !.fresh = FALSE]
                      \/ entry'[k] = None /\ \E x \in Keys : entry[x] = None /\ entry'[x] # None
    OBVIOUS
  <2>0. Typed /\ Plain
    BY DEF Inv, Typed, Plain
  <2>1. EntryStep(k)
    BY <2>0, EntrySteps
  <2>2. ASSUME NEW f \in Fetches, StoredEntry(k, f)  PROVE  FALSE
    <3>1. fetch[f].stage # "replacing" /\ f # None
      BY <2>0, <2>2, Names DEF Inv, NothingReplaces, StoredEntry
    <3>2. current[k] = f /\ fetch[f].stage \in InFlight
      BY <2>2, <3>1 DEF StoredEntry, Live
    <3> QED  BY <3>1, <3>2 DEF Inv, SetsAreSafe
  <2> QED  BY <2>1, <2>2 DEF EntryStep, EvictedEntry, LostEntry, StaleEntry, SetEntry
<1>2. Inv /\ [Next]_vars => [Step]_vars
  BY <1>1
<1> QED  BY <1>2, Invariant, PTL DEF Spec, SetWins
=============================================================================
