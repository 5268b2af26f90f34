------------------------ MODULE ChangeDetectionProofs ------------------------
(***************************************************************************)
(* How the daemon's clients learn of changes: proofs about ChangeDetection *)
(* and about the DirectoryWatcher it stands on.                            *)
(*                                                                         *)
(* DirectoryWatcher: whatever the number of subscriptions, starts and      *)
(* retries, nothing that was opened is left without an owner, and a        *)
(* watcher that promised to report changes is never deaf.                  *)
(*                                                                         *)
(* ChangeDetection: whatever the number of events, changes of              *)
(* configuration and retries, nothing reported is forgotten, something     *)
(* detects changes between the transitions, and a teardown is complete.    *)
(***************************************************************************)
EXTENDS ChangeDetection, DirectoryWatcher, FiniteSetTheorems, TLAPS

-----------------------------------------------------------------------------
(* DirectoryWatcher. *)

Asking == {"backend", "watching", "failed", "limit"}

\* Who owns a subscription.  A start asks for one only where there is none, so the
\* field and the start in flight never own one each.
Owned ==
    /\ subscription # 0 => sub[subscription] \in {"open", "broken"}
    /\ starting \in Asking => subscription = 0
    /\ attempt \in {"failed", "limit"} => subscription = 0
    /\ starting = "watching" => /\ opening # 0
                                /\ sub[opening] \in {"requested", "open", "broken"}
    /\ \A n \in Subs : sub[n] \in {"requested", "open", "broken"} =>
           n = subscription \/ (starting = "watching" /\ n = opening)

\* What a halted watcher has given up: its timer at once, its subscription once
\* stopInternal() has waited for what was in flight.
GivenUp ==
    /\ Halted => ~timer
    /\ Halted /\ stopping # "waiting" => subscription = 0
    /\ stopping # "none" => stopped
    /\ ~stopped => failures = 0

\* What stands behind a promise.
Kept ==
    /\ promised => ~Halted
    /\ promised /\ subscription # 0 => sub[subscription] = "open"
    /\ promised /\ (starting = "ok" \/ attempt = "ok") => subscription # 0
    /\ promised => starting # "unsubscribing"
    /\ isReconnecting => attempt # "none"
    /\ NeverDeaf

WatcherInv == TypeOK /\ Owned /\ GivenUp /\ Kept

LEMMA WatcherInvInit == WatcherInit => WatcherInv
  <1> SUFFICES ASSUME WatcherInit PROVE WatcherInv
    OBVIOUS
  <1>1. FieldsOK
    BY DEF WatcherInit, FieldsOK, Outcomes
  <1>2. TypeOK
    BY <1>1, WatcherAssumption DEF WatcherInit, TypeOK
  <1>3. Owned
    BY DEF WatcherInit, Owned, Subs, Asking
  <1>4. GivenUp /\ Kept
    BY DEF WatcherInit, GivenUp, Kept, NeverDeaf, Halted
  <1> QED
    BY <1>2, <1>3, <1>4 DEF WatcherInv

\* Settled continuations run first, so what a step of the provider may find is known.
LEMMA WatcherInvStep == WatcherInv /\ [WatcherNext]_watcherVars => WatcherInv'
  <1> SUFFICES ASSUME WatcherInv, [WatcherNext]_watcherVars PROVE WatcherInv'
    OBVIOUS
  <1> USE WatcherAssumption
      DEF WatcherInv, TypeOK, FieldsOK, Owned, GivenUp, Kept, NeverDeaf, Subs, Outcomes,
          Asking, Halted, NoMicrotasks
  <1>1. CASE Start
    <2>1. FieldsOK'
      BY <1>1 DEF Start, BeginStart
    <2>2. TypeOK'
      BY <2>1, <1>1 DEF Start, BeginStart
    <2>3. Owned'
      BY <1>1 DEF Start, BeginStart
    <2>4. GivenUp'
      BY <1>1 DEF Start, BeginStart
    <2>5. Kept'
      BY <1>1 DEF Start, BeginStart
    <2> QED
      BY <2>2, <2>3, <2>4, <2>5
  <1>2. CASE Stop \/ DisposeWatcher
    <2>1. FieldsOK'
      BY <1>2 DEF Stop, DisposeWatcher, BeginStop
    <2>2. TypeOK'
      BY <2>1, <1>2 DEF Stop, DisposeWatcher, BeginStop
    <2>3. Owned'
      BY <1>2 DEF Stop, DisposeWatcher, BeginStop
    <2>4. GivenUp'
      BY <1>2 DEF Stop, DisposeWatcher, BeginStop
    <2>5. Kept'
      BY <1>2 DEF Stop, DisposeWatcher, BeginStop
    <2> QED
      BY <2>2, <2>3, <2>4, <2>5
  <1>3. CASE BackendReady
    BY <1>3 DEF BackendReady
  <1>4. CASE UnsubscribedUnwanted \/ StopEnds
    BY <1>4 DEF UnsubscribedUnwanted, StopEnds
  <1>5. CASE StartSettles
    <2>1. FieldsOK'
      BY <1>5 DEF StartSettles
    <2>2. TypeOK'
      BY <2>1, <1>5 DEF StartSettles
    <2>3. Owned'
      BY <1>5 DEF StartSettles
    <2>4. GivenUp'
      BY <1>5 DEF StartSettles
    <2>5. Kept'
      BY <1>5 DEF StartSettles
    <2> QED
      BY <2>2, <2>3, <2>4, <2>5
  <1>6. CASE AttemptResumes
    <2>1. FieldsOK'
      BY <1>6 DEF AttemptResumes, ScheduleReconnect, NotifyPermanentFailure
    <2>2. TypeOK'
      <3>1. /\ retryCount' \in 0..MaxRetries /\ failures' \in 0..1
            /\ UNCHANGED <<subscription, opening, starts>>
        <4>1. CASE Halted
          BY <4>1, <1>6 DEF AttemptResumes
        <4>2. CASE ~Halted /\ attempt = "ok"
          BY <4>2, <1>6 DEF AttemptResumes
        <4>3. CASE ~Halted /\ attempt = "limit"
          BY <4>3, <1>6 DEF AttemptResumes, NotifyPermanentFailure
        <4>4. CASE ~Halted /\ attempt = "failed"
          BY <4>4, <1>6 DEF AttemptResumes, ScheduleReconnect, NotifyPermanentFailure
        <4> QED
          BY <4>1, <4>2, <4>3, <4>4, <1>6 DEF AttemptResumes
      <3> QED
        BY <2>1, <3>1
    <2>3. Owned'
      BY <1>6 DEF AttemptResumes, ScheduleReconnect, NotifyPermanentFailure
    <2>4. GivenUp'
      BY <1>6 DEF AttemptResumes, ScheduleReconnect, NotifyPermanentFailure
    <2>5. Kept'
      BY <1>6 DEF AttemptResumes, ScheduleReconnect, NotifyPermanentFailure
    <2> QED
      BY <2>2, <2>3, <2>4, <2>5
  <1>7. CASE StopTakesOver
    <2>1. FieldsOK'
      BY <1>7 DEF StopTakesOver, Closed
    <2>2. TypeOK'
      BY <2>1, <1>7 DEF StopTakesOver, Closed
    <2>3. Owned'
      BY <1>7 DEF StopTakesOver, Closed
    <2>4. GivenUp'
      BY <1>7 DEF StopTakesOver, Closed
    <2>5. Kept'
      BY <1>7 DEF StopTakesOver, Closed
    <2> QED
      BY <2>2, <2>3, <2>4, <2>5
  <1>8. CASE Established
    BY <1>8 DEF Established
  <1>9. CASE WatchOpens
    <2>1. FieldsOK'
      BY <1>9 DEF WatchOpens
    <2>2. TypeOK'
      BY <2>1, <1>9 DEF WatchOpens
    <2>3. Owned'
      BY <1>9 DEF WatchOpens
    <2>4. GivenUp'
      BY <1>9 DEF WatchOpens
    <2>5. Kept'
      BY <1>9 DEF WatchOpens
    <2> QED
      BY <2>2, <2>3, <2>4, <2>5
  <1>10. ASSUME NEW o \in Outcomes, WatchFails(o) PROVE WatcherInv'
    BY <1>10 DEF WatchFails
  <1>11. CASE TimerFires
    <2>1. FieldsOK'
      BY <1>11 DEF TimerFires, BeginStart
    <2>2. TypeOK'
      BY <2>1, <1>11 DEF TimerFires, BeginStart
    <2>3. Owned'
      BY <1>11 DEF TimerFires, BeginStart
    <2>4. GivenUp'
      BY <1>11 DEF TimerFires, BeginStart
    <2>5. Kept'
      BY <1>11 DEF TimerFires, BeginStart
    <2> QED
      BY <2>2, <2>3, <2>4, <2>5
  <1>12. ASSUME NEW n \in Subs, Unsubscribed(n) PROVE WatcherInv'
    BY <1>12 DEF Unsubscribed
  <1>13. ASSUME NEW n \in Subs, NEW limit \in BOOLEAN, SubError(n, limit) PROVE WatcherInv'
    <2>1. FieldsOK'
      BY <1>13, ZenonT(60) DEF SubError, ScheduleReconnect, NotifyPermanentFailure, Closed, Broken
    <2>2. TypeOK'
      BY <2>1, <1>13 DEF SubError, ScheduleReconnect, NotifyPermanentFailure, Closed, Broken
    <2>3. Owned'
      BY <1>13 DEF SubError, ScheduleReconnect, NotifyPermanentFailure, Closed, Broken
    <2>4. GivenUp'
      BY <1>13 DEF SubError, ScheduleReconnect, NotifyPermanentFailure, Closed, Broken
    <2>5. Kept'
      BY <1>13 DEF SubError, ScheduleReconnect, NotifyPermanentFailure, Closed, Broken
    <2> QED
      BY <2>2, <2>3, <2>4, <2>5
  <1>14. CASE UNCHANGED watcherVars
    BY <1>14 DEF watcherVars
  <1> QED
    BY <1>1, <1>2, <1>3, <1>4, <1>5, <1>6, <1>7, <1>8, <1>9, <1>10, <1>11, <1>12, <1>13, <1>14
    DEF WatcherNext, Continue, WatchSettles

\* At most one subscription is owned: the field's or the start's.
LEMMA OwnedIsAlone == WatcherInv => NothingLeftOpen
  <1> SUFFICES ASSUME WatcherInv PROVE NothingLeftOpen
    OBVIOUS
  <1> DEFINE owned == {n \in Subs : sub[n] \in {"open", "broken"}}
  <1>1. owned \subseteq {subscription} \/ (starting = "watching" /\ owned \subseteq {opening})
    BY DEF WatcherInv, Owned, Asking, Subs
  <1>2. PICK x : owned \subseteq {x}
    BY <1>1
  <1>3. Cardinality(owned) <= 1
    <2>1. IsFiniteSet({x}) /\ Cardinality({x}) = 1
      BY FS_Singleton
    <2> QED
      BY <1>2, <2>1, FS_Subset
  <1>4. NoOrphan
    BY <1>1, <1>3 DEF NoOrphan
  <1>5. StopIsFinal
    BY DEF WatcherInv, TypeOK, Owned, GivenUp, StopIsFinal, Asking, Subs
  <1> QED
    BY <1>4, <1>5 DEF NothingLeftOpen, WatcherInv

\* Nothing that watch() opened is left without an owner, nothing is armed or held by
\* a watcher that has stopped, and a permanent failure is reported once.
THEOREM NothingIsLeftOpen == WatcherSpec => []NothingLeftOpen
  BY WatcherInvInit, WatcherInvStep, OwnedIsAlone, PTL DEF WatcherSpec

\* A watcher that promised to report changes has a working subscription or is on its
\* way to one, whatever fails.
THEOREM NobodyGoesDeaf == WatcherSpec => []NeverDeaf
  BY WatcherInvInit, WatcherInvStep, PTL DEF WatcherSpec, WatcherInv, Kept

-----------------------------------------------------------------------------
(* ChangeDetection. *)

\* Where the refreshes stand.
Owing == /\ owed \subseteq {"operation", "snapshot"}
         /\ deferred \in BOOLEAN /\ pendingForce \in BOOLEAN /\ disposed \in BOOLEAN
         /\ NothingOwedIsForgotten

\* The poller's loop.
Looping == /\ pollTimer \in BOOLEAN /\ polling \in BOOLEAN /\ pollerDisposed \in BOOLEAN
           /\ active \in BOOLEAN
           /\ polls \in Nat
           /\ pollerDisposed => ~polling
           /\ PollingGoesOn

\* What the lifecycle queue holds: the teardown comes last, and only once.
Queued == /\ tasks \in Seq({"mode", "teardown"})
          /\ ~disposed => /\ ~torn /\ teardown = "none" /\ ~pollerDisposed
                          /\ \A i \in 1..Len(tasks) : tasks[i] = "mode"
          /\ disposed /\ ~torn /\ teardown = "none" =>
                 \E n \in Nat : /\ Len(tasks) = n + 1
                                /\ tasks[n + 1] = "teardown"
                                /\ \A i \in 1..n : tasks[i] = "mode"

\* What is over once the teardown has begun, and once it has ended.
Ending == /\ torn \/ teardown # "none" =>
                 /\ tasks = <<>> /\ modeTask = "none" /\ opTask = "none"
                 /\ ~polling /\ ~pollTimer
                 /\ wcWatcher \in {"none", "disposing"}
          /\ torn \/ teardown = "opHeads" =>
                 wcWatcher = "none" /\ opWatcher \in {"none", "disposing"}
          /\ torn => opWatcher = "none" /\ teardown = "none"
          /\ torn \in BOOLEAN

\* Who may still call back after the teardown: a read that was under way.
Silent == /\ reads \in Nat /\ late \in Nat /\ unread \in Nat
          /\ ~torn => late = 0
          /\ torn => late + reads <= unread

\* What detects changes while no transition runs, and what a transition is up to.
Detecting == ~disposed =>
    /\ config \in Modes /\ mode \in Modes
    /\ modeTask = "none" => /\ mode = "watch"   => wcWatcher = "watching" /\ ~polling
                            /\ mode = "polling" => wcWatcher = "none" /\ (polling <=> active)
    /\ modeTask = "preparing" => wcWatcher = "none" /\ mode = "watch"
    /\ modeTask = "starting" => \/ wcWatcher = "starting" /\ mode = "watch"
                                \/ wcWatcher = "none" /\ mode = "polling"
    /\ tasks = <<>> /\ config = "polling" => mode = "polling"

DetectionInv == Owing /\ Looping /\ Queued /\ Ending /\ Silent /\ Detecting

LEMMA DetectionInvInit == Init => DetectionInv
  <1> SUFFICES ASSUME Init PROVE DetectionInv
    OBVIOUS
  <1>1. Owing
    BY DEF Init, Owing, NothingOwedIsForgotten
  <1>2. Looping
    BY DEF Init, PollerInit, Looping, PollingGoesOn
  <1>3. Queued
    BY DEF Init, PollerInit, Queued
  <1>4. Ending
    BY DEF Init, Ending
  <1>5. Silent
    BY DEF Init, Silent
  <1>6. Detecting
    BY DEF Init, PollerInit, Detecting, Modes
  <1> QED
    BY <1>1, <1>2, <1>3, <1>4, <1>5, <1>6 DEF DetectionInv

-----------------------------------------------------------------------------
(* Refreshes, now or later.                                                *)

LEMMA OwingStep == Owing /\ [Next]_vars => Owing'
  <1> SUFFICES ASSUME Owing, [Next]_vars PROVE Owing'
    OBVIOUS
  <1> USE DEF Owing, NothingOwedIsForgotten
  <1>1. ASSUME NEW force \in BOOLEAN, RefreshOrDefer(force), UNCHANGED disposed
        PROVE Owing'
    BY <1>1 DEF RefreshOrDefer, Refresh, Defer, Needs
  <1>2. ASSUME Refresh(TRUE), UNCHANGED <<deferred, pendingForce, disposed>>
        PROVE Owing'
    BY <1>2 DEF Refresh
  <1>3. CASE DeferredFires
    <2>1. UNCHANGED disposed
      BY <1>3 DEF DeferredFires
    <2>2. CASE disposed
      BY <1>3, <2>1, <2>2 DEF DeferredFires
    <2>4. CASE ~disposed /\ busy
      <3>1. deferred' = deferred /\ pendingForce' = pendingForce /\ owed' = owed
        BY <1>3, <2>4 DEF DeferredFires, refreshing
      <3> QED
        BY <2>1, <3>1
    <2>3. CASE ~disposed /\ ~busy
      <3>1. deferred' = FALSE /\ pendingForce' = FALSE
        BY <1>3, <2>3 DEF DeferredFires
      <3>2. owed' = {}
        BY <1>3, <2>3 DEF DeferredFires, Refresh
      <3> QED
        BY <2>1, <3>1, <3>2
    <2> QED
      BY <2>2, <2>3, <2>4
  <1>4. CASE FileEvent \/ OpHeadEvent \/ CheckoutRead \/ OpReconnected
    BY <1>1, <1>4 DEF FileEvent, OpHeadEvent, CheckoutRead, HandleOpHeadChange, OpReconnected,
       refreshing, outside
  <1>5. CASE Saved
    BY <1>2, <1>5 DEF Saved, outside
  <1>6. CASE PollFires
    BY <1>2, <1>6 DEF PollFires, outside
  <1>7. CASE WindowChanges
    BY <1>1, <1>7 DEF WindowChanges, refreshing
  <1>8. CASE Dispose
    BY <1>8 DEF Dispose
  <1>9. CASE PollEnds \/ WriteBegins \/ WritesOver \/ ThrottleOver \/ ConfigChanges
    BY <1>9 DEF PollEnds, WriteBegins, WritesOver, ThrottleOver, ConfigChanges, refresh, refreshing,
       outside
  <1>10. CASE Lifecycle \/ WcFails \/ OpFails
    BY <1>10 DEF Lifecycle, ModeTask, WcStopped, WcPrepared, WcStarted, WcStartFails, OpFound,
       OpStarted, OpTryFails, OpRetries, Teardown, WcDisposed, OpDisposed, WcFails, OpFails,
       opOthers, refresh, refreshing, outside
  <1>11. CASE UNCHANGED vars
    BY <1>11 DEF vars, refresh, refreshing, outside
  <1> QED
    BY <1>3, <1>4, <1>5, <1>6, <1>7, <1>8, <1>9, <1>10, <1>11 DEF Next

-----------------------------------------------------------------------------
(* The poller.                                                             *)

LEMMA LoopingStep == Looping /\ [Next]_vars => Looping'
  <1> SUFFICES ASSUME Looping, [Next]_vars PROVE Looping'
    OBVIOUS
  <1> USE DEF Looping, PollingGoesOn, pollerVars
  <1>1. ASSUME StartPolling \/ StopPolling \/ DisposePoller \/ BeginPoll \/ EndPoll
               \/ UNCHANGED pollerVars,
               active' \in BOOLEAN
        PROVE Looping'
    <2>1. CASE UNCHANGED pollerVars
      BY <1>1, <2>1
    <2>4. CASE StopPolling \/ DisposePoller
      BY <1>1, <2>4 DEF StopPolling, DisposePoller
    <2>5. CASE StartPolling
      BY <1>1, <2>5 DEF StartPolling
    <2>2. CASE BeginPoll
      <3>1. polls' \in Nat /\ polls' > 0
        BY <2>2 DEF BeginPoll
      <3> QED
        BY <1>1, <2>2, <3>1 DEF BeginPoll
    <2>3. CASE EndPoll
      BY <1>1, <2>3 DEF EndPoll
    <2> QED
      BY <1>1, <2>1, <2>2, <2>3, <2>4, <2>5
  <1>2. CASE WindowChanges
    BY <1>1, <1>2 DEF WindowChanges, UpdatePollingState
  <1>3. CASE PollFires \/ PollEnds
    BY <1>1, <1>3 DEF PollFires, PollEnds, outside
  <1>4. CASE DeferredFires \/ FileEvent \/ OpHeadEvent \/ CheckoutRead \/ OpReconnected
             \/ Saved \/ WriteBegins \/ WritesOver \/ ThrottleOver \/ ConfigChanges \/ Dispose
             \/ OpFails \/ UNCHANGED vars
    BY <1>1, <1>4 DEF DeferredFires, FileEvent, OpHeadEvent, CheckoutRead, OpReconnected, Saved, WriteBegins,
       WritesOver, ThrottleOver, ConfigChanges, Dispose, OpFails, opOthers, outside, vars
  <1>5. CASE ModeTask \/ WcStopped \/ WcPrepared \/ WcStarted
    BY <1>1, <1>5 DEF ModeTask, WcStopped, WcPrepared, WcStarted, Proceed,
       UpdatePollingState, outside
  <1>6. CASE WcStartFails \/ WcFails \/ Teardown \/ WcDisposed \/ OpDisposed
    BY <1>1, <1>6 DEF WcStartFails, WcFails, Teardown, WcDisposed, OpDisposed, FallBack,
       UpdatePollingState, outside
  <1>7. CASE OpFound \/ OpStarted \/ OpTryFails \/ OpRetries
    BY <1>1, <1>7 DEF OpFound, OpStarted, OpTryFails, OpRetries, opOthers, outside
  <1> QED
    BY <1>2, <1>3, <1>4, <1>5, <1>6, <1>7 DEF Next, Lifecycle
-----------------------------------------------------------------------------
(* The lifecycle queue and the teardown at its end.                        *)

\* A task taken off the queue leaves the teardown where it was: at the end.
LEMMA TakeTaskStep ==
    ASSUME Queued, NEW task \in {"mode", "teardown"}, TakeTask(task)
    PROVE  /\ tasks' \in Seq({"mode", "teardown"})
           /\ \A i \in 1..Len(tasks') : tasks'[i] = tasks[i + 1]
           /\ Len(tasks') + 1 = Len(tasks)
           /\ tasks[1] = task
  BY DEF Queued, TakeTask

LEMMA QueuedStep == Looping /\ Queued /\ Ending /\ [Next]_vars => Queued'
  <1> SUFFICES ASSUME Looping, Queued, Ending, [Next]_vars PROVE Queued'
    OBVIOUS
  <1>1. CASE ConfigChanges
    BY <1>1 DEF ConfigChanges, Queued, pollerVars
  <1>2. CASE Dispose
    <2>1. /\ tasks' = Append(tasks, "teardown")
          /\ \A i \in 1..Len(tasks) : tasks[i] = "mode"
          /\ disposed'
      BY <1>2 DEF Dispose, Queued
    <2>2. /\ tasks' \in Seq({"mode", "teardown"})
          /\ Len(tasks) \in Nat /\ Len(tasks') = Len(tasks) + 1
          /\ tasks'[Len(tasks) + 1] = "teardown"
          /\ \A i \in 1..Len(tasks) : tasks'[i] = "mode"
      BY <2>1 DEF Queued
    <2> QED
      BY <2>1, <2>2 DEF Queued
  <1>3. CASE ModeTask
    <2>1. UNCHANGED <<disposed, torn, teardown, pollerDisposed>> /\ TakeTask("mode")
      BY <1>3 DEF ModeTask, outside, pollerVars, Proceed, UpdatePollingState, StartPolling, StopPolling
    <2>2. /\ tasks' \in Seq({"mode", "teardown"})
          /\ \A i \in 1..Len(tasks') : tasks'[i] = tasks[i + 1]
          /\ Len(tasks') + 1 = Len(tasks) /\ Len(tasks') \in Nat
          /\ tasks[1] = "mode"
      BY <2>1, TakeTaskStep
    <2>3. CASE ~disposed
      BY <2>1, <2>2, <2>3 DEF Queued
    <2>4. CASE disposed /\ ~torn /\ teardown = "none"
      <3>1. PICK n \in Nat : /\ Len(tasks) = n + 1 /\ tasks[n + 1] = "teardown"
                             /\ \A i \in 1..n : tasks[i] = "mode"
        BY <2>4 DEF Queued
      <3>2. n # 0 /\ Len(tasks') = (n - 1) + 1 /\ n - 1 \in Nat
        BY <2>2, <3>1
      <3>3. tasks'[(n - 1) + 1] = "teardown" /\ \A i \in 1..(n - 1) : tasks'[i] = "mode"
        BY <2>2, <3>1, <3>2
      <3> QED
        BY <2>1, <2>2, <2>4, <3>2, <3>3 DEF Queued
    <2> QED
      BY <2>1, <2>2, <2>3, <2>4 DEF Queued
  <1>4. CASE Teardown
    <2>1. /\ teardown' # "none" /\ UNCHANGED <<disposed, torn>> /\ TakeTask("teardown")
          /\ teardown = "none"
      BY <1>4 DEF Teardown, TakeTask, LifecycleIdle, outside
    <2>2. /\ tasks' \in Seq({"mode", "teardown"}) /\ Len(tasks) \in Nat
          /\ Len(tasks') \in Nat /\ Len(tasks') + 1 = Len(tasks) /\ tasks[1] = "teardown"
      BY <2>1, TakeTaskStep
    <2>3. disposed
      BY <2>2 DEF Queued
    <2> QED
      BY <2>1, <2>2, <2>3 DEF Queued
  <1>5. CASE WcDisposed \/ OpDisposed
    BY <1>5 DEF WcDisposed, OpDisposed, DisposePoller, Queued, outside, pollerVars, Ending
  <1>6. CASE \/ DeferredFires \/ FileEvent \/ OpHeadEvent \/ CheckoutRead \/ OpReconnected \/ Saved
             \/ WriteBegins \/ WritesOver \/ ThrottleOver \/ OpFails \/ UNCHANGED vars
             \/ OpFound \/ OpStarted \/ OpTryFails \/ OpRetries
    <2>1. UNCHANGED <<tasks, disposed, torn, teardown, pollerDisposed>>
      BY <1>6 DEF DeferredFires, FileEvent, OpHeadEvent, CheckoutRead, OpReconnected, Saved, WriteBegins,
         WritesOver, ThrottleOver, OpFails, OpFound, OpStarted, OpTryFails, OpRetries,
         opOthers, life, outside, pollerVars, vars
    <2> QED
      BY <2>1 DEF Queued
  <1>7. CASE PollFires \/ PollEnds \/ WindowChanges \/ WcStopped \/ WcPrepared
             \/ WcStarted \/ WcStartFails \/ WcFails
    <2>1. UNCHANGED <<tasks, disposed, torn, teardown, pollerDisposed>>
      BY <1>7 DEF PollFires, PollEnds, BeginPoll, EndPoll, WindowChanges, WcStopped,
         WcPrepared, WcStarted, WcStartFails, WcFails, FallBack, Proceed, UpdatePollingState,
         StartPolling, StopPolling, life, outside, pollerVars
    <2> QED
      BY <2>1 DEF Queued
  <1> QED
    BY <1>1, <1>2, <1>3, <1>4, <1>5, <1>6, <1>7 DEF Next, Lifecycle

LEMMA EndingStep == DetectionInv /\ [Next]_vars => Ending'
  <1> SUFFICES ASSUME DetectionInv, [Next]_vars PROVE Ending'
    OBVIOUS
  <1>1. Ending /\ Queued
    BY DEF DetectionInv
  <1>2. disposed \/ (~torn /\ teardown = "none")
    BY <1>1 DEF Queued
  <1>3. CASE Teardown
    <2>1. ~torn /\ tasks # <<>>
      BY <1>1, <1>3 DEF Teardown, TakeTask, Ending
    <2>2. tasks' = <<>>
      <3>1. /\ tasks' \in Seq({"mode", "teardown"}) /\ Len(tasks) \in Nat
            /\ Len(tasks') \in Nat /\ Len(tasks') + 1 = Len(tasks) /\ tasks[1] = "teardown"
        BY <1>1, <1>3, TakeTaskStep DEF Teardown
      <3>2. disposed /\ teardown = "none"
        <4>1. teardown = "none"
          BY <1>3 DEF Teardown, TakeTask, LifecycleIdle
        <4>2. Len(tasks) >= 1
          BY <3>1
        <4> QED
          BY <1>1, <3>1, <4>1, <4>2 DEF Queued
      <3>3. Len(tasks) = 1
        BY <1>1, <2>1, <3>1, <3>2 DEF Queued
      <3> QED
        BY <3>1, <3>3
    <2>3. /\ modeTask' = "none" /\ opTask' = "none"
          /\ polling' = FALSE /\ pollTimer' = FALSE
          /\ wcWatcher' \in {"none", "disposing"} /\ teardown' = "workingCopy"
          /\ torn' = torn
      BY <1>3 DEF Teardown, TakeTask, LifecycleIdle, StopPolling, opStart
    <2> QED
      BY <1>1, <2>1, <2>2, <2>3 DEF Ending
  <1>4. CASE WcDisposed
    BY <1>1, <1>4 DEF WcDisposed, DisposePoller, Ending, opStart
  <1>5. CASE OpDisposed
    BY <1>1, <1>5 DEF OpDisposed, Ending, opStart, pollerVars
  <1>6. CASE DeferredFires \/ Saved \/ OpReconnected \/ WindowChanges \/ Dispose
    <2>1. UNCHANGED <<torn, teardown, modeTask, opTask, wcWatcher, opWatcher>>
      BY <1>6 DEF DeferredFires, Saved, OpReconnected, WindowChanges, Dispose, life, opStart
    <2>2. CASE disposed
      <3>1. UNCHANGED <<tasks, polling, pollTimer>>
        BY <1>6, <2>2 DEF Saved, OpReconnected, WindowChanges, Dispose, DeferredFires, life,
           pollerVars
      <3> QED
        BY <1>1, <2>1, <3>1 DEF Ending
    <2>3. CASE ~disposed
      BY <1>1, <1>2, <2>1, <2>3 DEF Ending
    <2> QED
      BY <2>2, <2>3
  <1>7. CASE FileEvent \/ OpHeadEvent \/ CheckoutRead
    <2>1. UNCHANGED <<torn, teardown, modeTask, opTask, wcWatcher, opWatcher, tasks, polling,
                      pollTimer>>
      BY <1>7 DEF FileEvent, OpHeadEvent, CheckoutRead, life, opStart, pollerVars
    <2> QED
      BY <1>1, <2>1 DEF Ending
  <1>8. CASE PollFires \/ PollEnds
    <2>1. UNCHANGED <<torn, teardown, modeTask, opTask, wcWatcher, opWatcher, tasks, polling>>
      BY <1>8 DEF PollFires, PollEnds, BeginPoll, EndPoll, life, opStart
    <2>2. CASE torn \/ teardown # "none"
      <3>1. PollEnds
        BY <1>1, <1>8, <2>2 DEF PollFires, BeginPoll, Ending
      <3>2. pollTimer' = FALSE
        BY <1>1, <2>2, <3>1 DEF PollEnds, EndPoll, Ending
      <3> QED
        BY <1>1, <2>1, <3>2 DEF Ending
    <2> QED
      BY <1>1, <2>1, <2>2 DEF Ending
  <1>9. CASE WriteBegins \/ WritesOver \/ ThrottleOver \/ OpFails \/ UNCHANGED vars
    BY <1>1, <1>9 DEF WriteBegins, WritesOver, ThrottleOver, OpFails, Ending, opOthers, life,
       opStart, pollerVars, vars
  <1>10. CASE ConfigChanges
    BY <1>1, <1>2, <1>10 DEF ConfigChanges, Ending
  <1>11. CASE ModeTask \/ WcStopped \/ WcPrepared \/ WcStarted \/ WcStartFails \/ WcFails
    <2>1. ~torn /\ teardown = "none"
      BY <1>1, <1>11 DEF ModeTask, WcStopped, WcPrepared, WcStarted, WcStartFails, WcFails,
         TakeTask, Ending
    <2>2. UNCHANGED <<torn, teardown>>
      BY <1>11 DEF ModeTask, WcStopped, WcPrepared, WcStarted, WcStartFails, WcFails
    <2> QED
      BY <1>1, <2>1, <2>2 DEF Ending
  <1>12. CASE OpFound \/ OpStarted \/ OpTryFails \/ OpRetries
    <2>1. ~torn /\ teardown = "none"
      BY <1>1, <1>12 DEF OpFound, OpStarted, OpTryFails, OpRetries, Ending
    <2>2. UNCHANGED <<torn, teardown>>
      BY <1>12 DEF OpFound, OpStarted, OpTryFails, OpRetries, opOthers
    <2> QED
      BY <1>1, <2>1, <2>2 DEF Ending
  <1> QED
    BY <1>3, <1>4, <1>5, <1>6, <1>7, <1>8, <1>9, <1>10, <1>11, <1>12 DEF Next, Lifecycle

\* Nothing else finds a way to call back.
LEMMA SilentStep == DetectionInv /\ [Next]_vars => Silent'
  <1> SUFFICES ASSUME DetectionInv, [Next]_vars PROVE Silent'
    OBVIOUS
  <1>1. Ending /\ Queued /\ Silent
    BY DEF DetectionInv
  <1>2. CASE OpDisposed
    <2>1. ~torn /\ torn' /\ unread' = reads /\ reads' = reads /\ late' = late
      BY <1>1, <1>2 DEF OpDisposed, Ending, refreshing
    <2> QED
      BY <1>1, <2>1 DEF Silent
  <1>3. CASE CheckoutRead
    <2>1. /\ reads > 0 /\ reads' = reads - 1 /\ UNCHANGED <<torn, unread>>
          /\ late' = late \/ late' = IF torn THEN late + 1 ELSE late
      BY <1>3 DEF CheckoutRead, HandleOpHeadChange, RefreshOrDefer, Refresh, Defer, refreshing,
         life
    <2> QED
      BY <1>1, <2>1 DEF Silent
  <1>4. CASE torn /\ ~CheckoutRead
    <2>1. /\ disposed /\ ~pollTimer /\ tasks = <<>> /\ teardown = "none"
          /\ wcWatcher = "none" /\ opWatcher = "none" /\ modeTask = "none" /\ opTask = "none"
      BY <1>1, <1>4 DEF Ending, Queued
    <2>2. UNCHANGED <<torn, reads, late, unread>>
      BY <1>4, <2>1
      DEF Next, Lifecycle, DeferredFires, FileEvent, OpHeadEvent, OpReconnected, Saved,
          PollFires, BeginPoll, PollEnds, WriteBegins, WritesOver, WindowChanges,
          ThrottleOver, ConfigChanges, WcFails, OpFails, Dispose, ModeTask, WcStopped,
          WcPrepared, WcStarted, WcStartFails, OpFound, OpStarted, OpTryFails, OpRetries,
          Teardown, WcDisposed, OpDisposed, TakeTask, opOthers, outside, life, refresh,
          refreshing, reading, vars
    <2> QED
      BY <1>1, <2>2 DEF Silent
  <1>5. CASE ~torn /\ ~OpDisposed /\ ~CheckoutRead
    <2>1. /\ UNCHANGED <<torn, unread>>
          /\ reads' = reads \/ reads' = reads + 1
          /\ late' = late \/ late' = IF torn THEN late + 1 ELSE late
      BY <1>5
      DEF Next, Lifecycle, DeferredFires, FileEvent, OpHeadEvent, HandleOpHeadChange,
          OpReconnected, Saved, PollFires, PollEnds, WriteBegins, WritesOver, WindowChanges,
          ThrottleOver, ConfigChanges, WcFails, OpFails, Dispose, ModeTask, WcStopped,
          WcPrepared, WcStarted, WcStartFails, OpFound, OpStarted, OpTryFails, OpRetries,
          Teardown, WcDisposed, Refresh, RefreshOrDefer, Defer, opOthers, outside, life,
          refresh, refreshing, reading, vars
    <2> QED
      BY <1>1, <1>5, <2>1 DEF Silent
  <1> QED
    BY <1>2, <1>3, <1>4, <1>5

-----------------------------------------------------------------------------
(* What detects changes.                                                   *)

LEMMA DetectingStep == DetectionInv /\ [Next]_vars => Detecting'
  <1> SUFFICES ASSUME DetectionInv, [Next]_vars, ~disposed' PROVE Detecting'
    BY DEF Detecting
  <1>1. ~disposed
    BY DEF Next, Lifecycle, DeferredFires, FileEvent, OpHeadEvent, CheckoutRead, OpReconnected, Saved,
       PollFires, PollEnds, WriteBegins, WritesOver, WindowChanges, ThrottleOver,
       ConfigChanges, WcFails, OpFails, Dispose, ModeTask, WcStopped, WcPrepared, WcStarted,
       WcStartFails, OpFound, OpStarted, OpTryFails, OpRetries, Teardown, WcDisposed,
       OpDisposed, opOthers, outside, vars
  <1>2. /\ teardown = "none" /\ ~pollerDisposed
        /\ polling \in BOOLEAN /\ active \in BOOLEAN
        /\ tasks \in Seq({"mode", "teardown"})
        /\ \A i \in 1..Len(tasks) : tasks[i] = "mode"
    BY <1>1 DEF DetectionInv, Queued, Looping
  <1>3. Detecting
    BY DEF DetectionInv
  <1>4. ASSUME NEW m \in Modes, NEW a \in BOOLEAN, UpdatePollingState(m, a)
        PROVE polling' <=> (m = "polling" /\ a)
    BY <1>1, <1>2, <1>4 DEF UpdatePollingState, StartPolling, StopPolling, Modes
  <1>5. CASE WindowChanges
    BY <1>1, <1>2, <1>3, <1>4, <1>5 DEF WindowChanges, Detecting, life, Modes
  <1>6. CASE ConfigChanges
    <2>1. tasks' # <<>>
      BY <1>2, <1>6 DEF ConfigChanges
    <2> QED
      BY <1>1, <1>3, <1>6, <2>1 DEF ConfigChanges, Detecting, pollerVars
  <1>7. CASE ModeTask
    BY <1>1, <1>2, <1>3, <1>4, <1>7 DEF ModeTask, Proceed, StopPolling, TakeTask,
       LifecycleIdle, Detecting, outside, Modes
  <1>8. CASE WcStopped
    BY <1>1, <1>2, <1>3, <1>4, <1>8 DEF WcStopped, Proceed, StopPolling, Detecting, outside, Modes
  <1>9. CASE WcPrepared
    BY <1>1, <1>2, <1>3, <1>4, <1>9 DEF WcPrepared, Detecting, outside, pollerVars, Modes
  <1>10. CASE WcStarted
    BY <1>1, <1>2, <1>3, <1>4, <1>10 DEF WcStarted, Detecting, outside, Modes
  <1>11. CASE WcStartFails \/ WcFails
    BY <1>1, <1>2, <1>3, <1>4, <1>11 DEF WcStartFails, WcFails, FallBack, Detecting, outside, Modes
  <1>12. CASE Teardown \/ WcDisposed \/ OpDisposed \/ Dispose
    <2>1. ~Dispose
      BY DEF Dispose
    <2>2. ~WcDisposed /\ ~OpDisposed
      BY <1>2 DEF WcDisposed, OpDisposed
    <2>3. ~Teardown
      BY <1>2, TakeTaskStep DEF Teardown, DetectionInv
    <2> QED
      BY <1>12, <2>1, <2>2, <2>3
  <1>13. CASE \/ DeferredFires \/ FileEvent \/ OpHeadEvent \/ CheckoutRead \/ OpReconnected \/ Saved
              \/ PollFires \/ PollEnds \/ WriteBegins \/ WritesOver \/ ThrottleOver \/ OpFails
              \/ OpFound \/ OpStarted \/ OpTryFails \/ OpRetries \/ UNCHANGED vars
    <2>1. UNCHANGED <<config, mode, active, modeTask, wcWatcher, tasks, polling>>
      BY <1>13 DEF DeferredFires, FileEvent, OpHeadEvent, CheckoutRead, OpReconnected, Saved, PollFires,
         PollEnds, BeginPoll, EndPoll, WriteBegins, WritesOver, ThrottleOver, OpFails,
         OpFound, OpStarted, OpTryFails, OpRetries, opOthers, life, outside, pollerVars, vars
    <2> QED
      BY <1>1, <1>3, <2>1 DEF Detecting
  <1> QED
    BY <1>5, <1>6, <1>7, <1>8, <1>9, <1>10, <1>11, <1>12, <1>13 DEF Next, Lifecycle

-----------------------------------------------------------------------------
LEMMA DetectionInvAlways == Spec => []DetectionInv
  <1>1. DetectionInv /\ [Next]_vars => DetectionInv'
    BY OwingStep, LoopingStep, QueuedStep, EndingStep, SilentStep, DetectingStep
    DEF DetectionInv
  <1> QED
    BY <1>1, DetectionInvInit, PTL DEF Spec

\* A change reported during jj's own writes stays owed until a refresh covers it, and
\* the deferred refresh is armed for it, with a snapshot if the change needs one.
THEOREM NothingIsForgotten == Spec => []NothingOwedIsForgotten
  BY DetectionInvAlways, PTL DEF DetectionInv, Owing

\* Between the transitions exactly one of the poller and the watcher is at work.
THEOREM SomethingDetects == Spec => []ChangesAreDetected
  <1>1. DetectionInv => ChangesAreDetected
    BY DEF DetectionInv, Looping, Detecting, ChangesAreDetected, LifecycleIdle
  <1> QED
    BY <1>1, DetectionInvAlways, PTL

\* After the teardown no watcher, task or poller is left, whatever dispose() met; and as
\* many refreshes at most are still asked for as reads of the checkout file were under way
\* when it ended.
THEOREM TeardownIsComplete == Spec => []TornDownIsSilent
  <1>1. DetectionInv => TornDownIsSilent
    BY DEF DetectionInv, Ending, Silent, TornDownIsSilent
  <1> QED
    BY <1>1, DetectionInvAlways, PTL
==============================================================================
