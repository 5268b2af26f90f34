-------------------------- MODULE ChangeDetection --------------------------
(***************************************************************************)
(* src/core/change-detection-manager.ts: decides when a repository is      *)
(* refreshed.  It polls, or watches the working copy, as the configuration *)
(* says and as the watcher allows; it watches jj's operation heads; and it *)
(* puts off the refreshes asked for while jj writes.                       *)
(*                                                                         *)
(* The two DirectoryWatchers are seen through what they promise (module    *)
(* DirectoryWatcher): start() resolves or rejects, a started watcher       *)
(* reports events until it is stopped, or fails for good and says so.      *)
(*                                                                         *)
(* busy stands for hasActiveOrRecentWrites: a write of jj's in progress,   *)
(* or half a second not yet over since one or since lastExternalOpTime.    *)
(* owed, late and unread record history for the properties; the code does  *)
(* not have them.                                                          *)
(***************************************************************************)
EXTENDS Poller, Sequences

CONSTANTS MaxNoise,        \* bound on jj's writes and on the op head events
          MaxConfigs,      \* bound on the changes of configuration
          MaxOpRetries     \* maxRetries of startOpHeadsWatcher

ASSUME DetectionAssumption == /\ MaxNoise \in Nat /\ MaxConfigs \in Nat
                              /\ MaxOpRetries \in Nat \ {0}

Modes == {"polling", "watch"}

VARIABLES disposed,        \* _disposed
          torn,            \* the teardown task is done
          config, configs, \* the configured mode, and how often it changed
          mode,            \* _fileWatcherMode
          active,          \* _isActive
          wcWatcher,       \* _workingCopyWatcher, by what it is doing
          modeTask,        \* await of updateFileWatcherModeInternal, or "none"
          opWatcher,       \* _opHeadsWatcher, by what it is doing
          opTask,          \* await of startOpHeadsWatcher, or "none"
          opRetries,       \* retries
          opSubdir,        \* hasOpHeadsSubdir
          reads,           \* reads of the checkout file under way
          teardown,        \* await of dispose's task, or "none"
          tasks,           \* tasks chained on _lifecyclePromise, not yet begun
          deferred,        \* _deferredRefreshTimeout is set
          pendingForce,    \* _pendingForceSnapshot
          busy, noise,     \* hasActiveOrRecentWrites, and how often it was caused
          throttled,       \* ACTIVE_REFRESH_THROTTLE_MS not over
          owed,            \* refreshes reported events still call for
          late,            \* how many refreshes were asked for after the teardown
          unread           \* reads that were under way when it ended

opStart == <<opTask, opRetries, opSubdir>>
life == <<torn, mode, wcWatcher, modeTask, opWatcher, opStart, teardown, tasks>>
refreshing == <<deferred, pendingForce, owed, late>>
reading == <<reads, unread>>
refresh == <<refreshing, reading>>
outside == <<config, configs, active, busy, noise, throttled, disposed>>
vars == <<pollerVars, life, refresh, outside>>

LifecycleIdle == modeTask = "none" /\ opTask = "none" /\ teardown = "none"

\* The constructor: both watchers begin, polling starts if it is configured.
Init == /\ config \in Modes /\ mode = config /\ configs = 0
        /\ active \in BOOLEAN
        /\ PollerInit(mode = "polling" /\ active)
        /\ modeTask = IF mode = "watch" THEN "preparing" ELSE "none"
        /\ wcWatcher = "none"
        /\ opWatcher = "none" /\ opTask = "looking" /\ opRetries = 0
        /\ opSubdir = TRUE /\ reads = 0
        /\ teardown = "none" /\ tasks = <<>> /\ torn = FALSE /\ disposed = FALSE
        /\ deferred = FALSE /\ pendingForce = FALSE
        /\ busy = FALSE /\ noise = 0 /\ throttled = FALSE
        /\ owed = {} /\ late = 0 /\ unread = 0

-----------------------------------------------------------------------------
(* Refreshing, now or later.                                               *)

\* triggerRefresh: a snapshot also reads the operations.
Refresh(force) == /\ owed' = IF force THEN {} ELSE owed \ {"operation"}
                  /\ late' = IF torn THEN late + 1 ELSE late

Needs(force) == IF force THEN {"snapshot"} ELSE {"operation"}

DeferLastWins(force) == /\ pendingForce' = force
                        /\ deferred' = TRUE
                        /\ owed' = owed \cup Needs(force)
                        /\ UNCHANGED late

\* _scheduleDeferredRefresh, for an event that needs it.
Defer(force) == /\ pendingForce' = (pendingForce \/ force)
                /\ deferred' = TRUE
                /\ owed' = owed \cup Needs(force)
                /\ UNCHANGED late

RefreshOrDefer(force) ==
    \/ busy /\ Defer(force)
    \/ ~busy /\ Refresh(force) /\ UNCHANGED <<deferred, pendingForce>>

DeferredFiresOnce ==
    /\ deferred
    /\ deferred' = FALSE
    /\ \/ (disposed \/ busy) /\ UNCHANGED <<pendingForce, owed, late, busy>>
       \/ /\ ~disposed /\ ~busy
          /\ busy' = TRUE
          /\ pendingForce' = FALSE
          /\ Refresh(pendingForce)
    /\ UNCHANGED <<pollerVars, life, reading, config, configs, active, noise, throttled,
                   disposed>>

\* The timer of a deferred refresh: still writing, and it is put off again.
DeferredFires ==
    /\ deferred
    /\ \/ disposed /\ deferred' = FALSE /\ UNCHANGED <<pendingForce, owed, late, busy>>
       \/ ~disposed /\ busy /\ UNCHANGED <<refreshing, busy>>
       \/ /\ ~disposed /\ ~busy
          /\ deferred' = FALSE
          /\ busy' = TRUE
          /\ pendingForce' = FALSE
          /\ Refresh(pendingForce)
    /\ UNCHANGED <<pollerVars, life, reading, config, configs, active, noise, throttled,
                   disposed>>

\* A working copy event, or the watcher's reconnection: after it, anything may
\* have changed.  Events still arrive between dispose() and the teardown.
FileEvent == /\ wcWatcher = "watching"
             /\ RefreshOrDefer(TRUE)
             /\ UNCHANGED <<pollerVars, life, reading, outside>>

HandleOpHeadChange == RefreshOrDefer(FALSE) /\ busy' = TRUE

\* An operation was recorded: by jj-view itself while busy, else by someone else.
\* Without an op_heads/heads directory the checkout file must first be read.
OpHeadEvent ==
    /\ opWatcher = "watching"
    /\ noise < MaxNoise /\ noise' = noise + 1
    /\ \/ opSubdir /\ HandleOpHeadChange /\ UNCHANGED reads
       \/ ~opSubdir /\ reads' = reads + 1 /\ UNCHANGED <<refreshing, busy>>
    /\ UNCHANGED <<pollerVars, life, unread, config, configs, active, throttled, disposed>>

\* It is read, or cannot be: nobody looks whether dispose() came meanwhile.  A file
\* that is as it was says nothing.
CheckoutRead ==
    /\ reads > 0 /\ reads' = reads - 1
    /\ HandleOpHeadChange \/ UNCHANGED <<refreshing, busy>>
    /\ UNCHANGED <<pollerVars, life, unread, config, configs, active, noise, throttled,
                   disposed>>

OpReconnected == /\ opWatcher = "watching"
                 /\ ~disposed
                 /\ RefreshOrDefer(FALSE)
                 /\ UNCHANGED <<pollerVars, life, reading, outside>>

\* A document of the working copy is saved in the editor.
Saved == /\ ~disposed
         /\ Refresh(TRUE)
         /\ UNCHANGED <<pollerVars, life, deferred, pendingForce, reading, outside>>

\* The poller's callback.
PollFires == /\ BeginPoll
             /\ IF busy THEN UNCHANGED <<owed, late>> ELSE Refresh(TRUE)
             /\ UNCHANGED <<life, deferred, pendingForce, reading, outside>>

PollEnds == EndPoll /\ UNCHANGED <<life, refresh, outside>>

\* jj-view starts a write; the write, and the half second after it, are over.
WriteBegins == /\ noise < MaxNoise /\ noise' = noise + 1
               /\ busy' = TRUE
               /\ UNCHANGED <<pollerVars, life, refresh, config, configs, active,
                              throttled, disposed>>
WritesOver == /\ busy
              /\ busy' = FALSE
              /\ UNCHANGED <<pollerVars, life, refresh, config, configs, active, noise,
                             throttled, disposed>>

-----------------------------------------------------------------------------
(* The mode, the window and the poller.                                    *)

\* updatePollingState, with the values the fields have by then.
UpdatePollingState(m, a) ==
    IF m = "polling" /\ a /\ ~disposed THEN StartPolling ELSE StopPolling

\* onWindowStateChange
WindowChanges ==
    /\ ~disposed
    /\ active' = ~active
    /\ UpdatePollingState(mode, active')
    /\ IF active' /\ ~throttled
       THEN RefreshOrDefer(TRUE) /\ throttled' = ~busy
       ELSE UNCHANGED <<refreshing, throttled>>
    /\ UNCHANGED <<life, reading, config, configs, busy, noise, disposed>>

ThrottleOver == /\ throttled
                /\ throttled' = FALSE
                /\ UNCHANGED <<pollerVars, life, refresh, config, configs, active, busy,
                               noise, disposed>>

\* The configuration changes: its listener queues a task.
ConfigChanges ==
    /\ ~disposed
    /\ configs < MaxConfigs /\ configs' = configs + 1
    /\ \E m \in Modes \ {config} : config' = m
    /\ tasks' = Append(tasks, "mode")
    /\ UNCHANGED <<pollerVars, refresh, active, busy, noise, throttled, disposed, torn,
                   mode, wcWatcher, modeTask, opWatcher, opStart, teardown>>

TakeTask(task) == /\ LifecycleIdle
                  /\ tasks # <<>> /\ Head(tasks) = task
                  /\ tasks' = Tail(tasks)

\* startWorkingCopyWatchingInternal after the stop, up to its await.
Proceed == IF mode' = "watch" /\ ~disposed
           THEN modeTask' = "preparing" /\ StopPolling
           ELSE modeTask' = "none" /\ UpdatePollingState(mode', active)

\* updateFileWatcherModeInternal up to its first await.
ModeTask ==
    /\ TakeTask("mode")
    /\ IF disposed THEN UNCHANGED <<mode, wcWatcher, modeTask, pollerVars>>
       ELSE /\ mode' = config
            /\ CASE config = mode -> /\ UpdatePollingState(mode, active)
                                     /\ UNCHANGED <<modeTask, wcWatcher>>
                 [] config # mode /\ wcWatcher # "none" ->
                       /\ modeTask' = "stopping" /\ wcWatcher' = "stopping"
                       /\ StopPolling
                 [] config # mode /\ wcWatcher = "none" -> Proceed /\ UNCHANGED wcWatcher
    /\ UNCHANGED <<refresh, outside, torn, opWatcher, opStart, teardown>>

WcStopped ==
    /\ modeTask = "stopping"
    /\ wcWatcher' = "none"
    /\ UNCHANGED mode
    /\ Proceed
    /\ UNCHANGED <<refresh, outside, torn, opWatcher, opStart, teardown, tasks>>

\* The ignore patterns and the watch root are known.
WcPrepared ==
    /\ modeTask = "preparing"
    /\ IF disposed \/ mode # "watch"
       THEN /\ modeTask' = "none" /\ UpdatePollingState(mode, active)
            /\ UNCHANGED wcWatcher
       ELSE /\ modeTask' = "starting" /\ wcWatcher' = "starting"
            /\ UNCHANGED pollerVars
    /\ UNCHANGED <<refresh, outside, torn, mode, opWatcher, opStart, teardown, tasks>>

\* start() resolves, for a watcher that may have failed for good meanwhile.
WcStarted ==
    /\ modeTask = "starting"
    /\ modeTask' = "none"
    /\ wcWatcher' = IF wcWatcher = "starting" THEN "watching" ELSE wcWatcher
    /\ UpdatePollingState(mode, active)
    /\ UNCHANGED <<refresh, outside, torn, mode, opWatcher, opStart, teardown, tasks>>

FallBackKeepingMode == wcWatcher' = "none" /\ UNCHANGED <<mode, pollerVars>>

\* The watcher is let go and polling takes its place.
FallBack == /\ wcWatcher' = "none"
            /\ mode' = "polling"
            /\ UpdatePollingState("polling", active)

WcStartFails ==
    /\ modeTask = "starting"
    /\ modeTask' = "none"
    /\ FallBack
    /\ UNCHANGED <<refresh, outside, torn, opWatcher, opStart, teardown, tasks>>

\* onPermanentFailure of the working copy watcher.
WcFails ==
    /\ wcWatcher \in {"starting", "watching"}
    /\ FallBack
    /\ UNCHANGED <<refresh, outside, torn, modeTask, opWatcher, opStart, teardown, tasks>>

-----------------------------------------------------------------------------
(* startOpHeadsWatcher.                                                    *)

opOthers == <<pollerVars, refresh, outside, torn, mode, wcWatcher, modeTask, teardown,
              tasks>>

\* The repository's store is found, and what to watch in it.
OpFound == /\ opTask = "looking"
           /\ IF disposed THEN opTask' = "none" /\ UNCHANGED <<opWatcher, opSubdir>>
                          ELSE /\ opTask' = "starting" /\ opWatcher' = "starting"
                               /\ opSubdir' \in BOOLEAN
           /\ UNCHANGED <<opOthers, opRetries>>

OpStarted == /\ opTask = "starting"
             /\ opTask' = "none"
             /\ opWatcher' = IF opWatcher = "starting" THEN "watching" ELSE opWatcher
             /\ UNCHANGED <<opOthers, opRetries, opSubdir>>

\* The lookup or the start throws: again in 200 ms, a limited number of times.
OpTryFails == /\ opTask \in {"looking", "starting"}
              /\ opWatcher' = IF opTask = "starting" /\ opWatcher # "none" THEN "dead" ELSE opWatcher
              /\ IF disposed THEN opTask' = "none" /\ UNCHANGED opRetries
                 ELSE /\ opRetries' = opRetries + 1
                      /\ opTask' = IF opRetries' < MaxOpRetries THEN "sleeping" ELSE "none"
              /\ UNCHANGED <<opOthers, opSubdir>>

OpRetries == /\ opTask = "sleeping"
             /\ opTask' = IF disposed THEN "none" ELSE "looking"
             /\ UNCHANGED <<opOthers, opRetries, opSubdir, opWatcher>>

\* onPermanentFailure of the op heads watcher.
OpFails == /\ opWatcher \in {"starting", "watching"}
           /\ opWatcher' = "none"
           /\ UNCHANGED <<opOthers, opRetries, opSubdir, opTask>>

-----------------------------------------------------------------------------
(* dispose().                                                              *)

Dispose ==
    /\ ~disposed
    /\ disposed' = TRUE
    /\ deferred' = FALSE /\ pendingForce' = FALSE
    /\ tasks' = Append(tasks, "teardown")
    /\ UNCHANGED <<pollerVars, owed, late, reading, config, configs, active, busy, noise,
                   throttled, torn, mode, wcWatcher, modeTask, opWatcher, opStart,
                   teardown>>

TeardownUnqueued ==
    /\ tasks # <<>> /\ Head(tasks) = "teardown" /\ tasks' = Tail(tasks)
    /\ teardown = "none"
    /\ teardown' = "workingCopy"
    /\ wcWatcher' = IF wcWatcher = "none" THEN "none" ELSE "disposing"
    /\ StopPolling
    /\ UNCHANGED <<refresh, outside, torn, mode, modeTask, opWatcher, opStart>>

\* The teardown task up to its first await.
Teardown ==
    /\ TakeTask("teardown")
    /\ teardown' = "workingCopy"
    /\ wcWatcher' = IF wcWatcher = "none" THEN "none" ELSE "disposing"
    /\ StopPolling
    /\ UNCHANGED <<refresh, outside, torn, mode, modeTask, opWatcher, opStart>>

WcDisposed ==
    /\ teardown = "workingCopy"
    /\ teardown' = "opHeads"
    /\ wcWatcher' = "none"
    /\ opWatcher' = IF opWatcher = "none" THEN "none" ELSE "disposing"
    /\ DisposePoller
    /\ UNCHANGED <<refresh, outside, torn, mode, modeTask, opStart, tasks>>

OpDisposed ==
    /\ teardown = "opHeads"
    /\ teardown' = "none"
    /\ opWatcher' = "none"
    /\ torn' = TRUE
    /\ unread' = reads
    /\ UNCHANGED <<pollerVars, refreshing, reads, outside, mode, wcWatcher, modeTask, opStart,
                   tasks>>

Lifecycle == \/ ModeTask \/ WcStopped \/ WcPrepared \/ WcStarted \/ WcStartFails
             \/ OpFound \/ OpStarted \/ OpTryFails \/ OpRetries
             \/ Teardown \/ WcDisposed \/ OpDisposed

Next == \/ DeferredFires \/ FileEvent \/ OpHeadEvent \/ CheckoutRead \/ OpReconnected
        \/ Saved
        \/ PollFires \/ PollEnds \/ WriteBegins \/ WritesOver
        \/ WindowChanges \/ ThrottleOver \/ ConfigChanges
        \/ Lifecycle \/ WcFails \/ OpFails \/ Dispose

Spec == Init /\ [][Next]_vars

\* Timers fire, writes end (jj is killed when it overruns), and what a lifecycle
\* task awaits settles: DirectoryWatcher's start() and stop() always do.
Fairness == /\ WF_vars(DeferredFires)
            /\ WF_vars(WritesOver)
            /\ WF_vars(Lifecycle)

FairSpec == Spec /\ Fairness

-----------------------------------------------------------------------------
\* A change that was reported is not forgotten: until a refresh that covers it,
\* the deferred refresh is armed, and forced if the change needs a snapshot.
NothingOwedIsForgotten ==
    ~disposed => /\ owed # {} => deferred
                 /\ "snapshot" \in owed => pendingForce

\* ... and that refresh comes, unless the manager is disposed first.
OwedIsPaid == owed # {} ~> owed = {} \/ disposed

\* Once no transition is in progress, something detects changes: the poller, whose
\* loop never stalls, while the window is active, or a working copy watcher; and
\* never both.
ChangesAreDetected ==
    /\ PollingGoesOn
    /\ LifecycleIdle /\ tasks = <<>> /\ ~disposed =>
        /\ mode = "watch"   => wcWatcher = "watching" /\ ~polling
        /\ mode = "polling" => wcWatcher = "none" /\ (polling <=> active)
        /\ config = "polling" => mode = "polling"

\* After the teardown no watcher, task or poller is left, and nothing calls back but
\* the reads of the checkout file that were under way then (change-detection-manager.ts
\* :286), once each.  What such a read defers comes to nothing.
TornDownIsSilent ==
    torn => /\ wcWatcher = "none" /\ opWatcher = "none"
            /\ modeTask = "none" /\ opTask = "none"
            /\ ~pollTimer /\ late + reads <= unread

\* What one would expect of dispose(): nothing calls back any more.
SilentAfterTeardown == torn => late = 0

\* dispose() ends, whatever transition it has to wait for.
DisposeEnds == disposed ~> torn

\* What the manager owes is done: the deferred refresh, and its own teardown.
DebtsArePaid == OwedIsPaid /\ DisposeEnds
=============================================================================
