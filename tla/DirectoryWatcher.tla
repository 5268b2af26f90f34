------------------------- MODULE DirectoryWatcher --------------------------
(***************************************************************************)
(* src/core/directory-watcher.ts: one directory watched through a native   *)
(* or remote subscription that may fail at any time, re-established after  *)
(* a delay, given up for good after MaxRetries or on an inotify limit, and *)
(* stopped or disposed at any moment of all this.                          *)
(*                                                                         *)
(* Init, Next, Spec and disposed carry the watcher's name, so that a       *)
(* module may speak of this one and of ChangeDetection together.           *)
(*                                                                         *)
(* watch() is external: it opens or fails, and an open subscription may    *)
(* report errors until unsubscribe() is done with it.  A name is given to  *)
(* another subscription once the one it stood for is gone.  The delay is a *)
(* function of _retryCount, reset and stepped with it, and is left out.    *)
(*                                                                         *)
(* start() is not called while stop() is in progress: ChangeDetection-     *)
(* Manager, its only user, starts each watcher it creates once.            *)
(***************************************************************************)
EXTENDS Naturals, FiniteSets

CONSTANTS MaxRetries,      \* reconnectOptions.maxRetries
          MaxSubs,         \* bound on the subscriptions not yet gone
          MaxStarts        \* bound on the calls of start()

ASSUME WatcherAssumption == /\ MaxRetries \in Nat /\ MaxSubs \in Nat \ {0}
                            /\ MaxStarts \in Nat

Subs == 1..MaxSubs
Outcomes == {"ok", "failed", "limit"}   \* limit: an inotify watch limit error

VARIABLES sub,             \* each subscription, as its provider sees it
          subscription,    \* _subscription, 0 if undefined
          starting,        \* where startInternal() of _startPromise is, or "none"
          opening,         \* the subscription that call asks for
          timer,           \* _reconnectTimeout is set
          attempt,         \* attemptReconnect(): "none", "awaiting", or what it got
          isReconnecting,  \* _isReconnecting
          stopping,        \* stopInternal(): "none", "waiting", "unsubscribing"
          stopped, watcherDisposed, retryCount,
          starts,          \* how many calls of start() there were
          promised,        \* history: a start got a working subscription, and nothing ended it
          failures         \* history: permanent failures reported since start()

watcherVars == <<sub, subscription, starting, opening, timer, attempt, isReconnecting,
                 stopping, stopped, watcherDisposed, retryCount, starts, promised, failures>>

Halted == watcherDisposed \/ stopped

\* Continuations of settled promises run before the next event is delivered.
NoMicrotasks == starting \notin Outcomes /\ attempt \notin Outcomes

WatcherInit == /\ sub = [n \in Subs |-> "gone"]
               /\ subscription = 0
               /\ starting = "none" /\ opening = 0
               /\ timer = FALSE /\ attempt = "none" /\ isReconnecting = FALSE
               /\ stopping = "none" /\ stopped = FALSE /\ watcherDisposed = FALSE
               /\ retryCount = 0 /\ starts = 0
               /\ promised = FALSE /\ failures = 0

-----------------------------------------------------------------------------
\* startInternal() up to its first await.
BeginStart == starting' = IF subscription # 0 \/ watcherDisposed THEN "ok" ELSE "backend"

\* start(): takes over from a pending reconnect, joins a start in flight.
Start ==
    /\ starts < MaxStarts
    /\ stopping = "none"
    /\ starts' = starts + 1
    /\ stopped' = FALSE
    /\ failures' = 0
    /\ timer' = FALSE
    /\ IF starting # "none" THEN UNCHANGED starting ELSE BeginStart
    /\ UNCHANGED <<sub, subscription, opening, attempt, isReconnecting,
                   stopping, watcherDisposed, retryCount, promised>>

\* The backend is known; watch() is asked for a new subscription.
BackendReady ==
    /\ starting = "backend"
    /\ IF Halted
       THEN starting' = "ok" /\ UNCHANGED <<opening, sub>>
       ELSE /\ \E n \in Subs : /\ sub[n] = "gone"
                               /\ \A m \in Subs : m < n => sub[m] # "gone"
                               /\ opening' = n
                               /\ sub' = [sub EXCEPT ![n] = "requested"]
            /\ starting' = "watching"
    /\ UNCHANGED <<subscription, timer, attempt, isReconnecting, stopping,
                   stopped, watcherDisposed, retryCount, starts, promised, failures>>

\* The provider has set the watch up; its answer is on the way.
Established ==
    /\ NoMicrotasks
    /\ starting = "watching"
    /\ sub[opening] = "requested"
    /\ sub' = [sub EXCEPT ![opening] = "open"]
    /\ UNCHANGED <<subscription, starting, opening, timer, attempt, isReconnecting,
                   stopping, stopped, watcherDisposed, retryCount, starts, promised, failures>>

\* watch() resolves: kept, or given back if the watcher was stopped meanwhile.
WatchOpens ==
    /\ NoMicrotasks
    /\ starting = "watching"
    /\ sub[opening] \in {"open", "broken"}
    /\ IF Halted
       THEN /\ starting' = "unsubscribing"
            /\ sub' = [sub EXCEPT ![opening] = "closed"]
            /\ UNCHANGED <<subscription, retryCount, promised>>
       ELSE /\ starting' = "ok"
            /\ subscription' = opening
            /\ retryCount' = 0
            /\ promised' = (sub[opening] = "open")
            /\ UNCHANGED sub
    /\ UNCHANGED <<opening, timer, attempt, isReconnecting,
                   stopping, stopped, watcherDisposed, starts, failures>>

WatchFails(outcome) ==
    /\ outcome # "ok"
    /\ NoMicrotasks
    /\ starting = "watching"
    /\ sub[opening] = "requested"
    /\ sub' = [sub EXCEPT ![opening] = "gone"]
    /\ starting' = outcome
    /\ UNCHANGED <<subscription, opening, timer, attempt, isReconnecting, stopping,
                   stopped, watcherDisposed, retryCount, starts, promised, failures>>

UnsubscribedUnwanted ==
    /\ starting = "unsubscribing"
    /\ starting' = "ok"
    /\ UNCHANGED <<sub, subscription, opening, timer, attempt, isReconnecting, stopping,
                   stopped, watcherDisposed, retryCount, starts, promised, failures>>

\* _startPromise settles and is forgotten; the attempt that awaits it resumes.
StartSettles ==
    /\ starting \in Outcomes
    /\ starting' = "none"
    /\ attempt' = IF attempt = "awaiting" THEN starting ELSE attempt
    /\ promised' = (promised /\ (starting = "ok" \/ attempt = "awaiting"))
    /\ UNCHANGED <<sub, subscription, opening, timer, isReconnecting, stopping,
                   stopped, watcherDisposed, retryCount, starts, failures>>

-----------------------------------------------------------------------------
NotifyPermanentFailure ==
    /\ stopped' = TRUE
    /\ timer' = FALSE
    /\ failures' = failures + 1
    /\ promised' = FALSE

\* scheduleReconnect(), on a watcher that is not halted.
ScheduleReconnect(reconnecting) ==
    IF ~timer /\ ~reconnecting /\ retryCount >= MaxRetries
    THEN NotifyPermanentFailure /\ UNCHANGED retryCount
    ELSE /\ IF timer \/ reconnecting THEN UNCHANGED <<timer, retryCount>>
            ELSE timer' = TRUE /\ retryCount' = retryCount + 1
         /\ UNCHANGED <<stopped, failures, promised>>

\* What is left of subscription n once it reported an error.
Broken(s, n) == [s EXCEPT ![n] = IF @ = "open" THEN "broken" ELSE "gone"]
Closed(s, n) == IF n = 0 THEN s ELSE [s EXCEPT ![n] = "closed"]

SubErrorKeepingDead(n, limit) ==
    /\ NoMicrotasks
    /\ sub[n] \in {"open", "closed"}
    /\ sub' = Broken(sub, n)
    /\ IF Halted
       THEN UNCHANGED <<subscription, timer, retryCount, stopped, failures, promised>>
       ELSE /\ subscription' = 0
            /\ IF limit THEN NotifyPermanentFailure /\ UNCHANGED retryCount
                        ELSE ScheduleReconnect(isReconnecting)
    /\ UNCHANGED <<starting, opening, attempt, isReconnecting, stopping, watcherDisposed, starts>>

\* The event handler gets an error, from any subscription not yet closed for
\* good: the current one is unsubscribed, without waiting, whichever reported it.
SubError(n, limit) ==
    /\ NoMicrotasks
    /\ sub[n] \in {"open", "closed"}
    /\ IF Halted
       THEN /\ sub' = Broken(sub, n)
            /\ UNCHANGED <<subscription, timer, retryCount, stopped, failures, promised>>
       ELSE /\ sub' = Closed(Broken(sub, n), subscription)
            /\ subscription' = 0
            /\ IF limit THEN NotifyPermanentFailure /\ UNCHANGED retryCount
                        ELSE ScheduleReconnect(isReconnecting)
    /\ UNCHANGED <<starting, opening, attempt, isReconnecting, stopping, watcherDisposed, starts>>

\* An unsubscribed subscription is closed for good.
Unsubscribed(n) ==
    /\ sub[n] = "closed"
    /\ sub' = [sub EXCEPT ![n] = "gone"]
    /\ UNCHANGED <<subscription, starting, opening, timer, attempt, isReconnecting, stopping,
                   stopped, watcherDisposed, retryCount, starts, promised, failures>>

\* The reconnect timer fires: attemptReconnect() up to its await.
TimerFires ==
    /\ timer
    /\ NoMicrotasks
    /\ timer' = FALSE
    /\ IF Halted THEN UNCHANGED <<isReconnecting, attempt, starting>>
       ELSE /\ isReconnecting' = TRUE
            /\ attempt' = "awaiting"
            /\ IF starting # "none" THEN UNCHANGED starting ELSE BeginStart
    /\ UNCHANGED <<sub, subscription, opening, stopping, stopped, watcherDisposed,
                   retryCount, starts, promised, failures>>

AttemptResumesOnce ==
    /\ attempt \in Outcomes
    /\ attempt' = "none"
    /\ isReconnecting' = FALSE
    /\ IF ~Halted /\ attempt = "limit"
       THEN NotifyPermanentFailure /\ UNCHANGED retryCount
       ELSE /\ retryCount' = IF Halted THEN retryCount ELSE 0
            /\ UNCHANGED <<timer, stopped, failures, promised>>
    /\ UNCHANGED <<sub, subscription, starting, opening, stopping, watcherDisposed, starts>>

AttemptStaysWhenHalted ==
    /\ ~Halted
    /\ attempt \in Outcomes
    /\ attempt' = "none"
    /\ isReconnecting' = FALSE
    /\ CASE attempt = "ok" -> retryCount' = 0 /\ UNCHANGED <<timer, stopped, failures, promised>>
         [] attempt = "limit" -> NotifyPermanentFailure /\ UNCHANGED retryCount
         [] attempt = "failed" -> ScheduleReconnect(FALSE)
    /\ UNCHANGED <<sub, subscription, starting, opening, stopping, watcherDisposed, starts>>

\* attemptReconnect() goes on once the start has settled.
AttemptResumes ==
    /\ attempt \in Outcomes
    /\ attempt' = "none"
    /\ isReconnecting' = FALSE
    /\ CASE Halted -> UNCHANGED <<timer, retryCount, stopped, failures, promised>>
         [] ~Halted /\ attempt = "ok" ->
               retryCount' = 0 /\ UNCHANGED <<timer, stopped, failures, promised>>
         [] ~Halted /\ attempt = "limit" -> NotifyPermanentFailure /\ UNCHANGED retryCount
         [] ~Halted /\ attempt = "failed" -> ScheduleReconnect(FALSE)
    /\ UNCHANGED <<sub, subscription, starting, opening, stopping, watcherDisposed, starts>>

-----------------------------------------------------------------------------
\* stopInternal() up to its first await, if stop() is not in progress already.
BeginStop ==
    /\ promised' = FALSE
    /\ IF stopping # "none"
       THEN UNCHANGED <<stopped, timer, isReconnecting, retryCount, stopping>>
       ELSE /\ stopped' = TRUE
            /\ timer' = FALSE
            /\ isReconnecting' = FALSE
            /\ retryCount' = 0
            /\ stopping' = "waiting"

Stop ==
    /\ BeginStop
    /\ UNCHANGED <<sub, subscription, starting, opening, attempt, watcherDisposed, starts, failures>>

DisposeWatcher ==
    /\ ~watcherDisposed
    /\ watcherDisposed' = TRUE
    /\ BeginStop
    /\ UNCHANGED <<sub, subscription, starting, opening, attempt, starts, failures>>

\* The reconnect and the start in flight are over: the subscription goes.
StopTakesOver ==
    /\ stopping = "waiting"
    /\ attempt = "none" /\ starting = "none"
    /\ sub' = Closed(sub, subscription)
    /\ subscription' = 0
    /\ stopping' = IF subscription = 0 THEN "none" ELSE "unsubscribing"
    /\ UNCHANGED <<starting, opening, timer, attempt, isReconnecting, stopped,
                   watcherDisposed, retryCount, starts, promised, failures>>

\* unsubscribe() is done, or has taken two seconds.
StopEnds ==
    /\ stopping = "unsubscribing"
    /\ stopping' = "none"
    /\ UNCHANGED <<sub, subscription, starting, opening, timer, attempt, isReconnecting,
                   stopped, watcherDisposed, retryCount, starts, promised, failures>>

WatchSettles == WatchOpens \/ \E o \in Outcomes : WatchFails(o)
Continue == \/ BackendReady \/ UnsubscribedUnwanted \/ StartSettles
            \/ AttemptResumes \/ StopTakesOver \/ StopEnds

WatcherNext == \/ Start \/ Stop \/ DisposeWatcher
               \/ Continue \/ Established \/ WatchSettles \/ TimerFires
               \/ \E n \in Subs : Unsubscribed(n) \/ \E limit \in BOOLEAN : SubError(n, limit)

WatcherSpec == WatcherInit /\ [][WatcherNext]_watcherVars

\* watch() and unsubscribe() settle, timers fire, continuations run.
WatcherFairness == /\ WF_watcherVars(Continue)
                   /\ WF_watcherVars(Established \/ WatchSettles)
                   /\ WF_watcherVars(TimerFires)
                   /\ WF_watcherVars(\E n \in Subs : Unsubscribed(n))

WatcherFairSpec == WatcherSpec /\ WatcherFairness

-----------------------------------------------------------------------------
\* The fields' types; the retry count never passes its limit, and a
\* permanent failure is reported at most once, however many errors arrive after it.
FieldsOK == /\ sub \in [Subs -> {"requested", "open", "broken", "closed", "gone"}]
            /\ starting \in {"none", "backend", "watching", "unsubscribing"} \cup Outcomes
            /\ attempt \in {"none", "awaiting"} \cup Outcomes
            /\ stopping \in {"none", "waiting", "unsubscribing"}
            /\ timer \in BOOLEAN /\ isReconnecting \in BOOLEAN /\ promised \in BOOLEAN
            /\ stopped \in BOOLEAN /\ watcherDisposed \in BOOLEAN
TypeOK == /\ FieldsOK
          /\ subscription \in 0..MaxSubs /\ opening \in 0..MaxSubs
          /\ retryCount \in 0..MaxRetries
          /\ starts \in 0..MaxStarts /\ failures \in 0..1

\* No subscription is orphaned: one that was opened and not unsubscribed is the
\* current one or the one the start in flight is about to keep or give back, and
\* there are never two of them reporting the same events.
NoOrphan ==
    LET owned == {n \in Subs : sub[n] \in {"open", "broken"}}
    IN  /\ owned \subseteq {subscription} \cup (IF starting = "watching" THEN {opening} ELSE {})
        /\ Cardinality(owned) <= 1

\* A watcher whose start got a working subscription, and that was neither stopped
\* nor given up since, is never deaf: it holds a working subscription, or it is on
\* its way to one.  (startInternal() also keeps a subscription whose error came
\* before watch() had resolved; that start promises nothing here.)
NeverDeaf ==
    promised => \/ subscription # 0 /\ sub[subscription] = "open"
                \/ timer
                \/ starting # "none" \/ attempt # "none"

\* Once stopped, and once what was in flight has settled, nothing is held and
\* nothing is armed that could start the watcher again.
StopIsFinal ==
    Halted => /\ ~timer
              /\ starting = "none" /\ attempt = "none" /\ stopping = "none" =>
                    subscription = 0 /\ \A n \in Subs : sub[n] \notin {"open", "broken"}

\* A watcher that lost its subscription gets another one, or gives up and says so.
LossIsResolved ==
    promised /\ subscription = 0 ~> subscription # 0 \/ Halted \/ ~promised

\* stop() ends, even when it meets a start or a reconnect in flight.
StopResolves == stopping # "none" ~> stopping = "none"

\* What was opened belongs to somebody: to the field or to the start in flight while
\* the watcher runs, to nobody once it has stopped.
NothingLeftOpen == TypeOK /\ NoOrphan /\ StopIsFinal

\* Neither a loss nor a stop hangs on the start or the reconnect it meets.
TransitionsEnd == LossIsResolved /\ StopResolves
=============================================================================
