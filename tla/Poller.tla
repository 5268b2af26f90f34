------------------------------- MODULE Poller -------------------------------
(***************************************************************************)
(* src/core/poller.ts: a loop that calls back, and waits one interval      *)
(* between the end of a call and the next.  force() has no caller in src/  *)
(* and is left out; the short delay of start(immediate) is not told apart  *)
(* from the interval.                                                      *)
(***************************************************************************)
EXTENDS Naturals

CONSTANT MaxPolls          \* bound on the callbacks running at once

ASSUME PollerAssumption == MaxPolls \in Nat \ {0}

VARIABLES pollTimer,       \* _timer is set
          polling,         \* _isPolling
          pollerDisposed,  \* _disposed
          polls            \* callbacks in progress

pollerVars == <<pollTimer, polling, pollerDisposed, polls>>

PollerInit(on) == /\ pollTimer = on
                  /\ polling = on
                  /\ pollerDisposed = FALSE
                  /\ polls = 0

\* start()
StartPolling == /\ polling' = (polling \/ ~pollerDisposed)
                /\ pollTimer' = (pollTimer \/ (~pollerDisposed /\ ~polling))
                /\ UNCHANGED <<pollerDisposed, polls>>

\* stop(): a callback in progress goes on.
StopPolling == /\ polling' = FALSE
               /\ pollTimer' = FALSE
               /\ UNCHANGED <<pollerDisposed, polls>>

DisposePoller == /\ pollerDisposed' = TRUE
                 /\ polling' = FALSE
                 /\ pollTimer' = FALSE
                 /\ UNCHANGED polls

\* execute() up to the callback's await.
BeginPoll == /\ pollTimer
             /\ polls < MaxPolls
             /\ pollTimer' = FALSE
             /\ polls' = polls + 1
             /\ UNCHANGED <<polling, pollerDisposed>>

\* The callback has settled: schedule(), unless stopped or already scheduled.
EndPoll == /\ polls > 0
           /\ polls' = polls - 1
           /\ pollTimer' = (pollTimer \/ (polling /\ ~pollerDisposed))
           /\ UNCHANGED <<polling, pollerDisposed>>

\* The loop never stalls: while it is on, a call is in progress or is scheduled.
PollingGoesOn == polling => pollTimer \/ polls > 0

\* The class comment: only one poll is running at a time.
OnePollAtATime == polls <= 1
=============================================================================
