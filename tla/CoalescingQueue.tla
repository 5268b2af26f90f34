-------------------------- MODULE CoalescingQueue --------------------------
(***************************************************************************)
(* src/utils/coalescing-queue.ts: run() starts the task on an idle queue,  *)
(* and every run() made while one is active shares the promise of the one  *)
(* run that follows it.  It carries the log view's and the details views'  *)
(* refreshes and the repository scan.                                      *)
(*                                                                         *)
(* A request is one call of run().  A field that holds a promise is        *)
(* modelled by the calls that were given it, {} when it is undefined: each *)
(* promise is created by a call and handed to it.                          *)
(*                                                                         *)
(* The microtasks between a task's end and the start of the queued run are *)
(* steps of their own.  A task does not call run() before its first await: *)
(* none of the tasks src/core/controllers and the repository manager pass  *)
(* does.                                                                   *)
(***************************************************************************)
EXTENDS FiniteSets

CONSTANT Requests          \* the calls of run

VARIABLES active,          \* the calls given _active
          task,            \* "none", "running", or how the active task ended
          queued,          \* the calls given _queued
          promise          \* what each call's promise says

vars == <<active, task, queued, promise>>

PromiseState == {"unasked", "pending", "ran", "failed"}

Init == /\ active = {}
        /\ task = "none"
        /\ queued = {}
        /\ promise = [r \in Requests |-> "unasked"]

\* runTask(): the task starts synchronously.
RunTask(callers) == active' = callers /\ task' = "running"

\* run(): join the queued run, queue one behind the active run, or start.
Run(r) ==
    /\ promise[r] = "unasked"
    /\ promise' = [promise EXCEPT ![r] = "pending"]
    /\ IF active = {} /\ queued = {}
       THEN RunTask({r}) /\ UNCHANGED queued
       ELSE queued' = queued \cup {r} /\ UNCHANGED <<active, task>>

\* The task settles, or has thrown before returning a promise.
TaskSettles(outcome) ==
    /\ task = "running"
    /\ task' = outcome
    /\ UNCHANGED <<active, queued, promise>>

\* The finally callback clears _active; its promise settles with the task's.
Release ==
    /\ task \in {"ok", "error"}
    /\ active' = {}
    /\ task' = "none"
    /\ promise' = [r \in Requests |->
                      IF r \notin active THEN promise[r]
                      ELSE IF task = "ok" THEN "ran" ELSE "failed"]
    /\ UNCHANGED queued

\* The continuation of the run that was active: a failure there is swallowed.
StartQueued ==
    /\ queued # {}
    /\ active = {}
    /\ RunTask(queued)
    /\ queued' = {}
    /\ UNCHANGED promise

Next == \/ \E r \in Requests : Run(r)
        \/ \E o \in {"ok", "error"} : TaskSettles(o)
        \/ Release
        \/ StartQueued

Spec == Init /\ [][Next]_vars

\* Tasks end and microtasks run.
Fairness == /\ WF_vars(\E o \in {"ok", "error"} : TaskSettles(o))
            /\ WF_vars(Release)
            /\ WF_vars(StartQueued)

FairSpec == Spec /\ Fairness

-----------------------------------------------------------------------------
\* The fields' types, and that a task is in progress exactly while calls wait for it.
TypeOK == /\ active \subseteq Requests
          /\ task \in {"none", "running", "ok", "error"}
          /\ queued \subseteq Requests
          /\ promise \in [Requests -> PromiseState]
          /\ task = "none" <=> active = {}

\* A call is unsettled exactly while the active or the queued run holds it, so a
\* run that ends, or that replaces a settled one, forgets nobody.
UnsettledAreHeld == /\ {r \in Requests : promise[r] = "pending"} = active \cup queued
                    /\ active \cap queued = {}

\* Every run() is answered, even when the run ahead of it fails.
EveryRunAnswered ==
    \A r \in Requests : promise[r] = "pending" ~> promise[r] \in {"ran", "failed"}

\* The queue implements the coalescer: a call made during a run is answered by
\* the next run, never by the one that had already started.
Coalescer == INSTANCE SerialCoalescer WITH
                waiting <- queued,
                running <- active,
                answer  <- promise
CoalescerSpec == Coalescer!Spec
=============================================================================
