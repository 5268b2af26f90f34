-------------------------- MODULE SerialCoalescer --------------------------
(***************************************************************************)
(* What the run queues of src/utils promise their callers, with no timers, *)
(* no promises and no backoff: requests wait, a run takes everything that  *)
(* waits, at most one run is in progress, and every request is answered    *)
(* with the outcome of the run that took it.  A request that arrives while *)
(* a run is in progress is never answered by that run.                     *)
(*                                                                         *)
(* DebouncingQueue and CoalescingQueue are both checked to implement this. *)
(***************************************************************************)
CONSTANT Requests           \* the calls, one identity per call

VARIABLES waiting,          \* requests accepted and not yet taken by a run
          running,          \* requests taken by the run in progress
          answer            \* what each call's promise says

vars == <<waiting, running, answer>>

Unasked == "unasked"        \* the call has not been made
Pending == "pending"        \* its promise is not settled
Ran     == "ran"            \* resolved, by a run that took the request
Failed  == "failed"         \* rejected, by a run that took the request
Dropped == "dropped"        \* resolved without a run: cancelled or disposed

Init == /\ waiting = {}
        /\ running = {}
        /\ answer = [r \in Requests |-> Unasked]

AnswerAll(S, a) == [r \in Requests |-> IF r \in S THEN a ELSE answer[r]]

Submit(r) == /\ answer[r] = Unasked
             /\ waiting' = waiting \cup {r}
             /\ answer' = [answer EXCEPT ![r] = Pending]
             /\ UNCHANGED running

Refuse(r) == /\ answer[r] = Unasked
             /\ answer' = [answer EXCEPT ![r] = Dropped]
             /\ UNCHANGED <<waiting, running>>

\* A call on an idle queue may start the run in the same step.
SubmitAndStart(r) == /\ answer[r] = Unasked
                     /\ running = {}
                     /\ running' = waiting \cup {r}
                     /\ waiting' = {}
                     /\ answer' = [answer EXCEPT ![r] = Pending]

Start == /\ running = {}
         /\ waiting # {}
         /\ running' = waiting
         /\ waiting' = {}
         /\ UNCHANGED answer

\* The end of a run answers its requests; the next run may start at once.
Finish(a) == /\ running # {}
             /\ a \in {Ran, Failed}
             /\ answer' = AnswerAll(running, a)
             /\ \/ running' = {} /\ UNCHANGED waiting
                \/ waiting # {} /\ running' = waiting /\ waiting' = {}

Drop == /\ waiting # {}
        /\ answer' = AnswerAll(waiting, Dropped)
        /\ waiting' = {}
        /\ UNCHANGED running

Next == \/ \E r \in Requests : Submit(r) \/ Refuse(r) \/ SubmitAndStart(r)
        \/ Start
        \/ \E a \in {Ran, Failed} : Finish(a)
        \/ Drop

Spec == Init /\ [][Next]_vars
=============================================================================
