---------------------- MODULE RepositoryManagerProofs ----------------------
(***************************************************************************)
(* For any roots, folders, cached list and number of scans: a root never   *)
(* has two instances in the list; every instance is accounted for; a scan  *)
(* keeps what was registered beside it in time, and undisturbed finds what *)
(* it should; and the scans keep to the contract of the queue they run on, *)
(* CoalescingQueue, whose own theorems (those from Queue!Spec) are here    *)
(* too, as they are wanted of the scans.                                   *)
(*                                                                         *)
(* What the list gets are fresh instances of roots it lacks, and those a   *)
(* restore has loaded; the first invariant adds that a restore holds at    *)
(* most one instance of each root, and none of a root it has still to      *)
(* load.  ListInv and FoundInv, further down, are about the instances and  *)
(* about what a scan has found so far.                                     *)
(***************************************************************************)
EXTENDS RepositoryManager, TLAPS

Single(insts) == \A i, j \in insts : i[1] = j[1] => i = j

LoadedOnce == /\ Single(loaded)
              /\ \A i \in loaded : i[1] \notin cached
              /\ item \subseteq cached
              /\ restore # "create" => item = {}

IInv == OneInstancePerRoot /\ LoadedOnce

-----------------------------------------------------------------------------
\* Fresh instances of different roots: one of each.
LEMMA FreshIsSingle ==
    ASSUME NEW rs PROVE Single(Fresh(rs)) /\ RootsOf(Fresh(rs)) = rs
<1>1. \A i \in Fresh(rs) : \E r \in rs : i = <<r, made[r] + 1>> BY DEF Fresh
<1>2. Single(Fresh(rs))
    <2> SUFFICES ASSUME NEW i \in Fresh(rs), NEW j \in Fresh(rs), i[1] = j[1] PROVE i = j
        BY DEF Single
    <2>1. PICK r \in rs : i = <<r, made[r] + 1>> BY <1>1
    <2>2. PICK t \in rs : j = <<t, made[t] + 1>> BY <1>1
    <2>3. i[1] = r /\ j[1] = t BY <2>1, <2>2
    <2> QED BY <2>1, <2>2, <2>3
<1>3. RootsOf(Fresh(rs)) = rs
    <2>1. RootsOf(Fresh(rs)) \subseteq rs BY <1>1 DEF RootsOf
    <2>2. ASSUME NEW r \in rs PROVE r \in RootsOf(Fresh(rs))
        <3>1. <<r, made[r] + 1>> \in Fresh(rs) BY DEF Fresh
        <3>2. <<r, made[r] + 1>>[1] = r OBVIOUS
        <3> QED BY <3>1, <3>2 DEF RootsOf
    <2> QED BY <2>1, <2>2
<1> QED BY <1>2, <1>3

\* A list keeps one instance per root when it gains those of roots it lacks.
LEMMA UnionIsSingle ==
    ASSUME NEW a, NEW b, Single(a), Single(b), RootsOf(a) \cap RootsOf(b) = {}
    PROVE  Single(a \cup b)
BY DEF Single, RootsOf

\* A part of such a list is one.
LEMMA SubsetIsSingle ==
    ASSUME NEW a, NEW b, Single(a), b \subseteq a
    PROVE  Single(b)
BY DEF Single

\* What the restore registers has no root of the list.
LEMMA RegisteredIsSingle ==
    ASSUME NEW l, OneInstancePerRoot, Single(l), Registered(l)
    PROVE  OneInstancePerRoot' /\ loaded' \in {{}, l}
<1> DEFINE new == {i \in l : i[1] \notin RootsOf(repos)}
<1>1. Single(repos) BY DEF OneInstancePerRoot, Single
<1>2. Single(new) BY SubsetIsSingle
<1>3. RootsOf(repos) \cap RootsOf(new) = {} BY DEF RootsOf
<1>4. Single(repos \cup new) BY <1>1, <1>2, <1>3, UnionIsSingle
<1>5. repos' \in {repos, repos \cup new} /\ loaded' \in {{}, l}
    BY DEF Registered, Adds
<1> QED BY <1>1, <1>4, <1>5 DEF OneInstancePerRoot, Single

\* A cached root is loaded: the rest of the list of cached ones has none of it.
LEMMA LoadedIsSingle ==
    ASSUME NEW l, OneInstancePerRoot, Single(l), Loaded(l),
           \A i \in l : i[1] \notin cached', item' = {}
    PROVE  IInv'
<1>1. CASE cached' = {}
    <2>1. OneInstancePerRoot' /\ loaded' \in {{}, l}
        BY <1>1, RegisteredIsSingle DEF Loaded
    <2> QED BY <2>1 DEF IInv, LoadedOnce, Single
<1>2. CASE cached' # {}
    <2>1. repos' = repos /\ loaded' = l BY <1>2 DEF Loaded
    <2> QED BY <2>1 DEF IInv, LoadedOnce, Single, OneInstancePerRoot
<1> QED BY <1>1, <1>2

\* The final reconciliation replaces the list by a part of it and fresh ones.
LEMMA ReconcileIsSingle ==
    ASSUME OneInstancePerRoot, ReconcileAll
    PROVE  OneInstancePerRoot'
<1> DEFINE missing == {i \in repos : i[1] \notin Filtered}
           new == Fresh(Filtered \ RootsOf(repos))
           list == (repos \ missing) \cup new
<1>1. CASE disposed BY <1>1 DEF ReconcileAll, listVars, OneInstancePerRoot
<1>2. CASE ~disposed
    <2>1. repos' = list BY <1>2 DEF ReconcileAll
    <2>2. Single(repos \ missing)
        BY SubsetIsSingle DEF OneInstancePerRoot, Single
    <2>3. Single(new) /\ RootsOf(new) = Filtered \ RootsOf(repos) BY FreshIsSingle
    <2>4. RootsOf(repos \ missing) \cap RootsOf(new) = {} BY <2>3 DEF RootsOf
    <2>5. Single(list) BY <2>2, <2>3, <2>4, UnionIsSingle
    <2> QED BY <2>1, <2>5 DEF OneInstancePerRoot, Single
<1> QED BY <1>1, <1>2

-----------------------------------------------------------------------------
LEMMA InitIInv == Init => IInv
BY DEF Init, IInv, OneInstancePerRoot, LoadedOnce, Single

LEMMA StepIInv == IInv /\ [Next]_vars => IInv'
<1> SUFFICES ASSUME IInv, [Next]_vars PROVE IInv'
    OBVIOUS
<1> USE DEF IInv
<1>0. ASSUME repos' = repos, UNCHANGED <<restore, cached, item, loaded>> PROVE IInv'
    BY <1>0 DEF OneInstancePerRoot, LoadedOnce, Single
<1>01. ASSUME OneInstancePerRoot', UNCHANGED <<restore, cached, item, loaded>> PROVE IInv'
    BY <1>01 DEF LoadedOnce, Single
<1>1. CASE ScanStep
    <2>1. CASE ScanReturns \/ ScanReleased \/ StartQueuedScan \/ FoldersProbed \/ Preserved
        BY <2>1, <1>0 DEF ScanReturns, ScanReleased, StartQueuedScan, FoldersProbed,
                          Preserved, listVars, restoreVars
    <2>2. CASE ReconcileRoots
        <3> DEFINE new == Fresh(Filtered \ RootsOf(repos))
        <3>1. Single(new) /\ RootsOf(new) = Filtered \ RootsOf(repos) BY FreshIsSingle
        <3>2. Single(repos) BY DEF OneInstancePerRoot, Single
        <3>3. RootsOf(repos) \cap RootsOf(new) = {} BY <3>1
        <3>4. Single(repos \cup new) BY <3>1, <3>2, <3>3, UnionIsSingle
        <3>5. repos' \in {repos, repos \cup new} BY <2>2 DEF ReconcileRoots, listVars
        <3>6. OneInstancePerRoot' BY <3>2, <3>4, <3>5 DEF OneInstancePerRoot, Single
        <3> QED BY <2>2, <3>6, <1>01 DEF ReconcileRoots, restoreVars
    <2>3. CASE NestedProbed
        <3>1. CASE repos = {}
            <4>1. ReconcileAll BY <2>3, <3>1 DEF NestedProbed
            <4>2. OneInstancePerRoot' BY <4>1, ReconcileIsSingle
            <4> QED BY <2>3, <4>2, <1>01 DEF NestedProbed, restoreVars
        <3>2. CASE repos # {}
            BY <2>3, <3>2, <1>0 DEF NestedProbed, listVars, restoreVars
        <3> QED BY <3>1, <3>2
    <2>4. CASE FilteredAll
        <3>1. OneInstancePerRoot' BY <2>4, ReconcileIsSingle DEF FilteredAll
        <3> QED BY <2>4, <3>1, <1>01 DEF FilteredAll, restoreVars
    <2>5. ASSUME NEW r \in Roots, Probe(r) PROVE IInv'
        BY <2>5, <1>0 DEF Probe, listVars, restoreVars
    <2>6. ASSUME NEW i \in closing, Closes(i) PROVE IInv'
        BY <2>6, <1>0 DEF Closes, restoreVars
    <2> QED BY <1>1, <2>1, <2>2, <2>3, <2>4, <2>5, <2>6 DEF ScanStep
<1>2. CASE NestedFails \/ FetchBegins \/ FetchEnds \/ Dispose
    BY <1>2, <1>0 DEF NestedFails, FetchBegins, FetchEnds, Dispose, listVars, restoreVars
<1>3. ASSUME NEW q \in Requests, AskScan(q) \/ FoldersChange(q) PROVE IInv'
    BY <1>3, <1>0 DEF AskScan, FoldersChange, listVars, restoreVars
<1>4. ASSUME NEW r \in Roots, Asks(r) PROVE IInv'
    BY <1>4, <1>0 DEF Asks, listVars, restoreVars
<1>5. ASSUME NEW r \in Roots, Registers(r) PROVE IInv'
    <2>1. Single(repos) BY DEF OneInstancePerRoot, Single
    <2>2. Single(Fresh({r})) /\ RootsOf(Fresh({r})) = {r} BY FreshIsSingle
    <2>3. repos' = repos \/ (r \notin RootsOf(repos) /\ repos' = repos \cup Fresh({r}))
        BY <1>5 DEF Registers, Adds
    <2>4. Single(repos')
        <3>1. CASE repos' = repos BY <2>1, <3>1
        <3>2. CASE r \notin RootsOf(repos) /\ repos' = repos \cup Fresh({r})
            <4>1. RootsOf(repos) \cap RootsOf(Fresh({r})) = {} BY <2>2, <3>2
            <4> QED BY <2>1, <2>2, <3>2, <4>1, UnionIsSingle
        <3> QED BY <2>3, <3>1, <3>2
    <2> QED BY <1>5, <1>01, <2>4 DEF Registers, restoreVars, OneInstancePerRoot, Single
<1>6. ASSUME NEW r \in Roots, Loads(r) PROVE IInv'
    <2> DEFINE there == {i \in repos : i[1] = r}
               l == IF InWorkspace(r) THEN loaded \cup there ELSE loaded
    <2>1. CASE InWorkspace(r) /\ there = {}
        <3>1. /\ repos' = repos /\ cached' = cached /\ loaded' = loaded /\ item' = {r} /\ r \in cached
              /\ restore' = "create"
            BY <1>6, <2>1 DEF Loads
        <3> QED BY <3>1 DEF LoadedOnce, OneInstancePerRoot, Single
    <2>2. CASE ~(InWorkspace(r) /\ there = {})
        <3>1. /\ cached' = cached \ {r} /\ item' = item /\ Loaded(l)
              /\ restore = "load" /\ r \in cached
            BY <1>6, <2>2 DEF Loads
        <3>2. item' = {} BY <3>1 DEF LoadedOnce
        <3>3. Single(l)
            <4>1. Single(there) BY DEF OneInstancePerRoot, Single
            <4>2. RootsOf(loaded) \cap RootsOf(there) = {} BY <3>1 DEF LoadedOnce, RootsOf
            <4>3. Single(loaded \cup there)
                BY <4>1, <4>2, UnionIsSingle DEF LoadedOnce
            <4> QED BY <4>3 DEF LoadedOnce
        <3>4. \A i \in l : i[1] \notin cached' BY <3>1 DEF LoadedOnce
        <3> QED BY <3>1, <3>2, <3>3, <3>4, LoadedIsSingle
    <2> QED BY <2>1, <2>2
<1>7. ASSUME NEW r \in Roots, Creates(r) PROVE IInv'
    <2> DEFINE l == loaded \cup Fresh({r})
    <2>1. /\ cached' = cached \ {r} /\ item' = {} /\ Loaded(l) /\ r \in cached
        BY <1>7 DEF Creates, LoadedOnce
    <2>2. Single(Fresh({r})) /\ RootsOf(Fresh({r})) = {r} BY FreshIsSingle
    <2>3. RootsOf(loaded) \cap RootsOf(Fresh({r})) = {} BY <2>1, <2>2 DEF LoadedOnce, RootsOf
    <2>4. Single(l) BY <2>2, <2>3, UnionIsSingle DEF LoadedOnce
    <2>5. \A i \in l : i[1] \notin cached' BY <2>1, <2>2 DEF LoadedOnce, RootsOf
    <2> QED BY <2>1, <2>4, <2>5, LoadedIsSingle
<1>8. CASE RestoreBegins
    BY <1>8 DEF RestoreBegins, LoadedOnce, OneInstancePerRoot, Single, listVars
<1>9. CASE DisposeEnds
    <2>1. OneInstancePerRoot' BY <1>9 DEF DisposeEnds, OneInstancePerRoot
    <2> QED BY <1>9, <2>1, <1>01 DEF DisposeEnds, restoreVars
<1>10. CASE UNCHANGED vars
    BY <1>10, <1>0 DEF vars, listVars, restoreVars
<1> QED BY <1>1, <1>2, <1>3, <1>4, <1>5, <1>6, <1>7, <1>8, <1>9, <1>10 DEF Next

\* A root never has two instances in the list.
THEOREM OneInstance == Spec => []OneInstancePerRoot
<1>1. IInv => OneInstancePerRoot BY DEF IInv
<1> QED BY InitIInv, StepIInv, <1>1, PTL DEF Spec

-----------------------------------------------------------------------------
\* doScan ending settles the task the queue runs.
LEMMA EndIsQueueStep ==
    ASSUME NEW o \in {"ok", "error"}, EndScan(o)
    PROVE  Queue!Next
BY DEF EndScan, Queue!Next

LEMMA ReconcileIsQueueStep ==
    ASSUME ReconcileAll
    PROVE  Queue!Next \/ UNCHANGED Queue!vars
<1>1. CASE EndScan("ok") BY <1>1, EndIsQueueStep
<1>2. CASE UNCHANGED queueVars BY <1>2 DEF queueVars, Queue!vars
<1> QED BY <1>1, <1>2 DEF ReconcileAll, Finish, ScanGoesOn, queueVars

LEMMA StepIsQueueStep == [Next]_vars => [Queue!Next]_(Queue!vars)
<1> SUFFICES ASSUME [Next]_vars PROVE Queue!Next \/ UNCHANGED Queue!vars
    OBVIOUS
<1>0. ASSUME UNCHANGED queueVars PROVE UNCHANGED Queue!vars
    BY <1>0 DEF queueVars, Queue!vars
<1>1. CASE ScanStep
    <2>1. CASE ScanReturns BY <2>1 DEF ScanReturns, Queue!Next
    <2>2. CASE ScanReleased BY <2>2 DEF ScanReleased, Queue!Next
    <2>3. CASE StartQueuedScan BY <2>3 DEF StartQueuedScan, Queue!Next
    <2>4. CASE FoldersProbed BY <2>4, <1>0 DEF FoldersProbed
    <2>5. CASE ReconcileRoots BY <2>5, <1>0 DEF ReconcileRoots
    <2>6. CASE NestedProbed
        <3>1. CASE repos = {} BY <2>6, <3>1, ReconcileIsQueueStep DEF NestedProbed
        <3>2. CASE repos # {} BY <2>6, <3>2, <1>0 DEF NestedProbed, ScanGoesOn, queueVars
        <3> QED BY <3>1, <3>2
    <2>7. CASE Preserved BY <2>7, <1>0 DEF Preserved, ScanGoesOn, queueVars
    <2>8. CASE FilteredAll BY <2>8, ReconcileIsQueueStep DEF FilteredAll
    <2>9. ASSUME NEW r \in Roots, Probe(r) PROVE UNCHANGED Queue!vars
        BY <2>9, <1>0 DEF Probe
    <2>10. ASSUME NEW i \in closing, Closes(i) PROVE Queue!Next \/ UNCHANGED Queue!vars
        <3>1. CASE closing = {i} BY <2>10, <3>1, EndIsQueueStep DEF Closes, Finish
        <3>2. CASE closing # {i} BY <2>10, <3>2, <1>0 DEF Closes, ScanGoesOn, queueVars
        <3> QED BY <3>1, <3>2
    <2> QED BY <1>1, <2>1, <2>2, <2>3, <2>4, <2>5, <2>6, <2>7, <2>8, <2>9, <2>10 DEF ScanStep
<1>2. CASE NestedFails BY <1>2, EndIsQueueStep DEF NestedFails
<1>3. CASE FetchBegins \/ FetchEnds \/ RestoreBegins \/ Dispose \/ DisposeEnds
    BY <1>3, <1>0 DEF FetchBegins, FetchEnds, RestoreBegins, Dispose, DisposeEnds
<1>4. ASSUME NEW q \in Requests, AskScan(q) \/ FoldersChange(q) PROVE Queue!Next
    <2>1. Queue!Run(q) BY <1>4 DEF AskScan, FoldersChange, Ask
    <2> QED BY <2>1 DEF Queue!Next
<1>5. ASSUME NEW r \in Roots, Asks(r) \/ Registers(r) \/ Loads(r) \/ Creates(r)
      PROVE UNCHANGED Queue!vars
    BY <1>5, <1>0 DEF Asks, Registers, Loads, Creates
<1>6. CASE UNCHANGED vars BY <1>6, <1>0 DEF vars
<1> QED BY <1>1, <1>2, <1>3, <1>4, <1>5, <1>6 DEF Next

\* Scans run one at a time and are asked for as the queue allows, so what is
\* proved of CoalescingQueue holds of them.
THEOREM ScansKeepToTheQueue == Spec => Queue!Spec
<1>1. Init => Queue!Init BY DEF Init
<1> QED BY <1>1, StepIsQueueStep, PTL DEF Spec, Queue!Spec
-----------------------------------------------------------------------------
(* The queue the scans run on, and every other CoalescingQueue: the theorems   *)
(* that start from Queue!Spec are about any queue and any set of calls.        *)

\* The task is idle exactly when nobody is active: without it a run could end
\* with callers that no release will settle.
HeldInv == Queue!TypeOK /\ Queue!UnsettledAreHeld

LEMMA HeldInvInit == Queue!Init => HeldInv
  BY DEF Queue!Init, HeldInv, Queue!TypeOK, Queue!UnsettledAreHeld, Queue!PromiseState

LEMMA HeldInvStep == HeldInv /\ [Queue!Next]_(Queue!vars) => HeldInv'
  <1> SUFFICES ASSUME HeldInv, [Queue!Next]_(Queue!vars) PROVE HeldInv'
    OBVIOUS
  <1> USE DEF HeldInv
  <1>1. ASSUME NEW r \in Requests, Queue!Run(r) PROVE HeldInv'
    <2>1. promise' \in [Requests -> Queue!PromiseState]
      BY <1>1 DEF Queue!Run, Queue!TypeOK, Queue!PromiseState
    <2>2. {q \in Requests : promise'[q] = "pending"}
            = {q \in Requests : promise[q] = "pending"} \cup {r}
      BY <1>1 DEF Queue!Run, Queue!TypeOK
    <2>3. r \notin active \cup queued
      BY <1>1 DEF Queue!Run, Queue!UnsettledAreHeld
    <2>4. CASE active = {} /\ queued = {}
      <3>1. active' = {r} /\ task' = "running" /\ queued' = {}
        BY <1>1, <2>4 DEF Queue!Run, Queue!RunTask
      <3> QED
        BY <2>1, <2>2, <2>4, <3>1 DEF Queue!TypeOK, Queue!UnsettledAreHeld
    <2>5. CASE ~(active = {} /\ queued = {})
      <3>1. active' = active /\ task' = task /\ queued' = queued \cup {r}
        BY <1>1, <2>5 DEF Queue!Run
      <3> QED
        BY <2>1, <2>2, <2>3, <3>1 DEF Queue!TypeOK, Queue!UnsettledAreHeld
    <2> QED
      BY <2>4, <2>5
  <1>2. ASSUME NEW o \in {"ok", "error"}, Queue!TaskSettles(o) PROVE HeldInv'
    BY <1>2 DEF Queue!TaskSettles, Queue!TypeOK, Queue!UnsettledAreHeld
  <1>3. CASE Queue!Release
    <2>1. promise' \in [Requests -> Queue!PromiseState]
      BY <1>3 DEF Queue!Release, Queue!TypeOK, Queue!PromiseState
    <2>2. \A q \in Requests : promise'[q] = "pending" <=> promise[q] = "pending" /\ q \notin active
      BY <1>3 DEF Queue!Release
    <2> QED
      BY <1>3, <2>1, <2>2 DEF Queue!Release, Queue!TypeOK, Queue!UnsettledAreHeld
  <1>4. CASE Queue!StartQueued
    BY <1>4 DEF Queue!StartQueued, Queue!RunTask, Queue!TypeOK, Queue!UnsettledAreHeld
  <1>5. CASE UNCHANGED Queue!vars
    BY <1>5 DEF Queue!vars, Queue!TypeOK, Queue!UnsettledAreHeld
  <1> QED
    BY <1>1, <1>2, <1>3, <1>4, <1>5 DEF Queue!Next

LEMMA HeldInvAlways == Queue!Spec => []HeldInv
  <1> QED
    BY HeldInvInit, HeldInvStep, PTL DEF Queue!Spec

\* The fields of CoalescingQueue keep their types, and a task is set exactly when
\* there is an active run (coalescing-queue.ts, run and runTask).
THEOREM QueueTypeCorrect == Queue!Spec => []Queue!TypeOK
  BY HeldInvAlways, PTL DEF HeldInv

\* A promise run() returned is unsettled exactly while the active or the queued
\* run holds it: no caller is dropped when a run ends or the next one starts.
THEOREM NobodyForgotten == Queue!Spec => []Queue!UnsettledAreHeld
  BY HeldInvAlways, PTL DEF HeldInv

-----------------------------------------------------------------------------
\* Each step of the queue is a step of the coalescer, or none: a task that ends
\* is seen by nobody before the microtask that releases its callers.
LEMMA StepIsCoalesced ==
    HeldInv /\ [Queue!Next]_(Queue!vars) => [Queue!Coalescer!Next]_(Queue!Coalescer!vars)
  <1> SUFFICES ASSUME HeldInv, [Queue!Next]_(Queue!vars)
               PROVE  Queue!Coalescer!Next \/ UNCHANGED <<queued, active, promise>>
    BY DEF Queue!Coalescer!vars
  <1> USE DEF HeldInv
  <1>1. ASSUME NEW r \in Requests, Queue!Run(r)
        PROVE  Queue!Coalescer!Submit(r) \/ Queue!Coalescer!SubmitAndStart(r)
    <2>1. CASE active = {} /\ queued = {}
      BY <1>1, <2>1 DEF Queue!Run, Queue!RunTask, Queue!Coalescer!SubmitAndStart, Queue!Coalescer!Unasked,
         Queue!Coalescer!Pending
    <2>2. CASE ~(active = {} /\ queued = {})
      BY <1>1, <2>2 DEF Queue!Run, Queue!Coalescer!Submit, Queue!Coalescer!Unasked, Queue!Coalescer!Pending
    <2> QED
      BY <2>1, <2>2
  <1>2. ASSUME NEW o \in {"ok", "error"}, Queue!TaskSettles(o)
        PROVE  UNCHANGED <<queued, active, promise>>
    BY <1>2 DEF Queue!TaskSettles
  <1>3. ASSUME Queue!Release
        PROVE  \E a \in {Queue!Coalescer!Ran, Queue!Coalescer!Failed} : Queue!Coalescer!Finish(a)
    <2>1. active # {}
      BY <1>3 DEF Queue!Release, Queue!TypeOK
    <2>2. CASE task = "ok"
      <3>1. promise' = [r \in Requests |-> IF r \in active THEN "ran" ELSE promise[r]]
        BY <1>3, <2>2 DEF Queue!Release
      <3>2. Queue!Coalescer!Finish(Queue!Coalescer!Ran)
        BY <1>3, <2>1, <3>1 DEF Queue!Release, Queue!Coalescer!Finish, Queue!Coalescer!AnswerAll,
           Queue!Coalescer!Ran
      <3> QED
        BY <3>2
    <2>3. CASE task = "error"
      <3>1. promise' = [r \in Requests |-> IF r \in active THEN "failed" ELSE promise[r]]
        BY <1>3, <2>3 DEF Queue!Release
      <3>2. Queue!Coalescer!Finish(Queue!Coalescer!Failed)
        BY <1>3, <2>1, <3>1 DEF Queue!Release, Queue!Coalescer!Finish, Queue!Coalescer!AnswerAll,
           Queue!Coalescer!Failed
      <3> QED
        BY <3>2
    <2> QED
      BY <1>3, <2>2, <2>3 DEF Queue!Release
  <1>4. ASSUME Queue!StartQueued PROVE Queue!Coalescer!Start
    BY <1>4 DEF Queue!StartQueued, Queue!RunTask, Queue!Coalescer!Start
  <1>5. ASSUME UNCHANGED Queue!vars PROVE UNCHANGED <<queued, active, promise>>
    BY <1>5 DEF Queue!vars
  <1> QED
    BY <1>1, <1>2, <1>3, <1>4, <1>5 DEF Queue!Next, Queue!Coalescer!Next

LEMMA InitIsCoalesced == Queue!Init => Queue!Coalescer!Init
  BY DEF Queue!Init, Queue!Coalescer!Init, Queue!Coalescer!Unasked

\* CoalescingQueue implements the coalescer: a call made while a run is active is
\* answered by the run that follows it, for any number of callers.
THEOREM ImplementsCoalescer == Queue!Spec => Queue!CoalescerSpec
  <1> QED
    BY InitIsCoalesced, StepIsCoalesced, HeldInvAlways, PTL
       DEF Queue!Spec, Queue!CoalescerSpec, Queue!Coalescer!Spec

\* No call that asked for a scan is dropped when a scan ends, fails or starts:
\* jj-repository-manager.ts, scan(), through its queue.
THEOREM NoScanIsForgotten == Spec => []Queue!UnsettledAreHeld
  BY ScansKeepToTheQueue, NobodyForgotten, PTL

\* A scan asked for while one is in progress is answered by the next one.
THEOREM ScansAreCoalesced == Spec => Queue!CoalescerSpec
  BY ScansKeepToTheQueue, ImplementsCoalescer, PTL

-----------------------------------------------------------------------------
(* Every instance is accounted for: one that was created is in the list, is    *)
(* being closed, was disposed of, is held by the restore, or is a stray; and   *)
(* the listeners were told of what the list holds, but for what a scan that    *)
(* closes repositories has still to announce.                                  *)

Stages == {"idle", "folders", "filter", "nested", "preserve", "filterAll", "closing"}

Sorts == /\ made \in [Roots -> Nat]
         /\ stage \in Stages
         /\ todo \subseteq Roots /\ cand \subseteq Roots /\ reg \subseteq Roots
         /\ snap \subseteq Roots /\ folders \subseteq Roots

Numbered == repos \cup gone \cup shown \cup closing \cup loaded \subseteq Created

Phases == /\ stage # "idle" => task = "running"
          /\ stage # "closing" => closing = {}
          /\ teardown => disposed /\ stage = "idle" /\ repos = {}
          /\ restore \in {"none", "done"} => loaded = {}

Unannounced == IF stage = "closing" THEN {i \in repos : i[1] \notin before} ELSE {}

Announced == ~disposed => /\ shown \subseteq repos \cup closing \cup strays
                          /\ repos \subseteq shown \cup Unannounced \cup strays
                          /\ repos \cap closing \subseteq strays

Kept == Created \subseteq repos \cup closing \cup gone \cup strays \cup loaded

ListInv == Sorts /\ Numbered /\ Phases /\ Announced /\ Kept

\* What was created so far, element by element.
LEMMA CreatedIs ==
    ASSUME NEW i PROVE i \in Created <=> \E r \in Roots : \E k \in 1..made[r] : i = <<r, k>>
BY DEF Created

LEMMA CreatedAreInstances == ASSUME Sorts PROVE Created \subseteq Instances
<1> SUFFICES ASSUME NEW i \in Created PROVE i \in Instances
    OBVIOUS
<1>1a. PICK r \in Roots : \E k \in 1..made[r] : i = <<r, k>> BY CreatedIs
<1>1. PICK k \in 1..made[r] : i = <<r, k>> BY <1>1a
<1>2. made[r] \in Nat BY DEF Sorts
<1> QED BY <1>1, <1>2 DEF Instances

\* Fresh instances are new, and then created.
LEMMA FreshIsCreated ==
    ASSUME Sorts, NEW rs \in SUBSET Roots, made' = MadeWith(rs)
    PROVE  /\ Created' = Created \cup Fresh(rs)
           /\ Fresh(rs) \cap Created = {}
           /\ made' \in [Roots -> Nat]
<1>1. made' \in [Roots -> Nat] BY DEF Sorts, MadeWith
<1>2. \A r \in Roots : made[r] \in Nat /\ made'[r] = IF r \in rs THEN made[r] + 1 ELSE made[r]
    BY DEF Sorts, MadeWith
<1>3. \A i : i \in Fresh(rs) <=> \E r \in rs : i = <<r, made[r] + 1>> BY DEF Fresh
<1>4. ASSUME NEW i \in Created' PROVE i \in Created \cup Fresh(rs)
    <2>1a. PICK r \in Roots : \E k \in 1..made'[r] : i = <<r, k>> BY <1>4 DEF Created
    <2>1. PICK k \in 1..made'[r] : i = <<r, k>> BY <2>1a
    <2>2. CASE k \in 1..made[r]
        BY <2>1, <2>2, CreatedIs
    <2>3. CASE k \notin 1..made[r]
        <3>1. r \in rs /\ k = made[r] + 1 BY <1>2, <2>1, <2>3
        <3> QED BY <2>1, <3>1, <1>3
    <2> QED BY <2>2, <2>3
<1>5. ASSUME NEW i \in Created PROVE i \in Created'
    <2>1a. PICK r \in Roots : \E k \in 1..made[r] : i = <<r, k>> BY CreatedIs
    <2>1. PICK k \in 1..made[r] : i = <<r, k>> BY <2>1a
    <2>2. k \in 1..made'[r] BY <1>2, <2>1
    <2> QED BY <2>1, <2>2 DEF Created
<1>6. ASSUME NEW i \in Fresh(rs) PROVE i \in Created' /\ i \notin Created
    <2>1. PICK r \in rs : i = <<r, made[r] + 1>> BY <1>3
    <2>2. r \in Roots OBVIOUS
    <2>3. made[r] + 1 \in 1..made'[r] BY <1>2, <2>2
    <2>4. i \in Created' BY <2>1, <2>2, <2>3 DEF Created
    <2>5. ASSUME i \in Created PROVE FALSE
        <3>1a. PICK t \in Roots : \E k \in 1..made[t] : i = <<t, k>> BY <2>5, CreatedIs
        <3>1. PICK k \in 1..made[t] : i = <<t, k>> BY <3>1a
        <3>2. t = r /\ k = made[r] + 1 BY <2>1, <3>1
        <3> QED BY <1>2, <2>2, <3>1, <3>2
    <2> QED BY <2>4, <2>5
<1> QED BY <1>1, <1>4, <1>5, <1>6

LEMMA CreatedStays == ASSUME made' = made PROVE Created' = Created
BY DEF Created

\* A step that leaves the instances alone, though it may dispose of the manager.
LEMMA QuietKeeps ==
    ASSUME ListInv, UNCHANGED <<listVars, closing, loaded, strays>>,
           disposed => disposed',
           stage' = "closing" <=> stage = "closing",
           stage = "closing" => before' = before
    PROVE  Numbered' /\ Announced' /\ Kept'
<1>1. Created' = Created BY CreatedStays DEF listVars
<1>2. Unannounced' = Unannounced BY DEF Unannounced, listVars
<1> QED BY <1>1, <1>2 DEF ListInv, Numbered, Announced, Kept, listVars

\* A root of the list is a root.
LEMMA ListedAreRoots == ASSUME Sorts, Numbered PROVE RootsOf(repos) \subseteq Roots
<1> SUFFICES ASSUME NEW i \in repos PROVE i[1] \in Roots
    BY DEF RootsOf
<1>1. i \in Instances BY CreatedAreInstances DEF Numbered
<1> QED BY <1>1 DEF Instances

\* The final reconciliation: what it drops is to be closed, what it adds is
\* announced at once or after that.
LEMMA ReconcileAccounts ==
    ASSUME ListInv, HeldInv, ReconcileAll, stage \in {"nested", "filterAll"},
           UNCHANGED <<folders, reg, loaded, strays, disposed, restore, teardown>>
    PROVE  ListInv'
<1> USE DEF ListInv
<1> DEFINE missing == {i \in repos : i[1] \notin Filtered}
           new == Fresh(Filtered \ RootsOf(repos))
           list == (repos \ missing) \cup new
<1>0. closing = {} /\ ~teardown /\ task = "running" BY DEF Phases
<1>1. CASE disposed
    <2>1. UNCHANGED listVars /\ EndScan("ok") BY <1>1 DEF ReconcileAll
    <2>2. closing' = {} /\ stage' = "idle" /\ todo' = {} /\ cand' = {} /\ snap' = {}
        BY <2>1 DEF EndScan
    <2>3. Numbered' /\ Announced' /\ Kept' BY <1>0, <2>1, <2>2, QuietKeeps
    <2>4. Sorts' BY <2>1, <2>2 DEF Sorts, Stages, listVars
    <2>5. Phases' BY <1>0, <2>2 DEF Phases
    <2> QED BY <2>3, <2>4, <2>5
<1>2. CASE ~disposed
    <2>1. repos' = list /\ made' = MadeWith(RootsOf(new)) /\ gone' = gone
        BY <1>2 DEF ReconcileAll
    <2>2. RootsOf(new) = Filtered \ RootsOf(repos) /\ RootsOf(new) \subseteq Roots
        BY FreshIsSingle DEF Filtered, Sorts
    <2>3. new = Fresh(RootsOf(new)) BY <2>2
    <2>4. Created' = Created \cup new /\ new \cap Created = {} /\ made' \in [Roots -> Nat]
        BY <2>1, <2>2, <2>3, FreshIsCreated
    <2>5. \A i \in new : i[1] \notin RootsOf(repos)
        BY <2>2 DEF RootsOf
    <2>6. \A i \in repos : i[1] \in RootsOf(repos)
        BY DEF RootsOf
    <2>7. shown \subseteq repos \cup strays /\ repos \subseteq shown \cup strays
        BY <1>0, <1>2 DEF Announced, Unannounced
    <2>8. missing \subseteq repos /\ list = (repos \ missing) \cup new
        OBVIOUS
    <2>9. CASE missing = {}
        <3>1. Finish(list, RootsOf(repos)) BY <1>2, <2>9 DEF ReconcileAll
        <3>2. /\ shown' = shown \cup {i \in list : i[1] \notin RootsOf(repos)}
              /\ stage' = "idle" /\ closing' = {} /\ todo' = {} /\ cand' = {} /\ snap' = {}
            BY <1>0, <1>2, <3>1 DEF Finish, EndScan
        <3>3. shown' = shown \cup new
            <4> HIDE DEF new
            <4> QED BY <2>5, <2>6, <2>8, <3>2
        <3> HIDE DEF missing, new, list
        <3>4. Sorts' BY <2>4, <3>2 DEF Sorts, Stages
        <3>5. Phases' BY <1>0, <3>2 DEF Phases
        <3>6. Numbered'
            BY <2>1, <2>4, <2>8, <3>2, <3>3 DEF Numbered
        <3>7. Kept'
            BY <1>0, <2>1, <2>4, <2>8, <2>9, <3>2 DEF Kept
        <3>8. Announced'
            BY <2>1, <2>7, <2>8, <2>9, <3>2, <3>3 DEF Announced
        <3> QED BY <3>4, <3>5, <3>6, <3>7, <3>8
    <2>10. CASE missing # {}
        <3>1. /\ stage' = "closing" /\ before' = RootsOf(repos) /\ closing' = missing
              /\ ScanGoesOn /\ UNCHANGED <<shown, todo, early>>
            BY <1>2, <2>10 DEF ReconcileAll
        <3> HIDE DEF missing, new, list
        <3>2. Sorts' BY <2>4, <3>1 DEF Sorts, Stages, ScanGoesOn
        <3>3. Phases' BY <1>0, <3>1 DEF Phases, ScanGoesOn, queueVars
        <3>4. Numbered' BY <2>1, <2>4, <2>8, <3>1 DEF Numbered
        <3>5. Kept' BY <1>0, <2>1, <2>4, <2>8, <3>1 DEF Kept
        <3>6. Unannounced' = {i \in list : i[1] \notin RootsOf(repos)}
            BY <2>1, <3>1 DEF Unannounced
        <3>7. new \subseteq Unannounced' BY <2>5, <2>8, <3>6
        <3>8. repos' \cap closing' = {}
            BY <2>1, <2>4, <2>8, <3>1 DEF Numbered
        <3>9. Announced' BY <2>1, <2>7, <2>8, <3>1, <3>7, <3>8 DEF Announced
        <3> QED BY <3>2, <3>3, <3>4, <3>5, <3>9
    <2> QED BY <2>9, <2>10
<1> QED BY <1>1, <1>2

LEMMA ReconcileRootsAccounts ==
    ASSUME ListInv, ReconcileRoots
    PROVE  ListInv'
<1> USE DEF ListInv
<1> DEFINE new == Fresh(Filtered \ RootsOf(repos))
<1>0. /\ stage = "filter" /\ stage' = "nested" /\ closing = {} /\ ~teardown /\ task = "running"
      /\ UNCHANGED <<queueVars, folders, reg, snap, cand, closing, loaded, strays, restore,
                     disposed, teardown>>
      /\ todo' \subseteq Roots
    BY DEF ReconcileRoots, Globs, Phases, Sorts, folderVars, restoreVars, endVars
<1>1. Phases'
    BY <1>0 DEF Phases, queueVars
<1>2. CASE disposed
    <2>1. UNCHANGED listVars BY <1>2 DEF ReconcileRoots
    <2>2. Numbered' /\ Announced' /\ Kept' BY <1>0, <2>1, QuietKeeps
    <2>3. Sorts' BY <1>0, <2>1 DEF Sorts, Stages, listVars
    <2> QED BY <1>1, <2>2, <2>3
<1>3. CASE ~disposed
    <2>1. /\ repos' = repos \cup new /\ made' = MadeWith(RootsOf(new))
          /\ shown' = shown \cup new /\ gone' = gone
        BY <1>3 DEF ReconcileRoots
    <2>2. RootsOf(new) = Filtered \ RootsOf(repos) /\ RootsOf(new) \subseteq Roots
        BY FreshIsSingle DEF Filtered, Sorts
    <2>3. Created' = Created \cup new /\ made' \in [Roots -> Nat]
        BY <2>1, <2>2, FreshIsCreated
    <2> HIDE DEF new
    <2>4. Sorts' BY <1>0, <2>3 DEF Sorts, Stages
    <2>5. Numbered' BY <1>0, <2>1, <2>3 DEF Numbered
    <2>6. Kept' BY <1>0, <2>1, <2>3 DEF Kept
    <2>7. Unannounced = {} /\ Unannounced' = {} BY <1>0 DEF Unannounced
    <2>8. Announced' BY <1>0, <2>1, <2>7 DEF Announced
    <2> QED BY <1>1, <2>4, <2>5, <2>6, <2>8
<1> QED BY <1>2, <1>3

\* One missing repository is closed, and after the last the new ones announced.
LEMMA ClosesAccounts ==
    ASSUME ListInv, NEW i \in closing, Closes(i)
    PROVE  ListInv'
<1> USE DEF ListInv
<1>0. /\ stage = "closing" /\ gone' = gone \cup {i} /\ ~teardown /\ task = "running"
      /\ UNCHANGED <<folders, reg, repos, made, loaded, strays, restore, disposed, teardown>>
    BY DEF Closes, Phases, folderVars, restoreVars, endVars
<1>1. Created' = Created BY <1>0, CreatedStays
<1>2. CASE closing = {i}
    <2>1. /\ stage' = "idle" /\ closing' = {} /\ todo' = {} /\ cand' = {} /\ snap' = {}
          /\ shown' = IF disposed THEN shown \ closing
                      ELSE (shown \ closing) \cup {j \in repos : j[1] \notin before}
        BY <1>2 DEF Closes, Finish, EndScan
    <2>2. Sorts' BY <1>0, <2>1 DEF Sorts, Stages
    <2>3. Phases' BY <1>0, <2>1 DEF Phases
    <2>4. Kept' BY <1>0, <1>1, <1>2, <2>1 DEF Kept
    <2>5. Numbered' BY <1>0, <1>1, <1>2, <2>1 DEF Numbered
    <2>6. Announced' BY <1>0, <1>2, <2>1 DEF Announced, Unannounced
    <2> QED BY <2>2, <2>3, <2>4, <2>5, <2>6
<1>3. CASE closing # {i}
    <2>1. /\ closing' = closing \ {i} /\ shown' = (IF disposed THEN shown ELSE shown \ {i})
          /\ stage' = stage /\ todo' = todo /\ cand' = cand /\ snap' = snap /\ before' = before
          /\ task' = task
        BY <1>3 DEF Closes, ScanGoesOn, queueVars
    <2>2. Sorts' BY <1>0, <2>1 DEF Sorts
    <2>3. Phases' BY <1>0, <2>1 DEF Phases
    <2>4. Kept' BY <1>0, <1>1, <2>1 DEF Kept
    <2>5. Numbered' BY <1>0, <1>1, <2>1 DEF Numbered
    <2>6. Unannounced' = Unannounced BY <1>0, <2>1 DEF Unannounced
    <2>7. Announced' BY <1>0, <2>1, <2>6 DEF Announced
    <2> QED BY <2>2, <2>3, <2>4, <2>5, <2>7
<1> QED BY <1>2, <1>3

LEMMA RegistersAccounts ==
    ASSUME ListInv, NEW r \in Roots, Registers(r)
    PROVE  ListInv'
<1> USE DEF ListInv
<1>0. /\ UNCHANGED <<queueVars, folders, gone, stage, todo, cand, snap, before, closing, loaded,
                     strays, restore, disposed, teardown>>
      /\ reg' \subseteq Roots
    BY DEF Registers, folderVars, scanVars, restoreVars, endVars, Sorts
<1>1. CASE UNCHANGED <<repos, shown, made, dyn>>
    <2>1. Numbered' /\ Announced' /\ Kept' BY <1>0, <1>1, QuietKeeps DEF listVars
    <2> QED BY <1>0, <1>1, <2>1 DEF Sorts, Phases, queueVars
<1>2. CASE ~disposed /\ Adds(Fresh({r})) /\ made' = MadeWith({r})
    <2> DEFINE new == Fresh({r})
    <2>1. /\ Created' = Created \cup new /\ new \cap Created = {} /\ made' \in [Roots -> Nat]
          /\ repos' = repos \cup new /\ shown' = shown \cup new
        BY <1>2, FreshIsCreated DEF Adds
    <2> HIDE DEF new
    <2>2. Sorts' BY <1>0, <2>1 DEF Sorts
    <2>3. Phases' BY <1>0, <1>2 DEF Phases, queueVars
    <2>4. Kept' BY <1>0, <2>1 DEF Kept
    <2>5. Numbered' BY <1>0, <2>1 DEF Numbered
    <2>6. Unannounced \subseteq Unannounced' BY <1>0, <2>1 DEF Unannounced
    <2>7. Announced' BY <1>0, <2>1, <2>6 DEF Announced, Numbered
    <2> QED BY <2>2, <2>3, <2>4, <2>5, <2>7
<1> QED BY <1>1, <1>2 DEF Registers

\* The restore gives up what it holds: created instances l, among them all it held.
LEMMA LoadedAccounts ==
    ASSUME Sorts, Phases, Announced, NEW l, loaded \subseteq l, Loaded(l), Sorts',
           restore # "none",
           repos \cup gone \cup shown \cup closing \cup l \subseteq Created',
           Created' \subseteq repos \cup closing \cup gone \cup strays \cup l,
           UNCHANGED <<queueVars, stage, before, closing, disposed, teardown>>
    PROVE  ListInv'
<1>1. CASE restore' = "load" /\ loaded' = l /\ UNCHANGED <<repos, shown, dyn, strays, gone>>
    <2>1. Unannounced' = Unannounced BY <1>1 DEF Unannounced
    <2>2. Numbered' /\ Kept' BY <1>1 DEF Numbered, Kept
    <2>3. Announced' BY <1>1, <2>1 DEF Announced
    <2>4. Phases' BY <1>1 DEF Phases, queueVars
    <2> QED BY <2>2, <2>3, <2>4 DEF ListInv
<1>2. CASE (disposed \/ l = {}) /\ Registered(l)
    <2>1. /\ gone' = gone \cup (l \ repos) /\ restore' = "done" /\ loaded' = {}
          /\ UNCHANGED <<repos, shown, dyn, strays>>
        BY <1>2 DEF Registered
    <2>2. Unannounced' = Unannounced BY <2>1 DEF Unannounced
    <2>3. Numbered' /\ Kept' BY <2>1 DEF Numbered, Kept
    <2>4. Announced' BY <2>1, <2>2 DEF Announced
    <2>5. Phases' BY <2>1 DEF Phases, queueVars
    <2> QED BY <2>3, <2>4, <2>5 DEF ListInv
<1>3. CASE ~(disposed \/ l = {}) /\ Registered(l)
    <2> DEFINE new == {i \in l : i[1] \notin RootsOf(repos)}
    <2>1. /\ repos' = repos \cup new /\ shown' = shown \cup new
          /\ restore' = "done" /\ loaded' = {} /\ gone' = gone
          /\ strays' = strays \cup (l \ (repos \cup new)) \cup (new \cap (closing \cup gone))
        BY <1>3 DEF Registered, Adds
    <2>2. new \subseteq l OBVIOUS
    <2> HIDE DEF new
    <2>3. Unannounced \subseteq Unannounced' BY <2>1 DEF Unannounced
    <2>4. Numbered' BY <2>1, <2>2 DEF Numbered
    <2>5. Kept' BY <2>1, <2>2 DEF Kept
    <2>6. Announced' BY <1>3, <2>1, <2>2, <2>3 DEF Announced
    <2>7. Phases' BY <1>3, <2>1 DEF Phases, queueVars
    <2> QED BY <2>4, <2>5, <2>6, <2>7 DEF ListInv
<1> QED BY <1>1, <1>2, <1>3 DEF Loaded

LEMMA LoadsAccounts ==
    ASSUME ListInv, NEW r \in Roots, Loads(r)
    PROVE  ListInv'
<1> USE DEF ListInv
<1> DEFINE there == {i \in repos : i[1] = r}
           l == IF InWorkspace(r) THEN loaded \cup there ELSE loaded
<1>0. /\ UNCHANGED <<queueVars, folders, made, reg, stage, todo, cand, snap, before, closing,
                     disposed, teardown>>
      /\ restore = "load"
    BY DEF Loads, ReadsFolders, scanVars, endVars
<1>1. Sorts' /\ Created' = Created BY <1>0, CreatedStays DEF Sorts
<1>2. CASE InWorkspace(r) /\ there = {}
    <2>1. restore' = "create" /\ UNCHANGED <<loaded, repos, shown, strays, gone>>
        BY <1>2 DEF Loads
    <2>2. Numbered' /\ Announced' /\ Kept' BY <1>0, <2>1, QuietKeeps DEF listVars
    <2>3. Phases' BY <1>0, <2>1 DEF Phases, queueVars
    <2> QED BY <1>1, <2>2, <2>3
<1>3. CASE ~(InWorkspace(r) /\ there = {})
    <2>1. Loaded(l) BY <1>3 DEF Loads
    <2>2. loaded \subseteq l /\ l \subseteq loaded \cup repos OBVIOUS
    <2> HIDE DEF l
    <2> QED BY <1>0, <1>1, <2>1, <2>2, LoadedAccounts DEF Numbered, Kept
<1> QED BY <1>2, <1>3

LEMMA CreatesAccounts ==
    ASSUME ListInv, NEW r \in Roots, Creates(r)
    PROVE  ListInv'
<1> USE DEF ListInv
<1> DEFINE new == Fresh({r})
<1>0. /\ UNCHANGED <<queueVars, folders, reg, stage, todo, cand, snap, before, closing,
                     disposed, teardown>>
      /\ restore = "create"
      /\ Loaded(loaded \cup new)
    BY DEF Creates, folderVars, scanVars, endVars
<1>1. /\ Created' = Created \cup new /\ made' \in [Roots -> Nat]
    BY FreshIsCreated DEF Creates
<1> HIDE DEF new
<1>2. Sorts' BY <1>0, <1>1 DEF Sorts
<1> QED BY <1>0, <1>1, <1>2, LoadedAccounts DEF Numbered, Kept

-----------------------------------------------------------------------------
LEMMA InitAccounts == Init => ListInv
<1> SUFFICES ASSUME Init PROVE ListInv
    OBVIOUS
<1>1. Created = {} BY DEF Init, Created
<1> QED BY <1>1, RootsAssumption DEF Init, ListInv, Sorts, Stages, Numbered, Phases, Announced, Kept

\* The steps of the scan that leave the instances alone.
LEMMA ScanningAccounts ==
    ASSUME ListInv, HeldInv,
           \/ ScanReturns \/ ScanReleased \/ StartQueuedScan
           \/ FoldersProbed \/ Preserved \/ NestedFails
           \/ NestedProbed /\ repos # {}
           \/ \E r \in Roots : Probe(r)
           \/ \E q \in Requests : AskScan(q) \/ FoldersChange(q)
    PROVE  ListInv'
<1> USE DEF ListInv
<1>0. RootsOf(repos) \subseteq Roots BY ListedAreRoots
<1>1. CASE ScanReturns
    <2>1. Numbered' /\ Announced' /\ Kept'
        BY <1>1, QuietKeeps DEF ScanReturns, NoScanStep, scanVars, restoreVars, endVars
    <2>2. Sorts' BY <1>1 DEF ScanReturns, NoScanStep, scanVars, folderVars, listVars, Sorts
    <2>3. Phases' BY <1>1 DEF ScanReturns, NoScanStep, scanVars, listVars, restoreVars, endVars, Phases
    <2> QED BY <2>1, <2>2, <2>3
<1>2. CASE ScanReleased
    <2>1. Numbered' /\ Announced' /\ Kept'
        BY <1>2, QuietKeeps DEF ScanReleased, NoScanStep, scanVars, restoreVars, endVars
    <2>2. Sorts' BY <1>2 DEF ScanReleased, NoScanStep, scanVars, folderVars, listVars, Sorts
    <2>3. Phases' BY <1>2 DEF ScanReleased, NoScanStep, scanVars, listVars, restoreVars, endVars,
                              Phases, Queue!Release
    <2> QED BY <2>1, <2>2, <2>3
<1>3. CASE StartQueuedScan
    <2>0. stage = "idle" /\ task' = "running" /\ closing' = closing /\ stage' \in {"idle", "folders"}
        BY <1>3 DEF StartQueuedScan, Queue!StartQueued, Queue!RunTask, HeldInv, Queue!TypeOK, Phases,
                    NoScanStep, scanVars, BeginScan
    <2>1. Numbered' /\ Announced' /\ Kept'
        BY <1>3, <2>0, QuietKeeps DEF StartQueuedScan, restoreVars, endVars
    <2>2. Sorts'
        BY <1>0, <1>3 DEF StartQueuedScan, NoScanStep, BeginScan, scanVars, folderVars, listVars,
                          Sorts, Stages
    <2>3. Phases'
        BY <1>3, <2>0 DEF StartQueuedScan, NoScanStep, scanVars, listVars, restoreVars, endVars, Phases
    <2> QED BY <2>1, <2>2, <2>3
<1>4. CASE FoldersProbed
    <2>0. stage = "folders" /\ stage' \in {"filter", "nested"} /\ todo' \subseteq Roots
        BY <1>4 DEF FoldersProbed, Globs, Sorts
    <2>1. Numbered' /\ Announced' /\ Kept'
        BY <1>4, <2>0, QuietKeeps DEF FoldersProbed, restoreVars, endVars
    <2>2. Sorts' BY <1>4, <2>0 DEF FoldersProbed, folderVars, listVars, Sorts, Stages
    <2>3. Phases'
        BY <1>4, <2>0 DEF FoldersProbed, queueVars, listVars, restoreVars, endVars, Phases
    <2> QED BY <2>1, <2>2, <2>3
<1>5. CASE Preserved
    <2>0. stage = "preserve" /\ stage' = "filterAll"
        BY <1>5 DEF Preserved
    <2>1. Numbered' /\ Announced' /\ Kept'
        BY <1>5, <2>0, QuietKeeps DEF Preserved, restoreVars, endVars
    <2>2. Sorts' BY <1>5 DEF Preserved, ScanGoesOn, folderVars, listVars, Sorts, Stages
    <2>3. Phases'
        BY <1>5, <2>0 DEF Preserved, ScanGoesOn, queueVars, listVars, restoreVars, endVars, Phases
    <2> QED BY <2>1, <2>2, <2>3
<1>6. CASE NestedFails
    <2>0. stage = "nested" /\ closing = {} /\ closing' = {} /\ stage' = "idle"
        BY <1>6 DEF NestedFails, EndScan, Phases
    <2>1. Numbered' /\ Announced' /\ Kept'
        BY <1>6, <2>0, QuietKeeps DEF NestedFails, restoreVars, endVars
    <2>2. Sorts' BY <1>6 DEF NestedFails, EndScan, folderVars, listVars, Sorts, Stages
    <2>3. Phases'
        BY <1>6, <2>0 DEF NestedFails, listVars, restoreVars, endVars, Phases
    <2> QED BY <2>1, <2>2, <2>3
<1>7. CASE NestedProbed /\ repos # {}
    <2>0. stage = "nested" /\ stage' \in {"filterAll", "preserve"} /\ todo' \subseteq Roots
        BY <1>0, <1>7 DEF NestedProbed
    <2>1. Numbered' /\ Announced' /\ Kept'
        BY <1>7, <2>0, QuietKeeps DEF NestedProbed, restoreVars, endVars
    <2>2. Sorts' BY <1>7, <2>0 DEF NestedProbed, ScanGoesOn, folderVars, listVars, Sorts, Stages
    <2>3. Phases'
        BY <1>7, <2>0 DEF NestedProbed, ScanGoesOn, queueVars, listVars, restoreVars, endVars, Phases
    <2> QED BY <2>1, <2>2, <2>3
<1>8. ASSUME NEW r \in Roots, Probe(r) PROVE ListInv'
    <2>1. Numbered' /\ Announced' /\ Kept'
        BY <1>8, QuietKeeps DEF Probe, restoreVars, endVars
    <2>2. Sorts' BY <1>8 DEF Probe, ReadsFolders, listVars, Sorts
    <2>3. Phases' BY <1>8 DEF Probe, queueVars, listVars, restoreVars, endVars, Phases
    <2> QED BY <2>1, <2>2, <2>3
<1>9. ASSUME NEW q \in Requests, NEW f \in SUBSET Roots, NEW k, Ask(q, f, k), folders' = f,
             UNCHANGED <<listVars, reg, restoreVars, endVars>>
      PROVE  ListInv'
    <2>1. CASE active = {} /\ queued = {}
        <3>1. /\ BeginScan(f, k) /\ task' = "running" /\ stage = "idle" /\ ~disposed
            BY <1>9, <2>1 DEF Ask, Queue!Run, Queue!RunTask, HeldInv, Queue!TypeOK, Phases
        <3>2. Numbered' /\ Announced' /\ Kept'
            BY <1>9, <3>1, QuietKeeps DEF BeginScan, restoreVars, endVars
        <3>3. Sorts' BY <1>0, <1>9, <3>1 DEF BeginScan, listVars, Sorts, Stages
        <3>4. Phases' BY <1>9, <3>1 DEF BeginScan, listVars, restoreVars, endVars, Phases
        <3> QED BY <3>2, <3>3, <3>4
    <2>2. CASE ~(active = {} /\ queued = {})
        <3>1. UNCHANGED scanVars /\ task' = task
            BY <1>9, <2>2 DEF Ask, Queue!Run
        <3>2. Numbered' /\ Announced' /\ Kept'
            BY <1>9, <3>1, QuietKeeps DEF scanVars, restoreVars, endVars
        <3>3. Sorts' BY <1>9, <3>1 DEF scanVars, listVars, Sorts
        <3>4. Phases' BY <1>9, <3>1 DEF scanVars, listVars, restoreVars, endVars, Phases
        <3> QED BY <3>2, <3>3, <3>4
    <2> QED BY <2>1, <2>2
<1>10. ASSUME NEW q \in Requests, AskScan(q) PROVE ListInv'
    BY <1>9, <1>10 DEF AskScan, folderVars, Sorts
<1>11. ASSUME NEW q \in Requests, FoldersChange(q) PROVE ListInv'
    <2>1. PICK f \in SUBSET Roots : folders' = f /\ Ask(q, f, {}) BY <1>11 DEF FoldersChange
    <2> QED BY <1>9, <1>11, <2>1 DEF FoldersChange
<1> QED BY <1>1, <1>2, <1>3, <1>4, <1>5, <1>6, <1>7, <1>8, <1>10, <1>11

LEMMA StepAccounts == ListInv /\ HeldInv /\ [Next]_vars => ListInv'
<1> SUFFICES ASSUME ListInv, HeldInv, [Next]_vars PROVE ListInv'
    OBVIOUS
<1>1. CASE ScanStep
    <2>1. CASE NestedProbed /\ repos = {}
        <3>1. ReconcileAll /\ stage = "nested" BY <2>1 DEF NestedProbed
        <3> QED BY <2>1, <3>1, ReconcileAccounts DEF NestedProbed, folderVars, restoreVars, endVars
    <2>2. CASE FilteredAll
        BY <2>2, ReconcileAccounts DEF FilteredAll, folderVars, restoreVars, endVars
    <2> QED BY <1>1, <2>1, <2>2, ScanningAccounts, ReconcileRootsAccounts, ClosesAccounts DEF ScanStep
<1>2. CASE NestedFails \/ \E q \in Requests : AskScan(q) \/ FoldersChange(q)
    BY <1>2, ScanningAccounts
<1>3. CASE FetchBegins \/ FetchEnds
    <2>1. UNCHANGED <<queueVars, folders, listVars, reg, scanVars, restoreVars, endVars>>
        BY <1>3 DEF FetchBegins, FetchEnds
    <2>2. Numbered' /\ Announced' /\ Kept'
        BY <2>1, QuietKeeps DEF scanVars, restoreVars, endVars
    <2> QED BY <2>1, <2>2 DEF ListInv, Sorts, Phases, queueVars, listVars, scanVars, restoreVars, endVars
<1>4. ASSUME NEW r \in Roots, Asks(r) PROVE ListInv'
    <2>1. UNCHANGED <<queueVars, folders, listVars, scanVars, restoreVars, endVars>>
        BY <1>4 DEF Asks, ReadsFolders
    <2>2. Numbered' /\ Announced' /\ Kept'
        BY <2>1, QuietKeeps DEF scanVars, restoreVars, endVars
    <2>3. reg' \subseteq Roots BY <1>4 DEF Asks, ListInv, Sorts
    <2> QED BY <2>1, <2>2, <2>3
            DEF ListInv, Sorts, Phases, queueVars, listVars, scanVars, restoreVars, endVars
<1>5. ASSUME NEW r \in Roots, Registers(r) \/ Loads(r) \/ Creates(r) PROVE ListInv'
    BY <1>5, RegistersAccounts, LoadsAccounts, CreatesAccounts
<1>6. CASE RestoreBegins
    <2>1. loaded' = loaded BY <1>6 DEF RestoreBegins, ListInv, Phases
    <2>2. UNCHANGED <<queueVars, folders, listVars, reg, scanVars, strays, endVars>>
          /\ restore' = "load"
        BY <1>6 DEF RestoreBegins, folderVars
    <2>3. Numbered' /\ Announced' /\ Kept'
        BY <2>1, <2>2, QuietKeeps DEF scanVars, endVars
    <2> QED BY <2>1, <2>2, <2>3 DEF ListInv, Sorts, Phases, queueVars, listVars, scanVars, endVars
<1>7. CASE Dispose
    <2>1. UNCHANGED <<queueVars, folders, listVars, reg, scanVars, restoreVars, teardown>>
          /\ disposed' = TRUE
        BY <1>7 DEF Dispose, folderVars
    <2>2. Numbered' /\ Announced' /\ Kept'
        BY <2>1, QuietKeeps DEF scanVars, restoreVars
    <2> QED BY <2>1, <2>2 DEF ListInv, Sorts, Phases, queueVars, listVars, scanVars, restoreVars
<1>8. CASE DisposeEnds
    <2>1. /\ gone' = gone \cup repos /\ repos' = {} /\ disposed' = disposed /\ disposed
          /\ UNCHANGED <<queueVars, folders, made, shown, reg, scanVars, restoreVars>>
          /\ active = {}
        BY <1>8 DEF DisposeEnds, folderVars
    <2>2. stage = "idle"
        BY <2>1 DEF HeldInv, Queue!TypeOK, ListInv, Phases
    <2>3. Created' = Created BY <2>1, CreatedStays
    <2>4. Numbered' /\ Announced' /\ Kept'
        BY <2>1, <2>3 DEF ListInv, Numbered, Announced, Kept, scanVars, restoreVars
    <2> QED BY <2>1, <2>2, <2>4 DEF ListInv, Sorts, Phases, queueVars, scanVars, restoreVars
<1>9. CASE UNCHANGED vars
    <2>1. UNCHANGED <<queueVars, folders, listVars, reg, scanVars, restoreVars, endVars>>
        BY <1>9 DEF vars, folderVars
    <2>2. Numbered' /\ Announced' /\ Kept'
        BY <2>1, QuietKeeps DEF scanVars, restoreVars, endVars
    <2> QED BY <2>1, <2>2 DEF ListInv, Sorts, Phases, queueVars, listVars, scanVars, restoreVars, endVars
<1> QED BY <1>1, <1>2, <1>3, <1>4, <1>5, <1>6, <1>7, <1>8, <1>9 DEF Next

\* However scans, registrations, restores and the teardown interleave, between
\* scans the listeners hold open what the list holds, and after dispose() every
\* repository ever created is disposed of, but for the strays the model names
\* (reconcileCandidates, registerRepositories, dispose).
THEOREM EveryInstanceIsAccounted == Spec => []InstancesAreAccounted
<1>1. Spec => []HeldInv
    BY ScansKeepToTheQueue, HeldInvAlways, PTL
<1>2. ListInv => InstancesAreAccounted
    <2> SUFFICES ASSUME ListInv PROVE InstancesAreAccounted
        OBVIOUS
    <2>1. Created \subseteq Instances BY CreatedAreInstances DEF ListInv
    <2>2. TypeOK BY <2>1 DEF ListInv, Numbered, Sorts, Stages, TypeOK
    <2>3. ShownAreListed BY DEF ListInv, Phases, Announced, Unannounced, ShownAreListed
    <2>4. NothingLeaks BY DEF ListInv, Phases, Kept, NothingLeaks
    <2> QED BY <2>2, <2>3, <2>4 DEF InstancesAreAccounted
<1> QED BY InitAccounts, StepAccounts, <1>1, <1>2, PTL DEF Spec

-----------------------------------------------------------------------------
(* What a scan finds.  While the folders it saw are the present ones, what it  *)
(* can reach is a candidate or has still to be probed; what it was not         *)
(* disturbed by gives it no other candidate and no other repository.           *)

Looking == stage \notin {"idle", "closing"} /\ ~moved /\ ~disposed

Awaited == IF stage \in {"folders", "nested"} THEN todo ELSE {}
Preserving == IF stage = "preserve" THEN todo ELSE {}

SameFolders == /\ known \in {{}, {folders}} /\ snap = folders
               /\ cand \subseteq folders /\ globbed \subseteq folders
               /\ stage \in {"folders", "filter"} => globbed = {}

Complete == /\ Reachable \subseteq cand \cup Awaited
            /\ dyn \subseteq repos
            /\ stage \in {"preserve", "filterAll"} =>
                  RootsOf(early) \cap folders \subseteq cand \cup Preserving

NothingElse == dyn = {} => /\ cand \subseteq Reachable
                           /\ Awaited \subseteq initial \cup Primary \cup globbed
                           /\ initial \subseteq RootsOf(repos)
                           /\ RootsOf(repos) \subseteq initial \cup cand
                           /\ Preserving = {}

FoundInv == Looking => SameFolders /\ Complete /\ NothingElse

\* The cached list of folders, when there is one, is the present one.
LEMMA LooksInFolders ==
    ASSUME known \in {{}, {folders}}, NEW r
    PROVE  InWorkspace(r) <=> r \in folders
<1>1. UNION {folders} = folders OBVIOUS
<1> QED BY <1>1 DEF InWorkspace

LEMMA RootsOfUnion ==
    ASSUME NEW a, NEW b
    PROVE  RootsOf(a \cup b) = RootsOf(a) \cup RootsOf(b)
BY DEF RootsOf

\* A step beside the scan that adds no instance.
LEMMA QuietLooks ==
    ASSUME FoundInv, Looking' => Looking /\ known' \in {{}, {folders}},
           UNCHANGED <<repos, folders, snap, initial, globbed, cand, todo, stage, early, dyn>>
    PROVE  FoundInv'
<1> SUFFICES ASSUME Looking' PROVE (SameFolders /\ Complete /\ NothingElse)'
    BY DEF FoundInv
<1>1. SameFolders /\ Complete /\ NothingElse BY DEF FoundInv
<1>2. Reachable' = Reachable /\ Awaited' = Awaited /\ Preserving' = Preserving
    BY DEF Reachable, Awaited, Preserving
<1>3. SameFolders' BY <1>1 DEF SameFolders
<1>4. Complete' BY <1>1, <1>2 DEF Complete
<1>5. NothingElse' BY <1>1, <1>2 DEF NothingElse
<1> QED BY <1>3, <1>4, <1>5

\* A registration beside the scan is among those the scan has to preserve.
LEMMA AddsLooks ==
    ASSUME FoundInv, NEW insts, Adds(insts), Looking' => known' \in {{}, {folders}},
           UNCHANGED <<folders, snap, initial, globbed, cand, todo, stage, early, moved, disposed>>
    PROVE  FoundInv'
<1> SUFFICES ASSUME Looking' PROVE (SameFolders /\ Complete /\ NothingElse)'
    BY DEF FoundInv
<1>1. SameFolders /\ Complete /\ NothingElse BY DEF FoundInv, Looking
<1>2. Reachable' = Reachable /\ Awaited' = Awaited /\ Preserving' = Preserving
    BY DEF Reachable, Awaited, Preserving
<1>3. repos' = repos \cup insts /\ dyn' = dyn \cup insts BY DEF Adds, Looking
<1>4. SameFolders' BY <1>1 DEF SameFolders
<1>5. Complete' BY <1>1, <1>2, <1>3 DEF Complete
<1>6. dyn' = {} => dyn = {} /\ repos' = repos BY <1>3
<1>7. NothingElse' BY <1>1, <1>2, <1>6 DEF NothingElse
<1> QED BY <1>4, <1>5, <1>7

LEMMA RegisteredLooks ==
    ASSUME FoundInv, NEW l, Loaded(l), Looking' => known' \in {{}, {folders}},
           UNCHANGED <<folders, snap, initial, globbed, cand, todo, stage, early, moved, disposed>>
    PROVE  FoundInv'
<1>1. CASE UNCHANGED <<repos, shown, dyn, strays>>
    BY <1>1, QuietLooks DEF Looking
<1>2. ASSUME NEW insts, Adds(insts) PROVE FoundInv'
    BY <1>2, AddsLooks
<1> QED BY <1>1, <1>2 DEF Loaded, Registered

\* A scan begins by what is listed and the roots of the folders.
LEMMA BeginLooks ==
    ASSUME NEW f, NEW k, BeginScan(f, k), folders' = f, known' = k, repos' = repos
    PROVE  FoundInv'
<1> SUFFICES ASSUME Looking' PROVE (SameFolders /\ Complete /\ NothingElse)'
    BY DEF FoundInv
<1>1. /\ stage' = "folders" /\ initial' = RootsOf(repos) /\ snap' = f
      /\ todo' = RootsOf(repos) \cup (Primary \cap f)
      /\ cand' = {} /\ globbed' = {} /\ dyn' = {}
      /\ moved' = (k \notin {{}, {f}})
    BY DEF BeginScan
<1>2. SameFolders' BY <1>1 DEF SameFolders, Looking
<1>3. Awaited' = todo' /\ Preserving' = {} BY <1>1 DEF Awaited, Preserving
<1>4. Complete' BY <1>1, <1>3 DEF Complete, Reachable
<1>5. NothingElse' BY <1>1, <1>3 DEF NothingElse
<1> QED BY <1>2, <1>4, <1>5

\* findFiles: what it names is probed unless it is a candidate already.
LEMMA GlobsLooks ==
    ASSUME FoundInv, Globs, stage \in {"folders", "filter"}, stage = "folders" => todo = {},
           NEW insts, repos' = repos \cup insts, RootsOf(insts) \subseteq cand,
           UNCHANGED <<folders, known, snap, initial, cand, dyn, moved, disposed>>
    PROVE  FoundInv'
<1> SUFFICES ASSUME Looking' PROVE (SameFolders /\ Complete /\ NothingElse)'
    BY DEF FoundInv
<1>1. SameFolders /\ Complete /\ NothingElse BY DEF FoundInv, Looking
<1>2. /\ stage' = "nested" /\ globbed' \in {snap, snap \cap Primary} /\ todo' = globbed' \ cand
    BY DEF Globs
<1>3. Awaited' = globbed' \ cand /\ Preserving' = {} /\ Awaited = {}
    BY <1>2 DEF Awaited, Preserving
<1>4. SameFolders' BY <1>1, <1>2 DEF SameFolders
<1>5. folders \cap (initial \cup Primary) \subseteq cand
    BY <1>1, <1>3 DEF Complete, Reachable
<1>6. Reachable' \subseteq cand' \cup Awaited'
    BY <1>3, <1>5 DEF Reachable
<1>7. Complete' BY <1>1, <1>2, <1>6 DEF Complete
<1>8. globbed = {} BY <1>1 DEF SameFolders
<1>9. Reachable \subseteq Reachable' BY <1>8 DEF Reachable
<1>10. RootsOf(repos') = RootsOf(repos) \cup RootsOf(insts) BY RootsOfUnion
<1>11. NothingElse' BY <1>1, <1>3, <1>9, <1>10 DEF NothingElse
<1> QED BY <1>4, <1>7, <1>11

LEMMA FoldersProbedLooks == ASSUME FoundInv, FoldersProbed PROVE FoundInv'
<1>0. /\ stage = "folders" /\ todo = {}
      /\ UNCHANGED <<folders, known, repos, snap, initial, cand, dyn, early, moved, disposed>>
    BY DEF FoldersProbed, folderVars, listVars, historyVars, endVars
<1>1. CASE Globs
    <2>1. repos' = repos \cup {} /\ RootsOf({}) \subseteq cand BY <1>0 DEF RootsOf
    <2> QED BY <1>0, <1>1, <2>1, GlobsLooks
<1>2. CASE stage' = "filter" /\ UNCHANGED <<globbed, todo>>
    <2> SUFFICES ASSUME Looking' PROVE (SameFolders /\ Complete /\ NothingElse)'
        BY DEF FoundInv
    <2>1. SameFolders /\ Complete /\ NothingElse BY <1>0 DEF FoundInv, Looking
    <2>2. Reachable' = Reachable /\ Awaited = {} /\ Awaited' = {} /\ Preserving' = {}
        BY <1>0, <1>2 DEF Reachable, Awaited, Preserving
    <2>3. SameFolders' BY <1>0, <1>2, <2>1 DEF SameFolders
    <2>4. Complete' BY <1>0, <1>2, <2>1, <2>2 DEF Complete
    <2>5. NothingElse' BY <1>0, <1>2, <2>1, <2>2 DEF NothingElse
    <2> QED BY <2>3, <2>4, <2>5
<1> QED BY <1>1, <1>2 DEF FoldersProbed

LEMMA ReconcileRootsLooks == ASSUME FoundInv, ReconcileRoots PROVE FoundInv'
<1> DEFINE new == Fresh(Filtered \ RootsOf(repos))
<1>0. /\ stage = "filter" /\ Globs
      /\ UNCHANGED <<folders, known, snap, initial, cand, dyn, early, moved, disposed>>
    BY DEF ReconcileRoots, folderVars, historyVars, endVars
<1>1. RootsOf(new) \subseteq cand BY FreshIsSingle DEF Filtered
<1>2. RootsOf({}) \subseteq cand BY DEF RootsOf
<1>3. repos' = repos \cup new \/ repos' = repos \cup {}
    BY DEF ReconcileRoots, listVars
<1> HIDE DEF new
<1> QED BY <1>0, <1>1, <1>2, <1>3, GlobsLooks

LEMMA NestedProbedLooks == ASSUME FoundInv, NestedProbed, repos # {} PROVE FoundInv'
<1> DEFINE unseen == RootsOf(repos) \ (initial \cup cand)
<1>0. /\ stage = "nested" /\ todo = {} /\ todo' = unseen /\ early' = dyn
      /\ stage' = IF unseen = {} THEN "filterAll" ELSE "preserve"
      /\ UNCHANGED <<folders, known, repos, snap, initial, globbed, cand, dyn, moved, disposed>>
    BY DEF NestedProbed, ScanGoesOn, folderVars, listVars, endVars
<1> SUFFICES ASSUME Looking' PROVE (SameFolders /\ Complete /\ NothingElse)'
    BY DEF FoundInv
<1>1. SameFolders /\ Complete /\ NothingElse BY <1>0 DEF FoundInv, Looking
<1>2. Reachable' = Reachable /\ Awaited = {} /\ Awaited' = {} /\ Preserving' = unseen
    BY <1>0 DEF Reachable, Awaited, Preserving
<1>3. SameFolders' BY <1>0, <1>1 DEF SameFolders
<1>4. RootsOf(early') \cap folders \subseteq cand \cup unseen
    <2>1. RootsOf(dyn) \subseteq RootsOf(repos) BY <1>1 DEF Complete, RootsOf
    <2>2. initial \cap folders \subseteq cand BY <1>1, <1>2 DEF Complete, Reachable
    <2> QED BY <1>0, <2>1, <2>2
<1>5. Complete' BY <1>0, <1>1, <1>2, <1>4 DEF Complete
<1>6. NothingElse' BY <1>0, <1>1, <1>2 DEF NothingElse
<1> QED BY <1>3, <1>5, <1>6

LEMMA PreservedLooks == ASSUME FoundInv, Preserved PROVE FoundInv'
<1>0. /\ stage = "preserve" /\ todo = {} /\ stage' = "filterAll"
      /\ UNCHANGED <<folders, known, repos, todo, snap, initial, globbed, cand, dyn, early,
                     moved, disposed>>
    BY DEF Preserved, ScanGoesOn, folderVars, listVars, endVars
<1> SUFFICES ASSUME Looking' PROVE (SameFolders /\ Complete /\ NothingElse)'
    BY DEF FoundInv
<1>1. SameFolders /\ Complete /\ NothingElse BY <1>0 DEF FoundInv, Looking
<1>2. Reachable' = Reachable /\ Awaited' = Awaited /\ Preserving' = Preserving
    BY <1>0 DEF Reachable, Awaited, Preserving
<1>3. SameFolders' BY <1>0, <1>1 DEF SameFolders
<1>4. Complete' BY <1>0, <1>1, <1>2 DEF Complete
<1>5. NothingElse' BY <1>0, <1>1, <1>2 DEF NothingElse
<1> QED BY <1>3, <1>4, <1>5

LEMMA ProbeLooks == ASSUME FoundInv, NEW r \in Roots, Probe(r) PROVE FoundInv'
<1>0. /\ stage \in {"folders", "nested", "preserve"} /\ r \in todo /\ todo' = todo \ {r}
      /\ cand' = IF InWorkspace(r) /\ ~disposed THEN cand \cup {r} ELSE cand
      /\ known' \in {known, {folders}}
      /\ UNCHANGED <<folders, repos, stage, snap, initial, globbed, dyn, early, moved, disposed>>
    BY DEF Probe, ReadsFolders, listVars, historyVars, endVars
<1> SUFFICES ASSUME Looking' PROVE (SameFolders /\ Complete /\ NothingElse)'
    BY DEF FoundInv
<1>1. SameFolders /\ Complete /\ NothingElse /\ ~disposed BY <1>0 DEF FoundInv, Looking
<1>2. cand' = cand \cup ({r} \cap folders)
    BY <1>0, <1>1, LooksInFolders DEF SameFolders
<1>3. Reachable' = Reachable /\ Awaited' = Awaited \ {r} /\ Preserving' = Preserving \ {r}
    BY <1>0 DEF Reachable, Awaited, Preserving
<1>4. Reachable \subseteq folders BY DEF Reachable
<1>5. SameFolders' BY <1>0, <1>1, <1>2 DEF SameFolders
<1>6. Complete' BY <1>0, <1>1, <1>2, <1>3, <1>4 DEF Complete
<1>7. ASSUME dyn = {} PROVE {r} \cap folders \subseteq Reachable
    <2>1. CASE stage = "preserve"
        BY <1>0, <1>1, <1>7, <2>1 DEF NothingElse, Preserving
    <2>2. CASE stage # "preserve"
        BY <1>0, <1>1, <1>7, <2>2 DEF NothingElse, Awaited, Reachable
    <2> QED BY <2>1, <2>2
<1>8. NothingElse' BY <1>0, <1>1, <1>2, <1>3, <1>7 DEF NothingElse
<1> QED BY <1>5, <1>6, <1>8

\* The last reconciliation ends the search.
LEMMA ReconcileLands == ASSUME ReconcileAll PROVE stage' \in {"idle", "closing"}
BY DEF ReconcileAll, Finish, EndScan

-----------------------------------------------------------------------------
LEMMA InitFound == Init => FoundInv
BY DEF Init, FoundInv, Looking

LEMMA AskLooks ==
    ASSUME FoundInv, HeldInv, Phases, NEW q \in Requests, NEW f, NEW k, Ask(q, f, k),
           folders' = f, known' = k, repos' = repos, disposed' = disposed,
           f = folders => k = known
    PROVE  FoundInv'
<1>1. CASE active = {} /\ queued = {}
    BY <1>1, BeginLooks DEF Ask
<1>2. CASE ~(active = {} /\ queued = {})
    <2>1. UNCHANGED <<scanVars, dyn, early>> /\ moved' = (moved \/ (stage # "idle" /\ f # folders))
        BY <1>2 DEF Ask
    <2>2. CASE Looking'
        <3>1. f = folders /\ Looking BY <2>1, <2>2 DEF Looking, scanVars
        <3>2. known' \in {{}, {folders}} BY <3>1 DEF FoundInv, SameFolders
        <3> QED BY <2>1, <3>1, <3>2, QuietLooks DEF scanVars
    <2>3. CASE ~Looking' BY <2>3 DEF FoundInv
    <2> QED BY <2>2, <2>3
<1> QED BY <1>1, <1>2

LEMMA StepFound == FoundInv /\ Phases /\ HeldInv /\ [Next]_vars => FoundInv'
<1> SUFFICES ASSUME FoundInv, Phases, HeldInv, [Next]_vars PROVE FoundInv'
    OBVIOUS
<1>0. Looking => known \in {{}, {folders}} BY DEF FoundInv, SameFolders
<1>1. CASE ScanStep
    <2>1. CASE ScanReturns \/ ScanReleased
        BY <2>1, <1>0, QuietLooks DEF ScanReturns, ScanReleased, NoScanStep, scanVars, historyVars,
                                      folderVars, listVars, endVars, Looking
    <2>2. CASE StartQueuedScan
        <3>1. CASE disposed
            BY <2>2, <3>1 DEF StartQueuedScan, endVars, FoundInv, Looking
        <3>2. CASE ~disposed
            BY <2>2, <3>2, BeginLooks DEF StartQueuedScan, folderVars, listVars
        <3> QED BY <3>1, <3>2
    <2>3. CASE NestedProbed /\ repos = {}
        BY <2>3, ReconcileLands DEF NestedProbed, FoundInv, Looking
    <2>4. CASE FilteredAll
        BY <2>4, ReconcileLands DEF FilteredAll, FoundInv, Looking
    <2>5. ASSUME NEW i \in closing, Closes(i) PROVE FoundInv'
        BY <2>5 DEF Closes, Finish, EndScan, FoundInv, Looking
    <2> QED BY <1>1, <2>1, <2>2, <2>3, <2>4, <2>5, FoldersProbedLooks, ReconcileRootsLooks,
               NestedProbedLooks, PreservedLooks, ProbeLooks DEF ScanStep
<1>2. CASE NestedFails
    BY <1>2 DEF NestedFails, EndScan, FoundInv, Looking
<1>3. CASE FetchBegins
    BY <1>3, <1>0, QuietLooks DEF FetchBegins, scanVars, historyVars, listVars, endVars, Looking
<1>4. CASE FetchEnds
    <2>1. Looking' => Looking /\ known' \in {{}, {folders}}
        BY <1>4 DEF FetchEnds, scanVars, endVars, Looking
    <2> QED BY <1>4, <2>1, QuietLooks DEF FetchEnds, scanVars, listVars, endVars
<1>5. ASSUME NEW q \in Requests, AskScan(q) PROVE FoundInv'
    BY <1>5, AskLooks DEF AskScan, folderVars, listVars, endVars
<1>6. ASSUME NEW q \in Requests, FoldersChange(q) PROVE FoundInv'
    <2>1. PICK f \in (SUBSET Roots) \ {folders} : folders' = f /\ Ask(q, f, {})
        BY <1>6 DEF FoldersChange
    <2>2. f # folders OBVIOUS
    <2> QED BY <1>6, <2>1, <2>2, AskLooks DEF FoldersChange, listVars, endVars
<1>7. ASSUME NEW r \in Roots, Asks(r) PROVE FoundInv'
    <2>1. Looking' => Looking /\ known' \in {{}, {folders}}
        BY <1>7, <1>0 DEF Asks, ReadsFolders, scanVars, historyVars, endVars, Looking
    <2> QED BY <1>7, <2>1, QuietLooks DEF Asks, ReadsFolders, scanVars, historyVars, listVars
<1>8. ASSUME NEW r \in Roots, Registers(r) PROVE FoundInv'
    <2>1. /\ Looking' => Looking /\ known' \in {{}, {folders}}
          /\ UNCHANGED <<folders, snap, initial, globbed, cand, todo, stage, early, moved, disposed>>
        BY <1>8, <1>0 DEF Registers, folderVars, scanVars, endVars, Looking
    <2>2. CASE UNCHANGED <<repos, shown, made, dyn>>
        BY <2>1, <2>2, QuietLooks
    <2>3. CASE Adds(Fresh({r}))
        BY <2>1, <2>3, AddsLooks
    <2> QED BY <1>8, <2>2, <2>3 DEF Registers
<1>9. ASSUME NEW r \in Roots, Loads(r) PROVE FoundInv'
    <2>1. /\ Looking' => Looking /\ known' \in {{}, {folders}}
          /\ UNCHANGED <<folders, snap, initial, globbed, cand, todo, stage, early, moved, disposed>>
        BY <1>9, <1>0 DEF Loads, ReadsFolders, scanVars, endVars, Looking
    <2>2. CASE UNCHANGED <<cached, loaded, repos, shown, dyn, strays, gone>>
        BY <2>1, <2>2, QuietLooks
    <2>3. ASSUME NEW l, Loaded(l) PROVE FoundInv'
        BY <2>1, <2>3, RegisteredLooks
    <2> QED BY <1>9, <2>2, <2>3 DEF Loads
<1>10. ASSUME NEW r \in Roots, Creates(r) PROVE FoundInv'
    <2>1. /\ Looking' => Looking /\ known' \in {{}, {folders}}
          /\ UNCHANGED <<folders, snap, initial, globbed, cand, todo, stage, early, moved, disposed>>
        BY <1>10, <1>0 DEF Creates, folderVars, scanVars, endVars, Looking
    <2> QED BY <1>10, <2>1, RegisteredLooks DEF Creates
<1>11. CASE RestoreBegins
    BY <1>11, <1>0, QuietLooks DEF RestoreBegins, folderVars, listVars, scanVars, historyVars,
                                   endVars, Looking
<1>12. CASE Dispose \/ DisposeEnds
    BY <1>12 DEF Dispose, DisposeEnds, FoundInv, Looking
<1>13. CASE UNCHANGED vars
    BY <1>13, <1>0, QuietLooks DEF vars, folderVars, listVars, scanVars, historyVars, endVars, Looking
<1> QED BY <1>1, <1>2, <1>3, <1>4, <1>5, <1>6, <1>7, <1>8, <1>9, <1>10, <1>11, <1>12, <1>13
        DEF Next

-----------------------------------------------------------------------------
\* The last reconciliation leaves the filtered candidates, and a root once listed
\* goes only when it is none.
LEMMA ReconcileLeaves ==
    ASSUME ReconcileAll, ~disposed
    PROVE  /\ RootsOf(repos') = Filtered
           /\ \A i \in repos : i[1] \in Filtered => i \in repos'
<1> DEFINE kept == {i \in repos : i[1] \in Filtered}
           new == Fresh(Filtered \ RootsOf(repos))
<1>1. repos' = kept \cup new BY DEF ReconcileAll
<1>2. RootsOf(new) = Filtered \ RootsOf(repos) BY FreshIsSingle
<1>3. RootsOf(kept) = Filtered \cap RootsOf(repos) BY DEF RootsOf
<1>4. kept \subseteq repos' /\ RootsOf(repos') = RootsOf(kept) \cup RootsOf(new)
    BY <1>1, RootsOfUnion
<1> QED BY <1>2, <1>3, <1>4

\* The list loses something in a last reconciliation or after dispose() only.
LEMMA ListShrinks ==
    ASSUME [Next]_vars, ~(repos \subseteq repos'), ~disposed
    PROVE  ReconcileAll /\ stage \in {"nested", "filterAll"} /\ (stage = "nested" => repos = {})
<1>1. CASE ScanStep
    <2>1. CASE FilteredAll BY <2>1 DEF FilteredAll
    <2>2. CASE NestedProbed BY <2>2 DEF NestedProbed, listVars
    <2>3. CASE ReconcileRoots BY <2>3 DEF ReconcileRoots
    <2> QED BY <1>1, <2>1, <2>2, <2>3
            DEF ScanStep, ScanReturns, ScanReleased, StartQueuedScan, FoldersProbed, Preserved,
                Probe, Closes, listVars
<1>2. CASE \E r \in Roots : Registers(r) BY <1>2 DEF Registers, Adds
<1>3. CASE \E r \in Roots : Loads(r) \/ Creates(r)
    BY <1>3 DEF Loads, Creates, Loaded, Registered, Adds
<1>4. CASE DisposeEnds BY <1>4 DEF DisposeEnds
<1>5. CASE UNCHANGED vars BY <1>5 DEF vars, listVars
<1>6. CASE NestedFails \/ FetchBegins \/ FetchEnds \/ RestoreBegins \/ Dispose
    BY <1>6 DEF NestedFails, FetchBegins, FetchEnds, RestoreBegins, Dispose, listVars
<1>7. CASE \/ \E q \in Requests : AskScan(q) \/ FoldersChange(q)
           \/ \E r \in Roots : Asks(r)
    BY <1>7 DEF AskScan, FoldersChange, Asks, listVars
<1> QED BY <1>1, <1>2, <1>3, <1>4, <1>5, <1>6, <1>7 DEF Next

\* A repository that was created once is one.
LEMMA ListedWereMade ==
    ASSUME ListInv, NEW i \in repos
    PROVE  made[i[1]] # 0
<1>1. i \in Created BY DEF ListInv, Numbered
<1>2. PICK r \in Roots : \E k \in 1..made[r] : i = <<r, k>> BY <1>1, CreatedIs
<1> QED BY <1>2 DEF ListInv, Sorts

\* A repository that a scan has not found but that was registered beside it before
\* findFiles ended stays in the list: it is probed again before the list is
\* replaced (doScan, the roots to preserve).
THEOREM EarlyOnesSurvive == Spec => EarlySurvive
<1>1. Spec => []HeldInv
    BY ScansKeepToTheQueue, HeldInvAlways, PTL
<1>2. ASSUME FoundInv, ListInv, [Next]_vars, NEW i \in early \cap repos, Undisturbed(i[1])
      PROVE  i \in repos'
    <2> SUFFICES ASSUME i \notin repos' PROVE FALSE
        OBVIOUS
    <2>1. ReconcileAll /\ stage = "filterAll" /\ ~disposed
        BY <1>2, ListShrinks DEF Undisturbed
    <2>2. SameFolders /\ Complete
        BY <1>2, <2>1 DEF FoundInv, Looking, Undisturbed
    <2>3. i[1] \in cand
        BY <1>2, <2>1, <2>2 DEF Complete, RootsOf, Preserving, Undisturbed
    <2>4. IsMain(i[1]) \/ MainOf[i[1]] \notin RootsOf(repos) \cup cand
        <3> SUFFICES ASSUME MainOf[i[1]] \notin folders, made[MainOf[i[1]]] = 0
                     PROVE  MainOf[i[1]] \notin RootsOf(repos) \cup cand
            BY <1>2 DEF Undisturbed, Unrivalled
        <3>1. MainOf[i[1]] \notin RootsOf(repos) BY <1>2, ListedWereMade DEF RootsOf
        <3> QED BY <2>2, <3>1 DEF SameFolders
    <2>5. i[1] \in Filtered BY <2>3, <2>4 DEF Filtered
    <2> QED BY <2>1, <2>5, ReconcileLeaves
<1>3. FoundInv /\ ListInv /\ [Next]_vars
        => [\A i \in early \cap repos : Undisturbed(i[1]) => i \in repos']_vars
    BY <1>2
<1>4. ListInv => Phases BY DEF ListInv
<1> QED BY InitAccounts, StepAccounts, InitFound, StepFound, <1>1, <1>3, <1>4, PTL
        DEF Spec, EarlySurvive

\* A scan nobody disturbed ends with the repositories that can be reached, without
\* the secondary workspaces beside their main ones (doScan, filterRepositoryInfos,
\* reconcileCandidates).
THEOREM CalmScansAreRight == Spec => CalmScanIsRight
<1>1. Spec => []HeldInv
    BY ScansKeepToTheQueue, HeldInvAlways, PTL
<1>2. ASSUME FoundInv, Phases, HeldInv, [Next]_vars, Lands
      PROVE  ReconcileAll /\ (stage = "nested" => todo = {})
    <2>1. active # {} /\ stage \in {"nested", "filterAll"} /\ stage' \in {"closing", "idle"}
          /\ task' # "error"
        BY <1>2 DEF Lands, Phases, HeldInv, Queue!TypeOK
    <2>2. stage' # stage BY <2>1
    <2>3. CASE ScanStep
        <3>1. CASE FilteredAll BY <2>1, <3>1 DEF FilteredAll
        <3>2. CASE NestedProbed BY <2>1, <3>2 DEF NestedProbed
        <3>3. CASE StartQueuedScan BY <2>1, <3>3 DEF StartQueuedScan, Queue!StartQueued
        <3> QED BY <2>1, <2>2, <2>3, <3>1, <3>2, <3>3
                DEF ScanStep, ScanReturns, ScanReleased, NoScanStep, FoldersProbed, ReconcileRoots,
                    Preserved, Probe, Closes, scanVars
    <2>4. CASE NestedFails
        BY <2>1, <2>4 DEF NestedFails, EndScan, Queue!TaskSettles
    <2>5. CASE \/ FetchBegins \/ FetchEnds \/ RestoreBegins \/ Dispose \/ DisposeEnds
               \/ UNCHANGED vars
        BY <2>2, <2>5 DEF FetchBegins, FetchEnds, RestoreBegins, Dispose, DisposeEnds, vars, scanVars
    <2>6. CASE \E q \in Requests : AskScan(q) \/ FoldersChange(q)
        BY <2>1, <2>2, <2>6 DEF AskScan, FoldersChange, Ask, scanVars
    <2>7. CASE \E r \in Roots : Asks(r) \/ Registers(r) \/ Loads(r) \/ Creates(r)
        BY <2>2, <2>7 DEF Asks, Registers, Loads, Creates, scanVars
    <2> QED BY <1>2, <2>3, <2>4, <2>5, <2>6, <2>7 DEF Next
<1>3. ASSUME FoundInv, Phases, HeldInv, [Next]_vars, Lands, dyn = {}, ~moved, ~disposed
      PROVE  RootsOf(repos') = Expected
    <2>1. ReconcileAll /\ (stage = "nested" => todo = {}) BY <1>2, <1>3
    <2>2. SameFolders /\ Complete /\ NothingElse BY <1>3 DEF FoundInv, Looking, Lands
    <2>3. cand = Reachable BY <1>3, <2>1, <2>2 DEF Complete, NothingElse, Awaited, Lands
    <2>4. RootsOf(repos) \cup cand = Reachable \cup initial
        BY <1>3, <2>2, <2>3 DEF NothingElse
    <2>5. Filtered = Expected BY <2>3, <2>4 DEF Filtered, Expected
    <2> QED BY <1>3, <2>1, <2>5, ReconcileLeaves
<1>4. FoundInv /\ Phases /\ HeldInv /\ [Next]_vars
        => [Lands /\ dyn = {} /\ ~moved /\ ~disposed => RootsOf(repos') = Expected]_vars
    BY <1>3
<1>5. ListInv => Phases BY DEF ListInv
<1> QED BY InitAccounts, StepAccounts, InitFound, StepFound, <1>1, <1>4, <1>5, PTL
        DEF Spec, CalmScanIsRight
=============================================================================
