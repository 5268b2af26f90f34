------------------------- MODULE RepositoryManager -------------------------
(***************************************************************************)
(* src/core/jj-repository-manager.ts: which repositories are open.  Four   *)
(* kinds of callers change the list between each other's awaits: scans     *)
(* (one at a time, through a CoalescingQueue), registrations made when an  *)
(* editor or a folder shows a repository, the restore of the cached list,  *)
(* and dispose().                                                          *)
(*                                                                         *)
(* A root is a repository's normalized root path; a secondary workspace    *)
(* shares the store of its main one.  An instance, a JjRepository, is a    *)
(* root and a serial number.  createRepository is given the store path and *)
(* awaits nothing, so the microtasks around it are part of their step.     *)
(*                                                                         *)
(* Every root is a valid repository, found or not as it is under a         *)
(* workspace folder.  Left out: the focus, open editors as a source of a   *)
(* scan, the ignored and the explicitly configured paths, the caches of    *)
(* root directories, the modes of detection that do not scan sub-folders,  *)
(* setBinaryPath, the order of the list, and closeRepository and clear,    *)
(* which nothing but tests calls.                                          *)
(***************************************************************************)
EXTENDS Naturals, FiniteSets

CONSTANTS Roots,           \* the repositories on the disk
          Primary,         \* those that are the root of a workspace folder
          MainOf,          \* the main workspace of each
          AtFirst,         \* those the workspace folders contain at first
          Cached,          \* the stored list restore reads
          Requests,        \* the calls of scanForRepositories
          MaxChanges       \* bound on changes of the workspace folders

ASSUME RootsAssumption == /\ Primary \subseteq Roots
                          /\ AtFirst \subseteq Roots
                          /\ Cached \subseteq Roots
                          /\ MainOf \in [Roots -> Roots]
                          /\ \A r \in Roots : MainOf[MainOf[r]] = MainOf[r]

VARIABLES
    active, task, queued, promise,   \* the scan queue
    folders,               \* the roots that the workspace folders contain
    changes,               \* how often that changed
    known,                 \* _normalizedWorkspaceFolders, {} when undefined, or {list}
    fetch,                 \* the list a reading in progress will store, {} or {list}
    repos,                 \* _repositories
    made,                  \* how many instances of each root were created
    gone,                  \* the instances disposed
    shown,                 \* those a listener was told opened, and not closed
    reg,                   \* the roots whose registration has been probed
    stage,                 \* where the scan is
    snap,                  \* the folders it started from
    initial,               \* initialRepos
    globbed,               \* what findFiles answers
    todo,                  \* the roots it still has to probe
    cand,                  \* its candidates
    before,                \* the roots registered before it reconciled
    closing,               \* the instances it has still to close
    dyn,                   \* the instances registered since it began
    early,                 \* those of them registered before findFiles ended
    moved,                 \* the folders it saw are not the present ones
    restore,               \* where the restore is: "none", "load", "create", "done"
    cached,                \* the cached roots it has still to load
    item,                  \* the one it is about to create, {} or {root}
    loaded,                \* the instances it holds
    strays,                \* those it created and could not register, and those it
                           \* registered again after a scan had closed them
    disposed,              \* _disposed
    teardown               \* dispose() has come to its end

queueVars   == <<active, task, queued, promise>>
folderVars  == <<folders, changes, known, fetch>>
listVars    == <<repos, made, gone, shown>>
scanVars    == <<stage, snap, initial, globbed, todo, cand, before, closing>>
historyVars == <<dyn, early, moved>>
restoreVars == <<restore, cached, item, loaded, strays>>
endVars     == <<disposed, teardown>>
vars == <<queueVars, folderVars, listVars, reg, scanVars, historyVars, restoreVars, endVars>>

Queue == INSTANCE CoalescingQueue

Instances == Roots \X (Nat \ {0})
RootsOf(insts) == {i[1] : i \in insts}

Fresh(rs) == {<<r, made[r] + 1>> : r \in rs}
MadeWith(rs) == [r \in Roots |-> IF r \in rs THEN made[r] + 1 ELSE made[r]]
IsMain(r) == MainOf[r] = r
Created == UNION {{<<r, k>> : k \in 1..made[r]} : r \in Roots}

Init == /\ Queue!Init
        /\ folders = AtFirst /\ changes = 0
        /\ known = {} /\ fetch = {}
        /\ repos = {} /\ gone = {} /\ shown = {}
        /\ made = [r \in Roots |-> 0]
        /\ reg = {}
        /\ stage = "idle"
        /\ snap = {} /\ initial = {} /\ globbed = {} /\ todo = {} /\ cand = {}
        /\ before = {} /\ closing = {}
        /\ dyn = {} /\ early = {} /\ moved = FALSE
        /\ restore = "none" /\ cached = {} /\ item = {} /\ loaded = {} /\ strays = {}
        /\ disposed = FALSE /\ teardown = FALSE

-----------------------------------------------------------------------------
(* The list of folders, read through an await and cached.                  *)

\* isPathInOrAncestorOfWorkspace by the cached list, or by one read now.
InWorkspace(r) == r \in (IF known = {} THEN folders ELSE UNION known)
ReadsFolders == /\ known' = IF known = {} THEN {folders} ELSE known
                /\ UNCHANGED <<folders, changes, fetch>>

\* Some caller finds no list and begins to read one.
FetchBegins == /\ known = {} /\ fetch = {}
               /\ ~disposed
               /\ fetch' = {folders}
               /\ UNCHANGED <<queueVars, folders, changes, known, listVars, reg,
                              scanVars, historyVars, restoreVars, endVars>>

\* The reading is stored, whether or not the list was discarded meanwhile.
FetchEnds == /\ fetch # {}
             /\ known' = fetch
             /\ fetch' = {}
             /\ moved' = (moved \/ (stage # "idle" /\ fetch # {folders}))
             /\ UNCHANGED <<queueVars, folders, changes, listVars, reg, scanVars,
                            dyn, early, restoreVars, endVars>>

-----------------------------------------------------------------------------
(* The scan.                                                               *)

BeginScanForgetting(f, l) ==
    /\ stage' = "folders"
    /\ initial' = RootsOf(repos)
    /\ snap' = f
    /\ todo' = Primary \cap f
    /\ cand' = {} /\ globbed' = {}
    /\ dyn' = {} /\ early' = {}
    /\ moved' = (l \notin {{}, {f}})
    /\ UNCHANGED <<before, closing>>

\* doScan up to its first await, with folders f and the cached list l.
BeginScan(f, l) == /\ stage' = "folders"
                   /\ initial' = RootsOf(repos)
                   /\ snap' = f
                   /\ todo' = RootsOf(repos) \cup (Primary \cap f)
                   /\ cand' = {}
                   /\ globbed' = {}
                   /\ dyn' = {} /\ early' = {}
                   /\ moved' = (l \notin {{}, {f}})
                   /\ UNCHANGED <<before, closing>>

NoScanStep == UNCHANGED <<scanVars, historyVars>>

\* doScan returns, and its locals are gone.
EndScan(outcome) == /\ Queue!TaskSettles(outcome)
                    /\ stage' = "idle"
                    /\ snap' = {} /\ initial' = {} /\ globbed' = {} /\ todo' = {}
                    /\ cand' = {} /\ before' = {} /\ closing' = {}
                    /\ dyn' = {} /\ early' = {} /\ moved' = FALSE

ScanGoesOn == UNCHANGED <<queueVars, snap, initial, globbed, cand, dyn, moved>>

\* scanForRepositories(): a scan that starts runs to its first await at once.
Ask(q, f, l) == /\ ~disposed
                /\ Queue!Run(q)
                /\ IF active = {} /\ queued = {} THEN BeginScan(f, l)
                   ELSE /\ UNCHANGED <<scanVars, dyn, early>>
                        /\ moved' = (moved \/ (stage # "idle" /\ f # folders))

AskScan(q) == /\ Ask(q, folders, known)
              /\ UNCHANGED <<folderVars, listVars, reg, restoreVars, endVars>>

\* onDidChangeWorkspaceFolders: the cached list goes and a scan is asked for.
FoldersChange(q) ==
    /\ changes < MaxChanges
    /\ \E f \in (SUBSET Roots) \ {folders} : folders' = f /\ Ask(q, f, {})
    /\ changes' = changes + 1
    /\ known' = {}
    /\ UNCHANGED <<fetch, listVars, reg, restoreVars, endVars>>

\* The queued run starts; on a disposed manager it returns at once.
StartQueuedScan ==
    /\ Queue!StartQueued
    /\ IF disposed THEN NoScanStep
       ELSE BeginScan(folders, known)
    /\ UNCHANGED <<folderVars, listVars, reg, restoreVars, endVars>>

ScanReturns == /\ task = "running" /\ stage = "idle"
               /\ Queue!TaskSettles("ok")
               /\ NoScanStep
               /\ UNCHANGED <<folderVars, listVars, reg, restoreVars, endVars>>

\* A task that ended gives its promise's answer.
ScanReleased == /\ Queue!Release
                /\ NoScanStep
                /\ UNCHANGED <<folderVars, listVars, reg, restoreVars, endVars>>

\* addCandidate: a root that is a repository in the workspace is a candidate.
Probe(r) == /\ stage \in {"folders", "nested", "preserve"}
            /\ r \in todo
            /\ todo' = todo \ {r}
            /\ cand' = IF InWorkspace(r) /\ ~disposed THEN cand \cup {r} ELSE cand
            /\ ReadsFolders
            /\ UNCHANGED <<queueVars, listVars, reg, stage, snap, initial, globbed,
                           before, closing, historyVars, restoreVars, endVars>>

\* filterRepositoryInfos: no secondary workspace beside its main one.
Filtered == {r \in cand : IsMain(r) \/ MainOf[r] \notin RootsOf(repos) \cup cand}

\* findFiles lists what is below the folders, as far as its limit allows.
Globs == /\ \E s \in {snap, snap \cap Primary} : globbed' = s /\ todo' = s \ cand
         /\ stage' = "nested"

FoldersProbedIfAny ==
    /\ stage = "folders" /\ todo = {} /\ cand # {}
    /\ stage' = "filter"
    /\ UNCHANGED <<queueVars, folderVars, listVars, reg, snap, initial, globbed, todo, cand,
                   before, closing, historyVars, restoreVars, endVars>>

\* The roots of the folders are probed; without candidates nothing is reconciled.
FoldersProbed ==
    /\ stage = "folders" /\ todo = {}
    /\ IF cand = {} \/ disposed THEN Globs ELSE stage' = "filter" /\ UNCHANGED <<globbed, todo>>
    /\ UNCHANGED <<queueVars, folderVars, listVars, reg, snap, initial, cand, before,
                   closing, historyVars, restoreVars, endVars>>

\* reconcileCandidates(disposeMissing: false) keeps what is not a candidate.
ReconcileRoots ==
    /\ stage = "filter"
    /\ LET new == Fresh(Filtered \ RootsOf(repos)) IN
       IF disposed THEN UNCHANGED listVars
       ELSE /\ repos' = repos \cup new
            /\ made' = MadeWith(RootsOf(new))
            /\ shown' = shown \cup new
            /\ UNCHANGED gone
    /\ Globs
    /\ UNCHANGED <<queueVars, folderVars, reg, snap, initial, cand, before, closing,
                   historyVars, restoreVars, endVars>>

\* findFiles, or a probe, throws, and the scan with it.
NestedFails == /\ stage = "nested"
               /\ EndScan("error")
               /\ UNCHANGED <<folderVars, listVars, reg, restoreVars, endVars>>

\* The events after the missing ones were disposed.
Finish(list, oldRoots) ==
    /\ shown' = IF disposed THEN shown \ closing
                ELSE (shown \ closing) \cup {i \in list : i[1] \notin oldRoots}
    /\ EndScan("ok")

\* reconcileCandidates(disposeMissing: true): the candidates replace the list.
ReconcileAll ==
    LET missing == {i \in repos : i[1] \notin Filtered}
        new == Fresh(Filtered \ RootsOf(repos))
        list == (repos \ missing) \cup new
    IN
    IF disposed
    THEN EndScan("ok") /\ UNCHANGED listVars
    ELSE /\ repos' = list
         /\ made' = MadeWith(RootsOf(new))
         /\ UNCHANGED gone
         /\ IF missing = {} THEN Finish(list, RootsOf(repos))
            ELSE /\ stage' = "closing"
                 /\ before' = RootsOf(repos)
                 /\ closing' = missing
                 /\ ScanGoesOn
                 /\ UNCHANGED <<shown, todo, early>>

NestedProbedAtOnce ==
    /\ stage = "nested" /\ todo = {}
    /\ stage' = "filterAll"
    /\ early' = dyn
    /\ ScanGoesOn
    /\ UNCHANGED <<todo, listVars, before, closing, folderVars, reg, restoreVars, endVars>>

\* What was registered meanwhile and is no candidate is probed again.
NestedProbed ==
    /\ stage = "nested" /\ todo = {}
    /\ LET unseen == RootsOf(repos) \ (initial \cup cand) IN
       IF repos = {}
       THEN ReconcileAll                    \* there is nothing to await
       ELSE /\ stage' = IF unseen = {} THEN "filterAll" ELSE "preserve"
            /\ todo' = unseen
            /\ early' = dyn
            /\ ScanGoesOn
            /\ UNCHANGED <<listVars, before, closing>>
    /\ UNCHANGED <<folderVars, reg, restoreVars, endVars>>

Preserved ==
    /\ stage = "preserve" /\ todo = {}
    /\ stage' = "filterAll"
    /\ ScanGoesOn
    /\ UNCHANGED <<folderVars, listVars, reg, todo, before, closing, early, restoreVars,
                   endVars>>

FilteredAll ==
    /\ stage = "filterAll"
    /\ ReconcileAll
    /\ UNCHANGED <<folderVars, reg, restoreVars, endVars>>

\* One missing repository is disposed, awaited, and reported closed; after the
\* last the opened ones are reported, compared with the list as it is by then.
Closes(i) ==
    /\ stage = "closing"
    /\ i \in closing
    /\ gone' = gone \cup {i}
    /\ IF closing = {i} THEN Finish(repos, before)
       ELSE /\ closing' = closing \ {i}
            /\ shown' = IF disposed THEN shown ELSE shown \ {i}
            /\ ScanGoesOn
            /\ UNCHANGED <<stage, todo, before, early>>
    /\ UNCHANGED <<folderVars, repos, made, reg, restoreVars, endVars>>

-----------------------------------------------------------------------------
(* Registrations on demand.                                                *)

\* maybeRegisterRepositoryContainingUri, maybeRegisterWorkspaceRoot: no
\* repository is registered for the path, and the probe finds one.
Asks(r) == /\ ~disposed
           /\ r \notin reg
           /\ r \notin RootsOf(repos)
           /\ InWorkspace(r)
           /\ ReadsFolders
           /\ reg' = reg \cup {r}
           /\ UNCHANGED <<queueVars, listVars, scanVars, historyVars, restoreVars, endVars>>

\* registerRepositories.
Adds(insts) == /\ repos' = repos \cup insts
               /\ shown' = shown \cup insts
               /\ dyn' = IF stage = "idle" THEN dyn ELSE dyn \cup insts

RegistersUnchecked(r) ==
    /\ r \in reg
    /\ reg' = reg \ {r}
    /\ IF disposed \/ (~IsMain(r) /\ \E i \in repos : MainOf[i[1]] = MainOf[r])
       THEN UNCHANGED <<repos, shown, made, dyn>>
       ELSE Adds(Fresh({r})) /\ made' = MadeWith({r})
    /\ UNCHANGED <<queueVars, folderVars, gone, scanVars, early, moved, restoreVars, endVars>>

\* registerRepository: nothing is registered twice, no secondary workspace
\* beside another one of its store, and nothing once disposed.
Registers(r) ==
    /\ r \in reg
    /\ reg' = reg \ {r}
    /\ IF \/ disposed
          \/ r \in RootsOf(repos)
          \/ ~IsMain(r) /\ \E i \in repos : MainOf[i[1]] = MainOf[r]
       THEN UNCHANGED <<repos, shown, made, dyn>>
       ELSE Adds(Fresh({r})) /\ made' = MadeWith({r})
    /\ UNCHANGED <<queueVars, folderVars, gone, scanVars, early, moved,
                   restoreVars, endVars>>

-----------------------------------------------------------------------------
(* The restore of the cached list, one cached root after the other.        *)

RestoreBegins == /\ restore = "none" /\ ~disposed
                 /\ Cached # {}
                 /\ restore' = "load" /\ cached' = Cached
                 /\ loaded' = {}
                 /\ UNCHANGED <<queueVars, folderVars, listVars, reg, scanVars,
                                historyVars, item, strays, endVars>>

\* After the last cached root, with the instances l: those whose root is not in
\* the list are registered; a disposed manager disposes of them.
Registered(l) ==
    IF disposed \/ l = {}
    THEN /\ gone' = gone \cup (l \ repos)
         /\ restore' = "done" /\ loaded' = {}
         /\ UNCHANGED <<repos, shown, dyn, strays>>
    ELSE LET new == {i \in l : i[1] \notin RootsOf(repos)} IN
         /\ Adds(new)
         /\ restore' = "done" /\ loaded' = {}
         /\ strays' = strays \cup (l \ (repos \cup new)) \cup (new \cap (closing \cup gone))
         /\ UNCHANGED gone

\* A cached root is done with; the next one, or the end, follows at once.
Loaded(l) ==
    IF cached' = {} THEN Registered(l)
    ELSE /\ restore' = "load" /\ loaded' = l
         /\ UNCHANGED <<repos, shown, dyn, strays, gone>>

\* An instance of a cached root that is in the list is reused.
Loads(r) ==
    /\ restore = "load"
    /\ r \in cached
    /\ LET there == {i \in repos : i[1] = r} IN
       IF InWorkspace(r) /\ there = {}
       THEN /\ restore' = "create" /\ item' = {r}
            /\ UNCHANGED <<cached, loaded, repos, shown, dyn, strays, gone>>
       ELSE /\ cached' = cached \ {r}
            /\ UNCHANGED item
            /\ Loaded(IF InWorkspace(r) THEN loaded \cup there ELSE loaded)
    /\ ReadsFolders
    /\ UNCHANGED <<queueVars, made, reg, scanVars, early, moved, endVars>>

\* Another one is created once its directory was found, which takes an await.
Creates(r) ==
    /\ restore = "create" /\ item = {r}
    /\ item' = {}
    /\ cached' = cached \ {r}
    /\ made' = MadeWith({r})
    /\ Loaded(loaded \cup Fresh({r}))
    /\ UNCHANGED <<queueVars, folderVars, reg, scanVars, early, moved, endVars>>

-----------------------------------------------------------------------------
\* dispose() up to its first await.
Dispose == /\ ~disposed
           /\ disposed' = TRUE
           /\ UNCHANGED <<queueVars, folderVars, listVars, reg, scanVars, historyVars,
                          restoreVars, teardown>>

DisposeEndsAtOnce ==
    /\ disposed /\ ~teardown
    /\ gone' = gone \cup repos
    /\ repos' = {}
    /\ teardown' = TRUE
    /\ UNCHANGED <<queueVars, folderVars, made, shown, reg, scanVars, historyVars,
                   restoreVars, disposed>>

\* The scan it awaited has ended: the listed repositories are disposed.
DisposeEnds == /\ disposed /\ ~teardown
               /\ active = {} /\ queued = {}
               /\ gone' = gone \cup repos
               /\ repos' = {}
               /\ teardown' = TRUE
               /\ UNCHANGED <<queueVars, folderVars, made, shown, reg, scanVars,
                              historyVars, restoreVars, disposed>>

ScanStep == \/ ScanReturns \/ ScanReleased \/ StartQueuedScan
            \/ FoldersProbed \/ ReconcileRoots \/ NestedProbed \/ Preserved \/ FilteredAll
            \/ \E r \in Roots : Probe(r)
            \/ \E i \in closing : Closes(i)

Next == \/ ScanStep
        \/ NestedFails
        \/ FetchBegins \/ FetchEnds
        \/ \E q \in Requests : AskScan(q) \/ FoldersChange(q)
        \/ \E r \in Roots : Asks(r) \/ Registers(r)
        \/ \E r \in Roots : Loads(r) \/ Creates(r)
        \/ RestoreBegins
        \/ Dispose \/ DisposeEnds

Spec == Init /\ [][Next]_vars
FairSpec == Spec /\ WF_vars(ScanStep)

-----------------------------------------------------------------------------
\* The types, and the stages of the scan.
TypeOK == /\ repos \subseteq Instances /\ gone \subseteq Instances
          /\ shown \subseteq Instances /\ closing \subseteq Instances
          /\ made \in [Roots -> Nat]
          /\ stage \in {"idle", "folders", "filter", "nested", "preserve", "filterAll", "closing"}
          /\ todo \subseteq Roots /\ cand \subseteq Roots /\ reg \subseteq Roots

\* However scans, registrations and restores interleave, a root has one
\* instance in the list.
OneInstancePerRoot == \A i, j \in repos : i[1] = j[1] => i = j

\* Whenever no scan is in progress, what the listeners of onDidOpenRepository
\* and onDidCloseRepository hold open is what the list holds, but for the strays.
ShownAreListed == stage = "idle" /\ ~disposed => shown \ strays = repos \ strays

\* What a scan finds that nobody disturbs: the repositories under the folders
\* that were listed, are a folder's root, or were named by findFiles, without
\* the secondary workspaces whose main one is among them or was listed.
Reachable == folders \cap (initial \cup Primary \cup globbed)
Expected == {r \in Reachable : IsMain(r) \/ MainOf[r] \notin Reachable \cup initial}
Lands == stage \in {"nested", "filterAll"} /\ stage' \in {"closing", "idle"} /\ task' # "error"

\* A scan during which nothing was registered, no folder changed and no list of
\* folders from before a change was stored ends with the expected repositories.
CalmScanIsRight ==
    [][Lands /\ dyn = {} /\ ~moved /\ ~disposed => RootsOf(repos') = Expected]_vars

\* No main workspace takes the place of this one.
Unrivalled(r) == IsMain(r) \/ (MainOf[r] \notin folders /\ made[MainOf[r]] = 0)
Undisturbed(r) == stage # "idle" /\ ~moved /\ ~moved' /\ ~disposed
                  /\ r \in folders /\ Unrivalled(r)

\* A repository registered before findFiles ended is not closed by the scan it
\* was registered beside, though that scan has not found it.
EarlySurvive ==
    [][\A i \in early \cap repos : Undisturbed(i[1]) => i \in repos']_vars

\* Nor is any other one registered while the scan was in progress: "preserve any
\* repositories dynamically registered", as the code's comment has it.
DynamicSurvive ==
    [][\A i \in dyn \cap repos : Undisturbed(i[1]) => i \in repos']_vars

\* After dispose() every repository ever created has been disposed, but for those
\* a restore created beside a registered one.
NothingLeaks == teardown /\ restore \in {"none", "done"} => Created \ strays \subseteq gone

\* Every scan that is asked for ends, even when the one before it fails.
EveryScanAnswered == Queue!EveryRunAnswered

\* Every instance is accounted for: listed and announced, or closed and disposed of.
InstancesAreAccounted == TypeOK /\ ShownAreListed /\ NothingLeaks
=============================================================================
