# JJ View: a verification project

JJ View is a VS Code extension and a stand-alone web application for Jujutsu. Its core
(`src/src/core`, TypeScript) is free of the editor's API and runs over a *host*: the
editor, or a browser that talks to a daemon written in Go (`src/internal`, `src/cmd`).
This directory holds TLA+ models of that core, the TLC runs that check them on small
instances, and proofs that TLAPS checks for every instance. Paths below are shortened:
`core/...` is `src/src/core/...`, `utils/...` is `src/src/utils/...`, `internal/...` is
`src/internal/...` and `web/...` is `src/web/src/...`. `PROJECT.json` has them in full.

Contents: [the system](#the-system) · [modules](#the-modules-and-the-code) ·
[runs](#the-runs) · [fairness](#fairness) · [proofs](#the-proofs) ·
[findings](#what-the-models-say-of-the-code) · [limits](#what-is-not-modelled)

## The system

The code is event driven. The TypeScript half runs on one thread, so a method is atomic
up to its next `await`; whatever it read before the `await` may be stale after it. The
Go half uses goroutines, channels and locks. The hard parts are therefore the
interleavings of callbacks, the lifetime of subscriptions, timers, repositories and
directories, what both ends of a connection believe of each other, and the two caches of
truth (the operation log on the disk, and what has been read of it).

| Component (source) | State | Operations | Interacts with | Hard behaviour | What makes it correct |
|---|---|---|---|---|---|
| DebouncingQueue (`utils/debouncing-queue.ts`) | batch being collected, cycle in flight, timer, backoff multiplier | push, flush, cancel, dispose; timer, task end | JjRepository's refreshes | calls during a run, re-entrance, cancel of a run in flight | no batch is lost or run beside another; every promise is settled by the right run; a flush never waits |
| CoalescingQueue (`utils/coalescing-queue.ts`) | active and queued promise | run; task end, its microtasks | views, repository scans | run() between the end of a task and the start of the next | one run at a time; each call answered by a run that started after it |
| AsyncCache, LruCache (`utils`) | entries with expiry, recency, fetches in flight, epoch | getOrFetch, get, set, delete, clear; fetch and hook ends | JjService, forge services | invalidation during a fetch; eviction hook that deletes a directory | nothing invalidated comes back; the hook runs once per dropped value; lookups end |
| DirectoryWatcher (`core/directory-watcher.ts`) | subscription, start and reconnect in flight, retry timer | start, stop, dispose; errors, timer | ChangeDetectionManager, host file watching | errors before `watch()` resolves, stop during start | no orphaned subscription; a started watcher hears or is on its way to |
| Poller, ChangeDetectionManager (`core`) | mode, poller, two watchers, lifecycle queue, deferred refresh | file and op head events, poll, save, window and configuration changes, dispose | DirectoryWatcher, JjRepository | deferral during jj's own writes, transitions queued behind each other, dispose amid them | no reported change is forgotten; exactly one way to detect changes; complete teardown |
| JjService (`core/jj-service.ts`) | log, diff and content caches, epoch, mutation chain | lookups, mutations, clearCache | AsyncCache, JjRepository, jj processes | caches cleared while lookups are in flight; timeouts; failing commands | nobody is answered from before what he knew; mutations take turns |
| JjRepository (`core/jj-repository.ts`) | refresh queue, last operation heads | refresh, refresh task | JjService, DebouncingQueue, ChangeDetectionManager, the views | forced refresh, failing steps | caches are cleared before the views are told |
| JjRepositoryManager (`core/jj-repository-manager.ts`) | list of repositories, registrations in flight, scan queue, cached list | scan, register, restore, dispose | CoalescingQueue, JjRepository | registrations, scans, folder changes and dispose between each other's awaits | one repository per root; none leaks; a scan finds what is there |
| CodeForgeService (`core/code-forge-service.ts`) | active provider, detection in flight | detect, settings, dispose | providers, CommentsManager | settings changed during a detection, dispose during one | the provider named is the one at work |
| CommentsManager (`core/comments-manager.ts`) | threads, the load in progress, explicit choice | pull, show, reply, focus and working copy changes | JjRepositoryManager, CodeForgeService, JjService | loads that supersede each other | what is shown is what is wanted, and never gets older |
| WebSocket RPC (`core/host/ws-rpc-channel.ts`, `internal/server/ws_rpc.go`) | socket, pending requests, partial responses; per connection: frame streams, pump, requests in progress | request, abort, ping, reconnect, dispose; dispatch, cancel, pump | RemoteHostSystem, handlers | lost and half-open connections, chunk interleaving, signals between goroutines | answers are intact and given once; no request hangs; the pump does not sleep on work |
| Event stream (`core/host/remote-host-system.ts`, `internal/server/server.go`, `internal/watcher/watcher.go`) | stream, readiness, watches; per stream: client, tracked subscriptions; hub | connect, watch, unsubscribe, reconnect, dispose; handle, track, clean up, batch | WebSocket RPC, DirectoryWatcher | streams that end while watches are made, renamed or given up | both ends agree on the watches; changes are told; the stream comes back or is given up |
| Merge editor (`web/merge`), line drift (`utils/line-drift.ts`) | document of segments, result text | merge, resolve, ignore, toggle, type | the editor view, CommentsManager | edits that touch; text edited by hand | nothing is lost or taken twice; resolutions say what the lines are |
| Webview controllers (`core/controllers`) | view state, drafts, saves | refresh, select, save | CoalescingQueue, webviews | save against refresh | the newest selection is shown, no draft is lost |
| Providers, process tracker, SCM and file system models, hosts, user interface, the daemon's files, processes, state and secrets | the services', the editor's, the page's, the disk's | adapters and conversions | everything above | – | – |

`PROJECT.json` lists the components with their status and, under `hazards`, what in this
code is hard to test, at the line where it bites, with the properties that watch it.

## The modules and the code

```
SerialCoalescer  <--implements--  DebouncingQueue      (UtilsProofs)
                 <--implements--  CoalescingQueue      (RepositoryManagerProofs)
RepositoryManager  --is, of its scans, a--> CoalescingQueue  (RepositoryManagerProofs)
AsyncCache                                             (UtilsProofs; over the LRU cache)
DirectoryWatcher                                       (ChangeDetectionProofs)
   ...seen through its promises by...
ChangeDetection    EXTENDS Poller                      (ChangeDetectionProofs)
WsRpc              EXTENDS WsFrames                    (WsRpcProofs; browser and daemon)
EventStream                                            (EventStreamProofs; page, daemon, hub)
JjService                                              (JjServiceProofs)
Comments           EXTENDS CodeForge                   (EditorProofs)
ThreeWayMerge      EXTENDS LineDrift EXTENDS SequenceDiff  (DiffProofs, EditorProofs)
MCxxx.tla          give constants values; MCxxx.cfg are the runs
```

Every module says at its top which files it models, what it takes as external and which
of its variables only record history. Names are the source's where TLA+ allows. A method
is one action up to its first `await`, and each continuation is an action of its own; in
the Go half a step is what happens between two points at which another goroutine can
act. Definitions named `...Forgetting`, `...Keeping`, `...Quietly` and the like, which
no action of the specification uses, are plausible mistakes: each is put in place of the
definition after it to see that a property notices.

**SerialCoalescer** states what a run queue promises: requests wait, a run takes all that
wait, one run at a time, each request answered with the outcome of the run that took it,
and never by a run that had already started when it was made.

**DebouncingQueue.** `pending`, `active`, `timer`, `multiplier`, `disposed` are the
fields; `promise` is what each call of push was told and `executed` the payloads whose
task ended. `Push`, `Flush`, `Cancel`, `Dispose` are the methods, `TimerFires` the
timeout's callback, `TaskSettles` and `FinishCycle` the two halves of `_runCycle` after
its `await`. The delay is abstracted to its factor. Payloads merge by union, as
JjRepository merges them.

**CoalescingQueue.** `active` and `queued` are the promises, as the sets of calls that
hold them; `Release` and `StartQueued` are the two microtasks between a task's end and
the next run. A task does not call run() before its first await: no user's does.

**AsyncCache.** `entry` and `recency` are the LRU map and its key order, `current` the
fetches in flight, `epoch` the counter clear() advances; a fetch goes through the stages
of `_fetchAndStore`, a call through those of `getOrFetch`. All combinations of eviction
hook, keepStaleOnError and expiry are initial states. `clock`, `born`, `invalidated` and
`evictions` record history.

**DirectoryWatcher.** `sub` is what the provider knows of each subscription,
`subscription`, `timer`, `isReconnecting`, `retryCount`, `stopped`, `disposed` are the
fields, `starting`, `attempt` and `stopping` the promises in flight and where they wait.
A subscription may report an error before `watch()` has resolved; `promised` records that
a start got one that works.

**Poller** and **ChangeDetection.** The poller's loop; the manager's mode, its two
watchers, its lifecycle queue (`tasks`, `modeTask`), the op heads watcher with its
retries, the deferred refresh with `pendingForce`, and the teardown. The watchers are
seen through what `DirectoryWatcher` promises. `owed` records which reported changes no
refresh has covered yet. Without an op_heads/heads directory (`opSubdir`) an event makes
the handler read the checkout file first: `reads` are the reads under way, which dispose()
does not wait for. `late` counts the refreshes asked for after the teardown and `unread`
the reads that were under way when it ended.

**WsFrames** and **WsRpc.** How a response is cut into `$/chunk` frames, what
`encoding/json` does to a cut character, and how parts are joined; then the two ends of
each connection. The browser's fields are `current`, `sock`, `pending`, `chunks`,
`attempts`, `timer`, `disposed`; the daemon's are, per connection, `conn`, `streams`,
`wake` and `pump`, and per request `work` and `home`. `up` and `down` are the two
directions of the wire, in order; a connection in `dead` delivers nothing more and tells
nobody.

**EventStream.** The page's `es`, `attempts`, `timer`, `ready` and `listed` (with each
directory's `name`, its subscription id) are RemoteHostSystem's fields; `task` and `todo`
say where what follows each stream's `onopen` has got to: the handshake, then
`_reconnectWatchers` over its snapshot, one request at a time. Who waits for `ready` is
"parked" while the promise it waits for is the present one and "abandoned" once another
has replaced it. The daemon registers a stream (`Registers`) before the page hears of it
(`Opens`); it registers the streams of a page in the order they are asked for in, since an
EventSource asks again only once it has lost the one before. The daemon has a client per stream (`handler`,
`tracked`), one of them `registered` under the page's id, and the `hub` with the changes
it batches (`pend`). What is sent on a stream the network has broken is lost, and each
end learns of that in its own time; the hub may refuse a watch and the daemon may be
restarted. RPCs are calls of `WsRpc`, seen as requests that are answered or fail, and may
fail at any time (`WatchFails`, `RewatchFails`): the daemon goes on with such a request,
whose subscription nobody owns until the cleanup of the stream it was sent on removes it.

**JjService.** `op` numbers the repository's operations and doubles as the version of
whatever is read from it. `cached` holds the log, diff and content caches; `reader` the
lookups in flight; `mutation` and `chain` the commands on `_mutationMutex`; `refresh` and
`lastHeads` the task of JjRepository. `current` of a lookup says that the epoch it
captured is still the cache's, so the counters need no bound. `told` is the newest
operation that anybody outside was told of: by a mutation's return or by
`onDidStatusChange`. What AsyncCache does inside (two lookups joining a fetch) is left to
its own module.

**RepositoryManager.** `repos` is the list, `made` and `gone` count the instances created
and disposed of, `shown` is what listeners were told. A scan goes through the stages of
`doScan` and `reconcileCandidates` (folders, filter, nested, preserve, filterAll,
closing); `reg` are the registrations whose probe is over, `restore` and what follows it
the restoring of the cached list. The queue's variables are those of CoalescingQueue,
instantiated: a scan's end settles its task. `dyn`, `early` and `moved` record what
happened beside the scan; `strays` the instances a restore creates beside a registered
one, which the code leaves unannounced.

**CodeForge** and **Comments.** The detection of the active provider, with the settings
it sampled, the provider it found active and the providers it asks; then the loads of
CommentsManager for whatever repository has the focus, composed with the detection of one
repository. `load` is the load that is not aborted and `aborted` those that are and have
not ended; `version` are the server's comments, raised by a reply; `owed` the status
events under way after a checkout. `blemish` records that the last load failed, was
skipped or was cut short by a reply's refresh, after which nobody promises that the
present comments are shown. `shown` is the active change with its threads; dispose() takes
only the threads, so that a reply under way still refreshes the change.

**SequenceDiff, LineDrift, ThreeWayMerge.** Myers' algorithm as the code has it (trace of
furthest points, backtracking, trimmed ends); the mapping of a line across the hunks of a
diff; the merge of three texts into segments, the combination of both sides word by word,
and the document under the editor's steps: resolving, ignoring a side, toggling, accepting
all, typing in a hunk, and typing in the whole text, whose lines are dealt out to the
segments by another diff. A loop of the code is a recursive function of the number of its
rounds (`after[n]`), with as many rounds as it can have, so that theorems can be stated of
it.

## The runs

From this directory: `tlc -workers 2 -config MCxxx.cfg Module.tla`. `CHECK_DEADLOCK
FALSE` is set throughout because every component may come to rest: a disposed queue, a
watcher that gave up, a cache nobody calls, a user who has typed enough.

A property that joins several names its parts in its definition; the type invariant of a
module is a part of one of them.

| Run | Bounds (distinct states) | Properties | What it shows |
|---|---|---|---|
| `debouncing_queue` | 4 pushes, one without payload, factor up to 2 (13,349) | `BatchesMoveOn`, `AnsweredWereExecuted`, `EveryPushAnswered`, `CoalescerSpec` | A batch always has something that will wake it; a flush is never debounced; a call is answered by a run that had its payload; the queue is a SerialCoalescer. Four calls allow one in flight, one batch behind it, one call on top and one after a cancel. |
| `async_cache` | 2 lookups and a set() of one key, a set() of a key that evicts it, 2 invalidations, capacity 1, 1 retry, all options (343,816) | `FetchesAreShared`, `DroppedOnce`, `SetWins`, `EveryCallEnds` | What was invalidated is neither kept nor returned but by a last attempt; the hook runs once; fetches are shared; a set() survives an older fetch. One retry and two invalidations reach the last attempt. |
| `directory_watcher` | 3 subscriptions, 2 starts, 2 retries (6,879) | `NothingLeftOpen`, `NeverDeaf`, `TransitionsEnd` | Under errors, reconnects, limits and stops at any moment one live subscription at most is held, none after a stop, and a watcher whose start got a working one hears or is on its way. |
| `change_detection` | 2 overlapping polls, 2 writes or op head events, 2 configuration changes, 2 op head tries, with or without op_heads/heads (615,092) | `NothingOwedIsForgotten`, `ChangesAreDetected`, `TornDownIsSilent`, `DebtsArePaid` | A deferral never forgets a change or its need of a snapshot; transitions end with exactly one way to detect changes; the teardown comes, and after it only reads of the checkout file that were under way call back, once each. |
| `ws_rpc` | 1 connection, responses of 3 and 2 chunks, pings, aborts, loss, failing writes (501,709) | `AnswersAreIntact`, `PumpServesAll` | Interleaved chunks are joined right; round robin starves nobody; a signal to the pump is never lost. |
| `ws_recovery` | 2 connections in succession, 1 request answered in one plain frame, 1 reconnect attempt (328,020) | `NeverReplayed`, `UpOrOver`, `EveryRequestSettles` | However a connection is lost, unnoticed included, the keepalive alone settles the request, nothing is executed twice, and the channel returns or gives up. |
| `ws_accents` | a two-byte character across a chunk boundary | `AnswersAreIntact` (violated) | See the findings. |
| `event_stream` | 1 directory, 2 streams, 3 subscriptions in the hub, 1 reconnect attempt (242,594) | `SomeoneSettlesReady`, `WatchesAgree`, `CallsEnd`, `ChangesAreReported`, `ReconnectsOrGivesUp` | Whoever waits for the present promise of readiness has somebody left to settle it; every watch() that was not left behind by a new promise, every unwatch and every re-watch ends, whatever fails beside it; after every order of loss, cleanup, re-watch and unsubscribe a listed watch that was asked for on the present stream is alive in the hub; what it saw is told. Two streams give one that ends beside one that begins; three subscriptions give one to each and one more. |
| `jj_service` | 1 client, 2 mutating commands, 3 retries as in the code, 1 operation (658,416) | `ReadsAreCurrent`, `LookupsEnd` | Lookups, commands, foreign operations and refreshes in any order: a lookup through the log or diff cache never answers from before what its caller knew, last attempts apart, and ends however often the caches are cleared. Calls repeat without bound; one operation makes the old and the new version the property tells apart. |
| `repository_manager` | a main workspace and a secondary one of it, the latter cached, 2 scans, 1 change of the folders (474,909) | `OneInstancePerRoot`, `InstancesAreAccounted`, `CalmScanIsRight`, `EarlySurvive`, `EveryScanAnswered` | Scans, registrations, a restore and dispose() interleaved: one instance per root, none leaks, an undisturbed scan ends with exactly what it should find, and who asks for a scan is answered by one. Two scans are the one in progress and the one queued. |
| `comments` | 2 repositories, 3 changes, 2 providers, 1 explicit request, 1 reply, 2 moves of focus or working copy, 1 change of settings (1,438,143) | `SettledShowsWanted`, `OneProviderAtWork`, `NeverOlder`, `PullsResume` | Whatever loads supersede each other, what stays shown is what is wanted and never older than before; explicit loads never block the automatic ones for good; one provider is at work. |
| `three_way_merge` | all merges of 11 texts of up to 3 lines, then any 2 steps, 4 texts typed (51,532) | `MergeTakesAll`, `ResolutionsAreTrue`, `DriftFollowsText`, `TextIsDocument` | The segments hold all lines of the three texts and one-sided changes are taken; whatever the user does a hunk's resolution says what its lines are, and the text is the document's. Texts of three lines of two words have edits that touch, insert at one place, and combine inside a line. |

Every passing property has an entry under `mutants` in `PROJECT.json`: a change of the
code's model under which TLC refutes the property with the same bounds.

The bounds on counters are constants named `Max...` and guard the actions they bound.

## Fairness

Safety runs use `Spec`, or `FairSpec` where a liveness property is in the same run.

* *Timers fire and microtasks run*: the JavaScript event loop guarantees both
  (`TimerFires`, `FinishCycle`, `Release`, `DeferredFires`, ...).
* *A jj process ends*: `execTracked` kills it at its timeout, so tasks, fetches and
  lookups settle. Which way they settle is left open. The same holds of the probes of a
  scan and of `findFiles`.
* *`watch()` and `unsubscribe()` settle*: they are calls of the native watcher or RPCs
  with a timeout. No fairness is assumed of events, errors, or of users' calls.
* *The network delivers on a connection that is up*: in `WsRpc` nothing obliges a dead
  connection to be noticed by TCP, and no request is obliged to time out or be aborted;
  `EveryRequestSettles` rests on the keepalive's timers only.
* *In EventStream* a request that was sent is answered or fails, since RPCs have a
  timeout, and an EventSource that asks is served or refused. Stages of one task that
  follow each other, with their outcomes, share one fairness condition. Nothing makes the
  network fail or a directory change.
* *Comment loads end* (`LoadSteps`, `AbortedEnds`): jj has its timeout and the forge's
  requests theirs.
* *Goroutines run* (`ReadFrame`, the pump, the handlers, the hub's loop).

All of it is weak fairness.

## The proofs

`tlapm UtilsProofs.tla`, and so on; EditorProofs uses the lemmas of DiffProofs, and the two
take some ten minutes each. The theorems hold for every value of the constants that meets
the `ASSUME` of the module; TLC evaluates those assumptions in the runs. Each inductive invariant was model-checked before it was proved.

**UtilsProofs, the queue** (any calls, any maximum multiplier). The inductive invariant is
`WakeInv`: the types, `NoLostWakeup`, `FlushedNeverDebounced` and `NoConcurrentCycle`.
None is inductive alone: that a batch has a timer *or* a cycle is kept by a timer that
fires only because no cycle is then in flight, and a flush relies on the cycle in flight
looking at the batch when it ends. `FieldsKeepTypes`, `WakeupNeverLost`, `FlushIsImmediate`,
and together `EveryBatchMovesOn`. `LoadInv` adds what a batch carries: it has callers, and
the payload of each of them, from the push that opened it to the end of its task.
`AnsweredAfterExecution` follows, and `ImplementsCoalescer`: a start or a drop of the
coalescer needs a batch with callers, and a cycle starts only beside no other.

**JjServiceProofs** (any clients and commands, any number of operations and of retries).
The property to prove is `ReadsAreCurrent`, which speaks of lookups that have ended. Why
it holds is a statement about what *may still be* read, `Sound(v)`: neither the caches
nor the replies that may still enter them are older than operation v, what a last
attempt stored apart. The inductive invariant `IInv` says:

* what is known is sound (`KnownIsSound`): what the views and callers were told; what
  the last refresh listed, because the caches were cleared after it was listed, and a
  refresh that lists the same heads again may announce them without clearing; and what a
  command wrote whose caches have just been cleared, though it has not returned;
* nothing is known that is not recorded (`KnownIsRecorded`), so that a query sent now
  answers with something sound;
* a lookup in flight has what it needs (`CallsOK`), and a reply is no older than what
  its client knew;
* the command at work heads the chain (`Turns`), from which follows that commands take
  turns.

`ClearingIsSound` is the heart: after a clear *every* version is sound, because the
caches are empty and `current` is off for all that is in flight. The lookups' steps come
down to two lemmas, that they go on with a call that is in order (`GoesOn`) and that what
they put into a cache leaves it as sound as it was (`GoingOn`). Theorems:
`ServiceTypeCorrect`, `NothingOldIsServed`.

**UtilsProofs, the cache** (any keys, callers, writes, invalidations, retries and size; all
options). A fetch that an invalidation has made old is one the cache no longer holds as
current, so it can neither be joined nor stored: the inductive invariant says of each
fetch whether it is current, in which stage it is and what it has read, of each entry and
each pending hook where its value came from, and of each caller which fetch it waits for.
`LookupsShareFetches` (two fetches of one key only across an invalidation, nothing old
returned or kept but by a last attempt), `DropsAreCounted` (each value that leaves goes
through the hook once), and `SetsOutliveFetches`, an action property under the options of
the forge caches.

**WsRpcProofs** (any requests, connections, losses, frame counts). Two invariants.
`Steady` is about the connection and the daemon: the socket, timer and attempts of the
channel, where each request's handler runs and on which connection, and the pump: frames
waiting in a stream mean a signal in `wake` or a pump that is looking. From it
`RequestsRunOnce`, `ChannelIsUpOrOver` and `PumpServes`. `Delivery` follows an answer on
its way: the frames of one request in the daemon's stream, on the wire and in the
browser's `chunks` are, put one after the other, a part without gaps of what its handler
produced, beginning where the browser's part ends; streams of different requests never
mix because each frame carries its request. `AnswersAreTheirOwn` has one hypothesis,
`Joins(r)`, that the frames of a response join to its text, which is exactly what
`ws_accents` finds to fail for a character cut in two; `SmallOrAsciiAnswers` shows it for
every response of one frame, and for every text of one-byte characters at any length and
chunk size. The last needs induction over the number of frames. The library's theorems
about it take an operator; `InductionOverNat` states it for a set of numbers instead and
is proved from the induction on finite sets, after which what the recursive functions
behind FlattenSeq compute can be proved too.

**DirectoryWatcher**, in ChangeDetectionProofs (any numbers of subscriptions, starts and
retries). `WatcherInv` says who owns a subscription (`WatcherOwned`): the field, or the
start in flight, never both, because a start asks for one only where there is none; what
a halted watcher has given up already and what `stopInternal` gives up when it has waited
(`WatcherGivenUp`); and what stands behind a promise to report changes (`WatcherKept`), so
that each way to lose the subscription leaves a timer or an attempt.
`NothingIsLeftOpen`, `NobodyGoesDeaf`.

**ChangeDetectionProofs** (any numbers of events, settings and retries). Six parts, each
with a lemma of its own: where refreshes stand (`Owing`), the poller's loop (`Looping`),
what the lifecycle queue holds (`Queued`: the teardown comes last and once), what is over
once it has begun (`Ending`), what detects changes while no transition runs and what
each stage of one is up to (`Detecting`), and who may still call back (`Silent`). The
teardown is complete *because* it is queued: when it runs, no transition is left that
could start a watcher. The reads of the checkout file are what it does not wait for; their
number only falls from then on.
`NothingIsForgotten`, `SomethingDetects`, `TeardownIsComplete`.

**EventStreamProofs** (any directories, streams, subscriptions and attempts). Who waits for
the present promise waits for one that is pending (`ParkedIsPending`), which it is only
while a timer, a connecting stream or a handshake will settle it (`PendingIsAwaited`);
dispose() is the exception that must wait for nothing (`DisposedIsQuiet`).
`WaitersAreSettled`, which says nothing of those whose promise was replaced. For what
page, daemon and hub believe of the watches, `HubInv`: an identifier that was given out
has one owner (`IdsGiven`, `OneOwner`), a request the daemon works on was sent on a stream
that is not newer than the page's (`SentTo`, `Order`), and a subscription that was asked
for on the stream the page follows is alive in the hub as long as that stream is not
broken (`AskedAreAlive`), because only the end of that stream's handler, or an unsubscribe
the page itself sent, removes it.
`WatchesAlwaysAgree`.

**RepositoryManagerProofs** (any roots, folders, cached list and number of scans).

* *The list.* It is given only fresh instances of roots it lacks, and those a restore has
  loaded; `LoadedOnce` says that a restore holds at most one of each root, and none of a
  root it has still to load. `OneInstance`.
* *The queue.* `HeldInv` is the types of CoalescingQueue with `UnsettledAreHeld`; from it
  `QueueTypeCorrect`, `NobodyForgotten` and `ImplementsCoalescer`, which hold of any such
  queue. `ScansKeepToTheQueue`: every step of the manager is a step of the queue or leaves
  its variables alone, so the scans inherit them: `NoScanIsForgotten`,
  `ScansAreCoalesced`.
* *The instances.* `ListInv`: whatever was created is in the list, is being closed, was
  disposed of, is held by the restore, or is a stray (`Kept`), a fresh instance being none
  of those (`Numbered`); the listeners' view differs from the list by what the closing
  scan has still to announce (`Announced`); and no scan outlives the queue's task
  (`Phases`), so that nothing is created after the teardown.
  `EveryInstanceIsAccounted`.
* *The search.* `FoundInv`: while the folders a scan saw are the present ones, what it can
  reach is a candidate or has still to be probed (`Complete`), and if nothing was
  registered beside it, it has no other candidate (`NothingElse`). With `ListShrinks`, that
  only the last reconciliation takes anything from the list, `EarlyOnesSurvive` and
  `CalmScansAreRight`, both action properties.

**EditorProofs, comments** (any repositories, changes, providers and bounds). A detection
replaces the provider it found active, and nothing but dispose() changes that one
meanwhile: `ProviderAtWork`. A load's comments are no newer than the server's and no older
than any shown before it began, because the load that would show newer ones has aborted
it: `CommentsNeverGetOlder`, an action property from `CommentsInv`.
`SettledAlwaysShowsWanted` is about the rest state; `OnAim` makes it inductive by saying
what each stage of the load in progress is on its way to: one that looks a change up has
the explicit choice, one that fetches or adapts has what is wanted by now, and whatever
changes what is wanted starts a new load, owes a status event or leaves the blemish.

**EditorProofs, the merge editor** (any texts, any number of steps). `DocumentInv` gives
every segment its fields and every hunk the truth of its resolution; each step of the user
keeps it, `InferredIsTrue` being the one that decides, for text typed over a hunk:
whatever the inference answers but "custom" is what those lines are. A recursive function
is opaque to the prover until it is known to exist: `RoundsExist` builds it from its finite
parts, after which `MergeIsFresh` goes by induction over the rounds of the merge: what it
makes is a sequence of clean segments and unhandled hunks that have the base's lines.
`ResolutionsStayTrue`.

**DiffProofs, the diff** (any two sequences). `myersDiff` goes forward by rounds and then
back through the points they reached, and neither is checked for the bounds it relies on.
Forward, `EditTraceIs` shows that the points of each round lie within both sequences or one
step past them, and that every round gets further (`DeepArrives`), so that the end is
reached, first at a point of the last round's (`ArrivalIsExact`). Back, `WayBackIs` follows
the legs: each step is an insertion or a deletion and then a snake of equal items, and the
last begins at the start of both. `MatchesAreCommon`: what the diff matches, together with
the items the sequences begin and end with, is a common subsequence of the two.
`EditsRewrite` goes on from there by induction over the matches in their order (`AnchorsAre`):
`Redone` says that the edits so far and what was matched since make as much of the second
sequence (`RedoneGap`, `RedoneMatch`), so that all of them make all of it.

**DiffProofs, the drift of lines** (any two texts). The same induction gives `EditsSay`:
the edits are a script of both sequences, what is between two of them is even on both sides,
they do not touch, and every match is in such a part. The loop over the hunks is a recursive
function (`DriftingExists`) that goes past a hunk exactly when the line is behind what the
hunk replaces; by then the offset it has added up is that of the script at this place
(`LineGoes`). `LineLands` bounds where the line goes by what the edits before it and the
next one end with on the other side, which orders the lines of different places; within one
place `LinesKeepOrder` does. `DriftAlwaysFollows`.

**EditorProofs, the merge** (any three texts, any number of steps). The loop of
`computeThreeWayMerge` is at a place in each text that only `EditsSay` relates: `Ahead` says
that with the edits taken so far gone, base and side are even from that place to the next
edit, and `Taken` that the segments made hold all lines up to it. Each kind of round keeps
both (`LeftTakes`, `RightTakes`, `UnchangedTakes`); for a cluster, `AbsorbSideTakes` follows
the edits of one side into it, `AbsorbBothTakes` those of both, and `ClusterCollects` shows
that the last round leaves no edit that overlaps it, which is when a cluster's end on a side
is where that side's last edit says (`SideEndIs`). `MergeTakes`: every round takes an edit,
so that the rounds end at the ends of the texts, and a merge of which one side is all there
is renders that side. The steps of the user leave of every segment what it has of the three
texts (`Follows`), and its lines are lines: for a resolution that combines both sides,
`CombinedTyped` and `ApplyTyped` go through the word edits of both. `MergeAlwaysTakesAll`,
from `EditorInv`.

For text that was typed, `BoundaryBetween` shows that a segment begins no earlier than the
one before it and within the text, whatever the diff matches, so that the slices the segments
get are all of the text (`BoundsCut`, `CutsJoin`), and `SyncedFollows` that each segment
takes its slice as it is. `TextStaysDocument`.

**Only model-checked**: every liveness property (fairness and ENABLED are beyond the
prover). Every safety property that a run checks is proved.

## What the models say of the code

One run finds the code to do other than a comment says; the quotation is in
`PROJECT.json` under `findings`:

* `ws_accents` — `internal/server/ws_rpc.go:300`: a chunk boundary inside a character
  destroys it, though the comment at :280 says that splitting there is harmless.

More was met while modelling. Where a property stating the promise is kept in its module
though no run checks it, it is named; TLC refutes each of these with the bounds of the
module's run, unless other ones are given.

* `core/directory-watcher.ts:155` keeps a subscription whose error handler ran before
  `watch()` resolved; the reconnect then takes it for a working one, though a test says
  'reconnects after subscription error'. `NeverDeaf` promises nothing of such a start.
* `core/poller.ts:25`: stop() and start() during a poll begin a second one beside it; the
  class's doc promises one at a time (`OnePollAtATime`).
* `core/jj-service.ts:924`: getDiffContent stores after clearCache() what it read before
  it; getDiffBinaryContent likewise at :1020. getLog guards its store
  (`ContentIsCurrent`).
* `internal/server/server.go:1186`: the handler of an ended stream removes whatever is
  registered under its client's id, a newer stream's client too; that stream then gets no
  events until it ends (`OpenStreamIsNotified`).
* `core/host/remote-host-system.ts:905`: when a stream that is asked for is refused, a new
  promise of readiness replaces one that is still pending. Who waited for that one, a
  watch() or any request(), waits for good (`NobodyIsLeftBehind`), dispose() included,
  though a test says that it rejects what is pending (`DisposeSettlesRequests`); the
  unwatch of an unsubscribe() is lost in the same way.
* `core/host/remote-host-system.ts:742`: when the handshake fails on a stream that stays
  open, the listed watches are not set up again. A watch answered after the next stream's
  snapshot was taken, or two re-watches that overlap, may leave a listed watch to be
  cleaned up with the earlier stream. After a reconnect changes that happened in between
  are told to nobody.
* `core/change-detection-manager.ts:280-301`: without an op_heads/heads directory the
  handler reads the checkout file and then goes on without a look at `_disposed`: it may
  ask for a refresh, or arm the deferral, after dispose() has ended
  (`SilentAfterTeardown`). The deferral does nothing then (:60), and JjRepository has
  disposed of its refresh queue before, so that the refresh is dropped.
* `core/jj-repository-manager.ts:929`: a list of the workspace folders that is being made
  when the folders change is stored after the change has cleared it (:121); the scans that
  follow see the old folders until the next change. `CalmScanIsRight` speaks of scans that
  saw the present ones.
* `core/jj-repository-manager.ts:512`: a repository registered after the early ones were
  collected is closed by the scan in progress, though the comment says it is preserved
  (`DynamicSurvive`, refuted when no workspace is a folder's root: `MCPrimary == {}`). The
  comment at :326 says that a queued call's promise resolves with the running scan;
  it is the next one.
* `core/jj-repository-manager.ts:308`: a restore may create a second instance beside a
  registered one, which is neither listed nor disposed of: the `strays`.
* `core/code-forge-service.ts:229`: a detection under way at dispose() activates the
  provider it finds (`DisposedIsInactive`); one that has sampled the settings joins the
  call their change makes, which is then lost.
* `core/comments-manager.ts:103`: with no repository focused loads are not aborted, and a
  change of focus during an explicit load pulls nothing: comments of another repository
  stay or come (`CommentsFollowFocus`). :143: an aborted lookup still notes the working
  copy. :296: the refresh after a reply aborts whatever load is in progress, and after
  dispose() (:719) it still loads and shows.
* `web/merge/three-way-merge.ts:1152`: text edited by hand that differs in the newline at
  its end only leaves the document's as it was (`NewlineIsKept`). :1157-1213: a merge of
  three empty texts has no segments, so that what is typed into its result belongs to none
  and is lost from the document; the model begins with a merge of something (`EditorInit`).
* `utils/debouncing-queue.ts:89`: flush() clears the timer that would reset the
  multiplier, so that the backoff outlives the burst. Runs are only later than they might
  be.
* `utils/async-cache.ts:137-142`: with keepStaleOnError and a hook together, an
  invalidation during the hook's await goes unseen. No user combines the two. :85:
  joining another lookup's fetch counts as an attempt, and what a last attempt stores may
  stay until the next clear though it is stale or leaks its predecessor's directory.
  :131-133: without keepStaleOnError a failed fetch that found an expired entry deletes a
  newer value of its key. get() of an expired entry and set() over a value bypass the
  hook.
* `core/jj-service.ts:887`: the hook may remove the directory while getDiffContent reads
  it; only both sides missing is noticed, one missing side reads as empty.
* `core/jj-repository.ts:67`: a refresh that fails swallows its event: in watch mode
  nothing tries again. A command that times out leaves the caches as they were and lets
  the next one begin, though the killed process may still commit.
* `internal/server/ws_rpc.go:219,228`: a `$/cancelRequest` that overtakes the registration
  of its request is lost; the request runs to its end and its answer is dropped.
* `core/controllers/commit-details-controller.ts:383` (read, not modelled): a third save()
  while the queued second one runs sees neither promise and runs beside it.

## What is not modelled

* Time. A timer that is armed may fire at any moment; lengths of delays, the growth of
  the debounce and of the reconnect delays are abstracted, save the factor's cap.
* Command lines, parsing and formatting of jj's output, paths and URIs: data conversion,
  for which unit tests are the better tool. Most of the repository's code is of this kind
  or presentation (the Svelte components of `web`, the providers' protocols).
* Start-up authentication, process execution, key storage, file transfer: I/O.
* The editor and the page, whose state is not this code's.
* The composition of JjRepository's queue, its refresh task and ChangeDetection with the
  caches of JjService: each is modelled, but their joint state space is beyond TLC at any
  bound at which the interesting cases happen.
* The details view's drafts and saves, the log view's selection and the webview RPC
  dispatcher: a module of its own would be the next one worth writing, and its first
  hazard is listed.
* The focus of JjRepositoryManager, the polling of CodeForgeService, the hub's recursive
  directories, the merge editor's parsing of conflict markers, the expansion of diff
  hunks: parts of modelled components, left out as `PROJECT.json` says of each.

Theorems that would be worth proving next: that ChangeDetection's view of its watchers is
what DirectoryWatcher does; and that WsRpc's requests are the answered or failed calls
EventStream takes them for.
